----------------------- MODULE MessageTransactionProofs -----------------------
(***************************************************************************)
(* Theorems about MessageTransaction, for every set of settings, and any   *)
(* number of calls and messages.                                           *)
(*                                                                         *)
(* None of the promises is inductive.  CallInv is what they rest on: how   *)
(* far the tries came, what execute() made of each, and that the field     *)
(* `executed` is set when a call returns and at no other time.             *)
(***************************************************************************)
EXTENDS MessageTransaction, TLAPS

\* A try that was not made yet has left no trace.
Untouched(t) ==
  /\ content[t] = Null
  /\ stream[t] = "none"
  /\ network[t] = "none"
  /\ confirmed[t] = 0
  /\ t \notin failed \cup thrown

FutureOK == \A t \in Tries : t > try => Untouched(t)
MadeOK == \A t \in Tries : t <= try => content[t] # Null
ReceivedOK ==
  \A t \in Tries : /\ cursor[t] <= Len(topic)
                   /\ confirmed[t] <= cursor[t]
RunningOK == phase # "idle" => try \in Tries /\ ~executed

CallInv == FutureOK /\ MadeOK /\ ReceivedOK /\ RunningOK

-----------------------------------------------------------------------------
\* Envelopes.

\* What a signature makes of an envelope.
LEMMA SignTypes ==
  ASSUME NEW e \in Envelope, NEW key \in Keys
  PROVE  Sign(e, key) \in Envelope
  BY DEF Sign, Envelope, Signature

\* The attributes get one more layer.
LEMMA EncryptTypes ==
  ASSUME NEW e \in Envelope, NEW t \in Nat
  PROVE  Encrypt(e, t) \in Envelope
<1>1. Encrypter(e.message, t) \in Message
  BY DEF Encrypter, Envelope, Message
<1> QED
  BY <1>1 DEF Encrypt, Envelope

\* An envelope of a new message.
LEMMA BuildTypes ==
  ASSUME NEW t \in Nat
  PROVE  BuildMessage(t) \in Envelope
  BY DEF BuildMessage, Envelope, Message, Signature

\* A valid call makes an envelope: there is a key if it must be signed.
LEMMA MakeTypes ==
  ASSUME TypeOK, Valid, NEW t \in Nat
  PROVE  Make(t) \in Envelope
<1> DEFINE e == IF message = Null THEN BuildMessage(t) ELSE message
<1>1. e \in Envelope
  BY BuildTypes DEF TypeOK
<1>2. Encrypted(e, t) \in Envelope
  BY <1>1, EncryptTypes DEF Encrypted
<1>3. Encrypted(e, t).signature = e.signature
  BY <1>1 DEF Encrypted, Encrypt, Envelope
<1>4. e.signature = Null => setting.key \in Keys
  <2>1. setting.key \in Keys \cup {Null}
    BY TransactionAssumption DEF TransactionAssumption, TypeOK, Setting
  <2>2. message # Null /\ message.signature \notin {Null, Empty} => e.signature # Null
    OBVIOUS
  <2> QED
    BY <2>1, <2>2 DEF Valid
<1>5. Signed(Encrypted(e, t)) \in Envelope
  BY <1>2, <1>3, <1>4, SignTypes DEF Signed
<1> QED
  BY <1>5 DEF Make

\* What others submit is an envelope too.
LEMMA OthersTypes == TypeOK => Others \subseteq Envelope
<1> SUFFICES ASSUME TypeOK PROVE Others \subseteq Envelope
  OBVIOUS
<1>1. Foreign \in Envelope
  <2>1. MaxTries + 1 \in Nat /\ "wrong" \in Keys
    BY TransactionAssumption DEF TransactionAssumption, Keys
  <2> QED
    BY <2>1, BuildTypes, SignTypes DEF Foreign
<1>2. {message} \ {Null} \subseteq Envelope
  BY DEF TypeOK
<1>3. \A i \in 1..Len(topic) : topic[i] \in Envelope
  BY DEF TypeOK
<1> QED
  BY <1>1, <1>2, <1>3 DEF Others

\* Closing a listener leaves the streams of the others, and what was not open.
LEMMA UnsubscribedIs ==
  ASSUME TypeOK
  PROVE  /\ Unsubscribed \in [Tries -> {"none", "open", "closed", "lost"}]
         /\ \A t \in Tries : stream[t] = "none" => Unsubscribed[t] = "none"
  BY DEF TypeOK, Unsubscribed

-----------------------------------------------------------------------------
\* Types, with CallInv, without which a call could leave the bounds.

\* A new transaction has made no call.
LEMMA CallInit == Init => TypeOK /\ CallInv
<1> SUFFICES ASSUME Init PROVE TypeOK /\ CallInv
  OBVIOUS
<1>1. MaxTries \in Nat /\ MaxTopic \in Nat /\ setting \in Setting
  BY TransactionAssumption DEF TransactionAssumption, Init
<1>2. TypeOK
  <2>1. setting.prepared \in Envelope \cup {Null}
    BY <1>1 DEF Setting
  <2>2. topic \in Seq(Envelope) /\ Len(topic) <= MaxTopic
    BY <1>1 DEF Init
  <2>3. /\ cursor \in [Tries -> 0..MaxTopic] /\ confirmed \in [Tries -> 0..MaxTopic]
        /\ try \in 0..MaxTries /\ listener \in 0..MaxTries
    BY <1>1 DEF Init
  <2> QED
    BY <1>1, <2>1, <2>2, <2>3 DEF Init, TypeOK
<1>3. CallInv
  BY <1>1 DEF Init, CallInv, FutureOK, Untouched, MadeOK, ReceivedOK, RunningOK, Tries
<1> QED
  BY <1>2, <1>3

\* A call of execute() begins.
LEMMA CallExecute ==
  ASSUME TypeOK, CallInv, Execute
  PROVE  TypeOK' /\ CallInv'
<1> DEFINE t == try + 1
<1>1. /\ MaxTries \in Nat /\ MaxTopic \in Nat
      /\ try \in Nat /\ t \in Tries /\ t \in Nat /\ try' = t
  BY TransactionAssumption DEF TransactionAssumption, TypeOK, Execute, Tries
<1>2. Make(t) \in Envelope /\ Make(t) # Null
  BY <1>1, MakeTypes, TransactionAssumption DEF TransactionAssumption, Execute
<1>3. /\ content' = [content EXCEPT ![t] = Make(t)]
      /\ message' = IF message = Null THEN Null ELSE Make(t)
      /\ phase' \in {"subscribing", "submitting"}
      /\ ~executed
      /\ UNCHANGED <<setting, executed, assigned, topic, confirmed, failed, thrown>>
  BY DEF Execute, Valid, toldVars
<1>4. /\ cursor' \in [Tries -> 0..MaxTopic]
      /\ \A u \in Tries : cursor'[u] <= Len(topic) /\ (u # t => cursor'[u] = cursor[u])
      /\ stream' \in [Tries -> {"none", "open", "closed", "lost"}]
      /\ network' \in [Tries -> {"none", "sent", "accepted", "rejected", "consensus"}]
      /\ \A u \in Tries : u # t => stream'[u] = stream[u] /\ network'[u] = network[u]
      /\ listener' \in {listener, t}
  <2>1. CASE setting.confirms
    <3>1. PICK from \in 0..Len(topic) : cursor' = [cursor EXCEPT ![t] = from]
      BY <2>1 DEF Execute
    <3>2. from \in 0..MaxTopic
      BY <1>1, <3>1 DEF TypeOK
    <3>3. stream' = [stream EXCEPT ![t] = "open"] /\ network' = network /\ listener' = t
      BY <2>1 DEF Execute
    <3> HIDE DEF t
    <3> QED
      BY <1>1, <3>1, <3>2, <3>3 DEF TypeOK, CallInv, ReceivedOK
  <2>2. CASE ~setting.confirms
    <3>1. network' = [network EXCEPT ![t] = "sent"] /\ UNCHANGED <<listener, stream, cursor>>
      BY <2>2 DEF Execute
    <3> HIDE DEF t
    <3> QED
      BY <1>1, <3>1 DEF TypeOK, CallInv, ReceivedOK
  <2> QED
    BY <2>1, <2>2
<1>5. confirmed[t] = 0
  BY <1>1 DEF CallInv, FutureOK, Untouched
<1> HIDE DEF t
<1>6. TypeOK'
  <2>1. try' \in 0..MaxTries /\ listener' \in 0..MaxTries
    BY <1>1, <1>4 DEF TypeOK, Tries
  <2>2. content' \in [Tries -> Envelope \cup {Null}] /\ message' \in Envelope \cup {Null}
    BY <1>1, <1>2, <1>3 DEF TypeOK
  <2> QED
    BY <1>3, <1>4, <2>1, <2>2 DEF TypeOK
<1>7. FutureOK'
  <2> SUFFICES ASSUME NEW u \in Tries, u > t PROVE Untouched(u)'
    BY <1>1 DEF FutureOK
  <2>1. u # t /\ u > try /\ Untouched(u)
    BY <1>1 DEF t, CallInv, FutureOK, Tries
  <2> QED
    BY <1>3, <1>4, <2>1 DEF Untouched, TypeOK
<1>8. MadeOK'
  <2> SUFFICES ASSUME NEW u \in Tries, u <= t PROVE content'[u] # Null
    BY <1>1 DEF MadeOK
  <2>1. u = t \/ u <= try
    BY <1>1 DEF t, Tries
  <2> QED
    BY <1>2, <1>3, <2>1 DEF CallInv, MadeOK, TypeOK
<1>9. ReceivedOK'
  <2> SUFFICES ASSUME NEW u \in Tries
               PROVE  cursor'[u] <= Len(topic) /\ confirmed[u] <= cursor'[u]
    BY <1>3 DEF ReceivedOK
  <2>1. cursor'[u] \in Nat
    BY <1>1, <1>4
  <2> QED
    BY <1>4, <1>5, <2>1 DEF CallInv, ReceivedOK
<1>10. RunningOK'
  BY <1>1, <1>3 DEF RunningOK
<1> QED
  BY <1>6, <1>7, <1>8, <1>9, <1>10 DEF CallInv

\* The rest of the call, on the caller's thread.
LEMMA CallGoesOn ==
  ASSUME TypeOK, CallInv, Subscribed \/ Submission \/ HandleFailure
  PROVE  TypeOK' /\ CallInv'
<1>1. /\ try \in Tries /\ try \in Nat /\ ~executed /\ try' = try
      /\ UNCHANGED <<setting, message, content, listener, cursor, topic, confirmed>>
  BY DEF TypeOK, CallInv, RunningOK, Subscribed, Submission, SubmitReturns, PrecheckFails,
         TimesOut, HandleFailure, listenVars, netVars, toldVars
<1>2. /\ phase' \in {"idle", "subscribing", "submitting", "failing"} /\ executed' \in BOOLEAN
      /\ phase' # "idle" => ~executed'
  <2>1. /\ executed' = executed \/ (phase' = "idle" /\ executed' = TRUE)
        /\ phase' \in {"idle", "subscribing", "submitting", "failing"}
    <3>1. CASE SubmitReturns
      BY <3>1 DEF SubmitReturns
    <3>2. CASE Subscribed \/ PrecheckFails \/ TimesOut \/ HandleFailure
      BY <3>2 DEF Subscribed, PrecheckFails, TimesOut, HandleFailure
    <3> QED
      BY <3>1, <3>2 DEF Submission
  <2>2. executed \in BOOLEAN
    BY DEF TypeOK
  <2>3. executed = FALSE
    BY <1>1, <2>2
  <2>4. executed' \in BOOLEAN /\ (phase' # "idle" => executed' = FALSE)
    BY <2>1, <2>3
  <2> QED
    BY <2>1, <2>4
<1>3. /\ network' \in [Tries -> {"none", "sent", "accepted", "rejected", "consensus"}]
      /\ \A u \in Tries : u # try => network'[u] = network[u]
  <2>1. \/ network' = network
        \/ network' = [network EXCEPT ![try] = "sent"]
        \/ network' = [network EXCEPT ![try] = "rejected"]
    BY DEF Subscribed, Submission, SubmitReturns, PrecheckFails, TimesOut, HandleFailure, netVars
  <2> QED
    BY <1>1, <2>1 DEF TypeOK
<1>4. /\ failed' \subseteq failed \cup {try} /\ thrown' \subseteq thrown \cup {try}
      /\ assigned' \subseteq assigned \cup {try}
  BY DEF Subscribed, Submission, SubmitReturns, PrecheckFails, TimesOut, HandleFailure,
         listenVars, toldVars
<1>5. /\ stream' \in [Tries -> {"none", "open", "closed", "lost"}]
      /\ \A u \in Tries : stream[u] = "none" => stream'[u] = "none"
  BY UnsubscribedIs DEF TypeOK, Subscribed, Submission, SubmitReturns, PrecheckFails, TimesOut,
     HandleFailure, listenVars
<1>6. TypeOK'
  BY <1>1, <1>2, <1>3, <1>4, <1>5 DEF TypeOK
<1>7. FutureOK'
  <2> SUFFICES ASSUME NEW u \in Tries, u > try PROVE Untouched(u)'
    BY <1>1 DEF FutureOK
  <2>1. u # try /\ Untouched(u)
    BY <1>1 DEF CallInv, FutureOK
  <2> QED
    BY <1>1, <1>3, <1>4, <1>5, <2>1 DEF Untouched
<1>8. MadeOK' /\ ReceivedOK'
  BY <1>1 DEF CallInv, MadeOK, ReceivedOK
<1>9. RunningOK'
  BY <1>1, <1>2 DEF RunningOK
<1> QED
  BY <1>6, <1>7, <1>8, <1>9 DEF CallInv

\* What the network, the others and the listeners do, in any order.
LEMMA CallEnvironment ==
  ASSUME TypeOK, CallInv,
         \/ OtherSubmits
         \/ \E t \in Tries : Accept(t) \/ ReachConsensus(t) \/ StreamEnds(t) \/ Receive(t)
  PROVE  TypeOK' /\ CallInv'
<1>1. MaxTopic \in Nat /\ Len(topic) \in Nat
  BY TransactionAssumption DEF TransactionAssumption, TypeOK
<1>2. ASSUME NEW c \in Envelope, Len(topic) < MaxTopic, topic' = Append(topic, c),
             UNCHANGED <<callVars, listenVars, toldVars>>,
             network' \in [Tries -> {"none", "sent", "accepted", "rejected", "consensus"}],
             \A t \in Tries : network[t] = "none" => network'[t] = "none"
      PROVE  TypeOK' /\ CallInv'
  <2>1. topic' \in Seq(Envelope) /\ Len(topic') = Len(topic) + 1
    BY <1>2 DEF TypeOK
  <2>2. TypeOK'
    BY <1>1, <1>2, <2>1 DEF TypeOK, callVars, listenVars, toldVars
  <2>3. FutureOK' /\ MadeOK' /\ RunningOK'
    BY <1>2 DEF CallInv, FutureOK, Untouched, MadeOK, RunningOK, callVars, listenVars, toldVars
  <2>4. ReceivedOK'
    BY <1>1, <1>2, <2>1 DEF TypeOK, CallInv, ReceivedOK, listenVars, toldVars
  <2> QED
    BY <2>2, <2>3, <2>4 DEF CallInv
<1>3. CASE OtherSubmits
  <2>1. PICK c \in Others : topic' = Append(topic, c)
    BY <1>3 DEF OtherSubmits
  <2>2. c \in Envelope
    BY <2>1, OthersTypes
  <2> QED
    BY <1>2, <1>3, <2>1, <2>2 DEF OtherSubmits, TypeOK
<1>4. ASSUME NEW t \in Tries, Accept(t) PROVE TypeOK' /\ CallInv'
  <2>1. /\ network' \in [Tries -> {"none", "sent", "accepted", "rejected", "consensus"}]
        /\ \A u \in Tries : network[u] = "none" => network'[u] = "none"
    BY <1>4 DEF Accept, TypeOK
  <2> QED
    BY <1>4, <2>1
    DEF Accept, TypeOK, CallInv, FutureOK, Untouched, MadeOK, ReceivedOK, RunningOK,
                      callVars, listenVars, toldVars
<1>5. ASSUME NEW t \in Tries, ReachConsensus(t) PROVE TypeOK' /\ CallInv'
  <2>1. try \in Nat /\ t \in Nat
    BY DEF TypeOK, Tries
  <2>2. content[t] \in Envelope
    BY <1>5, <2>1 DEF ReachConsensus, CallInv, FutureOK, Untouched, MadeOK, TypeOK
  <2> QED
    BY <1>2, <1>5, <2>2 DEF ReachConsensus, TypeOK
<1>6. ASSUME NEW t \in Tries, UNCHANGED <<callVars, topic, network, listener, assigned, thrown>>,
             \/ cursor' = cursor /\ confirmed' = confirmed
             \/ /\ Delivering(t) /\ cursor' = [cursor EXCEPT ![t] = @ + 1]
                /\ confirmed' \in {confirmed, [confirmed EXCEPT ![t] = @ + 1]},
             failed' \in {failed, failed \cup {t}}, stream[t] = "open",
             \/ stream' \in {stream, Unsubscribed}
             \/ stream' = [stream EXCEPT ![t] = "lost"]
      PROVE  TypeOK' /\ CallInv'
  <2>1. /\ stream' \in [Tries -> {"none", "open", "closed", "lost"}]
        /\ \A u \in Tries : stream[u] = "none" => stream'[u] = "none"
    BY <1>6, UnsubscribedIs DEF TypeOK
  <2>2. /\ cursor' \in [Tries -> 0..MaxTopic] /\ confirmed' \in [Tries -> 0..MaxTopic]
        /\ ReceivedOK'
    <3>1. CASE cursor' = cursor /\ confirmed' = confirmed
      BY <1>6, <3>1 DEF TypeOK, CallInv, ReceivedOK
    <3>2. CASE /\ Delivering(t) /\ cursor' = [cursor EXCEPT ![t] = @ + 1]
               /\ confirmed' \in {confirmed, [confirmed EXCEPT ![t] = @ + 1]}
      <4>1. /\ cursor[t] \in Nat /\ cursor[t] < Len(topic) /\ Len(topic) <= MaxTopic
            /\ confirmed[t] \in Nat /\ confirmed[t] <= cursor[t]
        BY <1>1, <3>2 DEF Delivering, TypeOK, CallInv, ReceivedOK
      <4>2. cursor[t] + 1 \in 0..MaxTopic /\ confirmed[t] + 1 \in 0..MaxTopic
        BY <1>1, <4>1
      <4>3. cursor' \in [Tries -> 0..MaxTopic] /\ confirmed' \in [Tries -> 0..MaxTopic]
        BY <3>2, <4>2 DEF TypeOK
      <4>4. ASSUME NEW u \in Tries PROVE cursor'[u] <= Len(topic) /\ confirmed'[u] <= cursor'[u]
        <5>1. CASE u = t
          BY <1>1, <3>2, <4>1, <5>1 DEF TypeOK
        <5>2. CASE u # t
          BY <3>2, <5>2 DEF TypeOK, CallInv, ReceivedOK
        <5> QED
          BY <5>1, <5>2
      <4> QED
        BY <1>6, <4>3, <4>4 DEF ReceivedOK
    <3> QED
      BY <1>6, <3>1, <3>2
  <2>3. TypeOK'
    BY <1>6, <2>1, <2>2 DEF TypeOK, callVars
  <2>4. FutureOK'
    <3> SUFFICES ASSUME NEW u \in Tries, u > try PROVE Untouched(u)'
      BY <1>6 DEF FutureOK, callVars
    <3>1. Untouched(u) /\ u # t
      BY <1>6 DEF CallInv, FutureOK, Untouched
    <3>2. confirmed'[u] = confirmed[u] /\ u \notin failed'
      BY <1>6, <3>1 DEF TypeOK, Untouched
    <3> QED
      BY <1>6, <2>1, <3>1, <3>2 DEF Untouched, callVars
  <2>5. MadeOK' /\ RunningOK'
    BY <1>6 DEF CallInv, MadeOK, RunningOK, callVars
  <2> QED
    BY <2>2, <2>3, <2>4, <2>5 DEF CallInv
<1>7. ASSUME NEW t \in Tries, StreamEnds(t) PROVE TypeOK' /\ CallInv'
  BY <1>6, <1>7 DEF StreamEnds, netVars, toldVars
<1>8. ASSUME NEW t \in Tries, ReceiveOther(t) PROVE TypeOK' /\ CallInv'
  BY <1>6, <1>8 DEF ReceiveOther, Delivering, netVars, toldVars
<1>9. ASSUME NEW t \in Tries, Confirm(t) PROVE TypeOK' /\ CallInv'
  BY <1>6, <1>9 DEF Confirm, Delivering, netVars
<1>10. ASSUME NEW t \in Tries, Report(t) PROVE TypeOK' /\ CallInv'
  BY <1>6, <1>10 DEF Report, Delivering, netVars
<1> QED
  BY <1>3, <1>4, <1>5, <1>7, <1>8, <1>9, <1>10 DEF Receive

\* Every step is one of these.
LEMMA CallStep == TypeOK /\ CallInv /\ [Next]_vars => TypeOK' /\ CallInv'
<1> SUFFICES ASSUME TypeOK, CallInv, [Next]_vars PROVE TypeOK' /\ CallInv'
  OBVIOUS
<1>1. CASE Next
  BY <1>1, CallExecute, CallGoesOn, CallEnvironment DEF Next
<1>2. CASE UNCHANGED vars
  BY <1>2
  DEF vars, callVars, listenVars, netVars, toldVars, TypeOK, CallInv, FutureOK, Untouched,
              MadeOK, ReceivedOK, RunningOK
<1> QED
  BY <1>1, <1>2

(***************************************************************************)
(* The type invariant of a transaction: nothing is submitted but envelopes *)
(* that a call has made, and nobody receives more than there is.           *)
(***************************************************************************)
THEOREM TypeCorrect == Spec => []TypeOK
<1>1. Init => TypeOK /\ CallInv
  BY CallInit
<1>2. TypeOK /\ CallInv /\ [Next]_vars => TypeOK' /\ CallInv'
  BY CallStep
<1> QED
  BY <1>1, <1>2, PTL DEF Spec

\* And the invariant with it.
LEMMA CallCorrect == Spec => [](TypeOK /\ CallInv)
<1>1. Init => TypeOK /\ CallInv
  BY CallInit
<1>2. TypeOK /\ CallInv /\ [Next]_vars => TypeOK' /\ CallInv'
  BY CallStep
<1> QED
  BY <1>1, <1>2, PTL DEF Spec

-----------------------------------------------------------------------------
(***************************************************************************)
(* What the caller is told.                                                *)
(*                                                                         *)
(* ToldInv relates the callbacks, that come on the thread of a listener,   *)
(* to the calls, of which others may have begun and ended meanwhile.  An   *)
(* error for the latest call is either deserved by its message, or comes   *)
(* from a submission that failed, after which `executed` is not set unless *)
(* by another call.  CanOpenOwn is what the transaction knows of its own   *)
(* messages: without an encrypter they are plain, unless the envelope that *)
(* it was given is not.                                                    *)
(***************************************************************************)

\* The transactions that are set up with a plain envelope, as the constructor
\* of an envelope makes it, or with none.
PlainEnvelopes ==
  \A s \in Settings : s.prepared # Null =>
    s.prepared.mode = "PLAIN" /\ s.prepared.message.layers = 0

ConfirmedInTopic ==
  \A t \in Tries : confirmed[t] > 0 => \E i \in 1..Len(topic) : topic[i] = content[t]
ConfirmedValid == \A t \in Tries : confirmed[t] > 0 => IsMessageValid(content[t])

Told(t) == t \in failed \cup thrown
RepeatsTold ==
  /\ \A t \in Tries : t < try => Told(t)
  /\ phase = "idle" /\ ~executed /\ try \in Tries => Told(try)

PlainIfNotEncrypting ==
  ~setting.encrypts =>
    /\ message # Null => message.mode = "PLAIN"
    /\ \A t \in Tries : content[t] # Null => content[t].mode = "PLAIN"
FailedDeserved ==
  \A t \in failed :
    \/ ~IsMessageValid(content[t])
    \/ t < try
    \/ phase = "idle" /\ ~executed

\* What execute() made of an envelope that it may sign: the setting is never
\* changed, and what was signed stays as it was.
SignsIt ==
  /\ setting.key = "right"
  /\ setting.prepared = Null \/ setting.prepared.signature = Null
MessageIs ==
  SignsIt =>
    IF setting.prepared = Null THEN message = Null
    ELSE /\ message # Null
         /\ try = 0 => message = setting.prepared
         /\ try > 0 /\ ~setting.encrypts => message = Sign(setting.prepared, "right")
MadeValid ==
  SignsIt =>
    \A t \in Tries :
      /\ t <= try
      /\ setting.prepared # Null /\ setting.encrypts => t = 1
      => IsMessageValid(content[t])
SettingPlain ==
  setting.prepared # Null =>
    setting.prepared.mode = "PLAIN" /\ setting.prepared.message.layers = 0

-----------------------------------------------------------------------------
\* Only a call of execute() touches the setting's message or what tries send,
\* and it leaves the tries before.
LEMMA OnlyExecute ==
  ASSUME TypeOK, CallInv, [Next]_vars
  PROVE  /\ setting' = setting
         /\ Execute \/ UNCHANGED <<message, content, try>>
         /\ \A t \in Tries : t <= try => content'[t] = content[t]
         /\ try \in Nat /\ try' \in {try, try + 1} /\ try' \in Nat
<1>1. try \in Nat
  BY DEF TypeOK
<1>2. setting' = setting /\ (Execute \/ UNCHANGED <<message, content, try>>)
  BY DEF Next, Execute, Subscribed, Submission, SubmitReturns, PrecheckFails, TimesOut,
         HandleFailure, OtherSubmits, Accept, ReachConsensus, StreamEnds, Receive, ReceiveOther,
         Confirm, Report, vars, callVars
<1>3. CASE Execute
  <2>1. try' = try + 1 /\ content' = [content EXCEPT ![try + 1] = Make(try + 1)]
    BY <1>3 DEF Execute
  <2>2. \A t \in Tries : t <= try => t # try + 1
    BY <1>1 DEF Tries
  <2> QED
    BY <1>1, <1>2, <2>1, <2>2 DEF TypeOK
<1> QED
  BY <1>1, <1>2, <1>3

\* The topic only grows.
LEMMA TopicGrows ==
  ASSUME TypeOK, CallInv, [Next]_vars
  PROVE  /\ Len(topic') >= Len(topic)
         /\ \A i \in 1..Len(topic) : i \in 1..Len(topic') /\ topic'[i] = topic[i]
<1>1. topic' = topic \/ \E c \in Envelope : topic' = Append(topic, c)
  <2>1. CASE OtherSubmits
    BY <2>1, OthersTypes DEF OtherSubmits
  <2>2. ASSUME NEW t \in Tries, ReachConsensus(t) 
        PROVE  \E c \in Envelope : topic' = Append(topic, c)
    <3>1. content[t] \in Envelope
      BY <2>2 DEF ReachConsensus, TypeOK, CallInv, FutureOK, Untouched, MadeOK, Tries
    <3> QED
      BY <2>2, <3>1 DEF ReachConsensus
  <2> QED
    BY <2>1, <2>2
    DEF Next, Execute, Subscribed, Submission, SubmitReturns, PrecheckFails, TimesOut,
         HandleFailure, Accept, StreamEnds, Receive, ReceiveOther,
         Confirm, Report, vars, callVars, netVars
<1>2. ASSUME NEW c \in Envelope, topic' = Append(topic, c)
      PROVE  /\ Len(topic') >= Len(topic)
             /\ \A i \in 1..Len(topic) : i \in 1..Len(topic') /\ topic'[i] = topic[i]
  BY <1>2 DEF TypeOK
<1>3. CASE topic' = topic
  BY <1>3 DEF TypeOK
<1> QED
  BY <1>1, <1>2, <1>3

\* The receiver is called for an accepted message from the topic.
LEMMA OnlyConfirm ==
  ASSUME TypeOK, CallInv, [Next]_vars, NEW t \in Tries, confirmed'[t] # confirmed[t]
  PROVE  /\ t <= try /\ UNCHANGED content
         /\ IsMessageValid(content[t])
         /\ \E i \in 1..Len(topic) : topic[i] = content[t]
<1>1. PICK u \in Tries : Confirm(u)
  BY DEF Next, Execute, Subscribed, Submission, SubmitReturns, PrecheckFails, TimesOut,
         HandleFailure, OtherSubmits, Accept, ReachConsensus, StreamEnds, Receive, ReceiveOther,
         Report, vars, toldVars
<1>2. u = t
  BY <1>1 DEF Confirm, TypeOK
<1>3. cursor[t] + 1 \in 1..Len(topic)
  BY <1>1, <1>2 DEF Confirm, Delivering, TypeOK
<1>4. topic[cursor[t] + 1] = content[t] /\ IsMessageValid(content[t]) /\ UNCHANGED content
  BY <1>1, <1>2 DEF Confirm, NextOf, Accepted, callVars
<1>5. t <= try
  BY <1>1, <1>2 DEF Confirm, Delivering, CallInv, FutureOK, Untouched, TypeOK, Tries
<1> QED
  BY <1>3, <1>4, <1>5

\* A confirmation stays true.
LEMMA ConfirmedStep ==
  ASSUME TypeOK, CallInv, ConfirmedInTopic, ConfirmedValid, [Next]_vars
  PROVE  ConfirmedInTopic' /\ ConfirmedValid'
<1> SUFFICES ASSUME NEW t \in Tries, confirmed'[t] > 0
             PROVE  /\ IsMessageValid(content'[t])
                    /\ \E i \in 1..Len(topic') : topic'[i] = content'[t]
  BY DEF ConfirmedInTopic, ConfirmedValid, IsMessageValid, IsValid, Open, Decrypter,
         IsSignatureValid
<1>1. CASE confirmed'[t] = confirmed[t]
  <2>1. IsMessageValid(content[t]) /\ \E i \in 1..Len(topic) : topic[i] = content[t]
    BY <1>1 DEF ConfirmedInTopic, ConfirmedValid
  <2>2. content'[t] = content[t]
    BY <1>1, OnlyExecute DEF CallInv, FutureOK, Untouched, Tries
  <2> QED
    BY <2>1, <2>2, TopicGrows
<1>2. CASE confirmed'[t] # confirmed[t]
  BY <1>2, OnlyConfirm, TopicGrows
<1> QED
  BY <1>1, <1>2

(***************************************************************************)
(* The receiver is called for a message only if it is in the topic, and    *)
(* every reader with the decrypter accepts it, however many calls and      *)
(* listeners there are.                                                    *)
(***************************************************************************)
THEOREM ConfirmationsCorrect == Spec => []ConfirmationsTrue
<1>1. Init => ConfirmedInTopic /\ ConfirmedValid
  BY DEF Init, ConfirmedInTopic, ConfirmedValid
<1>2. TypeOK /\ CallInv /\ ConfirmedInTopic /\ ConfirmedValid /\ [Next]_vars
        => ConfirmedInTopic' /\ ConfirmedValid'
  BY ConfirmedStep
<1>3. ConfirmedInTopic /\ ConfirmedValid => ConfirmationsTrue
  BY DEF ConfirmedInTopic, ConfirmedValid, ConfirmationsTrue
<1> QED
  BY <1>1, <1>2, <1>3, CallCorrect, PTL DEF Spec

-----------------------------------------------------------------------------
\* Nobody forgets what he was told, and a call that ends without `executed`
\* ends with an error.
LEMMA RepeatsStep ==
  ASSUME TypeOK, CallInv, RepeatsTold, [Next]_vars
  PROVE  RepeatsTold'
<1>1. failed \subseteq failed' /\ thrown \subseteq thrown'
  BY DEF Next, Execute, Subscribed, Submission, SubmitReturns, PrecheckFails, TimesOut,
         HandleFailure, OtherSubmits, Accept, ReachConsensus, StreamEnds, Receive, ReceiveOther,
         Confirm, Report, vars, toldVars
<1>2. \A t \in Tries : Told(t) => Told(t)'
  BY <1>1 DEF Told
<1>3. CASE Execute
  <2>1. phase = "idle" /\ ~executed /\ phase' # "idle" /\ try' = try + 1 /\ try \in Nat
    BY <1>3 DEF Execute, Valid, TypeOK
  <2>2. ASSUME NEW t \in Tries, t < try' PROVE Told(t)
    BY <2>1, <2>2 DEF RepeatsTold, Tries
  <2> QED
    BY <1>2, <2>1, <2>2 DEF RepeatsTold
<1>4. CASE HandleFailure
  <2>1. Told(try)' /\ UNCHANGED try
    BY <1>4 DEF HandleFailure, Told
  <2> QED
    BY <1>2, <2>1 DEF RepeatsTold, Told
<1>5. CASE SubmitReturns
  <2>1. executed' = TRUE /\ UNCHANGED try
    BY <1>5 DEF SubmitReturns
  <2> QED
    BY <1>2, <2>1 DEF RepeatsTold
<1>6. CASE Subscribed \/ PrecheckFails \/ TimesOut
  <2>1. phase' # "idle" /\ UNCHANGED try
    BY <1>6 DEF Subscribed, PrecheckFails, TimesOut
  <2> QED
    BY <1>2, <2>1 DEF RepeatsTold
<1>7. CASE UNCHANGED <<phase, executed, try>>
  BY <1>2, <1>7 DEF RepeatsTold, Told
<1> QED
  BY <1>3, <1>4, <1>5, <1>6, <1>7
  DEF Next, Submission, OtherSubmits, Accept, ReachConsensus, StreamEnds, Receive, ReceiveOther,
      Confirm, Report, vars, callVars

(***************************************************************************)
(* No message is submitted a second time unless the caller was told that   *)
(* the call before had failed.                                             *)
(***************************************************************************)
THEOREM RepeatsCorrect == Spec => []RepeatedOnlyIfToldFailed
<1>1. Init => RepeatsTold
  BY DEF Init, RepeatsTold, Tries
<1>2. TypeOK /\ CallInv /\ RepeatsTold /\ [Next]_vars => RepeatsTold'
  BY RepeatsStep
<1>3. RepeatsTold => RepeatedOnlyIfToldFailed
  BY DEF RepeatsTold, Told, RepeatedOnlyIfToldFailed
<1> QED
  BY <1>1, <1>2, <1>3, CallCorrect, PTL DEF Spec

-----------------------------------------------------------------------------
\* Signing leaves mode and message as they are, and so does Signed.
LEMMA SignedIs ==
  ASSUME NEW e \in Envelope
  PROVE  /\ Signed(e).mode = e.mode /\ Signed(e).message = e.message
         /\ e.signature # Null => Signed(e) = e
         /\ e.signature = Null =>
              Signed(e).signature = [key |-> setting.key, over |-> e.message]
  BY DEF Signed, Sign, Envelope

\* A transaction without encrypter makes plain envelopes of plain ones.
LEMMA PlainStep ==
  ASSUME TypeOK, CallInv, PlainIfNotEncrypting, [Next]_vars
  PROVE  PlainIfNotEncrypting'
<1> SUFFICES ASSUME ~setting.encrypts
             PROVE  /\ message' # Null => message'.mode = "PLAIN"
                    /\ \A t \in Tries : content'[t] # Null => content'[t].mode = "PLAIN"
  BY OnlyExecute DEF PlainIfNotEncrypting
<1>1. CASE Execute
  <2> DEFINE t == try + 1
             e == IF message = Null THEN BuildMessage(t) ELSE message
  <2>1. t \in Nat
    BY OnlyExecute
  <2>2. e \in Envelope /\ e.mode = "PLAIN"
    BY <2>1, BuildTypes DEF TypeOK, PlainIfNotEncrypting, BuildMessage
  <2>3. Make(t) = Signed(e)
    BY DEF Make, Encrypted
  <2>4. Make(t).mode = "PLAIN"
    BY <2>2, <2>3, SignedIs
  <2>5. /\ content' = [content EXCEPT ![t] = Make(t)]
        /\ message' = IF message = Null THEN Null ELSE Make(t)
    BY <1>1 DEF Execute
  <2> HIDE DEF t
  <2> QED
    BY <2>4, <2>5 DEF TypeOK, PlainIfNotEncrypting
<1>2. CASE UNCHANGED <<message, content>>
  BY <1>2 DEF PlainIfNotEncrypting
<1> QED
  BY <1>1, <1>2, OnlyExecute

\* An error of an earlier call, or of a message that nobody accepts, stays one;
\* an error of the submission does until the next call.
LEMMA FailedStep ==
  ASSUME TypeOK, CallInv, PlainIfNotEncrypting, FailedDeserved, [Next]_vars
  PROVE  FailedDeserved'
<1> SUFFICES ASSUME NEW t \in failed'
             PROVE  \/ ~IsMessageValid(content'[t])
                    \/ t < try'
                    \/ phase' = "idle" /\ ~executed'
  BY DEF FailedDeserved, IsMessageValid, IsValid, Open, Decrypter, IsSignatureValid
<1>1. CASE Execute
  <2>1. t \in failed /\ t \in Tries /\ t <= try
    BY <1>1 DEF Execute, toldVars, TypeOK, CallInv, FutureOK, Untouched, Tries
  <2>2. t < try'
    BY <1>1, <2>1 DEF Execute, TypeOK, Tries
  <2> QED
    BY <2>2
<1>2. CASE SubmitReturns \/ Subscribed \/ PrecheckFails \/ TimesOut
  <2>1. /\ phase # "idle" /\ UNCHANGED <<failed, content, try>>
    BY <1>2 DEF SubmitReturns, Subscribed, PrecheckFails, TimesOut, toldVars
  <2> QED
    BY <2>1 DEF FailedDeserved
<1>3. CASE HandleFailure
  <2>1. phase # "idle" /\ phase' = "idle" /\ executed' = executed
    BY <1>3 DEF HandleFailure
  <2> QED
    BY <2>1 DEF CallInv, RunningOK
<1>4. ASSUME NEW u \in Tries, Report(u) PROVE ~IsMessageValid(content[u])
  <2>1. content[u] # Null
    BY <1>4 DEF Report, Delivering, TypeOK, CallInv, FutureOK, Untouched, MadeOK, Tries
  <2>2. CanOpen(content[u], setting.encrypts)
    BY <2>1 DEF CanOpen, PlainIfNotEncrypting
  <2> QED
    BY <1>4, <2>2 DEF Report, Accepted
<1>5. ASSUME NEW u \in Tries, Report(u)
      PROVE  failed' \subseteq failed \cup {u} /\ UNCHANGED <<phase, executed, try, content>>
  BY <1>5 DEF Report, callVars
<1>6. CASE \E u \in Tries : Report(u)
  BY <1>4, <1>5, <1>6 DEF FailedDeserved
<1>7. CASE UNCHANGED <<phase, executed, try, content, failed>>
  BY <1>7 DEF FailedDeserved
<1> QED
  BY <1>1, <1>2, <1>3, <1>6, <1>7
  DEF Next, Submission, OtherSubmits, Accept, ReachConsensus, StreamEnds, Receive, ReceiveOther,
      Confirm, vars, callVars, toldVars

(***************************************************************************)
(* The error handler is called for the latest call only if the submission  *)
(* failed or no reader accepts the message: true of every transaction that *)
(* is not given an envelope encrypted before (see EncryptedEnvelope.cfg).  *)
(***************************************************************************)
THEOREM ErrorsCorrect == PlainEnvelopes => (Spec => []ErrorsTrue)
<1> SUFFICES ASSUME PlainEnvelopes PROVE Spec => []ErrorsTrue
  OBVIOUS
<1>1. Init => PlainIfNotEncrypting /\ FailedDeserved
  BY DEF Init, PlainIfNotEncrypting, FailedDeserved, PlainEnvelopes
<1>2. TypeOK /\ CallInv /\ PlainIfNotEncrypting /\ FailedDeserved /\ [Next]_vars
        => PlainIfNotEncrypting' /\ FailedDeserved'
  BY PlainStep, FailedStep
<1>3. FailedDeserved => ErrorsTrue
  BY DEF FailedDeserved, ErrorsTrue
<1> QED
  BY <1>1, <1>2, <1>3, CallCorrect, PTL DEF Spec

-----------------------------------------------------------------------------
\* A plain envelope without signature, encrypted or not and then signed with the
\* right key, is accepted.
LEMMA SignedValid ==
  ASSUME NEW e \in Envelope, e.mode = "PLAIN", e.message.layers = 0, e.signature = Null,
         setting.key = "right", NEW t \in Nat
  PROVE  IsMessageValid(Signed(Encrypted(e, t)))
<1> DEFINE f == Encrypted(e, t)
           g == Signed(f)
<1>1. f \in Envelope
  BY EncryptTypes DEF Encrypted
<1>2. f.signature = Null /\ Open(f).layers = 0
  <2>1. CASE setting.encrypts
    <3>1. f = Encrypt(e, t)
      BY <2>1 DEF Encrypted
    <3>2. f.mode = "ENCRYPTED" /\ f.signature = Null /\ f.message = Encrypter(e.message, t)
      BY <3>1 DEF Encrypt, Envelope
    <3>3. f.message.layers = 1
      BY <3>2 DEF Encrypter
    <3> QED
      BY <3>2, <3>3 DEF Open, Decrypter
  <2>2. CASE ~setting.encrypts
    BY <2>2 DEF Encrypted, Open
  <2> QED
    BY <2>1, <2>2
<1> HIDE DEF f
<1>3. /\ g.mode = f.mode /\ g.message = f.message
      /\ g.signature = [key |-> "right", over |-> f.message]
  BY <1>1, <1>2, SignedIs
<1>4. g.signature \in [key : Keys, over : Message]
  BY <1>1, <1>3 DEF Envelope, Keys
<1>5. IsSignatureValid(g)
  BY <1>3, <1>4, EnvelopeAssumption DEF EnvelopeAssumption, IsSignatureValid
<1>6. IsValid(Open(g))
  BY <1>2, <1>3 DEF IsValid, Open
<1> QED
  BY <1>5, <1>6 DEF f, IsMessageValid

\* The field `message`, call after call: what is not encrypted is signed once.
LEMMA MessageStep ==
  ASSUME TypeOK, CallInv, MessageIs, [Next]_vars
  PROVE  MessageIs'
<1> SUFFICES ASSUME SignsIt, setting.prepared # Null
             PROVE  /\ message' # Null
                    /\ try' = 0 => message' = setting.prepared
                    /\ try' > 0 /\ ~setting.encrypts =>
                         message' = Sign(setting.prepared, "right")
  <2>1. setting' = setting
    BY OnlyExecute
  <2>2. SignsIt /\ setting.prepared = Null => message' = Null
    BY OnlyExecute DEF MessageIs, Execute
  <2> QED
    BY <2>1, <2>2 DEF MessageIs, SignsIt, Sign
<1>1. CASE Execute
  <2>1. message # Null /\ message \in Envelope /\ try \in Nat
    BY OnlyExecute DEF TypeOK, MessageIs
  <2>2. message' = Make(try + 1) /\ try' = try + 1 /\ try + 1 \in Nat
    BY <1>1, <2>1 DEF Execute
  <2>3. message' # Null
    BY <1>1, <2>2, MakeTypes, TransactionAssumption DEF TransactionAssumption, Execute
  <2>4. ASSUME ~setting.encrypts PROVE message' = Sign(setting.prepared, "right")
    <3>1. message' = Signed(message)
      BY <2>1, <2>2, <2>4 DEF Make, Encrypted
    <3>2. CASE try = 0
      <4>1. message = setting.prepared /\ message.signature = Null
        BY <3>2 DEF MessageIs, SignsIt
      <4> QED
        BY <3>1, <4>1 DEF Signed, SignsIt
    <3>3. CASE try # 0
      <4>1. message = Sign(setting.prepared, "right")
        BY <2>1, <2>4, <3>3 DEF MessageIs
      <4>2. setting.prepared \in Envelope
        BY TransactionAssumption DEF TransactionAssumption, TypeOK, Setting
      <4>3. message.signature \in [key : Keys, over : Message]
        BY <4>1, <4>2 DEF Sign, Envelope, Keys
      <4>4. message.signature # Null
        BY <4>3, EnvelopeAssumption DEF EnvelopeAssumption
      <4> QED
        BY <3>1, <4>1, <4>4 DEF Signed
    <3> QED
      BY <3>2, <3>3
  <2> QED
    BY <2>1, <2>2, <2>3, <2>4
<1>2. CASE UNCHANGED <<message, try>>
  BY <1>2 DEF MessageIs
<1> QED
  BY <1>1, <1>2, OnlyExecute

\* What a call makes is accepted.
LEMMA MadeStep ==
  ASSUME TypeOK, CallInv, SettingPlain, MessageIs, MadeValid, [Next]_vars
  PROVE  MadeValid'
<1> SUFFICES ASSUME SignsIt, NEW t \in Tries, t <= try',
                    setting.prepared # Null /\ setting.encrypts => t = 1
             PROVE  IsMessageValid(content'[t])
  <2>1. setting' = setting
    BY OnlyExecute
  <2> QED
    BY <2>1 DEF MadeValid, SignsIt, IsMessageValid, IsValid, Open, Decrypter, IsSignatureValid
<1>1. CASE t <= try
  BY <1>1, OnlyExecute DEF MadeValid
<1>2. CASE ~(t <= try)
  <2>1. Execute /\ t = try + 1 /\ t \in Nat /\ try \in Nat
    BY <1>2, OnlyExecute DEF Tries
  <2>2. content'[t] = Make(t)
    BY <2>1 DEF Execute, TypeOK
  <2>3. setting.key = "right"
    BY DEF SignsIt
  <2>4. CASE setting.prepared = Null
    <3>1. Make(t) = Signed(Encrypted(BuildMessage(t), t))
      BY <2>4 DEF MessageIs, Make
    <3>2. /\ BuildMessage(t) \in Envelope
          /\ BuildMessage(t).mode = "PLAIN" /\ BuildMessage(t).message.layers = 0
          /\ BuildMessage(t).signature = Null
      BY <2>1, BuildTypes DEF BuildMessage
    <3> QED
      BY <2>1, <2>2, <2>3, <3>1, <3>2, SignedValid
  <2>5. CASE setting.prepared # Null
    <3> DEFINE e == setting.prepared
    <3>1. e \in Envelope /\ e.signature = Null /\ e.mode = "PLAIN" /\ e.message.layers = 0
      BY <2>5, TransactionAssumption
      DEF TransactionAssumption, TypeOK, Setting, SignsIt, SettingPlain
    <3>2. CASE try = 0
      <4>1. message = e /\ message # Null
        BY <2>5, <3>2 DEF MessageIs
      <4>2. Make(t) = Signed(Encrypted(e, t))
        BY <4>1 DEF Make
      <4> QED
        BY <2>1, <2>2, <2>3, <3>1, <4>2, SignedValid
    <3>3. CASE try # 0
      <4>1. ~setting.encrypts
        BY <2>1, <2>5, <3>3
      <4>2. content'[t] = Sign(e, "right")
        <5>1. MessageIs' /\ message' = Make(t) /\ try' > 0 /\ setting' = setting
          BY <2>1, <2>5, <3>3, MessageStep, OnlyExecute DEF Execute, MessageIs
        <5> QED
          BY <2>2, <2>5, <4>1, <5>1 DEF MessageIs, SignsIt, Sign
      <4>3. Sign(e, "right") = Signed(Encrypted(e, t))
        BY <2>3, <3>1, <4>1 DEF Signed, Encrypted
      <4> QED
        BY <2>1, <2>3, <3>1, <4>2, <4>3, SignedValid
    <3> QED
      BY <3>2, <3>3
  <2> QED
    BY <2>4, <2>5
<1> QED
  BY <1>1, <1>2

(***************************************************************************)
(* What a transaction submits is accepted by every reader with the         *)
(* decrypter, in every call, if it has the right key and what it is given  *)
(* to sign is plain; an envelope that it encrypts itself, in the first     *)
(* call.                                                                   *)
(***************************************************************************)
THEOREM SubmittedCorrect == PlainEnvelopes => (Spec => []SubmittedValid)
<1> SUFFICES ASSUME PlainEnvelopes PROVE Spec => []SubmittedValid
  OBVIOUS
<1>1. Init => MessageIs /\ MadeValid
  BY DEF Init, MessageIs, MadeValid, Tries
<1>2. TypeOK => SettingPlain
  BY DEF TypeOK, SettingPlain, PlainEnvelopes
<1>3. TypeOK /\ CallInv /\ SettingPlain /\ MessageIs /\ MadeValid /\ [Next]_vars
        => MessageIs' /\ MadeValid'
  BY MessageStep, MadeStep
<1>4. TypeOK /\ CallInv /\ MadeValid => SubmittedValid
  BY DEF TypeOK, CallInv, FutureOK, Untouched, MadeValid, SignsIt, SubmittedValid, Tries
<1> QED
  BY <1>1, <1>2, <1>3, <1>4, CallCorrect, PTL DEF Spec
=============================================================================
