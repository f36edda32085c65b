------------------------- MODULE MessageTransaction -------------------------
(***************************************************************************)
(* One MessageTransaction object (HcsDidTransaction, HcsVcTransaction):    *)
(* execute() builds the envelope, or takes the one that was provided,      *)
(* encrypts and signs it, opens a listener that waits for the very same    *)
(* bytes to come back from the mirror node, and submits them.  The answer  *)
(* to the submission comes on the caller's thread, the message on the      *)
(* thread of the listener, in any order.                                   *)
(*                                                                         *)
(* A call that failed may be repeated on the same object.  Tries are the   *)
(* calls of execute(); each has a listener of its own, but the object has  *)
(* one field `listener`, which the callbacks of all of them use.           *)
(*                                                                         *)
(* confirmed, failed and thrown record what the caller was told.           *)
(* A definition under the word "Variant" is no part of the model: it is a  *)
(* slip that the definition after it could have, and one of the properties *)
(* at the end fails with it.                                               *)
(***************************************************************************)
EXTENDS MessageEnvelope, Sequences

CONSTANTS Settings,  \* the ways a transaction may be set up
          MaxTries,  \* bound: calls of execute()
          MaxTopic   \* bound: messages in the topic

Tries == 1..MaxTries

\* What the setters of the object were given: the envelope of the second
\* constructor or Null, a key (or a signing function) or Null, and whether
\* there are an encrypter with its decrypter, a receiver, an error handler.
Setting ==
  [prepared : Envelope \cup {Null}, key : Keys \cup {Null},
   encrypts : BOOLEAN, confirms : BOOLEAN, handles : BOOLEAN]

ASSUME TransactionAssumption ==
  /\ Settings \subseteq Setting
  /\ MaxTries \in Nat
  /\ MaxTopic \in Nat
  /\ Null \notin Envelope \cup Keys

VARIABLES
  setting,    \* the setting of this transaction
  message,    \* the field `message`: the envelope provided, or Null
  executed,   \* the field `executed`
  try,        \* the latest call of execute()
  phase,      \* where the calling thread is
  content,    \* messageContent of each try
  listener,   \* the field `listener`: a try, or 0 for null
  stream,     \* the subscription of each try
  assigned,   \* the listeners whose subscriptionHandle is set
  cursor,     \* how far each subscription has been delivered
  network,    \* what the network did with the submission of each try
  topic,      \* the contents that reached consensus
  confirmed,  \* how often the receiver was called for each try
  failed,     \* the tries for which the error handler was called
  thrown      \* the tries that ended with an exception for the caller

callVars == <<setting, message, executed, try, phase, content>>
listenVars == <<listener, stream, assigned, cursor>>
netVars == <<network, topic>>
toldVars == <<confirmed, failed, thrown>>
vars == <<callVars, listenVars, netVars, toldVars>>

TypeOK ==
  /\ setting \in Settings
  /\ message \in Envelope \cup {Null}
  /\ executed \in BOOLEAN
  /\ try \in 0..MaxTries
  /\ phase \in {"idle", "subscribing", "submitting", "failing"}
  /\ content \in [Tries -> Envelope \cup {Null}]
  /\ listener \in 0..MaxTries
  /\ stream \in [Tries -> {"none", "open", "closed", "lost"}]
  /\ assigned \subseteq Tries
  /\ cursor \in [Tries -> 0..MaxTopic]
  /\ network \in [Tries -> {"none", "sent", "accepted", "rejected", "consensus"}]
  /\ topic \in Seq(Envelope)
  /\ Len(topic) <= MaxTopic
  /\ confirmed \in [Tries -> 0..MaxTopic]
  /\ failed \subseteq Tries
  /\ thrown \subseteq Tries

Init ==
  /\ setting \in Settings
  /\ message = setting.prepared
  /\ executed = FALSE
  /\ try = 0
  /\ phase = "idle"
  /\ content = [t \in Tries |-> Null]
  /\ listener = 0
  /\ stream = [t \in Tries |-> "none"]
  /\ assigned = {}
  /\ cursor = [t \in Tries |-> 0]
  /\ network = [t \in Tries |-> "none"]
  /\ topic = <<>>
  /\ confirmed = [t \in Tries |-> 0]
  /\ failed = {}
  /\ thrown = {}

-----------------------------------------------------------------------------
\* The network.

\* A node takes the submission of a try, perhaps after the caller gave up.
Accept(t) ==
  /\ network[t] = "sent"
  /\ network' = [network EXCEPT ![t] = "accepted"]
  /\ UNCHANGED <<callVars, listenVars, topic, toldVars>>

ReachConsensus(t) ==
  /\ network[t] = "accepted"
  /\ Len(topic) < MaxTopic
  /\ network' = [network EXCEPT ![t] = "consensus"]
  /\ topic' = Append(topic, content[t])
  /\ UNCHANGED <<callVars, listenVars, toldVars>>

\* Somebody else submits a message of his own, or one that he was given or
\* read from the topic.
Foreign == Sign(BuildMessage(MaxTries + 1), "wrong")
Others ==
  {Foreign} \cup ({message} \ {Null}) \cup {topic[i] : i \in 1..Len(topic)}

OtherSubmits ==
  /\ Len(topic) < MaxTopic
  /\ \E c \in Others : topic' = Append(topic, c)
  /\ UNCHANGED <<callVars, listenVars, network, toldVars>>

StreamEnds(t) ==
  /\ stream[t] = "open"
  /\ stream' = [stream EXCEPT ![t] = "lost"]
  /\ UNCHANGED <<callVars, listener, assigned, cursor, netVars, toldVars>>

-----------------------------------------------------------------------------
\* execute(), on the thread of the caller.

\* validate(): not executed yet, and the message is signed or can be.
Valid ==
  /\ ~executed
  /\ \/ setting.key # Null
     \/ message # Null /\ message.signature \notin {Null, Empty}

\* The envelope that execute() makes of e; what is signed stays so.
\* Variant: it is signed in any case.
Encrypted(e, t) == IF setting.encrypts THEN Encrypt(e, t) ELSE e
SignedAnyway(e) == Sign(e, setting.key)
Signed(e) == IF e.signature = Null THEN Sign(e, setting.key) ELSE e

\* Variant: the envelope is signed before it is encrypted.
MakeSignedFirst(t) ==
  Encrypted(Signed(IF message = Null THEN BuildMessage(t) ELSE message), t)

Make(t) == Signed(Encrypted(IF message = Null THEN BuildMessage(t) ELSE message, t))

\* The envelope provided is changed in place.  The listener starts a second
\* back, so that it may see messages that are in the topic already.
Execute ==
  LET t == try + 1
  IN /\ phase = "idle"
     /\ try < MaxTries
     /\ Valid
     /\ try' = t
     /\ content' = [content EXCEPT ![t] = Make(t)]
     /\ message' = IF message = Null THEN Null ELSE Make(t)
     /\ IF setting.confirms
          THEN /\ phase' = "subscribing"
               /\ listener' = t
               /\ stream' = [stream EXCEPT ![t] = "open"]
               /\ \E from \in 0..Len(topic) : cursor' = [cursor EXCEPT ![t] = from]
               /\ network' = network
          ELSE /\ phase' = "submitting"
               /\ network' = [network EXCEPT ![t] = "sent"]
               /\ UNCHANGED <<listener, stream, cursor>>
     /\ UNCHANGED <<setting, executed, assigned, topic, toldVars>>

\* subscribe() returns the handle, and the message is submitted.
Subscribed ==
  /\ phase = "subscribing"
  /\ assigned' = assigned \cup {try}
  /\ phase' = "submitting"
  /\ network' = [network EXCEPT ![try] = "sent"]
  /\ UNCHANGED <<setting, message, executed, try, content, listener, stream,
                 cursor, topic, toldVars>>

\* listener.unsubscribe(), which does nothing before the handle is there.
Unsubscribed ==
  IF listener \in assigned /\ stream[listener] = "open"
    THEN [stream EXCEPT ![listener] = "closed"]
    ELSE stream

\* Variants: executed is not set; the listener is closed in a finally block.
SubmitReturnsOnly ==
  /\ phase = "submitting"
  /\ network[try] \in {"accepted", "consensus"}
  /\ phase' = "idle"
  /\ UNCHANGED <<setting, message, executed, try, content, listenVars, netVars, toldVars>>

SubmitReturnsAndStops ==
  /\ phase = "submitting"
  /\ network[try] \in {"accepted", "consensus"}
  /\ executed' = TRUE
  /\ phase' = "idle"
  /\ stream' = Unsubscribed
  /\ UNCHANGED <<setting, message, try, content, listener, assigned, cursor,
                 netVars, toldVars>>

SubmitReturns ==
  /\ phase = "submitting"
  /\ network[try] \in {"accepted", "consensus"}
  /\ executed' = TRUE
  /\ phase' = "idle"
  /\ UNCHANGED <<setting, message, try, content, listenVars, netVars, toldVars>>

\* PrecheckStatusException: the node refused it.
PrecheckFails ==
  /\ phase = "submitting"
  /\ network[try] = "sent"
  /\ network' = [network EXCEPT ![try] = "rejected"]
  /\ phase' = "failing"
  /\ UNCHANGED <<setting, message, executed, try, content, listenVars, topic, toldVars>>

\* TimeoutException: whatever became of the message.
TimesOut ==
  /\ phase = "submitting"
  /\ phase' = "failing"
  /\ UNCHANGED <<setting, message, executed, try, content, listenVars, netVars, toldVars>>

\* handleError in the catch block; without an error handler it throws, and
\* the listener is left.
HandleFailure ==
  /\ phase = "failing"
  /\ phase' = "idle"
  /\ IF setting.handles
       THEN failed' = failed \cup {try} /\ stream' = Unsubscribed /\ thrown' = thrown
       ELSE thrown' = thrown \cup {try} /\ UNCHANGED <<failed, stream>>
  /\ UNCHANGED <<setting, message, executed, try, content, listener, assigned,
                 cursor, netVars, confirmed>>

-----------------------------------------------------------------------------
\* The thread of the listener of a try: MessageListener.handleResponse.

Delivering(t) == stream[t] = "open" /\ cursor[t] < Len(topic)
NextOf(t) == topic[cursor[t] + 1]

\* Variant: the handler of invalid messages takes any message for its own.
ReceiveOtherReports(t) ==
  /\ Delivering(t)
  /\ NextOf(t) # content[t]
  /\ cursor' = [cursor EXCEPT ![t] = @ + 1]
  /\ stream' = Unsubscribed
  /\ failed' = IF setting.handles THEN failed \cup {t} ELSE failed
  /\ UNCHANGED <<callVars, listener, assigned, netVars, confirmed, thrown>>

\* The filter rejects other bytes, and the handler of invalid messages looks
\* only at its own.
ReceiveOther(t) ==
  /\ Delivering(t)
  /\ NextOf(t) # content[t]
  /\ cursor' = [cursor EXCEPT ![t] = @ + 1]
  /\ UNCHANGED <<callVars, listener, stream, assigned, netVars, toldVars>>

\* Variant: the signature is not looked at.
AcceptedUnsigned(e) == CanOpen(e, setting.encrypts) /\ IsValid(Open(e))

Accepted(e) == CanOpen(e, setting.encrypts) /\ IsMessageValid(e)

Confirm(t) ==
  /\ Delivering(t)
  /\ NextOf(t) = content[t]
  /\ Accepted(content[t])
  /\ cursor' = [cursor EXCEPT ![t] = @ + 1]
  /\ stream' = Unsubscribed
  /\ confirmed' = [confirmed EXCEPT ![t] = @ + 1]
  /\ UNCHANGED <<callVars, listener, assigned, netVars, failed, thrown>>

\* It is its own message, and invalid.  Without an error handler an exception
\* leaves the callback, which may end the stream.
Report(t) ==
  /\ Delivering(t)
  /\ NextOf(t) = content[t]
  /\ ~Accepted(content[t])
  /\ cursor' = [cursor EXCEPT ![t] = @ + 1]
  /\ IF setting.handles
       THEN failed' = failed \cup {t} /\ stream' = Unsubscribed
       ELSE failed' = failed /\ stream' \in {stream, [stream EXCEPT ![t] = "lost"]}
  /\ UNCHANGED <<callVars, listener, assigned, netVars, confirmed, thrown>>

-----------------------------------------------------------------------------
Receive(t) == ReceiveOther(t) \/ Confirm(t) \/ Report(t)

Submission == SubmitReturns \/ PrecheckFails \/ TimesOut

Next ==
  \/ Execute
  \/ Subscribed
  \/ Submission
  \/ HandleFailure
  \/ OtherSubmits
  \/ \E t \in Tries : Accept(t) \/ ReachConsensus(t) \/ StreamEnds(t) \/ Receive(t)

Spec == Init /\ [][Next]_vars

\* The caller's thread goes on, and a stream that is not lost delivers.  The
\* network owes nothing, nobody has to repeat a call.
Fairness ==
  /\ WF_vars(Subscribed \/ Submission \/ HandleFailure)
  /\ \A t \in Tries : WF_vars(Receive(t))

FairSpec == Spec /\ Fairness
-----------------------------------------------------------------------------
(***************************************************************************)
(* What a transaction promises.                                            *)
(***************************************************************************)

\* The receiver is only called for a message that is in the topic and that
\* every reader with the decrypter accepts.
ConfirmationsTrue ==
  \A t \in Tries : confirmed[t] > 0 =>
    IsMessageValid(content[t]) /\ \E i \in 1..Len(topic) : topic[i] = content[t]

\* An error is only reported when the submission was refused or timed out,
\* or when no reader with the decrypter accepts the message.
ErrorsTrue ==
  \A t \in failed :
    \/ ~IsMessageValid(content[t])
    \/ t < try \/ ~executed

\* With the right key, and an envelope that was not encrypted by a call
\* before, what is submitted is accepted by every reader with the decrypter:
\* it is encrypted before it is signed.
SubmittedValid ==
  \A t \in Tries :
    /\ network[t] # "none"
    /\ setting.key = "right"
    /\ setting.prepared = Null \/ setting.prepared.signature = Null
    /\ setting.prepared # Null /\ setting.encrypts => t = 1
    => IsMessageValid(content[t])

\* A message is submitted again only after the caller was told that the call
\* before had failed ("This transaction has already been executed").
RepeatedOnlyIfToldFailed == \A t \in Tries : t < try => t \in failed \cup thrown

\* A caller with an error handler hears of a message that reached consensus
\* while its listener was there, unless the stream is lost: the receiver or
\* the error handler is called, for this or for another call, as a callback
\* may close the listener of a later call.
Awaited(t) ==
  /\ setting.handles
  /\ stream[t] = "open"
  /\ \E i \in (cursor[t] + 1)..Len(topic) : topic[i] = content[t]

Heard ==
  \A t \in Tries :
    Awaited(t) ~> \/ stream[t] = "lost"
                  \/ \E u \in Tries : confirmed[u] > 0 \/ u \in failed
=============================================================================
