----------------------- MODULE MessageResolverProofs -----------------------
(***************************************************************************)
(* Proofs about MessageResolver, for every topic, query, set of calls and  *)
(* timeout, and at the end about PromptMirror.                             *)
(***************************************************************************)
EXTENDS PromptMirror, IdentityMessagesProofs

-----------------------------------------------------------------------------
\* Types.

\* waitOrFinish leaves a phase and a delay of the right type, whatever it
\* decides.
LEMMA WaitOrFinishTypes ==
  ASSUME TypeOK, NEW c \in Calls, NEW idle \in 0..Timeout, WaitOrFinish(c, idle)
  PROVE  /\ phase' \in [Calls -> Phase]
         /\ delay' \in [Calls -> 0..Timeout]
<1>1. Timeout - idle \in 0..Timeout
  BY ResolverAssumption
<1>2. QED
  BY <1>1 DEF TypeOK, WaitOrFinish, Phase

\* The next message of a stream is an envelope.
LEMMA NextIsEnvelope ==
  ASSUME TypeOK, NEW c \in Calls, cursor[c] < Len(topic)
  PROVE  NextOf(c) \in Envelope(Kind, Subjects)
<1>1. cursor[c] + 1 \in 1..Len(topic)
  BY DEF TypeOK
<1>2. QED
  BY <1>1 DEF TypeOK, NextOf

\* No stream is delivered beyond its end, nor ends beyond the topic.
CursorOK == \A c \in Calls : cursor[c] <= endTime[c] /\ endTime[c] <= Len(topic)

\* Before its subscription, a call has been delivered nothing and has no end.
NewAtZero ==
  \A c \in Calls : phase[c] \in {"new", "created"} =>
    cursor[c] = 0 /\ endTime[c] = 0 /\ inHand[c] = Null

\* A new resolver has all three.
LEMMA TypeInit == Init => TypeOK /\ CursorOK /\ NewAtZero
  BY ResolverAssumption DEF Init, TypeOK, CursorOK, NewAtZero, Phase

\* One step of one call.
LEMMA TypeStep ==
  ASSUME TypeOK, CursorOK, NEW c \in Calls, Step(c)
  PROVE  TypeOK'
<1>1. CASE Execute(c)
  BY <1>1 DEF Execute, TypeOK, Phase, mirrorVars
<1>2. CASE Subscribe(c)
  BY <1>2 DEF Subscribe, TypeOK, Phase, mapVars
<1>3. CASE BeginWait(c)
  <2>1. 0 \in 0..Timeout
    BY ResolverAssumption
  <2>2. phase' \in [Calls -> Phase] /\ delay' \in [Calls -> 0..Timeout]
    BY <1>3, <2>1, WaitOrFinishTypes DEF BeginWait
  <2>3. QED
    BY <1>3, <2>1, <2>2 DEF BeginWait, TypeOK, mirrorVars, mapVars
<1>4. CASE TimerFires(c)
  <2>1. phase' \in [Calls -> Phase] /\ delay' \in [Calls -> 0..Timeout]
    BY <1>4, WaitOrFinishTypes DEF TimerFires, TypeOK
  <2>2. QED
    BY <1>4, <2>1 DEF TimerFires, TypeOK, mirrorVars, mapVars
<1>5. CASE HandResults(c)
  BY <1>5 DEF HandResults, TypeOK, Phase, mirrorVars, mapVars
<1>6. CASE Unsubscribe(c)
  BY <1>6 DEF Unsubscribe, TypeOK, Phase, mapVars
<1>7. CASE StopExecutor(c)
  BY <1>7 DEF StopExecutor, TypeOK, Phase, mirrorVars, mapVars
<1>8. CASE ReceiveInvalid(c)
  BY <1>8 DEF ReceiveInvalid, TypeOK, mapVars, taskVars
<1>9. CASE ReceiveIgnored(c)
  <2>1. 0 \in 0..Timeout
    BY ResolverAssumption
  <2>2. QED
    BY <1>9, <2>1 DEF ReceiveIgnored, TypeOK, mapVars, taskVars
<1>10. CASE ReceiveCounted(c)
  <2> DEFINE e == NextOf(c)
  <2>1. e \in Envelope(Kind, Subjects)
    BY <1>10, NextIsEnvelope DEF ReceiveCounted, Delivering, CursorOK, TypeOK
  <2>2. e.body \in Body(Kind, Subjects) /\ e.ts \in Nat /\ e.body.subject \in Query
    BY <2>1, <1>10 DEF Envelope, ReceiveCounted, matchesSearchCriteria, FirstOfSignature
  <2>3. created[e.body.subject] \in Nat
    BY <2>2 DEF TypeOK
  <2>4. CreatedTime(e, created[e.body.subject]) \in Nat
    BY <2>2, <2>3 DEF CreatedTime
  <2>5. [env |-> e, created |-> CreatedTime(e, created[e.body.subject])] \in Pending
    BY <2>1, <2>4 DEF Pending
  <2>6. inHand' \in [Calls -> Pending \cup {Null}]
    BY <1>10, <2>5 DEF ReceiveCounted, TypeOK
  <2>7. signatures' \subseteq Body(Kind, Subjects)
    BY <1>10, <2>2 DEF ReceiveCounted, TypeOK
  <2>8. cursor' \in [Calls -> Nat] /\ quiet' \in 0..Timeout
    BY <1>10, ResolverAssumption DEF ReceiveCounted, TypeOK
  <2>9. QED
    BY <1>10, <2>6, <2>7, <2>8 DEF ReceiveCounted, TypeOK, taskVars
<1>11. CASE Put(c)
  <2>1. inHand[c] \in Pending
    BY <1>11 DEF Put, TypeOK
  <2>2. inHand[c].env \in Envelope(Kind, Subjects) /\ inHand[c].created \in Nat
    BY <2>1 DEF Pending
  <2>3. QED
    BY <1>11, <2>2 DEF Put, TypeOK, mirrorVars, taskVars
<1>12. QED
  BY <1>1, <1>2, <1>3, <1>4, <1>5, <1>6, <1>7, <1>8, <1>9, <1>10, <1>11
     DEF Step, Receive

\* A step of the environment.
LEMMA TypeEnvironment ==
  ASSUME TypeOK,
         \/ \E b \in Bodies : Submit(b)
         \/ Tick
         \/ \E c \in Calls : StreamEnds(c)
  PROVE  TypeOK'
<1>1. ASSUME NEW b \in Bodies, Submit(b) PROVE TypeOK'
  <2>1. [ts |-> Len(topic) + 1, body |-> b] \in Envelope(Kind, Subjects)
    BY ResolverAssumption DEF TypeOK, Envelope
  <2>2. topic' \in Seq(Envelope(Kind, Subjects))
    BY <1>1, <2>1 DEF Submit, TypeOK
  <2>3. QED
    BY <1>1, <2>2 DEF Submit, TypeOK, mapVars, taskVars
<1>2. CASE Tick
  <2>1. quiet' \in 0..Timeout /\ delay' \in [Calls -> 0..Timeout]
    BY <1>2, ResolverAssumption DEF Tick, TypeOK
  <2>2. QED
    BY <1>2, <2>1 DEF Tick, TypeOK, mirrorVars, mapVars
<1>3. ASSUME NEW c \in Calls, StreamEnds(c) PROVE TypeOK'
  BY <1>3 DEF StreamEnds, TypeOK, mapVars, taskVars
<1>4. QED
  BY <1>1, <1>2, <1>3

\* No step leaves the last two.
LEMMA CursorStep ==
  ASSUME TypeOK, CursorOK, NewAtZero, [Next]_vars
  PROVE  CursorOK' /\ NewAtZero'
<1>1. ASSUME NEW b \in Bodies, Submit(b) PROVE CursorOK' /\ NewAtZero'
  <2>1. Len(topic') = Len(topic) + 1
    BY <1>1 DEF Submit, TypeOK
  <2>2. QED
    BY <1>1, <2>1 DEF Submit, mapVars, taskVars, TypeOK, CursorOK, NewAtZero
<1>2. CASE Tick
  BY <1>2 DEF Tick, mapVars, mirrorVars, CursorOK, NewAtZero
<1>3. ASSUME NEW c \in Calls, StreamEnds(c) PROVE CursorOK' /\ NewAtZero'
  BY <1>3 DEF StreamEnds, mapVars, taskVars, CursorOK, NewAtZero
<1>4. ASSUME NEW c \in Calls, Step(c) PROVE CursorOK' /\ NewAtZero'
  <2>1. CASE Execute(c)
    BY <2>1 DEF Execute, mirrorVars, TypeOK, CursorOK, NewAtZero
  <2>2. CASE Subscribe(c)
    BY <2>2 DEF Subscribe, mapVars, TypeOK, CursorOK, NewAtZero
  <2>3. CASE BeginWait(c)
    BY <2>3 DEF BeginWait, WaitOrFinish, mapVars, mirrorVars, TypeOK, CursorOK, NewAtZero
  <2>4. CASE TimerFires(c)
    BY <2>4 DEF TimerFires, WaitOrFinish, mapVars, mirrorVars, TypeOK, CursorOK, NewAtZero
  <2>5. CASE HandResults(c)
    BY <2>5 DEF HandResults, mapVars, mirrorVars, TypeOK, CursorOK, NewAtZero
  <2>6. CASE Unsubscribe(c)
    BY <2>6 DEF Unsubscribe, mapVars, TypeOK, CursorOK, NewAtZero
  <2>7. CASE StopExecutor(c)
    BY <2>7 DEF StopExecutor, mapVars, mirrorVars, TypeOK, CursorOK, NewAtZero
  <2>8. CASE Receive(c)
    <3>1. cursor[c] < endTime[c] /\ cursor' = [cursor EXCEPT ![c] = @ + 1]
      BY <2>8 DEF Receive, ReceiveInvalid, ReceiveIgnored, ReceiveCounted, Delivering
    <3>2. phase[c] \notin {"new", "created"}
      BY <3>1 DEF TypeOK, NewAtZero
    <3>3. UNCHANGED <<topic, endTime, phase>>
      BY <2>8 DEF Receive, ReceiveInvalid, ReceiveIgnored, ReceiveCounted, taskVars
    <3>4. CursorOK'
      BY <3>1, <3>3 DEF TypeOK, CursorOK
    <3>5. \A d \in Calls : d # c => inHand'[d] = inHand[d]
      BY <2>8 DEF Receive, ReceiveInvalid, ReceiveIgnored, ReceiveCounted, mapVars, TypeOK
    <3>6. QED
      BY <3>1, <3>2, <3>3, <3>4, <3>5 DEF TypeOK, NewAtZero
  <2>9. CASE Put(c)
    BY <2>9 DEF Put, mirrorVars, taskVars, CursorOK, NewAtZero
  <2>10. QED
    BY <1>4, <2>1, <2>2, <2>3, <2>4, <2>5, <2>6, <2>7, <2>8, <2>9 DEF Step
<1>5. CASE UNCHANGED vars
  BY <1>5 DEF vars, CursorOK, NewAtZero
<1>6. QED
  BY <1>1, <1>2, <1>3, <1>4, <1>5 DEF Next

-----------------------------------------------------------------------------
\* The time of creation, as a relation.

CreatedStands(C, s, t) ==
  \/ Creations(C, s) = {} /\ t = 0
  \/ \E e \in Creations(C, s) : IsNewest(Creations(C, s), e) /\ t = e.ts

\* The resolvers drop what is outdated.
LEMMA OutdatedMeans ==
  ASSUME NEW r, NEW e
  PROVE  Outdated(r, e) <=> OutdatedFor(Kind, r, e)
  BY ResolverAssumption, OutdatedIs DEF Outdated, Kinds

\* What one more message changes, in the terms of the resolver.
LEMMA StandsExtendHere ==
  ASSUME NEW C, NEW s, NEW r, NEW e, Timed(C \cup {e}), Stands(Kind, C, s, r),
         \A f \in C : f.ts < e.ts, Null \notin C
  PROVE  /\ e.body.subject # s => Stands(Kind, C \cup {e}, s, r)
         /\ e.body.subject = s /\ Outdated(r, e) => Stands(Kind, C \cup {e}, s, r)
         /\ e.body.subject = s /\ ~Outdated(r, e) => Stands(Kind, C \cup {e}, s, e)
  BY StandsExtend, OutdatedMeans

\* The same for the time of creation.
LEMMA CreatedExtend ==
  ASSUME NEW C, NEW s, NEW r, NEW e, NEW t, Timed(C \cup {e}), Stands(Kind, C, s, r),
         \A f \in C : f.ts < e.ts, Null \notin C, CreatedStands(C, s, t)
  PROVE  /\ e.body.subject # s => CreatedStands(C \cup {e}, s, t)
         /\ e.body.subject = s /\ Outdated(r, e) => CreatedStands(C \cup {e}, s, t)
         /\ e.body.subject = s /\ ~Outdated(r, e) =>
              CreatedStands(C \cup {e}, s, CreatedTime(e, t))
<1> DEFINE D == C \cup {e}
<1>1. /\ r # Null => r \in C /\ r.ts < e.ts
      /\ r # Null /\ r.body.op = Terminal(Kind) <=> Closing(Kind, C, s) # {}
  BY DEF Stands, IsNewest, About, Closing
<1>2. e.ts \in Nat /\ \A f \in C : f.ts \in Nat
  BY DEF Timed
<1>3. ASSUME Creations(D, s) = Creations(C, s) PROVE CreatedStands(D, s, t)
  BY <1>3 DEF CreatedStands
<1>4. ASSUME e.body.subject # s PROVE Creations(D, s) = Creations(C, s)
  BY <1>4 DEF Creations, About, Closing
<1>5. ASSUME e.body.subject = s, Outdated(r, e)
      PROVE  Creations(D, s) = Creations(C, s)
  <2>1. e.body.op # Terminal(Kind) /\ Closing(Kind, C, s) # {}
    BY <1>1, <1>2, <1>5, OutdatedMeans DEF OutdatedFor
  <2>2. Closing(Kind, D, s) = Closing(Kind, C, s)
    BY <2>1 DEF Closing, About
  <2>3. PICK f \in Closing(Kind, C, s) : f.ts < e.ts
    BY <2>1 DEF Closing, About
  <2>4. f \in Closing(Kind, D, s) /\ ~(e.ts < f.ts)
    BY <2>2, <2>3, <1>2 DEF Closing, About
  <2>5. e \notin Creations(D, s)
    BY <2>4 DEF Creations
  <2>6. QED
    BY <2>2, <2>5 DEF Creations, About
<1>6. ASSUME e.body.subject = s, ~Outdated(r, e)
      PROVE  CreatedStands(D, s, CreatedTime(e, t))
  <2>1. CASE e.body.op = "CREATE"
    <3>1. e.body.op # Terminal(Kind)
      BY <2>1 DEF Terminal
    <3>2. Closing(Kind, C, s) = {} /\ Closing(Kind, D, s) = {}
      BY <1>1, <1>6, <3>1, OutdatedMeans DEF OutdatedFor, Closing, About
    <3>3. e \in Creations(D, s)
      BY <1>6, <2>1, <3>2 DEF Creations, About
    <3>4. \A f \in Creations(D, s) : f.ts <= e.ts
      BY <1>2 DEF Creations, About
    <3>5. QED
      BY <2>1, <3>3, <3>4 DEF CreatedStands, IsNewest, CreatedTime
  <2>2. CASE e.body.op # "CREATE"
    <3>1. Creations(D, s) = Creations(C, s)
      <4>1. \A f \in Creations(C, s) : f.ts < e.ts
        BY DEF Creations, About
      <4>2. \A f \in Closing(Kind, D, s) : f = e \/ f \in Closing(Kind, C, s)
        BY DEF Closing, About
      <4>3. Closing(Kind, C, s) \subseteq Closing(Kind, D, s)
        BY DEF Closing, About
      <4>4. QED
        BY <2>2, <4>1, <4>2, <4>3 DEF Creations, About
    <3>2. QED
      BY <1>3, <2>2, <3>1 DEF CreatedTime
  <2>3. QED
    BY <2>1, <2>2
<1>7. QED
  BY <1>3, <1>4, <1>5, <1>6

-----------------------------------------------------------------------------
(***************************************************************************)
(* The inductive invariant of a resolver, until execute() is called again. *)
(* ResultsStand is not inductive alone: that a signature was met before    *)
(* must mean that its message is earlier in the topic, and what a callback *)
(* has in its hand must still be the next message that counts, and not     *)
(* outdated.                                                               *)
(***************************************************************************)

TopicTimes == \A i \in 1..Len(topic) : topic[i].ts = i

Relevant(i) == topic[i].body.valid /\ topic[i].body.subject \in Query
BodiesTo(n) == {topic[i].body : i \in {j \in 1..n : Relevant(j)}}

SignaturesOK(c) == signatures = BodiesTo(cursor[c])

InHandOK(c) ==
  inHand[c] # Null =>
    LET e == inHand[c].env
        s == e.body.subject
    IN /\ cursor[c] > 0 /\ e = topic[cursor[c]] /\ e \in CountedTo(cursor[c])
       /\ s \in Query
       /\ ~Outdated(results[s], e)
       /\ inHand[c].created = CreatedTime(e, created[s])

EntriesStand(c) ==
  \A s \in Query : /\ Stands(Kind, Processed(c), s, results[s])
                   /\ CreatedStands(Processed(c), s, created[s])

\* No other call was made, nor this one perhaps.
Only(c) == \A d \in Calls : phase[d] # "new" => d = c

IInv ==
  /\ TypeOK /\ CursorOK /\ NewAtZero /\ TopicTimes
  /\ \A c \in Calls : Only(c) => SignaturesOK(c) /\ InHandOK(c) /\ EntriesStand(c)

\* What counts in a prefix of the topic is made of envelopes of that prefix,
\* with different times.
LEMMA CountedToIs ==
  ASSUME TypeOK, TopicTimes, NEW n \in Nat, n <= Len(topic)
  PROVE  /\ CountedTo(n) \subseteq {topic[i] : i \in 1..n}
         /\ \A e \in CountedTo(n) : e \in Envelope(Kind, Subjects) /\ e.ts \in 1..n
         /\ Timed(CountedTo(n))
         /\ Null \notin CountedTo(n)
<1>1. \A i \in 1..n : topic[i] \in Envelope(Kind, Subjects) /\ topic[i].ts = i
  BY DEF TypeOK, TopicTimes
<1>2. CountedTo(n) \subseteq {topic[i] : i \in 1..n}
  BY DEF CountedTo
<1>3. \A e \in CountedTo(n) : e \in Envelope(Kind, Subjects) /\ e.ts \in 1..n
  BY <1>1, <1>2
<1>4. Timed(CountedTo(n))
  BY <1>1, <1>2, <1>3 DEF Timed
<1>5. QED
  BY <1>2, <1>3, <1>4, ResolverAssumption

\* The next message counts when it is relevant and its signature is new.
LEMMA CountedGrows ==
  ASSUME TypeOK, NEW n \in Nat, n < Len(topic)
  PROVE  /\ CountedTo(n + 1) =
              IF Relevant(n + 1) /\ topic[n + 1].body \notin BodiesTo(n)
              THEN CountedTo(n) \cup {topic[n + 1]} ELSE CountedTo(n)
         /\ BodiesTo(n + 1) =
              IF Relevant(n + 1) THEN BodiesTo(n) \cup {topic[n + 1].body}
              ELSE BodiesTo(n)
<1> DEFINE First(j) == /\ topic[j].body.valid
                       /\ topic[j].body.subject \in Query
                       /\ \A h \in 1..(j - 1) : topic[h].body # topic[j].body
<1>1. 1..(n + 1) = (1..n) \cup {n + 1} /\ (n + 1) - 1 = n
  OBVIOUS
<1>2. First(n + 1) <=> Relevant(n + 1) /\ topic[n + 1].body \notin BodiesTo(n)
  <2>1. First(n + 1) <=> Relevant(n + 1) /\ \A h \in 1..n : topic[h].body # topic[n + 1].body
    BY <1>1 DEF Relevant
  <2>2. ASSUME Relevant(n + 1)
        PROVE  topic[n + 1].body \in BodiesTo(n)
                 <=> \E h \in 1..n : topic[h].body = topic[n + 1].body
    BY <2>2 DEF BodiesTo, Relevant
  <2>3. QED
    BY <2>1, <2>2
<1>3. CountedTo(n + 1) = {topic[i] : i \in {j \in (1..n) \cup {n + 1} : First(j)}}
  BY <1>1 DEF CountedTo
<1>4. CountedTo(n) = {topic[i] : i \in {j \in 1..n : First(j)}}
  BY DEF CountedTo
<1> HIDE DEF First
<1>5. CountedTo(n + 1) =
        IF First(n + 1) THEN CountedTo(n) \cup {topic[n + 1]} ELSE CountedTo(n)
  BY <1>3, <1>4
<1>6. BodiesTo(n + 1) =
        IF Relevant(n + 1) THEN BodiesTo(n) \cup {topic[n + 1].body} ELSE BodiesTo(n)
  BY <1>1 DEF BodiesTo
<1>7. QED
  BY <1>2, <1>5, <1>6

\* It holds before any call.
LEMMA IInvInit == Init => IInv
<1> SUFFICES ASSUME Init PROVE IInv
  OBVIOUS
<1>1. TypeOK /\ CursorOK /\ NewAtZero /\ TopicTimes
  BY TypeInit DEF Init, TopicTimes
<1>2. ASSUME NEW c \in Calls
      PROVE  SignaturesOK(c) /\ InHandOK(c) /\ EntriesStand(c)
  <2>1. CountedTo(0) = {} /\ BodiesTo(0) = {}
    BY DEF CountedTo, BodiesTo
  <2>2. Processed(c) = {}
    BY <2>1 DEF Init, Processed
  <2>3. \A s \in Query : Stands(Kind, {}, s, Null) /\ CreatedStands({}, s, 0)
    BY DEF Stands, CreatedStands, About, Creations
  <2>4. QED
    BY <2>1, <2>2, <2>3 DEF Init, SignaturesOK, InHandOK, EntriesStand
<1>3. QED
  BY <1>1, <1>2 DEF IInv

\* Steps that touch neither the topic nor what the callbacks work on.
LEMMA IInvOther ==
  ASSUME IInv, NEW c \in Calls, Only(c),
         UNCHANGED <<topic, cursor, signatures, results, created, inHand>>
  PROVE  SignaturesOK(c)' /\ InHandOK(c)' /\ EntriesStand(c)'
<1>1. CountedTo(cursor[c])' = CountedTo(cursor[c]) /\ BodiesTo(cursor[c])' = BodiesTo(cursor[c])
  BY DEF CountedTo, BodiesTo, Relevant
<1>2. Processed(c)' = Processed(c)
  BY <1>1 DEF Processed
<1>3. QED
  BY <1>1, <1>2 DEF IInv, TopicTimes, SignaturesOK, InHandOK, EntriesStand

\* The topic gives every message its place.
LEMMA SubmitTimes ==
  ASSUME TypeOK, TopicTimes, NEW b \in Bodies, Submit(b)
  PROVE  TopicTimes'
<1>1. topic \in Seq(Envelope(Kind, Subjects))
  BY DEF TypeOK
<1>2. \A i \in 1..Len(topic) : topic'[i] = topic[i]
  BY <1>1 DEF Submit
<1>3. Len(topic') = Len(topic) + 1 /\ topic'[Len(topic) + 1].ts = Len(topic) + 1
  BY <1>1 DEF Submit
<1>4. QED
  BY <1>1, <1>2, <1>3 DEF TopicTimes

\* A message is submitted: it comes after all that was delivered.
LEMMA IInvSubmit ==
  ASSUME IInv, NEW b \in Bodies, Submit(b), NEW c \in Calls, Only(c)
  PROVE  SignaturesOK(c)' /\ InHandOK(c)' /\ EntriesStand(c)'
<1>1. /\ cursor[c] \in Nat /\ cursor[c] <= Len(topic) /\ cursor' = cursor
      /\ topic \in Seq(Envelope(Kind, Subjects))
  BY DEF IInv, TypeOK, CursorOK, Submit
<1>2. \A i \in 1..Len(topic) : topic'[i] = topic[i]
  BY <1>1 DEF Submit
<1>5. \A i \in 1..cursor[c] : topic'[i] = topic[i]
  BY <1>1, <1>2
<1>6. CountedTo(cursor[c])' = CountedTo(cursor[c]) /\ BodiesTo(cursor[c])' = BodiesTo(cursor[c])
  BY <1>1, <1>5 DEF CountedTo, BodiesTo, Relevant
<1>7. UNCHANGED <<signatures, results, created, inHand>>
  BY DEF Submit, mapVars
<1>8. Processed(c)' = Processed(c)
  BY <1>1, <1>6, <1>7 DEF Processed
<1>9. SignaturesOK(c)' /\ EntriesStand(c)'
  BY <1>6, <1>7, <1>8 DEF IInv, SignaturesOK, EntriesStand
<1>10. InHandOK(c)'
  BY <1>1, <1>5, <1>6, <1>7 DEF IInv, InHandOK
<1>11. QED
  BY <1>9, <1>10

\* execute() forgets the signatures: nothing was delivered yet.
LEMMA IInvExecute ==
  ASSUME IInv, NEW c \in Calls, Only(c), Execute(c)
  PROVE  SignaturesOK(c)' /\ InHandOK(c)' /\ EntriesStand(c)'
<1>1. cursor[c] = 0 /\ UNCHANGED <<topic, cursor, results, created, inHand>> /\ signatures' = {}
  BY DEF IInv, NewAtZero, Execute, mirrorVars
<1>2. CountedTo(cursor[c])' = CountedTo(cursor[c])
  BY <1>1 DEF CountedTo
<1>3. BodiesTo(cursor[c])' = {}
  BY <1>1 DEF BodiesTo
<1>4. Processed(c)' = Processed(c)
  BY <1>1, <1>2 DEF Processed
<1>5. QED
  BY <1>1, <1>2, <1>3, <1>4
     DEF IInv, TopicTimes, SignaturesOK, InHandOK, EntriesStand

\* The next message counts for nothing.
LEMMA IInvSkip ==
  ASSUME IInv, NEW c \in Calls, Only(c), ReceiveInvalid(c) \/ ReceiveIgnored(c)
  PROVE  SignaturesOK(c)' /\ InHandOK(c)' /\ EntriesStand(c)'
<1> DEFINE n == cursor[c]
<1>1. /\ n \in Nat /\ n < Len(topic) /\ cursor'[c] = n + 1 /\ inHand[c] = Null
      /\ UNCHANGED <<topic, signatures, results, created, inHand>>
  BY DEF IInv, TypeOK, CursorOK, ReceiveInvalid, ReceiveIgnored, Delivering, mapVars
<1>2. signatures = BodiesTo(n)
  BY DEF IInv, SignaturesOK
<1>3. ~Relevant(n + 1) \/ topic[n + 1].body \in BodiesTo(n)
  BY <1>2
  DEF ReceiveInvalid, ReceiveIgnored, Relevant, NextOf, matchesSearchCriteria, FirstOfSignature
<1>4. CountedTo(n + 1) = CountedTo(n) /\ BodiesTo(n + 1) = BodiesTo(n)
  BY <1>1, <1>3, CountedGrows DEF IInv
<1>5. CountedTo(cursor[c])' = CountedTo(n) /\ BodiesTo(cursor[c])' = BodiesTo(n)
  <2>1. CountedTo(cursor[c])' = CountedTo(n + 1) /\ BodiesTo(cursor[c])' = BodiesTo(n + 1)
    BY <1>1 DEF CountedTo, BodiesTo, Relevant
  <2>2. QED
    BY <2>1, <1>4
<1>6. Processed(c)' = Processed(c)
  BY <1>1, <1>5 DEF Processed
<1>7. QED
  BY <1>1, <1>2, <1>5, <1>6 DEF IInv, TopicTimes, SignaturesOK, InHandOK, EntriesStand

\* A callback that goes on has an envelope in its hand, not null.
LEMMA InHandIsPending ==
  ASSUME IInv, NEW c \in Calls, ReceiveCounted(c),
         ~Outdated(results[NextOf(c).body.subject], NextOf(c))
  PROVE  inHand'[c] # Null
<1> DEFINE e == NextOf(c)
           t == e.body.subject
<1>1. inHand'[c] = [env |-> e, created |-> CreatedTime(e, created[t])]
  BY DEF ReceiveCounted, IInv, TypeOK
<1>2. cursor[c] < Len(topic) /\ t \in Query
  BY DEF IInv, TypeOK, CursorOK, ReceiveCounted, Delivering, matchesSearchCriteria,
       FirstOfSignature
<1>3. e \in Envelope(Kind, Subjects)
  BY <1>2, NextIsEnvelope DEF IInv
<1>4. created[t] \in Nat /\ e.ts \in Nat
  BY <1>2, <1>3 DEF IInv, TypeOK, Envelope
<1>5. CreatedTime(e, created[t]) \in Nat
  BY <1>4 DEF CreatedTime
<1>6. [env |-> e, created |-> CreatedTime(e, created[t])] \in Pending
  BY <1>3, <1>5 DEF Pending
<1>7. QED
  BY <1>1, <1>6, ResolverAssumption

\* The next message counts: outdated, it is dropped and what stands does not
\* change; else it is in hand.
LEMMA IInvCounted ==
  ASSUME IInv, NEW c \in Calls, Only(c), ReceiveCounted(c)
  PROVE  SignaturesOK(c)' /\ InHandOK(c)' /\ EntriesStand(c)'
<1> DEFINE n == cursor[c]
           e == topic[n + 1]
           t == e.body.subject
<1>1. /\ n \in Nat /\ n < Len(topic) /\ cursor'[c] = n + 1 /\ inHand[c] = Null
      /\ UNCHANGED <<topic, results, created>>
      /\ signatures' = signatures \cup {e.body}
  BY DEF IInv, TypeOK, CursorOK, ReceiveCounted, Delivering, NextOf
<1>2. signatures = BodiesTo(n)
  BY DEF IInv, SignaturesOK
<1>3. Relevant(n + 1) /\ e.body \notin BodiesTo(n) /\ t \in Query
  BY <1>2 DEF ReceiveCounted, Relevant, NextOf, matchesSearchCriteria, FirstOfSignature
<1>4. CountedTo(n + 1) = CountedTo(n) \cup {e} /\ BodiesTo(n + 1) = BodiesTo(n) \cup {e.body}
  BY <1>1, <1>3, CountedGrows DEF IInv
<1>5. /\ CountedTo(cursor[c])' = CountedTo(n) \cup {e}
      /\ BodiesTo(cursor[c])' = BodiesTo(n) \cup {e.body}
  <2>1. CountedTo(cursor[c])' = CountedTo(n + 1) /\ BodiesTo(cursor[c])' = BodiesTo(n + 1)
    BY <1>1 DEF CountedTo, BodiesTo, Relevant
  <2>2. QED
    BY <2>1, <1>4
<1>6. /\ Timed(CountedTo(n) \cup {e}) /\ Null \notin CountedTo(n)
      /\ \A f \in CountedTo(n) : f.ts < e.ts
      /\ e.ts = n + 1 /\ e # Null
  <2>1. n + 1 \in Nat /\ n + 1 <= Len(topic) /\ n <= Len(topic)
    BY <1>1 DEF IInv, TypeOK
  <2>2. /\ Timed(CountedTo(n + 1)) /\ Null \notin CountedTo(n + 1)
        /\ \A f \in CountedTo(n) : f.ts \in 1..n
    BY <1>1, <2>1, CountedToIs DEF IInv
  <2>3. e.ts = n + 1
    BY <2>1 DEF IInv, TopicTimes, TypeOK
  <2>4. \A f \in CountedTo(n) : f.ts < e.ts
    BY <1>1, <2>2, <2>3
  <2>5. e \in CountedTo(n + 1) /\ CountedTo(n) \subseteq CountedTo(n + 1)
    BY <1>4
  <2>6. QED
    BY <1>4, <2>2, <2>3, <2>4, <2>5
<1>7. Processed(c) = CountedTo(n)
  BY <1>1 DEF Processed
<1>8. SignaturesOK(c)'
  BY <1>1, <1>2, <1>5 DEF IInv, TopicTimes, SignaturesOK
<1>9. CASE Outdated(results[t], e)
  <2>1. inHand'[c] = Null
    BY <1>1, <1>9 DEF ReceiveCounted, NextOf
  <2>2. Processed(c)' = CountedTo(n) \cup {e}
    BY <1>5, <2>1 DEF Processed
  <2>3. \A s \in Query : /\ Stands(Kind, CountedTo(n) \cup {e}, s, results[s])
                         /\ CreatedStands(CountedTo(n) \cup {e}, s, created[s])
    <3> SUFFICES ASSUME NEW s \in Query
                 PROVE  /\ Stands(Kind, CountedTo(n) \cup {e}, s, results[s])
                        /\ CreatedStands(CountedTo(n) \cup {e}, s, created[s])
      OBVIOUS
    <3>1. Stands(Kind, CountedTo(n), s, results[s]) /\ CreatedStands(CountedTo(n), s, created[s])
      BY <1>7 DEF IInv, EntriesStand
    <3>2. t = s => Outdated(results[s], e)
      BY <1>9
    <3> HIDE DEF n, e
    <3>3. Stands(Kind, CountedTo(n) \cup {e}, s, results[s])
      BY <1>6, <3>1, <3>2, StandsExtendHere
    <3>4. CreatedStands(CountedTo(n) \cup {e}, s, created[s])
      BY <1>6, <3>1, <3>2, CreatedExtend
    <3>5. QED
      BY <3>3, <3>4
  <2>4. EntriesStand(c)'
    BY <1>1, <2>2, <2>3 DEF EntriesStand
  <2>5. QED
    BY <1>8, <2>1, <2>4 DEF InHandOK
<1>10. CASE ~Outdated(results[t], e)
  <2>1. inHand'[c] = [env |-> e, created |-> CreatedTime(e, created[t])]
    BY <1>10 DEF ReceiveCounted, NextOf, IInv, TypeOK
  <2>2. Processed(c)' = CountedTo(n)
    <3>1. Processed(c)' = {f \in CountedTo(n) \cup {e} : inHand'[c] # Null => e # f}
      BY <1>5, <2>1 DEF Processed
    <3>2. inHand'[c] # Null
      BY <1>10, InHandIsPending DEF NextOf
    <3>3. e \notin CountedTo(n)
      BY <1>1, <1>6
    <3>4. QED
      BY <3>1, <3>2, <3>3
  <2>3. EntriesStand(c)'
    BY <1>1, <1>7, <2>2 DEF IInv, EntriesStand
  <2>4. InHandOK(c)'
    <3>1. /\ cursor'[c] > 0 /\ e = topic'[cursor'[c]] /\ e \in CountedTo(cursor[c])'
          /\ t \in Query
      BY <1>1, <1>3, <1>5
    <3>2. inHand'[c].env = e /\ inHand'[c].created = CreatedTime(e, created'[t])
      BY <1>1, <2>1
    <3>3. QED
      BY <1>1, <1>10, <3>1, <3>2 DEF InHandOK, Outdated, DidOutdated, VcOutdated, CreatedTime
  <2>5. QED
    BY <1>8, <2>3, <2>4
<1>11. QED
  BY <1>9, <1>10

\* What is in hand is put: it is the next message that counts.
LEMMA IInvPut ==
  ASSUME IInv, NEW c \in Calls, Only(c), Put(c)
  PROVE  SignaturesOK(c)' /\ InHandOK(c)' /\ EntriesStand(c)'
<1> DEFINE n == cursor[c]
           e == inHand[c].env
           t == e.body.subject
           C == Processed(c)
<1>1. /\ inHand[c] # Null /\ inHand'[c] = Null
      /\ UNCHANGED <<topic, cursor, signatures>>
      /\ n \in Nat /\ n <= Len(topic)
  BY DEF IInv, TypeOK, CursorOK, Put, mirrorVars
<1>2. /\ n > 0 /\ e = topic[n] /\ e \in CountedTo(n) /\ t \in Query
      /\ ~Outdated(results[t], e) /\ inHand[c].created = CreatedTime(e, created[t])
  BY <1>1 DEF IInv, InHandOK
<1>3. /\ Timed(CountedTo(n)) /\ Null \notin CountedTo(n)
      /\ \A f \in CountedTo(n) : f.ts \in 1..n
  BY <1>1, CountedToIs DEF IInv
<1>4. C = {f \in CountedTo(n) : e # f} /\ CountedTo(n) = C \cup {e}
  BY <1>1, <1>2 DEF Processed
<1>5. \A f \in C : f.ts < e.ts
  <2>1. e.ts = n
    BY <1>1, <1>2 DEF IInv, TopicTimes
  <2>2. \A f \in C : f.ts \in 1..n /\ f.ts # e.ts
    BY <1>2, <1>3, <1>4 DEF Timed
  <2>3. QED
    BY <1>1, <2>1, <2>2
<1>6. /\ CountedTo(cursor[c])' = CountedTo(n) /\ BodiesTo(cursor[c])' = BodiesTo(n)
  BY <1>1 DEF CountedTo, BodiesTo, Relevant
<1>7. Processed(c)' = C \cup {e}
  BY <1>1, <1>4, <1>6 DEF Processed
<1>8. /\ results' = [results EXCEPT ![t] = e]
      /\ created' = [created EXCEPT ![t] = CreatedTime(e, created[t])]
      /\ results \in [Query -> Envelope(Kind, Subjects) \cup {Null}]
      /\ created \in [Query -> Nat]
  BY <1>2 DEF Put, IInv, TypeOK
<1>9. ASSUME NEW s \in Query
      PROVE  /\ Stands(Kind, C \cup {e}, s, results'[s])
             /\ CreatedStands(C \cup {e}, s, created'[s])
  <2>1. Stands(Kind, C, s, results[s]) /\ CreatedStands(C, s, created[s])
    BY DEF IInv, EntriesStand
  <2>2. Timed(C \cup {e}) /\ Null \notin C
    BY <1>3, <1>4
  <2> HIDE DEF C, e
  <2>3. CASE s = t
    <3>1. results'[s] = e /\ created'[s] = CreatedTime(e, created[s])
      BY <1>8, <2>3
    <3>2. ~Outdated(results[s], e) /\ e.body.subject = s
      BY <1>2, <2>3
    <3>3. Stands(Kind, C \cup {e}, s, e)
      BY <1>5, <2>1, <2>2, <3>2, StandsExtendHere
    <3>4. CreatedStands(C \cup {e}, s, CreatedTime(e, created[s]))
      BY <1>5, <2>1, <2>2, <3>2, CreatedExtend
    <3>5. QED
      BY <3>1, <3>3, <3>4
  <2>4. CASE s # t
    <3>1. results'[s] = results[s] /\ created'[s] = created[s] /\ e.body.subject # s
      BY <1>8, <2>4
    <3>2. Stands(Kind, C \cup {e}, s, results[s])
      BY <1>5, <2>1, <2>2, <3>1, StandsExtendHere
    <3>3. CreatedStands(C \cup {e}, s, created[s])
      BY <1>5, <2>1, <2>2, <3>1, CreatedExtend
    <3>4. QED
      BY <3>1, <3>2, <3>3
  <2>5. QED
    BY <2>3, <2>4
<1>10. EntriesStand(c)'
  BY <1>7, <1>9 DEF EntriesStand
<1>11. SignaturesOK(c)' /\ InHandOK(c)'
  BY <1>1, <1>6 DEF IInv, SignaturesOK, InHandOK
<1>12. QED
  BY <1>10, <1>11

\* A call that was not made does nothing but begin, and is then no longer new.
LEMMA NewOnlyBegins ==
  ASSUME TypeOK, CursorOK, NewAtZero, NEW d \in Calls, phase[d] = "new", Step(d)
  PROVE  Execute(d) /\ phase'[d] = "created"
<1>1. cursor[d] = 0 /\ endTime[d] = 0 /\ inHand[d] = Null
  BY DEF NewAtZero
<1>2. ~Receive(d) /\ ~Put(d)
  BY <1>1 DEF Receive, ReceiveInvalid, ReceiveIgnored, ReceiveCounted, Delivering, Put
<1>3. Execute(d)
  BY <1>2 DEF Step, Subscribe, BeginWait, TimerFires, HandResults, Unsubscribe, StopExecutor
<1>4. QED
  BY <1>3 DEF Execute, TypeOK

\* A call that was made stays made.
LEMMA OnlyBefore ==
  ASSUME TypeOK, [Next]_vars, NEW c \in Calls, Only(c)'
  PROVE  Only(c)
<1>1. \A d \in Calls : phase[d] # "new" => phase'[d] # "new"
  BY DEF TypeOK, Next, Step, Submit, Tick, StreamEnds, Execute, Subscribe, BeginWait, TimerFires,
         WaitOrFinish, HandResults, Unsubscribe, StopExecutor, Receive, ReceiveInvalid,
         ReceiveIgnored, ReceiveCounted, Put, vars, taskVars
<1>2. QED
  BY <1>1 DEF Only

\* Every step preserves the invariant.
LEMMA IInvNext ==
  ASSUME IInv, [Next]_vars
  PROVE  IInv'
<1>1. TypeOK'
  <2>1. ASSUME NEW c \in Calls, Step(c) PROVE TypeOK'
    BY <2>1, TypeStep DEF IInv
  <2>2. CASE \/ \E b \in Bodies : Submit(b)
             \/ Tick
             \/ \E c \in Calls : StreamEnds(c)
    BY <2>2, TypeEnvironment DEF IInv
  <2>3. CASE UNCHANGED vars
    BY <2>3 DEF IInv, TypeOK, vars
  <2>4. QED
    BY <2>1, <2>2, <2>3 DEF Next
<1>2. CursorOK' /\ NewAtZero'
  BY CursorStep DEF IInv
<1>3. ASSUME NEW c \in Calls, Only(c)'
      PROVE  SignaturesOK(c)' /\ InHandOK(c)' /\ EntriesStand(c)'
  <2> Only(c)
    BY <1>3, OnlyBefore DEF IInv
  <2>1. ASSUME NEW b \in Bodies, Submit(b)
        PROVE  SignaturesOK(c)' /\ InHandOK(c)' /\ EntriesStand(c)'
    BY <2>1, IInvSubmit
  <2>2. CASE Tick \/ (\E d \in Calls : StreamEnds(d)) \/ UNCHANGED vars
    <3>1. UNCHANGED <<topic, cursor, signatures, results, created, inHand>>
      BY <2>2 DEF Tick, StreamEnds, vars, mirrorVars, mapVars
    <3>2. QED
      BY <3>1, IInvOther
  <2>3. CASE \/ Subscribe(c) \/ BeginWait(c) \/ TimerFires(c) \/ HandResults(c)
             \/ Unsubscribe(c) \/ StopExecutor(c)
    <3>1. UNCHANGED <<topic, cursor, signatures, results, created, inHand>>
      BY <2>3 DEF Subscribe, BeginWait, TimerFires, HandResults, Unsubscribe, StopExecutor,
                  mirrorVars, mapVars
    <3>2. QED
      BY <3>1, IInvOther
  <2>4. CASE Execute(c)
    BY <2>4, IInvExecute
  <2>5. CASE Receive(c)
    BY <2>5, IInvSkip, IInvCounted DEF Receive
  <2>6. CASE Put(c)
    BY <2>6, IInvPut
  <2>7. ASSUME NEW d \in Calls, Step(d) PROVE d = c
    <3>1. CASE phase[d] # "new"
      BY <3>1 DEF Only
    <3>2. CASE phase[d] = "new"
      BY <1>3, <2>7, <3>2, NewOnlyBegins DEF IInv, Only
    <3>3. QED
      BY <3>1, <3>2
  <2>8. QED
    BY <2>1, <2>2, <2>3, <2>4, <2>5, <2>6, <2>7 DEF Next, Step
<1>4. TopicTimes'
  <2>1. ASSUME NEW b \in Bodies, Submit(b) PROVE TopicTimes'
    BY <2>1, SubmitTimes DEF IInv
  <2>2. CASE topic' = topic
    BY <2>2 DEF IInv, TopicTimes
  <2>3. QED
    BY <2>1, <2>2
    DEF Next, Step, Tick, StreamEnds, Execute, Subscribe, BeginWait, TimerFires, HandResults,
        Unsubscribe, StopExecutor, Receive, ReceiveInvalid, ReceiveIgnored, ReceiveCounted, Put,
        vars, mirrorVars
<1>5. QED
  BY <1>1, <1>2, <1>3, <1>4 DEF IInv

\* The calls that were not made have processed nothing.
LEMMA CountedIsProcessed ==
  ASSUME TypeOK, NewAtZero, NEW c \in Calls, Only(c)
  PROVE  Counted = Processed(c)
<1>1. ASSUME NEW d \in Calls, d # c PROVE Processed(d) = {}
  <2>1. cursor[d] = 0
    BY <1>1 DEF Only, NewAtZero
  <2>2. CountedTo(cursor[d]) = {}
    BY <2>1 DEF CountedTo
  <2>3. QED
    BY <2>2 DEF Processed
<1>2. QED
  BY <1>1 DEF Counted

\* What was processed is of one topic.
LEMMA ProcessedTimed ==
  ASSUME IInv, NEW c \in Calls
  PROVE  Timed(Processed(c)) /\ Null \notin Processed(c)
<1>1. cursor[c] \in Nat /\ cursor[c] <= Len(topic)
  BY DEF IInv, TypeOK, CursorOK
<1>2. Timed(CountedTo(cursor[c])) /\ Null \notin CountedTo(cursor[c])
  BY <1>1, CountedToIs DEF IInv
<1>3. QED
  BY <1>2, TimedSubset DEF Processed

\* There is always one call that may be the only one, until there are two.
LEMMA OnceMeans ==
  ASSUME Once
  PROVE  \E c \in Calls : Only(c)
<1>1. PICK b \in Calls : TRUE
  BY ResolverAssumption
<1>2. CASE \A d \in Calls : phase[d] = "new"
  BY <1>1, <1>2 DEF Only
<1>3. ASSUME NEW c \in Calls, phase[c] # "new" PROVE Only(c)
  BY <1>3 DEF Only, Once
<1>4. QED
  BY <1>2, <1>3

\* The invariant is strong enough.
LEMMA IInvImplies ==
  ASSUME IInv
  PROVE  ResultsStand /\ CreatedOfCreation
<1> SUFFICES ASSUME Once
             PROVE  \A s \in Query :
                      /\ results[s] = StatusOf(Kind, Counted, s)
                      /\ LET times == {e.ts : e \in Creations(Counted, s)}
                         IN IF times = {} THEN created[s] = 0 ELSE created[s] \in times
  BY DEF ResultsStand, CreatedOfCreation
<1>1. PICK c \in Calls : Only(c)
  BY OnceMeans
<1>2. Counted = Processed(c) /\ Timed(Counted)
  BY <1>1, CountedIsProcessed, ProcessedTimed DEF IInv
<1>3. \A s \in Query : Stands(Kind, Counted, s, results[s]) /\ CreatedStands(Counted, s, created[s])
  BY <1>1, <1>2 DEF IInv, EntriesStand
<1>4. \A s \in Query : results[s] = StatusOf(Kind, Counted, s)
  BY <1>2, <1>3, StandsIsStatus
<1>5. ASSUME NEW s \in Query
      PROVE  LET times == {e.ts : e \in Creations(Counted, s)}
             IN IF times = {} THEN created[s] = 0 ELSE created[s] \in times
  BY <1>3 DEF CreatedStands
<1>6. QED
  BY <1>4, <1>5

-----------------------------------------------------------------------------
\* Types and cursors hold after every step.
LEMMA TypeNext ==
  ASSUME TypeOK, CursorOK, NewAtZero, [Next]_vars
  PROVE  (TypeOK /\ CursorOK /\ NewAtZero)'
<1> SUFFICES TypeOK'
  BY CursorStep
<1>1. ASSUME NEW c \in Calls, Step(c) PROVE TypeOK'
  BY <1>1, TypeStep
<1>2. CASE \/ \E b \in Bodies : Submit(b)
           \/ Tick
           \/ \E c \in Calls : StreamEnds(c)
  BY <1>2, TypeEnvironment
<1>3. CASE UNCHANGED vars
  BY <1>3 DEF TypeOK, vars
<1>4. QED
  BY <1>1, <1>2, <1>3 DEF Next

\* The types hold however often execute() is called, with any timeout.
THEOREM TypeCorrect == Spec => []TypeOK
<1>1. Init => TypeOK /\ CursorOK /\ NewAtZero
  BY TypeInit
<1>2. TypeOK /\ CursorOK /\ NewAtZero /\ [Next]_vars => (TypeOK /\ CursorOK /\ NewAtZero)'
  BY TypeNext
<1>3. QED
  BY <1>1, <1>2, PTL DEF Spec

\* Until execute() is called again, the resolver holds at every moment and
\* whatever the topic the message that stands among those processed
\* (handleMessage, processMessage).
THEOREM ResultsCorrect == Spec => []ResultsStand
<1>1. Init => IInv
  BY IInvInit
<1>2. IInv /\ [Next]_vars => IInv'
  BY IInvNext
<1>3. IInv => ResultsStand
  BY IInvImplies
<1>4. QED
  BY <1>1, <1>2, <1>3, PTL DEF Spec

\* And the `created` time it reports for a DID is that of a CREATE that counts,
\* whatever came after it (processMessage hands it on).
THEOREM CreatedCorrect == Spec => []CreatedOfCreation
<1>1. Init => IInv
  BY IInvInit
<1>2. IInv /\ [Next]_vars => IInv'
  BY IInvNext
<1>3. IInv => CreatedOfCreation
  BY IInvImplies
<1>4. QED
  BY <1>1, <1>2, <1>3, PTL DEF Spec

-----------------------------------------------------------------------------
(***************************************************************************)
(* Refinement: a resolver used once implements Registry.  What counts for  *)
(* it grows when a callback drops an outdated message and when it puts the *)
(* message in its hand; every other step is a stutter.                     *)
(***************************************************************************)

\* Different envelopes that count have different signatures.
LEMMA BodiesDiffer ==
  ASSUME IInv, NEW n \in Nat, n <= Len(topic),
         NEW e \in CountedTo(n), NEW f \in CountedTo(n), f.ts < e.ts
  PROVE  f.body # e.body
<1>1. PICK j \in 1..n : /\ e = topic[j]
                        /\ \A h \in 1..(j - 1) : topic[h].body # topic[j].body
  BY DEF CountedTo
<1>2. PICK i \in 1..n : f = topic[i]
  BY DEF CountedTo
<1>3. e.ts = j /\ f.ts = i
  BY <1>1, <1>2 DEF IInv, TopicTimes, TypeOK
<1>4. i \in 1..(j - 1)
  BY <1>3
<1>5. QED
  BY <1>1, <1>2, <1>4

\* A step that adds e to what was processed, and that changes no entry but
\* that of the subject of e, is a Count.
LEMMA CountStep ==
  ASSUME SingleUse, ResultsStand', NEW c \in Calls, NEW e,
         e.body.subject \in Query, e \notin Processed(c),
         Processed(c)' = Processed(c) \cup {e},
         \A f \in Processed(c) : f.ts < e.ts /\ f.body # e.body,
         results' = [results EXCEPT ![e.body.subject] = results'[e.body.subject]]
  PROVE  Reg!Count
<1> DEFINE s == e.body.subject
<1>1. Calls = {c}
  BY DEF SingleUse
<1>2. Counted = Processed(c) /\ Counted' = Processed(c)'
  BY <1>1 DEF Counted
<1>3. results'[s] = StatusOf(Kind, Counted', s)
  BY DEF ResultsStand, Once, SingleUse
<1>4. /\ e \in Counted' \ Counted
      /\ Counted' = Counted \cup {e}
      /\ \A f \in Counted : f.body # e.body /\ f.ts < e.ts
  BY <1>2
<1>5. Reg!StatusOf(Kind, Counted', s) = StatusOf(Kind, Counted', s)
  BY DEF StatusOf, Reg!StatusOf, About, Reg!About, Closing, Reg!Closing,
         Newest, Reg!Newest, Terminal, Reg!Terminal
<1>6. results' = [results EXCEPT ![s] = Reg!StatusOf(Kind, Counted', s)]
  BY <1>3, <1>5
<1>7. QED
  BY <1>4, <1>6 DEF Reg!Count

\* An outdated message is dropped.
LEMMA DropCounts ==
  ASSUME SingleUse, IInv, ResultsStand', NEW c \in Calls, ReceiveCounted(c),
         Outdated(results[NextOf(c).body.subject], NextOf(c))
  PROVE  Reg!Count
<1> Only(c)
  BY DEF SingleUse, Only
<1> DEFINE n == cursor[c]
           e == topic[n + 1]
<1>1. /\ n \in Nat /\ n < Len(topic) /\ cursor'[c] = n + 1
      /\ inHand[c] = Null /\ inHand' = inHand /\ UNCHANGED <<topic, results>>
  BY DEF IInv, TypeOK, CursorOK, ReceiveCounted, Delivering
<1>2. Relevant(n + 1) /\ e.body \notin BodiesTo(n) /\ e.body.subject \in Query
  BY DEF IInv, SignaturesOK, ReceiveCounted, Relevant, NextOf, matchesSearchCriteria,
       FirstOfSignature
<1>3. CountedTo(n + 1) = CountedTo(n) \cup {e}
  BY <1>1, <1>2, CountedGrows DEF IInv
<1>4. Processed(c) = CountedTo(n)
  BY <1>1 DEF Processed
<1>5. Processed(c)' = CountedTo(n) \cup {e}
  <2>1. Processed(c)' = CountedTo(cursor[c])'
    BY <1>1 DEF Processed
  <2>2. CountedTo(cursor[c])' = CountedTo(n + 1)
    BY <1>1 DEF CountedTo
  <2>3. QED
    BY <1>3, <2>1, <2>2
<1>6. \A f \in CountedTo(n) : f.ts < e.ts /\ f.body # e.body
  <2>1. e.ts = n + 1
    BY <1>1 DEF IInv, TopicTimes, TypeOK
  <2>2. \A f \in CountedTo(n) : f.ts \in 1..n
    BY <1>1, CountedToIs DEF IInv
  <2>3. \A f \in CountedTo(n) : f.ts < e.ts
    BY <1>1, <2>1, <2>2
  <2>4. n + 1 \in Nat /\ n + 1 <= Len(topic)
    BY <1>1 DEF IInv, TypeOK
  <2>5. \A f \in CountedTo(n) : f.body # e.body
    BY <1>3, <2>3, <2>4, BodiesDiffer
  <2>6. QED
    BY <2>3, <2>5
<1>7. e \notin CountedTo(n)
  BY <1>6
<1>8. results' = [results EXCEPT ![e.body.subject] = results'[e.body.subject]]
  BY <1>1 DEF IInv, TypeOK
<1>9. /\ e \notin Processed(c)
      /\ Processed(c)' = Processed(c) \cup {e}
      /\ \A f \in Processed(c) : f.ts < e.ts /\ f.body # e.body
  BY <1>4, <1>5, <1>6, <1>7
<1>10. PICK x : x = topic[n + 1]
  OBVIOUS
<1>11. /\ x.body.subject \in Query
       /\ x \notin Processed(c)
       /\ Processed(c)' = Processed(c) \cup {x}
       /\ \A f \in Processed(c) : f.ts < x.ts /\ f.body # x.body
       /\ results' = [results EXCEPT ![x.body.subject] = results'[x.body.subject]]
  BY <1>2, <1>8, <1>9, <1>10
<1>12. QED
  BY <1>11, CountStep

\* The message in hand is put.
LEMMA PutCounts ==
  ASSUME SingleUse, IInv, ResultsStand', NEW c \in Calls, Put(c)
  PROVE  Reg!Count
<1> Only(c)
  BY DEF SingleUse, Only
<1> DEFINE n == cursor[c]
           e == inHand[c].env
<1>1. /\ inHand[c] # Null /\ inHand'[c] = Null
      /\ UNCHANGED <<topic, cursor>>
      /\ n \in Nat /\ n <= Len(topic)
      /\ results' = [results EXCEPT ![e.body.subject] = e]
  BY DEF IInv, TypeOK, CursorOK, Put, mirrorVars
<1>2. n > 0 /\ e = topic[n] /\ e \in CountedTo(n) /\ e.body.subject \in Query
  BY <1>1 DEF IInv, InHandOK
<1>3. Processed(c) = {f \in CountedTo(n) : e # f}
  BY <1>1 DEF Processed
<1>4. Processed(c)' = CountedTo(n)
  <2>1. Processed(c)' = CountedTo(cursor[c])'
    BY <1>1 DEF Processed
  <2>2. CountedTo(cursor[c])' = CountedTo(n)
    BY <1>1 DEF CountedTo
  <2>3. QED
    BY <2>1, <2>2
<1>5. \A f \in Processed(c) : f.ts < e.ts /\ f.body # e.body
  <2>1. e.ts = n
    BY <1>1, <1>2 DEF IInv, TopicTimes
  <2>2. Timed(CountedTo(n)) /\ \A f \in CountedTo(n) : f.ts \in 1..n
    BY <1>1, CountedToIs DEF IInv
  <2>3. \A f \in Processed(c) : f \in CountedTo(n) /\ f.ts \in 1..n /\ f.ts # n
    BY <1>2, <1>3, <2>1, <2>2 DEF Timed
  <2>4. \A f \in Processed(c) : f.ts < e.ts
    BY <1>1, <2>1, <2>3
  <2>5. QED
    BY <1>1, <1>2, <2>3, <2>4, BodiesDiffer
<1>6. Processed(c)' = Processed(c) \cup {e} /\ e \notin Processed(c)
  BY <1>2, <1>3, <1>4
<1>7. results' = [results EXCEPT ![e.body.subject] = results'[e.body.subject]]
  BY <1>1, <1>2 DEF IInv, TypeOK
<1> HIDE DEF e, n
<1>8. QED
  BY <1>2, <1>5, <1>6, <1>7, CountStep

\* A step that leaves what was processed and the entries alone.
LEMMA StutterStep ==
  ASSUME SingleUse, NEW c \in Calls, Processed(c)' = Processed(c), results' = results
  PROVE  UNCHANGED Reg!vars
<1>1. Counted' = Counted
  BY DEF Counted, SingleUse
<1>2. QED
  BY <1>1 DEF Reg!vars

\* A resolver used once implements the registry: it counts messages in
\* consensus order, each signature once, and its entries follow.
THEOREM Refinement == SingleUse => (Spec => ImplementsRegistry)
<1> SUFFICES ASSUME SingleUse PROVE Spec => ImplementsRegistry
  OBVIOUS
<1>1. Init => IInv
  BY IInvInit
<1>2. IInv /\ [Next]_vars => IInv'
  BY IInvNext
<1>3. IInv => ResultsStand
  BY IInvImplies
<1>4. Init => Reg!Init
  <2> SUFFICES ASSUME Init PROVE Reg!Init
    OBVIOUS
  <2>1. \A c \in Calls : Processed(c) = {}
    BY DEF Init, Processed, CountedTo
  <2>2. QED
    BY <2>1 DEF Init, Reg!Init, Counted
<1>5. IInv /\ ResultsStand' /\ [Next]_vars => [Reg!Next]_(Reg!vars)
  <2> SUFFICES ASSUME IInv, ResultsStand', [Next]_vars
               PROVE  [Reg!Next]_(Reg!vars)
    OBVIOUS
  <2>1. PICK c \in Calls : \A d \in Calls : d = c
    BY ResolverAssumption DEF SingleUse
  <2> Only(c)
    BY <2>1 DEF Only
  <2>2. CASE UNCHANGED <<topic, cursor, results, inHand>>
    <3>1. Processed(c)' = Processed(c)
      BY <2>2 DEF Processed, CountedTo
    <3>2. QED
      BY <2>2, <3>1, StutterStep
  <2>3. ASSUME NEW b \in Bodies, Submit(b) PROVE UNCHANGED Reg!vars
    <3>1. /\ cursor[c] \in Nat /\ cursor[c] <= Len(topic) /\ cursor' = cursor
          /\ topic \in Seq(Envelope(Kind, Subjects))
          /\ UNCHANGED <<inHand, results>>
      BY <2>3 DEF IInv, TypeOK, CursorOK, Submit, mapVars
    <3>2. \A i \in 1..cursor[c] : topic'[i] = topic[i]
      BY <2>3, <3>1 DEF Submit
    <3>3. CountedTo(cursor[c])' = CountedTo(cursor[c])
      BY <3>1, <3>2 DEF CountedTo
    <3>4. Processed(c)' = Processed(c)
      BY <3>1, <3>3 DEF Processed
    <3>5. QED
      BY <3>1, <3>4, StutterStep
  <2>4. CASE ReceiveInvalid(c) \/ ReceiveIgnored(c)
    <3> DEFINE n == cursor[c]
    <3>1. /\ n \in Nat /\ n < Len(topic) /\ cursor'[c] = n + 1
          /\ UNCHANGED <<topic, results, inHand>>
      BY <2>4 DEF IInv, TypeOK, CursorOK, ReceiveInvalid, ReceiveIgnored, Delivering, mapVars
    <3>2. ~Relevant(n + 1) \/ topic[n + 1].body \in BodiesTo(n)
      BY <2>4 DEF IInv, SignaturesOK, ReceiveInvalid, ReceiveIgnored, Relevant, NextOf,
                  matchesSearchCriteria, FirstOfSignature
    <3>3. CountedTo(n + 1) = CountedTo(n)
      BY <3>1, <3>2, CountedGrows DEF IInv
    <3>4. CountedTo(cursor[c])' = CountedTo(n + 1)
      BY <3>1 DEF CountedTo
    <3>5. Processed(c)' = Processed(c)
      BY <3>1, <3>3, <3>4 DEF Processed
    <3>6. QED
      BY <3>1, <3>5, StutterStep
  <2>5. CASE ReceiveCounted(c) /\ Outdated(results[NextOf(c).body.subject], NextOf(c))
    BY <2>5, DropCounts DEF Reg!Next
  <2>6. CASE ReceiveCounted(c) /\ ~Outdated(results[NextOf(c).body.subject], NextOf(c))
    <3> DEFINE n == cursor[c]
               e == topic[n + 1]
    <3>1. /\ n \in Nat /\ n < Len(topic) /\ cursor'[c] = n + 1
          /\ inHand[c] = Null /\ UNCHANGED <<topic, results>>
          /\ inHand'[c].env = e
      BY <2>6 DEF IInv, TypeOK, CursorOK, ReceiveCounted, Delivering, NextOf
    <3>2. Relevant(n + 1) /\ e.body \notin BodiesTo(n)
      BY <2>6
      DEF IInv, SignaturesOK, ReceiveCounted, Relevant, NextOf, matchesSearchCriteria,
           FirstOfSignature
    <3>3. CountedTo(n + 1) = CountedTo(n) \cup {e}
      BY <3>1, <3>2, CountedGrows DEF IInv
    <3>4. CountedTo(cursor[c])' = CountedTo(n) \cup {e}
      <4>1. CountedTo(cursor[c])' = CountedTo(n + 1)
        BY <3>1 DEF CountedTo
      <4>2. QED
        BY <3>3, <4>1
    <3>5. e \notin CountedTo(n)
      <4>1. e.ts = n + 1
        <5>1. n + 1 \in 1..Len(topic) /\ TopicTimes
          BY <3>1 DEF IInv, TypeOK
        <5>2. QED
          BY <5>1 DEF TopicTimes
      <4>2. \A f \in CountedTo(n) : f.ts \in 1..n
        BY <3>1, CountedToIs DEF IInv
      <4>3. QED
        BY <3>1, <4>1, <4>2
    <3>6. inHand'[c] # Null
      BY <2>6, InHandIsPending
    <3>7. Processed(c)' = CountedTo(n) /\ Processed(c) = CountedTo(n)
      BY <3>1, <3>4, <3>5, <3>6 DEF Processed
    <3>8. QED
      BY <3>1, <3>7, StutterStep
  <2>7. CASE Put(c)
    BY <2>7, PutCounts DEF Reg!Next
  <2>8. CASE Execute(c) \/ Subscribe(c) \/ BeginWait(c) \/ TimerFires(c) \/ HandResults(c)
             \/ Unsubscribe(c) \/ StopExecutor(c) \/ StreamEnds(c) \/ Tick \/ UNCHANGED vars
    BY <2>2, <2>8 DEF Execute, Subscribe, BeginWait, TimerFires, HandResults, Unsubscribe,
                      StopExecutor, StreamEnds, Tick, vars, mirrorVars, mapVars
  <2>9. QED
    BY <2>1, <2>3, <2>4, <2>5, <2>6, <2>7, <2>8 DEF Next, Step, Receive
<1>6. QED
  BY <1>1, <1>2, <1>3, <1>4, <1>5, PTL DEF Spec, ImplementsRegistry, Reg!Spec

-----------------------------------------------------------------------------
(***************************************************************************)
(* Any number of calls.  Nothing is assumed of Calls from here on: streams *)
(* overtake each other, and a later call forgets the signatures that an    *)
(* earlier one met.                                                        *)
(***************************************************************************)

\* The message was in the topic when one of the calls subscribed.
Replayed(e) == \E c \in Calls : \E i \in 1..endTime[c] : e = topic[i]

\* EntriesGenuine is not inductive alone: what a callback is about to put must
\* be such a message too.
HandsGenuine ==
  \A c \in Calls : inHand[c] # Null =>
    /\ inHand[c].env.body.valid
    /\ inHand[c].env.body.subject \in Query
    /\ Replayed(inHand[c].env)

\* The same after a step, of a message that does not change with it.
ReplayedNext(e) == \E c \in Calls : \E i \in 1..endTime'[c] : e = topic'[i]

\* The topic only grows, and an end that is set is not moved.
LEMMA ReplayedStays ==
  ASSUME TypeOK, CursorOK, NewAtZero, [Next]_vars, NEW e, Replayed(e)
  PROVE  ReplayedNext(e)
<1>1. PICK c \in Calls : \E i \in 1..endTime[c] : e = topic[i]
  BY DEF Replayed
<1>2. PICK i \in 1..endTime[c] : e = topic[i]
  BY <1>1
<1>3. endTime[c] \in Nat /\ endTime[c] <= Len(topic) /\ topic \in Seq(Envelope(Kind, Subjects))
  BY DEF TypeOK, CursorOK
<1>4. endTime'[c] = endTime[c]
  <2>1. ASSUME NEW d \in Calls, Subscribe(d) PROVE endTime'[c] = endTime[c]
    <3>1. d # c
      BY <1>2, <2>1 DEF Subscribe, NewAtZero
    <3> QED
      BY <2>1, <3>1 DEF Subscribe, TypeOK
  <2>2. CASE endTime' = endTime
    BY <2>2
  <2> QED
    BY <2>1, <2>2
    DEF Next, Step, Submit, Tick, StreamEnds, Execute, BeginWait, TimerFires, HandResults,
        Unsubscribe, StopExecutor, Receive, ReceiveInvalid, ReceiveIgnored, ReceiveCounted, Put,
        vars, mirrorVars
<1>5. topic'[i] = topic[i]
  <2>1. ASSUME NEW b \in Bodies, Submit(b) PROVE topic'[i] = topic[i]
    BY <1>2, <1>3, <2>1 DEF Submit
  <2>2. CASE topic' = topic
    BY <2>2
  <2> QED
    BY <2>1, <2>2
    DEF Next, Step, Tick, StreamEnds, Execute, Subscribe, BeginWait, TimerFires, HandResults,
        Unsubscribe, StopExecutor, Receive, ReceiveInvalid, ReceiveIgnored, ReceiveCounted, Put,
        vars, mirrorVars
<1> QED
  BY <1>2, <1>4, <1>5 DEF ReplayedNext

\* What a step may put in the hand of a callback, and in the map.
LEMMA GenuineStep ==
  ASSUME TypeOK, CursorOK, NewAtZero, EntriesGenuine, HandsGenuine, [Next]_vars
  PROVE  EntriesGenuine' /\ HandsGenuine'
<1> DEFINE Genuine(e) == e.body.valid /\ e.body.subject \in Query /\ Replayed(e)
           GenuineNext(e) == e.body.valid /\ e.body.subject \in Query /\ ReplayedNext(e)
<1>1. /\ \A c \in Calls : inHand[c] # Null => Genuine(inHand[c].env)
      /\ \A s \in Query : results[s] # Null =>
           Genuine(results[s]) /\ results[s].body.subject = s
  BY DEF HandsGenuine, EntriesGenuine, Replayed
<1>2. ASSUME NEW e, Genuine(e) PROVE GenuineNext(e)
  BY <1>2, ReplayedStays
<1> SUFFICES /\ \A c \in Calls : inHand'[c] # Null => GenuineNext(inHand'[c].env)
             /\ \A s \in Query : results'[s] # Null =>
                  GenuineNext(results'[s]) /\ results'[s].body.subject = s
  BY DEF HandsGenuine, EntriesGenuine, Replayed, ReplayedNext
<1> DEFINE Goal ==
      /\ \A c \in Calls : inHand'[c] # Null => GenuineNext(inHand'[c].env)
      /\ \A s \in Query : results'[s] # Null =>
           GenuineNext(results'[s]) /\ results'[s].body.subject = s
<1>3. ASSUME NEW c \in Calls, ReceiveCounted(c) PROVE Goal
  <2> DEFINE e == NextOf(c)
  <2>1. Genuine(e)
    BY <1>3 DEF ReceiveCounted, matchesSearchCriteria, FirstOfSignature, Replayed, Delivering,
                NextOf, TypeOK
  <2>2. /\ results' = results
        /\ \A d \in Calls : inHand'[d] = inHand[d] \/ inHand'[d].env = e
    BY <1>3 DEF ReceiveCounted, TypeOK
  <2> HIDE DEF e, Genuine, GenuineNext
  <2> QED
    BY <1>1, <1>2, <2>1, <2>2
<1>4. ASSUME NEW c \in Calls, Put(c) PROVE Goal
  <2> DEFINE e == inHand[c].env
  <2>1. Genuine(e) /\ e.body.subject \in Query
    BY <1>1, <1>4 DEF Put
  <2>2. /\ \A s \in Query : \/ results'[s] = results[s]
                            \/ results'[s] = e /\ s = e.body.subject
        /\ \A d \in Calls : inHand'[d] = inHand[d] \/ inHand'[d] = Null
    BY <1>4 DEF Put, TypeOK
  <2> HIDE DEF e, Genuine, GenuineNext
  <2> QED
    BY <1>1, <1>2, <2>1, <2>2
<1>5. CASE UNCHANGED <<results, inHand>>
  BY <1>1, <1>2, <1>5
<1> QED
  BY <1>3, <1>4, <1>5
  DEF Next, Step, Submit, Tick, StreamEnds, Execute, Subscribe, BeginWait, TimerFires,
      HandResults, Unsubscribe, StopExecutor, Receive, ReceiveInvalid, ReceiveIgnored, vars, mapVars

(***************************************************************************)
(* Every entry of the map is a valid message about its subject that was in *)
(* the topic when one of the calls was made, however often execute() is    *)
(* called on the resolver.                                                 *)
(***************************************************************************)
THEOREM GenuineCorrect == Spec => []EntriesGenuine
<1>1. Init => TypeOK /\ CursorOK /\ NewAtZero /\ EntriesGenuine /\ HandsGenuine
  BY TypeInit DEF Init, EntriesGenuine, HandsGenuine
<1>2. TypeOK /\ CursorOK /\ NewAtZero /\ EntriesGenuine /\ HandsGenuine /\ [Next]_vars
        => (TypeOK /\ CursorOK /\ NewAtZero /\ EntriesGenuine /\ HandsGenuine)'
  BY TypeNext, GenuineStep
<1> QED
  BY <1>1, <1>2, PTL DEF Spec

\* The executor is shut down by a call that has answered, and by nothing else.
ExecutorOK ==
  /\ \A c \in Calls : phase[c] \in {"unsubscribing", "stopping", "done"} => handed[c] # Null
  /\ executor = "shutdown" => \E c \in Calls : phase[c] = "done"
  /\ \A c \in Calls : phase[c] = "rejected" => executor = "shutdown"

\* It is inductive with the types.
LEMMA ExecutorStep ==
  ASSUME TypeOK, ExecutorOK, [Next]_vars
  PROVE  ExecutorOK'
<1>1. ASSUME NEW c \in Calls, HandResults(c) PROVE ExecutorOK'
  <2>1. results # Null
    BY ResolverAssumption DEF TypeOK
  <2> QED
    BY <1>1, <2>1 DEF HandResults, ExecutorOK, TypeOK
<1>2. ASSUME NEW c \in Calls, BeginWait(c) \/ TimerFires(c) PROVE ExecutorOK'
  <2>1. /\ UNCHANGED <<executor, handed>>
        /\ phase[c] \in {"subscribed", "waiting"}
        /\ \/ phase' = [phase EXCEPT ![c] = "waiting"]
           \/ phase' = [phase EXCEPT ![c] = "finishing"]
           \/ phase' = [phase EXCEPT ![c] = "rejected"] /\ executor = "shutdown"
    BY <1>2 DEF BeginWait, TimerFires, WaitOrFinish, TypeOK
  <2> QED
    BY <2>1 DEF ExecutorOK, TypeOK
<1>3. ASSUME NEW c \in Calls, Execute(c) \/ Subscribe(c) \/ Unsubscribe(c) \/ StopExecutor(c)
      PROVE  ExecutorOK'
  BY <1>3 DEF Execute, Subscribe, Unsubscribe, StopExecutor, ExecutorOK, TypeOK
<1>4. CASE UNCHANGED <<phase, handed, executor>>
  BY <1>4 DEF ExecutorOK
<1> QED
  BY <1>1, <1>2, <1>3, <1>4
  DEF Next, Step, Submit, Tick, StreamEnds, Receive, ReceiveInvalid, ReceiveIgnored,
      ReceiveCounted, Put, vars, taskVars

(***************************************************************************)
(* A call is rejected only after another one answered and shut the         *)
(* executor (waitOrFinish and finish, of two calls of execute()).          *)
(***************************************************************************)
THEOREM RejectedCorrect == Spec => []RejectedAfterAnswer
<1>1. Init => ExecutorOK
  BY DEF Init, ExecutorOK
<1>2. TypeOK /\ ExecutorOK /\ [Next]_vars => ExecutorOK'
  BY ExecutorStep
<1>3. ExecutorOK => RejectedAfterAnswer
  BY DEF ExecutorOK, RejectedAfterAnswer
<1> QED
  BY <1>1, <1>2, <1>3, TypeCorrect, PTL DEF Spec

-----------------------------------------------------------------------------
(***************************************************************************)
(* A prompt mirror node.  The answer is complete because the resolver does *)
(* not give up while a message is owed: the time since the last arrival is *)
(* then no longer than gap, which is below the timeout as long as the      *)
(* mirror node is prompt.                                                  *)
(***************************************************************************)

\* Where a call is says how far its subscription is.
ProgressOK(c) ==
  /\ phase[c] \in {"subscribed", "waiting"} /\ Owes(c) => c \in open
  /\ phase[c] = "waiting" /\ Owes(c) => quiet <= gap
  /\ phase[c] \in {"finishing", "unsubscribing", "stopping", "done", "failed"} => ~Owes(c)
  /\ handed[c] # Null => phase[c] \in {"unsubscribing", "stopping", "done", "failed"}

PromptInv ==
  /\ gap \in 0..Timeout
  /\ gap < Timeout => \A c \in Calls : ProgressOK(c)
  /\ AnswerComplete

\* Every step of the resolver with its history is one of the resolver.
LEMMA PromptIsNext == [PromptNext]_promptVars => [Next]_vars
  BY DEF PromptNext, PromptTick, PromptSubmit, Delivery, PromptEnds, Other, Next, Step, Receive,
         promptVars

\* A mirror node that was not prompt stays so.
LEMMA GapNext ==
  ASSUME gap \in 0..Timeout, [PromptNext]_promptVars
  PROVE  gap' \in 0..Timeout /\ (gap' < Timeout => gap < Timeout)
  BY ResolverAssumption DEF PromptNext, PromptTick, PromptSubmit, Delivery, PromptEnds, Other,
                            promptVars

\* What is owed does not depend on messages that come after the end.
LEMMA OwesStays ==
  ASSUME TypeOK, CursorOK, NEW c \in Calls, cursor'[c] = cursor[c], endTime'[c] = endTime[c],
         inHand'[c] = inHand[c], topic' = topic \/ \E b \in Bodies : Submit(b)
  PROVE  Owes(c)' <=> Owes(c)
<1>1. /\ endTime[c] \in Nat /\ cursor[c] \in Nat /\ endTime[c] <= Len(topic)
      /\ topic \in Seq(Envelope(Kind, Subjects))
  BY DEF TypeOK, CursorOK
<1>2. \A i \in 1..endTime[c] : topic'[i] = topic[i]
  <2>1. ASSUME NEW b \in Bodies, Submit(b) PROVE \A i \in 1..endTime[c] : topic'[i] = topic[i]
    BY <1>1, <2>1 DEF Submit
  <2> QED
    BY <2>1
<1>3. \A i \in (cursor[c] + 1)..endTime[c] : topic'[i] = topic[i]
  BY <1>1, <1>2
<1>4. QED
  BY <1>3 DEF Owes

\* Every step of the one call keeps its progress.
LEMMA ProgressNext ==
  ASSUME NEW c \in Calls, Calls = {c}, TypeOK, CursorOK,
         gap \in Nat, gap' < Timeout, ProgressOK(c), [PromptNext]_promptVars
  PROVE  ProgressOK(c)'
<1> USE DEF mirrorVars, mapVars, taskVars
<1>1. /\ cursor[c] \in Nat /\ endTime[c] \in Nat /\ cursor[c] <= endTime[c]
      /\ endTime[c] <= Len(topic) /\ quiet \in 0..Timeout /\ Timeout \in Nat
      /\ DOMAIN phase = Calls /\ DOMAIN cursor = Calls /\ DOMAIN endTime = Calls
      /\ DOMAIN inHand = Calls /\ DOMAIN handed = Calls
  BY ResolverAssumption DEF TypeOK, CursorOK
<1>2. CASE Execute(c) /\ gap' = gap
  <2>1. phase'[c] = "created" /\ handed' = handed /\ phase[c] = "new"
    BY <1>1, <1>2 DEF Execute
  <2> QED
    BY <2>1 DEF ProgressOK
<1>3. CASE Subscribe(c)
  <2>1. phase'[c] = "subscribed" /\ handed' = handed /\ phase[c] = "created" /\ c \in open'
    BY <1>1, <1>3 DEF Subscribe
  <2> QED
    BY <2>1 DEF ProgressOK
<1>4. CASE BeginWait(c) /\ gap' = gap
  <2>1. /\ phase'[c] \in {"waiting", "rejected", "finishing"} /\ quiet' = 0 /\ gap' \in Nat
        /\ phase'[c] = "finishing" => Timeout <= 0
        /\ phase[c] = "subscribed" /\ UNCHANGED <<open, handed>>
    BY <1>1, <1>4 DEF BeginWait, WaitOrFinish
  <2>2. Owes(c)' <=> Owes(c)
    BY <1>4, OwesStays DEF BeginWait
  <2> QED
    BY <1>1, <2>1, <2>2 DEF ProgressOK
<1>5. CASE TimerFires(c) /\ gap' = gap
  <2>1. /\ UNCHANGED <<open, handed, quiet>> /\ phase[c] = "waiting"
        /\ \/ phase'[c] \in {"waiting", "rejected"}
           \/ phase'[c] = "finishing" /\ quiet >= Timeout
    BY <1>1, <1>5 DEF TimerFires, WaitOrFinish
  <2>2. Owes(c)' <=> Owes(c)
    BY <1>5, OwesStays DEF TimerFires
  <2>3. quiet >= Timeout => ~Owes(c)
    BY <1>1, <1>5, <2>1 DEF ProgressOK
  <2> QED
    BY <1>5, <2>1, <2>2, <2>3 DEF ProgressOK
<1>6. CASE (HandResults(c) \/ Unsubscribe(c) \/ StopExecutor(c)) /\ gap' = gap
  <2>1. /\ UNCHANGED <<topic, cursor, endTime, inHand>>
        /\ phase[c] \in {"finishing", "unsubscribing", "stopping"}
        /\ phase'[c] \in {"unsubscribing", "stopping", "done", "failed"}
    BY <1>1, <1>6 DEF HandResults, Unsubscribe, StopExecutor
  <2>2. Owes(c)' <=> Owes(c)
    BY <2>1, OwesStays
  <2> QED
    BY <2>1, <2>2 DEF ProgressOK
<1>7. CASE ReceiveIgnored(c) \/ ReceiveCounted(c)
  <2>1. /\ cursor[c] + 1 \in (cursor[c] + 1)..endTime[c]
        /\ topic[cursor[c] + 1].body.valid
    BY <1>1, <1>7 DEF ReceiveIgnored, ReceiveCounted, Delivering, NextOf
  <2>2. UNCHANGED <<open, phase, handed>> /\ quiet' = 0
    BY <1>7 DEF ReceiveIgnored, ReceiveCounted
  <2>3. Owes(c)
    BY <2>1 DEF Owes
  <2>4. gap' \in Nat
    BY <1>7, ResolverAssumption DEF PromptNext, PromptTick, PromptSubmit, Delivery, PromptEnds, Other,
                                    promptVars
  <2> QED
    BY <2>2, <2>3, <2>4 DEF ProgressOK
<1>8. CASE ReceiveInvalid(c) /\ gap' = gap
  <2>1. /\ cursor[c] < endTime[c] /\ ~topic[cursor[c] + 1].body.valid
        /\ cursor'[c] = cursor[c] + 1
        /\ UNCHANGED <<topic, open, endTime, inHand, phase, handed, quiet>>
    BY <1>1, <1>8 DEF ReceiveInvalid, Delivering, NextOf
  <2>2. (cursor[c] + 1)..endTime[c] = {cursor[c] + 1} \cup (cursor'[c] + 1)..endTime'[c]
    BY <1>1, <2>1
  <2>3. Owes(c)' <=> Owes(c)
    BY <2>1, <2>2 DEF Owes
  <2> QED
    BY <1>8, <2>1, <2>3 DEF ProgressOK
<1>9. CASE Put(c) /\ gap' = gap
  <2>1. UNCHANGED <<open, phase, handed, cursor, endTime, quiet>> /\ inHand[c] # Null
    BY <1>9 DEF Put
  <2>2. Owes(c)
    BY <2>1 DEF Owes
  <2> QED
    BY <1>9, <2>1, <2>2 DEF ProgressOK
<1>10. CASE PromptTick
  <2>1. /\ UNCHANGED <<topic, open, phase, handed, cursor, endTime, inHand>>
        /\ quiet' <= quiet + 1 /\ quiet' \in Nat
    BY <1>1, <1>10 DEF PromptTick, Tick
  <2>2. Owes(c)' <=> Owes(c)
    BY <2>1, OwesStays
  <2>3. gap' < Timeout /\ c \in open /\ Owes(c) => gap' = gap + 1
    BY <1>10 DEF PromptTick
  <2> QED
    BY <1>1, <2>1, <2>2, <2>3 DEF ProgressOK
<1>11. CASE PromptEnds(c)
  <2>1. UNCHANGED <<topic, phase, handed, cursor, endTime, inHand, quiet>>
    BY <1>11 DEF PromptEnds, StreamEnds
  <2>2. ~Owes(c)
    BY <1>1, <1>11 DEF PromptEnds
  <2>3. ~Owes(c)'
    BY <2>1, <2>2, OwesStays
  <2> QED
    BY <2>1, <2>3 DEF ProgressOK
<1>12. CASE PromptSubmit \/ UNCHANGED promptVars
  <2>1. /\ UNCHANGED <<phase, handed, cursor, endTime, inHand, quiet, open, gap>>
        /\ topic' = topic \/ \E b \in Bodies : Submit(b)
    BY <1>12 DEF PromptSubmit, Submit, promptVars, vars
  <2>2. Owes(c)' <=> Owes(c)
    BY <2>1, OwesStays
  <2> QED
    BY <2>1, <2>2 DEF ProgressOK
<1> QED
  BY <1>2, <1>3, <1>4, <1>5, <1>6, <1>7, <1>8, <1>9, <1>10, <1>11, <1>12
  DEF PromptNext, Delivery, Other

\* If nothing is owed, all that counts up to the end was processed.
LEMMA NothingOwed ==
  ASSUME TypeOK, CursorOK, NEW c \in Calls, ~Owes(c)
  PROVE  Processed(c) = CountedTo(endTime[c])
<1>1. cursor[c] \in Nat /\ endTime[c] \in Nat /\ cursor[c] <= endTime[c] /\ inHand[c] = Null
  BY DEF TypeOK, CursorOK, Owes
<1>2. \A i \in 1..endTime[c] : topic[i].body.valid => i \in 1..cursor[c]
  BY <1>1 DEF Owes
<1>3. 1..cursor[c] \subseteq 1..endTime[c]
  BY <1>1
<1> DEFINE First(j) == /\ topic[j].body.valid
                       /\ topic[j].body.subject \in Query
                       /\ \A h \in 1..(j - 1) : topic[h].body # topic[j].body
<1>4. {j \in 1..cursor[c] : First(j)} = {j \in 1..endTime[c] : First(j)}
  BY <1>2, <1>3
<1>5. CountedTo(cursor[c]) = CountedTo(endTime[c])
  BY <1>4 DEF CountedTo
<1> QED
  BY <1>1, <1>5 DEF Processed

\* What was handed over while the mirror node was prompt stays the answer.
LEMMA AnswerNext ==
  ASSUME IInv, NEW c \in Calls, Calls = {c}, ProgressOK(c), gap < Timeout, AnswerComplete,
         [Next]_vars
  PROVE  AnswerComplete'
<1>1. /\ cursor[c] \in Nat /\ endTime[c] \in Nat /\ endTime[c] <= Len(topic)
      /\ topic \in Seq(Envelope(Kind, Subjects)) /\ DOMAIN handed = Calls /\ DOMAIN endTime = Calls
  BY DEF IInv, TypeOK, CursorOK
<1>2. ASSUME endTime'[c] = endTime[c] PROVE CountedTo(endTime[c])' = CountedTo(endTime[c])
  <2>1. \A i \in 1..endTime[c] : topic'[i] = topic[i]
    <3>1. ASSUME NEW b \in Bodies, Submit(b) PROVE \A i \in 1..endTime[c] : topic'[i] = topic[i]
      BY <1>1, <3>1 DEF Submit
    <3>2. CASE topic' = topic
      BY <3>2
    <3> QED
      BY <3>1, <3>2
      DEF Next, Step, Tick, StreamEnds, Execute, Subscribe, BeginWait, TimerFires, HandResults,
          Unsubscribe, StopExecutor, Receive, ReceiveInvalid, ReceiveIgnored, ReceiveCounted,
          Put, vars, mirrorVars
  <2> QED
    <3> DEFINE n == endTime[c]
               Counts(t, j) == /\ t[j].body.valid
                               /\ t[j].body.subject \in Query
                               /\ \A h \in 1..(j - 1) : t[h].body # t[j].body
    <3>1. \A j \in 1..n : Counts(topic', j) <=> Counts(topic, j)
      BY <1>1, <2>1
    <3>2. {topic'[i] : i \in {j \in 1..n : Counts(topic', j)}}
            = {topic[i] : i \in {j \in 1..n : Counts(topic, j)}}
      BY <2>1, <3>1
    <3> QED
      BY <1>2, <3>2 DEF CountedTo
<1>3. CASE Subscribe(c)
  <2>1. phase[c] = "created" /\ handed' = handed
    BY <1>3 DEF Subscribe, taskVars
  <2> QED
    BY <2>1 DEF ProgressOK, AnswerComplete
<1>4. CASE HandResults(c)
  <2>1. phase[c] = "finishing" /\ endTime' = endTime /\ handed'[c] = results
    BY <1>1, <1>4 DEF HandResults, mirrorVars
  <2>2. Processed(c) = CountedTo(endTime[c])
    BY <2>1, NothingOwed DEF IInv, ProgressOK
  <2>3. Counted = CountedTo(endTime[c]) /\ Once
    BY <2>2, CountedIsProcessed DEF IInv, Only, Once
  <2>4. \A s \in Query : results[s] = StatusOf(Kind, CountedTo(endTime[c]), s)
    BY <2>3, IInvImplies DEF ResultsStand
  <2> QED
    BY <1>2, <2>1, <2>4 DEF AnswerComplete
<1>5. CASE UNCHANGED <<handed, endTime>>
  BY <1>2, <1>5 DEF AnswerComplete
<1> QED
  BY <1>3, <1>4, <1>5
  DEF Next, Step, Submit, Tick, StreamEnds, Execute, BeginWait, TimerFires, Unsubscribe,
      StopExecutor, Receive, ReceiveInvalid, ReceiveIgnored, ReceiveCounted, Put, vars,
      mirrorVars, taskVars

\* If the mirror node was prompt, a resolver that is used once hands over what
\* stands among all the messages that were in the topic when execute() was
\* called, whatever invalid traffic is between them (setTimeout: "maximum time
\* to wait for new messages").
THEOREM AnswerCorrect == SingleUse => (PromptSpec => []AnswerComplete)
<1> SUFFICES ASSUME SingleUse PROVE PromptSpec => []AnswerComplete
  OBVIOUS
<1>1. PICK c \in Calls : Calls = {c}
  BY ResolverAssumption DEF SingleUse
<1>2. PromptInit => IInv /\ PromptInv
  <2> SUFFICES ASSUME PromptInit PROVE IInv /\ PromptInv
    OBVIOUS
  <2>1. IInv
    BY IInvInit DEF PromptInit
  <2>2. \A d \in Calls : phase[d] = "new" /\ handed[d] = Null
    BY DEF PromptInit, Init
  <2>3. gap = 0 /\ Timeout \in Nat
    BY ResolverAssumption DEF PromptInit
  <2> QED
    BY <2>1, <2>2, <2>3 DEF PromptInv, ProgressOK, AnswerComplete
<1>3. IInv /\ PromptInv /\ [PromptNext]_promptVars => (IInv /\ PromptInv)'
  <2> SUFFICES ASSUME IInv, PromptInv, [PromptNext]_promptVars PROVE IInv' /\ PromptInv'
    OBVIOUS
  <2>1. [Next]_vars /\ TypeOK /\ CursorOK
    BY PromptIsNext DEF IInv
  <2>2. IInv'
    BY <2>1, IInvNext
  <2>3. gap \in Nat /\ gap' \in 0..Timeout /\ (gap' < Timeout => gap < Timeout)
    BY GapNext DEF PromptInv
  <2>4. ASSUME gap' < Timeout PROVE ProgressOK(c)' /\ AnswerComplete'
    <3>1. gap < Timeout /\ ProgressOK(c)
      BY <2>3, <2>4 DEF PromptInv
    <3> QED
      BY <1>1, <2>1, <2>3, <2>4, <3>1, ProgressNext, AnswerNext DEF PromptInv
  <2>5. gap' < Timeout => \A d \in Calls : ProgressOK(d)'
    BY <1>1, <2>4
  <2>6. AnswerComplete'
    BY <2>4 DEF AnswerComplete
  <2> QED
    BY <2>2, <2>3, <2>5, <2>6 DEF PromptInv
<1>4. PromptInv => AnswerComplete
  BY DEF PromptInv
<1> QED
  BY <1>2, <1>3, <1>4, PTL DEF PromptSpec
=============================================================================
