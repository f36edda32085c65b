----------------------------- MODULE AppnetProofs -----------------------------
(***************************************************************************)
(* Theorems about Appnet, for every set of requests, threads, keys and     *)
(* statements, and any number of messages.                                 *)
(*                                                                         *)
(* StatusOfIssuer is not inductive: it speaks of what is held, and a step  *)
(* must know where the key that was compared came from.  OwnInv adds it    *)
(* for every place that a key goes through: the request thread, the map of *)
(* issuers, the documents handed out, and the statuses held.               *)
(*                                                                         *)
(* RegistrationsSaved needs that requests which never overlapped are one   *)
(* at a time (Sequential), that the map then has every registration        *)
(* (Registered), and that what is being written is the map (CopyIsMap).    *)
(*                                                                         *)
(* VerifierFindsTruth needs that, while nothing disturbed the map, what    *)
(* counted about a credential is all that its issuer signed and that was   *)
(* delivered (TruthInv).                                                   *)
(***************************************************************************)
EXTENDS Appnet, VcDocumentProofs, IdentityMessagesProofs

\* There is a request that makes document `doc` with this key.
Made(doc, key) ==
  \E r \in Requests, now \in Times :
    doc = DrivingLicenseDocument(r.uuid, r.issuer, now, r.owner) /\ key = r.key

\* And so there is for a credential that is known by its hash only.
MadeUnder(h, key) == \E d \in Documents : toCredentialHash(d) = h /\ Made(d, key)

TasksOwn == \A t \in Threads : thread[t] # Idle => Made(thread[t].doc, thread[t].key)
IssuersOwn == \A h \in Hashes : issuers[h] # Null => MadeUnder(h, issuers[h])
IssuedOwn ==
  \A i \in issued : \E d \in Documents : i.json = toNormalizedJson(d) /\ Made(d, i.key)
TopicKnown == \A n \in 1..Len(topic) : topic[n].body.subject \in Known
HeldOwn ==
  \A h \in Hashes : held[h] # Null => h \in Known /\ MadeUnder(h, held[h].body.key)

OwnInv == TasksOwn /\ IssuersOwn /\ IssuedOwn /\ TopicKnown /\ HeldOwn

-----------------------------------------------------------------------------
\* The hash of a credential has its id in it, which is drawn once.
LEMMA OneOwner ==
  ASSUME NEW h, NEW k, NEW l, MadeUnder(h, k), MadeUnder(h, l)
  PROVE  k = l
<1>1. PICK r \in Requests, now \in Times :
        /\ toCredentialHash(DrivingLicenseDocument(r.uuid, r.issuer, now, r.owner)) = h
        /\ k = r.key
  BY DEF MadeUnder, Made
<1>2. PICK q \in Requests, then \in Times :
        /\ toCredentialHash(DrivingLicenseDocument(q.uuid, q.issuer, then, q.owner)) = h
        /\ l = q.key
  BY DEF MadeUnder, Made
<1>3. \A u, i, t, o : toCredentialHash(DrivingLicenseDocument(u, i, t, o)).id = u
  BY DEF toCredentialHash, DrivingLicenseDocument, HcsVcDocumentBase
<1>4. r.uuid = h.id /\ q.uuid = h.id
  BY <1>1, <1>2, <1>3
<1>5. r = q
  BY <1>4, AppnetAssumption DEF AppnetAssumption
<1> QED
  BY <1>1, <1>2, <1>5

\* What a request makes has the types that it should.
LEMMA MadeDocument ==
  ASSUME NEW d, NEW k, Made(d, k)
  PROVE  d \in Documents /\ k \in Keys /\ k # Null
  BY AppnetAssumption DEF AppnetAssumption, Made, Documents

\* A document made by a request is made under its hash.
LEMMA MadeHash ==
  ASSUME NEW d, NEW k, Made(d, k)
  PROVE  toCredentialHash(d) \in Hashes /\ MadeUnder(toCredentialHash(d), k)
  BY MadeDocument DEF Hashes, MadeUnder

\* The hash that the server computes for a document that was handed out is that
\* under which its issuer was registered.
LEMMA KnownHash ==
  ASSUME NEW i \in issued, NEW d, i.json = toNormalizedJson(d)
  PROVE  toCredentialHash(d) \in Known /\ determineCredentialHash(i.json) = toCredentialHash(d)
  BY HashSurvivesJson DEF Known

-----------------------------------------------------------------------------
\* Types.

AnyTask ==
  [at : {"idle", "putting", "copying", "writing"}, doc : Documents, key : Keys,
   copy : IssuerMaps, met : BOOLEAN]

\* Enter changes of a task only where it is and whether it was met.
LEMMA EnterTasks ==
  ASSUME thread \in [Threads -> {Idle} \cup Tasks], NEW t \in Threads,
         NEW task \in AnyTask, NEW where \in {"putting", "copying", "writing"}
  PROVE  /\ Enter(t, task, where) \in [Threads -> {Idle} \cup Tasks]
         /\ Enter(t, task, where)[t].doc = task.doc /\ Enter(t, task, where)[t].key = task.key
         /\ \A u \in Threads \ {t} :
              /\ Enter(t, task, where)[u] = Idle <=> thread[u] = Idle
              /\ thread[u] # Idle => /\ Enter(t, task, where)[u].doc = thread[u].doc
                                     /\ Enter(t, task, where)[u].key = thread[u].key
<1> DEFINE entered(u) == IF u = t
                         THEN [task EXCEPT !.at = where, !.met = Others(t, where) # {}]
                         ELSE IF At(u, where) THEN [thread[u] EXCEPT !.met = TRUE] ELSE thread[u]
<1>1. Enter(t, task, where) = [u \in Threads |-> entered(u)]
  BY DEF Enter
<1>2. (Others(t, where) # {}) \in BOOLEAN
  OBVIOUS
<1>3. /\ entered(t) \in Tasks
      /\ entered(t).doc = task.doc /\ entered(t).key = task.key
  BY <1>2 DEF AnyTask, Tasks
<1>4. ASSUME NEW u \in Threads, u # t
      PROVE  /\ entered(u) \in {Idle} \cup Tasks
             /\ entered(u) = Idle <=> thread[u] = Idle
             /\ thread[u] # Idle => /\ entered(u).doc = thread[u].doc
                                    /\ entered(u).key = thread[u].key
  <2>1. CASE At(u, where)
    <3>1. thread[u] \in Tasks /\ thread[u] # Idle
      BY <2>1 DEF At, Idle
    <3>2. /\ entered(u) = [thread[u] EXCEPT !.met = TRUE]
          /\ entered(u) \in Tasks /\ entered(u).at = where
          /\ entered(u).doc = thread[u].doc /\ entered(u).key = thread[u].key
      BY <1>4, <2>1, <3>1 DEF Tasks, At
    <3> QED
      BY <3>1, <3>2 DEF Idle
  <2>2. CASE ~At(u, where)
    BY <1>4, <2>2
  <2> QED
    BY <2>1, <2>2
<1> HIDE DEF entered
<1> QED
  BY <1>1, <1>3, <1>4

\* A thread that is not idle has a task.
LEMMA Busy ==
  ASSUME thread \in [Threads -> {Idle} \cup Tasks], NEW t \in Threads, ~At(t, "idle")
  PROVE  thread[t] \in Tasks /\ thread[t] \in AnyTask /\ thread[t] # Idle
  BY DEF At, Idle, Tasks, AnyTask

\* The task with which a request comes in.
LEMMA NewTask ==
  ASSUME NEW r \in Requests, NEW now \in Times
  PROVE  LET doc == DrivingLicenseDocument(r.uuid, r.issuer, now, r.owner)
         IN /\ [at |-> "idle", key |-> r.key, copy |-> NoIssuers, met |-> FALSE, doc |-> doc]
                  \in AnyTask
            /\ Made(doc, r.key)
<1> DEFINE doc == DrivingLicenseDocument(r.uuid, r.issuer, now, r.owner)
<1>1. doc \in Documents
  BY DEF Documents
<1>2. NoIssuers \in IssuerMaps
  BY DEF NoIssuers, IssuerMaps
<1>3. r.key \in Keys
  BY AppnetAssumption DEF AppnetAssumption
<1>4. Made(doc, r.key)
  BY DEF Made
<1> HIDE DEF doc
<1>5. [at |-> "idle", key |-> r.key, copy |-> NoIssuers, met |-> FALSE, doc |-> doc] \in AnyTask
  BY <1>1, <1>2, <1>3 DEF AnyTask
<1> QED
  BY <1>4, <1>5 DEF doc

\* What put leaves is a map, of which every entry was there before or is the
\* one that was put.
LEMMA PutMaps ==
  ASSUME issuers \in IssuerMaps, NEW t \in Threads, thread[t] \in Tasks,
         NEW map \in AfterPut(t)
  PROVE  /\ map \in IssuerMaps
         /\ \A h \in Hashes : map[h] # Null =>
              \/ map[h] = issuers[h]
              \/ h = toCredentialHash(thread[t].doc) /\ map[h] = thread[t].key
<1> DEFINE all == [issuers EXCEPT ![toCredentialHash(thread[t].doc)] = thread[t].key]
<1>1. PICK gone : map = [h \in Hashes |-> IF h \in gone THEN Null ELSE all[h]]
  BY DEF AfterPut
<1>2. all \in IssuerMaps
  BY DEF IssuerMaps, Tasks
<1>3. \A h \in Hashes :
        \/ all[h] = issuers[h]
        \/ h = toCredentialHash(thread[t].doc) /\ all[h] = thread[t].key
  BY DEF IssuerMaps
<1> HIDE DEF all
<1> QED
  BY <1>1, <1>2, <1>3 DEF IssuerMaps

\* Only hashes of credentials can be asked for.
LEMMA KnownTypes == TypeOK => Known \subseteq Hashes
<1> SUFFICES ASSUME TypeOK, NEW i \in issued
             PROVE  determineCredentialHash(i.json) \in Hashes
  BY DEF Known
<1>1. PICK d \in Documents : i.json = toNormalizedJson(d)
  BY DEF TypeOK
<1> QED
  BY <1>1, KnownHash DEF Hashes

\* What a client may submit is a message.
LEMMA MessageTypes ==
  ASSUME TypeOK, NEW h \in Known, NEW st \in Statements
  PROVE  buildVcMessage(h, st) \in Messages
  BY KnownTypes, AppnetAssumption DEF AppnetAssumption, buildVcMessage, Messages

\* A message that is delivered is an envelope, and comes after those before.
LEMMA NextTypes ==
  ASSUME TypeOK, Delivering
  PROVE  /\ NextEnvelope \in Envelopes
         /\ NextEnvelope.body \in Messages /\ NextEnvelope.body.subject \in Hashes
         /\ cursor + 1 \in 0..Len(topic) /\ cursor + 1 \in 1..Len(topic)
<1>1. cursor + 1 \in 0..Len(topic) /\ cursor + 1 \in 1..Len(topic)
  BY DEF TypeOK, Delivering
<1>2. NextEnvelope \in Envelopes
  BY <1>1 DEF TypeOK, NextEnvelope
<1> QED
  BY <1>1, <1>2 DEF Envelopes, Messages

\* The server starts with values of the right types.
LEMMA TypeInit == Init => TypeOK
<1> SUFFICES ASSUME Init PROVE TypeOK
  OBVIOUS
<1>1. NoIssuers \in IssuerMaps
  BY DEF NoIssuers, IssuerMaps
<1>2. thread \in [Threads -> {Idle} \cup Tasks]
  BY DEF Init
<1>3. topic \in Seq(Envelopes) /\ cursor \in 0..Len(topic)
  BY DEF Init
<1>4. held \in [Hashes -> Envelopes \cup {Null}]
  BY DEF Init
<1> QED
  BY <1>1, <1>2, <1>3, <1>4 DEF Init, TypeOK

\* The part of TypeOK that requests change.
LEMMA TypeRequest ==
  ASSUME TypeOK, NEW t \in Threads,
         \/ Request(t)
         \/ \E r \in Requests, now \in Times : generateDrivingLicense(t, r, now)
  PROVE  TypeOK'
<1>1. ASSUME NEW r \in Requests, NEW now \in Times, generateDrivingLicense(t, r, now)
      PROVE  TypeOK'
  <2>1. thread' \in [Threads -> {Idle} \cup Tasks]
    BY <1>1, NewTask, EnterTasks DEF generateDrivingLicense, TypeOK
  <2>2. made' \subseteq Requests /\ overlapped' \in BOOLEAN
    BY <1>1 DEF generateDrivingLicense, TypeOK
  <2> QED
    BY <1>1, <2>1, <2>2 DEF generateDrivingLicense, TypeOK, storeVars
<1>2. CASE PutIssuer(t)
  <2>1. thread[t] \in Tasks /\ thread[t] \in AnyTask
    BY <1>2, Busy DEF PutIssuer, At, TypeOK
  <2>2. thread' \in [Threads -> {Idle} \cup Tasks]
    BY <1>2, <2>1, EnterTasks DEF PutIssuer, TypeOK
  <2>3. issuers' \in IssuerMaps
    BY <1>2, <2>1, PutMaps DEF PutIssuer, TypeOK
  <2>4. disturbed' \in BOOLEAN
    BY <1>2, <2>1 DEF PutIssuer, TypeOK, Tasks
  <2> QED
    BY <1>2, <2>2, <2>3, <2>4 DEF PutIssuer, TypeOK, storeVars
<1>3. CASE CopyIssuers(t)
  <2>1. thread[t] \in AnyTask
    BY <1>3, Busy DEF CopyIssuers, At, TypeOK
  <2>2. PICK hidden :
          thread' = Enter(t, [thread[t] EXCEPT !.copy =
                               [h \in Hashes |-> IF h \in hidden THEN Null ELSE issuers[h]]],
                          "writing")
    BY <1>3 DEF CopyIssuers
  <2>3. [h \in Hashes |-> IF h \in hidden THEN Null ELSE issuers[h]] \in IssuerMaps
    BY DEF TypeOK, IssuerMaps
  <2>4. [thread[t] EXCEPT !.copy =
           [h \in Hashes |-> IF h \in hidden THEN Null ELSE issuers[h]]] \in AnyTask
    BY <2>1, <2>3 DEF AnyTask
  <2>5. thread' \in [Threads -> {Idle} \cup Tasks]
    BY <2>2, <2>4, EnterTasks DEF TypeOK
  <2>6. disturbed' \in BOOLEAN
    BY <1>3 DEF CopyIssuers, TypeOK
  <2> QED
    BY <1>3, <2>5, <2>6 DEF CopyIssuers, TypeOK, storeVars
<1>4. CASE FailToCopy(t)
  BY <1>4 DEF FailToCopy, TypeOK, storeVars
<1>5. CASE FailToOpen(t) \/ Respond(t)
  <2>1. thread[t] \in Tasks
    BY <1>5, Busy DEF FailToOpen, Respond, At, TypeOK
  <2>2. /\ issuerFile' = Null \/ issuerFile' \in IssuerMaps
        /\ unsaved' \in BOOLEAN
    BY <1>5, <2>1 DEF FailToOpen, Respond, Tasks, TypeOK
  <2>3. thread' \in [Threads -> {Idle} \cup Tasks]
    BY <1>5 DEF FailToOpen, Respond, TypeOK
  <2>4. thread[t].doc \in Documents /\ thread[t].key \in Keys
    BY <2>1 DEF Tasks
  <2>5. \A i \in issued' :
          i.json \in {toNormalizedJson(d) : d \in Documents} /\ i.key \in Keys
    BY <1>5, <2>4 DEF FailToOpen, Respond, Handed, TypeOK
  <2> QED
    BY <1>5, <2>2, <2>3, <2>5 DEF FailToOpen, Respond, TypeOK, storeVars
<1> QED
  BY <1>1, <1>2, <1>3, <1>4, <1>5 DEF Request

\* The part that submitting and listening change.
LEMMA TypeListener ==
  ASSUME TypeOK,
         \/ \E h \in Known, st \in Statements : submitVcMessage(buildVcMessage(h, st))
         \/ HandleResponse
         \/ StreamEnds
  PROVE  TypeOK'
<1>1. ASSUME NEW h \in Known, NEW st \in Statements, submitVcMessage(buildVcMessage(h, st))
      PROVE  TypeOK'
  <2>1. [ts |-> Len(topic) + 1, body |-> buildVcMessage(h, st)] \in Envelopes
    BY MessageTypes DEF TypeOK, Envelopes
  <2>2. topic' \in Seq(Envelopes) /\ Len(topic') = Len(topic) + 1
    BY <1>1, <2>1 DEF submitVcMessage, TypeOK
  <2>3. cursor' \in 0..Len(topic')
    BY <1>1, <2>2 DEF submitVcMessage, TypeOK
  <2> QED
    BY <1>1, <2>2, <2>3 DEF submitVcMessage, TypeOK, requestVars, storeVars
<1>2. CASE StreamEnds
  BY <1>2 DEF StreamEnds, TypeOK, requestVars, storeVars
<1>3. CASE Reject
  <2>1. cursor' \in 0..Len(topic)
    BY <1>3, NextTypes DEF Reject
  <2>2. disturbed' \in BOOLEAN
    BY <1>3 DEF Reject, TypeOK, isSignatureAccepted
  <2> QED
    BY <1>3, <2>1, <2>2 DEF Reject, TypeOK, requestVars, storeVars
<1>4. ASSUME Accept, UNCHANGED <<requestVars, topic, listening, disturbed>>,
             signatures' \in {signatures, signatures \cup {NextEnvelope.body}},
             counted' \in {counted, counted \cup {NextEnvelope}},
             held' \in {held, [held EXCEPT ![NextEnvelope.body.subject] = NextEnvelope]}
      PROVE  TypeOK'
  <2>1. NextEnvelope \in Envelopes /\ NextEnvelope.body \in Messages
    BY <1>4, NextTypes DEF Accept
  <2>2. cursor' \in 0..Len(topic)
    BY <1>4, NextTypes DEF Accept
  <2>3. signatures' \subseteq Messages
    BY <1>4, <2>1 DEF TypeOK
  <2>4. counted' \subseteq Envelopes
    BY <1>4, <2>1 DEF TypeOK
  <2>5. held' \in [Hashes -> Envelopes \cup {Null}]
    BY <1>4, <2>1 DEF TypeOK
  <2> QED
    BY <1>4, <2>2, <2>3, <2>4, <2>5 DEF TypeOK, requestVars
<1>5. CASE IgnoreDuplicate
  BY <1>4, <1>5 DEF IgnoreDuplicate, storeVars
<1>6. CASE IgnoreOutdated
  BY <1>4, <1>6 DEF IgnoreOutdated
<1>7. CASE PutStatus
  BY <1>4, <1>7 DEF PutStatus
<1> QED
  BY <1>1, <1>2, <1>3, <1>5, <1>6, <1>7 DEF HandleResponse

\* No step leaves them.
LEMMA TypeStep == TypeOK /\ [Next]_vars => TypeOK'
<1> SUFFICES ASSUME TypeOK, [Next]_vars PROVE TypeOK'
  OBVIOUS
<1>1. CASE Next
  BY <1>1, TypeRequest, TypeListener DEF Next
<1>2. CASE UNCHANGED vars
  BY <1>2 DEF vars, requestVars, storeVars, TypeOK
<1> QED
  BY <1>1, <1>2

(***************************************************************************)
(* The type invariant of a server and its clients, for any requests,       *)
(* threads, keys and statements.                                           *)
(***************************************************************************)
THEOREM TypeCorrect == Spec => []TypeOK
  BY TypeInit, TypeStep, PTL DEF Spec

-----------------------------------------------------------------------------
\* Where the keys come from.

\* What was known stays known.
LEMMA KnownGrows == issued \subseteq issued' => Known \subseteq Known'
  BY DEF Known

\* A server that starts has no keys.
LEMMA OwnInit == Init => OwnInv
  BY DEF Init, OwnInv, TasksOwn, IssuersOwn, IssuedOwn, TopicKnown, HeldOwn, NoIssuers

\* Requests carry a key from the thread to the map and to what is handed out; and
\* entries of the map may vanish, but never change their key.
LEMMA OwnRequest ==
  ASSUME TypeOK, OwnInv, NEW t \in Threads,
         \/ Request(t)
         \/ \E r \in Requests, now \in Times : generateDrivingLicense(t, r, now)
  PROVE  OwnInv'
<1>1. ASSUME issued \subseteq issued', UNCHANGED <<topic, held>>
      PROVE  TopicKnown' /\ HeldOwn'
  BY <1>1, KnownGrows DEF OwnInv, TopicKnown, HeldOwn, MadeUnder
<1>2. ASSUME NEW task \in AnyTask, Made(task.doc, task.key),
             NEW where \in {"putting", "copying", "writing"}, thread' = Enter(t, task, where)
      PROVE  TasksOwn'
  <2>1. ASSUME NEW u \in Threads, thread'[u] # Idle
        PROVE  Made(thread'[u].doc, thread'[u].key)
    <3>1. CASE u = t
      BY <1>2, <3>1, EnterTasks DEF TypeOK
    <3>2. CASE u # t
      BY <1>2, <2>1, <3>2, EnterTasks DEF TypeOK, OwnInv, TasksOwn
    <3> QED
      BY <3>1, <3>2
  <2> QED
    BY <2>1 DEF TasksOwn
<1>3. ASSUME NEW r \in Requests, NEW now \in Times, generateDrivingLicense(t, r, now)
      PROVE  OwnInv'
  <2>1. TasksOwn'
    <3> DEFINE task == [at |-> "idle", key |-> r.key, copy |-> NoIssuers, met |-> FALSE,
                        doc |-> DrivingLicenseDocument(r.uuid, r.issuer, now, r.owner)]
    <3>1. task \in AnyTask /\ Made(task.doc, task.key)
      BY NewTask
    <3>2. thread' = Enter(t, task, "putting")
      BY <1>3 DEF generateDrivingLicense
    <3> HIDE DEF task
    <3> QED
      BY <1>2, <3>1, <3>2
  <2> QED
    BY <1>1, <1>3, <2>1
    DEF generateDrivingLicense, storeVars, OwnInv, IssuersOwn, IssuedOwn, MadeUnder
<1>4. CASE PutIssuer(t)
  <2>1. thread[t] \in Tasks /\ thread[t] \in AnyTask /\ thread[t] # Idle
    BY <1>4, Busy DEF PutIssuer, At, TypeOK
  <2>2. Made(thread[t].doc, thread[t].key)
    BY <2>1 DEF OwnInv, TasksOwn
  <2>3. TasksOwn'
    BY <1>2, <1>4, <2>1, <2>2 DEF PutIssuer
  <2>4. MadeUnder(toCredentialHash(thread[t].doc), thread[t].key)
    BY <2>2, MadeHash
  <2>5. IssuersOwn'
    BY <1>4, <2>1, <2>4, PutMaps DEF PutIssuer, OwnInv, IssuersOwn, TypeOK
  <2> QED
    BY <1>1, <1>4, <2>3, <2>5 DEF PutIssuer, storeVars, OwnInv, IssuedOwn
<1>5. CASE CopyIssuers(t)
  <2>1. thread[t] \in AnyTask /\ thread[t] # Idle
    BY <1>5, Busy DEF CopyIssuers, At, TypeOK
  <2>2. PICK hidden :
          thread' = Enter(t, [thread[t] EXCEPT !.copy =
                               [h \in Hashes |-> IF h \in hidden THEN Null ELSE issuers[h]]],
                          "writing")
    BY <1>5 DEF CopyIssuers
  <2> DEFINE copy == [h \in Hashes |-> IF h \in hidden THEN Null ELSE issuers[h]]
             task == [thread[t] EXCEPT !.copy = copy]
  <2>3. copy \in IssuerMaps
    BY DEF TypeOK, IssuerMaps
  <2> HIDE DEF copy
  <2>4. task \in AnyTask /\ task.doc = thread[t].doc /\ task.key = thread[t].key
    BY <2>1, <2>3 DEF AnyTask
  <2>5. Made(task.doc, task.key)
    BY <2>1, <2>4 DEF OwnInv, TasksOwn
  <2>6. thread' = Enter(t, task, "writing")
    BY <2>2 DEF copy
  <2> HIDE DEF task
  <2>7. TasksOwn'
    BY <1>2, <2>4, <2>5, <2>6
  <2> QED
    BY <1>1, <1>5, <2>7 DEF CopyIssuers, storeVars, OwnInv, IssuersOwn, IssuedOwn
<1>6. CASE FailToCopy(t)
  <2>1. TasksOwn'
    BY <1>6 DEF FailToCopy, TypeOK, OwnInv, TasksOwn
  <2> QED
    BY <1>1, <1>6, <2>1 DEF FailToCopy, storeVars, OwnInv, IssuersOwn, IssuedOwn
<1>7. CASE FailToOpen(t) \/ Respond(t)
  <2>1. thread[t] \in AnyTask /\ thread[t] # Idle
    BY <1>7, Busy DEF FailToOpen, Respond, At, TypeOK
  <2>2. Made(thread[t].doc, thread[t].key) /\ thread[t].doc \in Documents
    BY <2>1, MadeDocument DEF OwnInv, TasksOwn
  <2>3. TasksOwn'
    BY <1>7 DEF FailToOpen, Respond, TypeOK, OwnInv, TasksOwn
  <2>4. IssuedOwn'
    BY <1>7, <2>2 DEF FailToOpen, Respond, Handed, OwnInv, IssuedOwn
  <2> QED
    BY <1>1, <1>7, <2>3, <2>4 DEF FailToOpen, Respond, storeVars, OwnInv, IssuersOwn
<1> QED
  BY <1>3, <1>4, <1>5, <1>6, <1>7 DEF Request

\* The listener takes the key that it compared, of the hash that it looked up.
LEMMA OwnListener ==
  ASSUME TypeOK, OwnInv,
         \/ \E h \in Known, st \in Statements : submitVcMessage(buildVcMessage(h, st))
         \/ HandleResponse
         \/ StreamEnds
  PROVE  OwnInv'
<1>1. ASSUME UNCHANGED requestVars
      PROVE  TasksOwn' /\ IssuersOwn' /\ IssuedOwn' /\ Known' = Known
  BY <1>1 DEF requestVars, OwnInv, TasksOwn, IssuersOwn, IssuedOwn, Known
<1>2. ASSUME NEW h \in Known, NEW st \in Statements, submitVcMessage(buildVcMessage(h, st))
      PROVE  OwnInv'
  <2>1. UNCHANGED requestVars /\ UNCHANGED held
    BY <1>2 DEF submitVcMessage, storeVars
  <2>2. ASSUME NEW n \in 1..Len(topic') PROVE topic'[n].body.subject \in Known
    <3>1. topic' = Append(topic, [ts |-> Len(topic) + 1, body |-> buildVcMessage(h, st)])
      BY <1>2 DEF submitVcMessage
    <3>2. CASE n \in 1..Len(topic)
      BY <3>1, <3>2 DEF TypeOK, OwnInv, TopicKnown
    <3>3. CASE n = Len(topic) + 1
      <4>1. topic'[n].body = buildVcMessage(h, st)
        BY <3>1, <3>3 DEF TypeOK
      <4> QED
        BY <4>1 DEF buildVcMessage
    <3> QED
      BY <3>1, <3>2, <3>3 DEF TypeOK
  <2>3. TopicKnown'
    BY <1>1, <2>1, <2>2 DEF TopicKnown
  <2> QED
    BY <1>1, <2>1, <2>3 DEF OwnInv, HeldOwn
<1>3. ASSUME UNCHANGED <<requestVars, topic, held>>
      PROVE  OwnInv'
  BY <1>1, <1>3 DEF OwnInv, TopicKnown, HeldOwn
<1>4. CASE StreamEnds
  BY <1>3, <1>4 DEF StreamEnds, storeVars
<1>5. CASE Reject
  BY <1>3, <1>5 DEF Reject, storeVars
<1>6. CASE IgnoreDuplicate
  BY <1>3, <1>6 DEF IgnoreDuplicate, storeVars
<1>7. CASE IgnoreOutdated
  BY <1>3, <1>7 DEF IgnoreOutdated
<1>8. CASE PutStatus
  <2> DEFINE s == NextEnvelope.body.subject
  <2>1. Delivering /\ isSignatureAccepted(NextEnvelope.body)
    BY <1>8 DEF PutStatus, Accept
  <2>2. s \in Known /\ s \in Hashes
    BY <2>1, NextTypes DEF OwnInv, TopicKnown, NextEnvelope
  <2>3. MadeUnder(s, NextEnvelope.body.key)
    BY <2>1, <2>2 DEF isSignatureAccepted, OwnInv, IssuersOwn
  <2>4. held' = [held EXCEPT ![s] = NextEnvelope] /\ UNCHANGED <<requestVars, topic>>
    BY <1>8 DEF PutStatus
  <2>5. TopicKnown'
    BY <1>1, <2>4 DEF OwnInv, TopicKnown
  <2>6. ASSUME NEW h \in Hashes, held'[h] # Null
        PROVE  h \in Known /\ MadeUnder(h, held'[h].body.key)
    BY <2>2, <2>3, <2>4, <2>6 DEF TypeOK, OwnInv, HeldOwn
  <2>7. HeldOwn'
    BY <1>1, <2>4, <2>6 DEF HeldOwn
  <2> QED
    BY <1>1, <2>4, <2>5, <2>7 DEF OwnInv
<1> QED
  BY <1>2, <1>4, <1>5, <1>6, <1>7, <1>8 DEF HandleResponse

\* Together, for every step.
LEMMA OwnStep == TypeOK /\ OwnInv /\ [Next]_vars => OwnInv'
<1> SUFFICES ASSUME TypeOK, OwnInv, [Next]_vars PROVE OwnInv'
  OBVIOUS
<1>1. CASE Next
  BY <1>1, OwnRequest, OwnListener DEF Next
<1>2. CASE UNCHANGED vars
  BY <1>2 DEF vars, requestVars, storeVars, OwnInv, TasksOwn, IssuersOwn, IssuedOwn,
     TopicKnown, HeldOwn, Known, MadeUnder
<1> QED
  BY <1>1, <1>2

\* The document under whose hash a status is held, and the key that made it,
\* are those of one request.
LEMMA OwnImplies == OwnInv => StatusOfIssuer
<1> SUFFICES ASSUME OwnInv, NEW h \in Hashes, held[h] # Null
             PROVE  \E i \in issued : /\ determineCredentialHash(i.json) = h
                                      /\ i.key = held[h].body.key
  BY DEF StatusOfIssuer
<1>1. h \in Known /\ MadeUnder(h, held[h].body.key)
  BY DEF OwnInv, HeldOwn
<1>2. PICK i \in issued : determineCredentialHash(i.json) = h
  BY <1>1 DEF Known
<1>3. PICK d \in Documents : i.json = toNormalizedJson(d) /\ Made(d, i.key)
  BY DEF OwnInv, IssuedOwn
<1>4. MadeUnder(h, i.key)
  BY <1>2, <1>3, KnownHash DEF MadeUnder
<1>5. i.key = held[h].body.key
  BY <1>1, <1>4, OneOwner
<1> QED
  BY <1>2, <1>5

(***************************************************************************)
(* A status that the server holds was signed with the key of the request   *)
(* that made the document, for any requests and threads, and whatever      *)
(* these do to the map of issuers.                                         *)
(***************************************************************************)
THEOREM IssuerCorrect == Spec => []StatusOfIssuer
<1>1. Init => OwnInv
  BY OwnInit
<1>2. TypeOK /\ OwnInv /\ [Next]_vars => OwnInv'
  BY OwnStep
<1>3. OwnInv => StatusOfIssuer
  BY OwnImplies
<1> QED
  BY <1>1, <1>2, <1>3, TypeCorrect, PTL DEF Spec
-----------------------------------------------------------------------------
(***************************************************************************)
(* Refinement.  Registry asks for the status that stands among all that    *)
(* counted, and the server compares one message with one held: RegInv says *)
(* that what is held always stands, and that what was met is what counted, *)
(* all of it older than the next message.                                  *)
(***************************************************************************)

RegInv ==
  /\ \A n \in 1..Len(topic) : topic[n].ts = n
  /\ Timed(counted)
  /\ \A e \in counted : e.ts <= cursor
  /\ signatures = {e.body : e \in counted}
  /\ \A h \in Hashes : Stands("VC", counted, h, held[h])

\* Nothing has counted yet.
LEMMA RegInit == Init => RegInv
  BY DEF Init, RegInv, Timed, Stands, About

\* What the two steps that count a message have in common: it is newer than all
\* that counted, its signature was not met, and held is changed, if at all, to it.
LEMMA RegCount ==
  ASSUME TypeOK, RegInv, Accept, ~Met(NextEnvelope), UNCHANGED topic,
         signatures' = signatures \cup {NextEnvelope.body},
         counted' = counted \cup {NextEnvelope},
         IF VcOutdated(held[NextEnvelope.body.subject], NextEnvelope) THEN held' = held
         ELSE held' = [held EXCEPT ![NextEnvelope.body.subject] = NextEnvelope]
  PROVE  RegInv' /\ Statuses!Count
<1>1. PICK e : e = NextEnvelope
  OBVIOUS
<1>2. /\ e \in Envelopes /\ e.body.subject \in Hashes
      /\ e.ts = cursor + 1 /\ cursor \in Nat /\ cursor' = cursor + 1
  BY <1>1, NextTypes DEF Accept, NextEnvelope, RegInv, TypeOK
<1>3. /\ \A f \in counted : f \in Envelopes /\ f.ts \in Nat /\ f.ts < e.ts
      /\ Null \notin counted
  BY <1>2, NullAssumption DEF RegInv, TypeOK, Envelopes
<1>4. \A f \in counted : f.body # e.body
  BY <1>1 DEF RegInv, Met
<1>5. /\ counted' = counted \cup {e}
      /\ signatures' = signatures \cup {e.body}
      /\ IF VcOutdated(held[e.body.subject], e) THEN held' = held
         ELSE held' = [held EXCEPT ![e.body.subject] = e]
  BY <1>1
<1>6. Timed(counted \cup {e})
  BY <1>2, <1>3 DEF RegInv, Timed
<1>7. \A h \in Hashes : Stands("VC", counted', h, held'[h])
  <2> TAKE h \in Hashes
  <2>1. Stands("VC", counted, h, held[h])
    BY DEF RegInv
  <2>2. /\ e.body.subject # h => Stands("VC", counted \cup {e}, h, held[h])
        /\ e.body.subject = h /\ VcOutdated(held[h], e) =>
             Stands("VC", counted \cup {e}, h, held[h])
        /\ e.body.subject = h /\ ~VcOutdated(held[h], e) => Stands("VC", counted \cup {e}, h, e)
    BY <1>3, <1>6, <2>1, StandsExtend, OutdatedIs
  <2>3. /\ e.body.subject # h => held'[h] = held[h]
        /\ e.body.subject = h /\ VcOutdated(held[h], e) => held'[h] = held[h]
        /\ e.body.subject = h /\ ~VcOutdated(held[h], e) => held'[h] = e
    BY <1>5 DEF TypeOK
  <2> QED
    BY <1>5, <2>2, <2>3
<1>8. RegInv'
  <2>1. \A f \in counted' : f.ts <= cursor'
    BY <1>2, <1>3, <1>5
  <2>2. signatures' = {f.body : f \in counted'}
    BY <1>5 DEF RegInv
  <2> QED
    BY <1>5, <1>6, <1>7, <2>1, <2>2 DEF RegInv
<1>9. held'[e.body.subject] = StatusOf("VC", counted', e.body.subject)
  <2> DEFINE C == counted \cup {e}
             s == e.body.subject
  <2>1. Timed(C) /\ Stands("VC", C, s, held'[s])
    BY <1>2, <1>5, <1>6, <1>7
  <2>2. held'[s] = StatusOf("VC", C, s)
    <3> HIDE DEF C, s
    <3> QED
      BY <2>1, StandsIsStatus
  <2> QED
    BY <1>5, <2>2
<1>10. Statuses!StatusOf("VC", counted', e.body.subject) =
         StatusOf("VC", counted', e.body.subject)
  BY DEF StatusOf, Statuses!StatusOf, About, Statuses!About, Closing, Statuses!Closing,
         Newest, Statuses!Newest, Terminal, Statuses!Terminal
<1>11. held' = [held EXCEPT ![e.body.subject] = held'[e.body.subject]]
  BY <1>2, <1>5 DEF TypeOK
<1>12. e \in counted' \ counted /\ \A f \in counted : f.body # e.body /\ f.ts < e.ts
  BY <1>3, <1>4, <1>5
<1>13. Statuses!Count
  BY <1>2, <1>5, <1>9, <1>10, <1>11, <1>12 DEF Statuses!Count
<1> QED
  BY <1>8, <1>13

\* Every step counts one message, or leaves what counted and what is held alone.
LEMMA RegStep ==
  ASSUME TypeOK, RegInv, [Next]_vars
  PROVE  RegInv' /\ (Statuses!Count \/ UNCHANGED <<counted, held>>)
<1>1. ASSUME UNCHANGED <<topic, cursor, storeVars>>
      PROVE  RegInv' /\ UNCHANGED <<counted, held>>
  BY <1>1 DEF RegInv, storeVars
<1>2. ASSUME UNCHANGED <<topic, storeVars>>, Delivering, cursor' = cursor + 1
      PROVE  RegInv' /\ UNCHANGED <<counted, held>>
  <2>1. \A e \in counted : e.ts <= cursor + 1
    BY DEF RegInv, TypeOK, Envelopes
  <2> QED
    BY <1>2, <2>1 DEF RegInv, storeVars
<1>3. ASSUME NEW t \in Threads,
             \/ Request(t)
             \/ \E r \in Requests, now \in Times : generateDrivingLicense(t, r, now)
      PROVE  UNCHANGED <<topic, cursor, storeVars>>
  BY <1>3
  DEF Request, PutIssuer, CopyIssuers, FailToCopy, FailToOpen, Respond, generateDrivingLicense
<1>4. ASSUME NEW h \in Known, NEW st \in Statements, submitVcMessage(buildVcMessage(h, st))
      PROVE  RegInv' /\ UNCHANGED <<counted, held>>
  <2>1. /\ topic' = Append(topic, [ts |-> Len(topic) + 1, body |-> buildVcMessage(h, st)])
        /\ UNCHANGED <<cursor, storeVars>>
    BY <1>4 DEF submitVcMessage
  <2>2. \A n \in 1..Len(topic') : topic'[n].ts = n
    BY <2>1 DEF RegInv, TypeOK
  <2> QED
    BY <2>1, <2>2 DEF RegInv, storeVars
<1>5. CASE StreamEnds
  BY <1>1, <1>5 DEF StreamEnds
<1>6. CASE Reject
  BY <1>2, <1>6 DEF Reject
<1>7. CASE IgnoreDuplicate
  BY <1>2, <1>7 DEF IgnoreDuplicate, Accept
<1>8. CASE IgnoreOutdated
  BY <1>8, RegCount DEF IgnoreOutdated
<1>9. CASE PutStatus
  BY <1>9, RegCount DEF PutStatus
<1>10. CASE UNCHANGED vars
  BY <1>1, <1>10 DEF vars
<1> QED
  BY <1>1, <1>3, <1>4, <1>5, <1>6, <1>7, <1>8, <1>9, <1>10 DEF Next, HandleResponse

(***************************************************************************)
(* The statuses of the server are a registry, for any requests, threads,   *)
(* keys and statements: what is held for a credential stands among all the *)
(* messages that passed the checks, each signature counted once.           *)
(***************************************************************************)
THEOREM Refinement == Spec => ImplementsRegistry
<1>1. Init => Statuses!Init
  BY DEF Init, Statuses!Init
<1>2. TypeOK /\ RegInv /\ [Next]_vars => RegInv' /\ [Statuses!Next]_(Statuses!vars)
  BY RegStep DEF Statuses!Next, Statuses!vars
<1> QED
  BY <1>1, <1>2, RegInit, TypeCorrect, PTL DEF Spec, ImplementsRegistry, Statuses!Spec

-----------------------------------------------------------------------------
(***************************************************************************)
(* Registrations.  A key that was put stays in the map as long as no two   *)
(* puts met; and if no two requests overlapped, then none did, and what    *)
(* was written is the map as it is.                                        *)
(***************************************************************************)

HashOf(i) == determineCredentialHash(i.json)

Registered ==
  /\ \A i \in issued : issuers[HashOf(i)] = i.key
  /\ \A t \in Threads : thread[t].at \in {"copying", "writing"} =>
       issuers[toCredentialHash(thread[t].doc)] = thread[t].key

Sequential ==
  overlapped = FALSE =>
    /\ \A t, u \in Threads : thread[t] # Idle /\ thread[u] # Idle => t = u
    /\ \A t \in Threads : thread[t] # Idle => thread[t].met = FALSE

RegisteredInv ==
  /\ Sequential
  /\ disturbed = FALSE \/ overlapped = FALSE => Registered

\* What the only request has copied is the map.
CopyIsMap ==
  overlapped = FALSE =>
    \A t \in Threads : thread[t].at = "writing" => thread[t].copy = issuers

\* Where Enter leaves the threads, and who meets whom.
LEMMA EnterPlaces ==
  ASSUME thread \in [Threads -> {Idle} \cup Tasks], NEW t \in Threads,
         NEW task \in AnyTask, NEW where \in {"putting", "copying", "writing"},
         thread' = Enter(t, task, where)
  PROVE  /\ thread'[t].at = where /\ thread'[t].copy = task.copy
         /\ thread'[t].doc = task.doc /\ thread'[t].key = task.key
         /\ Others(t, where) = {} => thread'[t].met = FALSE
         /\ \A u \in Threads \ {t} :
              /\ thread'[u].at = thread[u].at
              /\ thread'[u] # Idle => /\ thread[u] # Idle
                                      /\ thread'[u].doc = thread[u].doc
                                      /\ thread'[u].key = thread[u].key
                                      /\ thread'[u].copy = thread[u].copy
<1>1. thread'[t] = [task EXCEPT !.at = where, !.met = Others(t, where) # {}]
  BY DEF Enter
<1>2. /\ thread'[t].at = where /\ thread'[t].copy = task.copy
      /\ thread'[t].doc = task.doc /\ thread'[t].key = task.key
      /\ Others(t, where) = {} => thread'[t].met = FALSE
  BY <1>1 DEF AnyTask
<1>3. ASSUME NEW u \in Threads \ {t}
      PROVE  /\ thread'[u].at = thread[u].at
             /\ thread'[u] # Idle => /\ thread[u] # Idle
                                     /\ thread'[u].doc = thread[u].doc
                                     /\ thread'[u].key = thread[u].key
                                     /\ thread'[u].copy = thread[u].copy
  <2>1. CASE At(u, where)
    <3>1. thread[u] \in Tasks /\ thread[u] # Idle
      BY <2>1 DEF At, Idle
    <3>2. thread'[u] = [thread[u] EXCEPT !.met = TRUE]
      BY <2>1 DEF Enter
    <3> QED
      BY <3>1, <3>2 DEF Tasks
  <2>2. CASE ~At(u, where)
    BY <2>2 DEF Enter
  <2> QED
    BY <2>1, <2>2
<1> QED
  BY <1>2, <1>3

\* A document that was handed out is known under its hash, with its key.
LEMMA IssuedMade ==
  ASSUME OwnInv, NEW i \in issued
  PROVE  MadeUnder(HashOf(i), i.key) /\ HashOf(i) \in Hashes
<1>1. PICK d \in Documents : i.json = toNormalizedJson(d) /\ Made(d, i.key)
  BY DEF OwnInv, IssuedOwn
<1> QED
  BY <1>1, KnownHash, MadeHash DEF HashOf

\* A put that meets no other changes the entry of its document, and no other.
LEMMA PutAlone ==
  ASSUME issuers \in IssuerMaps, NEW t \in Threads, thread[t] \in Tasks,
         thread[t].met = FALSE, issuers' \in AfterPut(t)
  PROVE  /\ issuers'[toCredentialHash(thread[t].doc)] = thread[t].key
         /\ \A h \in Hashes \ {toCredentialHash(thread[t].doc)} : issuers'[h] = issuers[h]
<1> DEFINE all == [issuers EXCEPT ![toCredentialHash(thread[t].doc)] = thread[t].key]
<1>1. issuers' = [h \in Hashes |-> IF h \in {} THEN Null ELSE all[h]]
  BY DEF AfterPut
<1>2. toCredentialHash(thread[t].doc) \in Hashes
  BY DEF Tasks, Hashes
<1> QED
  BY <1>1, <1>2 DEF IssuerMaps

\* A request keeps what Registered says.
LEMMA RegisteredRequest ==
  ASSUME TypeOK, OwnInv, RegisteredInv, NEW t \in Threads,
         \/ Request(t)
         \/ \E r \in Requests, now \in Times : generateDrivingLicense(t, r, now)
  PROVE  RegisteredInv'
<1> USE DEF At, Others
<1>1. \A u \in Threads : thread[u] = Idle <=> thread[u].at = "idle"
  BY DEF TypeOK, Idle, Tasks
<1>2. ASSUME NEW r \in Requests, NEW now \in Times, generateDrivingLicense(t, r, now)
      PROVE  RegisteredInv'
  <2> DEFINE task == [at |-> "idle", key |-> r.key, copy |-> NoIssuers, met |-> FALSE,
                      doc |-> DrivingLicenseDocument(r.uuid, r.issuer, now, r.owner)]
  <2>1. task \in AnyTask
    BY NewTask
  <2>2. thread' = Enter(t, task, "putting")
    BY <1>2 DEF generateDrivingLicense
  <2> HIDE DEF task
  <2>3. /\ thread'[t].at = "putting"
        /\ Others(t, "putting") = {} => thread'[t].met = FALSE
        /\ \A u \in Threads \ {t} :
              /\ thread'[u].at = thread[u].at
              /\ thread'[u] # Idle => /\ thread[u] # Idle
                                      /\ thread'[u].doc = thread[u].doc
                                      /\ thread'[u].key = thread[u].key
    BY <2>1, <2>2, EnterPlaces DEF TypeOK
  <2>4. overlapped' = FALSE => overlapped = FALSE /\ \A u \in Threads \ {t} : thread[u] = Idle
    <3>1. overlapped' = (overlapped \/ \E u \in Threads \ {t} : ~At(u, "idle"))
      BY <1>2 DEF generateDrivingLicense
    <3>2. overlapped' = FALSE => ~overlapped /\ \A u \in Threads \ {t} : At(u, "idle")
      BY <3>1, Zenon
    <3>3. ~overlapped => overlapped = FALSE
      BY DEF TypeOK
    <3> QED
      BY <1>1, <3>2, <3>3
  <2>5. Sequential'
    BY <1>1, <2>3, <2>4 DEF Sequential
  <2>6. Registered => Registered'
    <3>1. UNCHANGED <<issuers, issued>>
      BY <1>2 DEF generateDrivingLicense
    <3>2. ASSUME NEW u \in Threads, thread'[u].at \in {"copying", "writing"}
          PROVE  /\ thread[u].at = thread'[u].at /\ thread'[u].doc = thread[u].doc
                 /\ thread'[u].key = thread[u].key
      BY <2>3, <3>2 DEF Idle
    <3> QED
      BY <3>1, <3>2 DEF Registered, HashOf
  <2> QED
    BY <1>2, <2>4, <2>5, <2>6 DEF generateDrivingLicense, RegisteredInv
<1>3. CASE PutIssuer(t)
  <2>1. thread[t] \in Tasks /\ thread[t] \in AnyTask /\ thread[t] # Idle
    BY <1>3, Busy DEF PutIssuer, TypeOK
  <2>2. /\ thread'[t].at = "copying"
        /\ thread'[t].doc = thread[t].doc /\ thread'[t].key = thread[t].key
        /\ Others(t, "copying") = {} => thread'[t].met = FALSE
        /\ \A u \in Threads \ {t} :
              /\ thread'[u].at = thread[u].at
              /\ thread'[u] # Idle => /\ thread[u] # Idle
                                      /\ thread'[u].doc = thread[u].doc
                                      /\ thread'[u].key = thread[u].key
    BY <1>3, <2>1, EnterPlaces DEF PutIssuer, TypeOK
  <2>3. Sequential'
    BY <1>1, <1>3, <2>1, <2>2 DEF PutIssuer, RegisteredInv, Sequential
  <2>4. ASSUME disturbed' = FALSE \/ overlapped' = FALSE
        PROVE  thread[t].met = FALSE /\ Registered
    BY <1>3, <2>1, <2>4 DEF PutIssuer, RegisteredInv, Sequential, Tasks, TypeOK
  <2>5. ASSUME Registered, thread[t].met = FALSE
        PROVE  Registered'
    <3> DEFINE hash == toCredentialHash(thread[t].doc)
    <3>1. /\ issuers'[hash] = thread[t].key
          /\ \A h \in Hashes \ {hash} : issuers'[h] = issuers[h]
      BY <1>3, <2>1, <2>5, PutAlone DEF PutIssuer, TypeOK
    <3>2. MadeUnder(hash, thread[t].key)
      BY <2>1, MadeHash DEF OwnInv, TasksOwn
    <3>3. ASSUME NEW h \in Hashes, NEW key, MadeUnder(h, key), issuers[h] = key
          PROVE  issuers'[h] = key
      <4>1. CASE h = hash
        <5>1. key = thread[t].key
          BY <3>2, <3>3, <4>1, OneOwner
        <5> QED
          BY <3>1, <4>1, <5>1
      <4>2. CASE h # hash
        BY <3>1, <3>3, <4>2
      <4> QED
        BY <4>1, <4>2
    <3>4. \A i \in issued' : issuers'[HashOf(i)] = i.key
      BY <1>3, <2>5, <3>3, IssuedMade DEF PutIssuer, Registered
    <3>5. ASSUME NEW u \in Threads, thread'[u].at \in {"copying", "writing"}
          PROVE  issuers'[toCredentialHash(thread'[u].doc)] = thread'[u].key
      <4>1. CASE u = t
        BY <2>2, <3>1, <4>1
      <4>2. CASE u # t
        <5>1. /\ thread[u] # Idle /\ thread'[u].doc = thread[u].doc
              /\ thread'[u].key = thread[u].key /\ thread[u].at = thread'[u].at
          BY <2>2, <3>5, <4>2 DEF Idle
        <5>2. MadeUnder(toCredentialHash(thread[u].doc), thread[u].key)
              /\ toCredentialHash(thread[u].doc) \in Hashes
          BY <5>1, MadeHash DEF OwnInv, TasksOwn
        <5>3. issuers[toCredentialHash(thread[u].doc)] = thread[u].key
          BY <2>5, <3>5, <5>1 DEF Registered
        <5> QED
          BY <3>3, <5>1, <5>2, <5>3
      <4> QED
        BY <4>1, <4>2
    <3> QED
      BY <3>4, <3>5 DEF Registered, HashOf
  <2> QED
    BY <2>3, <2>4, <2>5 DEF RegisteredInv
<1>4. CASE CopyIssuers(t)
  <2>1. thread[t] \in AnyTask /\ thread[t] # Idle
    BY <1>4, Busy DEF CopyIssuers, TypeOK
  <2>2. PICK hidden :
          thread' = Enter(t, [thread[t] EXCEPT !.copy =
                               [h \in Hashes |-> IF h \in hidden THEN Null ELSE issuers[h]]],
                          "writing")
    BY <1>4 DEF CopyIssuers
  <2> DEFINE copy == [h \in Hashes |-> IF h \in hidden THEN Null ELSE issuers[h]]
             task == [thread[t] EXCEPT !.copy = copy]
  <2>3. copy \in IssuerMaps
    BY DEF TypeOK, IssuerMaps
  <2> HIDE DEF copy
  <2>4. task \in AnyTask /\ task.doc = thread[t].doc /\ task.key = thread[t].key
    BY <2>1, <2>3 DEF AnyTask
  <2>5. thread' = Enter(t, task, "writing")
    BY <2>2 DEF copy
  <2> HIDE DEF task
  <2>6. /\ thread'[t].at = "writing"
        /\ thread'[t].doc = thread[t].doc /\ thread'[t].key = thread[t].key
        /\ Others(t, "writing") = {} => thread'[t].met = FALSE
        /\ \A u \in Threads \ {t} :
              /\ thread'[u].at = thread[u].at
              /\ thread'[u] # Idle => /\ thread[u] # Idle
                                      /\ thread'[u].doc = thread[u].doc
                                      /\ thread'[u].key = thread[u].key
    BY <2>4, <2>5, EnterPlaces DEF TypeOK
  <2>7. Sequential'
    BY <1>1, <1>4, <2>1, <2>6 DEF CopyIssuers, RegisteredInv, Sequential
  <2>8. Registered => Registered'
    BY <1>4, <2>6 DEF CopyIssuers, Registered, Idle
  <2>9. disturbed' = FALSE => disturbed = FALSE
    BY <1>4, ZenonT(30) DEF CopyIssuers, TypeOK
  <2> QED
    BY <1>4, <2>7, <2>8, <2>9 DEF CopyIssuers, RegisteredInv
<1>5. CASE FailToCopy(t)
  <2>1. \A u \in Threads : thread'[u] = IF u = t THEN Idle ELSE thread[u]
    BY <1>5 DEF FailToCopy, TypeOK
  <2> QED
    BY <1>5, <2>1 DEF FailToCopy, RegisteredInv, Sequential, Registered, Idle
<1>6. CASE FailToOpen(t) \/ Respond(t)
  <2>1. \A u \in Threads : thread'[u] = IF u = t THEN Idle ELSE thread[u]
    BY <1>6 DEF FailToOpen, Respond, TypeOK
  <2>2. HashOf(Handed(t)) = toCredentialHash(thread[t].doc) /\ Handed(t).key = thread[t].key
    BY HashSurvivesJson DEF HashOf, Handed
  <2>3. /\ issued' = issued \cup {Handed(t)} /\ UNCHANGED <<issuers, overlapped, disturbed>>
        /\ thread[t].at \in {"copying", "writing"}
    BY <1>6 DEF FailToOpen, Respond
  <2>4. Registered => Registered'
    BY <2>1, <2>2, <2>3 DEF Registered, Idle, HashOf
  <2>5. Sequential'
    BY <2>1, <2>3 DEF RegisteredInv, Sequential
  <2> QED
    BY <2>3, <2>4, <2>5 DEF RegisteredInv
<1> QED
  BY <1>2, <1>3, <1>4, <1>5, <1>6 DEF Request

\* And so does every other step: it leaves requests alone.
LEMMA RegisteredStep ==
  ASSUME TypeOK, OwnInv, RegisteredInv, [Next]_vars
  PROVE  RegisteredInv'
<1>1. ASSUME UNCHANGED requestVars, disturbed' = FALSE => disturbed = FALSE
      PROVE  RegisteredInv'
  BY <1>1 DEF requestVars, RegisteredInv, Sequential, Registered
<1>2. CASE Reject
  <2>1. disturbed' = FALSE => disturbed = FALSE
    BY <1>2, ZenonT(30) DEF Reject, TypeOK
  <2> QED
    BY <1>1, <1>2, <2>1 DEF Reject
<1>3. CASE \/ IgnoreDuplicate \/ IgnoreOutdated \/ PutStatus \/ StreamEnds \/ UNCHANGED vars
           \/ \E h \in Known, st \in Statements : submitVcMessage(buildVcMessage(h, st))
  BY <1>1, <1>3
  DEF IgnoreDuplicate, IgnoreOutdated, PutStatus, StreamEnds, submitVcMessage, vars
<1> QED
  BY <1>2, <1>3, RegisteredRequest DEF Next, HandleResponse

\* A server that starts has no requests.
LEMMA RegisteredInit == Init => RegisteredInv /\ CopyIsMap /\ RegistrationsSaved
  BY DEF Init, RegisteredInv, Sequential, Registered, CopyIsMap, RegistrationsSaved, Idle

\* The file follows the map as long as requests come one after the other.
LEMMA SavedStep ==
  ASSUME TypeOK, OwnInv, RegisteredInv, CopyIsMap, RegistrationsSaved, [Next]_vars
  PROVE  CopyIsMap' /\ RegistrationsSaved'
<1>1. \A u \in Threads : thread[u] = Idle <=> thread[u].at = "idle"
  BY DEF TypeOK, Idle, Tasks
<1>2. ASSUME NEW t \in Threads, NEW r \in Requests, NEW now \in Times,
             generateDrivingLicense(t, r, now)
      PROVE  CopyIsMap' /\ RegistrationsSaved'
  <2>1. overlapped' = (overlapped \/ \E u \in Threads \ {t} : ~At(u, "idle"))
    BY <1>2 DEF generateDrivingLicense
  <2>2. overlapped' = FALSE => ~overlapped /\ \A u \in Threads \ {t} : At(u, "idle")
    BY <2>1, Zenon
  <2>3. ~overlapped => overlapped = FALSE
    BY DEF TypeOK
  <2> DEFINE task == [at |-> "idle", key |-> r.key, copy |-> NoIssuers, met |-> FALSE,
                      doc |-> DrivingLicenseDocument(r.uuid, r.issuer, now, r.owner)]
  <2>4. task \in AnyTask /\ thread' = Enter(t, task, "putting")
    BY <1>2, NewTask DEF generateDrivingLicense
  <2> HIDE DEF task
  <2>5. thread'[t].at = "putting" /\ \A u \in Threads \ {t} : thread'[u].at = thread[u].at
    BY <2>4, EnterPlaces DEF TypeOK
  <2>6. CopyIsMap'
    BY <2>2, <2>5 DEF CopyIsMap, At
  <2> QED
    BY <1>2, <2>2, <2>3, <2>6 DEF generateDrivingLicense, RegistrationsSaved
<1>3. ASSUME NEW t \in Threads, PutIssuer(t) PROVE CopyIsMap' /\ RegistrationsSaved'
  <2>1. thread[t] \in AnyTask /\ thread[t] # Idle
    BY <1>3, Busy DEF PutIssuer, At, TypeOK
  <2>2. thread'[t].at = "copying" /\ \A u \in Threads \ {t} : thread'[u].at = thread[u].at
    BY <1>3, <2>1, EnterPlaces DEF PutIssuer, TypeOK
  <2>3. overlapped = FALSE => \A u \in Threads \ {t} : thread[u].at = "idle"
    BY <1>1, <2>1 DEF RegisteredInv, Sequential
  <2>4. CopyIsMap'
    BY <1>3, <2>2, <2>3 DEF PutIssuer, CopyIsMap
  <2> QED
    BY <1>3, <2>4 DEF PutIssuer, RegistrationsSaved
<1>4. ASSUME NEW t \in Threads, CopyIssuers(t) PROVE CopyIsMap' /\ RegistrationsSaved'
  <2>1. thread[t] \in AnyTask /\ thread[t] # Idle
    BY <1>4, Busy DEF CopyIssuers, At, TypeOK
  <2>2. PICK hidden \in IF Others(t, "putting") = {} THEN {{}} ELSE SUBSET Hashes :
          thread' = Enter(t, [thread[t] EXCEPT !.copy =
                               [h \in Hashes |-> IF h \in hidden THEN Null ELSE issuers[h]]],
                          "writing")
    BY <1>4 DEF CopyIssuers
  <2> DEFINE copy == [h \in Hashes |-> IF h \in hidden THEN Null ELSE issuers[h]]
             task == [thread[t] EXCEPT !.copy = copy]
  <2>3. copy \in IssuerMaps
    BY DEF TypeOK, IssuerMaps
  <2>4. hidden = {} => copy = issuers
    BY DEF TypeOK, IssuerMaps
  <2> HIDE DEF copy
  <2>5. task \in AnyTask /\ task.copy = copy
    BY <2>1, <2>3 DEF AnyTask
  <2>6. thread' = Enter(t, task, "writing")
    BY <2>2 DEF copy
  <2> HIDE DEF task
  <2>7. /\ thread'[t].copy = copy
        /\ \A u \in Threads \ {t} : thread'[u].at = thread[u].at
    BY <2>5, <2>6, EnterPlaces DEF TypeOK
  <2>8. overlapped = FALSE => \A u \in Threads \ {t} : thread[u].at = "idle"
    BY <1>1, <2>1 DEF RegisteredInv, Sequential
  <2>9. overlapped = FALSE => hidden = {}
    BY <2>2, <2>8 DEF Others, At
  <2>10. CopyIsMap'
    BY <1>4, <2>4, <2>7, <2>8, <2>9 DEF CopyIssuers, CopyIsMap
  <2> QED
    BY <1>4, <2>10 DEF CopyIssuers, RegistrationsSaved
<1>5. ASSUME NEW t \in Threads, FailToCopy(t) PROVE CopyIsMap' /\ RegistrationsSaved'
  <2>1. overlapped' = overlapped /\ overlapped # FALSE
    <3>1. PICK u \in Threads \ {t} : thread[u].at = "putting"
      BY <1>5 DEF FailToCopy, Others, At
    <3>2. thread[t] # Idle /\ thread[u] # Idle
      BY <1>1, <1>5, <3>1 DEF FailToCopy, At
    <3> QED
      BY <1>5, <3>2 DEF FailToCopy, RegisteredInv, Sequential
  <2> QED
    BY <2>1 DEF CopyIsMap, RegistrationsSaved, TypeOK
<1>6. ASSUME NEW t \in Threads, FailToOpen(t) \/ Respond(t)
      PROVE  CopyIsMap' /\ RegistrationsSaved'
  <2>1. \A u \in Threads : thread'[u] = IF u = t THEN Idle ELSE thread[u]
    BY <1>6 DEF FailToOpen, Respond, TypeOK
  <2>2. UNCHANGED <<issuers, overlapped>>
    BY <1>6 DEF FailToOpen, Respond
  <2>3. CopyIsMap'
    BY <2>1, <2>2 DEF CopyIsMap, Idle
  <2>4. ASSUME overlapped = FALSE, ~unsaved' PROVE issuerFile' = issuers /\ issuers # Null
    <3>1. Respond(t) /\ issuerFile' \in {thread[t].copy} \cup (IF thread[t].met THEN {Null} ELSE {})
      BY <1>6, <2>4 DEF FailToOpen, Respond
    <3>2. thread[t].met = FALSE /\ thread[t].copy = issuers
      BY <1>1, <2>4, <3>1 DEF Respond, At, RegisteredInv, Sequential, CopyIsMap
    <3> QED
      BY <3>1, <3>2, NullAssumption DEF TypeOK
  <2>5. overlapped = FALSE => Registered'
    BY <1>6, <2>2, RegisteredRequest DEF Request, RegisteredInv
  <2>6. RegistrationsSaved'
    BY <2>2, <2>4, <2>5 DEF RegistrationsSaved, Registered, HashOf, TypeOK
  <2> QED
    BY <2>3, <2>6
<1>7. CASE UNCHANGED requestVars
  BY <1>7 DEF requestVars, CopyIsMap, RegistrationsSaved
<1> QED
  BY <1>2, <1>3, <1>4, <1>5, <1>6, <1>7
  DEF Next, Request, HandleResponse, Reject, IgnoreDuplicate, IgnoreOutdated, PutStatus,
      StreamEnds, submitVcMessage, vars

\* The invariants so far, together.
AppnetInv == TypeOK /\ OwnInv /\ RegisteredInv

\* They are inductive.
LEMMA AppnetStep ==
  ASSUME AppnetInv, [Next]_vars
  PROVE  AppnetInv'
  BY TypeStep, OwnStep, RegisteredStep DEF AppnetInv

(***************************************************************************)
(* As long as requests come one after the other, a write of the issuers    *)
(* that does not fail leaves in the file the registration of every         *)
(* document that was handed out, with the key of its own request, however  *)
(* many writes failed before (persistCredentialIssuers logs an IOException *)
(* and the document is handed out all the same).                           *)
(***************************************************************************)
THEOREM RegistrationsCorrect == Spec => []RegistrationsSaved
<1>1. Init => AppnetInv /\ CopyIsMap /\ RegistrationsSaved
  BY TypeInit, OwnInit, RegisteredInit DEF AppnetInv
<1>2. AppnetInv /\ CopyIsMap /\ RegistrationsSaved /\ [Next]_vars
        => AppnetInv' /\ CopyIsMap' /\ RegistrationsSaved'
  BY AppnetStep, SavedStep DEF AppnetInv
<1> QED
  BY <1>1, <1>2, PTL DEF Spec

-----------------------------------------------------------------------------
(***************************************************************************)
(* The truth.  While no two uses of the map of issuers have overlapped,    *)
(* the messages that counted for a document are those of its issuer: all   *)
(* were accepted, as its key was registered before it was known, and no    *)
(* other.  MetAll is what makes this inductive: a signature that was not   *)
(* met is new among all the messages of the issuer, and not only among     *)
(* those that counted.                                                     *)
(***************************************************************************)

CountedDelivered == \A e \in counted : \E n \in 1..cursor : e = topic[n]

MetAll(i) ==
  \A n \in 1..cursor :
    topic[n].body.key = i.key /\ topic[n].body.subject = HashOf(i)
      => topic[n].body \in signatures
CountedRight(i) == About(counted, HashOf(i)) = Rightful(i)

TruthInv ==
  /\ CountedDelivered
  /\ disturbed = FALSE => \A i \in issued : MetAll(i) /\ CountedRight(i)

\* A step that leaves what was delivered and what counted alone.
LEMMA TruthStays ==
  ASSUME TypeOK, TruthInv, UNCHANGED <<cursor, storeVars>>,
         \A n \in 1..cursor : topic'[n] = topic[n]
  PROVE  /\ CountedDelivered'
         /\ \A i : /\ HashOf(i)' = HashOf(i)
                   /\ MetAll(i) => MetAll(i)'
                   /\ CountedRight(i) => CountedRight(i)'
<1>1. CountedDelivered'
  BY DEF TruthInv, CountedDelivered, storeVars
<1>2. ASSUME NEW i
      PROVE  /\ MetAll(i) => MetAll(i)'
             /\ CountedRight(i) => CountedRight(i)'
  <2>1. \A m \in 1..cursor : RightfulPlace(i, m)' <=> RightfulPlace(i, m)
    <3> SUFFICES ASSUME NEW m \in 1..cursor
                 PROVE  RightfulPlace(i, m)' <=> RightfulPlace(i, m)
      OBVIOUS
    <3>1. cursor \in Nat
      BY DEF TypeOK
    <3>2. topic'[m] = topic[m] /\ \A h \in 1..(m - 1) : topic'[h] = topic[h]
      BY <3>1
    <3> QED
      BY <3>2 DEF RightfulPlace
  <2>2. Rightful(i)' = Rightful(i)
    BY <2>1 DEF Rightful
  <2>3. About(counted, HashOf(i))' = About(counted, HashOf(i))
    BY DEF About, storeVars, HashOf
  <2> QED
    BY <2>2, <2>3 DEF MetAll, CountedRight, storeVars, HashOf
<1> QED
  BY <1>1, <1>2 DEF HashOf

\* A document that is handed out: either its hash was known, with the same key,
\* or no message is about it.
LEMMA TruthIssued ==
  ASSUME AppnetInv, TruthInv, disturbed = FALSE, NEW i,
         MadeUnder(HashOf(i), i.key)
  PROVE  MetAll(i) /\ CountedRight(i)
<1>1. ASSUME HashOf(i) \in Known PROVE MetAll(i) /\ CountedRight(i)
  <2>1. PICK j \in issued : HashOf(j) = HashOf(i)
    BY <1>1 DEF Known, HashOf
  <2>2. MadeUnder(HashOf(i), j.key)
    BY <2>1, IssuedMade DEF AppnetInv
  <2>3. j.key = i.key
    BY <2>2, OneOwner
  <2>4. MetAll(j) /\ CountedRight(j)
    BY DEF TruthInv
  <2>5. \A m : RightfulPlace(i, m) <=> RightfulPlace(j, m)
    BY <2>1, <2>3 DEF RightfulPlace, HashOf
  <2>6. Rightful(i) = Rightful(j)
    BY <2>5 DEF Rightful
  <2> QED
    BY <2>1, <2>3, <2>4, <2>6 DEF MetAll, CountedRight
<1>2. ASSUME HashOf(i) \notin Known PROVE MetAll(i) /\ CountedRight(i)
  <2>1. cursor \in Nat /\ cursor <= Len(topic) /\ Len(topic) \in Nat
    BY DEF AppnetInv, TypeOK
  <2>2. \A n \in 1..cursor : topic[n].body.subject # HashOf(i)
    BY <1>2, <2>1 DEF AppnetInv, OwnInv, TopicKnown
  <2>3. About(counted, HashOf(i)) = {}
    BY <2>2 DEF TruthInv, CountedDelivered, About
  <2>4. Rightful(i) = {}
    BY <2>2 DEF Rightful, RightfulPlace, HashOf
  <2> QED
    BY <2>2, <2>3, <2>4 DEF MetAll, CountedRight
<1> QED
  BY <1>1, <1>2

\* What the delivery of one message does to a document, if it is accepted when
\* it is of the issuer, and not otherwise.
LEMMA TruthDelivered ==
  ASSUME AppnetInv, RegInv, TruthInv, disturbed = FALSE, Delivering,
         cursor' = cursor + 1, UNCHANGED topic, NEW i \in issued,
         LET e == NextEnvelope
         IN \/ /\ e.body.subject = HashOf(i) => e.body.key # i.key \/ Met(e)
               /\ UNCHANGED <<signatures, counted>>
            \/ /\ e.body.subject = HashOf(i) => e.body.key = i.key
               /\ ~Met(e)
               /\ signatures' = signatures \cup {e.body}
               /\ counted' = counted \cup {e}
  PROVE  MetAll(i)' /\ CountedRight(i)'
<1> DEFINE n == cursor + 1
           h == HashOf(i)
<1>1. PICK e : e = NextEnvelope
  OBVIOUS
<1>2. /\ cursor \in Nat /\ e = topic[n] /\ cursor' = n
      /\ 1..n = (1..cursor) \cup {n} /\ n - 1 = cursor
  BY <1>1 DEF AppnetInv, TypeOK, NextEnvelope
<1>3. MetAll(i) /\ CountedRight(i)
  BY DEF TruthInv
<1>4. \A m \in 1..n : RightfulPlace(i, m)' <=> RightfulPlace(i, m)
  BY DEF RightfulPlace
<1>5. Rightful(i)' = Rightful(i) \cup (IF RightfulPlace(i, n) THEN {e} ELSE {})
  BY <1>2, <1>4 DEF Rightful
<1>6. RightfulPlace(i, n) <=> /\ e.body.key = i.key /\ e.body.subject = h
                              /\ \A m \in 1..cursor : topic[m].body # e.body
  BY <1>2 DEF RightfulPlace, HashOf
<1>7. signatures = {f.body : f \in counted}
  BY DEF RegInv
<1>8. \A f \in counted : \E m \in 1..cursor : f = topic[m]
  BY DEF TruthInv, CountedDelivered
<1>9. h' = h
  BY DEF HashOf
<1> HIDE DEF n, h
<1>10. CASE /\ e.body.subject = h => e.body.key # i.key \/ Met(e)
            /\ UNCHANGED <<signatures, counted>>
  <2>1. Met(e) => \E m \in 1..cursor : topic[m].body = e.body
    BY <1>7, <1>8 DEF Met
  <2>2. ~RightfulPlace(i, n)
    BY <1>6, <1>10, <2>1
  <2>3. CountedRight(i)'
    BY <1>3, <1>5, <1>10, <2>2 DEF CountedRight, HashOf
  <2>4. \A m \in 1..n : topic[m].body.key = i.key /\ topic[m].body.subject = h
                          => topic[m].body \in signatures
    BY <1>2, <1>3, <1>10 DEF MetAll, Met, h
  <2>5. MetAll(i)'
    BY <1>2, <1>9, <1>10, <2>4 DEF MetAll, h
  <2> QED
    BY <2>3, <2>5
<1>11. CASE /\ e.body.subject = h => e.body.key = i.key
            /\ ~Met(e)
            /\ signatures' = signatures \cup {e.body}
            /\ counted' = counted \cup {e}
  <2>1. e.body.subject = h => RightfulPlace(i, n)
    <3> SUFFICES ASSUME e.body.subject = h, NEW m \in 1..cursor, topic[m].body = e.body
                 PROVE  FALSE
      BY <1>6, <1>11
    <3>1. topic[m].body \in signatures
      BY <1>3, <1>11 DEF MetAll, h
    <3> QED
      BY <1>11, <3>1 DEF Met
  <2>2. e.body.subject # h => ~RightfulPlace(i, n)
    BY <1>6
  <2>3. About(counted', h) = About(counted, h) \cup (IF e.body.subject = h THEN {e} ELSE {})
    BY <1>11 DEF About
  <2>4. CountedRight(i)'
    BY <1>3, <1>5, <1>9, <2>1, <2>2, <2>3 DEF CountedRight, h
  <2>5. \A m \in 1..n : topic[m].body.key = i.key /\ topic[m].body.subject = h
                          => topic[m].body \in signatures'
    BY <1>2, <1>3, <1>11 DEF MetAll, h
  <2>6. MetAll(i)'
    BY <1>2, <1>9, <2>5 DEF MetAll, h
  <2> QED
    BY <2>4, <2>6
<1> QED
  BY <1>1, <1>10, <1>11 DEF h

\* The listener never counts what was not delivered, and counts, as long as
\* nothing overlaps, the messages of the issuer.
LEMMA TruthListener ==
  ASSUME AppnetInv, RegInv, TruthInv, HandleResponse
  PROVE  TruthInv'
<1> DEFINE e == NextEnvelope
<1>1. /\ Delivering /\ cursor' = cursor + 1 /\ UNCHANGED <<topic, requestVars>>
      /\ cursor \in Nat
  BY DEF HandleResponse, Reject, IgnoreDuplicate, IgnoreOutdated, PutStatus, Accept, AppnetInv,
       TypeOK
<1>2. CountedDelivered'
  <2>1. counted' \subseteq counted \cup {topic[cursor + 1]}
    BY DEF HandleResponse, Reject, IgnoreDuplicate, IgnoreOutdated, PutStatus, storeVars,
         NextEnvelope
  <2> QED
    BY <1>1, <2>1 DEF TruthInv, CountedDelivered
<1>3. ASSUME disturbed' = FALSE, NEW i \in issued PROVE MetAll(i)' /\ CountedRight(i)'
  <2>1. disturbed = FALSE /\ (Reject => ~isSignatureAccepted(e.body))
    <3>1. CASE Reject
      BY <1>3, <3>1, ZenonT(30) DEF Reject, AppnetInv, TypeOK
    <3>2. CASE ~Reject
      BY <1>3, <3>2 DEF HandleResponse, IgnoreDuplicate, IgnoreOutdated, PutStatus
    <3> QED
      BY <3>1, <3>2
  <2>2. issuers[HashOf(i)] = i.key /\ i.key # Null
    <3>1. issuers[HashOf(i)] = i.key
      BY <2>1 DEF AppnetInv, RegisteredInv, Registered
    <3>2. i.key \in Keys
      BY DEF AppnetInv, TypeOK
    <3> QED
      BY <3>1, <3>2, AppnetAssumption DEF AppnetAssumption
  <2>3. e.body.subject = HashOf(i) => (isSignatureAccepted(e.body) <=> e.body.key = i.key)
    BY <2>2 DEF isSignatureAccepted
  <2>4. CASE Reject
    <3>1. /\ e.body.subject = HashOf(i) => e.body.key # i.key \/ Met(e)
          /\ UNCHANGED <<signatures, counted>>
      BY <2>1, <2>3, <2>4 DEF Reject, storeVars
    <3> QED
      BY <1>1, <2>1, <3>1, TruthDelivered
  <2>5. CASE IgnoreDuplicate
    <3>1. /\ e.body.subject = HashOf(i) => e.body.key # i.key \/ Met(e)
          /\ UNCHANGED <<signatures, counted>>
      BY <2>5 DEF IgnoreDuplicate, storeVars
    <3> QED
      BY <1>1, <2>1, <3>1, TruthDelivered
  <2>6. CASE IgnoreOutdated \/ PutStatus
    <3>1. /\ e.body.subject = HashOf(i) => e.body.key = i.key
          /\ ~Met(e)
          /\ signatures' = signatures \cup {e.body}
          /\ counted' = counted \cup {e}
      BY <2>3, <2>6 DEF IgnoreOutdated, PutStatus, Accept
    <3> QED
      BY <1>1, <2>1, <3>1, TruthDelivered
  <2> QED
    BY <2>4, <2>5, <2>6 DEF HandleResponse
<1>4. issued' = issued
  BY <1>1 DEF requestVars
<1> QED
  BY <1>2, <1>3, <1>4 DEF TruthInv

\* Every step keeps TruthInv.
LEMMA TruthStep ==
  ASSUME AppnetInv, RegInv, TruthInv, [Next]_vars
  PROVE  TruthInv'
<1>1. ASSUME UNCHANGED <<cursor, storeVars, topic, issued>>, disturbed' = FALSE => disturbed = FALSE
      PROVE  TruthInv'
  BY <1>1, TruthStays DEF AppnetInv, TruthInv
<1>2. ASSUME NEW t \in Threads, FailToOpen(t) \/ Respond(t) PROVE TruthInv'
  <2> DEFINE new == [json |-> toNormalizedJson(thread[t].doc), key |-> thread[t].key]
  <2>1. /\ issued' = issued \cup {new}
        /\ UNCHANGED <<cursor, storeVars, topic, disturbed>>
    BY <1>2 DEF FailToOpen, Respond, Handed
  <2>2. MadeUnder(HashOf(new), new.key)
    <3>1. thread[t] # Idle
      BY <1>2 DEF FailToOpen, Respond, At, Idle
    <3>2. Made(thread[t].doc, thread[t].key)
      BY <3>1 DEF AppnetInv, OwnInv, TasksOwn
    <3> QED
      BY <3>2, MadeHash, HashSurvivesJson DEF HashOf
  <2> HIDE DEF new
  <2>3. PICK j : j = new
    OBVIOUS
  <2>4. disturbed = FALSE => MetAll(j) /\ CountedRight(j)
    BY <2>2, <2>3, TruthIssued
  <2> QED
    BY <2>1, <2>3, <2>4, TruthStays DEF AppnetInv, TruthInv
<1>3. ASSUME NEW h \in Known, NEW st \in Statements, submitVcMessage(buildVcMessage(h, st))
      PROVE  TruthInv'
  <2>1. \A n \in 1..cursor : topic'[n] = topic[n]
    BY <1>3 DEF submitVcMessage, AppnetInv, TypeOK
  <2>2. UNCHANGED <<cursor, storeVars, issued, disturbed>>
    BY <1>3 DEF submitVcMessage, requestVars
  <2> QED
    BY <2>1, <2>2, TruthStays DEF AppnetInv, TruthInv
<1>4. ASSUME NEW t \in Threads, PutIssuer(t) \/ CopyIssuers(t) \/ FailToCopy(t) PROVE TruthInv'
  <2>1. disturbed' = FALSE => disturbed = FALSE
    BY <1>4, ZenonT(30) DEF PutIssuer, CopyIssuers, FailToCopy, AppnetInv, TypeOK
  <2> QED
    BY <1>1, <1>4, <2>1 DEF PutIssuer, CopyIssuers, FailToCopy
<1>5. CASE \/ \E t \in Threads, r \in Requests, now \in Times : generateDrivingLicense(t, r, now)
           \/ StreamEnds
           \/ UNCHANGED vars
  BY <1>1, <1>5 DEF generateDrivingLicense, StreamEnds, requestVars, vars
<1> QED
  BY <1>2, <1>3, <1>4, <1>5, TruthListener DEF Next, Request

\* However a document is shown, its hash is the same, if it can be read.
LEMMA ShownHash ==
  ASSUME NEW d, NEW shown \in Presentations(toNormalizedJson(d)), Readable(shown)
  PROVE  determineCredentialHash(shown) = toCredentialHash(d)
<1> DEFINE json == toNormalizedJson(d)
<1>1. /\ json.id = d.id /\ json.type = d.type
      /\ json.issuer = WriteIssuer(d.issuer)
      /\ json.issuanceDate = WriteInstant(d.issuanceDate)
      /\ json = [context |-> json.context, id |-> json.id, type |-> json.type,
                 issuer |-> json.issuer, issuanceDate |-> json.issuanceDate,
                 credentialSubject |-> json.credentialSubject]
  BY DEF toNormalizedJson, toJson
<1>2. shown \in Presentations(json)
  OBVIOUS
<1> HIDE DEF json
<1> DEFINE named == [form |-> "object", id |-> json.issuer.id, name |-> "Ltd"]
<1>3. PICK by \in {json.issuer, named}, f \in {"UTC", "offset", "local"},
           claims \in {json.credentialSubject, [form |-> "array", list |-> <<>>]} :
        shown = [json EXCEPT !.issuer = by, !.issuanceDate.form = f, !.credentialSubject = claims]
  <2> DEFINE Show(by, f, claims) ==
        [json EXCEPT !.issuer = by, !.issuanceDate.form = f, !.credentialSubject = claims]
             Claims == {json.credentialSubject, [form |-> "array", list |-> <<>>]}
  <2>1. shown \in {Show(by, f, claims) : by \in {json.issuer, named},
                                        f \in {"UTC", "offset", "local"}, claims \in Claims}
    BY <1>2 DEF Presentations
  <2> HIDE DEF Show, named, Claims
  <2>2. \E by \in {json.issuer, named}, f \in {"UTC", "offset", "local"}, claims \in Claims :
          shown = Show(by, f, claims)
    BY <2>1
  <2> QED
    BY <2>2 DEF Show, Claims
<1>4. /\ shown.id = d.id /\ shown.type = d.type
      /\ shown.issuer = by
      /\ shown.issuanceDate = [json.issuanceDate EXCEPT !.form = f]
  BY <1>1, <1>3
<1>5. shown.issuer.id = json.issuer.id
  BY <1>3, <1>4
<1>6. shown.issuanceDate.form = f /\ shown.issuanceDate.at = d.issuanceDate
  BY <1>1, <1>4 DEF WriteInstant
<1>7. ReadInstant(shown.issuanceDate) = d.issuanceDate
  BY <1>3, <1>6 DEF ReadInstant
<1>8. ReadIssuer(shown.issuer).id = d.issuer.id
  BY <1>1, <1>5 DEF ReadIssuer, WriteIssuer, Issuer
<1> QED
  BY <1>4, <1>7, <1>8 DEF determineCredentialHash, fromJson, toCredentialHash

\* The status that stands among the messages of the issuer is what is held.
LEMMA TruthImplies ==
  ASSUME AppnetInv, RegInv, TruthInv
  PROVE  VerifierFindsTruth
<1> SUFFICES ASSUME ~disturbed, NEW i \in issued,
                    NEW shown \in Presentations(i.json), Readable(shown)
             PROVE  LET stands == StatusOf("VC", Rightful(i), HashOf(i))
                        found == resolveVcStatus(determineCredentialHash(shown))
                    IN IF stands = Null THEN found = Null
                       ELSE /\ found # Null /\ found.operation = stands.body.op
                            /\ found.updated = stands.ts
  BY DEF VerifierFindsTruth, Found, HashOf
<1> DEFINE h == HashOf(i)
           found == resolveVcStatus(h)
<1>1. determineCredentialHash(shown) = h /\ h \in Hashes
  <2>1. PICK d \in Documents : i.json = toNormalizedJson(d)
    BY DEF AppnetInv, TypeOK
  <2> QED
    BY <2>1, ShownHash, KnownHash DEF Hashes, HashOf
<1>2. disturbed = FALSE
  BY DEF AppnetInv, TypeOK
<1>3. About(counted, h) = Rightful(i)
  BY <1>2 DEF TruthInv, CountedRight
<1>4. About(Rightful(i), h) = About(counted, h)
  BY <1>3 DEF About
<1>5. StatusOf("VC", Rightful(i), h) = StatusOf("VC", counted, h)
  BY <1>4 DEF StatusOf, Closing
<1>6. held[h] = StatusOf("VC", counted, h)
  BY <1>1, StandsIsStatus DEF RegInv
<1>7. held[h] = Null => found = Null
  BY DEF resolveVcStatus
<1>8. ASSUME held[h] # Null
      PROVE  found # Null /\ found.operation = held[h].body.op /\ found.updated = held[h].ts
  <2>1. held[h] \in Envelopes
    BY <1>1, <1>8 DEF AppnetInv, TypeOK
  <2>2. found = [operation |-> held[h].body.op, credentialHash |-> held[h].body.subject,
                 timestamp |-> held[h].body.stamp, updated |-> held[h].ts]
    BY <1>1, <1>8 DEF resolveVcStatus
  <2>3. found \in Answers
    BY <2>1, <2>2 DEF Envelopes, Messages, Answers
  <2> QED
    BY <2>2, <2>3, NullAssumption
<1> HIDE DEF h, found
<1>9. IF StatusOf("VC", Rightful(i), h) = Null THEN found = Null
      ELSE /\ found # Null /\ found.operation = StatusOf("VC", Rightful(i), h).body.op
           /\ found.updated = StatusOf("VC", Rightful(i), h).ts
  BY <1>5, <1>6, <1>7, <1>8
<1> QED
  BY <1>1, <1>9 DEF h, found

(***************************************************************************)
(* A verifier finds the truth: for every document that was handed out, and *)
(* in whatever form it is shown, the status is the one that stands among   *)
(* all the messages of its issuer that were delivered, unless two uses of  *)
(* the map of issuers overlapped.                                          *)
(***************************************************************************)
THEOREM TruthCorrect == Spec => []VerifierFindsTruth
<1>1. Init => AppnetInv /\ RegInv /\ TruthInv
  BY TypeInit, OwnInit, RegisteredInit, RegInit
  DEF AppnetInv, TruthInv, CountedDelivered, Init
<1>2. AppnetInv /\ RegInv /\ TruthInv /\ [Next]_vars => AppnetInv' /\ RegInv' /\ TruthInv'
  BY AppnetStep, RegStep, TruthStep DEF AppnetInv
<1>3. AppnetInv /\ RegInv /\ TruthInv => VerifierFindsTruth
  BY TruthImplies
<1> QED
  BY <1>1, <1>2, <1>3, PTL DEF Spec
=============================================================================
