------------------------------- MODULE Appnet -------------------------------
(***************************************************************************)
(* The life of a credential at an appnet server: the request that makes it *)
(* and registers the key of its issuer, the status messages that clients   *)
(* prepare, sign and submit through the server, the listener that checks   *)
(* and stores them, and the verifier who asks for the status with the JSON *)
(* document that a holder shows.                                           *)
(*                                                                         *)
(* Requests run on several threads, and the listener on one more.  All     *)
(* share the map of issuers, a HashMap with no lock: what overlapping      *)
(* calls of it do is any of the outcomes the class can have.  Crashes and  *)
(* the files of the storage are in AppnetStorage; the file of the issuers  *)
(* is here, as it is written from every request thread, and any write of   *)
(* it may fail.                                                            *)
(*                                                                         *)
(* overlapped, unsaved, disturbed and counted are history: no step reads   *)
(* them.                                                                   *)
(***************************************************************************)
EXTENDS VcDocument, FiniteSets

CONSTANTS Keys,
          Threads,       \* request threads
          Requests,      \* the requests for a credential, each made once: issuer,
                         \* key and owner, and the UUID that is drawn for it
          Statements,    \* what clients sign: operation, clock and key
          Times,         \* instants at which a credential may be made
          MaxTopic       \* bound: messages submitted

ASSUME AppnetAssumption ==
  /\ \A r \in Requests : r.key \in Keys
  /\ \A r, q \in Requests : r.uuid = q.uuid => r = q
  /\ Statements \subseteq [op : HcsVcOperation, stamp : Nat, key : Keys]
  /\ Null \notin Keys
  /\ Null \notin Times
  /\ MaxTopic \in Nat

VARIABLES
  made,         \* the requests that came so far
  thread,       \* what each request thread is doing
  issuers,      \* credentialIssuers: for each hash a key, or Null
  issuerFile,   \* its file: no issuers if there is none, Null if it cannot be read
  issued,       \* the JSON documents that were handed out, with the keys
  topic,        \* the VC topic
  listening,    \* whether the subscription is alive
  cursor,       \* the messages that the listener was given
  signatures,   \* the signatures met
  held,         \* vcStorage: for each hash an envelope, or Null
  overlapped,   \* history: two requests ran at the same time
  unsaved,      \* history: the latest write of the issuers ended with an IOException
  disturbed,    \* history: two uses of the map of issuers overlapped
  counted       \* history: the messages that passed the checks

requestVars == <<made, thread, issuers, issuerFile, issued, overlapped, unsaved>>
storeVars == <<signatures, held, counted>>
vars == <<requestVars, topic, listening, cursor, storeVars, disturbed>>

Documents ==
  {DrivingLicenseDocument(r.uuid, r.issuer, now, r.owner) : r \in Requests, now \in Times}
Hashes == {toCredentialHash(d) : d \in Documents}
NoIssuers == [h \in Hashes |-> Null]
IssuerMaps == [Hashes -> Keys \cup {Null}]

Messages == [subject : Hashes, op : HcsVcOperation, stamp : Nat, key : Keys]
Envelopes == [ts : Nat, body : Messages]
Answers ==
  [operation : HcsVcOperation, credentialHash : Hashes, timestamp : Nat, updated : Nat]
ASSUME NullAssumption == Null \notin Envelopes \cup IssuerMaps \cup Answers

Idle == [at |-> "idle"]
Tasks ==
  [at : {"putting", "copying", "writing"}, doc : Documents, key : Keys,
   copy : IssuerMaps, met : BOOLEAN]

TypeOK ==
  /\ made \subseteq Requests
  /\ thread \in [Threads -> {Idle} \cup Tasks]
  /\ issuers \in IssuerMaps
  /\ issuerFile = Null \/ issuerFile \in IssuerMaps
  /\ \A i \in issued : i.json \in {toNormalizedJson(d) : d \in Documents} /\ i.key \in Keys
  /\ topic \in Seq(Envelopes)
  /\ listening \in BOOLEAN
  /\ cursor \in 0..Len(topic)
  /\ signatures \subseteq Messages
  /\ held \in [Hashes -> Envelopes \cup {Null}]
  /\ overlapped \in BOOLEAN
  /\ unsaved \in BOOLEAN
  /\ disturbed \in BOOLEAN
  /\ counted \subseteq Envelopes

Init ==
  /\ made = {}
  /\ thread = [t \in Threads |-> Idle]
  /\ issuers = NoIssuers
  /\ issuerFile = NoIssuers
  /\ issued = {}
  /\ topic = <<>>
  /\ listening = TRUE
  /\ cursor = 0
  /\ signatures = {}
  /\ held = [h \in Hashes |-> Null]
  /\ overlapped = FALSE
  /\ unsaved = FALSE
  /\ disturbed = FALSE
  /\ counted = {}

-----------------------------------------------------------------------------
\* The request that makes a credential: generateDrivingLicense,
\* registerCredentialIssuance and persistCredentialIssuers.

At(t, where) == thread[t].at = where
Others(t, where) == {u \in Threads \ {t} : At(u, where)}

\* Thread t comes to the next part of its task, and `met` says of each thread
\* whether another one was in the same part with it.
Enter(t, task, where) ==
  [u \in Threads |->
     IF u = t THEN [task EXCEPT !.at = where, !.met = Others(t, where) # {}]
     ELSE IF At(u, where) THEN [thread[u] EXCEPT !.met = TRUE]
     ELSE thread[u]]

\* Variant: the client has the document before its issuer is registered.
HandOutFirst(t, r, now) ==
  LET doc == DrivingLicenseDocument(r.uuid, r.issuer, now, r.owner)
  IN /\ At(t, "idle")
     /\ r \notin made
     /\ made' = made \cup {r}
     /\ thread' = Enter(t, [at |-> "idle", key |-> r.key, copy |-> NoIssuers, met |-> FALSE,
                            doc |-> doc], "putting")
     /\ overlapped' = (overlapped \/ \E u \in Threads \ {t} : ~At(u, "idle"))
     /\ issued' = issued \cup {[json |-> toNormalizedJson(doc), key |-> r.key]}
     /\ UNCHANGED <<issuers, issuerFile, unsaved, topic, listening, cursor, storeVars,
                    disturbed>>

\* The document is made, with a new id, and put is called.  That the key is
\* that of the issuer's DID is not checked.
generateDrivingLicense(t, r, now) ==
  /\ At(t, "idle")
  /\ r \notin made
  /\ made' = made \cup {r}
  /\ thread' = Enter(t, [at |-> "idle", key |-> r.key, copy |-> NoIssuers, met |-> FALSE,
                         doc |-> DrivingLicenseDocument(r.uuid, r.issuer, now, r.owner)],
                     "putting")
  /\ overlapped' = (overlapped \/ \E u \in Threads \ {t} : ~At(u, "idle"))
  /\ UNCHANGED <<issuers, issuerFile, issued, unsaved, topic, listening, cursor, storeVars,
                 disturbed>>

\* What put may leave: if another put met it, entries may be lost, in a bucket
\* that both changed or in a table that both replaced.
AfterPut(t) ==
  LET all == [issuers EXCEPT ![toCredentialHash(thread[t].doc)] = thread[t].key]
      present == {h \in Hashes : all[h] # Null}
      lost == IF thread[t].met THEN SUBSET present ELSE {{}}
  IN {[h \in Hashes |-> IF h \in gone THEN Null ELSE all[h]] : gone \in lost}

PutIssuer(t) ==
  /\ At(t, "putting")
  /\ issuers' \in AfterPut(t)
  /\ thread' = Enter(t, thread[t], "copying")
  /\ disturbed' = (disturbed \/ thread[t].met)
  /\ UNCHANGED <<made, issuerFile, issued, overlapped, unsaved, topic, listening, cursor,
                 storeVars>>

\* Variant: the file is written before put.
CopyBeforePut(t) ==
  /\ At(t, "copying")
  /\ thread' = Enter(t, [thread[t] EXCEPT !.copy =
                           [issuers EXCEPT ![toCredentialHash(thread[t].doc)] = Null]],
                     "writing")
  /\ disturbed' = disturbed
  /\ UNCHANGED <<made, issuers, issuerFile, issued, overlapped, unsaved, topic, listening,
                 cursor, storeVars>>

\* The map is copied entry by entry, to be written.  A put on another thread
\* may hide entries from the copy.
CopyIssuers(t) ==
  /\ At(t, "copying")
  /\ \E hidden \in IF Others(t, "putting") = {} THEN {{}} ELSE SUBSET Hashes :
       thread' = Enter(t, [thread[t] EXCEPT !.copy =
                             [h \in Hashes |-> IF h \in hidden THEN Null ELSE issuers[h]]],
                       "writing")
  /\ disturbed' = (disturbed \/ Others(t, "putting") # {})
  /\ UNCHANGED <<made, issuers, issuerFile, issued, overlapped, unsaved, topic, listening,
                 cursor, storeVars>>

\* Or the put makes it fail with a ConcurrentModificationException: the
\* answer is an error 500, and nobody gets the document.  The file was opened
\* before: if there was none, it now has a header and no map.
FailToCopy(t) ==
  /\ At(t, "copying")
  /\ Others(t, "putting") # {}
  /\ thread' = [thread EXCEPT ![t] = Idle]
  /\ issuerFile' = IF issuerFile = NoIssuers THEN Null ELSE issuerFile
  /\ disturbed' = TRUE
  /\ UNCHANGED <<made, issuers, issued, overlapped, unsaved, topic, listening, cursor,
                 storeVars>>

Handed(t) == [json |-> toNormalizedJson(thread[t].doc), key |-> thread[t].key]

\* The file cannot be opened.  That is logged, and the document handed out all
\* the same.
FailToOpen(t) ==
  /\ At(t, "copying")
  /\ unsaved' = TRUE
  /\ issued' = issued \cup {Handed(t)}
  /\ thread' = [thread EXCEPT ![t] = Idle]
  /\ UNCHANGED <<made, issuers, issuerFile, overlapped, topic, listening, cursor, storeVars,
                 disturbed>>

\* The copy is written, and may be spoilt if another thread wrote at the same
\* time; or the write fails, before, within or after the bytes that matter,
\* which is logged.  In any case the document is handed out.
Respond(t) ==
  /\ At(t, "writing")
  /\ \/ /\ issuerFile' \in {thread[t].copy} \cup (IF thread[t].met THEN {Null} ELSE {})
        /\ unsaved' = FALSE
     \/ /\ issuerFile' \in {issuerFile, thread[t].copy, Null}
        /\ unsaved' = TRUE
  /\ issued' = issued \cup {Handed(t)}
  /\ thread' = [thread EXCEPT ![t] = Idle]
  /\ UNCHANGED <<made, issuers, overlapped, topic, listening, cursor, storeVars, disturbed>>

-----------------------------------------------------------------------------
\* Status messages.

\* A document that was handed out is known under the hash that the server
\* computes for it.  The requests that prepare and sign a message change
\* nothing in the server, and a client may keep what it got, so that any of
\* these messages may be submitted, at any time and again.
Known == {determineCredentialHash(i.json) : i \in issued}
buildVcMessage(h, s) == [subject |-> h, op |-> s.op, stamp |-> s.stamp, key |-> s.key]

\* It reaches the topic, whatever the client is told: 202, or 400 if the
\* answer of the node never came.  Nobody checks the key before.
submitVcMessage(m) ==
  /\ Len(topic) < MaxTopic
  /\ topic' = Append(topic, [ts |-> Len(topic) + 1, body |-> m])
  /\ UNCHANGED <<requestVars, listening, cursor, storeVars, disturbed>>

\* The subscription is lost, and nothing brings it back.
StreamEnds ==
  /\ listening
  /\ listening' = FALSE
  /\ UNCHANGED <<requestVars, topic, cursor, storeVars, disturbed>>

\* Variant: any registered key will do.
AcceptedOfAnyKey(m) == issuers[m.subject] # Null

isSignatureAccepted(m) == issuers[m.subject] # Null /\ issuers[m.subject] = m.key

Delivering == listening /\ cursor < Len(topic)
NextEnvelope == topic[cursor + 1]
Putting == {t \in Threads : At(t, "putting")}

\* The key of the issuer is not there, or it is another one.  A put on a
\* request thread may hide an entry that is there.
Reject ==
  /\ Delivering
  /\ ~isSignatureAccepted(NextEnvelope.body) \/ Putting # {}
  /\ cursor' = cursor + 1
  /\ disturbed' = (disturbed \/ isSignatureAccepted(NextEnvelope.body))
  /\ UNCHANGED <<requestVars, topic, listening, storeVars>>

Accept == Delivering /\ isSignatureAccepted(NextEnvelope.body) /\ cursor' = cursor + 1

\* Variant: the set is asked for something that is never in it.
MetNever(e) == FALSE

Met(e) == e.body \in signatures

\* storeVcStatus: its signature was met before.
IgnoreDuplicate ==
  /\ Accept
  /\ Met(NextEnvelope)
  /\ UNCHANGED <<requestVars, topic, listening, storeVars, disturbed>>

\* It is older than the one held, or that one is a REVOKE.
IgnoreOutdated ==
  LET e == NextEnvelope
  IN /\ Accept
     /\ ~Met(e)
     /\ VcOutdated(held[e.body.subject], e)
     /\ signatures' = signatures \cup {e.body}
     /\ counted' = counted \cup {e}
     /\ UNCHANGED <<requestVars, topic, listening, held, disturbed>>

\* Variant: the consensus time is not set.
PutWithoutTime ==
  LET e == NextEnvelope
  IN /\ Accept
     /\ ~Met(e)
     /\ ~VcOutdated(held[e.body.subject], e)
     /\ signatures' = signatures \cup {e.body}
     /\ counted' = counted \cup {e}
     /\ held' = [held EXCEPT ![e.body.subject] = [e EXCEPT !.ts = Null]]
     /\ UNCHANGED <<requestVars, topic, listening, disturbed>>

PutStatus ==
  LET e == NextEnvelope
  IN /\ Accept
     /\ ~Met(e)
     /\ ~VcOutdated(held[e.body.subject], e)
     /\ signatures' = signatures \cup {e.body}
     /\ counted' = counted \cup {e}
     /\ held' = [held EXCEPT ![e.body.subject] = e]
     /\ UNCHANGED <<requestVars, topic, listening, disturbed>>

\* Variant: a message that is rejected stops the listener.
HandleValidOnly == IgnoreDuplicate \/ IgnoreOutdated \/ PutStatus

HandleResponse == Reject \/ IgnoreDuplicate \/ IgnoreOutdated \/ PutStatus

\* What a verifier gets for a hash: the last status with its two times, or
\* an error 404.
resolveVcStatus(h) ==
  IF h \notin Hashes \/ held[h] = Null THEN Null
  ELSE [operation |-> held[h].body.op, credentialHash |-> held[h].body.subject,
        timestamp |-> held[h].body.stamp, updated |-> held[h].ts]

-----------------------------------------------------------------------------
Request(t) ==
  \/ PutIssuer(t)
  \/ CopyIssuers(t)
  \/ FailToCopy(t)
  \/ FailToOpen(t)
  \/ Respond(t)

Next ==
  \/ \E t \in Threads : Request(t)
  \/ \E t \in Threads, r \in Requests, now \in Times : generateDrivingLicense(t, r, now)
  \/ \E h \in Known, s \in Statements : submitVcMessage(buildVcMessage(h, s))
  \/ HandleResponse
  \/ StreamEnds

Spec == Init /\ [][Next]_vars

\* A mirror node that has a message delivers it sooner or later, as long as
\* the subscription lives.
FairSpec == Spec /\ WF_vars(HandleResponse)
-----------------------------------------------------------------------------
(***************************************************************************)
(* What clients can rely on.                                               *)
(***************************************************************************)

\* Whatever the threads do to the map, a status that is held was signed with
\* the key that made a document which was handed out, and is about that one.
StatusOfIssuer ==
  \A h \in Hashes : held[h] # Null =>
    \E i \in issued : determineCredentialHash(i.json) = h /\ i.key = held[h].body.key

\* The ways in which a holder may show a document: the issuer with a name or
\* as it is, the date in another format, and with or without the claims.
Presentations(json) ==
  {[json EXCEPT !.issuer = by, !.issuanceDate.form = f, !.credentialSubject = claims] :
     by \in {json.issuer, [form |-> "object", id |-> json.issuer.id, name |-> "Ltd"]},
     f \in {"UTC", "offset", "local"},
     claims \in {json.credentialSubject, [form |-> "array", list |-> <<>>]}}

\* The messages about document i that its own issuer signed, among those
\* delivered, each signature once.
RightfulPlace(i, n) ==
  /\ topic[n].body.key = i.key
  /\ topic[n].body.subject = determineCredentialHash(i.json)
  /\ \A m \in 1..(n - 1) : topic[m].body # topic[n].body
Rightful(i) == {topic[n] : n \in {m \in 1..cursor : RightfulPlace(i, m)}}

\* A verifier finds the truth: for every document that was handed out, in
\* whatever form it is shown, as long as it can be read, the status is the one
\* that stands among all the messages of its issuer that were delivered; none of
\* them came too early, and none of another issuer or document gets in its way.
\* Overlapping uses of the map of issuers are all that can break it.
Found(json) ==
  {resolveVcStatus(determineCredentialHash(shown)) :
     shown \in {p \in Presentations(json) : Readable(p)}}

VerifierFindsTruth ==
  ~disturbed =>
    \A i \in issued :
      LET stands == StatusOf("VC", Rightful(i), determineCredentialHash(i.json))
      IN \A found \in Found(i.json) :
           IF stands = Null THEN found = Null
           ELSE found # Null /\ found.operation = stands.body.op /\ found.updated = stands.ts

\* As long as requests come one after the other, a write of the issuers that
\* succeeds leaves in the file the registration of every document that was
\* handed out, those included whose own write had failed and was only logged;
\* so the file lacks some only while the latest write is a failed one.  (If
\* requests overlap, the last writer may have the older copy.)
RegistrationsSaved ==
  ~overlapped /\ ~unsaved =>
    \A i \in issued : issuerFile # Null /\ issuerFile[determineCredentialHash(i.json)] = i.key

\* The statuses are a registry, with the messages that passed the checks as
\* counted: a message that is submitted again, because its client was told of a
\* failure or for any other reason, does not take effect again, so that an old
\* ISSUE does not lift a later SUSPEND.
Statuses == INSTANCE Registry
  WITH Kind <- "VC", Query <- Hashes, counted <- counted, status <- held
ImplementsRegistry == Statuses!Spec

\* Every message of the rightful issuer takes effect: in the end the status is
\* that message, a newer one or a REVOKE, unless the stream is lost or requests
\* got in the way.
TookEffect(n) ==
  /\ n <= Len(topic)
  /\ LET now == held[topic[n].body.subject]
     IN now # Null /\ (now.ts >= n \/ now.body.op = "REVOKE")
Effective ==
  \A n \in 1..MaxTopic :
    (n <= Len(topic) /\ \E i \in issued : RightfulPlace(i, n))
      ~> (TookEffect(n) \/ ~listening \/ disturbed)
=============================================================================
