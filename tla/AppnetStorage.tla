---------------------------- MODULE AppnetStorage ----------------------------
(***************************************************************************)
(* The storage of the example appnet server: the DIDs, the credential      *)
(* statuses, the signatures met and the registered issuers, each in memory *)
(* and in a file of its own, and the server that loads the files when it   *)
(* starts and then listens to the DID and the credential (VC) topic.       *)
(*                                                                         *)
(* Each topic has a subscription with a thread of its own, that runs       *)
(* storeDid or storeVcStatus.  The two share the set of signatures and its *)
(* file with no lock.  A third thread serves the request that registers a  *)
(* credential.  Files are written in place, and a crash may come anywhere. *)
(*                                                                         *)
(* kept, keptFile, seen and applied are history: no step reads them.       *)
(* A definition under the word "Variant" is no part of the model: it is a  *)
(* slip that the definition after it could have, and one of the properties *)
(* at the end fails with it.                                               *)
(***************************************************************************)
EXTENDS IdentityMessages, Sequences, FiniteSets, Integers

CONSTANTS Subjects,       \* for each kind, its DIDs or credential hashes
          Bodies,         \* for each kind, the signed messages to submit
          StoreInterval,  \* didStoreInterval and vcStoreInterval
          DiskFails,      \* whether an IOException may end a write
          MaxTopic,       \* bound, for each kind: messages submitted
          MaxCrashes      \* bound: how often the process ends

\* A DID message with its `created` time, or the envelope of a VC message.
Entry(k) == [env : Envelope(k, Subjects[k]), created : Nat]

ASSUME StorageAssumption ==
  /\ \A k \in Kinds : Bodies[k] \subseteq Body(k, Subjects[k])
  /\ \A k \in Kinds : Null \notin Envelope(k, Subjects[k]) \cup Entry(k)
  /\ \A k \in Kinds : StoreInterval[k] \in Int
  /\ DiskFails \in BOOLEAN
  /\ \A k \in Kinds : MaxTopic[k] \in Nat
  /\ MaxCrashes \in Nat

VARIABLES
  topic,          \* for each kind, the messages that reached consensus
  server,         \* "down", "up", or "refused": startUp failed
  crashes,        \* how often the process ended
  listening,      \* the kinds whose subscription is alive
  cursor,         \* for each kind, the consensus time that was reached
  work,           \* what the thread of each subscription is doing
  inHand,         \* the message that it is storing, or Null
  held,           \* didStorage and vcStorage: an Entry or Null per subject
  count,          \* didCount and vcCount
  signatures,     \* the set of signatures, in memory
  snapshot,       \* the signatures at the start of the write of each thread
  racing,         \* the threads whose write of the signatures overlapped
  issuers,        \* the credentials with a registered issuer, in memory
  rest,           \* what the thread of the registration is doing
  mapFile,        \* the files of DIDs and statuses, with the resume time
  signatureFile,
  issuerFile,
  torn,           \* the files whose content cannot be read
  kept,           \* history: the messages that count for the maps in memory
  keptFile,       \* history: those that count for the maps in the files
  seen,           \* history: the messages ever delivered, by place
  applied         \* history: the bodies ever put in a map

topicVars == <<topic, crashes>>
listenVars == <<listening, cursor, seen>>
markVars == <<signatures, snapshot, racing, signatureFile>>
mapVars == <<held, count, mapFile, kept, keptFile, applied>>
issuerVars == <<issuers, rest, issuerFile>>
vars == <<topicVars, server, listenVars, work, inHand, markVars, mapVars,
          issuerVars, torn>>

Files == Kinds \cup {"signatures", "issuers"}

EmptyMap(k) == [s \in Subjects[k] |-> Null]
AreSignatures(S) == \A b \in S : \E k \in Kinds : b \in Body(k, Subjects[k])

TypeOK ==
  /\ \A k \in Kinds :
       /\ topic[k] \in Seq(Envelope(k, Subjects[k]))
       /\ inHand[k] \in Envelope(k, Subjects[k]) \cup {Null}
       /\ held[k] \in [Subjects[k] -> Entry(k) \cup {Null}]
       /\ mapFile[k] \in [entries : [Subjects[k] -> Entry(k) \cup {Null}], resume : Nat]
       /\ kept[k] \subseteq Envelope(k, Subjects[k])
       /\ keptFile[k] \subseteq Envelope(k, Subjects[k])
       /\ AreSignatures(snapshot[k])
       /\ seen[k] \subseteq Nat
  /\ server \in {"down", "up", "refused"}
  /\ crashes \in 0..MaxCrashes
  /\ listening \subseteq Kinds
  /\ cursor \in [Kinds -> Nat]
  /\ work \in [Kinds -> {"idle", "marking", "writing", "deciding", "persisting"}]
  /\ count \in [Kinds -> Nat]
  /\ AreSignatures(signatures)
  /\ AreSignatures(signatureFile)
  /\ racing \subseteq Kinds
  /\ issuers \subseteq Subjects["VC"]
  /\ issuerFile \subseteq Subjects["VC"]
  /\ rest \in {"idle", "registered", "writing"}
  /\ torn \subseteq Files
  /\ AreSignatures(applied)

\* No file exists, which is loaded like an empty one.
Init ==
  /\ topic = [k \in Kinds |-> <<>>]
  /\ server = "down"
  /\ crashes = 0
  /\ listening = {}
  /\ cursor = [k \in Kinds |-> 0]
  /\ work = [k \in Kinds |-> "idle"]
  /\ inHand = [k \in Kinds |-> Null]
  /\ held = [k \in Kinds |-> EmptyMap(k)]
  /\ count = [k \in Kinds |-> 0]
  /\ signatures = {}
  /\ snapshot = [k \in Kinds |-> {}]
  /\ racing = {}
  /\ issuers = {}
  /\ rest = "idle"
  /\ mapFile = [k \in Kinds |-> [entries |-> EmptyMap(k), resume |-> 0]]
  /\ signatureFile = {}
  /\ issuerFile = {}
  /\ torn = {}
  /\ kept = [k \in Kinds |-> {}]
  /\ keptFile = [k \in Kinds |-> {}]
  /\ seen = [k \in Kinds |-> {}]
  /\ applied = {}

-----------------------------------------------------------------------------
\* The environment.

\* A message reaches consensus.
Publish(k, b) ==
  /\ Len(topic[k]) < MaxTopic[k]
  /\ topic' = [topic EXCEPT ![k] = Append(@, [ts |-> Len(@) + 1, body |-> b])]
  /\ UNCHANGED <<crashes, server, listenVars, work, inHand, markVars, mapVars,
                 issuerVars, torn>>

\* The subscription is lost for good.  Nothing tells the server: the error
\* handler of a MessageListener is not passed to its query.
StreamEnds(k) ==
  /\ server = "up"
  /\ k \in listening
  /\ work[k] = "idle"
  /\ listening' = listening \ {k}
  /\ UNCHANGED <<topicVars, server, cursor, seen, work, inHand, markVars,
                 mapVars, issuerVars, torn>>

\* The process ends, by a crash or by shutDown(), which saves nothing.
Crash ==
  /\ server = "up"
  /\ crashes < MaxCrashes
  /\ crashes' = crashes + 1
  /\ server' = "down"
  /\ listening' = {}
  /\ work' = [k \in Kinds |-> "idle"]
  /\ inHand' = [k \in Kinds |-> Null]
  /\ held' = [k \in Kinds |-> EmptyMap(k)]
  /\ count' = [k \in Kinds |-> 0]
  /\ signatures' = {}
  /\ snapshot' = [k \in Kinds |-> {}]
  /\ racing' = {}
  /\ issuers' = {}
  /\ rest' = "idle"
  /\ kept' = [k \in Kinds |-> {}]
  /\ UNCHANGED <<topic, cursor, seen, mapFile, signatureFile, issuerFile, torn,
                 keptFile, applied>>

-----------------------------------------------------------------------------
\* The start of the server.

\* The constructor of the storage reads the four files, and the listeners
\* start one nanosecond after the resume times that were read.
Load ==
  /\ held' = [k \in Kinds |-> mapFile[k].entries]
  /\ kept' = keptFile
  /\ signatures' = signatureFile
  /\ issuers' = issuerFile
  /\ cursor' = [k \in Kinds |-> mapFile[k].resume]
  /\ listening' = Kinds
  /\ server' = "up"

\* Variant: a file that cannot be read is taken for an empty one.
BootAnyway ==
  /\ server = "down"
  /\ held' = [k \in Kinds |-> IF k \in torn THEN EmptyMap(k) ELSE mapFile[k].entries]
  /\ kept' = keptFile
  /\ signatures' = IF "signatures" \in torn THEN {} ELSE signatureFile
  /\ issuers' = IF "issuers" \in torn THEN {} ELSE issuerFile
  /\ cursor' = [k \in Kinds |-> IF k \in torn THEN 0 ELSE mapFile[k].resume]
  /\ listening' = Kinds
  /\ server' = "up"
  /\ UNCHANGED <<topicVars, seen, work, inHand, count, snapshot, racing,
                 signatureFile, mapFile, keptFile, applied, rest, issuerFile, torn>>

\* startUp(): an exception while loading is logged, and the process stays
\* there with neither listeners nor API.
Boot ==
  /\ server = "down"
  /\ IF torn = {} THEN Load
     ELSE /\ server' = "refused"
          /\ UNCHANGED <<held, kept, signatures, issuers, cursor, listening>>
  /\ UNCHANGED <<topicVars, seen, work, inHand, count, snapshot, racing,
                 signatureFile, mapFile, keptFile, applied, rest, issuerFile, torn>>

-----------------------------------------------------------------------------
\* storeDid and storeVcStatus, on the thread of the subscription of kind k.

Delivering(k) ==
  /\ server = "up"
  /\ k \in listening
  /\ work[k] = "idle"
  /\ cursor[k] < Len(topic[k])
NextOf(k) == topic[k][cursor[k] + 1]

\* The listener lets the message through; that of the VC topic wants a
\* signature by the registered issuer of the credential.
Accepted(k, e) == e.body.valid /\ (k = "VC" => e.body.subject \in issuers)

Advance(k) ==
  /\ cursor' = [cursor EXCEPT ![k] = @ + 1]
  /\ seen' = [seen EXCEPT ![k] = @ \cup {cursor[k] + 1}]

\* Variant: the listener does not get past a message that is not valid.
IgnoreRepeated(k) ==
  /\ Delivering(k)
  /\ Accepted(k, NextOf(k)) /\ NextOf(k).body \in signatures
  /\ Advance(k)
  /\ UNCHANGED <<topicVars, server, listening, work, inHand, markVars, mapVars,
                 issuerVars, torn>>

\* The listener rejects it, or its signature was met before.
Ignore(k) ==
  /\ Delivering(k)
  /\ Accepted(k, NextOf(k)) => NextOf(k).body \in signatures
  /\ Advance(k)
  /\ UNCHANGED <<topicVars, server, listening, work, inHand, markVars, mapVars,
                 issuerVars, torn>>

Others(k, what) == {j \in Kinds \ {k} : work[j] = what}

\* It is not found in the set of signatures, and is about to be added.  While
\* the other thread adds to the set, what is in it may not be found.
Accept(k) ==
  /\ Delivering(k)
  /\ Accepted(k, NextOf(k))
  /\ NextOf(k).body \notin signatures \/ Others(k, "marking") # {}
  /\ Advance(k)
  /\ inHand' = [inHand EXCEPT ![k] = NextOf(k)]
  /\ work' = [work EXCEPT ![k] = "marking"]
  /\ UNCHANGED <<topicVars, server, listening, markVars, mapVars, issuerVars, torn>>

\* signatures.add(...), and persistSignatures opens the file.  When two threads
\* add to a HashSet at the same time, entries may be lost.
Mark(k) ==
  /\ work[k] = "marking"
  /\ \/ signatures' = signatures \cup {inHand[k].body}
     \/ /\ Others(k, "marking") # {}
        /\ signatures' \in SUBSET (signatures \cup {inHand[k].body})
  /\ \/ /\ torn' = torn \cup {"signatures"}
        /\ work' = [work EXCEPT ![k] = "writing"]
        /\ snapshot' = [snapshot EXCEPT ![k] = signatures']
        /\ racing' = IF Others(k, "writing") = {} THEN racing
                     ELSE racing \cup Others(k, "writing") \cup {k}
     \/ /\ DiskFails
        /\ torn' = torn
        /\ work' = [work EXCEPT ![k] = "deciding"]
        /\ snapshot' = snapshot
        /\ racing' = racing \cup Others(k, "writing")
  /\ UNCHANGED <<topicVars, server, listenVars, inHand, signatureFile, mapVars,
                 issuerVars>>

\* Variant: the file keeps what it had.
OldSignatures(k) == {signatureFile}

\* What the file may hold when the write ends: an older set, if the set
\* changed or the file was written by the other thread meanwhile.
WrittenSignatures(k) ==
  {signatures} \cup (IF k \in racing THEN {snapshot[k]} ELSE {})

SaveSignatures(k) ==
  /\ work[k] = "writing"
  /\ signatureFile' \in WrittenSignatures(k)
  /\ torn' = IF Others(k, "writing") = {} THEN torn \ {"signatures"} ELSE torn
  /\ work' = [work EXCEPT ![k] = "deciding"]
  /\ racing' = racing \ {k}
  /\ snapshot' = [snapshot EXCEPT ![k] = {}]
  /\ UNCHANGED <<topicVars, server, listenVars, inHand, signatures, mapVars,
                 issuerVars>>

\* It ends with an IOException, that is logged, or two writes got mixed.
SpoilSignatures(k) ==
  /\ work[k] = "writing"
  /\ DiskFails \/ k \in racing
  /\ work' = [work EXCEPT ![k] = "deciding"]
  /\ racing' = racing \ {k}
  /\ snapshot' = [snapshot EXCEPT ![k] = {}]
  /\ UNCHANGED <<topicVars, server, listenVars, inHand, signatures,
                 signatureFile, mapVars, issuerVars, torn>>

\* It meets the add of the other thread with a ConcurrentModificationException:
\* nobody catches that, and the message is dropped.  The subscription may end.
AbortMark(k) ==
  /\ work[k] = "writing"
  /\ k \in racing
  /\ work' = [work EXCEPT ![k] = "idle"]
  /\ inHand' = [inHand EXCEPT ![k] = Null]
  /\ racing' = racing \ {k}
  /\ snapshot' = [snapshot EXCEPT ![k] = {}]
  /\ listening' \in {listening, listening \ {k}}
  /\ UNCHANGED <<topicVars, server, cursor, seen, signatures,
                 signatureFile, mapVars, issuerVars, torn>>

EnvOf(entry) == IF entry = Null THEN Null ELSE entry.env

\* Variant: only the order of the messages is looked at.
OutdatedByTime(k, existing, e) == existing # Null /\ e.ts < existing.ts

Outdated(k, existing, e) ==
  IF k = "DID" THEN DidOutdated(existing, e) ELSE VcOutdated(existing, e)

\* Only DID messages carry a `created` time.
NewEntry(existing, e) ==
  [env |-> e,
   created |-> IF e.body.op = "CREATE" THEN e.ts
               ELSE IF existing = Null THEN 0 ELSE existing.created]

\* The message is outdated and is ignored.
Drop(k) ==
  LET e == inHand[k]
  IN /\ work[k] = "deciding"
     /\ Outdated(k, EnvOf(held[k][e.body.subject]), e)
     /\ kept' = [kept EXCEPT ![k] = @ \cup {e}]
     /\ work' = [work EXCEPT ![k] = "idle"]
     /\ inHand' = [inHand EXCEPT ![k] = Null]
     /\ UNCHANGED <<topicVars, server, listenVars, markVars, held, count, mapFile,
                    keptFile, applied, issuerVars, torn>>

\* Variant: one message too late.
DueLate(k) == count[k] = StoreInterval[k]

\* The message being put is the StoreInterval-th since the last save.
Due(k) == count[k] + 1 = StoreInterval[k]

\* It is put in the map, and if it is time the file of the map is opened, if
\* the disk allows.
Put(k) ==
  LET e == inHand[k]
      s == e.body.subject
  IN /\ work[k] = "deciding"
     /\ ~Outdated(k, EnvOf(held[k][s]), e)
     /\ held' = [held EXCEPT ![k][s] = NewEntry(@, e)]
     /\ count' = [count EXCEPT ![k] = IF Due(k) THEN 0 ELSE @ + 1]
     /\ kept' = [kept EXCEPT ![k] = @ \cup {e}]
     /\ applied' = applied \cup {e.body}
     /\ \/ /\ Due(k)
           /\ work' = [work EXCEPT ![k] = "persisting"]
           /\ torn' = torn \cup {k}
           /\ inHand' = inHand
        \/ /\ Due(k) => DiskFails
           /\ work' = [work EXCEPT ![k] = "idle"]
           /\ torn' = torn
           /\ inHand' = [inHand EXCEPT ![k] = Null]
     /\ UNCHANGED <<topicVars, server, listenVars, markVars, mapFile, keptFile,
                    issuerVars>>

\* Variants: the sender's clock for both kinds; and the consensus time of an
\* envelope that has none yet.
ResumeTimeOfSender(k, e) == e.body.stamp
ResumeTimeUnset(k, e) == IF k = "DID" THEN Null ELSE e.body.stamp

\* The time to resume from: the consensus time of a DID message, but the
\* sender's clock in a VC message.
ResumeTime(k, e) == IF k = "DID" THEN e.ts ELSE e.body.stamp

\* persistDiDs or persistVCs wrote the file.
SaveMap(k) ==
  /\ work[k] = "persisting"
  /\ mapFile' = [mapFile EXCEPT ![k] =
                   [entries |-> held[k], resume |-> ResumeTime(k, inHand[k])]]
  /\ keptFile' = [keptFile EXCEPT ![k] = kept[k]]
  /\ torn' = torn \ {k}
  /\ work' = [work EXCEPT ![k] = "idle"]
  /\ inHand' = [inHand EXCEPT ![k] = Null]
  /\ UNCHANGED <<topicVars, server, listenVars, markVars, held, count, kept,
                 applied, issuerVars>>

\* Or failed to, which is logged.
SpoilMap(k) ==
  /\ work[k] = "persisting"
  /\ DiskFails
  /\ work' = [work EXCEPT ![k] = "idle"]
  /\ inHand' = [inHand EXCEPT ![k] = Null]
  /\ UNCHANGED <<topicVars, server, listenVars, markVars, mapVars, issuerVars, torn>>

-----------------------------------------------------------------------------
\* registerCredentialIssuance, on the thread of a request.

Register(s) ==
  /\ server = "up"
  /\ rest = "idle"
  /\ issuers' = issuers \cup {s}
  /\ rest' = "registered"
  /\ UNCHANGED <<topicVars, server, listenVars, work, inHand, markVars, mapVars,
                 issuerFile, torn>>

\* persistCredentialIssuers opens the file, if the disk allows.
OpenIssuers ==
  /\ rest = "registered"
  /\ \/ rest' = "writing" /\ torn' = torn \cup {"issuers"}
     \/ DiskFails /\ rest' = "idle" /\ torn' = torn
  /\ UNCHANGED <<topicVars, server, listenVars, work, inHand, markVars, mapVars,
                 issuers, issuerFile>>

\* The file is written, or the write fails, which is logged.
WriteIssuers ==
  /\ rest = "writing"
  /\ rest' = "idle"
  /\ \/ issuerFile' = issuers /\ torn' = torn \ {"issuers"}
     \/ DiskFails /\ issuerFile' = issuerFile /\ torn' = torn
  /\ UNCHANGED <<topicVars, server, listenVars, work, inHand, markVars, mapVars,
                 issuers>>

-----------------------------------------------------------------------------
\* What a client gets who asks for a DID: the message that holds its document,
\* or Null for the answer 404.
resolveDid(s) ==
  LET env == EnvOf(held["DID"][s])
  IN IF env = Null \/ env.body.op = "DELETE" THEN Null ELSE env

-----------------------------------------------------------------------------
Store(k) ==
  \/ Ignore(k)
  \/ Accept(k)
  \/ Mark(k)
  \/ SaveSignatures(k)
  \/ SpoilSignatures(k)
  \/ AbortMark(k)
  \/ Drop(k)
  \/ Put(k)
  \/ SaveMap(k)
  \/ SpoilMap(k)

Next ==
  \/ \E k \in Kinds : (\E b \in Bodies[k] : Publish(k, b)) \/ StreamEnds(k) \/ Store(k)
  \/ \E s \in Subjects["VC"] : Register(s)
  \/ OpenIssuers
  \/ WriteIssuers
  \/ Boot
  \/ Crash

Spec == Init /\ [][Next]_vars

\* The thread of a subscription that is alive gets what the mirror node has,
\* and goes on with what it is doing.  Nobody has to start a server again.
FairSpec == Spec /\ \A k \in Kinds : WF_vars(Store(k))
-----------------------------------------------------------------------------
(***************************************************************************)
(* What the storage promises.                                              *)
(***************************************************************************)

\* A signature takes effect once: no message is put in a map a second time,
\* however often it is submitted and replayed, and whatever crashes come in
\* between ("the messages with duplicate signatures shall be disregarded").
\* It rests on the file of signatures being written before the map.
AppliedOnce ==
  [][\A k \in Kinds :
       work[k] = "deciding" /\ server' = "up" /\ held'[k] # held[k]
         => inHand[k].body \notin applied]_vars

\* The listener never goes past a message that it was not given: "from the
\* last persisted notification + 1 nano second".
NoneSkipped ==
  server = "up" =>
    \A k \in Kinds : \A i \in 1..Len(topic[k]) : i <= cursor[k] => i \in seen[k]

\* What a crash can lose is bounded by the store interval: as long as no
\* write fails, the entries in memory that differ from those in the file are
\* no more than the messages since the last save, and these are fewer than
\* the interval.
LossBounded ==
  server = "up" =>
    \A k \in Kinds : k \notin torn =>
      /\ Cardinality({s \in Subjects[k] : held[k][s] # mapFile[k].entries[s]}) <= count[k]
      /\ count[k] < StoreInterval[k]

\* A DELETE or REVOKE that reached the file is final: whenever the server is
\* up from then on, through crashes, failed writes and races, the entry is
\* a DELETE or REVOKE.
Closed(k, entry) == entry # Null /\ entry.env.body.op = Terminal(k)

FinalOnceSaved ==
  [][\A k \in Kinds : \A s \in Subjects[k] :
       Closed(k, mapFile[k].entries[s])
         => /\ Closed(k, mapFile'[k].entries[s])
            /\ server' = "up" => Closed(k, held'[k][s])]_vars

\* Every message that counts takes effect: while the server stays up and keeps
\* its listener, a DID message that it has not met comes to be what clients get,
\* or a newer one does, or the DID is deleted and they get nothing.
New(n) ==
  /\ server = "up" /\ "DID" \in listening
  /\ cursor["DID"] < n /\ n <= Len(topic["DID"])
  /\ topic["DID"][n].body.valid /\ topic["DID"][n].body \notin signatures
  /\ \A m \in 1..(n - 1) : topic["DID"][m].body # topic["DID"][n].body
TookEffect(n) ==
  /\ n <= Len(topic["DID"])
  /\ LET s == topic["DID"][n].body.subject
         answer == resolveDid(s)
     IN IF Closed("DID", held["DID"][s]) THEN answer = Null
        ELSE answer # Null /\ answer.ts >= n
TakesEffect ==
  \A n \in 1..MaxTopic["DID"] :
    New(n) ~> (server # "up" \/ "DID" \notin listening \/ TookEffect(n))

\* "Restart if listener crashed": the server gets back a subscription that was
\* lost.
ListenersRestart ==
  \A k \in Kinds :
    (server = "up" /\ k \notin listening) ~> (server # "up" \/ k \in listening)

\* The storage of DIDs is a durable registry, if it is alone: there is no
\* traffic on the VC topic.
Durable == INSTANCE DurableRegistry
  WITH Kind <- "DID", Query <- Subjects["DID"],
       counted <- kept["DID"],
       status <- [s \in Subjects["DID"] |-> EnvOf(held["DID"][s])],
       saved <- IF "DID" \in torn THEN {} ELSE keptFile["DID"]
ImplementsDurableRegistry == Durable!DurableSpec

\* "Upon restart, the persisted data is reloaded in memory and mirror
\* subscriptions for the topic ids restarts from the last persisted
\* notification": a server whose DID listener has read the whole topic holds
\* what stands among all the messages.
Genuine(k) ==
  {topic[k][i] : i \in {j \in 1..Len(topic[k]) :
                          /\ topic[k][j].body.valid
                          /\ \A h \in 1..(j - 1) : topic[k][h].body # topic[k][j].body}}

CaughtUp(k) ==
  server = "up" /\ work[k] = "idle" /\ cursor[k] >= Len(topic[k])

CaughtUpIsLatest ==
  CaughtUp("DID") =>
    \A s \in Subjects["DID"] :
      EnvOf(held["DID"][s]) = StatusOf("DID", Genuine("DID"), s)
=============================================================================
