------------------------- MODULE AppnetStorageProofs -------------------------
(***************************************************************************)
(* The storage of the appnet server, for any traffic, store interval and   *)
(* number of crashes: its type, that a DELETE or REVOKE stays, that the    *)
(* DID topic is resumed without a gap, what a crash can lose, and, for a   *)
(* server that hears of one topic only, that a signature is applied once   *)
(* and that the storage of DIDs implements DurableRegistry.                *)
(***************************************************************************)
EXTENDS AppnetStorage, IdentityMessagesProofs, FiniteSetTheorems

-----------------------------------------------------------------------------
(***************************************************************************)
(* Types.                                                                  *)
(***************************************************************************)

\* What TypeOK says kind by kind needs the variables to be functions of Kinds.
OnKinds(f) == f = [k \in Kinds |-> f[k]]

\* A thread that is at work has a message in hand, and works in a server that
\* is up.
HandOK == \A k \in Kinds : work[k] # "idle" => inHand[k] # Null /\ server = "up"

TypeInv ==
  /\ TypeOK
  /\ OnKinds(topic) /\ OnKinds(inHand) /\ OnKinds(held) /\ OnKinds(mapFile)
  /\ OnKinds(kept) /\ OnKinds(keptFile) /\ OnKinds(snapshot) /\ OnKinds(seen)
  /\ HandOK

\* The parts of an envelope, and an envelope from its parts.
LEMMA EnvelopeType ==
  ASSUME NEW k \in Kinds, NEW S
  PROVE  /\ \A e \in Envelope(k, S) :
              /\ e.ts \in Nat /\ e.body \in Body(k, S)
              /\ e.body.subject \in S /\ e.body.stamp \in Nat
         /\ \A n \in Nat, b \in Body(k, S) : [ts |-> n, body |-> b] \in Envelope(k, S)
  BY DEF Envelope, Body

\* A map entry from its parts.
LEMMA EntryType ==
  ASSUME NEW k \in Kinds, NEW e \in Envelope(k, Subjects[k]), NEW r \in Entry(k) \cup {Null}
  PROVE  NewEntry(r, e) \in Entry(k)
  BY EnvelopeType DEF NewEntry, Entry

\* One more signature.
LEMMA SignaturesType ==
  ASSUME NEW S, AreSignatures(S), NEW k \in Kinds, NEW e \in Envelope(k, Subjects[k]),
         NEW R \in SUBSET (S \cup {e.body})
  PROVE  AreSignatures(R)
  BY EnvelopeType DEF AreSignatures

\* What the delivery of a message leaves true of the listener.
Advanced ==
  /\ cursor' \in [Kinds -> Nat]
  /\ OnKinds(seen') /\ \A k \in Kinds : seen'[k] \subseteq Nat

\* The listener goes on by one message.
LEMMA AdvanceType ==
  ASSUME TypeInv, NEW k \in Kinds, Advance(k)
  PROVE  Advanced
<1>1. cursor \in [Kinds -> Nat] /\ \A j \in Kinds : seen[j] \subseteq Nat
  BY DEF TypeInv, TypeOK
<1>2. DOMAIN seen = Kinds
  BY DEF TypeInv, OnKinds
<1>3. cursor[k] + 1 \in Nat
  BY <1>1
<1>4. OnKinds(seen')
  BY <1>2 DEF Advance, OnKinds
<1>5. \A j \in Kinds : seen'[j] \subseteq seen[j] \cup {cursor[k] + 1}
  BY <1>2 DEF Advance
<1> QED
  BY <1>1, <1>3, <1>4, <1>5 DEF Advance, Advanced

\* At the start nothing is stored.
LEMMA TypeInit == Init => TypeInv
<1> SUFFICES ASSUME Init PROVE TypeInv
  OBVIOUS
<1>1. \A k \in Kinds :
        /\ EmptyMap(k) \in [Subjects[k] -> Entry(k) \cup {Null}]
        /\ <<>> \in Seq(Envelope(k, Subjects[k]))
        /\ [entries |-> EmptyMap(k), resume |-> 0]
             \in [entries : [Subjects[k] -> Entry(k) \cup {Null}], resume : Nat]
  BY DEF EmptyMap
<1>2. OnKinds(topic) /\ OnKinds(inHand) /\ OnKinds(held) /\ OnKinds(mapFile)
      /\ OnKinds(kept) /\ OnKinds(keptFile) /\ OnKinds(snapshot) /\ OnKinds(seen)
  BY DEF Init, OnKinds
<1>3. HandOK
  BY DEF Init, HandOK
<1>4. TypeOK
  BY <1>1, StorageAssumption DEF Init, TypeOK, AreSignatures
<1> QED
  BY <1>2, <1>3, <1>4 DEF TypeInv

\* Every step keeps the types.
LEMMA TypeNext == TypeInv /\ [Next]_vars => TypeInv'
<1> SUFFICES ASSUME TypeInv, [Next]_vars PROVE TypeInv'
  OBVIOUS
<1> USE DEF topicVars, listenVars, markVars, mapVars, issuerVars
<1>1. ASSUME NEW k \in Kinds, NEW b \in Bodies[k], Publish(k, b) PROVE TypeInv'
  <2>1. [ts |-> Len(topic[k]) + 1, body |-> b] \in Envelope(k, Subjects[k])
    <3>1. b \in Body(k, Subjects[k])
      BY StorageAssumption
    <3>2. topic[k] \in Seq(Envelope(k, Subjects[k]))
      BY DEF TypeInv, TypeOK
    <3> QED
      BY <3>1, <3>2, EnvelopeType, Len(topic[k]) + 1 \in Nat
  <2>2. topic[k] \in Seq(Envelope(k, Subjects[k])) /\ DOMAIN topic = Kinds
    BY DEF TypeInv, TypeOK, OnKinds
  <2>3. topic'[k] \in Seq(Envelope(k, Subjects[k]))
    BY <1>1, <2>1, <2>2 DEF Publish
  <2>4. OnKinds(topic') /\ \A j \in Kinds \ {k} : topic'[j] = topic[j]
    BY <1>1, <2>2 DEF Publish, OnKinds
  <2> QED
    BY <1>1, <2>3, <2>4 DEF Publish, TypeInv, TypeOK, HandOK
<1>2. ASSUME NEW k \in Kinds, StreamEnds(k) PROVE TypeInv'
  BY <1>2 DEF StreamEnds, TypeInv, TypeOK, HandOK
<1>3. ASSUME NEW k \in Kinds, Ignore(k) PROVE TypeInv'
  <2>1. Advanced
    BY <1>3, AdvanceType DEF Ignore
  <2> QED
    BY <1>3, <2>1 DEF Ignore, Advanced, TypeInv, TypeOK, HandOK
<1>4. ASSUME NEW k \in Kinds, Accept(k) PROVE TypeInv'
  <2>1. NextOf(k) \in Envelope(k, Subjects[k]) /\ NextOf(k) # Null
    BY <1>4, StorageAssumption DEF Accept, Delivering, NextOf, TypeInv, TypeOK
  <2>2. Advanced
    BY <1>4, AdvanceType DEF Accept
  <2>3. /\ OnKinds(inHand') /\ inHand'[k] = NextOf(k)
        /\ \A j \in Kinds \ {k} : inHand'[j] = inHand[j] /\ work'[j] = work[j]
        /\ work' \in [Kinds -> {"idle", "marking", "writing", "deciding", "persisting"}]
    BY <1>4 DEF Accept, TypeInv, TypeOK, OnKinds
  <2>4. HandOK'
    BY <1>4, <2>1, <2>3 DEF Accept, Delivering, TypeInv, HandOK
  <2> QED
    BY <1>4, <2>1, <2>2, <2>3, <2>4 DEF Accept, Advanced, TypeInv, TypeOK
<1>5. ASSUME NEW k \in Kinds, Mark(k) PROVE TypeInv'
  <2>1. inHand[k] \in Envelope(k, Subjects[k])
    BY <1>5 DEF Mark, TypeInv, TypeOK, HandOK
  <2>2. AreSignatures(signatures')
    BY <1>5, <2>1, SignaturesType DEF Mark, TypeInv, TypeOK
  <2>3. OnKinds(snapshot') /\ \A j \in Kinds : AreSignatures(snapshot'[j])
    BY <1>5, <2>2 DEF Mark, TypeInv, TypeOK, OnKinds
  <2>4. /\ work' \in [Kinds -> {"idle", "marking", "writing", "deciding", "persisting"}]
        /\ \A j \in Kinds : work'[j] # "idle" => work[j] # "idle"
    BY <1>5 DEF Mark, TypeInv, TypeOK
  <2>5. racing' \subseteq Kinds /\ torn' \subseteq Files
    BY <1>5 DEF Mark, Others, Files, TypeInv, TypeOK
  <2> QED
    BY <1>5, <2>2, <2>3, <2>4, <2>5 DEF Mark, TypeInv, TypeOK, HandOK
<1>6. ASSUME NEW k \in Kinds, SaveSignatures(k) PROVE TypeInv'
  <2>1. AreSignatures(signatureFile') /\ AreSignatures({})
    BY <1>6 DEF SaveSignatures, WrittenSignatures, TypeInv, TypeOK, AreSignatures
  <2> QED
    BY <1>6, <2>1 DEF SaveSignatures, TypeInv, TypeOK, HandOK, OnKinds
<1>7. ASSUME NEW k \in Kinds, SpoilSignatures(k) \/ AbortMark(k) PROVE TypeInv'
  <2>1. AreSignatures({})
    BY DEF AreSignatures
  <2>2. OnKinds(snapshot') /\ \A j \in Kinds : AreSignatures(snapshot'[j])
    BY <1>7, <2>1 DEF SpoilSignatures, AbortMark, TypeInv, TypeOK, OnKinds
  <2>3. /\ work' \in [Kinds -> {"idle", "marking", "writing", "deciding", "persisting"}]
        /\ OnKinds(inHand')
        /\ \A j \in Kinds : inHand'[j] \in Envelope(j, Subjects[j]) \cup {Null}
    BY <1>7 DEF SpoilSignatures, AbortMark, TypeInv, TypeOK, OnKinds
  <2>4. HandOK'
    BY <1>7 DEF SpoilSignatures, AbortMark, TypeInv, TypeOK, HandOK, OnKinds
  <2>5. racing' \subseteq Kinds /\ listening' \subseteq Kinds
    BY <1>7 DEF SpoilSignatures, AbortMark, TypeInv, TypeOK
  <2> QED
    BY <1>7, <2>2, <2>3, <2>4, <2>5 DEF SpoilSignatures, AbortMark, TypeInv, TypeOK
<1>8. ASSUME NEW k \in Kinds, Drop(k) PROVE TypeInv'
  BY <1>8 DEF Drop, TypeInv, TypeOK, HandOK, OnKinds
<1>9. ASSUME NEW k \in Kinds, Put(k) PROVE TypeInv'
  <2> DEFINE e == inHand[k]
             s == e.body.subject
  <2>1. e \in Envelope(k, Subjects[k]) /\ s \in Subjects[k]
    BY <1>9, EnvelopeType DEF Put, TypeInv, TypeOK, HandOK
  <2>2. NewEntry(held[k][s], e) \in Entry(k)
    BY <2>1, EntryType DEF TypeInv, TypeOK
  <2>3. OnKinds(held') /\ \A j \in Kinds : held'[j] \in [Subjects[j] -> Entry(j) \cup {Null}]
    BY <1>9, <2>1, <2>2 DEF Put, TypeInv, TypeOK, OnKinds
  <2>4. AreSignatures(applied')
    BY <1>9, <2>1, SignaturesType DEF Put, TypeInv, TypeOK
  <2>5. count' \in [Kinds -> Nat]
    BY <1>9 DEF Put, TypeInv, TypeOK
  <2>6. OnKinds(kept') /\ \A j \in Kinds : kept'[j] \subseteq Envelope(j, Subjects[j])
    BY <1>9, <2>1 DEF Put, TypeInv, TypeOK, OnKinds
  <2>7. /\ work' \in [Kinds -> {"idle", "marking", "writing", "deciding", "persisting"}]
        /\ OnKinds(inHand')
        /\ \A j \in Kinds : inHand'[j] \in Envelope(j, Subjects[j]) \cup {Null}
    BY <1>9 DEF Put, TypeInv, TypeOK, OnKinds
  <2>8. HandOK' /\ torn' \subseteq Files
    BY <1>9, <2>1 DEF Put, Files, TypeInv, TypeOK, HandOK, OnKinds
  <2> QED
    BY <1>9, <2>3, <2>4, <2>5, <2>6, <2>7, <2>8 DEF Put, TypeInv, TypeOK
<1>10. ASSUME NEW k \in Kinds, SaveMap(k) PROVE TypeInv'
  <2>1. ResumeTime(k, inHand[k]) \in Nat
    BY <1>10, EnvelopeType DEF SaveMap, ResumeTime, TypeInv, TypeOK, HandOK
  <2> QED
    BY <1>10, <2>1 DEF SaveMap, TypeInv, TypeOK, HandOK, OnKinds
<1>11. ASSUME NEW k \in Kinds, SpoilMap(k) PROVE TypeInv'
  BY <1>11 DEF SpoilMap, TypeInv, TypeOK, HandOK, OnKinds
<1>12. ASSUME NEW s \in Subjects["VC"], Register(s) PROVE TypeInv'
  BY <1>12 DEF Register, TypeInv, TypeOK, HandOK
<1>13. CASE OpenIssuers \/ WriteIssuers
  BY <1>13 DEF OpenIssuers, WriteIssuers, Files, TypeInv, TypeOK, HandOK
<1>14. CASE Boot
  BY <1>14 DEF Boot, Load, TypeInv, TypeOK, HandOK, OnKinds
<1>15. CASE Crash
  <2>1. \A k \in Kinds : EmptyMap(k) \in [Subjects[k] -> Entry(k) \cup {Null}]
    BY DEF EmptyMap
  <2> QED
    BY <1>15, <2>1, StorageAssumption
    DEF Crash, TypeInv, TypeOK, HandOK, OnKinds, AreSignatures
<1>16. CASE UNCHANGED vars
  BY <1>16 DEF vars, TypeInv, TypeOK, HandOK
<1> QED
  BY <1>1, <1>2, <1>3, <1>4, <1>5, <1>6, <1>7, <1>8, <1>9, <1>10, <1>11, <1>12, <1>13,
     <1>14, <1>15, <1>16 DEF Next, Store

\* TypeOK is an invariant of every storage.
THEOREM TypeCorrect == Spec => []TypeOK
<1>1. TypeInv => TypeOK
  BY DEF TypeInv
<1> QED
  BY <1>1, TypeInit, TypeNext, PTL DEF Spec

\* Parts of TypeInv and of the assumption, as the proofs below use them.
LEMMA Typed ==
  ASSUME TypeInv, NEW k \in Kinds
  PROVE  /\ Null \notin Envelope(k, Subjects[k]) /\ Null \notin Entry(k)
         /\ held[k] \in [Subjects[k] -> Entry(k) \cup {Null}]
         /\ mapFile[k].entries \in [Subjects[k] -> Entry(k) \cup {Null}]
         /\ mapFile[k].resume \in Nat
         /\ kept[k] \subseteq Envelope(k, Subjects[k])
         /\ keptFile[k] \subseteq Envelope(k, Subjects[k])
         /\ topic[k] \in Seq(Envelope(k, Subjects[k]))
         /\ cursor[k] \in Nat /\ count[k] \in Nat
         /\ inHand[k] # Null => inHand[k] \in Envelope(k, Subjects[k])
         /\ work[k] # "idle" =>
              /\ inHand[k] \in Envelope(k, Subjects[k])
              /\ inHand[k].body.subject \in Subjects[k]
              /\ server = "up"
<1>1. TypeOK /\ HandOK
  BY DEF TypeInv
<1>2. Null \notin Envelope(k, Subjects[k]) \cup Entry(k)
  BY StorageAssumption
<1> QED
  BY <1>1, <1>2, EnvelopeType DEF TypeOK, HandOK

-----------------------------------------------------------------------------
(***************************************************************************)
(* The steps that the maps see.                                            *)
(***************************************************************************)

\* Neither the maps nor the writing of their files are concerned.
MapQuiet ==
  /\ UNCHANGED <<mapVars, server>>
  /\ \A k \in Kinds : (k \in torn' <=> k \in torn)
                     /\ (work'[k] = "persisting" <=> work[k] = "persisting")

\* The maps and their files are the work of five actions.
LEMMA MapSteps ==
  ASSUME TypeInv, [Next]_vars
  PROVE  \/ MapQuiet \/ Boot \/ Crash
         \/ \E k \in Kinds : Drop(k) \/ Put(k) \/ SaveMap(k) \/ SpoilMap(k)
<1>1. work \in [Kinds -> {"idle", "marking", "writing", "deciding", "persisting"}]
  BY DEF TypeInv, TypeOK
<1>2. ASSUME NEW k \in Kinds,
             \/ Accept(k) \/ Mark(k) \/ SaveSignatures(k) \/ SpoilSignatures(k) \/ AbortMark(k)
      PROVE  MapQuiet
  BY <1>1, <1>2 DEF Accept, Delivering, Mark, SaveSignatures, SpoilSignatures, AbortMark,
                    MapQuiet, mapVars, Kinds
<1>3. CASE OpenIssuers \/ WriteIssuers
  BY <1>3 DEF OpenIssuers, WriteIssuers, MapQuiet, mapVars, Kinds
<1>4. ASSUME NEW s \in Subjects["VC"], Register(s) PROVE MapQuiet
  BY <1>4 DEF Register, MapQuiet
<1>5. ASSUME NEW k \in Kinds, (\E b \in Bodies[k] : Publish(k, b)) \/ StreamEnds(k) \/ Ignore(k)
      PROVE  MapQuiet
  BY <1>5 DEF Publish, StreamEnds, Ignore, MapQuiet
<1>6. CASE UNCHANGED vars
  BY <1>6 DEF vars, MapQuiet
<1> QED
  BY <1>2, <1>3, <1>4, <1>5, <1>6 DEF Next, Store

-----------------------------------------------------------------------------
(***************************************************************************)
(* A DELETE or REVOKE stays.                                               *)
(***************************************************************************)

\* What the file has for closed, the memory of a server that is up has too.
ClosedHeld ==
  server = "up" =>
    \A k \in Kinds : \A s \in Subjects[k] :
      Closed(k, mapFile[k].entries[s]) => Closed(k, held[k][s])

\* The test of the storage is that of the lemmas about what stands.
LEMMA OutdatedSame ==
  ASSUME NEW k \in Kinds, NEW r, NEW e
  PROVE  Outdated(k, r, e) <=> OutdatedFor(k, r, e)
  BY OutdatedIs DEF Outdated, Kinds

\* Put does not open again what is closed.
LEMMA PutCloses ==
  ASSUME TypeInv, NEW k \in Kinds, Put(k)
  PROVE  \A j \in Kinds : \A s \in Subjects[j] : Closed(j, held[j][s]) => Closed(j, held'[j][s])
<1> DEFINE e == inHand[k]
           t == e.body.subject
<1>1. work[k] # "idle"
  BY DEF Put
<1>2. e \in Envelope(k, Subjects[k]) /\ t \in Subjects[k]
  BY <1>1, Typed
<1>3. held[k][t] \in Entry(k) \cup {Null}
  BY <1>2, Typed
<1>4. NewEntry(held[k][t], e) \in Entry(k) /\ NewEntry(held[k][t], e).env = e
  BY <1>2, <1>3, EntryType DEF NewEntry
<1>5. ASSUME Closed(k, held[k][t]) PROVE e.body.op = Terminal(k)
  <2>1. EnvOf(held[k][t]) = held[k][t].env /\ held[k][t].env \in Envelope(k, Subjects[k])
    BY <1>3, <1>5 DEF Closed, EnvOf, Entry
  <2>2. EnvOf(held[k][t]) # Null
    BY <2>1, Typed
  <2>3. ~OutdatedFor(k, EnvOf(held[k][t]), e)
    BY OutdatedSame DEF Put
  <2> QED
    BY <1>5, <2>1, <2>2, <2>3 DEF OutdatedFor, Closed
<1>6. Closed(k, held[k][t]) => Closed(k, NewEntry(held[k][t], e))
  BY <1>4, <1>5, Typed DEF Closed
<1>7. DOMAIN held = Kinds /\ DOMAIN held[k] = Subjects[k]
  BY Typed DEF TypeInv, OnKinds
<1>8. held' = [held EXCEPT ![k][t] = NewEntry(@, e)]
  BY DEF Put
<1>9. /\ held'[k][t] = NewEntry(held[k][t], e)
      /\ \A s \in Subjects[k] \ {t} : held'[k][s] = held[k][s]
      /\ \A j \in Kinds \ {k} : held'[j] = held[j]
  BY <1>2, <1>7, <1>8
<1> QED
  BY <1>6, <1>9

\* One step: closed in the file is closed afterwards, in the file and in memory.
LEMMA ClosedNext ==
  ASSUME TypeInv, ClosedHeld, [Next]_vars
  PROVE  /\ ClosedHeld'
         /\ \A k \in Kinds : \A s \in Subjects[k] :
              Closed(k, mapFile[k].entries[s]) => Closed(k, mapFile'[k].entries[s])
<1>1. CASE MapQuiet
  BY <1>1 DEF MapQuiet, mapVars, ClosedHeld, Closed
<1>2. CASE Boot
  BY <1>2 DEF Boot, Load, ClosedHeld, Closed
<1>3. CASE Crash
  BY <1>3 DEF Crash, ClosedHeld, Closed
<1>4. ASSUME NEW k \in Kinds, Drop(k) \/ SpoilMap(k)
      PROVE  UNCHANGED <<held, mapFile, server>>
  BY <1>4 DEF Drop, SpoilMap, mapVars
<1>5. ASSUME NEW k \in Kinds, Put(k)
      PROVE  /\ ClosedHeld' /\ mapFile' = mapFile
  BY <1>5, PutCloses DEF Put, ClosedHeld, Closed
<1>6. ASSUME NEW k \in Kinds, SaveMap(k), NEW j \in Kinds
      PROVE  /\ UNCHANGED <<held, server>> /\ server = "up"
             /\ mapFile'[j].entries = mapFile[j].entries \/ mapFile'[j].entries = held[j]
  <2>1. server = "up"
    BY <1>6, Typed DEF SaveMap
  <2>2. DOMAIN mapFile = Kinds
    BY DEF TypeInv, OnKinds
  <2> QED
    BY <1>6, <2>1, <2>2 DEF SaveMap
<1> QED
  BY <1>1, <1>2, <1>3, <1>4, <1>5, <1>6, MapSteps DEF ClosedHeld, Closed

\* A DELETE or REVOKE that reached the file is final, with traffic on both
\* topics, failing writes and crashes.
THEOREM FinalCorrect == Spec => FinalOnceSaved
<1>1. Init => ClosedHeld
  BY DEF Init, ClosedHeld
<1>2. TypeInv /\ ClosedHeld /\ [Next]_vars => ClosedHeld'
  BY ClosedNext
<1>3. TypeInv /\ ClosedHeld /\ [Next]_vars
        => [\A k \in Kinds : \A s \in Subjects[k] :
              Closed(k, mapFile[k].entries[s])
                => /\ Closed(k, mapFile'[k].entries[s])
                   /\ server' = "up" => Closed(k, held'[k][s])]_vars
  BY ClosedNext DEF ClosedHeld, Closed
<1> QED
  BY <1>1, <1>2, <1>3, TypeInit, TypeNext, PTL DEF Spec, FinalOnceSaved

-----------------------------------------------------------------------------
(***************************************************************************)
(* The listener skips nothing.  It depends on the resume time in the file: *)
(* for the DID topic it is the consensus time of a message that was met.   *)
(***************************************************************************)

\* The consensus time of a message is its place in the topic.
TopicOK ==
  /\ \A k \in Kinds : \A i \in 1..Len(topic[k]) : topic[k][i].ts = i
  /\ \A k \in Kinds : Bodies[k] = {} => topic[k] = <<>>

\* The topics only grow.
LEMMA TopicNext ==
  ASSUME TypeInv, TopicOK, [Next]_vars
  PROVE  /\ TopicOK'
         /\ \A k \in Kinds : /\ Len(topic[k]) <= Len(topic'[k])
                            /\ \A i \in 1..Len(topic[k]) : topic'[k][i] = topic[k][i]
<1>1. ASSUME NEW k \in Kinds, NEW b \in Bodies[k], Publish(k, b)
      PROVE  /\ TopicOK'
             /\ \A j \in Kinds : /\ Len(topic[j]) <= Len(topic'[j])
                                /\ \A i \in 1..Len(topic[j]) : topic'[j][i] = topic[j][i]
  <2> DEFINE t == topic[k]
  <2>1. topic[k] \in Seq(Envelope(k, Subjects[k])) /\ DOMAIN topic = Kinds
    BY Typed DEF TypeInv, OnKinds
  <2>2. /\ topic'[k] = Append(topic[k], [ts |-> Len(topic[k]) + 1, body |-> b])
        /\ \A j \in Kinds \ {k} : topic'[j] = topic[j]
    BY <1>1, <2>1 DEF Publish
  <2>3. /\ Len(topic'[k]) = Len(topic[k]) + 1 /\ Len(topic[k]) \in Nat
        /\ \A i \in 1..Len(topic[k]) : topic'[k][i] = topic[k][i]
        /\ topic'[k][Len(topic[k]) + 1] = [ts |-> Len(topic[k]) + 1, body |-> b]
    BY <2>1, <2>2
  <2>4. \A i \in 1..Len(topic'[k]) : topic'[k][i].ts = i
    BY <2>3 DEF TopicOK
  <2>5. \A j \in Kinds : Len(topic[j]) <= Len(topic[j])
    BY Typed
  <2>6. TopicOK'
    <3>1. Bodies[k] # {}
      OBVIOUS
    <3> QED
      BY <2>2, <2>4, <3>1 DEF TopicOK
  <2>7. \A j \in Kinds \ {k} : \A i \in 1..Len(topic[j]) : topic'[j][i] = topic[j][i]
    BY <2>2
  <2>8. Len(topic[k]) <= Len(topic'[k])
    BY <2>3
  <2> QED
    BY <2>2, <2>3, <2>5, <2>6, <2>7, <2>8
<1>2. CASE topic' = topic
  <2>1. \A j \in Kinds : Len(topic[j]) <= Len(topic[j])
    BY Typed
  <2> QED
    BY <1>2, <2>1 DEF TopicOK
<1>3. (\E k \in Kinds : \E b \in Bodies[k] : Publish(k, b)) \/ topic' = topic
  BY DEF Next, Store, StreamEnds, Ignore, Accept, Mark, SaveSignatures, SpoilSignatures,
         AbortMark, Drop, Put, SaveMap, SpoilMap, Register, OpenIssuers, WriteIssuers,
         Boot, Crash, vars, topicVars
<1> QED
  BY <1>1, <1>2, <1>3

\* The places up to n were all delivered.
SeenTo(n) == \A i \in 1..n : i \in seen["DID"]

\* NoneSkipped for the DID topic is kept by a restart only if the file and the
\* message in hand do not name a later time than was reached.
SeenOK ==
  /\ TopicOK
  /\ SeenTo(mapFile["DID"].resume)
  /\ inHand["DID"] # Null => SeenTo(inHand["DID"].ts)
  /\ server = "up" => SeenTo(cursor["DID"])

\* Every step keeps what was delivered without a gap.
LEMMA SeenNext ==
  ASSUME TypeInv, SeenOK, [Next]_vars
  PROVE  SeenOK'
<1> USE DEF listenVars
<1>1. TopicOK'
  BY TopicNext DEF SeenOK
<1>2. /\ "DID" \in Kinds /\ cursor["DID"] \in Nat /\ DOMAIN cursor = Kinds
      /\ DOMAIN seen = Kinds /\ DOMAIN inHand = Kinds /\ DOMAIN mapFile = Kinds
  BY DEF Kinds, TypeInv, TypeOK, OnKinds
<1>3. ASSUME NEW k \in Kinds, Ignore(k) \/ Accept(k) PROVE SeenOK'
  <2>1. /\ Advance(k) /\ UNCHANGED <<server, mapFile>>
        /\ \/ inHand'["DID"] = inHand["DID"]
           \/ k = "DID" /\ inHand'["DID"] = NextOf("DID")
    <3>1. CASE Ignore(k)
      BY <3>1 DEF Ignore, mapVars
    <3>2. CASE Accept(k)
      <4>1. inHand' = [inHand EXCEPT ![k] = NextOf(k)]
        BY <3>2 DEF Accept
      <4> QED
        BY <1>2, <3>2, <4>1 DEF Accept, mapVars
    <3> QED
      BY <1>3, <3>1, <3>2
  <2>2. Delivering(k)
    BY <1>3 DEF Ignore, Accept
  <2>3. CASE k = "DID"
    <3>1. /\ server = "up" /\ topic["DID"] \in Seq(Envelope("DID", Subjects["DID"]))
          /\ cursor["DID"] < Len(topic["DID"])
      BY <1>2, <2>2, <2>3, Typed DEF Delivering
    <3>2. NextOf("DID").ts = cursor["DID"] + 1
      BY <1>2, <3>1 DEF NextOf, SeenOK, TopicOK
    <3>3. /\ cursor'["DID"] = cursor["DID"] + 1
          /\ seen'["DID"] = seen["DID"] \cup {cursor["DID"] + 1}
      BY <1>2, <2>1, <2>3 DEF Advance
    <3>4. \A i \in 1..(cursor["DID"] + 1) : i \in seen'["DID"]
      BY <1>2, <3>1, <3>3 DEF SeenOK, SeenTo
    <3> QED
      BY <1>1, <1>2, <2>1, <3>2, <3>3, <3>4 DEF SeenOK, SeenTo
  <2>4. CASE k # "DID"
    <3>1. UNCHANGED <<cursor["DID"], seen["DID"]>>
      BY <1>2, <2>1, <2>4 DEF Advance
    <3> QED
      BY <1>1, <2>1, <2>4, <3>1 DEF SeenOK, SeenTo
  <2> QED
    BY <2>3, <2>4
<1>4. CASE Boot
  BY <1>1, <1>2, <1>4 DEF Boot, Load, SeenOK, SeenTo
<1>5. CASE Crash
  BY <1>1, <1>2, <1>5 DEF Crash, SeenOK, SeenTo
<1>6. ASSUME NEW k \in Kinds, SaveMap(k) PROVE SeenOK'
  <2>1. /\ UNCHANGED <<cursor, seen, server>>
        /\ inHand'["DID"] = inHand["DID"] \/ inHand'["DID"] = Null
    BY <1>2, <1>6 DEF SaveMap
  <2>2. \/ mapFile'["DID"] = mapFile["DID"]
        \/ mapFile'["DID"].resume = inHand["DID"].ts /\ inHand["DID"] # Null
    BY <1>2, <1>6 DEF SaveMap, ResumeTime, TypeInv, HandOK
  <2> QED
    BY <1>1, <2>1, <2>2 DEF SeenOK, SeenTo
<1>7. CASE /\ UNCHANGED <<cursor, seen, server, mapFile>>
           /\ inHand'["DID"] = inHand["DID"] \/ inHand'["DID"] = Null
  BY <1>1, <1>7 DEF SeenOK, SeenTo
<1>8. ASSUME NEW k \in Kinds,
             \/ Mark(k) \/ SaveSignatures(k) \/ SpoilSignatures(k) \/ AbortMark(k)
             \/ Drop(k) \/ Put(k) \/ SpoilMap(k) \/ StreamEnds(k)
             \/ \E b \in Bodies[k] : Publish(k, b)
      PROVE  /\ UNCHANGED <<cursor, seen, server, mapFile>>
             /\ inHand'["DID"] = inHand["DID"] \/ inHand'["DID"] = Null
  BY <1>2, <1>8 DEF Mark, SaveSignatures, SpoilSignatures, AbortMark, Drop, Put, SpoilMap,
                    StreamEnds, Publish, mapVars
<1>9. CASE UNCHANGED vars \/ OpenIssuers \/ WriteIssuers \/ \E s \in Subjects["VC"] : Register(s)
  BY <1>7, <1>9 DEF OpenIssuers, WriteIssuers, Register, mapVars, vars
<1> QED
  BY <1>3, <1>4, <1>5, <1>6, <1>7, <1>8, <1>9 DEF Next, Store

\* NoneSkipped, for one kind.
NoneSkippedOf(k) ==
  server = "up" => \A i \in 1..Len(topic[k]) : i <= cursor[k] => i \in seen[k]

\* The listener of the DID topic never goes past a message that it was not
\* given, whatever goes on in the credential topic, through crashes and
\* writes that fail.
THEOREM DidNoneSkipped == Spec => []NoneSkippedOf("DID")
<1>1. Init => SeenOK
  BY DEF Init, SeenOK, SeenTo, TopicOK, Kinds
<1>2. TypeInv /\ SeenOK => NoneSkippedOf("DID")
  BY Typed DEF SeenOK, SeenTo, NoneSkippedOf, Kinds
<1> QED
  BY <1>1, <1>2, SeenNext, TypeInit, TypeNext, PTL DEF Spec

\* A server without traffic on the credential topic skips nothing at all.  With
\* such traffic this is false: that topic is resumed from a sender's clock.
THEOREM SkippedCorrect == Bodies["VC"] = {} => (Spec => []NoneSkipped)
<1> SUFFICES ASSUME Bodies["VC"] = {} PROVE Spec => []NoneSkipped
  OBVIOUS
<1>1. Init => SeenOK
  BY DEF Init, SeenOK, SeenTo, TopicOK, Kinds
<1>2. TypeInv /\ SeenOK => NoneSkipped
  <2> SUFFICES ASSUME TypeInv, SeenOK PROVE NoneSkipped
    OBVIOUS
  <2>1. Len(topic["VC"]) = 0
    BY DEF SeenOK, TopicOK, Kinds
  <2>2. NoneSkippedOf("DID")
    BY Typed DEF SeenOK, SeenTo, NoneSkippedOf, Kinds
  <2> QED
    BY <2>1, <2>2 DEF NoneSkipped, NoneSkippedOf, Kinds
<1> QED
  BY <1>1, <1>2, SeenNext, TypeInit, TypeNext, PTL DEF Spec

-----------------------------------------------------------------------------
(***************************************************************************)
(* What a crash can lose.                                                  *)
(***************************************************************************)

\* The store intervals that a server is started with: the number of messages
\* after which it saves.
Intervals == \A k \in Kinds : StoreInterval[k] >= 1

\* The entries that a crash would lose.
Differing(k) == {s \in Subjects[k] : held[k][s] # mapFile[k].entries[s]}

\* They are no more than the messages since the last save, and finitely many,
\* without which their number says nothing.
LossOf(k) ==
  k \notin torn => IsFiniteSet(Differing(k)) /\ Cardinality(Differing(k)) <= count[k]
LossOK ==
  /\ \A k \in Kinds : count[k] < StoreInterval[k]
  /\ server = "up" => \A k \in Kinds : LossOf(k)

\* One message more, one entry more at most.
LEMMA PutLoses ==
  ASSUME TypeInv, LossOK, ~DiskFails, NEW k \in Kinds, Put(k)
  PROVE  LossOK'
<1> DEFINE t == inHand[k].body.subject
<1>1. /\ server = "up" /\ server' = "up" /\ t \in Subjects[k]
      /\ DOMAIN held = Kinds /\ DOMAIN held[k] = Subjects[k]
      /\ count \in [Kinds -> Nat] /\ mapFile' = mapFile /\ StoreInterval[k] \in Int
  BY Typed, StorageAssumption DEF Put, TypeInv, TypeOK, OnKinds
<1>2. /\ \A s \in Subjects[k] \ {t} : held'[k][s] = held[k][s]
      /\ \A j \in Kinds \ {k} : held'[j] = held[j]
  BY <1>1 DEF Put
<1>3. /\ count'[k] = (IF Due(k) THEN 0 ELSE count[k] + 1)
      /\ \A j \in Kinds \ {k} : count'[j] = count[j]
  BY <1>1 DEF Put
<1>4. \/ Due(k) /\ torn' = torn \cup {k}
      \/ ~Due(k) /\ torn' = torn
  BY DEF Put
<1>5. \A j \in Kinds : count'[j] < StoreInterval[j]
  BY <1>1, <1>3 DEF LossOK, Due
<1>6. ASSUME NEW j \in Kinds, j # k PROVE LossOf(j)'
  <2>1. Differing(j)' = Differing(j)
    BY <1>1, <1>2, <1>6 DEF Differing
  <2>2. j \notin torn' => j \notin torn
    BY <1>4
  <2> QED
    BY <1>1, <1>3, <1>6, <2>1, <2>2 DEF LossOK, LossOf
<1>7. LossOf(k)'
  <2> SUFFICES ASSUME k \notin torn'
               PROVE  IsFiniteSet(Differing(k)') /\ Cardinality(Differing(k)') <= count'[k]
    BY DEF LossOf
  <2>1. k \notin torn /\ count'[k] = count[k] + 1
    BY <1>3, <1>4
  <2>2. IsFiniteSet(Differing(k)) /\ Cardinality(Differing(k)) <= count[k]
    BY <1>1, <2>1 DEF LossOK, LossOf
  <2>3. Differing(k)' \subseteq Differing(k) \cup {t}
    BY <1>1, <1>2 DEF Differing
  <2>4. /\ IsFiniteSet(Differing(k) \cup {t})
        /\ Cardinality(Differing(k) \cup {t}) <= Cardinality(Differing(k)) + 1
    <3>1. Cardinality(Differing(k)) \in Nat
      BY <2>2, FS_CardinalityType
    <3>2. /\ IsFiniteSet(Differing(k) \cup {t})
          /\ \/ Cardinality(Differing(k) \cup {t}) = Cardinality(Differing(k))
             \/ Cardinality(Differing(k) \cup {t}) = Cardinality(Differing(k)) + 1
      <4> HIDE DEF t
      <4> QED
        BY <2>2, FS_AddElement, Zenon
    <3> QED
      BY <3>1, <3>2
  <2>5. /\ IsFiniteSet(Differing(k)')
        /\ Cardinality(Differing(k)') <= Cardinality(Differing(k) \cup {t})
    BY <2>3, <2>4, FS_Subset
  <2>6. /\ Cardinality(Differing(k)) \in Nat
        /\ Cardinality(Differing(k) \cup {t}) \in Nat
        /\ Cardinality(Differing(k)') \in Nat
    BY <2>2, <2>4, <2>5, FS_CardinalityType
  <2> QED
    BY <1>1, <2>1, <2>2, <2>4, <2>5, <2>6
<1> QED
  BY <1>5, <1>6, <1>7 DEF LossOK

\* Every step keeps the bound.
LEMMA LossNext ==
  ASSUME TypeInv, LossOK, ~DiskFails, [Next]_vars
  PROVE  LossOK'
<1>1. CASE MapQuiet
  BY <1>1 DEF MapQuiet, mapVars, LossOK, LossOf, Differing
<1>2. CASE Boot
  <2>1. UNCHANGED <<count, mapFile, torn>>
    BY <1>2 DEF Boot
  <2>2. CASE server' = "up"
    <3>1. \A k \in Kinds : held'[k] = mapFile[k].entries
      BY <1>2, <2>2 DEF Boot, Load
    <3>2. \A k \in Kinds : Differing(k)' = {}
      BY <2>1, <3>1 DEF Differing
    <3>3. \A k \in Kinds : count'[k] \in Nat
      BY <2>1, Typed
    <3>4. \A k \in Kinds : LossOf(k)'
      BY <3>2, <3>3, FS_EmptySet DEF LossOf
    <3> QED
      BY <2>1, <3>4 DEF LossOK
  <2> QED
    BY <2>1, <2>2 DEF LossOK
<1>3. CASE Crash
  <2>1. \A k \in Kinds : count'[k] = 0 /\ count[k] \in Nat /\ StoreInterval[k] \in Int
    BY <1>3, Typed, StorageAssumption DEF Crash
  <2> QED
    BY <1>3, <2>1 DEF Crash, LossOK
<1>4. ASSUME NEW k \in Kinds, Drop(k) PROVE LossOK'
  BY <1>4 DEF Drop, LossOK, LossOf, Differing
<1>5. ASSUME NEW k \in Kinds, SaveMap(k) PROVE LossOK'
  <2>1. /\ mapFile'[k].entries = held[k] /\ UNCHANGED <<held, count, server>>
        /\ \A j \in Kinds \ {k} : mapFile'[j] = mapFile[j] /\ (j \in torn' <=> j \in torn)
    BY <1>5 DEF SaveMap, TypeInv, OnKinds
  <2>2. LossOf(k)'
    <3>1. Differing(k)' = {} /\ count'[k] \in Nat
      BY <2>1, Typed DEF Differing
    <3> QED
      BY <3>1, FS_EmptySet DEF LossOf
  <2>3. ASSUME NEW j \in Kinds, j # k, LossOf(j) PROVE LossOf(j)'
    BY <2>1, <2>3 DEF LossOf, Differing
  <2> QED
    BY <2>1, <2>2, <2>3 DEF LossOK
<1>6. \A k \in Kinds : ~SpoilMap(k)
  BY DEF SpoilMap
<1> QED
  BY <1>1, <1>2, <1>3, <1>4, <1>5, <1>6, PutLoses, MapSteps

\* As long as no write fails, a crash loses fewer entries than the store
\* interval, and no more than the messages since the last save: for any
\* traffic on both topics, any number of subjects, and whatever became of the
\* signatures.
THEOREM LossCorrect == Intervals /\ ~DiskFails => (Spec => []LossBounded)
<1> SUFFICES ASSUME Intervals, ~DiskFails PROVE Spec => []LossBounded
  OBVIOUS
<1>1. Init => LossOK
  <2> SUFFICES ASSUME Init PROVE LossOK
    OBVIOUS
  <2>1. \A k \in Kinds : count[k] = 0
    BY DEF Init
  <2> QED
    BY <2>1, StorageAssumption DEF Init, LossOK, Intervals
<1>2. LossOK => LossBounded
  BY DEF LossOK, LossOf, LossBounded, Differing
<1> QED
  BY <1>1, <1>2, LossNext, TypeInit, TypeNext, PTL DEF Spec

-----------------------------------------------------------------------------
(***************************************************************************)
(* A server that hears of one topic only, and whose disk works.  No two    *)
(* threads meet in the set of signatures, and a signature is in its file   *)
(* before the message has an effect.                                       *)
(***************************************************************************)

OneTopic == \E q \in Kinds : Bodies[q] = {}

\* The thread of the topic without traffic, q, never works, so that no two
\* writes of the signatures overlap.
AloneOK(q) == work[q] = "idle" /\ racing = {}

\* It does nothing, and gets in nobody's way.
LEMMA AloneIdle ==
  ASSUME TypeInv, TopicOK, NEW q \in Kinds, Bodies[q] = {}, AloneOK(q)
  PROVE  /\ ~Store(q)
         /\ \A k \in Kinds \ {q}, w \in {"marking", "writing"} : Others(k, w) = {}
<1>1. topic[q] = <<>> /\ cursor[q] \in Nat /\ work[q] = "idle"
  BY Typed DEF TopicOK, AloneOK
<1>2. ~Delivering(q)
  BY <1>1 DEF Delivering
<1>3. ~Store(q)
  BY <1>1, <1>2 DEF Store, Ignore, Accept, Mark, SaveSignatures, SpoilSignatures, AbortMark,
                    Drop, Put, SaveMap, SpoilMap
<1> QED
  BY <1>1, <1>3 DEF Others, Kinds

\* And it stays so.
LEMMA AloneNext ==
  ASSUME TypeInv, TopicOK, NEW q \in Kinds, Bodies[q] = {}, AloneOK(q), [Next]_vars
  PROVE  AloneOK(q)'
<1>1. /\ ~Store(q)
      /\ \A k \in Kinds \ {q}, w \in {"marking", "writing"} : Others(k, w) = {}
  BY AloneIdle
<1>2. DOMAIN work = Kinds
  BY DEF TypeInv, TypeOK
<1>3. ASSUME NEW k \in Kinds, Store(k) PROVE AloneOK(q)'
  <2>1. k # q
    BY <1>1, <1>3
  <2>2. CASE Mark(k)
    BY <1>1, <1>2, <2>1, <2>2 DEF Mark, AloneOK
  <2>3. CASE ~Mark(k)
    BY <1>2, <1>3, <2>1, <2>3
    DEF Store, Ignore, Accept, SaveSignatures, SpoilSignatures, AbortMark, Drop, Put, SaveMap,
        SpoilMap, AloneOK, markVars
  <2> QED
    BY <2>2, <2>3
<1>4. ASSUME NEW k \in Kinds, StreamEnds(k) \/ \E b \in Bodies[k] : Publish(k, b)
      PROVE  AloneOK(q)'
  BY <1>4 DEF StreamEnds, Publish, AloneOK, markVars
<1>5. CASE \/ OpenIssuers \/ WriteIssuers \/ Boot \/ Crash \/ UNCHANGED vars
           \/ \E s \in Subjects["VC"] : Register(s)
  BY <1>5 DEF OpenIssuers, WriteIssuers, Boot, Crash, Register, AloneOK, markVars, vars
<1> QED
  BY <1>3, <1>4, <1>5 DEF Next

\* The signatures of the messages that ever had an effect on the map of k, or
\* were looked at and dropped.
MetBy(k) == applied \cup {f.body : f \in kept[k] \cup keptFile[k]}

\* AppliedOnce rests on the signature being in the file before the map changes.
SignaturesOK(k) ==
  /\ \A b \in MetBy(k) : b \in signatureFile
  /\ server = "up" => \A b \in signatureFile : b \in signatures
  /\ work[k] \in {"marking", "writing", "deciding"} => inHand[k].body \notin MetBy(k)
  /\ work[k] = "writing" => inHand[k].body \in signatures
  /\ work[k] = "deciding" => inHand[k].body \in signatureFile

\* A step that leaves the maps alone adds nothing to what was met.
LEMMA MetSame ==
  ASSUME NEW k \in Kinds, UNCHANGED <<applied, kept, keptFile>>
  PROVE  MetBy(k)' = MetBy(k)
  BY DEF MetBy

\* A signature is looked up, added, saved and only then takes effect.
LEMMA SignaturesNext ==
  ASSUME TypeInv, TopicOK, NEW q \in Kinds, Bodies[q] = {}, AloneOK(q), ~DiskFails,
         NEW k \in Kinds \ {q}, SignaturesOK(k), [Next]_vars
  PROVE  SignaturesOK(k)'
<1> USE DEF mapVars, markVars
<1>1. /\ ~Store(q) /\ racing = {}
      /\ \A w \in {"marking", "writing"} : Others(k, w) = {}
  BY AloneIdle DEF AloneOK
<1>2. /\ DOMAIN work = Kinds /\ DOMAIN inHand = Kinds
      /\ DOMAIN kept = Kinds /\ DOMAIN keptFile = Kinds
  BY DEF TypeInv, TypeOK, OnKinds
<1>3. CASE Accept(k)
  <2>1. /\ server' = server /\ server = "up" /\ work'[k] = "marking"
        /\ UNCHANGED <<applied, kept, keptFile, signatureFile, signatures>>
        /\ inHand'[k] = NextOf(k)
    BY <1>2, <1>3 DEF Accept, Delivering
  <2>2. NextOf(k).body \notin signatures
    BY <1>1, <1>3 DEF Accept
  <2> QED
    BY <2>1, <2>2, MetSame DEF SignaturesOK
<1>4. CASE Mark(k)
  <2>1. /\ UNCHANGED <<server, inHand, applied, kept, keptFile, signatureFile>>
        /\ signatures' = signatures \cup {inHand[k].body}
        /\ work[k] = "marking" /\ work'[k] = "writing"
    BY <1>1, <1>2, <1>4 DEF Mark
  <2> QED
    BY <2>1, MetSame DEF SignaturesOK
<1>5. CASE SaveSignatures(k)
  <2>1. /\ UNCHANGED <<server, inHand, applied, kept, keptFile, signatures>>
        /\ signatureFile' = signatures
        /\ work[k] = "writing" /\ work'[k] = "deciding" /\ server = "up"
    BY <1>1, <1>2, <1>5, Typed DEF SaveSignatures, WrittenSignatures
  <2> QED
    BY <2>1, MetSame DEF SignaturesOK
<1>6. ~SpoilSignatures(k) /\ ~AbortMark(k) /\ ~SpoilMap(k)
  BY <1>1 DEF SpoilSignatures, AbortMark, SpoilMap
<1>7. CASE Drop(k) \/ Put(k)
  <2>1. /\ UNCHANGED <<server, keptFile, signatures, signatureFile>>
        /\ applied' \subseteq applied \cup {inHand[k].body}
        /\ kept'[k] = kept[k] \cup {inHand[k]}
        /\ work[k] = "deciding" /\ work'[k] \in {"idle", "persisting"}
    BY <1>2, <1>7 DEF Drop, Put
  <2>2. MetBy(k)' \subseteq MetBy(k) \cup {inHand[k].body}
    BY <2>1 DEF MetBy
  <2> QED
    BY <2>1, <2>2 DEF SignaturesOK
<1>8. CASE SaveMap(k)
  <2>1. /\ UNCHANGED <<server, applied, kept, signatures, signatureFile>>
        /\ keptFile'[k] = kept[k] /\ work'[k] = "idle"
    BY <1>2, <1>8 DEF SaveMap
  <2>2. MetBy(k)' \subseteq MetBy(k)
    BY <2>1 DEF MetBy
  <2> QED
    BY <2>1, <2>2 DEF SignaturesOK
<1>9. CASE Boot
  <2>1. /\ server = "down" /\ UNCHANGED <<applied, keptFile, signatureFile, work, inHand>>
        /\ kept' = kept \/ kept' = keptFile
        /\ server' = "up" => signatures' = signatureFile
    BY <1>9 DEF Boot, Load
  <2>2. MetBy(k)' \subseteq MetBy(k) /\ work[k] = "idle"
    BY <2>1, Typed DEF MetBy
  <2> QED
    BY <2>1, <2>2 DEF SignaturesOK
<1>10. CASE Crash
  <2>1. /\ server' = "down" /\ UNCHANGED <<applied, keptFile, signatureFile>>
        /\ kept'[k] = {} /\ work'[k] = "idle"
    BY <1>10 DEF Crash
  <2>2. MetBy(k)' \subseteq MetBy(k)
    BY <2>1 DEF MetBy
  <2> QED
    BY <2>1, <2>2 DEF SignaturesOK
<1>11. CASE UNCHANGED <<server, work, inHand, markVars, mapVars>>
  BY <1>11, MetSame DEF SignaturesOK
<1>12. ASSUME NEW j \in Kinds,
              Ignore(j) \/ StreamEnds(j) \/ \E b \in Bodies[j] : Publish(j, b)
       PROVE  UNCHANGED <<server, work, inHand, markVars, mapVars>>
  BY <1>12 DEF Ignore, StreamEnds, Publish
<1>13. CASE UNCHANGED vars \/ OpenIssuers \/ WriteIssuers \/ \E s \in Subjects["VC"] : Register(s)
  BY <1>11, <1>13 DEF OpenIssuers, WriteIssuers, Register, vars
<1>14. \A j \in Kinds : j = k \/ j = q
  BY DEF Kinds
<1> QED
  BY <1>1, <1>3, <1>4, <1>5, <1>6, <1>7, <1>8, <1>9, <1>10, <1>11, <1>12, <1>13, <1>14
  DEF Next, Store

\* A signature takes effect once, in a server that hears of one topic and whose
\* disk works, however often a message is submitted and replayed and whatever
\* crashes come in between.
THEOREM AppliedCorrect == OneTopic /\ ~DiskFails => (Spec => AppliedOnce)
<1>1. SUFFICES ASSUME NEW q \in Kinds, NEW p \in Kinds, p # q, Bodies[q] = {}, ~DiskFails
               PROVE  Spec => AppliedOnce
  BY DEF OneTopic, Kinds
<1> DEFINE Inv == TopicOK /\ AloneOK(q) /\ SignaturesOK(p)
<1>2. Init => Inv
  BY DEF Init, TopicOK, AloneOK, SignaturesOK, MetBy
<1>3. TypeInv /\ Inv /\ [Next]_vars => Inv'
  BY <1>1, TopicNext, AloneNext, SignaturesNext
<1>4. TypeInv /\ Inv /\ [Next]_vars
        => [\A k \in Kinds :
              work[k] = "deciding" /\ server' = "up" /\ held'[k] # held[k]
                => inHand[k].body \notin applied]_vars
  <2> SUFFICES ASSUME TypeInv, Inv, NEW k \in Kinds, work[k] = "deciding"
               PROVE  inHand[k].body \notin applied
    OBVIOUS
  <2>1. k = p
    BY <1>1 DEF AloneOK, Kinds
  <2> QED
    BY <2>1 DEF SignaturesOK, MetBy
<1> HIDE DEF Inv
<1> QED
  BY <1>2, <1>3, <1>4, TypeInit, TypeNext, PTL DEF Spec, AppliedOnce

-----------------------------------------------------------------------------
(***************************************************************************)
(* Refinement: the storage of DIDs, alone, implements DurableRegistry.     *)
(* The steps of the registry are Drop and Put, that count, Put when it     *)
(* begins to save, SaveMap, Boot and Crash; all others are stutters.       *)
(***************************************************************************)

\* The message is in the topic, at its consensus time.
Placed(k, e) == e.ts \in 1..Len(topic[k]) /\ topic[k][e.ts] = e

\* Messages come to the map in consensus order, also after a restart, since
\* the file names a time that no message in it is beyond.
OrderOK(k) ==
  /\ \A e \in kept[k] \cup keptFile[k] : Placed(k, e)
  /\ inHand[k] # Null => Placed(k, inHand[k])
  /\ server = "up" => \A f \in kept[k] : f.ts <= cursor[k]
  /\ work[k] # "idle" => inHand[k].ts = cursor[k]
  /\ work[k] \in {"marking", "writing", "deciding"} => \A f \in kept[k] : f.ts < inHand[k].ts
  /\ \A f \in keptFile[k] : f.ts <= mapFile[k].resume

\* The map, and the file, hold what stands.
StandsOK(k) ==
  \A s \in Subjects[k] :
    /\ Stands(k, kept[k], s, EnvOf(held[k][s]))
    /\ Stands(k, keptFile[k], s, EnvOf(mapFile[k].entries[s]))

\* Messages do not move in the topic.
LEMMA PlacedStays ==
  ASSUME TypeInv, TopicOK, [Next]_vars, NEW k \in Kinds, NEW e, Placed(k, e)
  PROVE  Placed(k, e)'
<1>1. /\ Len(topic[k]) <= Len(topic'[k]) /\ Len(topic[k]) \in Nat
      /\ \A i \in 1..Len(topic[k]) : topic'[k][i] = topic[k][i]
  BY TopicNext, Typed
<1>2. Len(topic'[k]) \in Nat
  BY TypeNext, Typed DEF TypeInv, TypeOK
<1> QED
  BY <1>1, <1>2 DEF Placed

\* Messages of one topic are of different times.
LEMMA PlacedTimed ==
  ASSUME NEW k \in Kinds, TypeInv, NEW S, \A e \in S : Placed(k, e)
  PROVE  Timed(S)
<1>1. Len(topic[k]) \in Nat
  BY Typed
<1> QED
  BY <1>1 DEF Placed, Timed

\* Every step keeps the order.
LEMMA OrderNext ==
  ASSUME TypeInv, TopicOK, Bodies["VC"] = {}, AloneOK("VC"), ~DiskFails,
         OrderOK("DID"), [Next]_vars
  PROVE  OrderOK("DID")'
<1> DEFINE k == "DID"
<1> USE DEF mapVars, listenVars
<1>1. ~Store("VC") /\ k \in Kinds /\ \A j \in Kinds : j = k \/ j = "VC"
  BY AloneIdle DEF Kinds
<1>2. /\ DOMAIN work = Kinds /\ DOMAIN inHand = Kinds /\ DOMAIN cursor = Kinds
      /\ DOMAIN kept = Kinds /\ DOMAIN keptFile = Kinds /\ DOMAIN mapFile = Kinds
  BY DEF TypeInv, TypeOK, OnKinds
<1>3. cursor[k] \in Nat /\ mapFile[k].resume \in Nat
  BY <1>1, Typed
<1>4. \A e \in kept[k] \cup keptFile[k] : Placed(k, e)' /\ e.ts \in Nat
  BY <1>1, PlacedStays DEF OrderOK, Placed
<1>5. ASSUME inHand[k] # Null, NEW e, e = inHand[k] PROVE Placed(k, e)' /\ e.ts \in Nat
  BY <1>1, <1>5, PlacedStays DEF OrderOK, Placed
<1>6. CASE Accept(k)
  <2>1. /\ UNCHANGED <<topic, server, kept, keptFile, mapFile>>
        /\ server = "up" /\ cursor[k] < Len(topic[k])
        /\ cursor'[k] = cursor[k] + 1 /\ work'[k] = "marking"
        /\ inHand'[k] = topic[k][cursor[k] + 1]
    BY <1>1, <1>2, <1>6 DEF Accept, Delivering, Advance, NextOf, topicVars
  <2>2. topic[k] \in Seq(Envelope(k, Subjects[k]))
    BY <1>1, Typed
  <2>3. cursor[k] + 1 \in 1..Len(topic[k])
    BY <1>3, <2>1, <2>2
  <2>4. inHand'[k].ts = cursor[k] + 1
    BY <1>1, <2>1, <2>3 DEF TopicOK
  <2>5. Placed(k, inHand[k])'
    BY <2>1, <2>3, <2>4 DEF Placed
  <2>6. \A f \in kept[k] : f.ts <= cursor[k]
    BY <2>1 DEF OrderOK
  <2> QED
    BY <1>3, <1>4, <2>1, <2>4, <2>5, <2>6 DEF OrderOK
<1>7. CASE Ignore(k)
  <2>1. /\ UNCHANGED <<server, kept, keptFile, mapFile, work, inHand>>
        /\ server = "up" /\ work[k] = "idle" /\ cursor'[k] = cursor[k] + 1
    BY <1>1, <1>2, <1>7 DEF Ignore, Delivering, Advance
  <2> QED
    BY <1>3, <1>4, <1>5, <2>1 DEF OrderOK
<1>8. CASE Mark(k) \/ SaveSignatures(k)
  <2>1. /\ UNCHANGED <<server, kept, keptFile, mapFile, inHand, cursor>>
        /\ work[k] \in {"marking", "writing"}
    BY <1>1, <1>2, <1>8 DEF Mark, SaveSignatures
  <2> QED
    BY <1>4, <1>5, <2>1 DEF OrderOK
<1>9. ~SpoilSignatures(k) /\ ~AbortMark(k) /\ ~SpoilMap(k)
  BY DEF AloneOK, SpoilSignatures, AbortMark, SpoilMap
<1>10. CASE Drop(k) \/ Put(k)
  <2>1. /\ UNCHANGED <<server, keptFile, mapFile, cursor>>
        /\ work[k] = "deciding" /\ kept'[k] = kept[k] \cup {inHand[k]}
        /\ \/ work'[k] = "idle" /\ inHand'[k] = Null
           \/ work'[k] = "persisting" /\ inHand'[k] = inHand[k]
    BY <1>1, <1>2, <1>10 DEF Drop, Put
  <2>2. inHand[k] # Null /\ inHand[k].ts = cursor[k]
    BY <1>1, <2>1 DEF OrderOK, TypeInv, HandOK
  <2>3. \A f \in kept'[k] : f.ts <= cursor[k]
    BY <1>3, <1>4, <2>1, <2>2 DEF OrderOK
  <2> QED
    BY <1>4, <1>5, <2>1, <2>2, <2>3 DEF OrderOK
<1>11. CASE SaveMap(k)
  <2>1. /\ UNCHANGED <<server, kept, cursor>> /\ keptFile'[k] = kept[k]
        /\ work[k] = "persisting" /\ work'[k] = "idle" /\ inHand'[k] = Null
        /\ mapFile'[k].resume = inHand[k].ts
    BY <1>1, <1>2, <1>11 DEF SaveMap, ResumeTime
  <2>2. inHand[k].ts = cursor[k] /\ server = "up"
    BY <1>1, <2>1, Typed DEF OrderOK
  <2> QED
    BY <1>4, <2>1, <2>2 DEF OrderOK
<1>12. CASE Boot
  <2>1. /\ UNCHANGED <<keptFile, mapFile, work, inHand>> /\ work[k] = "idle"
        /\ \/ kept' = keptFile /\ cursor'[k] = mapFile[k].resume
           \/ kept' = kept /\ server' = "refused"
    BY <1>1, <1>12, Typed DEF Boot, Load
  <2> QED
    BY <1>4, <1>5, <2>1 DEF OrderOK
<1>13. CASE Crash
  <2>1. /\ UNCHANGED <<keptFile, mapFile>> /\ server' = "down"
        /\ kept'[k] = {} /\ work'[k] = "idle" /\ inHand'[k] = Null
    BY <1>1, <1>13 DEF Crash
  <2> QED
    BY <1>4, <2>1 DEF OrderOK
<1>14. CASE UNCHANGED <<server, work, inHand, kept, keptFile, mapFile, cursor>>
  BY <1>4, <1>5, <1>14 DEF OrderOK
<1>15. ASSUME NEW j \in Kinds, StreamEnds(j) \/ \E b \in Bodies[j] : Publish(j, b)
       PROVE  UNCHANGED <<server, work, inHand, kept, keptFile, mapFile, cursor>>
  BY <1>15 DEF StreamEnds, Publish
<1>16. CASE UNCHANGED vars \/ OpenIssuers \/ WriteIssuers \/ \E s \in Subjects["VC"] : Register(s)
  BY <1>14, <1>16 DEF OpenIssuers, WriteIssuers, Register, vars
<1> QED
  BY <1>1, <1>6, <1>7, <1>8, <1>9, <1>10, <1>11, <1>12, <1>13, <1>14, <1>15, <1>16
  DEF Next, Store

\* What stands is kept up by Put and Drop, and comes back with the file.
LEMMA StandsNext ==
  ASSUME TypeInv, Bodies["VC"] = {}, TopicOK, AloneOK("VC"), ~DiskFails,
         OrderOK("DID"), StandsOK("DID"), [Next]_vars
  PROVE  StandsOK("DID")'
<1> DEFINE k == "DID"
<1>1. ~Store("VC") /\ k \in Kinds /\ \A j \in Kinds : j = k \/ j = "VC"
  BY AloneIdle DEF Kinds
<1>2. /\ DOMAIN held = Kinds /\ DOMAIN held[k] = Subjects[k]
      /\ DOMAIN kept = Kinds /\ DOMAIN keptFile = Kinds /\ DOMAIN mapFile = Kinds
  BY <1>1, Typed DEF TypeInv, TypeOK, OnKinds
<1>3. CASE MapQuiet
  BY <1>3 DEF MapQuiet, mapVars, StandsOK
<1>4. CASE Boot
  <2>1. /\ UNCHANGED <<keptFile, mapFile>>
        /\ \/ kept'[k] = keptFile[k] /\ held'[k] = mapFile[k].entries
           \/ kept' = kept /\ held' = held
    BY <1>1, <1>4 DEF Boot, Load
  <2> QED
    BY <2>1 DEF StandsOK
<1>5. CASE Crash
  <2>1. /\ UNCHANGED <<keptFile, mapFile>> /\ kept'[k] = {}
        /\ \A s \in Subjects[k] : held'[k][s] = Null
    BY <1>1, <1>5 DEF Crash, EmptyMap
  <2>2. \A s \in Subjects[k] : Stands(k, {}, s, EnvOf(Null))
    BY DEF Stands, About, EnvOf
  <2> QED
    BY <2>1, <2>2 DEF StandsOK
<1>6. CASE Drop(k) \/ Put(k)
  <2> DEFINE e == inHand[k]
             t == e.body.subject
  <2>1. /\ UNCHANGED <<keptFile, mapFile>> /\ work[k] = "deciding"
        /\ kept'[k] = kept[k] \cup {e}
    BY <1>1, <1>2, <1>6 DEF Drop, Put
  <2>2. /\ e \in Envelope(k, Subjects[k]) /\ t \in Subjects[k] /\ e # Null
        /\ Null \notin kept[k] /\ Null \notin Entry(k)
        /\ held[k][t] \in Entry(k) \cup {Null}
    BY <1>1, <2>1, Typed
  <2>3. Timed(kept[k] \cup {e})
    BY <1>1, <2>2, PlacedTimed DEF OrderOK
  <2>4. \A f \in kept[k] : f.ts < e.ts
    BY <2>1 DEF OrderOK
  <2>5. ASSUME NEW s \in Subjects[k]
        PROVE  Stands(k, kept[k] \cup {e}, s, EnvOf(held'[k][s]))
    <3> DEFINE r == EnvOf(held[k][s])
    <3>1. Stands(k, kept[k], s, r)
      BY <2>5 DEF StandsOK
    <3>2. /\ t # s => Stands(k, kept[k] \cup {e}, s, r)
          /\ t = s /\ OutdatedFor(k, r, e) => Stands(k, kept[k] \cup {e}, s, r)
          /\ t = s /\ ~OutdatedFor(k, r, e) => Stands(k, kept[k] \cup {e}, s, e)
      BY <2>2, <2>3, <2>4, <3>1, StandsExtend
    <3>3. CASE Drop(k)
      <4>1. held' = held /\ (t = s => OutdatedFor(k, r, e))
        BY <1>1, <3>3, OutdatedSame DEF Drop
      <4> QED
        BY <3>2, <4>1
    <3>4. CASE Put(k)
      <4>1. held' = [held EXCEPT ![k][t] = NewEntry(@, e)] /\ (t = s => ~OutdatedFor(k, r, e))
        BY <1>1, <3>4, OutdatedSame DEF Put
      <4>2. held'[k][s] = IF s = t THEN NewEntry(held[k][t], e) ELSE held[k][s]
        BY <1>1, <1>2, <2>2, <4>1
      <4>3. EnvOf(NewEntry(held[k][t], e)) = e
        <5>1. NewEntry(held[k][t], e) \in Entry(k)
          BY <1>1, <2>2, EntryType
        <5> QED
          BY <2>2, <5>1 DEF EnvOf, NewEntry
      <4> QED
        BY <3>2, <4>1, <4>2, <4>3
    <3> QED
      BY <1>6, <3>3, <3>4
  <2> QED
    BY <2>1, <2>5 DEF StandsOK
<1>7. CASE SaveMap(k)
  <2>1. /\ UNCHANGED <<kept, held>>
        /\ keptFile'[k] = kept[k] /\ mapFile'[k].entries = held[k]
    BY <1>1, <1>2, <1>7 DEF SaveMap
  <2> QED
    BY <2>1 DEF StandsOK
<1>8. ~SpoilMap(k)
  BY DEF SpoilMap
<1>9. ~Drop("VC") /\ ~Put("VC") /\ ~SaveMap("VC") /\ ~SpoilMap("VC")
  BY <1>1 DEF Store
<1> QED
  BY <1>1, <1>3, <1>4, <1>5, <1>6, <1>7, <1>8, <1>9, MapSteps

\* The whole invariant of a server that hears of DIDs only.
DidInv ==
  /\ TypeInv /\ TopicOK /\ AloneOK("VC")
  /\ SignaturesOK("DID") /\ OrderOK("DID") /\ StandsOK("DID")

\* It holds at the start.
LEMMA DidInvInit == Init => DidInv
<1> SUFFICES ASSUME Init PROVE DidInv
  OBVIOUS
<1>1. TopicOK /\ AloneOK("VC") /\ SignaturesOK("DID") /\ OrderOK("DID")
  BY DEF Init, TopicOK, AloneOK, SignaturesOK, MetBy, OrderOK, Kinds
<1>2. StandsOK("DID")
  <2>1. \A s \in Subjects["DID"] : Stands("DID", {}, s, EnvOf(Null))
    BY DEF Stands, About, EnvOf
  <2> QED
    BY <2>1 DEF Init, StandsOK, EmptyMap, Kinds
<1> QED
  BY <1>1, <1>2, TypeInit DEF DidInv

\* And every step keeps it.
LEMMA DidInvNext ==
  ASSUME Bodies["VC"] = {}, ~DiskFails, DidInv, [Next]_vars
  PROVE  DidInv'
<1>1. "DID" \in Kinds \ {"VC"} /\ "VC" \in Kinds
  BY DEF Kinds
<1> QED
  BY <1>1, TypeNext, TopicNext, AloneNext, SignaturesNext, OrderNext, StandsNext DEF DidInv

\* What stands is the status of the registry.
LEMMA DurableStatus ==
  ASSUME NEW C, Timed(C), NEW s, NEW r, Stands("DID", C, s, r)
  PROVE  r = Durable!StatusOf("DID", C, s)
<1>1. Durable!StatusOf("DID", C, s) = StatusOf("DID", C, s)
  BY DEF StatusOf, Durable!StatusOf, About, Durable!About, Closing, Durable!Closing,
         Newest, Durable!Newest, Terminal, Durable!Terminal
<1> QED
  BY <1>1, StandsIsStatus

\* A message that comes to be kept, new and newer than the others, and that
\* changes no entry but its own, is a Count.
LEMMA CountStep ==
  ASSUME DidInv', NEW e, e.body.subject \in Subjects["DID"], e \notin kept["DID"],
         kept'["DID"] = kept["DID"] \cup {e},
         \A f \in kept["DID"] : f.body # e.body /\ f.ts < e.ts,
         \A s \in Subjects["DID"] \ {e.body.subject} : held'["DID"][s] = held["DID"][s]
  PROVE  Durable!Count
<1> DEFINE t == e.body.subject
           status == [s \in Subjects["DID"] |-> EnvOf(held["DID"][s])]
<1>1. EnvOf(held'["DID"][t]) = Durable!StatusOf("DID", kept'["DID"], t)
  <2>1. topic'["DID"] \in Seq(Envelope("DID", Subjects["DID"]))
    BY DEF DidInv, TypeInv, TypeOK, Kinds
  <2>2. \A f \in kept'["DID"] : f.ts \in 1..Len(topic'["DID"]) /\ topic'["DID"][f.ts] = f
    BY DEF DidInv, OrderOK, Placed
  <2>3. Timed(kept'["DID"])
    BY <2>1, <2>2 DEF Timed
  <2>4. Stands("DID", kept'["DID"], t, EnvOf(held'["DID"][t]))
    BY DEF DidInv, StandsOK
  <2> QED
    BY <2>3, <2>4, DurableStatus
<1>2. [s \in Subjects["DID"] |-> EnvOf(held'["DID"][s])]
        = [status EXCEPT ![t] = Durable!StatusOf("DID", kept'["DID"], t)]
  BY <1>1
<1>3. e \in kept'["DID"] \ kept["DID"]
  OBVIOUS
<1> QED
  BY <1>2, <1>3 DEF Durable!Count

\* Drop and Put are such steps.
LEMMA KeepCounts ==
  ASSUME DidInv, DidInv', Drop("DID") \/ Put("DID")
  PROVE  Durable!Count
<1>1. PICK e : e = inHand["DID"]
  OBVIOUS
<1>2. "DID" \in Kinds /\ work["DID"] = "deciding" /\ TypeInv
  BY DEF Drop, Put, DidInv, Kinds
<1>3. e.body.subject \in Subjects["DID"]
  BY <1>1, <1>2, Typed
<1>4. \A f \in kept["DID"] : f.ts < e.ts /\ f.ts \in Nat
  BY <1>1, <1>2 DEF DidInv, OrderOK, Placed
<1>5. \A f \in kept["DID"] : f.body # e.body
  BY <1>1, <1>2 DEF DidInv, SignaturesOK, MetBy
<1>6. /\ DOMAIN kept = Kinds /\ DOMAIN held = Kinds /\ DOMAIN held["DID"] = Subjects["DID"]
  BY <1>2, Typed DEF TypeInv, OnKinds
<1>7. kept'["DID"] = kept["DID"] \cup {e}
  BY <1>1, <1>2, <1>6 DEF Drop, Put
<1>8. \A s \in Subjects["DID"] \ {e.body.subject} : held'["DID"][s] = held["DID"][s]
  BY <1>1, <1>2, <1>3, <1>6 DEF Drop, Put
<1>9. e \notin kept["DID"]
  BY <1>5
<1> QED
  BY <1>3, <1>4, <1>5, <1>7, <1>8, <1>9, CountStep

\* Every step is one of the registry or a stutter.
LEMMA DurableStep ==
  ASSUME Bodies["VC"] = {}, ~DiskFails, DidInv, DidInv', [Next]_vars
  PROVE  [Durable!DurableNext]_(Durable!durableVars)
<1> USE DEF Durable!DurableNext, Durable!durableVars, Durable!vars
<1>1. /\ "DID" \in Kinds /\ \A j \in Kinds : j = "DID" \/ j = "VC"
      /\ ~Store("VC") /\ TypeInv
  BY AloneIdle DEF DidInv, Kinds
<1>2. DOMAIN keptFile = Kinds
  BY <1>1 DEF TypeInv, OnKinds
<1>3. CASE MapQuiet
  BY <1>1, <1>3 DEF MapQuiet, mapVars
<1>4. CASE Boot
  <2>1. UNCHANGED <<keptFile, torn>>
    BY <1>4 DEF Boot
  <2>2. CASE torn = {}
    <3>1. kept' = keptFile /\ held'["DID"] = mapFile["DID"].entries
      BY <1>1, <1>4, <2>2 DEF Boot, Load
    <3>2. \A s \in Subjects["DID"] :
            EnvOf(held'["DID"][s]) = Durable!StatusOf("DID", keptFile["DID"], s)
      <4>1. Timed(keptFile["DID"])
        BY <1>1, PlacedTimed DEF DidInv, OrderOK
      <4> QED
        BY <3>1, <4>1, DurableStatus DEF DidInv, StandsOK
    <3>3. Durable!Recover
      BY <2>1, <2>2, <3>1, <3>2 DEF Durable!Recover
    <3> QED
      BY <3>3
  <2>3. CASE torn # {}
    BY <1>4, <2>1, <2>3 DEF Boot
  <2> QED
    BY <2>2, <2>3
<1>5. CASE Crash
  <2>1. /\ UNCHANGED <<keptFile, torn>> /\ kept'["DID"] = {}
        /\ \A s \in Subjects["DID"] : EnvOf(held'["DID"][s]) = Null
    BY <1>1, <1>5 DEF Crash, EmptyMap, EnvOf
  <2>2. Durable!Crash
    BY <2>1 DEF Durable!Crash
  <2> QED
    BY <2>2
<1>6. CASE Drop("DID") \/ Put("DID")
  <2>1. Durable!Count
    BY <1>6, KeepCounts
  <2>2. keptFile' = keptFile /\ (torn' = torn \/ torn' = torn \cup {"DID"})
    BY <1>6 DEF Drop, Put
  <2>3. Durable!DurableCount \/ Durable!CountAndSave
    BY <2>1, <2>2 DEF Durable!DurableCount, Durable!CountAndSave
  <2> QED
    BY <2>3
<1>7. CASE SaveMap("DID")
  <2>1. /\ UNCHANGED <<kept, held>> /\ keptFile'["DID"] = kept["DID"] /\ "DID" \notin torn'
    BY <1>1, <1>2, <1>7 DEF SaveMap
  <2>2. Durable!EndSave
    BY <2>1 DEF Durable!EndSave
  <2> QED
    BY <2>2
<1>8. ~SpoilMap("DID")
  BY DEF SpoilMap
<1>9. ~Drop("VC") /\ ~Put("VC") /\ ~SaveMap("VC") /\ ~SpoilMap("VC")
  BY <1>1 DEF Store
<1> QED
  BY <1>1, <1>3, <1>4, <1>5, <1>6, <1>7, <1>8, <1>9, MapSteps

\* The storage of DIDs, with no traffic on the credential topic and a disk that
\* works, implements the durable registry: what it answers is what stands among
\* the messages it counted, each signature once and in consensus order, and a
\* restart takes it back to what it saved last.
THEOREM Refinement == Bodies["VC"] = {} /\ ~DiskFails => (Spec => ImplementsDurableRegistry)
<1> SUFFICES ASSUME Bodies["VC"] = {}, ~DiskFails PROVE Spec => ImplementsDurableRegistry
  OBVIOUS
<1>1. Init => Durable!DurableInit
  <2> SUFFICES ASSUME Init PROVE Durable!DurableInit
    OBVIOUS
  <2>1. /\ kept["DID"] = {} /\ keptFile["DID"] = {}
        /\ \A s \in Subjects["DID"] : EnvOf(held["DID"][s]) = Null
    BY DEF Init, EmptyMap, EnvOf, Kinds
  <2> QED
    BY <2>1 DEF Durable!DurableInit, Durable!Init
<1>2. DidInv /\ DidInv' /\ [Next]_vars => [Durable!DurableNext]_(Durable!durableVars)
  BY DurableStep
<1>3. DidInv /\ [Next]_vars => DidInv'
  BY DidInvNext
<1> QED
  BY <1>1, <1>2, <1>3, DidInvInit, PTL
  DEF Spec, ImplementsDurableRegistry, Durable!DurableSpec
=============================================================================
