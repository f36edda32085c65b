------------------------ MODULE IdentityMessagesProofs ------------------------
(***************************************************************************)
(* Lemmas about the message that stands: a registry that looks at one      *)
(* message at a time, and drops those that are outdated, arrives at what   *)
(* stands among all of them.                                               *)
(***************************************************************************)
EXTENDS IdentityMessages, TLAPS

\* The message that stands, as a relation: easier to carry from step to step
\* than a CHOOSE.

IsNewest(S, r) == r \in S /\ \A f \in S : f.ts <= r.ts

Stands(kind, C, s, r) ==
  \/ About(C, s) = {} /\ r = Null
  \/ About(C, s) # {} /\ Closing(kind, C, s) = {} /\ IsNewest(About(C, s), r)
  \/ Closing(kind, C, s) # {} /\ IsNewest(Closing(kind, C, s), r)

\* Envelopes of one topic: no two of the same time.
Timed(C) ==
  /\ \A e \in C : e.ts \in Nat
  /\ \A e, f \in C : e.ts = f.ts => e = f

\* There is only one newest.
LEMMA NewestIs ==
  ASSUME NEW S, Timed(S), NEW r, IsNewest(S, r)
  PROVE  r = Newest(S)
<1>1. \A e \in S : IsNewest(S, e) => e = r
  BY DEF IsNewest, Timed
<1>2. \E e \in S : \A f \in S : f.ts <= e.ts
  BY DEF IsNewest
<1>3. Newest(S) \in S /\ \A f \in S : f.ts <= Newest(S).ts
  BY <1>2 DEF Newest
<1>4. QED
  BY <1>1, <1>3 DEF IsNewest

\* Some of them are of one topic too.
LEMMA TimedSubset ==
  ASSUME NEW S, Timed(S), NEW R \in SUBSET S
  PROVE  Timed(R)
  BY DEF Timed

\* What stands as a relation is the status of the reference.
LEMMA StandsIsStatus ==
  ASSUME NEW kind, NEW C, Timed(C), NEW s, NEW r, Stands(kind, C, s, r)
  PROVE  r = StatusOf(kind, C, s)
<1>1. Timed(About(C, s)) /\ Timed(Closing(kind, C, s))
  BY TimedSubset DEF About, Closing
<1>2. CASE About(C, s) = {} /\ r = Null
  BY <1>2 DEF StatusOf
<1>3. CASE About(C, s) # {} /\ Closing(kind, C, s) = {} /\ IsNewest(About(C, s), r)
  BY <1>1, <1>3, NewestIs DEF StatusOf
<1>4. CASE Closing(kind, C, s) # {} /\ IsNewest(Closing(kind, C, s), r)
  <2>1. About(C, s) # {}
    BY <1>4 DEF Closing
  <2>2. QED
    BY <1>1, <1>4, <2>1, NewestIs DEF StatusOf
<1>5. QED
  BY <1>2, <1>3, <1>4 DEF Stands

\* Both resolvers and the storage drop the same messages, up to the name of the
\* terminal operation.
OutdatedFor(kind, r, e) ==
  /\ r # Null
  /\ \/ e.ts < r.ts
     \/ r.body.op = Terminal(kind) /\ e.body.op # Terminal(kind)

\* The two tests of the code are that one.
LEMMA OutdatedIs ==
  ASSUME NEW r, NEW e
  PROVE  /\ DidOutdated(r, e) <=> OutdatedFor("DID", r, e)
         /\ VcOutdated(r, e) <=> OutdatedFor("VC", r, e)
  BY DEF DidOutdated, VcOutdated, OutdatedFor, Terminal

\* One more message counts, newer than the others: what stands then is the
\* new message, unless it is about another subject or outdated.
LEMMA StandsExtend ==
  ASSUME NEW kind, NEW C, NEW s, NEW r, NEW e, Timed(C \cup {e}), Stands(kind, C, s, r),
         \A f \in C : f.ts < e.ts, Null \notin C
  PROVE  /\ e.body.subject # s => Stands(kind, C \cup {e}, s, r)
         /\ e.body.subject = s /\ OutdatedFor(kind, r, e) => Stands(kind, C \cup {e}, s, r)
         /\ e.body.subject = s /\ ~OutdatedFor(kind, r, e) => Stands(kind, C \cup {e}, s, e)
<1> DEFINE D == C \cup {e}
<1>1. /\ r = Null <=> About(C, s) = {}
      /\ r # Null => r \in C /\ r.ts < e.ts
      /\ r # Null /\ r.body.op = Terminal(kind) <=> Closing(kind, C, s) # {}
  BY DEF Stands, IsNewest, About, Closing
<1>2. e.ts \in Nat /\ \A f \in C : f.ts \in Nat
  BY DEF Timed
<1>3. ASSUME e.body.subject # s PROVE Stands(kind, D, s, r)
  <2>1. About(D, s) = About(C, s)
    BY <1>3 DEF About
  <2>2. Closing(kind, D, s) = Closing(kind, C, s)
    BY <2>1 DEF Closing
  <2>3. QED
    BY <2>1, <2>2 DEF Stands
<1>4. ASSUME e.body.subject = s, OutdatedFor(kind, r, e) PROVE Stands(kind, D, s, r)
  <2>1. r # Null /\ r.body.op = Terminal(kind) /\ e.body.op # Terminal(kind)
    BY <1>1, <1>2, <1>4 DEF OutdatedFor
  <2>2. Closing(kind, D, s) = Closing(kind, C, s)
    BY <2>1 DEF Closing, About
  <2>3. QED
    BY <1>1, <2>1, <2>2 DEF Stands
<1>5. ASSUME e.body.subject = s, ~OutdatedFor(kind, r, e) PROVE Stands(kind, D, s, e)
  <2>1. About(D, s) = About(C, s) \cup {e}
    BY <1>5 DEF About
  <2>2. \A f \in D : f.ts <= e.ts
    BY <1>2
  <2>3. CASE e.body.op = Terminal(kind)
    <3>1. Closing(kind, D, s) = Closing(kind, C, s) \cup {e}
      BY <2>1, <2>3 DEF Closing
    <3>2. \A f \in Closing(kind, D, s) : f \in D
      BY DEF Closing, About
    <3>3. QED
      BY <3>1, <3>2, <2>2 DEF Stands, IsNewest
  <2>4. CASE e.body.op # Terminal(kind)
    <3>1. Closing(kind, C, s) = {}
      BY <1>1, <1>5, <2>4 DEF OutdatedFor
    <3>2. Closing(kind, D, s) = {}
      BY <2>1, <2>4, <3>1 DEF Closing
    <3>3. \A f \in About(D, s) : f \in D
      BY DEF About
    <3>4. QED
      BY <2>1, <2>2, <3>2, <3>3 DEF Stands, IsNewest
  <2>5. QED
    BY <2>3, <2>4
<1>6. QED
  BY <1>3, <1>4, <1>5
=============================================================================
