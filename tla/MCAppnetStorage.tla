--------------------------- MODULE MCAppnetStorage ---------------------------
(* Small instances of AppnetStorage for TLC. *)
EXTENDS AppnetStorage

B(s, o, n, v) == [subject |-> s, op |-> o, stamp |-> n, valid |-> v]

\* Functions on Kinds.
For(did, vc) == [k \in Kinds |-> IF k = "DID" THEN did ELSE vc]

TwoDids == For({"a", "b"}, {})
OneDid == For({"a"}, {})
OneOfEach == For({"a"}, {"v"})
OneCredential == For({}, {"v"})

\* DID traffic only: a DID that is deleted and one that is created again.
DidTraffic ==
  For({B("a", "CREATE", 1, TRUE), B("a", "UPDATE", 3, TRUE), B("a", "DELETE", 1, TRUE),
       B("b", "CREATE", 1, TRUE), B("b", "CREATE", 1, FALSE)}, {})

OneDidTraffic == For({B("a", "CREATE", 1, TRUE), B("a", "DELETE", 1, TRUE)}, {})

\* Both topics, so that the two threads meet in the set of signatures.
BothTraffic ==
  For({B("a", "CREATE", 1, TRUE), B("a", "DELETE", 1, TRUE)},
      {B("v", "REVOKE", 1, TRUE)})

\* A sender whose clock is ahead of the consensus time.
FastClock == For({}, {B("v", "ISSUE", 2, TRUE), B("v", "REVOKE", 3, TRUE)})

ThreeEach == For(3, 3)
TwoAndOne == For(2, 1)
TwoEach == For(2, 2)
EveryOne == For(1, 1)
EveryTwo == For(2, 2)
=============================================================================
