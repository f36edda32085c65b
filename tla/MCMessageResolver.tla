------------------------- MODULE MCMessageResolver -------------------------
(* Small instances of MessageResolver for TLC. *)
EXTENDS MessageResolver

B(s, o, n, v) == [subject |-> s, op |-> o, stamp |-> n, valid |-> v]

\* One DID of the query and one that is not; two CREATE and two DELETE
\* bodies, so that each can be followed by another and not only a duplicate.
DidBodies ==
  {B("a", "CREATE", 1, TRUE), B("a", "CREATE", 2, TRUE), B("a", "UPDATE", 1, TRUE),
   B("a", "DELETE", 1, TRUE), B("a", "DELETE", 2, TRUE), B("a", "UPDATE", 2, FALSE),
   B("b", "CREATE", 1, TRUE)}

\* For two calls of execute(), where every step interleaves with the other's.
ReuseBodies ==
  {B("a", "ISSUE", 1, TRUE), B("a", "REVOKE", 1, TRUE), B("a", "SUSPEND", 1, FALSE)}
=============================================================================
