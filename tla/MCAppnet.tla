------------------------------ MODULE MCAppnet ------------------------------
(* A small instance of Appnet for TLC. *)
EXTENDS Appnet

\* The same issuer, owner and time, so that only the id differs; and two keys, as
\* it is not checked that the key is that of the issuer's DID.
TwoRequests ==
  {[uuid |-> 1, issuer |-> "d", key |-> "k1", owner |-> "o"],
   [uuid |-> 2, issuer |-> "d", key |-> "k2", owner |-> "o"]}

\* The owner of k1 tries to change the status of every credential, of the
\* other's as well.
SomeStatements ==
  {[op |-> o, stamp |-> 1, key |-> "k1"] : o \in {"ISSUE", "SUSPEND", "REVOKE"}}
=============================================================================
