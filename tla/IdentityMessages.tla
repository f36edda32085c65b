-------------------------- MODULE IdentityMessages --------------------------
(***************************************************************************)
(* The messages that a DID topic and a credential (VC) topic carry, and    *)
(* the rules by which the SDK's resolvers choose, out of all the messages  *)
(* about one subject, the message that stands.                             *)
(*                                                                         *)
(* A body is what the sender signs.  Ed25519 is deterministic, so equal    *)
(* signatures mean equal bodies, and a signature is represented here by    *)
(* the body that it signs.  `stamp` is the sender's clock written into the *)
(* message, `valid` the verdict of the topic listener (parsable, of the    *)
(* right topic, signed by the right key).  An envelope adds the consensus  *)
(* timestamp, that the network assigns: unique and increasing in a topic.  *)
(***************************************************************************)
EXTENDS Naturals

CONSTANT Null        \* Java's null

DidMethodOperation == {"CREATE", "UPDATE", "DELETE"}
HcsVcOperation == {"ISSUE", "REVOKE", "SUSPEND", "RESUME"}

Kinds == {"DID", "VC"}
Operations(kind) == IF kind = "DID" THEN DidMethodOperation ELSE HcsVcOperation

\* The operation after which no other operation counts.
Terminal(kind) == IF kind = "DID" THEN "DELETE" ELSE "REVOKE"

Body(kind, subjects) ==
  [subject : subjects, op : Operations(kind), stamp : Nat, valid : BOOLEAN]

Envelope(kind, subjects) == [ts : Nat, body : Body(kind, subjects)]

-----------------------------------------------------------------------------
\* What processMessage of the two resolvers compares.

\* Variants: only the order of the messages is looked at.
DidOutdatedByTime(existing, e) == existing # Null /\ e.ts < existing.ts
VcOutdatedByTime(existing, e) == existing # Null /\ e.ts < existing.ts

\* HcsDidResolver: the new envelope is older than the one held, or the one
\* held is a DELETE and the new one is not.
DidOutdated(existing, e) ==
  /\ existing # Null
  /\ \/ e.ts < existing.ts
     \/ existing.body.op = "DELETE" /\ e.body.op # "DELETE"

\* HcsVcStatusResolver: the same with REVOKE.
VcOutdated(existing, e) ==
  /\ existing # Null
  /\ \/ e.ts < existing.ts
     \/ existing.body.op = "REVOKE" /\ e.body.op # "REVOKE"

-----------------------------------------------------------------------------
\* The reference: the message that stands for a subject, given the set of
\* all the messages that count.  It is stated over a set, with no order of
\* arrival: the newest terminal message if there is one, else the newest.

About(counted, s) == {e \in counted : e.body.subject = s}
Closing(kind, counted, s) == {e \in About(counted, s) : e.body.op = Terminal(kind)}
Newest(S) == CHOOSE e \in S : \A f \in S : f.ts <= e.ts

StatusOf(kind, counted, s) ==
  IF About(counted, s) = {} THEN Null
  ELSE IF Closing(kind, counted, s) = {} THEN Newest(About(counted, s))
  ELSE Newest(Closing(kind, counted, s))
=============================================================================
