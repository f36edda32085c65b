------------------------------ MODULE Registry ------------------------------
(***************************************************************************)
(* What a registry built on a consensus topic promises, whatever it is     *)
(* that reads the topic: it counts messages in consensus order, each       *)
(* signature once, and what it answers for a subject is at every moment    *)
(* the message that stands among those counted so far.                     *)
(***************************************************************************)
EXTENDS IdentityMessages

CONSTANTS Kind,      \* "DID" or "VC"
          Query      \* the subjects that the registry answers for

VARIABLES counted,   \* the envelopes that count
          status     \* for each subject the envelope that stands, or Null

vars == <<counted, status>>

Init ==
  /\ counted = {}
  /\ status = [s \in Query |-> Null]

\* One more message counts: of a new signature, newer than all the others.
Count ==
  \E e \in counted' \ counted :
    /\ counted' = counted \cup {e}
    /\ e.body.subject \in Query
    /\ \A f \in counted : f.body # e.body /\ f.ts < e.ts
    /\ status' = [status EXCEPT ![e.body.subject] =
                     StatusOf(Kind, counted', e.body.subject)]

Next == Count

Spec == Init /\ [][Next]_vars
=============================================================================
