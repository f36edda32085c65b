-------------------------- MODULE DurableRegistry --------------------------
(***************************************************************************)
(* A registry (see Registry) that saves what it counted, and after a crash *)
(* is back at what it saved last.  While it saves, nothing is saved: it    *)
(* overwrites its only copy.  After a crash it answers for nothing until   *)
(* it has recovered, and it cannot if the crash came while it was saving.  *)
(***************************************************************************)
EXTENDS Registry

VARIABLE saved     \* the envelopes that counted when it saved last

durableVars == <<vars, saved>>

DurableInit == Init /\ saved = {}

DurableCount == Count /\ saved' = saved

BeginSave == saved' = {} /\ UNCHANGED vars

EndSave == saved' = counted /\ UNCHANGED vars

\* One step can count a message and begin to save.
CountAndSave == Count /\ saved' = {}

Crash ==
  /\ counted' = {}
  /\ status' = [s \in Query |-> Null]
  /\ saved' = saved

Recover ==
  /\ counted' = saved
  /\ status' = [s \in Query |-> StatusOf(Kind, saved, s)]
  /\ saved' = saved

DurableNext ==
  \/ DurableCount \/ BeginSave \/ EndSave \/ CountAndSave \/ Crash \/ Recover

DurableSpec == DurableInit /\ [][DurableNext]_durableVars
=============================================================================
