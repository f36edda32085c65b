---------------------------- MODULE PromptMirror ----------------------------
(***************************************************************************)
(* The resolver of MessageResolver, with a history of how prompt the       *)
(* mirror node was: the case for which setTimeout exists is that of a      *)
(* mirror node that lets no more than Timeout pass before the next message *)
(* ("maximum time to wait for new messages").  Only messages that the      *)
(* listener finds valid reach the resolver, so they are the ones that it   *)
(* has to be prompt with, however much invalid traffic is between them.    *)
(*                                                                         *)
(* gap is history: no step of the resolver reads it, and the mirror node   *)
(* may do all that it may do in MessageResolver.                           *)
(***************************************************************************)
EXTENDS MessageResolver

VARIABLE gap     \* how long a message has been owed since the last delivery;
                 \* once it is Timeout the mirror node was not prompt

promptVars == <<vars, gap>>

\* A valid message that the stream of c has still to deliver, or one whose
\* callback has not returned.
Owes(c) ==
  \/ inHand[c] # Null
  \/ \E i \in (cursor[c] + 1)..endTime[c] : topic[i].body.valid

PromptInit == Init /\ gap = 0

PromptTick ==
  /\ Tick
  /\ gap' = IF gap < Timeout /\ \E c \in open : Owes(c) THEN gap + 1 ELSE gap

\* The subscription begins, or a valid message is delivered.
Delivery(c) ==
  /\ Subscribe(c) \/ ReceiveIgnored(c) \/ ReceiveCounted(c)
  /\ gap' = IF gap < Timeout THEN 0 ELSE gap

\* A stream that ends before its time never delivers what it owes.
PromptEnds(c) ==
  /\ StreamEnds(c)
  /\ gap' = IF Owes(c) THEN Timeout ELSE gap

Other(c) ==
  /\ \/ Execute(c) \/ BeginWait(c) \/ TimerFires(c) \/ HandResults(c)
     \/ Unsubscribe(c) \/ StopExecutor(c) \/ ReceiveInvalid(c) \/ Put(c)
  /\ gap' = gap

PromptSubmit == (\E b \in Bodies : Submit(b)) /\ gap' = gap

PromptNext ==
  \/ PromptTick
  \/ PromptSubmit
  \/ \E c \in Calls : Delivery(c) \/ PromptEnds(c) \/ Other(c)

PromptSpec == PromptInit /\ [][PromptNext]_promptVars

FairPromptSpec == PromptSpec /\ Fairness

\* If the mirror node was prompt the answer is complete: what the handler is
\* given is what stands among ALL the messages that were in the topic when
\* execute() was called (the arrival time, waitOrFinish and its reschedule
\* together never give up while messages are still coming).
AnswerComplete ==
  gap < Timeout =>
    \A c \in Calls : handed[c] # Null =>
      \A s \in Query : handed[c][s] = StatusOf(Kind, CountedTo(endTime[c]), s)
=============================================================================
