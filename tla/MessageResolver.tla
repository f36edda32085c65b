-------------------------- MODULE MessageResolver --------------------------
(***************************************************************************)
(* One MessageResolver object (an HcsDidResolver when Kind is "DID", an    *)
(* HcsVcStatusResolver when it is "VC") resolving the subjects in Query.   *)
(*                                                                         *)
(* execute() opens a subscription that replays the topic up to the time    *)
(* of the call.  The messages arrive on the thread of the subscription;    *)
(* a finish task on the resolver's executor waits until no message has     *)
(* arrived for Timeout, hands the result map to the caller's handler,      *)
(* closes the subscription and shuts the executor down.  The two threads   *)
(* share the result map and the arrival time with no lock.                 *)
(*                                                                         *)
(* Nothing stops a caller from calling execute() again on the same object: *)
(* Calls is the set of the calls it makes, and what belongs to one call    *)
(* (its subscription, its finish task) is a function on Calls.             *)
(*                                                                         *)
(* Time is relative: `quiet` is the time since the last arrival, `delay`   *)
(* what is left of a scheduled wait.  Both stop at the values beyond which *)
(* the code cannot tell them apart.                                        *)
(*                                                                         *)
(* A definition under the word "Variant" is no part of the model: it is a  *)
(* slip that the definition after it could have, and one of the properties *)
(* at the end fails with it.                                               *)
(***************************************************************************)
EXTENDS IdentityMessages, Sequences

CONSTANTS Kind,       \* "DID" or "VC"
          Subjects,   \* DIDs, or credential hashes
          Query,      \* the subjects added with addDid / addCredentialHash
          Bodies,     \* the signed messages that may be submitted
          Calls,      \* the calls of execute()
          Timeout,    \* noMoreMessagesTimeout, in ticks of the clock
          MaxTopic    \* bound: number of messages ever submitted

\* An envelope about to be put in the result map, and its `created` time.
Pending == [env : Envelope(Kind, Subjects), created : Nat]

ASSUME ResolverAssumption ==
  /\ Kind \in Kinds
  /\ Query \subseteq Subjects
  /\ Bodies \subseteq Body(Kind, Subjects)
  /\ Timeout \in Nat
  /\ MaxTopic \in Nat
  /\ Null \notin Envelope(Kind, Subjects) \cup Pending \cup Calls
  /\ Null \notin [Query -> Envelope(Kind, Subjects) \cup {Null}]
  /\ Calls # {}

VARIABLES
  topic,       \* the messages that reached consensus, in consensus order
  phase,       \* where each call of execute() and its finish task are
  delay,       \* what is left of the wait of each finish task
  open,        \* the subscriptions that are alive
  endTime,     \* the consensus time at which each subscription ends
  cursor,      \* how far each subscription has been delivered
  inHand,      \* what processMessage is about to put in the result map
  listener,    \* the field `listener`: the subscription of the latest call
  signatures,  \* the field `existingSignatures`
  results,     \* the field `results`: for each subject an envelope or Null
  created,     \* the `created` time on the DID message held, 0 for null
  quiet,       \* the time since lastMessageArrivalTime
  executor,    \* the ScheduledExecutorService
  handed       \* history: what the handler of each call was given, or Null

mirrorVars == <<topic, open, endTime, cursor>>
mapVars == <<signatures, results, created, inHand>>
taskVars == <<phase, delay, executor, handed>>
vars == <<topic, open, endTime, cursor, signatures, results, created, inHand,
          phase, delay, executor, handed, listener, quiet>>

Phase == {"new", "created", "subscribed", "waiting", "finishing", "unsubscribing",
          "stopping", "done", "failed", "rejected"}

TypeOK ==
  /\ topic \in Seq(Envelope(Kind, Subjects))
  /\ phase \in [Calls -> Phase]
  /\ delay \in [Calls -> 0..Timeout]
  /\ open \subseteq Calls
  /\ endTime \in [Calls -> Nat]
  /\ cursor \in [Calls -> Nat]
  /\ inHand \in [Calls -> Pending \cup {Null}]
  /\ listener \in Calls \cup {Null}
  /\ signatures \subseteq Body(Kind, Subjects)
  /\ results \in [Query -> Envelope(Kind, Subjects) \cup {Null}]
  /\ created \in [Query -> Nat]
  /\ quiet \in 0..Timeout
  /\ executor \in {"running", "shutdown"}
  /\ handed \in [Calls -> [Query -> Envelope(Kind, Subjects) \cup {Null}] \cup {Null}]

Init ==
  /\ topic = <<>>
  /\ phase = [c \in Calls |-> "new"]
  /\ delay = [c \in Calls |-> 0]
  /\ open = {}
  /\ endTime = [c \in Calls |-> 0]
  /\ cursor = [c \in Calls |-> 0]
  /\ inHand = [c \in Calls |-> Null]
  /\ listener = Null
  /\ signatures = {}
  /\ results = [s \in Query |-> Null]
  /\ created = [s \in Query |-> 0]
  /\ quiet = 0
  /\ executor = "running"
  /\ handed = [c \in Calls |-> Null]

-----------------------------------------------------------------------------
\* The environment.

\* A message reaches consensus; its timestamp is its place in the topic.
Submit(b) ==
  /\ Len(topic) < MaxTopic
  /\ topic' = Append(topic, [ts |-> Len(topic) + 1, body |-> b])
  /\ UNCHANGED <<open, endTime, cursor, mapVars, taskVars, listener, quiet>>

\* A tick of the clock: the waits of the scheduled tasks get shorter.
Tick ==
  /\ quiet' = IF quiet < Timeout THEN quiet + 1 ELSE quiet
  /\ delay' = [c \in Calls |-> IF delay[c] > 0 THEN delay[c] - 1 ELSE 0]
  /\ UNCHANGED <<mirrorVars, mapVars, phase, executor, handed, listener>>

\* The mirror node ends a stream, or the connection to it is lost.
StreamEnds(c) ==
  /\ c \in open
  /\ open' = open \ {c}
  /\ UNCHANGED <<topic, endTime, cursor, mapVars, taskVars, listener, quiet>>

-----------------------------------------------------------------------------
\* execute() and the finish task.

\* Variant: the wait left is computed with the wrong sign.
WaitOrFinishTooLong(c, idle) ==
  IF idle < Timeout
    THEN /\ phase' = [phase EXCEPT ![c] = "waiting"]
         /\ delay' = [delay EXCEPT ![c] = Timeout + idle]
    ELSE /\ phase' = [phase EXCEPT ![c] = "finishing"]
         /\ delay' = delay

\* waitOrFinish up to its decision, `idle` after the last arrival: wait for
\* what is left of the timeout, or finish.  An executor that was shut down
\* rejects the task.
WaitOrFinish(c, idle) ==
  IF idle < Timeout
    THEN IF executor = "running"
           THEN /\ phase' = [phase EXCEPT ![c] = "waiting"]
                /\ delay' = [delay EXCEPT ![c] = Timeout - idle]
           ELSE /\ phase' = [phase EXCEPT ![c] = "rejected"]
                /\ delay' = delay
    ELSE /\ phase' = [phase EXCEPT ![c] = "finishing"]
         /\ delay' = delay

\* Calls that are still in the caller's thread.  With a timeout of zero the
\* whole finish task is.
Running == {c \in Calls : phase[c] \in {"created", "subscribed"}
                           \/ /\ Timeout = 0
                              /\ phase[c] \in {"finishing", "unsubscribing", "stopping"}}

\* execute() up to the new listener, which has no subscription yet;
\* validate() wants something to resolve.  One thread makes the calls.
Execute(c) ==
  /\ phase[c] = "new"
  /\ Query # {}
  /\ Running = {}
  /\ signatures' = {}
  /\ listener' = c
  /\ phase' = [phase EXCEPT ![c] = "created"]
  /\ UNCHANGED <<mirrorVars, results, created, inHand, delay, executor, handed,
                 quiet>>

\* The subscription: the stream ends at the time of the call, after all that
\* is in the topic.
Subscribe(c) ==
  /\ phase[c] = "created"
  /\ open' = open \cup {c}
  /\ endTime' = [endTime EXCEPT ![c] = Len(topic)]
  /\ phase' = [phase EXCEPT ![c] = "subscribed"]
  /\ UNCHANGED <<topic, cursor, mapVars, delay, executor, handed, listener, quiet>>

\* Variant: the executor is shut down when the call begins to wait, as if a
\* task already scheduled were all that it is needed for.
BeginWaitAndStop(c) ==
  /\ phase[c] = "subscribed"
  /\ quiet' = 0
  /\ WaitOrFinish(c, 0)
  /\ executor' = "shutdown"
  /\ UNCHANGED <<mirrorVars, mapVars, handed, listener>>

\* The rest of execute(), in the same thread.
BeginWait(c) ==
  /\ phase[c] = "subscribed"
  /\ quiet' = 0
  /\ WaitOrFinish(c, 0)
  /\ UNCHANGED <<mirrorVars, mapVars, executor, handed, listener>>

\* Variant: the task finds that it is too early and ends, scheduling no other.
TimerFiresOnce(c) ==
  /\ phase[c] = "waiting"
  /\ delay[c] = 0
  /\ phase' = [phase EXCEPT ![c] = IF quiet < Timeout THEN "done" ELSE "finishing"]
  /\ UNCHANGED <<mirrorVars, mapVars, delay, executor, handed, listener, quiet>>

\* The scheduled task runs waitOrFinish again.
TimerFires(c) ==
  /\ phase[c] = "waiting"
  /\ delay[c] = 0
  /\ WaitOrFinish(c, quiet)
  /\ UNCHANGED <<mirrorVars, mapVars, executor, handed, listener, quiet>>

\* resultsHandler.accept(results): the handler returns, or it throws and the
\* task ends there.
HandResults(c) ==
  /\ phase[c] = "finishing"
  /\ handed' = [handed EXCEPT ![c] = results]
  /\ \E next \in {"unsubscribing", "failed"} :
       phase' = [phase EXCEPT ![c] = next]
  /\ UNCHANGED <<mirrorVars, mapVars, delay, executor, listener, quiet>>

\* Variant: the subscription is left open.
UnsubscribeNothing(c) ==
  /\ phase[c] = "unsubscribing"
  /\ phase' = [phase EXCEPT ![c] = "stopping"]
  /\ UNCHANGED <<mirrorVars, mapVars, delay, executor, handed, listener, quiet>>

\* listener.unsubscribe(), on the listener of the latest call; before its
\* subscription that closes nothing.
Unsubscribe(c) ==
  /\ phase[c] = "unsubscribing"
  /\ open' = open \ {listener}
  /\ phase' = [phase EXCEPT ![c] = "stopping"]
  /\ UNCHANGED <<topic, endTime, cursor, mapVars, delay, executor, handed,
                 listener, quiet>>

\* Variant: shutdownNow(), which drops the tasks that are scheduled.
StopExecutorNow(c) ==
  /\ phase[c] = "stopping"
  /\ executor' = "shutdown"
  /\ phase' = [d \in Calls |-> IF d = c THEN "done"
                                ELSE IF phase[d] = "waiting" THEN "dropped"
                                ELSE phase[d]]
  /\ UNCHANGED <<mirrorVars, mapVars, delay, handed, listener, quiet>>

\* executorService.shutdown(); what is already scheduled will still run.
StopExecutor(c) ==
  /\ phase[c] = "stopping"
  /\ executor' = "shutdown"
  /\ phase' = [phase EXCEPT ![c] = "done"]
  /\ UNCHANGED <<mirrorVars, mapVars, delay, handed, listener, quiet>>

-----------------------------------------------------------------------------
\* The thread of the subscription: MessageListener.handleResponse, and for a
\* valid message handleMessage.

matchesSearchCriteria(e) == e.body.subject \in Query

\* Variant: signatures are not remembered.
AnySignature(e) == TRUE

\* existingSignatures does not have the signature of the message.
FirstOfSignature(e) == e.body \notin signatures

Outdated(existing, e) ==
  IF Kind = "DID" THEN DidOutdated(existing, e) ELSE VcOutdated(existing, e)

\* Variant: only a CREATE message carries the time.
CreatedTimeOfCreate(e, before) == IF e.body.op = "CREATE" THEN e.ts ELSE 0

\* The `created` time that processMessage writes on a DID message: its own
\* time for a CREATE, else that of the message held before, null (0) if there
\* was none.  No credential message is a CREATE: theirs stays null.
CreatedTime(e, before) == IF e.body.op = "CREATE" THEN e.ts ELSE before

\* Variant: the stream has no end time.
DeliveringForever(c) == c \in open /\ inHand[c] = Null /\ cursor[c] < Len(topic)

\* The next message of a stream that is alive and not busy.
Delivering(c) == c \in open /\ inHand[c] = Null /\ cursor[c] < endTime[c]
NextOf(c) == topic[cursor[c] + 1]

\* The listener finds the message invalid and reports it: the resolver
\* installs no handler for that.
ReceiveInvalid(c) ==
  /\ Delivering(c)
  /\ ~NextOf(c).body.valid
  /\ cursor' = [cursor EXCEPT ![c] = @ + 1]
  /\ UNCHANGED <<topic, open, endTime, mapVars, taskVars, listener, quiet>>

\* Variant: a message that is ignored does not count as an arrival.
ReceiveIgnoredQuietly(c) ==
  /\ Delivering(c)
  /\ NextOf(c).body.valid
  /\ \/ ~matchesSearchCriteria(NextOf(c))
     \/ ~FirstOfSignature(NextOf(c))
  /\ cursor' = [cursor EXCEPT ![c] = @ + 1]
  /\ UNCHANGED <<topic, open, endTime, mapVars, taskVars, listener, quiet>>

\* handleMessage returns early: about no subject of the query, or a
\* signature that was met before.
ReceiveIgnored(c) ==
  /\ Delivering(c)
  /\ NextOf(c).body.valid
  /\ \/ ~matchesSearchCriteria(NextOf(c))
     \/ ~FirstOfSignature(NextOf(c))
  /\ cursor' = [cursor EXCEPT ![c] = @ + 1]
  /\ quiet' = 0
  /\ UNCHANGED <<topic, open, endTime, mapVars, taskVars, listener>>

\* handleMessage goes on to processMessage, up to the decision: drop what is
\* outdated, else compute what to put.
ReceiveCounted(c) ==
  LET e == NextOf(c)
      s == e.body.subject
  IN /\ Delivering(c)
     /\ e.body.valid
     /\ matchesSearchCriteria(e)
     /\ FirstOfSignature(e)
     /\ cursor' = [cursor EXCEPT ![c] = @ + 1]
     /\ quiet' = 0
     /\ signatures' = signatures \cup {e.body}
     /\ inHand' = IF Outdated(results[s], e) THEN inHand
                  ELSE [inHand EXCEPT ![c] =
                          [env |-> e, created |-> CreatedTime(e, created[s])]]
     /\ UNCHANGED <<topic, open, endTime, results, created, taskVars, listener>>

\* Variant: putIfAbsent.
PutIfAbsent(c) ==
  /\ inHand[c] # Null
  /\ LET s == inHand[c].env.body.subject
     IN IF results[s] = Null
          THEN /\ results' = [results EXCEPT ![s] = inHand[c].env]
               /\ created' = [created EXCEPT ![s] = inHand[c].created]
          ELSE UNCHANGED <<results, created>>
  /\ inHand' = [inHand EXCEPT ![c] = Null]
  /\ UNCHANGED <<mirrorVars, signatures, taskVars, listener, quiet>>

\* results.put(...): the end of processMessage.
Put(c) ==
  /\ inHand[c] # Null
  /\ results' = [results EXCEPT ![inHand[c].env.body.subject] = inHand[c].env]
  /\ created' = [created EXCEPT ![inHand[c].env.body.subject] = inHand[c].created]
  /\ inHand' = [inHand EXCEPT ![c] = Null]
  /\ UNCHANGED <<mirrorVars, signatures, taskVars, listener, quiet>>

-----------------------------------------------------------------------------
Receive(c) == ReceiveInvalid(c) \/ ReceiveIgnored(c) \/ ReceiveCounted(c)

Step(c) ==
  \/ Execute(c)
  \/ Subscribe(c)
  \/ BeginWait(c)
  \/ TimerFires(c)
  \/ HandResults(c)
  \/ Unsubscribe(c)
  \/ StopExecutor(c)
  \/ Receive(c)
  \/ Put(c)

Next ==
  \/ \E b \in Bodies : Submit(b)
  \/ Tick
  \/ \E c \in Calls : Step(c) \/ StreamEnds(c)

Spec == Init /\ [][Next]_vars

\* The calling thread goes on, the executor runs the tasks that are due, a
\* callback that started ends, time passes.  Nobody has to submit a message,
\* and the mirror node need not deliver one.
Fairness ==
  /\ WF_vars(Tick)
  /\ \A c \in Calls :
       WF_vars(Subscribe(c) \/ BeginWait(c) \/ TimerFires(c) \/ HandResults(c)
                 \/ Unsubscribe(c) \/ StopExecutor(c))
  /\ \A c \in Calls : WF_vars(Put(c))

FairSpec == Spec /\ Fairness
-----------------------------------------------------------------------------
(***************************************************************************)
(* What a resolver promises, until execute() is called a second time.      *)
(***************************************************************************)

Once == \A c, d \in Calls : phase[c] # "new" /\ phase[d] # "new" => c = d

\* The messages that count among the first n of the topic: valid, about a
\* subject of the query, and the first of their signature.
CountedTo(n) ==
  {topic[i] : i \in {j \in 1..n :
                       /\ topic[j].body.valid
                       /\ topic[j].body.subject \in Query
                       /\ \A h \in 1..(j - 1) : topic[h].body # topic[j].body}}

\* Those that the resolver is through with: delivered, and no longer in hand.
Processed(c) ==
  {e \in CountedTo(cursor[c]) : inHand[c] # Null => inHand[c].env # e}

Counted == UNION {Processed(c) : c \in Calls}

\* The result map holds, for every subject and at every moment, the message
\* that stands among those processed so far: the newest DELETE (REVOKE) if
\* there is one, else the newest; duplicates and invalid messages count for
\* nothing (handleMessage and processMessage, step by step, against the
\* definition over the set).
ResultsStand == Once => \A s \in Query : results[s] = StatusOf(Kind, Counted, s)

\* The CREATE messages about s that are accepted: before any DELETE.
Creations(counted, s) ==
  {e \in About(counted, s) :
     e.body.op = "CREATE" /\ \A f \in Closing(Kind, counted, s) : e.ts < f.ts}

\* The `created` time of the DID message held is never lost nor made up, however
\* many updates and deletes came after it: it is the time of a CREATE message
\* that counts, hence of the only one if there is one, and null if there is none
\* (processMessage copies it from message to message).
CreatedOfCreation ==
  Once =>
    \A s \in Query :
      LET times == {e.ts : e \in Creations(Counted, s)}
      IN IF times = {} THEN created[s] = 0 ELSE created[s] \in times

\* "It is equal to consensus timestamp of the first creation message."
CreatedIsFirstCreate ==
  Once => \A s \in Query : \A e \in Creations(Counted, s) : created[s] <= e.ts

\* A resolver that is used once implements the registry of the messages it was
\* delivered.
SingleUse == \A c, d \in Calls : c = d
Reg == INSTANCE Registry WITH counted <- Counted, status <- results
ImplementsRegistry == Reg!Spec

\* Once execute() runs, the resolver hands its results over, even if the mirror
\* node goes silent or the stream breaks (waitOrFinish, rescheduling).
Answers == \A c \in Calls : phase[c] = "created" ~> handed[c] # Null

\* After that it leaves no subscription open and no executor running, unless
\* the results handler throws.
Releases ==
  \A c \in Calls :
    phase[c] = "created" ~>
      \/ phase[c] = "failed"
      \/ c \notin open /\ inHand[c] = Null /\ executor = "shutdown"

(***************************************************************************)
(* What is left when execute() is called again on the same object.         *)
(***************************************************************************)

\* Every entry is a valid message about its subject, that was in the topic
\* when one of the calls was made, whichever stream delivered it and however
\* the streams overtook each other.
EntriesGenuine ==
  \A s \in Query : results[s] # Null =>
    /\ results[s].body.subject = s
    /\ results[s].body.valid
    /\ \E c \in Calls : \E i \in 1..endTime[c] : results[s] = topic[i]

\* Every call ends: with an answer, or with the RejectedExecutionException
\* of an executor that an earlier call has shut down.
EveryCallEnds ==
  \A c \in Calls : phase[c] = "created" ~> phase[c] \in {"done", "failed", "rejected"}

\* A call is rejected only after another one answered and shut the executor.
RejectedAfterAnswer ==
  \A c \in Calls : phase[c] = "rejected" =>
    \E d \in Calls \ {c} : phase[d] = "done" /\ handed[d] # Null
=============================================================================
