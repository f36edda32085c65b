# A formal model of the DID SDK

This directory holds a TLA+ model of the Java SDK for decentralised identifiers
(DIDs) and verifiable credentials (VCs) on the Hedera Consensus Service, and of
the example appnet server that is built with it: modules, TLC configurations,
and theorems that TLAPS checks.  Paths are relative to the repository; the
packages are `src/main/java/com/hedera/hashgraph/identity` (the SDK) and
`examples/appnet-api-server/.../example/appnet` (the server).
`PROJECT.json` lists the components, the runs, the lines that each definition
models, the hazards of the code and the theorems.

## 1. The system

A DID or a credential has no record anywhere.  Its state is what follows from
the signed messages about it in a public, append-only *topic*, which are put in
*consensus order* by the network.  A writer submits a message; whoever wants the
state reads the topic from a *mirror node*, which streams it, perhaps with
pauses, and perhaps not to the end.

```
 owner ──▶ MessageTransaction ──submit──▶  topic (consensus order)
               ▲      │ listener               │  mirror node: streams
               │      ▼                        ▼
           confirmed / error          MessageListener ── handleResponse
                                         │            │
                                 MessageResolver   AppnetServer + AppnetStorage
                                 (one answer)      (a server's lasting copy)
```

### Components

| Component | State it keeps | Operations | Talks to | What makes it correct |
|---|---|---|---|---|
| `MessageResolver`, `HcsDidResolver`, `HcsVcStatusResolver` | result map, signatures met, time of last arrival, listener, executor | `execute`, `handleMessage`, `processMessage`, `waitOrFinish` | listener callbacks on one thread, its finish task on another, the results handler of the caller | holds what stands among the messages read; answers, completely if the mirror node is prompt; releases what it opened |
| `MessageListener`, `HcsDidTopicListener`, `HcsVcTopicListener` | subscription handle, filters, handlers | `subscribe`, `unsubscribe`, `handleResponse` | mirror node; receiver, handler of invalid messages | only valid messages reach the receiver |
| `Message`, `HcsDidMessage`, `HcsVcMessage` | content, sender's clock, `created`, `updated` | `isValid`, encrypter, decrypter | envelope | created time follows the topic |
| `MessageEnvelope` | mode, message, signature, consensus response | `sign`, `encrypt`, `open`, `isSignatureValid` | transaction, listener | what is built, encrypted and signed opens and verifies |
| `MessageTransaction`, `HcsDidTransaction`, `HcsVcTransaction` | envelope provided, `executed`, `listener`, handlers | `execute`, `handleError`, `validate` | network node, listener callbacks | what the caller is told is true; no silent repetition |
| `AppnetStorage`, `AppnetStorageProperties` | maps of DIDs and statuses, counters, signatures, issuers; four files | `storeDid`, `storeVcStatus`, `registerCredentialIssuance`, four `persist` methods, load | threads of both topics, request threads, file system | survives crashes without undoing or repeating anything |
| `AppnetServer` | listeners, storage | `startUp`, `shutDown`, restart of a listener | storage, mirror node | resumes where it stopped, goes on listening |
| REST handlers | none | prepare, submit, resolve, demo issuance | storage, transactions | a verifier is told the status that the issuer gave |
| `HcsVcDocumentBase`, the JSON adapters, `DrivingLicenseDocument` | values | to and from JSON, `isComplete`, `toCredentialHash` | handlers | one credential, one hash, in whatever form its JSON comes |
| `HcsIdentityNetworkBuilder`, `HcsIdentityNetwork`, `AddressBook` | ids of topics and file | `execute`, `addAppnetDidServer`, reload from the file | five network transactions | a failure half-way is visible |
| `HcsDid`, `DidDocumentBase` and the other data classes | values | parse, build | | parse and build are inverse |

### What is hard

* **Threads with no lock.**  The callbacks of a subscription, the finish task
  and the caller share a resolver's map; two topic threads and the request
  threads share the storage, in plain `HashMap`s and a `HashSet`.
* **Time.**  A resolution ends when nothing has arrived for a while, and what
  arrives races the task that notices it.
* **Order.**  Duplicates, updates after a deletion, several creations; a
  confirmation before the answer to the submission.
* **Failure.**  A stream that ends without a word, handlers that throw,
  submissions that time out though they succeeded, half-written files, crashes
  between the writes of files that belong together.
* **Legal calls in odd orders.**  A resolver or a transaction executed again, an
  envelope that was already signed or encrypted.

`PROJECT.json` lists these as hazards, each at its line, with the properties
that would catch it going wrong.

## 2. The modules

| Module | What it is |
|---|---|
| `IdentityMessages` | messages, envelopes, the rule of which message stands, and the test of the code for an outdated one |
| `IdentityMessagesProofs` | lemmas about the message that stands, which the refinements of `Registry` and `DurableRegistry` share |
| `Registry` | abstract: a registry that counts messages in consensus order |
| `MessageResolver` | a resolver, of either kind, executed once or several times |
| `PromptMirror` | the resolver with a history of how prompt the mirror node was |
| `MessageResolverProofs` | theorems about `MessageResolver` and `PromptMirror` |
| `DurableRegistry` | abstract: a `Registry` that saves, crashes and recovers |
| `AppnetStorage` | the storage with its files, threads and crashes, and the server that boots it |
| `AppnetStorageProofs` | theorems about `AppnetStorage` |
| `MessageEnvelope` | the life of an envelope, as operators |
| `MessageTransaction` | submission with its listener, composed with `MessageEnvelope` |
| `MessageTransactionProofs` | theorems about `MessageTransaction` and envelopes |
| `HcsDid` | DID objects and strings, DID documents, and which DID messages are accepted, as operators |
| `HcsDidProofs` | the theorem about them |
| `IdentityNetwork` | the builder of identity networks, their address books, and how a DID leads to its network |
| `IdentityNetworkProofs` | theorems about `IdentityNetwork`, and about the ways of writing a DID |
| `VcDocument` | credential documents, their JSON in all its forms, and the credential hash, as operators |
| `VcDocumentProofs` | theorems about them |
| `Appnet` | the life of a credential at a server: requests, submission, listener, storage, verifier |
| `AppnetProofs` | theorems about `Appnet` |
| `MC...` | small instances for TLC |

A definition under the word *Variant* is a slip that the definition after it
could have.  It is not part of the model: putting it in the place of that
definition makes one of the properties fail, which shows that the property says
something about that code.

### IdentityMessages and Registry

A message body has a subject (a DID or a credential hash), an operation, the
sender's clock (`stamp`) and whether a listener finds it valid.  Ed25519 is
deterministic and the clock is in the signed bytes, so that equal signatures
mean equal bodies: the body stands for its signature.  An envelope is a body
with its consensus time, which is its place in the topic.

`StatusOf` defines what stands among a set of messages: the newest DELETE
(REVOKE) if there is one, else the newest message.  `DidOutdated` and
`VcOutdated` are the incremental tests of `processMessage`; that the tests, one
message at a time, arrive at `StatusOf` is what the invariants and the
refinement are about.  `Registry` is the contract: each step counts one more
message, of a new signature and newer than all before, and the answer for every
subject is what stands among the counted ones.

### MessageResolver

Variables are the fields of the object, the state of each call (`phase`,
`delay`), its subscription (`open`, `endTime`, `cursor`) and a history of what
the handler was given.  `execute` is three actions (`Execute`: a new listener
and an empty set of signatures; `Subscribe`; `BeginWait`), as the stream starts
to deliver between them.  `waitOrFinish` is `WaitOrFinish` with `HandResults`,
`Unsubscribe` and `StopExecutor` after it, because the stream delivers between
any two of these lines.  `handleResponse`, `handleMessage` and `processMessage`
are `ReceiveInvalid`, `ReceiveIgnored` and `ReceiveCounted`, the last up to the
decision, with `Put` for the write to the map: two streams of a reused resolver
interleave between the two.

Time is relative and saturates at the timeout, so that the state space is finite
without a bound on time.  A stream that breaks, and an exception in a callback
(which ends the stream), are `StreamEnds`.  A results handler that throws is the
phase `failed`.

### PromptMirror

The wait for new messages makes sense only if the mirror node is not slower
than the timeout.  `PromptMirror` adds a history variable, `gap`: how long a valid
message has been owed since the last one was delivered, which stays at the timeout
once it got there.  It restrains nobody, so the module has every behaviour of
`MessageResolver`.  As long as `gap` is below the timeout, the answer is that of the
whole topic at the time of the call (`AnswerComplete`).  Messages that the listener
rejects never reach the resolver and do not put off the end of its wait, so it is
with the *valid* ones that the mirror node has to be prompt.

### AppnetStorage and DurableRegistry

The maps, counters, signatures and issuers in memory; the four files, each
either readable or *torn*; one thread per topic that runs `storeDid` or
`storeVcStatus`, and one that registers an issuer.  The steps of a thread are
`Ignore` (a duplicate), or `Accept`, `Mark` (the signature is in memory and its
file is opened), `SaveSignatures`, then `Drop` (outdated) or `Put`, and
`SaveMap` if the interval is reached.  A write overwrites the file in place,
and from its beginning to its end the file is torn; an `IOException`
(`DiskFails`) leaves it so, and is logged.  `Crash` keeps the files and loses
the rest; `Boot` loads the files, or refuses if one cannot be read, and
listens from the resume times.  When the writes of the two topic threads to the
file of signatures overlap, the file may hold either set, or be torn, and the
thread may meet a `ConcurrentModificationException` (`AbortMark`).

`DurableRegistry` is the contract: a registry that saves now and then, is back
at what it saved after a crash, and answers for nothing when the crash came
while it was overwriting its only copy.

### MessageEnvelope and MessageTransaction

A message is known by when its object was built and by how many layers of
encryption are around its attributes; a signature is the key and the message it
was made for.  So re-encrypting gives another message, the old signature does
not fit it, and decrypting too often or too seldom gives something unreadable.

A transaction is set up in one of `Settings` (envelope provided or not, key,
encrypter and decrypter, receiver, error handler).  `Execute` validates, makes
the envelope (in place, if one was provided) and opens a listener that starts a
second in the past, hence at some earlier place of the topic.  The handle of
the subscription is assigned by `Subscribed`, and until then `unsubscribe` does
nothing.  The answer of the node (`SubmitReturns`, `PrecheckFails`, `TimesOut`)
and the listener's callbacks (`ReceiveOther`, `Confirm`, `Report`) come in any
order; a time-out says nothing about the fate of the message.  All tries share
the field `listener`, so a callback of an earlier one closes the listener of the
latest.  Others may submit the very same bytes.

### HcsDid and IdentityNetwork

A DID string is kept as the parts that its separators cut it into, so that
`buildDid`, `extractParameters` and `fromString` are modelled by what they do:
parameters in any order, of other networks, without a value, or twice.  The
id-string is the hash of the root key and stands for it.  `isValid` is the list of
comparisons of `HcsDidMessage.isValid`, each of which keeps out something.

`IdentityNetwork` has one ledger that numbers topics and files in the order of
creation.  `HcsIdentityNetworkBuilder.execute` is `CreateDidTopic`,
`CreateVcTopic` and `CreateFile`, and each may end in an exception with the entity
created or not (`Fails`), after which the builder can be used again or replaced
(`NewBuilder`).  The address book keeps the builder's own list of servers, which is
why a network has the mark `shared`: `addAppnetDidServer` on the same builder
changes the book of a network that exists.  `generateDid`, `fromAddressBookFile`
and `fromHcsDid` are the rest of the life of a network.

### VcDocument and Appnet

`VcDocument` has the object and its JSON.  A JSON value carries the *form* in which
it is written: an issuer is a string or an object with a name, a date is in UTC,
with an offset, local, or no text at all, subjects are an array or a single one.
`Write...` and `Read...` are the adapters of the SDK; `fromJson` throws (`Readable`)
where `Instant.from` does, a local date-time included.  The hash is of the object,
and a verifier has only JSON.

`Appnet` composes these with the server.  A request thread makes a credential
(`generateDrivingLicense`), puts the issuer's key in the map (`PutIssuer`), copies
the map to write it (`CopyIssuers`, or `FailToCopy` with a
`ConcurrentModificationException`), writes the copy and hands the document out
(`Respond`).  An `IOException` is logged and nothing more: the file may not be opened
(`FailToOpen`), or the write may fail and leave the old file, the new one or a torn
one (`Respond`), and the client gets the document all the same.  `unsaved` says, as a
history, that the latest write ended so.
`Enter` keeps for every thread whether another one was in the same part with it:
two `put`s of a `HashMap` at the same time may lose entries, a copy may miss
some, and two writers may spoil the file.  Whoever has a document can submit a
message about its hash (`submitVcMessage`), signed by anybody, and again; the server
does not check it, and the answer to the client decides nothing.  The listener
takes it through `Reject`, `IgnoreDuplicate`, `IgnoreOutdated` or `PutStatus`, and
`resolveVcStatus` is what a verifier is answered.

## 3. The runs

| Run | Asks | Bounds |
|---|---|---|
| `DidResolver` | Does a DID resolver used once hold what stands, with the right created time, implement `Registry`, answer and release, and is its answer complete when the mirror node is prompt? | three messages out of seven bodies (two CREATE, two DELETE, an UPDATE, an invalid one, one about another DID), timeout 3 |
| `ResolverReuse` | Does a status resolver hold what stands until it is called again, and what survives two calls? | two calls, two messages out of three bodies (ISSUE, REVOKE, an invalid one), timeout 1 |
| `DidStorage` | Does the storage implement `DurableRegistry`; does it skip, lose or repeat; does every message take effect? | two DIDs, three messages, save interval 2, two crashes |
| `BothStorage` | Is a DELETE or REVOKE that was saved ever undone? | both topics, two and one messages, one registration, failing writes, one crash |
| `Transaction` | Is what the caller is told true, and does it hear? | every setting with a plain envelope, two calls, two messages in the topic |
| `IdentityNetwork` | Do address books stay apart and complete, does a DID lead home, and who can publish for it? | six entities (two networks, or one and the remains of failures), two keys, two servers, two DIDs in three ways of writing |
| `Appnet` | Does a verifier, with any JSON of a credential, find the status that its issuer gave it, whatever other requests, issuers and repetitions there are? | two request threads, two credentials that differ in the id and the key, three messages (ISSUE, SUSPEND, REVOKE) by the owner of one key about either credential; any write of the file of issuers may fail |
| `StorageRecovery` | finding 1 below | two messages, save interval 2, one crash |
| `VcResume` | finding 2 | three messages, one crash |
| `EncryptedEnvelope` | finding 3 | one call |
| `ListenerRestart` | finding 4 | no crash |
| `CreatedTime` | finding 5 | two messages, timeout 2 |

*Why the bounds are enough to be of interest.*  Three messages allow for a
CREATE, a DELETE and something after it; two bodies of a kind tell a second
CREATE from a duplicate; a timeout of three lets a message arrive in the middle
of a wait, so that the task must be scheduled again for what is left, and lets the
mirror node be slow and still prompt.  Two calls
are what it takes for streams, tasks and the overwritten fields to meet.  A save
interval of two has states with unsaved messages, and two crashes let a replayed
message be lost again.  Two tries and two messages let the first message come
back during the second try.  Six entities are two whole networks, or one with
three left-overs of failed tries before it.  Two threads are what it takes to
disturb a map; two credentials of one issuer, type and moment are the case in
which the hash has only the id to go by, and the owner of one key may meddle
with the credential of the other; three messages let an ISSUE be sent again after a
SUSPEND.  For safety the bounds do not matter: every invariant, action property and
refinement that one of the first seven runs checks is also proved, for all values of
the constants that satisfy the hypotheses named in section 5.

### What they show

A resolver used once is right about what it read, for either kind, and it always
answers, with the state of the whole topic if the mirror node was prompt with valid
messages.  It releases its subscription and executor unless the results handler
throws.  Used twice, it keeps genuine entries only, and every call
ends, but one that is still waiting when another one has finished is rejected.
The storage, with one topic, implements its contract over any sequence of
crashes; with two, and failing writes, a saved deletion stays.  A transaction
never confirms or reports wrongly in plain mode, nor with an encrypter of its
own, and never repeats a message without the caller having been told of a
failure.  Whatever transactions of the builder failed, an address book in the
ledger names two topics of its own; the string of a DID leads to the network that
generated it, whose listeners accept its owner's messages and nobody else's.
While a server is up and subscribed, every new DID message comes to be what
clients are answered, or a later one does.  A status that the server holds was
signed with the key of the credential's own request, even when threads disturb
the map of issuers.  As long as they do not, a verifier finds the status that
stands among all the rightful issuer's messages, with any JSON that can be read:
the registration comes before the document is handed out, so no message of the
issuer is too early.  The file of issuers is another matter: a failed write is only
logged, so documents are out whose registration a restart would lose, until a later
request's write succeeds and saves them all.

### Findings

1. `StorageRecovery`: signatures are saved before the map they belong to.  After
   a crash the replayed messages are taken for duplicates, and the server never
   catches up with the topic.
2. `VcResume`: the credential topic is resumed at the *sender's* clock, so that a
   restarted server can skip messages.
3. `EncryptedEnvelope`: a signed envelope in encrypted mode cannot be submitted
   with a receiver: a decrypter is accepted only with an encrypter, which would
   encrypt again, and without one the own message is reported invalid.
4. `ListenerRestart`: the server's error handler, and the one in the user guides,
   restarts a listener that lost its stream, but `subscribe` gives the handler to
   nobody who sees the loss.
5. `CreatedTime`: `HcsDidMessage.java:37-38` says that the created time of a DID is
   that of its first CREATE message.  A second one that is not outdated moves it, in
   the resolver and in the storage.  What does hold is `CreatedOfCreation`: it is the
   time of a CREATE that counts.

## 4. Fairness

Liveness is stated under weak fairness of what the process itself does:

* `MessageResolver`: the calling thread goes on from the listener to the
  subscription and to the wait, the executor runs tasks that are due, a callback
  that started ends, and the clock ticks.  Nothing is assumed of the mirror
  node: `Answers`, `Releases` and `EveryCallEnds` hold when it stays silent.
  Repeated scheduling does not need strong fairness, since only finitely many
  messages can arrive and put the task off.
* `MessageTransaction`: the calling thread goes on (a submission returns, is
  refused or times out, by the client's own deadline), and a stream that is alive
  delivers what is in the topic.  The network need not accept or order anything;
  `Heard` begins with a message that is in the topic.

* `AppnetStorage`: the thread of each subscription that is alive goes on, so that
  it gets what is in the topic and finishes what it does.  `TakesEffect` is about a
  server that stays up and keeps its stream; nobody need start it again.
* `Appnet`: a message that is there is handled while the stream lives
  (`HandleResponse`).  No request need be made or finish; `Effective` does not need
  it, as a document is handed out only after its registration.

There is no fairness on submitting, on streams ending, on calling `execute`, on
requests, on crashes and boots, or in `IdentityNetwork`, which states safety only.

## 5. What is proved

`MessageResolverProofs`, for every kind, query, set of bodies, topic length,
timeout and set of calls:

* `TypeCorrect`: the type invariant, for any number of calls.
* `ResultsCorrect`: until `execute` is called again, a resolver holds what stands
  (`ResultsStand`).
* `CreatedCorrect`: until then, its created time is that of a CREATE that counts
  (`CreatedOfCreation`).
* `Refinement`: a resolver used once implements `Registry`, with the processed messages as
  `counted` and the result map as `status`.
* `GenuineCorrect` and `RejectedCorrect`: what is left when `execute` is called
  several times on one resolver (`EntriesGenuine`, `RejectedAfterAnswer`).
* `AnswerCorrect`: a resolver used once gives a complete answer as long as the mirror
  node was prompt (`AnswerComplete`), with invalid traffic and any timeout.

The assumption is `ResolverAssumption`, which says no more than the types of the
constants, and that `Null` is not an envelope, a map of results or a call.
`ResultsStand` and `CreatedOfCreation` say themselves that no second call has been
made (`Once`); `Refinement` and `AnswerCorrect` need `SingleUse`, that there is at most
one.  After a second call they are false, as streams share the map.  The invariant
has what depends on it under `Only(c)`, that no call but c was made, and
`NewOnlyBegins` and `OnlyBefore` show that it held before if it holds after a step.

`ResultsStand` alone is not inductive: it speaks of messages that are delivered
and not in hand, and a step must know what is in hand and why it was kept.  The
invariant `IInv` adds: `CursorOK` (no stream runs past its end, nor its end past
the topic) and `NewAtZero`, without which a subscription would not start at
nothing; `TopicTimes` (the consensus time is the place in the topic, so that a
message delivered is newer than all processed); `SignaturesOK` (the signatures
met are exactly those of the counted messages, so "not met before" is "first of
its signature"); `InHandOK` (what is in hand is the last message delivered, it
is not outdated, and the created time computed for it is right); `EntriesStand`
(the entries in the form that the step needs: newest of the closing messages or
newest of all).  The key lemmas are `StandsExtend` (in `IdentityMessagesProofs`,
as the other proofs use it too) and `CreatedExtend`: one newer message changes what
stands exactly as `DidOutdated` / `VcOutdated` say.
`PutCounts` and `DropCounts` then show that the step where a message becomes
processed is a `Count` of the abstract registry; all others stutter.

For several calls, `HandsGenuine` says of what a stream has in hand what
`EntriesGenuine` says of the map, as the check and the `put` are two steps.
`ExecutorOK` says that a call that was rejected met an executor that another call
shut, which it does after it has answered.

`AnswerCorrect` is about `PromptSpec`.  `PromptInv` relates the two clocks: as long as
`gap` is below the timeout, a call that waits and is still owed a valid message has not
been quiet for longer than `gap` (`ProgressOK`), so its finish task cannot find the
timeout passed.  `OwesStays` says that messages submitted later change nothing of what is owed.
Once a call is past the wait nothing is owed to it, hence nothing that counts is
missing (`NothingOwed`), and what it hands over is what stands among the processed
messages by `ResultsCorrect`, that is among all.

`HcsDidProofs`: `RoundTrip` says that `fromString` after `buildDid` gives the DID
object again, for every network label, key, file and topic.  It rests on
`FidGiven` and `TidGiven`: in the string that was built, the parser finds each
parameter at one place.  It assumes `DidAssumption` (types) and that the id-string
is not too short, which the hash of a key never is.

`IdentityNetworkProofs`, for any number of builders, networks, servers and DIDs, and
transactions that fail anywhere:

* `TypeCorrect`: the type invariant.
* `BooksCorrect`: no two address books share a topic (`BooksApart`).  A step that
  makes a file must know what the builder has half-way: `PendingOK` (its topics are
  topics of the ledger, and two) and `PendingFree` (no book has them).
* `ServersCorrect`: a network's book goes on saying what its file says
  (`NoServerLost`).  The network may share its list with the builder, and then the
  invariant is about the builder's list (`Faithful`).
* `HomeCorrect`, `HomeAccepts`, `OwnersCorrect`: a DID leads home, its owner's
  messages are accepted there, and nobody else's are accepted anywhere.  They follow
  from `DidsHome`, by which every DID has the file and topics of its network, and
  from lemmas about its string: `RoundTrip`, `ReorderedParsed` and `PaddedParsed`
  (`FormsParsed`).  `OwnersCorrect` quantifies over every document and signer.

`NetworkAssumption` has types, that the two networks have two names, and that a list
of servers is not `Null`; `NoDid` that `Null` is not a DID.

`VcDocumentProofs`: `HashIdentifies` says that two JSON documents that can be read
have the same hash exactly if they agree on id, types, issuer and instant, in
whatever form.  `HashSurvivesJson`: the hash that the server registers (of its
object) is the one that clients get for the JSON, plain or normalized.
`CompleteSurvivesJson`: completeness survives the way through JSON.  There is no
assumption save the shape of a document.

`AppnetProofs`, for every set of requests, threads, keys and statements and any
number of messages:

* `TypeCorrect`: the type invariant of the server with its clients.
* `IssuerCorrect`: a status that is held was signed with the key of the request
  that made its credential (`StatusOfIssuer`), whatever overlapping requests do to
  the map of issuers.
* `Refinement`: the statuses implement `Registry`, with the messages that passed the
  checks as `counted`.

* `RegistrationsCorrect`: without overlapping requests, a write of the file of issuers
  that succeeds leaves in it the registration of every document that was handed out,
  however many writes failed before (`RegistrationsSaved`).
* `TruthCorrect`: unless two uses of the map of issuers overlapped, a verifier finds
  the status that the issuer gave (`VerifierFindsTruth`).

The assumptions are `AppnetAssumption` (types, and that no id is drawn twice) and
`NullAssumption` (`Null` is no envelope, no map of issuers and no answer).
`StatusOfIssuer` alone says nothing about where the key came from that
the listener compares.  `OwnInv` follows it: the task of a request thread
(`TasksOwn`), each entry of the map (`IssuersOwn`: a spoilt map may lack entries, but
`PutMaps` shows that none gets another's key), the documents handed out
(`IssuedOwn`), the messages (`TopicKnown`: each is about a document that was handed
out) and the statuses (`HeldOwn`).  At the end the status and the document have one
hash, hence one id (`OneOwner`, by `HashSurvivesJson`), hence one request and key.
For the refinement `RegInv` says that the signatures met are those of what counted,
all of it older than the next message, and that what is held stands; `RegCount`
extends it by `StandsExtend`.

The histories of the threads say only that something overlapped.  `Sequential` turns
that into a statement about the threads: if nothing has overlapped, one at most is at
work.  Then the map has every registration (`Registered`), and what a thread writes is
the map (`CopyIsMap`), hence so is the file after a write that succeeds.  `VerifierFindsTruth` needs `TruthInv`:
of the messages that were delivered about a document, those of its issuer are the
ones that counted (`CountedRight`, `MetAll`), because the document was registered
before it was handed out, so that none was rejected.  The form in which the document
is shown does not matter, by `HashIdentifies`.

`MessageTransactionProofs`, for every set of settings and any number of calls and
messages:

* `TypeCorrect`: the type invariant; in particular a call that passes `validate` has
  a signed envelope to submit.
* `ConfirmationsCorrect`: the receiver is called for what is in the topic and valid
  (`ConfirmationsTrue`).
* `RepeatsCorrect`: nothing is submitted again unless the caller was told of a failure
  (`RepeatedOnlyIfToldFailed`).
* `ErrorsCorrect` and `SubmittedCorrect`: an error is not reported for nothing
  (`ErrorsTrue`), and what is submitted is valid (`SubmittedValid`), if the envelopes
  that were provided are plain (`PlainEnvelopes`).  With an encrypted one `ErrorsTrue`
  is false, which is finding 3.

All rest on `CallInv`: a try that was not made has left no trace, one that was made has
its message, nobody receives more than there is, and the field `executed` is set when a
call returns and at no other time.  `RepeatsTold` adds when the caller has been told of
the *current* try; `FailedDeserved` that an error of a valid message comes from a
submission that failed; `MadeValid` that what each try made is valid, from what has
become of the provided envelope (`MessageIs`).  `EnvelopeAssumption` says that a
signature is not one of the two values that stand for none, `TransactionAssumption` the
types of the constants.

`AppnetStorageProofs`, for any traffic, number of subjects, interval and number of
crashes (`StorageAssumption`: types, and `Null` is no envelope and no entry).  Each
theorem is stated with the traffic and failures it can bear, and TLC finds
counterexamples to it with more than that:

| Theorem | Property | Topics | Failing writes |
|---|---|---|---|
| `TypeCorrect` | `TypeOK` | both | yes |
| `FinalCorrect` | `FinalOnceSaved` | both | yes |
| `DidNoneSkipped` | `NoneSkipped`, of the DID topic | both | yes |
| `SkippedCorrect` | `NoneSkipped` | DID only; false with the other (finding 2) | yes |
| `LossCorrect` | `LossBounded`, with intervals of at least 1 | both | no: a write that fails leaves the map unsaved |
| `AppliedCorrect` | `AppliedOnce` | either one: with both, racing writes of the set of signatures lose entries | no: a signature may not reach its file |
| `Refinement` | `ImplementsDurableRegistry` | DID only, for the same reason | no |

* `TypeInv` adds to `TypeOK` that a thread that is at work has a message in hand, in a
  server that is up.
* `ClosedHeld`: what is closed in the file is closed in memory, so a later save cannot
  undo it; `Outdated` lets nothing through but another DELETE or REVOKE.
* `SeenOK`: the resume time in the file is that of a message up to which the listener
  was given everything, and so is the one that is about to be written.
* `LossOK`: the entries in which memory and file differ are finitely many and at most
  `count`; one `Put` adds one of each.
* `AloneOK` and `SignaturesOK`: with one topic no two writes of the signatures overlap,
  so every message that was applied has its signature in the *file* before it is in
  memory, and none is applied again after a crash.
* `OrderOK` and `StandsOK`: the message in hand is newer than all that counted, what is
  in the file is no newer than its resume time, and memory and file each hold what
  stands among the messages that they counted.  With `SignaturesOK` they make `DidInv`.
  From it `Put` is a `Count` of the abstract registry, by `StandsExtend`, the write that
  follows ends in its `EndSave`, and `Crash` and `Boot` are its `Crash` and `Recover`.

With these, every invariant, action property and refinement that a passing run checks
is proved.  Only model-checked are the liveness properties `Answers`, `Releases`,
`EveryCallEnds`, `Heard`, `TakesEffect` and `Effective`, as liveness and `ENABLED` are
out of the prover's reach, and the five violations, which are counterexamples.  What
the hypotheses above exclude is false, and there is no theorem about it.  The theorems
about the `Durable` and `Registry` refinements are about safety; the abstract
specifications have no fairness.

## 6. What is abstracted or left out

* A listener's verdict on a message is one bit of its body, save for the VC
  topic of the storage, where it depends on the registered issuers.  In
  `MessageEnvelope` it is made of layers and signature.
* `AnswerComplete` measures promptness between valid messages.  Those that the
  listener rejects do not count as arrivals in the code: a mirror node that sends
  nothing but such messages for the timeout is not prompt in the sense of the
  property, and the documentation does not say whether it should be.
* `AppliedOnce` is checked without traffic in the other topic: the unlocked set
  of signatures may lose an entry.  `BothStorage` checks what remains.
* The results handler of a resolver gets the live map and the subscription is
  closed after it, so the map may still change, to what stands then.  This is in the
  model, and no property forbids it.
* Two streams of a reused resolver may overwrite each other's entries, a results
  handler that throws leaves the subscription open, and callbacks of an earlier try of
  a transaction close the listener of the later one.  All of that is in the models;
  no document promises otherwise, and no property forbids it.
* `contains` and `add` on a resolver's set of signatures are one step.
* In `AppnetStorage` registrations come one at a time, and in `Appnet` they
  overlap.  In return a message is stored in one step in `Appnet`, the DID topic
  has no traffic, and there are no crashes.  The writes of the file of issuers fail in
  both; `Appnet` has no file of signatures or statuses that could.
* Files are opened without truncation, so a short write leaves the tail of a longer
  one behind; a reader stops at the end of the object, and the model has no tails.
  A file counts as torn from its opening to the end of the write.
* A verifier is answered between two steps of the listener: that a lookup in a
  `HashMap` may miss an entry during a put is modelled for the issuers, which the
  listener looks up, and not for the statuses.
* The order of the types of a credential is part of its hash; JSON that lists them
  in another order is another credential.
* The server's error handler restarts a listener, but no error of a stream ever
  reaches it (`MessageListener` does not hand it to the query), so in the model
  a stream that ended stays ended until the next boot.
* A transaction's fee and its custom builder are not told apart from the
  default, except that `validate` is taken to be satisfied about them.
* All clients use one ledger.  `fromHcsDid` takes the client it is given, whatever
  network the DID names.
* A DID document has one public key entry, and DIDs have their root key; the
  setters of `AddressBook`, which nothing calls, are left out.
* The requests about DID messages are like those about statuses, and only what
  they do to the topic and what is resolved is in the model (`resolveDid`).

### Not modelled

* The JavaScript under `docs/sdk-javadocs` (jQuery, jQuery UI and the search of
  the API documentation).  It is generated by the javadoc tool or taken from other
  projects, and has no part in what the SDK does; the SDK and the server are Java.
* The proof inside a credential: nothing in the repository verifies it.
* The text of JSON, dates and errors, the fields of a license, the schema file, and
  the classes that hold the body of a request or of an error.
* Reading the environment, the choice of mirror node, and the routes of the server.
* The Hedera client library (`com.hedera.hashgraph.sdk`), which is modelled only by
  what it does to topics, files and subscriptions.

## 7. Plan

Done: `IdentityMessages`, `Registry`, `MessageResolver`, `PromptMirror` with the
proofs; `AppnetStorage` with `DurableRegistry`; `MessageEnvelope` and
`MessageTransaction`; `HcsDid` and `IdentityNetwork`; `VcDocument` and `Appnet` with
proofs.
Every safety property of a passing run is proved.  What remains:

1. Theorems about operators that the runs do not check by themselves: `Open` after
   `Sign` and `Encrypt` (`MessageEnvelope`), a DID string read on another network.
2. The safety cores of the liveness properties: a resolver that waits has a task that
   is due, a message that is in the topic and not passed is still owed.
3. A weaker `AppliedOnce` that holds with both topics: which signatures a race can
   lose.
4. What the server can say of a credential topic that is resumed at the sender's
   clock, if no sender's clock is ahead.
