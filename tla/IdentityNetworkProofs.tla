------------------------ MODULE IdentityNetworkProofs ------------------------
(***************************************************************************)
(* Theorems about IdentityNetwork, for every set of keys and servers, any  *)
(* number of builders, networks and DIDs, and transactions that fail       *)
(* anywhere.                                                               *)
(*                                                                         *)
(* BooksApart needs to know what a builder has half-way: PendingOK says    *)
(* that its topics are there, are two, and are in no address book.  And    *)
(* the properties of DIDs come from DidsHome, that says of each what its   *)
(* network's file says, and from what the parser makes of its string.      *)
(***************************************************************************)
EXTENDS IdentityNetwork, HcsDidProofs, SequenceTheorems

\* The topics that the builder has made so far.
HasDid == place \in {"vcTopic", "file"}
Pending ==
  (IF HasDid THEN {made.did} ELSE {}) \cup (IF place = "file" THEN {made.vc} ELSE {})

IsTopic(id) == id \in 1..Len(ledger) /\ ledger[id].kind = "topic"
TopicsOf(id) == {ledger[id].book.did, ledger[id].book.vc}

PendingOK ==
  /\ \A t \in Pending : IsTopic(t)
  /\ place = "file" => made.did # made.vc
PendingFree == \A a \in 1..Len(ledger) : IsFile(a) => TopicsOf(a) \cap Pending = {}

DidsHome ==
  \A d \in dids :
    /\ d.did.network = Network
    /\ d.did.tid \in {Null, d.home.did}
    /\ IsFile(d.did.fid)
    /\ ledger[d.did.fid].book.did = d.home.did
    /\ ledger[d.did.fid].book.vc = d.home.vc

-----------------------------------------------------------------------------
\* The ledger.

\* What is in the ledger stays there, and a new entity is the last one.
LEMMA Appended ==
  ASSUME TypeOK, NEW entity \in Entity, Created(entity)
  PROVE  /\ ledger' \in Seq(Entity) /\ Len(ledger') <= MaxEntities
         /\ Len(ledger') = NextId /\ ledger'[NextId] = entity
         /\ NextId \in 1..MaxEntities
         /\ \A id \in 1..Len(ledger') : id \in 1..Len(ledger) \/ id = NextId
         /\ \A id \in 1..Len(ledger) : /\ id \in 1..Len(ledger') /\ id < NextId
                                       /\ ledger'[id] = ledger[id]
<1>1. Len(ledger) \in Nat /\ MaxEntities \in Nat /\ Len(ledger) < MaxEntities
  BY NetworkAssumption DEF NetworkAssumption, TypeOK, Created
<1>2. ledger' = Append(ledger, entity) /\ ledger \in Seq(Entity)
  BY DEF Created, TypeOK
<1> QED
  BY <1>1, <1>2 DEF NextId

\* A file is an entity with an address book.
LEMMA FileBook ==
  ASSUME TypeOK, NEW id, IsFile(id)
  PROVE  ledger[id].book \in Book /\ id \in 1..MaxEntities
  BY NetworkAssumption DEF NetworkAssumption, TypeOK, IsFile, Entity

\* A topic is an entity, and so is the file that is to be made.
LEMMA TopicEntity == [kind |-> "topic"] \in Entity
  BY DEF Entity

\* What execute() would write is an address book.
LEMMA FileEntity ==
  ASSUME TypeOK, PendingOK, place = "file"
  PROVE  /\ BookMade \in Book
         /\ [kind |-> "file", book |-> BookMade] \in Entity
<1>1. made.did \in 1..Len(ledger) /\ made.vc \in 1..Len(ledger)
  BY DEF PendingOK, Pending, HasDid, IsTopic
<1>2. Len(ledger) \in Nat /\ Len(ledger) <= MaxEntities /\ MaxEntities \in Nat
  BY NetworkAssumption DEF NetworkAssumption, TypeOK
<1>3. made.did \in 1..MaxEntities /\ made.vc \in 1..MaxEntities /\ servers \in ServerList
  BY <1>1, <1>2 DEF TypeOK
<1>4. BookMade \in Book
  BY <1>3 DEF BookMade, Book
<1> QED
  BY <1>4 DEF Entity

\* What a step does to the ledger.
LEMMA LedgerStep ==
  ASSUME TypeOK, PendingOK, [Next]_vars
  PROVE  ledger' = ledger \/ \E entity \in Entity : Created(entity)
  BY TopicEntity, FileEntity
  DEF Next, addAppnetDidServer, NewBuilder, CreateDidTopic, CreateVcTopic, CreateFile,
      FailsSomewhere, Fails, generateDid, fromAddressBookFile, fromHcsDid, vars

\* Nothing is deleted or overwritten.
LEMMA FilesStay ==
  ASSUME TypeOK, PendingOK, [Next]_vars, NEW id, IsFile(id)
  PROVE  IsFile(id)' /\ ledger'[id] = ledger[id]
  BY LedgerStep, Appended DEF IsFile

-----------------------------------------------------------------------------
\* Types.

\* A network that is handed out has a file in the ledger.
LEMMA NetworkMade ==
  ASSUME TypeOK, PendingOK, CreateFile \/ \E id : fromAddressBookFile(id)
  PROVE  networks' \subseteq IdentityNetwork
<1>1. CASE CreateFile
  <2>1. NextId \in 1..MaxEntities /\ BookMade \in Book
    BY <1>1, FileEntity, Appended DEF CreateFile
  <2>2. (servers # Null) \in BOOLEAN
    OBVIOUS
  <2>3. [file |-> NextId, book |-> BookMade, shared |-> servers # Null] \in IdentityNetwork
    BY <2>1, <2>2 DEF IdentityNetwork
  <2> QED
    BY <1>1, <2>3 DEF CreateFile, TypeOK
<1>2. ASSUME NEW id, fromAddressBookFile(id) PROVE networks' \subseteq IdentityNetwork
  <2>1. ledger[id].book \in Book /\ id \in 1..MaxEntities
    BY <1>2, FileBook DEF fromAddressBookFile
  <2>2. [file |-> id, book |-> ledger[id].book, shared |-> FALSE] \in IdentityNetwork
    BY <2>1 DEF IdentityNetwork
  <2> QED
    BY <1>2, <2>2 DEF fromAddressBookFile, TypeOK
<1> QED
  BY <1>1, <1>2

\* The DID that a network generates is one, and can be told from a short one.
LEMMA DidMade ==
  ASSUME TypeOK, NEW n \in networks, NEW key \in Keys, NEW withTid \in BOOLEAN
  PROVE  /\ GeneratedDid(n, key, withTid) \in Did
         /\ GeneratedDid(n, key, withTid).tid \in {Null, n.book.did}
<1>1. n.file \in Nat /\ n.book.did \in Nat
  BY NetworkAssumption DEF NetworkAssumption, TypeOK, IdentityNetwork, Book
<1>2. Network \in STRING /\ key \in STRING \ TooShort
  BY NetworkAssumption, DidAssumption DEF NetworkAssumption, DidAssumption
<1> QED
  BY <1>1, <1>2 DEF GeneratedDid, Did, publicKeyToIdString

\* A new builder on an empty ledger.
LEMMA InitOK == Init => TypeOK /\ PendingOK
<1> SUFFICES ASSUME Init PROVE TypeOK /\ PendingOK
  OBVIOUS
<1>1. MaxEntities \in Nat
  BY NetworkAssumption DEF NetworkAssumption
<1>2. TypeOK
  BY <1>1 DEF Init, TypeOK, Nowhere, ServerList
<1>3. PendingOK
  BY DEF Init, PendingOK, Pending, HasDid
<1> QED
  BY <1>2, <1>3

\* The address book of a network has the type of one, whoever keeps its list.
LEMMA BookOfTypes ==
  ASSUME TypeOK, NEW n \in networks
  PROVE  BookOf(n) \in Book /\ BookOf(n).did = n.book.did /\ BookOf(n).vc = n.book.vc
<1>1. n.book \in Book /\ servers \in ServerList
  BY DEF TypeOK, IdentityNetwork
<1>2. [n.book EXCEPT !.servers = servers] \in Book
  BY <1>1 DEF Book
<1> QED
  BY <1>1, <1>2 DEF BookOf, Book

\* The topics that a builder has after a step are those that it had before, and
\* perhaps the new one.
LEMMA PendingStep ==
  ASSUME TypeOK, PendingOK, [Next]_vars
  PROVE  /\ \A t \in Pending' : \/ t \in Pending
                                \/ t = NextId /\ Created([kind |-> "topic"])
         /\ place' = "file" => made'.did # made'.vc
         /\ made' \in [did : 0..MaxEntities, vc : 0..MaxEntities]
         /\ place' \in {"idle", "vcTopic", "file"}
<1>1. MaxEntities \in Nat /\ NextId \in Nat
  BY NetworkAssumption DEF NetworkAssumption, TypeOK, NextId
<1>2. CASE CreateDidTopic
  <2>1. NextId \in 1..MaxEntities
    BY <1>2, TopicEntity, Appended DEF CreateDidTopic
  <2>2. made' = [made EXCEPT !.did = NextId] /\ place' = "vcTopic"
    BY <1>2 DEF CreateDidTopic
  <2>3. made'.did = NextId /\ made' \in [did : 0..MaxEntities, vc : 0..MaxEntities]
    BY <2>1, <2>2 DEF TypeOK
  <2>4. Pending' = {NextId}
    BY <2>2, <2>3 DEF Pending, HasDid
  <2> QED
    BY <1>2, <2>2, <2>3, <2>4 DEF CreateDidTopic
<1>3. CASE CreateVcTopic
  <2>1. NextId \in 1..MaxEntities
    BY <1>3, TopicEntity, Appended DEF CreateVcTopic
  <2>2. made' = [made EXCEPT !.vc = NextId] /\ place = "vcTopic" /\ place' = "file"
    BY <1>3 DEF CreateVcTopic
  <2>3. /\ made'.vc = NextId /\ made'.did = made.did
        /\ made' \in [did : 0..MaxEntities, vc : 0..MaxEntities]
    BY <2>1, <2>2 DEF TypeOK
  <2>4. Pending = {made.did} /\ Pending' = {made.did, NextId}
    BY <2>2, <2>3 DEF Pending, HasDid
  <2>5. made.did # NextId
    BY <1>1, <2>4 DEF PendingOK, IsTopic, NextId
  <2> QED
    BY <1>3, <2>2, <2>3, <2>4, <2>5 DEF CreateVcTopic
<1>4. CASE CreateFile \/ FailsSomewhere
  <2>1. place' = "idle" /\ made' = Nowhere
    BY <1>4 DEF CreateFile, FailsSomewhere, Fails
  <2>2. Nowhere \in [did : 0..MaxEntities, vc : 0..MaxEntities]
    BY <1>1 DEF Nowhere
  <2> QED
    BY <2>1, <2>2 DEF Pending, HasDid
<1>5. CASE UNCHANGED <<place, made>>
  BY <1>5 DEF TypeOK, PendingOK, Pending, HasDid
<1> QED
  BY <1>2, <1>3, <1>4, <1>5
  DEF Next, addAppnetDidServer, NewBuilder, generateDid, fromAddressBookFile, fromHcsDid, vars

\* Topics stay topics, and a new one is one.
LEMMA TopicsStay ==
  ASSUME TypeOK, PendingOK, [Next]_vars, NEW t,
         IsTopic(t) \/ (t = NextId /\ Created([kind |-> "topic"]))
  PROVE  IsTopic(t)'
<1>1. CASE IsTopic(t) /\ ledger' = ledger
  BY <1>1 DEF IsTopic
<1>2. ASSUME IsTopic(t), NEW entity \in Entity, Created(entity) PROVE IsTopic(t)'
  BY <1>2, Appended DEF IsTopic
<1>3. CASE t = NextId /\ Created([kind |-> "topic"])
  <2>1. /\ NextId \in 1..MaxEntities /\ Len(ledger') = NextId
        /\ ledger'[NextId] = [kind |-> "topic"]
    BY <1>3, TopicEntity, Appended
  <2>2. MaxEntities \in Nat
    BY NetworkAssumption DEF NetworkAssumption
  <2> QED
    BY <1>3, <2>1, <2>2 DEF IsTopic
<1> QED
  BY <1>1, <1>2, <1>3, LedgerStep

\* Both hold after every step.
LEMMA TypeStep ==
  ASSUME TypeOK, PendingOK, [Next]_vars
  PROVE  TypeOK' /\ PendingOK'
<1>1. ledger' \in Seq(Entity) /\ Len(ledger') <= MaxEntities
  BY LedgerStep, Appended DEF TypeOK
<1>2. servers' \in ServerList
  BY DEF Next, addAppnetDidServer, NewBuilder, CreateDidTopic, CreateVcTopic, CreateFile,
         FailsSomewhere, Fails, generateDid, fromAddressBookFile, fromHcsDid, vars, TypeOK, ServerList
<1>3. networks' \subseteq IdentityNetwork
  <2>1. CASE NewBuilder
    <3>1. networks' = {[n EXCEPT !.shared = FALSE, !.book = BookOf(n)] : n \in networks}
      BY <2>1 DEF NewBuilder
    <3>2. ASSUME NEW n \in networks
          PROVE  [n EXCEPT !.shared = FALSE, !.book = BookOf(n)] \in IdentityNetwork
      BY BookOfTypes DEF TypeOK, IdentityNetwork
    <3> QED
      BY <3>1, <3>2
  <2>2. CASE CreateFile \/ \E id : fromAddressBookFile(id)
    BY <2>2, NetworkMade
  <2>3. CASE networks' = networks
    BY <2>3 DEF TypeOK
  <2> QED
    BY <2>1, <2>2, <2>3
    DEF Next, addAppnetDidServer, CreateDidTopic, CreateVcTopic, FailsSomewhere, Fails,
         generateDid,
        fromHcsDid, vars
<1>4. dids' \subseteq [did : Did, home : Topics, form : Forms]
  <2>1. ASSUME NEW n \in networks, NEW key \in Keys, NEW withTid \in BOOLEAN,
               generateDid(n, key, withTid)
        PROVE  dids' \subseteq [did : Did, home : Topics, form : Forms]
    <3>1. PICK f \in Forms :
            dids' = dids \cup
              {[did |-> GeneratedDid(n, key, withTid), form |-> f,
                home |-> [did |-> n.book.did, vc |-> n.book.vc]]}
      BY <2>1 DEF generateDid
    <3>2. [did |-> n.book.did, vc |-> n.book.vc] \in Topics
      BY DEF TypeOK, IdentityNetwork, Book, Topics
    <3> QED
      BY <3>1, <3>2, DidMade DEF TypeOK
  <2>2. CASE dids' = dids
    BY <2>2 DEF TypeOK
  <2> QED
    BY <2>1, <2>2
    DEF Next, addAppnetDidServer, NewBuilder, CreateDidTopic, CreateVcTopic, CreateFile,
        FailsSomewhere, Fails, fromAddressBookFile, fromHcsDid, vars
<1>5. PendingOK'
  <2>1. ASSUME NEW t \in Pending' PROVE IsTopic(t)'
    <3>1. IsTopic(t) \/ (t = NextId /\ Created([kind |-> "topic"]))
      BY PendingStep DEF PendingOK
    <3> QED
      BY <3>1, TopicsStay
  <2> QED
    BY <2>1, PendingStep DEF PendingOK
<1> QED
  BY <1>1, <1>2, <1>3, <1>4, <1>5, PendingStep DEF TypeOK

(***************************************************************************)
(* The type invariant: in particular every address book names two ids, and *)
(* what a network generates is a DID.                                      *)
(***************************************************************************)
THEOREM TypeCorrect == Spec => []TypeOK
<1>1. Init => TypeOK /\ PendingOK
  BY InitOK
<1>2. TypeOK /\ PendingOK /\ [Next]_vars => TypeOK' /\ PendingOK'
  BY TypeStep
<1> QED
  BY <1>1, <1>2, PTL DEF Spec

\* The same with what the builder has half-way.
LEMMA PendingCorrect == Spec => [](TypeOK /\ PendingOK)
<1>1. Init => TypeOK /\ PendingOK
  BY InitOK
<1>2. TypeOK /\ PendingOK /\ [Next]_vars => TypeOK' /\ PendingOK'
  BY TypeStep
<1> QED
  BY <1>1, <1>2, PTL DEF Spec

-----------------------------------------------------------------------------
\* Address books.

\* A file after a step was one before, or is the one that execute() writes.
LEMMA FileStep ==
  ASSUME TypeOK, PendingOK, [Next]_vars, NEW a, IsFile(a)'
  PROVE  \/ IsFile(a) /\ ledger'[a] = ledger[a]
         \/ /\ a = NextId /\ place = "file" /\ place' = "idle"
            /\ ledger'[a].book = BookMade
            /\ \A id \in 1..Len(ledger) : ledger'[id] = ledger[id]
<1>1. CASE ledger' = ledger
  BY <1>1 DEF IsFile
<1>2. CASE Created([kind |-> "topic"])
  <2>1. ledger'[NextId] = [kind |-> "topic"]
    BY <1>2, TopicEntity, Appended
  <2>2. a # NextId
    BY <2>1 DEF IsFile
  <2>3. a \in 1..Len(ledger) /\ ledger'[a] = ledger[a]
    BY <1>2, <2>2, TopicEntity, Appended DEF IsFile
  <2> QED
    BY <2>3 DEF IsFile
<1>3. CASE /\ place = "file" /\ place' = "idle"
           /\ Created([kind |-> "file", book |-> BookMade])
  <2>1. [kind |-> "file", book |-> BookMade] \in Entity
    BY <1>3, FileEntity
  <2> QED
    BY <1>3, <2>1, Appended DEF IsFile
<1> QED
  BY <1>1, <1>2, <1>3
  DEF Next, addAppnetDidServer, NewBuilder, CreateDidTopic, CreateVcTopic, CreateFile,
      FailsSomewhere, Fails, generateDid, fromAddressBookFile, fromHcsDid, vars

\* The topics of a file are in the ledger before it.
LEMMA TopicsBefore ==
  ASSUME TypeOK, BooksApart, NEW a, IsFile(a)
  PROVE  /\ \A t \in TopicsOf(a) : IsTopic(t) /\ t < a
         /\ a < NextId
<1>1. Len(ledger) \in Nat /\ a \in 1..Len(ledger)
  BY DEF TypeOK, IsFile
<1>2. ledger[a].book.did \in Nat \ {0} /\ ledger[a].book.vc \in Nat \ {0}
  BY FileBook, NetworkAssumption DEF Book, NetworkAssumption
<1>3. \A t \in TopicsOf(a) : t < a /\ ledger[t].kind = "topic"
  BY <1>1 DEF BooksApart, TopicsOf
<1> QED
  BY <1>1, <1>2, <1>3 DEF TopicsOf, IsTopic, NextId

\* While execute() is between its second topic and the file, what the file will
\* name is what it has.
LEMMA NewBookTopics ==
  ASSUME TypeOK, PendingOK, place = "file"
  PROVE  /\ {BookMade.did, BookMade.vc} = Pending
         /\ BookMade.did # BookMade.vc
         /\ \A t \in Pending : IsTopic(t) /\ t < NextId
<1>1. Len(ledger) \in Nat
  BY DEF TypeOK
<1> QED
  BY <1>1 DEF BookMade, Pending, HasDid, PendingOK, IsTopic, NextId

\* Both invariants of address books hold after every step.
LEMMA BooksStep ==
  ASSUME TypeOK, PendingOK, BooksApart, PendingFree, [Next]_vars
  PROVE  BooksApart' /\ PendingFree'
<1>1. Len(ledger) \in Nat /\ Len(ledger') \in Nat
  BY TypeStep DEF TypeOK
<1>2. ASSUME NEW a, IsFile(a)'
      PROVE  /\ \A t \in TopicsOf(a)' : t < a /\ IsTopic(t)'
             /\ ledger'[a].book.did # ledger'[a].book.vc
  <2>1. CASE IsFile(a) /\ ledger'[a] = ledger[a]
    <3>1. \A t \in TopicsOf(a) : IsTopic(t)' /\ t < a
      BY <2>1, TopicsBefore, TopicsStay
    <3>2. ledger[a].book.did # ledger[a].book.vc
      BY <2>1 DEF BooksApart, IsFile
    <3> QED
      BY <2>1, <3>1, <3>2 DEF TopicsOf
  <2>2. CASE a = NextId /\ place = "file" /\ ledger'[a].book = BookMade
    <3>1. TopicsOf(a)' = Pending /\ BookMade.did # BookMade.vc
      BY <2>2, NewBookTopics DEF TopicsOf
    <3>2. \A t \in Pending : IsTopic(t)' /\ t < a
      BY <2>2, NewBookTopics, TopicsStay
    <3> QED
      BY <2>2, <3>1, <3>2
  <2> QED
    BY <1>2, <2>1, <2>2, FileStep
<1>3. ASSUME NEW a, NEW b, IsFile(a)', IsFile(b)', a # b
      PROVE  TopicsOf(a)' \cap TopicsOf(b)' = {}
  <2>1. ASSUME NEW c, IsFile(c), ledger'[c] = ledger[c],
               NEW d, d = NextId, place = "file", ledger'[d].book = BookMade
        PROVE  TopicsOf(c)' \cap TopicsOf(d)' = {}
    <3>1. TopicsOf(d)' = Pending /\ TopicsOf(c)' = TopicsOf(c)
      BY <2>1, NewBookTopics DEF TopicsOf
    <3> QED
      BY <2>1, <3>1 DEF PendingFree, IsFile
  <2>2. CASE /\ IsFile(a) /\ ledger'[a] = ledger[a]
             /\ IsFile(b) /\ ledger'[b] = ledger[b]
    BY <1>3, <2>2 DEF BooksApart, TopicsOf, IsFile
  <2> QED
    BY <1>3, <2>1, <2>2, FileStep
<1>4. BooksApart'
  <2> SUFFICES ASSUME NEW a \in 1..Len(ledger'), IsFile(a)'
               PROVE  /\ \A t \in TopicsOf(a)' : t < a /\ ledger'[t].kind = "topic"
                      /\ ledger'[a].book.did # ledger'[a].book.vc
                      /\ \A b \in 1..Len(ledger') \ {a} : IsFile(b)' =>
                           TopicsOf(a)' \cap TopicsOf(b)' = {}
    BY DEF BooksApart, TopicsOf
  <2>1. \A t \in TopicsOf(a)' : IsTopic(t)' => ledger'[t].kind = "topic"
    BY DEF IsTopic
  <2> QED
    BY <1>2, <1>3, <2>1
<1>5. ASSUME NEW a \in 1..Len(ledger'), IsFile(a)', NEW t \in Pending', t \in TopicsOf(a)'
      PROVE  FALSE
  <2>1. CASE IsFile(a) /\ ledger'[a] = ledger[a]
    <3>1. t \in TopicsOf(a)
      BY <1>5, <2>1 DEF TopicsOf
    <3>2. t # NextId
      BY <1>1, <2>1, <3>1, TopicsBefore DEF IsTopic, NextId
    <3>3. t \in Pending
      BY <3>2, PendingStep
    <3> QED
      BY <2>1, <3>1, <3>3 DEF PendingFree, IsFile
  <2>2. CASE place' = "idle"
    BY <1>5, <2>2 DEF Pending, HasDid
  <2> QED
    BY <1>5, <2>1, <2>2, FileStep
<1>6. PendingFree'
  BY <1>5 DEF PendingFree
<1> QED
  BY <1>4, <1>6

(***************************************************************************)
(* Whatever transactions of the builder failed, and however often it was   *)
(* used: an address book in the ledger names two topics that were there    *)
(* before it, and no two of them share one.                                *)
(***************************************************************************)
THEOREM BooksCorrect == Spec => []BooksApart
<1>1. Init => TypeOK /\ PendingOK /\ BooksApart /\ PendingFree
  BY InitOK DEF Init, BooksApart, PendingFree, IsFile
<1>2. TypeOK /\ PendingOK /\ BooksApart /\ PendingFree /\ [Next]_vars
        => TypeOK' /\ PendingOK' /\ BooksApart' /\ PendingFree'
  BY TypeStep, BooksStep
<1> QED
  BY <1>1, <1>2, PTL DEF Spec

-----------------------------------------------------------------------------
\* Networks and the files that describe them.

\* What NoServerLost says of one network.
Faithful(n) ==
  /\ IsFile(n.file)
  /\ BookOf(n).did = ledger[n.file].book.did
  /\ BookOf(n).vc = ledger[n.file].book.vc
  /\ ledger[n.file].book.servers # Null =>
       /\ BookOf(n).servers # Null
       /\ ledger[n.file].book.servers \subseteq BookOf(n).servers

\* The list of a network that the builder leaves alone stays what it was, and
\* the one that it shares only grows.
LEMMA NetworkStays ==
  ASSUME TypeOK, PendingOK, [Next]_vars, NEW n \in networks, Faithful(n),
         \/ servers' = servers
         \/ \E url \in Servers : servers' = IF servers = Null THEN {url} ELSE servers \cup {url}
  PROVE  Faithful(n)'
<1>1. IsFile(n.file)' /\ ledger'[n.file] = ledger[n.file]
  BY FilesStay DEF Faithful
<1>2. n.book \in Book /\ n.shared \in BOOLEAN /\ servers \in ServerList
  BY DEF TypeOK, IdentityNetwork
<1>3. BookOf(n)'.did = BookOf(n).did /\ BookOf(n)'.vc = BookOf(n).vc
  BY <1>2 DEF BookOf, Book
<1>4. BookOf(n).servers = (IF n.shared THEN servers ELSE n.book.servers)
  BY <1>2 DEF BookOf, Book
<1>5. BookOf(n)'.servers = (IF n.shared THEN servers' ELSE n.book.servers)
  BY <1>2 DEF BookOf, Book
<1>6. servers # Null => servers' # Null /\ servers \subseteq servers'
  BY <1>2, NetworkAssumption DEF NetworkAssumption, ServerList
<1> QED
  BY <1>1, <1>3, <1>4, <1>5, <1>6 DEF Faithful

\* A network that was just made or read has the address book of its file.
LEMMA NetworkFaithful ==
  ASSUME TypeOK, PendingOK, NoServerLost, [Next]_vars, servers' = servers,
         CreateFile \/ (\E id : fromAddressBookFile(id)) \/ networks' = networks,
         NEW n \in networks'
  PROVE  Faithful(n)'
<1>1. CASE n \in networks
  BY <1>1, NetworkStays DEF NoServerLost, Faithful
<1>2. CASE CreateFile /\ n \notin networks
  <2>1. n = [file |-> NextId, book |-> BookMade, shared |-> servers # Null]
    BY <1>2 DEF CreateFile
  <2>2. /\ NextId \in 1..Len(ledger')
        /\ ledger'[NextId] = [kind |-> "file", book |-> BookMade]
    BY <1>2, FileEntity, Appended DEF CreateFile, NextId, TypeOK
  <2>3. BookOf(n)' = BookMade
    BY <2>1 DEF BookOf, BookMade
  <2> QED
    BY <2>1, <2>2, <2>3 DEF Faithful, IsFile
<1>3. ASSUME NEW id, fromAddressBookFile(id), n \notin networks
      PROVE  Faithful(n)'
  BY <1>3 DEF fromAddressBookFile, Faithful, BookOf, IsFile
<1> QED
  BY <1>1, <1>2, <1>3

\* Every step keeps the networks faithful.
LEMMA NetworkStep ==
  ASSUME TypeOK, PendingOK, NoServerLost, [Next]_vars
  PROVE  NoServerLost'
<1> SUFFICES ASSUME NEW n \in networks' PROVE Faithful(n)'
  BY DEF NoServerLost, Faithful
<1>1. CASE NewBuilder
  <2>1. PICK old \in networks : n = [old EXCEPT !.shared = FALSE, !.book = BookOf(old)]
    BY <1>1 DEF NewBuilder
  <2>2. old \in IdentityNetwork /\ Faithful(old) /\ ledger' = ledger
    BY <1>1 DEF TypeOK, NoServerLost, Faithful, NewBuilder
  <2>3. n.file = old.file /\ n.shared = FALSE /\ n.book = BookOf(old)
    BY <2>1, <2>2 DEF IdentityNetwork
  <2>4. BookOf(n)' = BookOf(old)
    BY <2>3 DEF BookOf
  <2> QED
    BY <2>2, <2>3, <2>4 DEF Faithful, IsFile
<1>2. ASSUME NEW url \in Servers, addAppnetDidServer(url) PROVE Faithful(n)'
  BY <1>2, NetworkStays DEF addAppnetDidServer, NoServerLost, Faithful
<1>3. CASE /\ servers' = servers
           /\ CreateFile \/ (\E id : fromAddressBookFile(id)) \/ networks' = networks
  BY <1>3, NetworkFaithful
<1> QED
  BY <1>1, <1>2, <1>3
  DEF Next, CreateDidTopic, CreateVcTopic, CreateFile, FailsSomewhere, Fails, generateDid,
      fromAddressBookFile, fromHcsDid, vars

(***************************************************************************)
(* The address book of a network goes on saying what its file says: the    *)
(* same topics, and every server of the file, whatever the builder that    *)
(* shares the list with it is asked to add.                                *)
(***************************************************************************)
THEOREM ServersCorrect == Spec => []NoServerLost
<1>1. Init => TypeOK /\ PendingOK /\ NoServerLost
  BY InitOK DEF Init, NoServerLost
<1>2. TypeOK /\ PendingOK /\ NoServerLost /\ [Next]_vars
        => TypeOK' /\ PendingOK' /\ NoServerLost'
  BY TypeStep, NetworkStep
<1> QED
  BY <1>1, <1>2, PTL DEF Spec

-----------------------------------------------------------------------------
\* DIDs.

\* What a network generates leads to its file.
LEMMA DidsStep ==
  ASSUME TypeOK, PendingOK, NoServerLost, DidsHome, [Next]_vars
  PROVE  DidsHome'
<1> DEFINE Home(d) ==
      /\ d.did.network = Network
      /\ d.did.tid \in {Null, d.home.did}
      /\ IsFile(d.did.fid)
      /\ ledger[d.did.fid].book.did = d.home.did
      /\ ledger[d.did.fid].book.vc = d.home.vc
<1>1. ASSUME NEW d, Home(d) PROVE Home(d)'
  BY <1>1, FilesStay
<1>2. ASSUME NEW n \in networks, NEW key \in Keys, NEW withTid \in BOOLEAN,
             generateDid(n, key, withTid)
      PROVE  DidsHome'
  <2> DEFINE new(f) == [did |-> GeneratedDid(n, key, withTid), form |-> f,
                        home |-> [did |-> n.book.did, vc |-> n.book.vc]]
  <2>1. PICK f \in Forms : dids' = dids \cup {new(f)}
    BY <1>2 DEF generateDid
  <2>2. /\ IsFile(n.file)
        /\ ledger[n.file].book.did = n.book.did
        /\ ledger[n.file].book.vc = n.book.vc
    BY BookOfTypes DEF NoServerLost
  <2>3. Home(new(f))
    BY <2>2 DEF GeneratedDid
  <2>4. \A d \in dids : Home(d)
    BY DEF DidsHome
  <2> QED
    BY <1>1, <2>1, <2>3, <2>4 DEF DidsHome
<1>3. CASE dids' = dids
  BY <1>1, <1>3 DEF DidsHome
<1> QED
  BY <1>2, <1>3
  DEF Next, addAppnetDidServer, NewBuilder, CreateDidTopic, CreateVcTopic, CreateFile,
      FailsSomewhere, Fails, fromAddressBookFile, fromHcsDid, vars

\* With the types, DidsHome is an invariant.
LEMMA DidsCorrect == Spec => [](TypeOK /\ DidsHome)
<1>1. Init => TypeOK /\ PendingOK /\ NoServerLost /\ DidsHome
  BY InitOK DEF Init, NoServerLost, DidsHome
<1>2. TypeOK /\ PendingOK /\ NoServerLost /\ DidsHome /\ [Next]_vars
        => TypeOK' /\ PendingOK' /\ NoServerLost' /\ DidsHome'
  BY TypeStep, NetworkStep, DidsStep
<1> QED
  BY <1>1, <1>2, PTL DEF Spec

-----------------------------------------------------------------------------
\* DID strings.

\* A string whose head is that of a DID, and in which the file and the topic of
\* the DID are found in one place each, is parsed into that DID.
LEMMA ParsedAs ==
  ASSUME NEW did \in Did, NEW s, NEW i \in Nat, NEW j \in Nat,
         s.head = <<"did", "hedera", did.network, did.idString>>,
         Given(s, did.network, "fid") = {i},
         s.params[i].values[1] = did.fid,
         IF did.tid = Null THEN Given(s, did.network, "tid") = {}
         ELSE Given(s, did.network, "tid") = {j} /\ s.params[j].values[1] = did.tid
  PROVE  fromString(s) = did
<1>1. LastIn({i}) = i /\ LastIn({j}) = j
  BY LastInSingleton
<1>2. Extracted(s, did.network, "fid") = did.fid
  BY <1>1 DEF Extracted
<1>3. did.tid # Null => Extracted(s, did.network, "tid") = did.tid
  BY <1>1 DEF Extracted
<1>4. s.head[3] = did.network /\ did.idString \notin TooShort
  BY DEF Did
<1>5. fromString(s) =
        [network |-> did.network, idString |-> did.idString, fid |-> did.fid, tid |-> did.tid]
  BY <1>2, <1>3, <1>4 DEF fromString
<1> QED
  BY <1>5 DEF Did

\* The parameters of the string of a DID.
LEMMA BuiltParams ==
  ASSUME NEW did \in Did
  PROVE  /\ buildDid(did).head = <<"did", "hedera", did.network, did.idString>>
         /\ Len(buildDid(did).params) = IF did.tid = Null THEN 1 ELSE 2
         /\ buildDid(did).params[1] = Param(did.network, "fid", did.fid)
         /\ did.tid # Null => buildDid(did).params[2] = Param(did.network, "tid", did.tid)
BY DEF buildDid

\* The order of the parameters does not matter.
LEMMA ReorderedParsed ==
  ASSUME NEW did \in Did
  PROVE  fromString(Reordered(buildDid(did))) = did
<1> DEFINE b == buildDid(did)
           k == Len(b.params)
           s == Reordered(b)
<1>1. /\ s.head = b.head
      /\ s.params = [i \in 1..k |-> b.params[k + 1 - i]]
  BY DEF Reordered, buildDid
<1>2. k \in {1, 2} /\ Len(s.params) = k
  <2>1. k \in {1, 2}
    BY BuiltParams
  <2> HIDE DEF k, b
  <2>2. Len([i \in 1..k |-> b.params[k + 1 - i]]) = k
    BY <2>1
  <2> QED
    BY <1>1, <2>1, <2>2
<1>3. /\ s.params[k] = Param(did.network, "fid", did.fid)
      /\ did.tid # Null => s.params[1] = Param(did.network, "tid", did.tid) /\ k = 2
      /\ did.tid = Null => k = 1
  BY <1>1, <1>2, BuiltParams
<1> HIDE DEF s, k
<1>4. Given(s, did.network, "fid") = {k}
  BY <1>2, <1>3, NamesApart DEF Given, Param
<1>5. Given(s, did.network, "tid") = IF did.tid = Null THEN {} ELSE {1}
  BY <1>2, <1>3, NamesApart DEF Given, Param
<1>6. /\ s.params[k].values[1] = did.fid
      /\ did.tid # Null => s.params[1].values[1] = did.tid
  BY <1>3 DEF Param
<1>7. s.head = <<"did", "hedera", did.network, did.idString>>
  BY <1>1, BuiltParams
<1> QED
  BY <1>2, <1>4, <1>5, <1>6, <1>7, ParsedAs DEF s

\* A sequence with one element before it and two after it.
LEMMA Between ==
  ASSUME NEW S, NEW x \in S, NEW p \in Seq(S), NEW y \in S, NEW z \in S
  PROVE  LET q == <<x>> \o p \o <<y, z>>
         IN /\ Len(q) = Len(p) + 3
            /\ q[1] = x
            /\ \A i \in 1..Len(p) : q[i + 1] = p[i]
            /\ q[Len(p) + 2] = y
            /\ q[Len(p) + 3] = z
<1> DEFINE q == <<x>> \o p
<1>1. <<x>> \in Seq(S) /\ Len(<<x>>) = 1 /\ <<x>>[1] = x
  OBVIOUS
<1>2. <<y, z>> \in Seq(S) /\ Len(<<y, z>>) = 2 /\ <<y, z>>[1] = y /\ <<y, z>>[2] = z
  OBVIOUS
<1>3. Len(p) \in Nat
  OBVIOUS
<1>4. /\ q \in Seq(S) /\ Len(q) = 1 + Len(p)
      /\ \A i \in 1..1 + Len(p) : q[i] = IF i <= 1 THEN <<x>>[i] ELSE p[i - 1]
  BY <1>1, ConcatProperties
<1> HIDE DEF q
<1>5. /\ Len(q \o <<y, z>>) = Len(q) + 2
      /\ \A i \in 1..Len(q) + 2 :
           (q \o <<y, z>>)[i] = IF i <= Len(q) THEN q[i] ELSE <<y, z>>[i - Len(q)]
  BY <1>2, <1>4, ConcatProperties
<1>6. /\ Len(q \o <<y, z>>) = Len(p) + 3
      /\ (q \o <<y, z>>)[1] = x
      /\ \A i \in 1..Len(p) : (q \o <<y, z>>)[i + 1] = p[i]
      /\ (q \o <<y, z>>)[Len(p) + 2] = y
      /\ (q \o <<y, z>>)[Len(p) + 3] = z
  BY <1>1, <1>2, <1>3, <1>4, <1>5
<1> QED
  BY <1>6 DEF q

\* A parameter without a value.
Unvalued == [name |-> ParameterName(Network, "fid"), values |-> <<>>]

\* The parameters of a padded string: that of the file is the second one, and
\* that of the topic, if there is one, the third.
LEMMA PaddedParams ==
  ASSUME NEW did \in Did
  PROVE  LET p == Padded(buildDid(did)).params
             k == IF did.tid = Null THEN 1 ELSE 2
         IN /\ Len(p) = k + 3
            /\ p[1] = Unvalued
            /\ p[2] = Param(did.network, "fid", did.fid)
            /\ did.tid # Null => p[3] = Param(did.network, "tid", did.tid)
            /\ p[k + 2] = Param(Foreign, "fid", 1)
            /\ p[k + 3] = Param(Foreign, "tid", 1)
<1> DEFINE b == buildDid(did).params
           S == {Unvalued, Param(Foreign, "fid", 1), Param(Foreign, "tid", 1),
                 Param(did.network, "fid", did.fid), Param(did.network, "tid", did.tid)}
<1>1. Padded(buildDid(did)).params =
        <<Unvalued>> \o b \o <<Param(Foreign, "fid", 1), Param(Foreign, "tid", 1)>>
  BY DEF Padded, buildDid, Unvalued
<1>2. b = IF did.tid = Null THEN <<Param(did.network, "fid", did.fid)>>
          ELSE <<Param(did.network, "fid", did.fid), Param(did.network, "tid", did.tid)>>
  BY DEF buildDid
<1>3. /\ Unvalued \in S /\ Param(Foreign, "fid", 1) \in S /\ Param(Foreign, "tid", 1) \in S
      /\ Param(did.network, "fid", did.fid) \in S /\ Param(did.network, "tid", did.tid) \in S
  OBVIOUS
<1> HIDE DEF b, S
<1>4. b \in Seq(S)
  BY <1>2, <1>3
<1>5. /\ Len(b) = IF did.tid = Null THEN 1 ELSE 2
      /\ b[1] = Param(did.network, "fid", did.fid)
      /\ did.tid # Null => b[2] = Param(did.network, "tid", did.tid)
  BY <1>2
<1>6. LET q == <<Unvalued>> \o b \o <<Param(Foreign, "fid", 1), Param(Foreign, "tid", 1)>>
      IN /\ Len(q) = Len(b) + 3
         /\ q[1] = Unvalued
         /\ \A i \in 1..Len(b) : q[i + 1] = b[i]
         /\ q[Len(b) + 2] = Param(Foreign, "fid", 1)
         /\ q[Len(b) + 3] = Param(Foreign, "tid", 1)
  BY <1>3, <1>4, Between
<1> DEFINE p == Padded(buildDid(did)).params
<1>7. /\ Len(p) = Len(b) + 3
      /\ p[1] = Unvalued
      /\ \A i \in 1..Len(b) : p[i + 1] = b[i]
      /\ p[Len(b) + 2] = Param(Foreign, "fid", 1)
      /\ p[Len(b) + 3] = Param(Foreign, "tid", 1)
  BY <1>1, <1>6
<1> HIDE DEF p
<1>8. /\ p[1 + 1] = b[1]
      /\ did.tid # Null => p[2 + 1] = b[2]
  BY <1>5, <1>7
<1> QED
  BY <1>5, <1>7, <1>8 DEF p

\* Neither do parameters without a value, or of another network.
LEMMA PaddedParsed ==
  ASSUME NEW did \in Did, did.network = Network
  PROVE  fromString(Padded(buildDid(did))) = did
<1> DEFINE s == Padded(buildDid(did))
           k == IF did.tid = Null THEN 1 ELSE 2
<1>1. /\ Len(s.params) = k + 3
      /\ s.params[1] = Unvalued
      /\ s.params[2] = Param(did.network, "fid", did.fid)
      /\ did.tid # Null => s.params[3] = Param(did.network, "tid", did.tid)
      /\ s.params[k + 2] = Param(Foreign, "fid", 1)
      /\ s.params[k + 3] = Param(Foreign, "tid", 1)
  BY PaddedParams
<1>2. s.head = <<"did", "hedera", did.network, did.idString>>
  BY DEF Padded, buildDid
<1>3. k = IF did.tid = Null THEN 1 ELSE 2
  OBVIOUS
<1> HIDE DEF s, k
<1>4. Len(Unvalued.values) = 0
  BY DEF Unvalued
<1>5. \A w1, w2 : ParameterName(Foreign, w1) # ParameterName(Network, w2)
  BY NetworkAssumption DEF NetworkAssumption, ParameterName
<1>6. ASSUME NEW what \in {"fid", "tid"}, NEW i \in 1..(k + 3)
      PROVE  i \in Given(s, did.network, what) <=>
               \/ i = 2 /\ what = "fid"
               \/ i = 3 /\ what = "tid" /\ did.tid # Null
  <2>1. i \in Given(s, did.network, what)
          <=> Len(s.params[i].values) = 1 /\ s.params[i].name = ParameterName(Network, what)
    BY <1>1 DEF Given
  <2>2. CASE i = 1
    <3>1. Len(s.params[i].values) = 0
      BY <1>1, <1>4, <2>2
    <3> QED
      BY <2>1, <2>2, <3>1
  <2>3. CASE i = 2
    BY <1>1, <2>1, <2>3, NamesApart DEF Param
  <2>4. CASE i = 3 /\ did.tid # Null
    BY <1>1, <2>1, <2>4, NamesApart DEF Param
  <2>5. CASE i \in {k + 2, k + 3}
    <3>1. \E w : s.params[i].name = ParameterName(Foreign, w)
      BY <1>1, <2>5 DEF Param
    <3> QED
      BY <1>3, <1>5, <2>1, <2>5, <3>1
  <2> QED
    BY <1>3, <2>2, <2>3, <2>4, <2>5
<1>7. Given(s, did.network, "fid") = {2}
  BY <1>1, <1>3, <1>6 DEF Given
<1>8. Given(s, did.network, "tid") = IF did.tid = Null THEN {} ELSE {3}
  BY <1>1, <1>3, <1>6 DEF Given
<1>9. /\ s.params[2].values[1] = did.fid
      /\ did.tid # Null => s.params[3].values[1] = did.tid
  BY <1>1 DEF Param
<1> QED
  BY <1>2, <1>7, <1>8, <1>9, ParsedAs DEF s

\* However its string is written, it is parsed into the DID that was generated.
LEMMA FormsParsed ==
  ASSUME TypeOK, DidsHome, NEW d \in dids
  PROVE  d.did \in Did /\ fromString(StringOf(d)) = d.did
<1>1. d.did \in Did /\ d.did.network = Network /\ d.form \in {"built", "reordered", "padded"}
  BY DEF TypeOK, DidsHome, Forms
<1> QED
  BY <1>1, RoundTrip, ReorderedParsed, PaddedParsed DEF StringOf

(***************************************************************************)
(* The string of a DID, however it is written, leads to the file and so to *)
(* the topics of the network that generated it.                            *)
(***************************************************************************)
THEOREM HomeCorrect == Spec => []DidLeadsHome
<1>1. TypeOK /\ DidsHome => DidLeadsHome
  BY FormsParsed DEF DidsHome, DidLeadsHome
<1> QED
  BY <1>1, DidsCorrect, PTL

(***************************************************************************)
(* The owner's message is accepted by the listeners of the network that    *)
(* generated the DID, in whatever form the DID is written; by those of     *)
(* other networks only if the DID does not name its topic.                 *)
(***************************************************************************)
THEOREM HomeAccepts == Spec => []AcceptedAtHome
<1>1. ASSUME TypeOK, DidsHome, NEW d \in dids, NEW n \in networks, NEW key \in Keys,
             publicKeyToIdString(key) = d.did.idString
      PROVE  isMessageValid(Message(StringOf(d), Document(StringOf(d), key), key), n.book.did)
               <=> d.did.tid = Null \/ n.book.did = d.home.did
  <2> DEFINE m == Message(StringOf(d), Document(StringOf(d), key), key)
  <2>1. fromString(StringOf(d)) = d.did /\ d.did # Null
    BY <1>1, FormsParsed, NoDid
  <2>2. /\ m.did = StringOf(d) /\ m.doc.id = StringOf(d) /\ m.signer = key
        /\ getDidRootKey(m.doc) = key
    BY DEF Message, Document, getDidRootKey
  <2>3. key # Null
    BY DidAssumption DEF DidAssumption
  <2>4. d.did.tid \in {Null, d.home.did}
    BY <1>1 DEF DidsHome
  <2> HIDE DEF m
  <2>5. isMessageValid(m, n.book.did) <=> d.did.tid \in {Null, n.book.did}
    BY <1>1, <2>1, <2>2, <2>3 DEF isMessageValid, IsSignatureValid, isValid
  <2> QED
    BY <2>4, <2>5 DEF m
<1>2. TypeOK /\ DidsHome => AcceptedAtHome
  BY <1>1 DEF AcceptedAtHome
<1> QED
  BY <1>2, DidsCorrect, PTL

(***************************************************************************)
(* Nobody but the owner can publish for a DID, with whatever document.     *)
(***************************************************************************)
THEOREM OwnersCorrect == Spec => []OwnerOnly
<1>1. ASSUME TypeOK, DidsHome, NEW d \in dids, NEW topic, NEW doc, NEW signer,
             isMessageValid(Message(StringOf(d), doc, signer), topic)
      PROVE  publicKeyToIdString(signer) = d.did.idString
  <2>1. fromString(StringOf(d)) = d.did
    BY <1>1, FormsParsed
  <2> QED
    BY <1>1, <2>1 DEF isMessageValid, IsSignatureValid, isValid, Message
<1>2. TypeOK /\ DidsHome => OwnerOnly
  BY <1>1 DEF OwnerOnly
<1> QED
  BY <1>2, DidsCorrect, PTL
=============================================================================
