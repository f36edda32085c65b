--------------------------- MODULE IdentityNetwork ---------------------------
(***************************************************************************)
(* How an appnet gets its identity network, and how others find it.        *)
(*                                                                         *)
(* HcsIdentityNetworkBuilder.execute creates two topics and then a file    *)
(* with the address book, in three transactions, each of which may fail,   *)
(* with or without effect on the ledger; it may be called again.  DIDs     *)
(* that the network generates carry the number of the file, so that        *)
(* whoever has the string of a DID can read the address book and come to   *)
(* the same topics.                                                        *)
(*                                                                         *)
(* The ledger numbers its entities, topics and files alike, in the order   *)
(* of their creation.  All clients are clients of this ledger, whose label *)
(* is Network.                                                             *)
(*                                                                         *)
(* A definition under the word "Variant" is no part of the model: it is a  *)
(* slip that the definition after it could have, and one of the properties *)
(* at the end fails with it.                                               *)
(***************************************************************************)
EXTENDS HcsDid, FiniteSets

CONSTANTS Network,      \* what setNetwork is given
          Foreign,      \* another label, that others may put in a DID string
          Servers,      \* URLs of appnet servers
          MaxEntities,  \* bound: entities in the ledger
          MaxDids       \* bound: DIDs generated

ASSUME NetworkAssumption ==
  /\ {Network, Foreign} \subseteq STRING
  /\ Network # Foreign
  /\ \A list \in SUBSET Servers : list # Null
  /\ MaxEntities \in Nat
  /\ MaxDids \in Nat

\* The content of an address book file; the list of servers may be null.
ServerList == {Null} \cup SUBSET Servers
Book == [did : 1..MaxEntities, vc : 1..MaxEntities, servers : ServerList]
Topics == [did : 1..MaxEntities, vc : 1..MaxEntities]
Entity == [kind : {"topic"}] \cup [kind : {"file"}, book : Book]

\* An HcsIdentityNetwork.  `shared`: the list of servers in its address book
\* is the very list of the builder.
IdentityNetwork == [file : 1..MaxEntities, book : Book, shared : BOOLEAN]

\* How a DID may be written: as buildDid does, with the parameters in another
\* order, or with parameters that do not count around them.
Forms == {"built", "reordered", "padded"}

VARIABLES
  ledger,    \* the entities, in order
  servers,   \* the field `didServers` of the builder
  place,     \* where its execute() is
  made,      \* didTopicId and vcTopicId in it
  networks,  \* the HcsIdentityNetwork objects there are
  dids       \* the DIDs generated, where, and how they are written

vars == <<ledger, servers, place, made, networks, dids>>

TypeOK ==
  /\ ledger \in Seq(Entity)
  /\ Len(ledger) <= MaxEntities
  /\ servers \in ServerList
  /\ place \in {"idle", "vcTopic", "file"}
  /\ made \in [did : 0..MaxEntities, vc : 0..MaxEntities]
  /\ networks \subseteq IdentityNetwork
  /\ dids \subseteq [did : Did, home : Topics, form : Forms]

Nowhere == [did |-> 0, vc |-> 0]

Init ==
  /\ ledger = <<>>
  /\ servers = Null
  /\ place = "idle"
  /\ made = Nowhere
  /\ networks = {}
  /\ dids = {}

-----------------------------------------------------------------------------
\* The builder.

\* The address book of a network as it is now.
BookOf(n) == IF n.shared THEN [n.book EXCEPT !.servers = servers] ELSE n.book

\* Variant: the list is made anew for the server.
addAppnetDidServerOnly(url) ==
  /\ place = "idle"
  /\ servers' = {url}
  /\ UNCHANGED <<ledger, place, made, networks, dids>>

addAppnetDidServer(url) ==
  /\ place = "idle"
  /\ servers' = IF servers = Null THEN {url} ELSE servers \cup {url}
  /\ UNCHANGED <<ledger, place, made, networks, dids>>

\* The address books made by the builder before keep its list.
NewBuilder ==
  /\ place = "idle"
  /\ servers' = Null
  /\ networks' = {[n EXCEPT !.shared = FALSE, !.book = BookOf(n)] : n \in networks}
  /\ UNCHANGED <<ledger, place, made, dids>>

NextId == Len(ledger) + 1
Created(entity) == Len(ledger) < MaxEntities /\ ledger' = Append(ledger, entity)

\* execute() ends with an exception: the transaction was refused, or there
\* was no receipt, whether or not the entity was created.
Fails(entity) ==
  /\ ledger' = ledger \/ Created(entity)
  /\ place' = "idle"
  /\ made' = Nowhere
  /\ UNCHANGED <<servers, networks, dids>>

CreateDidTopic ==
  /\ place = "idle"
  /\ Created([kind |-> "topic"])
  /\ made' = [made EXCEPT !.did = NextId]
  /\ place' = "vcTopic"
  /\ UNCHANGED <<servers, networks, dids>>

\* Variant: the receipt of the first transaction is read again.
CreateVcTopicOfDid ==
  /\ place = "vcTopic"
  /\ Created([kind |-> "topic"])
  /\ made' = [made EXCEPT !.vc = made.did]
  /\ place' = "file"
  /\ UNCHANGED <<servers, networks, dids>>

CreateVcTopic ==
  /\ place = "vcTopic"
  /\ Created([kind |-> "topic"])
  /\ made' = [made EXCEPT !.vc = NextId]
  /\ place' = "file"
  /\ UNCHANGED <<servers, networks, dids>>

BookMade == [did |-> made.did, vc |-> made.vc, servers |-> servers]

\* Variant: the address book is not told the number of its file.
CreateFileUnnumbered ==
  /\ place = "file"
  /\ Created([kind |-> "file", book |-> BookMade])
  /\ networks' = networks \cup
       {[file |-> 0, book |-> BookMade, shared |-> servers # Null]}
  /\ place' = "idle"
  /\ made' = Nowhere
  /\ UNCHANGED <<servers, dids>>

CreateFile ==
  /\ place = "file"
  /\ Created([kind |-> "file", book |-> BookMade])
  /\ networks' = networks \cup
       {[file |-> NextId, book |-> BookMade, shared |-> servers # Null]}
  /\ place' = "idle"
  /\ made' = Nowhere
  /\ UNCHANGED <<servers, dids>>

FailsSomewhere ==
  \/ place \in {"idle", "vcTopic"} /\ Fails([kind |-> "topic"])
  \/ place = "file" /\ Fails([kind |-> "file", book |-> BookMade])

-----------------------------------------------------------------------------
\* Networks and DIDs.

\* The object that generateDid of network n makes for a key, new or given.
GeneratedDid(n, key, withTid) ==
  [network |-> Network, idString |-> publicKeyToIdString(key), fid |-> n.file,
   tid |-> IF withTid THEN n.book.did ELSE Null]

\* The form is that in which whoever gets the DID writes it.
generateDid(n, key, withTid) ==
  /\ Cardinality(dids) < MaxDids
  /\ \E f \in Forms :
       dids' = dids \cup
         {[did |-> GeneratedDid(n, key, withTid), form |-> f,
           home |-> [did |-> n.book.did, vc |-> n.book.vc]]}
  /\ UNCHANGED <<ledger, servers, place, made, networks>>

\* The string of a generated DID, as someone wrote it.
Reordered(s) ==
  [s EXCEPT !.params = [i \in 1..Len(@) |-> @[Len(@) + 1 - i]]]
Padded(s) ==
  [s EXCEPT !.params =
     <<[name |-> ParameterName(Network, "fid"), values |-> <<>>]>>
       \o @ \o <<Param(Foreign, "fid", 1), Param(Foreign, "tid", 1)>>]

StringOf(d) ==
  LET s == buildDid(d.did)
  IN CASE d.form = "built" -> s
       [] d.form = "reordered" -> Reordered(s)
       [] d.form = "padded" -> Padded(s)

\* The network that a file describes; the query fails if it is no file.
IsFile(id) == id \in 1..Len(ledger) /\ ledger[id].kind = "file"

fromAddressBookFile(id) ==
  /\ IsFile(id)
  /\ networks' = networks \cup
       {[file |-> id, book |-> ledger[id].book, shared |-> FALSE]}
  /\ UNCHANGED <<ledger, servers, place, made, dids>>

fromHcsDid(d) ==
  LET did == fromString(StringOf(d))
  IN did # Null /\ fromAddressBookFile(did.fid)

-----------------------------------------------------------------------------
Next ==
  \/ \E url \in Servers : addAppnetDidServer(url)
  \/ NewBuilder
  \/ CreateDidTopic
  \/ CreateVcTopic
  \/ CreateFile
  \/ FailsSomewhere
  \/ \E n \in networks, key \in Keys, withTid \in BOOLEAN : generateDid(n, key, withTid)
  \/ \E id \in 1..MaxEntities : fromAddressBookFile(id)
  \/ \E d \in dids : fromHcsDid(d)

Spec == Init /\ [][Next]_vars
-----------------------------------------------------------------------------
(***************************************************************************)
(* What the identity network promises.                                     *)
(***************************************************************************)

\* An address book in the ledger names two topics that were there before it,
\* and no two address books share one: whatever transactions failed between
\* the first topic and the file, and however often execute() was called.
BooksApart ==
  \A a \in 1..Len(ledger) : IsFile(a) =>
    LET book == ledger[a].book
    IN /\ \A t \in {book.did, book.vc} : t < a /\ ledger[t].kind = "topic"
       /\ book.did # book.vc
       /\ \A b \in 1..Len(ledger) \ {a} : IsFile(b) =>
            {book.did, book.vc} \cap {ledger[b].book.did, ledger[b].book.vc} = {}

\* The address book that a network holds goes on saying what its file says,
\* though the builder keeps a hand on its list of servers: the same topics,
\* and every server of the file.
NoServerLost ==
  \A n \in networks :
    /\ IsFile(n.file)
    /\ LET file == ledger[n.file].book
           book == BookOf(n)
       IN /\ book.did = file.did
          /\ book.vc = file.vc
          /\ file.servers # Null => book.servers # Null /\ file.servers \subseteq book.servers

\* The string of a DID, however it is written, leads to the topics of the
\* network that generated it: buildDid, fromString and fromHcsDid together.
DidLeadsHome ==
  \A d \in dids :
    LET did == fromString(StringOf(d))
    IN /\ did = d.did
       /\ IsFile(did.fid)
       /\ ledger[did.fid].book.did = d.home.did
       /\ ledger[did.fid].book.vc = d.home.vc

\* The owner's message is accepted by the listeners of the network that
\* generated the DID, in whatever form the DID is written; by those of other
\* networks only if the DID does not name its topic.
AcceptedAtHome ==
  \A d \in dids, n \in networks, key \in Keys :
    LET s == StringOf(d)
    IN publicKeyToIdString(key) = d.did.idString =>
         (isMessageValid(Message(s, Document(s, key), key), n.book.did)
            <=> d.did.tid = Null \/ n.book.did = d.home.did)

\* Nobody but the owner can publish for a DID: with another key in the
\* document, the entry of another DID, or the document of another DID.
Strings == {StringOf(d) : d \in dids}

OwnerOnly ==
  \A d \in dids, n \in networks, id \in Strings, keyId \in Strings,
     key \in Keys, signer \in Keys :
    isMessageValid(Message(StringOf(d), [id |-> id, keyId |-> keyId, key |-> key], signer),
                   n.book.did)
      => publicKeyToIdString(signer) = d.did.idString
=============================================================================
