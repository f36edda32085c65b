------------------------------- MODULE HcsDid -------------------------------
(***************************************************************************)
(* DID objects, DID strings, and what a DID message must be made of to be  *)
(* accepted.                                                               *)
(*                                                                         *)
(* A DID string is kept as the parts that the separators ";", ":" and "="  *)
(* cut it into:                                                            *)
(*                                                                         *)
(*   did:hedera:testnet:ID;hedera:testnet:fid=F;hedera:testnet:tid=T       *)
(*                                                                         *)
(* has the head <<"did", "hedera", "testnet", ID>> and two parameters,     *)
(* each with the parts of its name and its values.  The id-string of a     *)
(* DID is a hash of its root key, and stands for the key.                  *)
(***************************************************************************)
EXTENDS Integers, Sequences

CONSTANTS Null,      \* Java's null
          Keys,      \* public keys, each with its private key
          TooShort   \* id-strings of less than 32 characters

ASSUME DidAssumption ==
  /\ Keys \subseteq STRING
  /\ TooShort \subseteq STRING
  /\ Keys \cap TooShort = {}
  /\ Null \notin Nat \cup Keys

publicKeyToIdString(key) == key

\* HcsDid: the address book file is mandatory, the topic is not.
Did ==
  [network : STRING, idString : STRING \ TooShort, fid : Nat, tid : {Null} \cup Nat]
ASSUME NoDid == Null \notin Did
Parameter == [name : Seq(STRING), values : Seq(Nat)]
DidString == [head : Seq(STRING), params : Seq(Parameter)]

-----------------------------------------------------------------------------
ParameterName(network, what) == <<"hedera", network, what>>

Param(network, what, value) ==
  [name |-> ParameterName(network, what), values |-> <<value>>]

\* The string of a DID object.
buildDid(did) ==
  [head |-> <<"did", "hedera", did.network, did.idString>>,
   params |-> IF did.tid = Null
                THEN <<Param(did.network, "fid", did.fid)>>
                ELSE <<Param(did.network, "fid", did.fid),
                       Param(did.network, "tid", did.tid)>>]

\* Variant: the network in the name of a parameter is not looked at.
GivenAnywhere(s, network, what) ==
  {i \in 1..Len(s.params) : /\ Len(s.params[i].values) = 1
                            /\ s.params[i].name[3] = what}

\* Where a string has a parameter of the network: others are passed over, and
\* so is a parameter that has not exactly one value.
Given(s, network, what) ==
  {i \in 1..Len(s.params) : /\ Len(s.params[i].values) = 1
                            /\ s.params[i].name = ParameterName(network, what)}

\* Of several, the last one counts.
LastIn(S) == CHOOSE i \in S : \A j \in S : j <= i
Extracted(s, network, what) == s.params[LastIn(Given(s, network, what))].values[1]

\* The DID object of a string, or Null for an IllegalArgumentException.
fromString(s) ==
  LET network == s.head[3]
  IN IF /\ Len(s.head) = 4
        /\ s.head[1] = "did"
        /\ s.head[2] = "hedera"
        /\ s.head[4] \notin TooShort
        /\ Given(s, network, "fid") # {}
       THEN [network |-> network,
             idString |-> s.head[4],
             fid |-> Extracted(s, network, "fid"),
             tid |-> IF Given(s, network, "tid") = {} THEN Null
                     ELSE Extracted(s, network, "tid")]
       ELSE Null

-----------------------------------------------------------------------------
\* The message that publishes a DID document.

\* The document that an owner makes for a DID string: `keyId` is the DID in
\* the id of the public key entry, before #did-root-key.
Document(s, key) == [id |-> s, keyId |-> s, key |-> key]

\* The root key is the entry whose id starts with that of the document.
getDidRootKey(doc) == IF doc.keyId = doc.id THEN doc.key ELSE Null

Message(s, doc, signer) == [did |-> s, doc |-> doc, signer |-> signer]

IsSignatureValid(m) ==
  getDidRootKey(m.doc) # Null /\ m.signer = getDidRootKey(m.doc)

\* Variants: the topic that the DID names is not looked at; the key need not
\* be that of the DID.
isValidAnywhere(m, topic) ==
  LET did == fromString(m.did)
  IN /\ m.did = m.doc.id
     /\ getDidRootKey(m.doc) # Null
     /\ did # Null
     /\ publicKeyToIdString(getDidRootKey(m.doc)) = did.idString

isValidOfAnyKey(m, topic) ==
  LET did == fromString(m.did)
  IN /\ m.did = m.doc.id
     /\ getDidRootKey(m.doc) # Null
     /\ did # Null
     /\ did.tid \in {Null, topic}

\* The DID is that of the document, its key is in the document, and the
\* message came by the topic of the DID if it names one.
isValid(m, topic) ==
  LET did == fromString(m.did)
  IN /\ m.did = m.doc.id
     /\ getDidRootKey(m.doc) # Null
     /\ did # Null
     /\ publicKeyToIdString(getDidRootKey(m.doc)) = did.idString
     /\ did.tid \in {Null, topic}

isMessageValid(m, topic) == IsSignatureValid(m) /\ isValid(m, topic)
=============================================================================
