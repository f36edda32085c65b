--------------------------- MODULE MessageEnvelope ---------------------------
(***************************************************************************)
(* The life of an envelope: a message is put in it, perhaps encrypted, and *)
(* signed; it goes through a topic as JSON, and whoever reads the topic    *)
(* opens it, decrypting it if it can, and decides whether it is valid.     *)
(*                                                                         *)
(* A message is known by the moment its Java object was built (`stamp`, as *)
(* a message carries the time of its construction) and by how often its    *)
(* attributes were encrypted (`layers`).  A signature is the key with the  *)
(* message that was signed.  The JSON of an envelope has its mode, message *)
(* and signature, so the envelope itself stands for it.                    *)
(***************************************************************************)
EXTENDS Integers

CONSTANTS Null,      \* Java's null
          Empty      \* the signature ""

Keys == {"right", "wrong"}

Message == [stamp : Nat, layers : Int]
Signature == [key : Keys, over : Message] \cup {Null, Empty}
Envelope ==
  [mode : {"PLAIN", "ENCRYPTED"}, message : Message, signature : Signature]

\* No signature is null or empty.
ASSUME EnvelopeAssumption ==
  /\ Null \notin [key : Keys, over : Message]
  /\ Empty \notin [key : Keys, over : Message]

-----------------------------------------------------------------------------
\* The sender.

BuildMessage(now) ==
  [mode |-> "PLAIN", message |-> [stamp |-> now, layers |-> 0], signature |-> Null]

\* The encrypted message is a new object.
Encrypter(m, now) == [stamp |-> now, layers |-> m.layers + 1]

\* The signature that the envelope may have stays as it is.
Encrypt(e, now) ==
  [e EXCEPT !.mode = "ENCRYPTED", !.message = Encrypter(e.message, now)]

Sign(e, key) == [e EXCEPT !.signature = [key |-> key, over |-> e.message]]

-----------------------------------------------------------------------------
\* The reader.

\* Decrypting what is not encrypted yields something unreadable (-1).  What it
\* yields is a new object with the reader's clock, that nothing here looks at.
Decrypter(m) == [stamp |-> Null, layers |-> m.layers - 1]

\* For an encrypted message a decrypter is needed.
CanOpen(e, decrypts) == e.mode # "ENCRYPTED" \/ decrypts
Open(e) == IF e.mode = "ENCRYPTED" THEN Decrypter(e.message) ELSE e.message

IsSignatureValid(e) ==
  /\ e.signature \notin {Null, Empty}
  /\ e.signature.key = "right"
  /\ e.signature.over = e.message

\* The content: the DID and its document, or the credential hash, are there
\* to be read.
IsValid(m) == m.layers = 0

IsMessageValid(e) == IsValid(Open(e)) /\ IsSignatureValid(e)
=============================================================================
