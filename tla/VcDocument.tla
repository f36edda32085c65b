----------------------------- MODULE VcDocument -----------------------------
(***************************************************************************)
(* Credential documents, their JSON, and the credential hash under which   *)
(* the registry keeps their status.                                        *)
(*                                                                         *)
(* The hash is computed from the object, and the object from whatever JSON *)
(* a verifier was shown: an issuer may be a string or an object, a date    *)
(* may be written with or without a zone, one subject may be an array or   *)
(* not, and claims may be left out.  Each of these is a `form` of the JSON *)
(* value here.  SHA-256 does not collide, so that what is hashed stands    *)
(* for the hash.                                                           *)
(***************************************************************************)
EXTENDS IdentityMessages, Sequences

FirstContextEntry == "https://www.w3.org/2018/credentials/v1"
VerifiableCredentialType == "VerifiableCredential"
DrivingLicenseType == "DrivingLicense"

Issuer(did) == [id |-> did, name |-> Null]

\* An object without id, issuer, date and subjects.
HcsVcDocumentBase ==
  [context |-> <<FirstContextEntry>>, id |-> Null, type |-> <<VerifiableCredentialType>>,
   issuer |-> Issuer(Null), issuanceDate |-> Null, credentialSubject |-> <<>>]

\* The example credential.  Its id is a UUID.
DrivingLicenseDocument(uuid, did, now, subject) ==
  [HcsVcDocumentBase EXCEPT
     !.id = uuid,
     !.type = Append(@, DrivingLicenseType),
     !.issuer = Issuer(did),
     !.issuanceDate = now,
     !.credentialSubject = Append(@, subject)]

\* Everything but the id is wanted.
isComplete(doc) ==
  /\ Len(doc.context) > 0 /\ doc.context[1] = FirstContextEntry
  /\ \E i \in 1..Len(doc.type) : doc.type[i] = VerifiableCredentialType
  /\ doc.issuanceDate # Null
  /\ doc.issuer.id # Null
  /\ Len(doc.credentialSubject) > 0

-----------------------------------------------------------------------------
\* From the object to JSON.

\* An issuer without a name is written as a string.
WriteIssuer(issuer) ==
  [form |-> IF issuer.name = Null THEN "string" ELSE "object",
   id |-> issuer.id, name |-> issuer.name]

WriteInstant(t) == [form |-> "UTC", at |-> t]

\* One subject is written without an array.
WriteSubjects(subjects) ==
  [form |-> IF Len(subjects) = 1 THEN "single" ELSE "array", list |-> subjects]

toJson(doc) ==
  [context |-> doc.context, id |-> doc.id, type |-> doc.type,
   issuer |-> WriteIssuer(doc.issuer),
   issuanceDate |-> WriteInstant(doc.issuanceDate),
   credentialSubject |-> WriteSubjects(doc.credentialSubject)]

\* The example orders the properties, and writes the subjects as an array.
toNormalizedJson(doc) ==
  [toJson(doc) EXCEPT !.credentialSubject = [form |-> "array", list |-> doc.credentialSubject]]

-----------------------------------------------------------------------------
\* From JSON to the object.

ReadIssuer(json) ==
  IF json.form = "string" THEN Issuer(json.id) ELSE [id |-> json.id, name |-> json.name]

\* UTC and offset date-times are instants.  A local date-time satisfies two of
\* the parsers and still is none: Instant.from throws, as do the parsers for
\* any other text.  What is no text is skipped.
Parses(json) == json.form \in {"UTC", "offset", "number"}
ReadInstant(json) == IF json.form = "number" THEN Null ELSE json.at

ReadSubjects(json) == json.list

\* Reading throws unless the date parses.  The context of the JSON is not read.
Readable(json) == Parses(json.issuanceDate)
fromJson(json) ==
  [context |-> <<FirstContextEntry>>, id |-> json.id, type |-> json.type,
   issuer |-> ReadIssuer(json.issuer),
   issuanceDate |-> ReadInstant(json.issuanceDate),
   credentialSubject |-> ReadSubjects(json.credentialSubject)]

-----------------------------------------------------------------------------
\* The credential hash.

\* Variants: without the id; and with the name of the issuer.
HashWithoutId(doc) ==
  [id |-> Null, type |-> doc.type, issuer |-> doc.issuer.id,
   issuanceDate |-> doc.issuanceDate]
HashWithName(doc) ==
  [id |-> doc.id, type |-> doc.type, issuer |-> doc.issuer, issuanceDate |-> doc.issuanceDate]

\* Neither the name of the issuer nor the subjects are in it.
toCredentialHash(doc) ==
  [id |-> doc.id, type |-> doc.type, issuer |-> doc.issuer.id,
   issuanceDate |-> doc.issuanceDate]

\* The request that computes it for a JSON document: Null is an error 400.
determineCredentialHash(json) ==
  IF Readable(json) THEN toCredentialHash(fromJson(json)) ELSE Null
=============================================================================
