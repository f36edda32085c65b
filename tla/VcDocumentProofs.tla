------------------------- MODULE VcDocumentProofs -------------------------
(* Theorems about credential documents, their JSON and their hash. *)
EXTENDS VcDocument, TLAPS

\* What a document object may be: with or without a name of the issuer, and with
\* any number of contexts, types and subjects.
DocumentsOver(Ids, Types, Dids, Names, Times, Subjects) ==
  [context : Seq(Types), id : Ids, type : Seq(Types),
   issuer : [id : Dids, name : Names], issuanceDate : Times,
   credentialSubject : Seq(Subjects)]

(***************************************************************************)
(* The hash says nothing of the form of a document: two JSON documents     *)
(* that can be read have one hash exactly if they agree on the id, the     *)
(* types, the DID of the issuer and the instant of issuance.  So a         *)
(* verifier finds the status with any JSON that says the same of these     *)
(* four, whatever its name of the issuer, its format of the date and its   *)
(* claims, and with no other.                                              *)
(***************************************************************************)
THEOREM HashIdentifies ==
  ASSUME NEW j, NEW k, Readable(j), Readable(k)
  PROVE  determineCredentialHash(j) = determineCredentialHash(k)
           <=> /\ j.id = k.id
               /\ j.type = k.type
               /\ j.issuer.id = k.issuer.id
               /\ ReadInstant(j.issuanceDate) = ReadInstant(k.issuanceDate)
<1>1. \A x : ReadIssuer(x).id = x.id
  BY DEF ReadIssuer, Issuer
<1>2. \A x : toCredentialHash(fromJson(x)) =
        [id |-> x.id, type |-> x.type, issuer |-> x.issuer.id,
         issuanceDate |-> ReadInstant(x.issuanceDate)]
  BY <1>1 DEF toCredentialHash, fromJson
<1> DEFINE Hashed(x) == [id |-> x.id, type |-> x.type, issuer |-> x.issuer.id,
                        issuanceDate |-> ReadInstant(x.issuanceDate)]
<1>3. determineCredentialHash(j) = Hashed(j) /\ determineCredentialHash(k) = Hashed(k)
  BY <1>2 DEF determineCredentialHash
<1>4. \A x : /\ Hashed(x).id = x.id
             /\ Hashed(x).type = x.type
             /\ Hashed(x).issuer = x.issuer.id
             /\ Hashed(x).issuanceDate = ReadInstant(x.issuanceDate)
  OBVIOUS
<1>5. ASSUME j.id = k.id, j.type = k.type, j.issuer.id = k.issuer.id,
             ReadInstant(j.issuanceDate) = ReadInstant(k.issuanceDate)
      PROVE  Hashed(j) = Hashed(k)
  BY <1>5
<1> HIDE DEF Hashed
<1> QED
  BY <1>3, <1>4, <1>5

(***************************************************************************)
(* The hash of an object is that of its JSON, plain or normalized, as the  *)
(* server registers the issuer under the first and clients compute the     *)
(* second.                                                                 *)
(***************************************************************************)
THEOREM HashSurvivesJson ==
  ASSUME NEW d
  PROVE  /\ determineCredentialHash(toJson(d)) = toCredentialHash(d)
         /\ determineCredentialHash(toNormalizedJson(d)) = toCredentialHash(d)
<1>1. ReadIssuer(WriteIssuer(d.issuer)).id = d.issuer.id
  BY DEF ReadIssuer, WriteIssuer, Issuer
<1>2. /\ Parses(WriteInstant(d.issuanceDate))
      /\ ReadInstant(WriteInstant(d.issuanceDate)) = d.issuanceDate
  BY DEF Parses, ReadInstant, WriteInstant
<1>3. ASSUME NEW j, j \in {toJson(d), toNormalizedJson(d)}
      PROVE  /\ j.id = d.id
             /\ j.type = d.type
             /\ j.issuer = WriteIssuer(d.issuer)
             /\ j.issuanceDate = WriteInstant(d.issuanceDate)
  BY <1>3 DEF toJson, toNormalizedJson
<1> QED
  BY <1>1, <1>2, <1>3
  DEF determineCredentialHash, toCredentialHash, fromJson, Readable

(***************************************************************************)
(* A complete document is read back complete from its JSON.                *)
(***************************************************************************)
THEOREM CompleteSurvivesJson ==
  ASSUME NEW Ids, NEW Types, NEW Dids, NEW Names, NEW Times, NEW Subjects,
         NEW d \in DocumentsOver(Ids, Types, Dids, Names, Times, Subjects),
         isComplete(d)
  PROVE  isComplete(fromJson(toJson(d)))
<1>1. ReadIssuer(WriteIssuer(d.issuer)).id = d.issuer.id
  BY DEF ReadIssuer, WriteIssuer, Issuer
<1>2. ReadInstant(WriteInstant(d.issuanceDate)) = d.issuanceDate
  BY DEF ReadInstant, WriteInstant
<1>3. ReadSubjects(WriteSubjects(d.credentialSubject)) = d.credentialSubject
  BY DEF ReadSubjects, WriteSubjects
<1>4. /\ fromJson(toJson(d)).context = <<FirstContextEntry>>
      /\ fromJson(toJson(d)).type = d.type
      /\ fromJson(toJson(d)).issuer.id = d.issuer.id
      /\ fromJson(toJson(d)).issuanceDate = d.issuanceDate
      /\ fromJson(toJson(d)).credentialSubject = d.credentialSubject
  BY <1>1, <1>2, <1>3 DEF fromJson, toJson
<1>5. Len(<<FirstContextEntry>>) > 0 /\ <<FirstContextEntry>>[1] = FirstContextEntry
  OBVIOUS
<1> QED
  BY <1>4, <1>5 DEF isComplete
=============================================================================
