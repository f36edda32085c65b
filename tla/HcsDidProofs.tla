---------------------------- MODULE HcsDidProofs ----------------------------
(***************************************************************************)
(* What the parsing of DID strings does, for every DID.                    *)
(***************************************************************************)
EXTENDS HcsDid, TLAPS

\* Of one position, the last is that one.
LEMMA LastInSingleton ==
  ASSUME NEW i \in Nat
  PROVE  LastIn({i}) = i
BY DEF LastIn

\* The parameters of a DID have different names.
LEMMA NamesApart ==
  ASSUME NEW network
  PROVE  ParameterName(network, "fid") # ParameterName(network, "tid")
BY DEF ParameterName

\* The file of a DID is found in its string.
LEMMA FidGiven ==
  ASSUME NEW did \in Did
  PROVE  /\ Given(buildDid(did), did.network, "fid") = {1}
         /\ Extracted(buildDid(did), did.network, "fid") = did.fid
<1> DEFINE s == buildDid(did)
<1>1. /\ s.params[1] = Param(did.network, "fid", did.fid)
      /\ Len(s.params) \in {1, 2}
      /\ Len(s.params) = 2 => s.params[2] = Param(did.network, "tid", did.tid)
  BY DEF buildDid
<1>2. Given(s, did.network, "fid") = {1}
  BY <1>1, NamesApart DEF Given, Param
<1>3. LastIn({1}) = 1
  BY LastInSingleton
<1> QED
  BY <1>1, <1>2, <1>3 DEF Extracted, Param

\* Its topic is found if it has one.
LEMMA TidGiven ==
  ASSUME NEW did \in Did
  PROVE  /\ did.tid = Null => Given(buildDid(did), did.network, "tid") = {}
         /\ did.tid # Null =>
              /\ Given(buildDid(did), did.network, "tid") = {2}
              /\ Extracted(buildDid(did), did.network, "tid") = did.tid
<1> DEFINE s == buildDid(did)
<1>1. /\ s.params[1] = Param(did.network, "fid", did.fid)
      /\ Len(s.params) = IF did.tid = Null THEN 1 ELSE 2
      /\ did.tid # Null => s.params[2] = Param(did.network, "tid", did.tid)
  BY DEF buildDid
<1>2. did.tid = Null => Given(s, did.network, "tid") = {}
  BY <1>1, NamesApart DEF Given, Param
<1>3. did.tid # Null => Given(s, did.network, "tid") = {2}
  BY <1>1, NamesApart DEF Given, Param
<1>4. LastIn({2}) = 2
  BY LastInSingleton
<1>5. ASSUME did.tid # Null
      PROVE  Extracted(s, did.network, "tid") = did.tid
  <2>1. Extracted(s, did.network, "tid") = s.params[2].values[1]
    BY <1>3, <1>4, <1>5 DEF Extracted
  <2>2. s.params[2].values = <<did.tid>>
    BY <1>1, <1>5 DEF Param
  <2> QED
    BY <2>1, <2>2
<1> QED
  BY <1>2, <1>3, <1>5

\* Parsing the string that was built for a DID gives the DID again, with
\* whatever network, key, file and topic (fromString after buildDid).
THEOREM RoundTrip ==
  ASSUME NEW did \in Did
  PROVE  fromString(buildDid(did)) = did
<1> DEFINE s == buildDid(did)
<1>1. /\ s.head = <<"did", "hedera", did.network, did.idString>>
      /\ did.idString \notin TooShort
  BY DEF buildDid, Did
<1>2. fromString(s) =
        [network |-> did.network, idString |-> did.idString, fid |-> did.fid, tid |-> did.tid]
  BY <1>1, FidGiven, TidGiven DEF fromString
<1>3. did = [network |-> did.network, idString |-> did.idString, fid |-> did.fid, tid |-> did.tid]
  BY DEF Did
<1> QED
  BY <1>2, <1>3
=============================================================================
