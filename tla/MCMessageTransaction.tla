------------------------ MODULE MCMessageTransaction ------------------------
(* Small instances of MessageTransaction for TLC. *)
EXTENDS MessageTransaction

Plain == BuildMessage(0)
EncryptedEnvelope == Encrypt(Plain, 0)

Set(prepared, keys) ==
  [prepared : prepared, key : keys, encrypts : BOOLEAN, confirms : BOOLEAN,
   handles : BOOLEAN]

\* Built by the transaction with either key; provided without a signature, or
\* with an empty one; provided and signed by the right key or by another.
PlainSettings ==
  Set({Null}, {"right", "wrong"})
  \cup Set({Plain, [Plain EXCEPT !.signature = Empty]}, {"right"})
  \cup Set({Sign(Plain, "right"), Sign(Plain, "wrong")}, {Null})

\* Provided in encrypted mode and signed, as an appnet prepares it and the
\* owner of the credential signs it.
EncryptedSettings ==
  [prepared : {Sign(EncryptedEnvelope, "right")}, key : {Null}, encrypts : {FALSE},
   confirms : {TRUE}, handles : {TRUE}]
=============================================================================
