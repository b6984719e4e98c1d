---------------------------- MODULE Base64Codec ----------------------------
(***************************************************************************)
(* A client of the base64 helpers of cryptoutil.c: compute_base64_encode   *)
(* of a byte array, then compute_base64_decode of the text it produced or  *)
(* of any other text.  The helpers keep no state; the variables hold the   *)
(* arguments and results of the latest calls, so that properties can       *)
(* relate a decode to the encode before it.                                *)
(***************************************************************************)
EXTENDS CryptoUtil

CONSTANTS
  MaxBytes,   \* the longest byte array encoded
  MaxChars    \* the longest text decoded

ASSUME CodecBounds == MaxBytes \in Nat /\ MaxChars \in Nat

\* The texts decoded: any length, '=' only at the end and at most two.
Texts == {t \in [len : 0 .. MaxChars, eq : 0 .. 2] : t.eq <= t.len}

\* The result of a call that failed.
Failed == [ok |-> FALSE, size |-> 0]

VARIABLES
  bytes,     \* byte_array_size of the latest encode
  encoded,   \* its result: the text, or a failure
  input,     \* the text given to the latest decode
  decoded    \* its result: ok and output_byte_array_size

vars == <<bytes, encoded, input, decoded>>

Init ==
  /\ bytes = 0
  /\ encoded = [ok |-> FALSE, text |-> [len |-> 0, eq |-> 0]]
  /\ input = [len |-> 0, eq |-> 0]
  /\ decoded = Failed

\* compute_base64_encode: refuses an empty array, otherwise writes the
\* array through a base64 BIO without line feeds and copies the text out.
Encode(n) ==
  /\ bytes' = n
  /\ encoded' = IF n > 0 THEN [ok |-> TRUE, text |-> EncodedText(n)]
                         ELSE [ok |-> FALSE, text |-> [len |-> 0, eq |-> 0]]
  /\ UNCHANGED <<input, decoded>>

\* compute_base64_decode: sizes the output from the text, reads that many
\* bytes through a base64 BIO and fails unless exactly that many came.
Decode(t) ==
  /\ input' = t
  /\ decoded' = IF DecodeSucceeds(t)
                  THEN [ok |-> TRUE, size |-> DecodeByteArraySize(t)]
                  ELSE Failed
  /\ UNCHANGED <<bytes, encoded>>

Next ==
  \/ \E n \in 0 .. MaxBytes : Encode(n)
  \/ encoded.ok /\ Decode(encoded.text)
  \/ \E t \in Texts : Decode(t)

Spec == Init /\ [][Next]_vars

TypeOK ==
  /\ bytes \in 0 .. MaxBytes
  /\ encoded \in [ok : BOOLEAN, text : [len : Nat, eq : 0 .. 2]]
  /\ input \in [len : Nat, eq : 0 .. 2]
  /\ decoded \in [ok : BOOLEAN, size : Nat]

\* Decoding the text compute_base64_encode produced gives back as many
\* bytes as were encoded: the size arithmetic of compute_base64_decode_
\* byte_array_size agrees with the padding the encoder writes, for every
\* length modulo 3.
DecodeInvertsEncode ==
  encoded.ok /\ input = encoded.text => decoded = [ok |-> TRUE, size |-> bytes]

=============================================================================
