------------------------- MODULE Base64CodecProofs --------------------------
(***************************************************************************)
(* The base64 round trip of cryptoutil.c for byte arrays of every length.  *)
(***************************************************************************)
EXTENDS Base64Codec, TLAPS

\* For every non-empty byte array, compute_base64_decode accepts the text
\* compute_base64_encode writes for it and sizes its output to exactly the
\* array's length.
LEMMA RoundTripArithmetic ==
  ASSUME NEW n \in Nat \ {0}
  PROVE  /\ DecodeSucceeds(EncodedText(n))
         /\ DecodeByteArraySize(EncodedText(n)) = n
<1> DEFINE q == n \div 3
           r == n % 3
<1>1. n = 3 * q + r /\ q \in Nat /\ r \in 0 .. 2
  OBVIOUS
<1> USE DEF DecodeSucceeds, DecodeByteArraySize, BioDecodedCount, EncodedText,
           Base64CharBlockSize, Base64ByteBlockSize
<1>2. CASE r = 0
  <2>1. q >= 1 /\ EncodedText(n) = [len |-> 4 * q, eq |-> 0]
    BY <1>1, <1>2
  <2>2. QED
    BY <2>1, <1>1, <1>2
<1>3. CASE r = 1
  <2>1. EncodedText(n) = [len |-> 4 * (q + 1), eq |-> 2]
    BY <1>1, <1>3
  <2>2. QED
    BY <2>1, <1>1, <1>3
<1>4. CASE r = 2
  <2>1. EncodedText(n) = [len |-> 4 * (q + 1), eq |-> 1]
    BY <1>1, <1>4
  <2>2. QED
    BY <2>1, <1>1, <1>4
<1>5. QED
  BY <1>1, <1>2, <1>3, <1>4

\* The inductive invariant: a successful encode holds the text of its
\* array, and the latest decode's result is what compute_base64_decode
\* returns for its input.
IInv ==
  /\ TypeOK
  /\ encoded.ok => bytes > 0 /\ encoded.text = EncodedText(bytes)
  /\ decoded = IF DecodeSucceeds(input)
                 THEN [ok |-> TRUE, size |-> DecodeByteArraySize(input)]
                 ELSE Failed

LEMMA InitIInv == Init => IInv
BY CodecBounds DEF Init, IInv, TypeOK, Failed, DecodeSucceeds,
   DecodeByteArraySize, Base64CharBlockSize, Base64ByteBlockSize

LEMMA EncodedTextType ==
  ASSUME NEW n \in Nat
  PROVE  EncodedText(n) \in [len : Nat, eq : 0 .. 2]
BY DEF EncodedText, Base64CharBlockSize, Base64ByteBlockSize

LEMMA DecodeType ==
  ASSUME NEW t \in [len : Nat, eq : 0 .. 2]
  PROVE  (IF DecodeSucceeds(t)
            THEN [ok |-> TRUE, size |-> DecodeByteArraySize(t)]
            ELSE Failed) \in [ok : BOOLEAN, size : Nat]
BY DEF DecodeSucceeds, DecodeByteArraySize, Failed, Base64CharBlockSize,
   Base64ByteBlockSize

LEMMA NextIInv == IInv /\ [Next]_vars => IInv'
<1> SUFFICES ASSUME IInv, [Next]_vars PROVE IInv'
  OBVIOUS
<1>1. ASSUME NEW n \in 0 .. MaxBytes, Encode(n) PROVE IInv'
  BY <1>1, EncodedTextType, CodecBounds DEF Encode, IInv, TypeOK
<1>2. ASSUME NEW t \in [len : Nat, eq : 0 .. 2], Decode(t) PROVE IInv'
  BY <1>2, DecodeType DEF Decode, IInv, TypeOK
<1>3. CASE UNCHANGED vars
  BY <1>3 DEF vars, IInv, TypeOK
<1>4. QED
  BY <1>1, <1>2, <1>3 DEF Next, Texts, IInv, TypeOK

\* Every decode of the text the latest encode produced returns the encoded
\* array's length, for every bound on the lengths.
THEOREM RoundTrip == Spec => []DecodeInvertsEncode
<1>1. IInv => DecodeInvertsEncode
  <2> SUFFICES ASSUME IInv, encoded.ok, input = encoded.text
               PROVE  decoded = [ok |-> TRUE, size |-> bytes]
    BY DEF DecodeInvertsEncode
  <2>1. bytes \in Nat \ {0} /\ input = EncodedText(bytes)
    BY DEF IInv, TypeOK
  <2>2. DecodeSucceeds(input) /\ DecodeByteArraySize(input) = bytes
    BY <2>1, RoundTripArithmetic
  <2>3. QED
    BY <2>2 DEF IInv
<1>2. QED
  BY <1>1, InitIInv, NextIInv, PTL DEF Spec

=============================================================================
