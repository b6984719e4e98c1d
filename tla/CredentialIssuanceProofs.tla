--------------------- MODULE CredentialIssuanceProofs ----------------------
(***************************************************************************)
(* Proofs about CredentialIssuance for every file, time, time_t width and  *)
(* library behaviour the assumptions allow.                                *)
(***************************************************************************)
EXTENDS CredentialIssuance, TLAPS

\* The steps at which token_expiry has passed the check of authutil.c:97.
ExpiryChecked == Labels \ {"issue", "issueExit", "done"}

\* The parts of TypeOK: control and inputs, memory, data.
TypeCtl ==
  /\ pc \in Labels /\ file \in Files /\ pass \in Passphrases /\ now \in Times
TypeMem ==
  /\ heap \in [Buffers -> PointerStates]
  /\ secret \subseteq Buffers /\ faults \subseteq Faults
  /\ disclosed \subseteq Buffers /\ dclean \subseteq Buffers
  /\ cclean \subseteq Buffers /\ dstatus \in BOOLEAN /\ lstatus \in BOOLEAN
TypeData ==
  /\ payloadLen \in Nat /\ plain \in Plains /\ keyLen \in Nat
  /\ expiry \in Int /\ tokenSe \in Int

\* The invariant's conjuncts beyond TypeOK.
PayloadPastHeader ==
  pc \in {"derive", "cipher"} => payloadLen > SaltSignatureAndValueSize
ExpiryKept == pc \in ExpiryChecked => expiry = now + SecondsInAnHour
TokenKept ==
  heap["token"] = "live" =>
    /\ tokenSe = now + SecondsInAnHour
    /\ pc \in {"issueExit", "done"}

(***************************************************************************)
(* The inductive invariant.  TypeOK alone is not inductive: the plaintext  *)
(* length payloadLen - 16 is only a natural number because Extract let the *)
(* call through, and the token's se field is only right because the value  *)
(* it copies passed the expiry check several steps earlier.                *)
(***************************************************************************)
IInv ==
  /\ TypeCtl /\ TypeMem /\ TypeData
  /\ PayloadPastHeader /\ ExpiryKept /\ TokenKept

\* TypeOK is the first three parts of the invariant.
LEMMA TypeSplit == TypeOK <=> TypeCtl /\ TypeMem /\ TypeData
BY DEF TypeOK, TypeCtl, TypeMem, TypeData

-----------------------------------------------------------------------------
\* A positive time_t sum of a valid time and an hour did not wrap: the
\* check of authutil.c:97 is enough when the time is below the range's end.
LEMMA NoWrapWhenPositive ==
  ASSUME NEW t \in Times,
         SignedWrap(t + SecondsInAnHour, TimeBits) > 0
  PROVE  SignedWrap(t + SecondsInAnHour, TimeBits) = t + SecondsInAnHour
<1> DEFINE L == TimeLimit
           x == t + SecondsInAnHour
<1>1. /\ L \in Nat /\ L > SecondsInAnHour
      /\ t \in 0 .. L - 1
      /\ SignedWrap(x, TimeBits) = ((x + L) % (2 * L)) - L
  BY Assumptions DEF TimeLimit, SignedWrap
<1>2. CASE x < L
  BY <1>1, <1>2 DEF SecondsInAnHour
<1>3. CASE x >= L
  <2>1. (x + L) % (2 * L) = x + L - 2 * L
    BY <1>1, <1>3 DEF SecondsInAnHour
  <2>2. QED
    BY <1>1, <2>1 DEF SecondsInAnHour
<1>4. QED
  BY <1>1, <1>2, <1>3 DEF SecondsInAnHour
\* The wrapped sum is an integer.
LEMMA WrapType ==
  ASSUME NEW x \in Int
  PROVE  SignedWrap(x, TimeBits) \in Int
<1>1. TimeLimit \in Nat \ {0} /\ 2^TimeBits = 2 * TimeLimit
  BY Assumptions DEF TimeLimit, SecondsInAnHour
<1>2. QED
  BY <1>1 DEF SignedWrap, TimeLimit

-----------------------------------------------------------------------------
(* The sizes computed from a file's texts are integers.                    *)

LEMMA PayloadTextType ==
  ASSUME NEW f \in FileRecords
  PROVE  PayloadText(f) \in [len : Nat, eq : Int]
BY DEF FileRecords, PayloadText, ContainerText, HeaderLen, PlainLen, KeyText,
   EncodedText, Base64CharBlockSize, Base64ByteBlockSize, SaltSignatureAndValueSize

LEMMA DecodeSizeType ==
  ASSUME NEW t \in [len : Nat, eq : Int], DecodeSucceeds(t)
  PROVE  DecodeByteArraySize(t) \in Nat \ {0}
BY DEF DecodeSucceeds, DecodeByteArraySize, Base64CharBlockSize, Base64ByteBlockSize

LEMMA KeySizesType ==
  ASSUME file \in FileRecords, plain \in Plains
  PROVE  KeySizes \subseteq Nat
<1>1. KeyTextPrefix(file, plain.len) \in [len : Nat, eq : Int]
  BY DEF FileRecords, Plains, KeyTextPrefix, KeyText, EncodedText,
     Base64CharBlockSize, Base64ByteBlockSize
<1>2. QED
  BY <1>1, DecodeSizeType DEF KeySizes, HmacSecretKeySize
-----------------------------------------------------------------------------
(* The memory helpers keep pointer states well formed, and never make the  *)
(* token live unless asked to.                                             *)

LEMMA AllocType ==
  ASSUME NEW h \in [Buffers -> PointerStates], NEW S
  PROVE  /\ Alloc(h, S) \in [Buffers -> PointerStates]
         /\ "token" \notin S => Alloc(h, S)["token"] = h["token"]
BY DEF Alloc, Buffers, PointerStates

LEMMA ReleaseType ==
  ASSUME NEW h \in [Buffers -> PointerStates], NEW S
  PROVE  /\ Release(h, S) \in [Buffers -> PointerStates]
         /\ Release(h, S)["token"] = "live" => h["token"] = "live"
BY DEF Release, Buffers, PointerStates

LEMMA FaultsType ==
  ASSUME NEW h \in [Buffers -> PointerStates], NEW S \in SUBSET Buffers
  PROVE  /\ FreeFaults(h, S) \subseteq Faults
         /\ ReadFaults(h, S) \subseteq Faults
BY DEF FreeFaults, ReadFaults, Faults, FaultKinds

LEMMA TrimmedType ==
  ASSUME NEW p \in Plains, p.nl => p.len >= 1
  PROVE  Trimmed(p) \in Plains
BY DEF Trimmed, Plains

-----------------------------------------------------------------------------
\* The initial state satisfies the inductive invariant.
LEMMA InitIInv == Init => IInv
<1> SUFFICES ASSUME Init PROVE IInv
  OBVIOUS
<1>1. NoBlocks \in [Buffers -> PointerStates] /\ NoBlocks["token"] = "null"
  BY DEF NoBlocks, Buffers, PointerStates
<1>2. TypeCtl /\ TypeMem
  BY <1>1 DEF Init, TypeCtl, TypeMem, Labels
<1>3. TypeData
  BY DEF Init, TypeData, Plains
<1>4. QED
  BY <1>1, <1>2, <1>3 DEF Init, IInv, PayloadPastHeader, ExpiryKept, TokenKept,
     ExpiryChecked

\* IssueBegin preserves the inductive invariant.
LEMMA IssueBeginIInv == IInv /\ IssueBegin => IInv'
<1> SUFFICES ASSUME IInv, IssueBegin PROVE IInv'
  OBVIOUS
<1> USE DEF IInv, TypeCtl, TypeMem, TypeData, PayloadPastHeader, ExpiryKept, TokenKept,
           inputs
<1>1. TypeCtl'
  BY DEF IssueBegin, inputs, Labels
<1>2. TypeMem'
  <2>1. heap' \in [Buffers -> PointerStates]
    BY AllocType, ReleaseType DEF IssueBegin, Buffers, PointerStates
  <2>2. faults' \subseteq Faults
    BY FaultsType DEF IssueBegin, Faults, FaultKinds, Buffers
  <2>3. QED
    BY <2>1, <2>2 DEF IssueBegin, Buffers
<1>3. TypeData'
  BY WrapType, Assumptions DEF IssueBegin, SecondsInAnHour
<1>4. PayloadPastHeader'
  BY DEF IssueBegin, PayloadPastHeader
<1>5. ExpiryKept'
  BY NoWrapWhenPositive DEF IssueBegin, ExpiryChecked, Labels
<1>6. TokenKept'
  BY AllocType, ReleaseType DEF IssueBegin, TokenKept, Buffers, PointerStates
<1>7. QED
  BY <1>1, <1>2, <1>3, <1>4, <1>5, <1>6 DEF IInv

\* LoadPayload preserves the inductive invariant.
LEMMA LoadPayloadIInv == IInv /\ LoadPayload => IInv'
<1> SUFFICES ASSUME IInv, LoadPayload PROVE IInv'
  OBVIOUS
<1> USE DEF IInv, TypeCtl, TypeMem, TypeData, PayloadPastHeader, ExpiryKept, TokenKept,
           inputs
<1>1. TypeCtl'
  BY DEF LoadPayload, inputs, Labels
<1>2. TypeMem'
  <2>1. heap' \in [Buffers -> PointerStates]
    BY AllocType, ReleaseType DEF LoadPayload, Buffers, PointerStates
  <2>2. faults' \subseteq Faults
    BY FaultsType DEF LoadPayload, Faults, FaultKinds, Buffers
  <2>3. QED
    BY <2>1, <2>2 DEF LoadPayload, Buffers
<1>3. TypeData'
  BY TrimmedType, Assumptions DEF LoadPayload, Plains, SignedWrap, KeySizes, DecodeByteArraySize, GenuinePlain
<1>4. PayloadPastHeader'
  BY DEF LoadPayload, PayloadPastHeader
<1>5. ExpiryKept'
  BY DEF LoadPayload, ExpiryChecked, Labels
<1>6. TokenKept'
  BY AllocType, ReleaseType DEF LoadPayload, TokenKept, Buffers, PointerStates
<1>7. QED
  BY <1>1, <1>2, <1>3, <1>4, <1>5, <1>6 DEF IInv

\* DecryptBegin preserves the inductive invariant.
LEMMA DecryptBeginIInv == IInv /\ DecryptBegin => IInv'
<1> SUFFICES ASSUME IInv, DecryptBegin PROVE IInv'
  OBVIOUS
<1> USE DEF IInv, TypeCtl, TypeMem, TypeData, PayloadPastHeader, ExpiryKept, TokenKept,
           inputs
<1>1. TypeCtl'
  BY DEF DecryptBegin, inputs, Labels
<1>2. TypeMem'
  <2>1. heap' \in [Buffers -> PointerStates]
    BY AllocType, ReleaseType DEF DecryptBegin, Buffers, PointerStates
  <2>2. faults' \subseteq Faults
    BY FaultsType DEF DecryptBegin, Faults, FaultKinds, Buffers
  <2>3. QED
    BY <2>1, <2>2 DEF DecryptBegin, Buffers
<1>3. TypeData'
  BY TrimmedType, Assumptions DEF DecryptBegin, Plains, SignedWrap, KeySizes, DecodeByteArraySize, GenuinePlain
<1>4. PayloadPastHeader'
  BY DEF DecryptBegin, PayloadPastHeader
<1>5. ExpiryKept'
  BY DEF DecryptBegin, ExpiryChecked, Labels
<1>6. TokenKept'
  BY AllocType, ReleaseType DEF DecryptBegin, TokenKept, Buffers, PointerStates
<1>7. QED
  BY <1>1, <1>2, <1>3, <1>4, <1>5, <1>6 DEF IInv

\* DecodePayload preserves the inductive invariant.
LEMMA DecodePayloadIInv == IInv /\ DecodePayload => IInv'
<1> SUFFICES ASSUME IInv, DecodePayload PROVE IInv'
  OBVIOUS
<1> USE DEF IInv, TypeCtl, TypeMem, TypeData, PayloadPastHeader, ExpiryKept, TokenKept,
           inputs
<1>1. TypeCtl'
  BY DEF DecodePayload, inputs, Labels
<1>2. TypeMem'
  <2>1. heap' \in [Buffers -> PointerStates]
    BY AllocType, ReleaseType DEF DecodePayload, Buffers, PointerStates
  <2>2. faults' \subseteq Faults
    BY FaultsType DEF DecodePayload, Faults, FaultKinds, Buffers
  <2>3. QED
    BY <2>1, <2>2 DEF DecodePayload, Buffers
<1>3. TypeData'
  BY PayloadTextType, DecodeSizeType, Assumptions DEF DecodePayload
<1>4. PayloadPastHeader'
  BY DEF DecodePayload, PayloadPastHeader
<1>5. ExpiryKept'
  BY DEF DecodePayload, ExpiryChecked, Labels
<1>6. TokenKept'
  BY AllocType, ReleaseType DEF DecodePayload, TokenKept, Buffers, PointerStates
<1>7. QED
  BY <1>1, <1>2, <1>3, <1>4, <1>5, <1>6 DEF IInv

\* Extract preserves the inductive invariant.
LEMMA ExtractIInv == IInv /\ Extract => IInv'
<1> SUFFICES ASSUME IInv, Extract PROVE IInv'
  OBVIOUS
<1> USE DEF IInv, TypeCtl, TypeMem, TypeData, PayloadPastHeader, ExpiryKept, TokenKept,
           inputs
<1>1. TypeCtl'
  BY DEF Extract, inputs, Labels
<1>2. TypeMem'
  <2>1. heap' \in [Buffers -> PointerStates]
    BY AllocType, ReleaseType DEF Extract, Buffers, PointerStates
  <2>2. faults' \subseteq Faults
    BY FaultsType DEF Extract, Faults, FaultKinds, Buffers
  <2>3. QED
    BY <2>1, <2>2 DEF Extract, Buffers
<1>3. TypeData'
  BY TrimmedType, Assumptions DEF Extract, Plains, SignedWrap, KeySizes, DecodeByteArraySize, GenuinePlain
<1>4. PayloadPastHeader'
  BY DEF Extract, PayloadPastHeader
<1>5. ExpiryKept'
  BY DEF Extract, ExpiryChecked, Labels
<1>6. TokenKept'
  BY AllocType, ReleaseType DEF Extract, TokenKept, Buffers, PointerStates
<1>7. QED
  BY <1>1, <1>2, <1>3, <1>4, <1>5, <1>6 DEF IInv

\* Derive preserves the inductive invariant.
LEMMA DeriveIInv == IInv /\ Derive => IInv'
<1> SUFFICES ASSUME IInv, Derive PROVE IInv'
  OBVIOUS
<1> USE DEF IInv, TypeCtl, TypeMem, TypeData, PayloadPastHeader, ExpiryKept, TokenKept,
           inputs
<1>1. TypeCtl'
  BY DEF Derive, inputs, Labels
<1>2. TypeMem'
  <2>1. heap' \in [Buffers -> PointerStates]
    BY AllocType, ReleaseType DEF Derive, Buffers, PointerStates
  <2>2. faults' \subseteq Faults
    BY FaultsType DEF Derive, Faults, FaultKinds, Buffers
  <2>3. QED
    BY <2>1, <2>2 DEF Derive, Buffers
<1>3. TypeData'
  BY TrimmedType, Assumptions DEF Derive, Plains, SignedWrap, KeySizes, DecodeByteArraySize, GenuinePlain
<1>4. PayloadPastHeader'
  BY DEF Derive, PayloadPastHeader
<1>5. ExpiryKept'
  BY DEF Derive, ExpiryChecked, Labels
<1>6. TokenKept'
  BY AllocType, ReleaseType DEF Derive, TokenKept, Buffers, PointerStates
<1>7. QED
  BY <1>1, <1>2, <1>3, <1>4, <1>5, <1>6 DEF IInv

\* Cipher preserves the inductive invariant.
LEMMA CipherIInv == IInv /\ Cipher => IInv'
<1> SUFFICES ASSUME IInv, Cipher PROVE IInv'
  OBVIOUS
<1> USE DEF IInv, TypeCtl, TypeMem, TypeData, PayloadPastHeader, ExpiryKept, TokenKept,
           inputs
<1>1. TypeCtl'
  BY DEF Cipher, inputs, Labels
<1>2. TypeMem'
  <2>1. heap' \in [Buffers -> PointerStates]
    BY AllocType, ReleaseType DEF Cipher, Buffers, PointerStates
  <2>2. faults' \subseteq Faults
    BY FaultsType DEF Cipher, Faults, FaultKinds, Buffers
  <2>3. QED
    BY <2>1, <2>2 DEF Cipher, Buffers
<1>3. TypeData'
  <2> DEFINE m == payloadLen - SaltSignatureAndValueSize
  <2>1. m \in Nat \ {0}
    BY DEF Cipher, SaltSignatureAndValueSize
  <2>2. /\ GenuinePlain(file, m) \in Plains
        /\ GenuinePlain(file, m).nl => GenuinePlain(file, m).len >= 1
    BY <2>1, Assumptions DEF GenuinePlain, FileRecords, Plains
  <2>3. Trimmed(GenuinePlain(file, m)) \in Plains
    BY <2>2, TrimmedType
  <2>4. ASSUME NEW nl \in BOOLEAN, NEW nul \in BOOLEAN
        PROVE  Trimmed([len |-> m, nl |-> nl, nul |-> nul, genuine |-> FALSE]) \in Plains
    <3>1. [len |-> m, nl |-> nl, nul |-> nul, genuine |-> FALSE] \in Plains
      BY <2>1 DEF Plains
    <3>2. QED
      BY <2>1, <3>1, TrimmedType
  <2>5. plain' \in Plains
    BY <2>3, <2>4 DEF Cipher
  <2>6. QED
    BY <2>5 DEF Cipher
<1>4. PayloadPastHeader'
  BY DEF Cipher, PayloadPastHeader
<1>5. ExpiryKept'
  BY DEF Cipher, ExpiryChecked, Labels
<1>6. TokenKept'
  BY AllocType, ReleaseType DEF Cipher, TokenKept, Buffers, PointerStates
<1>7. QED
  BY <1>1, <1>2, <1>3, <1>4, <1>5, <1>6 DEF IInv

\* DecryptExit preserves the inductive invariant.
LEMMA DecryptExitIInv == IInv /\ DecryptExit => IInv'
<1> SUFFICES ASSUME IInv, DecryptExit PROVE IInv'
  OBVIOUS
<1> USE DEF IInv, TypeCtl, TypeMem, TypeData, PayloadPastHeader, ExpiryKept, TokenKept,
           inputs
<1>1. TypeCtl'
  BY DEF DecryptExit, inputs, Labels
<1>2. TypeMem'
  <2>1. heap' \in [Buffers -> PointerStates]
    BY AllocType, ReleaseType DEF DecryptExit, Buffers, PointerStates
  <2>2. faults' \subseteq Faults
    BY FaultsType DEF DecryptExit, Faults, FaultKinds, Buffers
  <2>3. QED
    BY <2>1, <2>2 DEF DecryptExit, Buffers
<1>3. TypeData'
  BY TrimmedType, Assumptions DEF DecryptExit, Plains, SignedWrap, KeySizes, DecodeByteArraySize, GenuinePlain
<1>4. PayloadPastHeader'
  BY DEF DecryptExit, PayloadPastHeader
<1>5. ExpiryKept'
  BY DEF DecryptExit, ExpiryChecked, Labels
<1>6. TokenKept'
  BY AllocType, ReleaseType DEF DecryptExit, TokenKept, Buffers, PointerStates
<1>7. QED
  BY <1>1, <1>2, <1>3, <1>4, <1>5, <1>6 DEF IInv

\* TextString preserves the inductive invariant.
LEMMA TextStringIInv == IInv /\ TextString => IInv'
<1> SUFFICES ASSUME IInv, TextString PROVE IInv'
  OBVIOUS
<1> USE DEF IInv, TypeCtl, TypeMem, TypeData, PayloadPastHeader, ExpiryKept, TokenKept,
           inputs
<1>1. TypeCtl'
  BY DEF TextString, inputs, Labels
<1>2. TypeMem'
  <2>1. heap' \in [Buffers -> PointerStates]
    BY AllocType, ReleaseType DEF TextString, Buffers, PointerStates
  <2>2. faults' \subseteq Faults
    BY FaultsType DEF TextString, Faults, FaultKinds, Buffers
  <2>3. QED
    BY <2>1, <2>2 DEF TextString, Buffers
<1>3. TypeData'
  BY TrimmedType, Assumptions DEF TextString, Plains, SignedWrap, KeySizes, DecodeByteArraySize, GenuinePlain
<1>4. PayloadPastHeader'
  BY DEF TextString, PayloadPastHeader
<1>5. ExpiryKept'
  BY DEF TextString, ExpiryChecked, Labels
<1>6. TokenKept'
  BY AllocType, ReleaseType DEF TextString, TokenKept, Buffers, PointerStates
<1>7. QED
  BY <1>1, <1>2, <1>3, <1>4, <1>5, <1>6 DEF IInv

\* AfterLoad preserves the inductive invariant.
LEMMA AfterLoadIInv == IInv /\ AfterLoad => IInv'
<1> SUFFICES ASSUME IInv, AfterLoad PROVE IInv'
  OBVIOUS
<1> USE DEF IInv, TypeCtl, TypeMem, TypeData, PayloadPastHeader, ExpiryKept, TokenKept,
           inputs
<1>1. TypeCtl'
  BY DEF AfterLoad, inputs, Labels
<1>2. TypeMem'
  <2>1. heap' \in [Buffers -> PointerStates]
    BY AllocType, ReleaseType DEF AfterLoad, Buffers, PointerStates
  <2>2. faults' \subseteq Faults
    BY <2>1, FaultsType DEF AfterLoad, Faults, FaultKinds, Buffers, PointerStates
  <2>3. QED
    BY <2>1, <2>2 DEF AfterLoad, Buffers
<1>3. TypeData'
  BY TrimmedType, Assumptions DEF AfterLoad, Plains, SignedWrap, KeySizes, DecodeByteArraySize, GenuinePlain
<1>4. PayloadPastHeader'
  BY DEF AfterLoad, PayloadPastHeader
<1>5. ExpiryKept'
  BY DEF AfterLoad, ExpiryChecked, Labels
<1>6. TokenKept'
  BY AllocType, ReleaseType DEF AfterLoad, TokenKept, Buffers, PointerStates
<1>7. QED
  BY <1>1, <1>2, <1>3, <1>4, <1>5, <1>6 DEF IInv

\* DecodeKey preserves the inductive invariant.
LEMMA DecodeKeyIInv == IInv /\ DecodeKey => IInv'
<1> SUFFICES ASSUME IInv, DecodeKey PROVE IInv'
  OBVIOUS
<1> USE DEF IInv, TypeCtl, TypeMem, TypeData, PayloadPastHeader, ExpiryKept, TokenKept,
           inputs
<1>1. TypeCtl'
  BY DEF DecodeKey, inputs, Labels
<1>2. TypeMem'
  <2>1. heap' \in [Buffers -> PointerStates]
    BY AllocType, ReleaseType DEF DecodeKey, Buffers, PointerStates
  <2>2. faults' \subseteq Faults
    BY FaultsType DEF DecodeKey, Faults, FaultKinds, Buffers
  <2>3. QED
    BY <2>1, <2>2 DEF DecodeKey, Buffers, Zeroed
<1>3. TypeData'
  BY KeySizesType, Assumptions DEF DecodeKey
<1>4. PayloadPastHeader'
  BY DEF DecodeKey, PayloadPastHeader
<1>5. ExpiryKept'
  BY DEF DecodeKey, ExpiryChecked, Labels
<1>6. TokenKept'
  BY AllocType, ReleaseType DEF DecodeKey, TokenKept, Buffers, PointerStates
<1>7. QED
  BY <1>1, <1>2, <1>3, <1>4, <1>5, <1>6 DEF IInv

\* Hmac preserves the inductive invariant.
LEMMA HmacIInv == IInv /\ Hmac => IInv'
<1> SUFFICES ASSUME IInv, Hmac PROVE IInv'
  OBVIOUS
<1> USE DEF IInv, TypeCtl, TypeMem, TypeData, PayloadPastHeader, ExpiryKept, TokenKept,
           inputs
<1>1. TypeCtl'
  BY DEF Hmac, inputs, Labels
<1>2. TypeMem'
  <2>1. heap' \in [Buffers -> PointerStates]
    BY AllocType, ReleaseType DEF Hmac, Buffers, PointerStates
  <2>2. faults' \subseteq Faults
    BY FaultsType DEF Hmac, Faults, FaultKinds, Buffers
  <2>3. QED
    BY <2>1, <2>2 DEF Hmac, Buffers, Zeroed
<1>3. TypeData'
  BY TrimmedType, Assumptions DEF Hmac, Plains, SignedWrap, KeySizes, DecodeByteArraySize, GenuinePlain
<1>4. PayloadPastHeader'
  BY DEF Hmac, PayloadPastHeader
<1>5. ExpiryKept'
  BY DEF Hmac, ExpiryChecked, Labels
<1>6. TokenKept'
  BY AllocType, ReleaseType DEF Hmac, TokenKept, Buffers, PointerStates
<1>7. QED
  BY <1>1, <1>2, <1>3, <1>4, <1>5, <1>6 DEF IInv

\* EncodeHmac preserves the inductive invariant.
LEMMA EncodeHmacIInv == IInv /\ EncodeHmac => IInv'
<1> SUFFICES ASSUME IInv, EncodeHmac PROVE IInv'
  OBVIOUS
<1> USE DEF IInv, TypeCtl, TypeMem, TypeData, PayloadPastHeader, ExpiryKept, TokenKept,
           inputs
<1>1. TypeCtl'
  BY DEF EncodeHmac, inputs, Labels
<1>2. TypeMem'
  <2>1. heap' \in [Buffers -> PointerStates]
    BY AllocType, ReleaseType DEF EncodeHmac, Buffers, PointerStates
  <2>2. faults' \subseteq Faults
    BY FaultsType DEF EncodeHmac, Faults, FaultKinds, Buffers
  <2>3. QED
    BY <2>1, <2>2 DEF EncodeHmac, Buffers
<1>3. TypeData'
  BY TrimmedType, Assumptions DEF EncodeHmac, Plains, SignedWrap, KeySizes, DecodeByteArraySize, GenuinePlain
<1>4. PayloadPastHeader'
  BY DEF EncodeHmac, PayloadPastHeader
<1>5. ExpiryKept'
  BY DEF EncodeHmac, ExpiryChecked, Labels
<1>6. TokenKept'
  BY AllocType, ReleaseType DEF EncodeHmac, TokenKept, Buffers, PointerStates
<1>7. QED
  BY <1>1, <1>2, <1>3, <1>4, <1>5, <1>6 DEF IInv

\* FormatToken preserves the inductive invariant.
LEMMA FormatTokenIInv == IInv /\ FormatToken => IInv'
<1> SUFFICES ASSUME IInv, FormatToken PROVE IInv'
  OBVIOUS
<1> USE DEF IInv, TypeCtl, TypeMem, TypeData, PayloadPastHeader, ExpiryKept, TokenKept,
           inputs
<1>1. TypeCtl'
  BY DEF FormatToken, inputs, Labels
<1>2. TypeMem'
  <2>1. heap' \in [Buffers -> PointerStates]
    BY AllocType, ReleaseType DEF FormatToken, Buffers, PointerStates
  <2>2. faults' \subseteq Faults
    BY DEF FormatToken
  <2>3. QED
    BY <2>1, <2>2 DEF FormatToken, Buffers
<1>3. TypeData'
  BY TrimmedType, Assumptions DEF FormatToken, Plains, SignedWrap, KeySizes, DecodeByteArraySize, GenuinePlain
<1>4. PayloadPastHeader'
  BY DEF FormatToken, PayloadPastHeader
<1>5. ExpiryKept'
  BY DEF FormatToken, ExpiryChecked, Labels
<1>6. TokenKept'
  BY AllocType, ReleaseType DEF FormatToken, TokenKept, Buffers, PointerStates,
     ExpiryChecked, Labels
<1>7. QED
  BY <1>1, <1>2, <1>3, <1>4, <1>5, <1>6 DEF IInv

\* IssueExit preserves the inductive invariant.
LEMMA IssueExitIInv == IInv /\ IssueExit => IInv'
<1> SUFFICES ASSUME IInv, IssueExit PROVE IInv'
  OBVIOUS
<1> USE DEF IInv, TypeCtl, TypeMem, TypeData, PayloadPastHeader, ExpiryKept, TokenKept,
           inputs
<1>1. TypeCtl'
  BY DEF IssueExit, inputs, Labels
<1>2. TypeMem'
  <2>1. heap' \in [Buffers -> PointerStates]
    BY AllocType, ReleaseType DEF IssueExit, Buffers, PointerStates
  <2>2. faults' \subseteq Faults
    BY FaultsType DEF IssueExit, Faults, FaultKinds, Buffers
  <2>3. QED
    BY <2>1, <2>2 DEF IssueExit, Buffers
<1>3. TypeData'
  BY TrimmedType, Assumptions DEF IssueExit, Plains, SignedWrap, KeySizes, DecodeByteArraySize, GenuinePlain
<1>4. PayloadPastHeader'
  BY DEF IssueExit, PayloadPastHeader
<1>5. ExpiryKept'
  BY DEF IssueExit, ExpiryChecked, Labels
<1>6. TokenKept'
  BY AllocType, ReleaseType DEF IssueExit, TokenKept, Buffers, PointerStates
<1>7. QED
  BY <1>1, <1>2, <1>3, <1>4, <1>5, <1>6 DEF IInv

-----------------------------------------------------------------------------
\* Every step of the call, and every stutter, preserves the invariant.
LEMMA NextIInv == IInv /\ [Next]_vars => IInv'
<1> SUFFICES ASSUME IInv, [Next]_vars PROVE IInv'
  OBVIOUS
<1>1. CASE UNCHANGED vars
  BY <1>1 DEF vars, IInv, TypeCtl, TypeMem, TypeData, PayloadPastHeader,
     ExpiryKept, TokenKept
<1>2. QED
  BY <1>1, IssueBeginIInv, LoadPayloadIInv, DecryptBeginIInv, DecodePayloadIInv,
     ExtractIInv, DeriveIInv, CipherIInv, DecryptExitIInv, TextStringIInv,
     AfterLoadIInv, DecodeKeyIInv, HmacIInv, EncodeHmacIInv, FormatTokenIInv,
     IssueExitIInv DEF Next

\* Type correctness of the whole call of create_shared_access_token,
\* for every file, time, time_t width and library behaviour.
THEOREM TypeCorrect == Spec => []TypeOK
<1>1. IInv => TypeOK
  BY TypeSplit DEF IInv
<1>2. QED
  BY <1>1, InitIInv, NextIInv, PTL DEF Spec

\* A token create_shared_access_token returns carries an se field exactly
\* one hour after the time it read, whatever the width of time_t: the
\* token_expiry > 0 check of authutil.c:97 rules out a wrapped expiry for
\* every time in the range of time_t.
THEOREM TokenUnexpired == Spec => []IssuedTokenUnexpired
<1>1. IInv => IssuedTokenUnexpired
  BY DEF IInv, TokenKept, IssuedTokenUnexpired
<1>2. QED
  BY <1>1, InitIInv, NextIInv, PTL DEF Spec

=============================================================================
