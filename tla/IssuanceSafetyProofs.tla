------------------------- MODULE IssuanceSafetyProofs -------------------------
(***************************************************************************)
(* Proofs that no path of create_shared_access_token frees a block twice   *)
(* or reads a freed one, and that a token is only returned after the       *)
(* shared access key was zeroed, for every file, time, time_t width and    *)
(* pattern of library failures.                                            *)
(*                                                                         *)
(* Neither NoDoubleFree nor NoUseAfterFree is inductive: whether a free or *)
(* a read is defined depends on which blocks earlier steps freed.  MInv    *)
(* says which ones those can be: the plaintext (freed by compute_aes256cfb_ *)
(* cipher or by load_base64_encoded_secret_key), the escaped signature     *)
(* (curl_free), the decryptor's free list once it has been walked, and the *)
(* issuer's once the call has returned.  The two free lists hold disjoint *)
(* blocks, so walking one never frees a block of the other.                *)
(***************************************************************************)
EXTENDS IssuerLeakProofs

\* The blocks decrypt_base64_encoded_openssl_payload frees on its way out
\* (cryptoutil.c:182-236) and those create_shared_access_token frees on its
\* way out (authutil.c:160-197).
DecryptFrees == {"passphrase", "payload", "salt", "ciphertext", "cipherKey", "cipherIv"}
IssuerFrees == {"curl", "urlEndpoint", "b64Key", "message", "secretKey", "hmac", "b64Hmac"}

\* The steps before the decryptor's free list has been walked.
BeforeDecryptExit == {"issue", "loadPayload", "decryptBegin"} \cup DecryptPhase

\* The blocks that may have been freed by the steps taken so far.
MayBeFreed ==
  {"plaintext", "urlHmac"}
  \cup (IF pc \in BeforeDecryptExit THEN {} ELSE dclean)
  \cup (IF pc = "done" THEN cclean ELSE {})

\* The free lists hold what the code puts on them.
FreeListsKept == dclean \subseteq DecryptFrees /\ cclean \subseteq IssuerFrees

\* Only a block a step has freed dangles.
DanglingFreed == \A b \in Buffers : heap[b] = "dangling" => b \in MayBeFreed

\* The plaintext that decryption hands to load_base64_encoded_secret_key is
\* live: operation_status is only set together with its allocation.
PlaintextHeld ==
  /\ pc \in {"decodePayload", "extract", "derive", "cipher"} => ~dstatus
  /\ pc = "decryptExit" /\ dstatus => heap["plaintext"] = "live"
  /\ pc = "textString" => heap["plaintext"] = "live"

\* The strengthening of NoDoubleFree and NoUseAfterFree.
MInv ==
  /\ FreeListsKept /\ DanglingFreed /\ PlaintextHeld
  /\ NoDoubleFree /\ NoUseAfterFree

\* The shared access key is out of the secret set once it has been zeroed:
\* its text at compute_sha256_hmac, its bytes from then on, and a live
\* token is only built after both.
KInv ==
  /\ pc \in {"hmac", "encodeHmac", "formatToken"} => "b64Key" \notin secret
  /\ pc \in {"encodeHmac", "formatToken"} => "secretKey" \notin secret
  /\ heap["token"] = "live" =>
       /\ pc \in {"issueExit", "done"}
       /\ "b64Key" \notin secret /\ "secretKey" \notin secret


-----------------------------------------------------------------------------
(* What the fault helpers log.                                             *)

\* free logs a double free or an invalid free, a read a use after free or
\* an uninitialized read, and neither logs a freed block unless one of its
\* pointers dangles.
LEMMA FaultKindsOf ==
  ASSUME NEW h, NEW S
  PROVE  /\ \A f \in FreeFaults(h, S) :
              f.kind = "double_free" => \E b \in S : h[b] = "dangling"
         /\ \A f \in FreeFaults(h, S) : f.kind # "use_after_free"
         /\ \A f \in ReadFaults(h, S) :
              f.kind = "use_after_free" => \E b \in S : h[b] = "dangling"
         /\ \A f \in ReadFaults(h, S) : f.kind # "double_free"
BY DEF FreeFaults, ReadFaults

-----------------------------------------------------------------------------
(* Each step preserves MInv.                                               *)

USE DEF MInv, FreeListsKept, DanglingFreed, PlaintextHeld, MayBeFreed,
        BeforeDecryptExit, DecryptPhase, DecryptFrees, IssuerFrees

LEMMA InitMInv == Init => MInv
BY DEF Init, NoBlocks, NoDoubleFree, NoUseAfterFree, Buffers

\* The blocks a step may still free or read: the payload text is never
\* freed, the issuer's blocks not before the return, and the decryptor's
\* not before its free list is walked.
LEMMA NotYetFreed ==
  ASSUME IInv, MInv
  PROVE  /\ heap["payloadText"] # "dangling"
         /\ pc # "done" => \A b \in IssuerFrees : heap[b] # "dangling"
         /\ pc \in BeforeDecryptExit => \A b \in DecryptFrees : heap[b] # "dangling"
BY DEF Buffers

LEMMA IssueBeginMInv == IInv /\ MInv /\ IssueBegin => MInv'
<1> SUFFICES ASSUME IInv, MInv, IssueBegin PROVE MInv'
  OBVIOUS
<1>1. FreeListsKept'
  BY DEF IssueBegin
<1>2. PlaintextHeld'
  BY HeapType, HeapOps DEF IssueBegin, Buffers
<1>3. DanglingFreed'
  BY HeapType, HeapOps DEF IssueBegin, Buffers
<1>4. NoDoubleFree' /\ NoUseAfterFree'
  BY HeapType, NotYetFreed DEF IssueBegin, NoDoubleFree, NoUseAfterFree, FreeFaults,
     ReadFaults, IInv, TypeCtl, Labels
<1> QED
  BY <1>1, <1>2, <1>3, <1>4

LEMMA LoadPayloadMInv == IInv /\ MInv /\ LoadPayload => MInv'
<1> SUFFICES ASSUME IInv, MInv, LoadPayload PROVE MInv'
  OBVIOUS
<1>1. FreeListsKept'
  BY DEF LoadPayload
<1>2. PlaintextHeld'
  BY HeapType, HeapOps DEF LoadPayload, Buffers
<1>3. DanglingFreed'
  BY HeapType, HeapOps DEF LoadPayload, Buffers
<1>4. NoDoubleFree' /\ NoUseAfterFree'
  BY HeapType, NotYetFreed DEF LoadPayload, NoDoubleFree, NoUseAfterFree, FreeFaults,
     ReadFaults, IInv, TypeCtl, Labels
<1> QED
  BY <1>1, <1>2, <1>3, <1>4

LEMMA DecryptBeginMInv == IInv /\ MInv /\ DecryptBegin => MInv'
<1> SUFFICES ASSUME IInv, MInv, DecryptBegin PROVE MInv'
  OBVIOUS
<1>1. FreeListsKept'
  BY DEF DecryptBegin
<1>2. PlaintextHeld'
  BY HeapType, HeapOps DEF DecryptBegin, Buffers
<1>3. DanglingFreed'
  BY HeapType, HeapOps DEF DecryptBegin, Buffers
<1>4. NoDoubleFree' /\ NoUseAfterFree'
  BY HeapType, NotYetFreed DEF DecryptBegin, NoDoubleFree, NoUseAfterFree, FreeFaults,
     ReadFaults, IInv, TypeCtl, Labels
<1> QED
  BY <1>1, <1>2, <1>3, <1>4

LEMMA DecodePayloadMInv == IInv /\ MInv /\ DecodePayload => MInv'
<1> SUFFICES ASSUME IInv, MInv, DecodePayload PROVE MInv'
  OBVIOUS
<1>1. FreeListsKept'
  BY DEF DecodePayload
<1>2. PlaintextHeld'
  BY HeapType, HeapOps DEF DecodePayload, Buffers
<1>3. DanglingFreed'
  BY HeapType, HeapOps DEF DecodePayload, Buffers
<1>4. NoDoubleFree' /\ NoUseAfterFree'
  BY HeapType, NotYetFreed DEF DecodePayload, NoDoubleFree, NoUseAfterFree, FreeFaults,
     ReadFaults, IInv, TypeCtl, Labels
<1> QED
  BY <1>1, <1>2, <1>3, <1>4

LEMMA ExtractMInv == IInv /\ MInv /\ Extract => MInv'
<1> SUFFICES ASSUME IInv, MInv, Extract PROVE MInv'
  OBVIOUS
<1>1. FreeListsKept'
  BY DEF Extract
<1>2. PlaintextHeld'
  BY HeapType, HeapOps DEF Extract, Buffers
<1>3. DanglingFreed'
  BY HeapType, HeapOps DEF Extract, Buffers
<1>4. NoDoubleFree' /\ NoUseAfterFree'
  BY HeapType, NotYetFreed DEF Extract, NoDoubleFree, NoUseAfterFree, FreeFaults,
     ReadFaults, IInv, TypeCtl, Labels
<1> QED
  BY <1>1, <1>2, <1>3, <1>4

LEMMA DeriveMInv == IInv /\ MInv /\ Derive => MInv'
<1> SUFFICES ASSUME IInv, MInv, Derive PROVE MInv'
  OBVIOUS
<1>1. FreeListsKept'
  BY DEF Derive
<1>2. PlaintextHeld'
  BY HeapType, HeapOps DEF Derive, Buffers
<1>3. DanglingFreed'
  BY HeapType, HeapOps DEF Derive, Buffers
<1>4. NoDoubleFree' /\ NoUseAfterFree'
  BY HeapType, NotYetFreed DEF Derive, NoDoubleFree, NoUseAfterFree, FreeFaults,
     ReadFaults, IInv, TypeCtl, Labels
<1> QED
  BY <1>1, <1>2, <1>3, <1>4

LEMMA CipherMInv == IInv /\ MInv /\ Cipher => MInv'
<1> SUFFICES ASSUME IInv, MInv, Cipher PROVE MInv'
  OBVIOUS
<1>1. FreeListsKept'
  BY DEF Cipher
<1>2. PlaintextHeld'
  BY HeapType, HeapOps DEF Cipher, Buffers
<1>3. DanglingFreed'
  BY HeapType, HeapOps DEF Cipher, Buffers
<1>4. NoDoubleFree' /\ NoUseAfterFree'
  BY HeapType, NotYetFreed DEF Cipher, NoDoubleFree, NoUseAfterFree, FreeFaults,
     ReadFaults, IInv, TypeCtl, Labels
<1> QED
  BY <1>1, <1>2, <1>3, <1>4

LEMMA DecryptExitMInv == IInv /\ MInv /\ DecryptExit => MInv'
<1> SUFFICES ASSUME IInv, MInv, DecryptExit PROVE MInv'
  OBVIOUS
<1>1. FreeListsKept'
  BY DEF DecryptExit
<1>2. PlaintextHeld'
  BY HeapType, HeapOps DEF DecryptExit, Buffers
<1>3. DanglingFreed'
  BY HeapType, HeapOps DEF DecryptExit, Buffers
<1>4. NoDoubleFree' /\ NoUseAfterFree'
  BY HeapType, NotYetFreed DEF DecryptExit, NoDoubleFree, NoUseAfterFree, FreeFaults,
     ReadFaults, IInv, TypeCtl, Labels
<1> QED
  BY <1>1, <1>2, <1>3, <1>4

LEMMA TextStringMInv == IInv /\ MInv /\ TextString => MInv'
<1> SUFFICES ASSUME IInv, MInv, TextString PROVE MInv'
  OBVIOUS
<1>1. FreeListsKept'
  BY DEF TextString
<1>2. PlaintextHeld'
  BY HeapType, HeapOps DEF TextString, Buffers
<1>3. DanglingFreed'
  BY HeapType, HeapOps DEF TextString, Buffers
<1>4. NoDoubleFree' /\ NoUseAfterFree'
  BY HeapType, NotYetFreed DEF TextString, NoDoubleFree, NoUseAfterFree, FreeFaults,
     ReadFaults, IInv, TypeCtl, Labels
<1> QED
  BY <1>1, <1>2, <1>3, <1>4

LEMMA AfterLoadMInv == IInv /\ MInv /\ AfterLoad => MInv'
<1> SUFFICES ASSUME IInv, MInv, AfterLoad PROVE MInv'
  OBVIOUS
<1>1. FreeListsKept'
  BY DEF AfterLoad
<1>2. PlaintextHeld'
  BY HeapType, HeapOps DEF AfterLoad, Buffers
<1>3. DanglingFreed'
  BY HeapType, HeapOps DEF AfterLoad, Buffers
<1>4. NoDoubleFree' /\ NoUseAfterFree'
  BY HeapType, NotYetFreed DEF AfterLoad, NoDoubleFree, NoUseAfterFree, FreeFaults,
     ReadFaults, IInv, TypeCtl, Labels
<1> QED
  BY <1>1, <1>2, <1>3, <1>4

LEMMA DecodeKeyMInv == IInv /\ MInv /\ DecodeKey => MInv'
<1> SUFFICES ASSUME IInv, MInv, DecodeKey PROVE MInv'
  OBVIOUS
<1>1. FreeListsKept'
  BY DEF DecodeKey
<1>2. PlaintextHeld'
  BY HeapType, HeapOps DEF DecodeKey, Buffers
<1>3. DanglingFreed'
  BY HeapType, HeapOps DEF DecodeKey, Buffers
<1>4. NoDoubleFree' /\ NoUseAfterFree'
  BY HeapType, NotYetFreed DEF DecodeKey, NoDoubleFree, NoUseAfterFree, FreeFaults,
     ReadFaults, IInv, TypeCtl, Labels
<1> QED
  BY <1>1, <1>2, <1>3, <1>4

LEMMA HmacMInv == IInv /\ MInv /\ Hmac => MInv'
<1> SUFFICES ASSUME IInv, MInv, Hmac PROVE MInv'
  OBVIOUS
<1>1. FreeListsKept'
  BY DEF Hmac
<1>2. PlaintextHeld'
  BY HeapType, HeapOps DEF Hmac, Buffers
<1>3. DanglingFreed'
  BY HeapType, HeapOps DEF Hmac, Buffers
<1>4. NoDoubleFree' /\ NoUseAfterFree'
  BY HeapType, NotYetFreed DEF Hmac, NoDoubleFree, NoUseAfterFree, FreeFaults,
     ReadFaults, IInv, TypeCtl, Labels
<1> QED
  BY <1>1, <1>2, <1>3, <1>4

LEMMA EncodeHmacMInv == IInv /\ MInv /\ EncodeHmac => MInv'
<1> SUFFICES ASSUME IInv, MInv, EncodeHmac PROVE MInv'
  OBVIOUS
<1>1. FreeListsKept'
  BY DEF EncodeHmac
<1>2. PlaintextHeld'
  BY HeapType, HeapOps DEF EncodeHmac, Buffers
<1>3. DanglingFreed'
  BY HeapType, HeapOps DEF EncodeHmac, Buffers
<1>4. NoDoubleFree' /\ NoUseAfterFree'
  BY HeapType, NotYetFreed DEF EncodeHmac, NoDoubleFree, NoUseAfterFree, FreeFaults,
     ReadFaults, IInv, TypeCtl, Labels
<1> QED
  BY <1>1, <1>2, <1>3, <1>4

LEMMA FormatTokenMInv == IInv /\ MInv /\ FormatToken => MInv'
<1> SUFFICES ASSUME IInv, MInv, FormatToken PROVE MInv'
  OBVIOUS
<1>1. FreeListsKept'
  BY DEF FormatToken
<1>2. PlaintextHeld'
  BY HeapType, HeapOps DEF FormatToken, Buffers
<1>3. DanglingFreed'
  BY HeapType, HeapOps DEF FormatToken, Buffers
<1>4. NoDoubleFree' /\ NoUseAfterFree'
  BY DEF FormatToken, NoDoubleFree, NoUseAfterFree
<1> QED
  BY <1>1, <1>2, <1>3, <1>4

LEMMA IssueExitMInv == IInv /\ MInv /\ IssueExit => MInv'
<1> SUFFICES ASSUME IInv, MInv, IssueExit PROVE MInv'
  OBVIOUS
<1>1. FreeListsKept'
  BY DEF IssueExit
<1>2. PlaintextHeld'
  BY HeapType, HeapOps DEF IssueExit, Buffers
<1>3. DanglingFreed'
  BY HeapType, HeapOps DEF IssueExit, Buffers
<1>4. NoDoubleFree' /\ NoUseAfterFree'
  BY HeapType, NotYetFreed DEF IssueExit, NoDoubleFree, NoUseAfterFree, FreeFaults,
     ReadFaults, IInv, TypeCtl, Labels
<1> QED
  BY <1>1, <1>2, <1>3, <1>4


LEMMA NextMInv == IInv /\ MInv /\ [Next]_vars => MInv'
<1> SUFFICES ASSUME IInv, MInv, [Next]_vars PROVE MInv'
  OBVIOUS
<1>1. CASE UNCHANGED vars
  BY <1>1 DEF vars, NoDoubleFree, NoUseAfterFree
<1> QED
  BY <1>1, IssueBeginMInv, LoadPayloadMInv, DecryptBeginMInv, DecodePayloadMInv, ExtractMInv, DeriveMInv, CipherMInv, DecryptExitMInv, TextStringMInv, AfterLoadMInv, DecodeKeyMInv, HmacMInv, EncodeHmacMInv, FormatTokenMInv, IssueExitMInv DEF Next

\* No path through create_shared_access_token, the loader and the decryptor
\* frees a block twice, however the library calls fail: the two free lists
\* are disjoint, each is walked once, and the plaintext the cipher frees
\* on a failed EVP call is on neither.
THEOREM IssuanceNoDoubleFree == Spec => []NoDoubleFree
<1>1. Init => IInv /\ MInv
  BY InitIInv, InitMInv
<1>2. IInv /\ MInv /\ [Next]_vars => (IInv /\ MInv)'
  BY NextIInv, NextMInv
<1>3. IInv /\ MInv => NoDoubleFree
  OBVIOUS
<1> QED
  BY <1>1, <1>2, <1>3, PTL DEF Spec

\* No freed block is read on any path: in particular the plaintext that
\* compute_aes256cfb_cipher frees without NULLing (cryptoutil.c) is never
\* handed on, because operation_status stays FALSE on that path.
THEOREM IssuanceNoUseAfterFree == Spec => []NoUseAfterFree
<1>1. Init => IInv /\ MInv
  BY InitIInv, InitMInv
<1>2. IInv /\ MInv /\ [Next]_vars => (IInv /\ MInv)'
  BY NextIInv, NextMInv
<1>3. IInv /\ MInv => NoUseAfterFree
  OBVIOUS
<1> QED
  BY <1>1, <1>2, <1>3, PTL DEF Spec

-----------------------------------------------------------------------------
(* Each step preserves KInv.                                               *)

USE DEF KInv

LEMMA InitKInv == Init => KInv
BY DEF Init, NoBlocks, Buffers

LEMMA IssueBeginKInv == IInv /\ KInv /\ IssueBegin => KInv'
BY HeapType, HeapOps DEF IssueBegin, Zeroed, Buffers, IInv, TokenKept

LEMMA LoadPayloadKInv == IInv /\ KInv /\ LoadPayload => KInv'
BY HeapType, HeapOps DEF LoadPayload, Zeroed, Buffers, IInv, TokenKept

LEMMA DecryptBeginKInv == IInv /\ KInv /\ DecryptBegin => KInv'
BY HeapType, HeapOps DEF DecryptBegin, Zeroed, Buffers, IInv, TokenKept

LEMMA DecodePayloadKInv == IInv /\ KInv /\ DecodePayload => KInv'
BY HeapType, HeapOps DEF DecodePayload, Zeroed, Buffers, IInv, TokenKept

LEMMA ExtractKInv == IInv /\ KInv /\ Extract => KInv'
BY HeapType, HeapOps DEF Extract, Zeroed, Buffers, IInv, TokenKept

LEMMA DeriveKInv == IInv /\ KInv /\ Derive => KInv'
BY HeapType, HeapOps DEF Derive, Zeroed, Buffers, IInv, TokenKept

LEMMA CipherKInv == IInv /\ KInv /\ Cipher => KInv'
BY HeapType, HeapOps DEF Cipher, Zeroed, Buffers, IInv, TokenKept

LEMMA DecryptExitKInv == IInv /\ KInv /\ DecryptExit => KInv'
BY HeapType, HeapOps DEF DecryptExit, Zeroed, Buffers, IInv, TokenKept

LEMMA TextStringKInv == IInv /\ KInv /\ TextString => KInv'
BY HeapType, HeapOps DEF TextString, Zeroed, Buffers, IInv, TokenKept

LEMMA AfterLoadKInv == IInv /\ KInv /\ AfterLoad => KInv'
BY HeapType, HeapOps DEF AfterLoad, Zeroed, Buffers, IInv, TokenKept

LEMMA DecodeKeyKInv == IInv /\ KInv /\ DecodeKey => KInv'
BY HeapType, HeapOps DEF DecodeKey, Zeroed, Buffers, IInv, TokenKept

LEMMA HmacKInv == IInv /\ KInv /\ Hmac => KInv'
BY HeapType, HeapOps DEF Hmac, Zeroed, Buffers, IInv, TokenKept

LEMMA EncodeHmacKInv == IInv /\ KInv /\ EncodeHmac => KInv'
BY HeapType, HeapOps DEF EncodeHmac, Zeroed, Buffers, IInv, TokenKept

LEMMA FormatTokenKInv == IInv /\ KInv /\ FormatToken => KInv'
BY HeapType, HeapOps DEF FormatToken, Zeroed, Buffers, IInv, TokenKept

LEMMA IssueExitKInv == IInv /\ KInv /\ IssueExit => KInv'
BY HeapType, HeapOps DEF IssueExit, Zeroed, Buffers, IInv, TokenKept

LEMMA NextKInv == IInv /\ KInv /\ [Next]_vars => KInv'
<1> SUFFICES ASSUME IInv, KInv, [Next]_vars PROVE KInv'
  OBVIOUS
<1>1. CASE UNCHANGED vars
  BY <1>1 DEF vars
<1> QED
  BY <1>1, IssueBeginKInv, LoadPayloadKInv, DecryptBeginKInv, DecodePayloadKInv, ExtractKInv, DeriveKInv, CipherKInv, DecryptExitKInv, TextStringKInv, AfterLoadKInv, DecodeKeyKInv, HmacKInv, EncodeHmacKInv, FormatTokenKInv, IssueExitKInv DEF Next

\* Whenever create_shared_access_token holds a token, the shared access
\* key was zeroed both as base64 text (authutil.c:119) and as bytes
\* (authutil.c:128) before either buffer could be freed.
THEOREM KeyErased == Spec => []KeyErasedWhenIssued
<1>1. Init => IInv /\ KInv
  BY InitIInv, InitKInv
<1>2. IInv /\ KInv /\ [Next]_vars => (IInv /\ KInv)'
  BY NextIInv, NextKInv
<1>3. KInv => KeyErasedWhenIssued
  BY DEF KeyErasedWhenIssued
<1> QED
  BY <1>1, <1>2, <1>3, PTL DEF Spec


-----------------------------------------------------------------------------
(* The token is handed over untouched.                                     *)

\* A step from a state with a live token keeps it live with its se field:
\* only IssueExit can follow FormatToken, and the issuer's free list it
\* walks never holds the token.
LEMMA TokenStep ==
  IInv /\ MInv /\ [Next]_vars =>
    (heap["token"] = "live" => heap'["token"] = "live" /\ tokenSe' = tokenSe)
<1> SUFFICES ASSUME IInv, MInv, [Next]_vars, heap["token"] = "live"
             PROVE  heap'["token"] = "live" /\ tokenSe' = tokenSe
  OBVIOUS
<1>1. pc \in {"issueExit", "done"}
  BY DEF IInv, TokenKept
<1>2. CASE UNCHANGED vars
  BY <1>2 DEF vars
<1>3. CASE IssueExit
  <2>1. "token" \notin cclean
    BY DEF Buffers
  <2>2. QED
    BY <1>3, <2>1, HeapOps DEF IssueExit, Buffers
<1>4. CASE Next /\ ~IssueExit
  BY <1>1, <1>4 DEF Next, IssueBegin, LoadPayload, DecryptBegin, DecodePayload,
     Extract, Derive, Cipher, DecryptExit, TextString, AfterLoad, DecodeKey,
     Hmac, EncodeHmac, FormatToken
<1> QED
  BY <1>2, <1>3, <1>4

\* Once asprintf has built the token, no step of create_shared_access_token
\* frees it or changes its se field, for every file, time and pattern of
\* library failures: the caller receives exactly the token built.
THEOREM TokenHandedOverProved == Spec => TokenHandedOver
<1>1. Spec => [](IInv /\ MInv)
  BY InitIInv, InitMInv, NextIInv, NextMInv, PTL DEF Spec
<1>2. [](IInv /\ MInv) /\ [][Next]_vars =>
        [][heap["token"] = "live" =>
             heap'["token"] = "live" /\ tokenSe' = tokenSe]_vars
  BY TokenStep, PTL
<1> QED
  BY <1>1, <1>2, PTL DEF Spec, TokenHandedOver

=============================================================================
