------------------------ MODULE IssuerLeakProofs -----------------------------
(***************************************************************************)
(* Proof that create_shared_access_token, as CredentialIssuance details    *)
(* it, holds none of the blocks it allocated when it returns, on every    *)
(* path (IssuerLeakFree).                                                  *)
(*                                                                         *)
(* Nothing is left live at the return because every                      *)
(* block the call owns is, while live, on one of the two free lists the   *)
(* code walks on its way out: cclean, the frees of create_shared_access_  *)
(* token (authutil.c:160-197), or dclean, those of decrypt_base64_encoded_ *)
(* openssl_payload (cryptoutil.c:182-236) while that function runs.  OInv  *)
(* states this; IInv of CredentialIssuanceProofs gives the types and the   *)
(* token's se.                                                             *)
(***************************************************************************)
EXTENDS CredentialIssuanceProofs

\* The steps of decrypt_base64_encoded_openssl_payload after the passphrase
\* buffer has been put on its free list.
DecryptPhase == {"decodePayload", "extract", "derive", "cipher", "decryptExit"}

\* A live block the call owns is on a free list that is still to be walked.
Tracked ==
  \A b \in IssuerOwned :
    heap[b] = "live" => b \in cclean \/ (b \in dclean /\ pc \in DecryptPhase)

\* The token is the caller's: it is not on the issuer's free list.
TokenNotCleaned == "token" \notin cclean

\* Before the first step the issuer's free list is empty.
FreshCall == pc = "issue" => cclean = {}

\* At the return the call holds no block of its own.
ReturnedClean == pc = "done" => \A b \in IssuerOwned : heap[b] # "live"

OInv == Tracked /\ TokenNotCleaned /\ FreshCall /\ ReturnedClean

USE DEF OInv, Tracked, TokenNotCleaned, FreshCall, ReturnedClean

LEMMA InitOInv == Init => OInv
BY DEF Init, NoBlocks, IssuerOwned, Buffers

\* The pointwise values of Alloc and Release.
LEMMA HeapOps ==
  ASSUME NEW h, NEW S, NEW b \in Buffers
  PROVE  /\ Alloc(h, S)[b] = IF b \in S THEN "live" ELSE h[b]
         /\ Release(h, S)[b] = IF b \in S /\ h[b] = "live" THEN "dangling" ELSE h[b]
BY DEF Alloc, Release

\* The heap is a function on the pointer variables.
LEMMA HeapType == IInv => heap \in [Buffers -> PointerStates]
BY DEF IInv, TypeMem

LEMMA IssueBeginOInv == IInv /\ OInv /\ IssueBegin => OInv'
BY HeapOps DEF IssueBegin, IssuerOwned, Buffers, DecryptPhase

LEMMA LoadPayloadOInv == IInv /\ OInv /\ LoadPayload => OInv'
BY HeapOps DEF LoadPayload, IssuerOwned, Buffers, DecryptPhase

LEMMA DecryptBeginOInv == IInv /\ OInv /\ DecryptBegin => OInv'
BY HeapOps DEF DecryptBegin, IssuerOwned, Buffers, DecryptPhase

LEMMA DecodePayloadOInv == IInv /\ OInv /\ DecodePayload => OInv'
BY HeapOps DEF DecodePayload, IssuerOwned, Buffers, DecryptPhase

LEMMA ExtractOInv == IInv /\ OInv /\ Extract => OInv'
BY HeapOps DEF Extract, IssuerOwned, Buffers, DecryptPhase

LEMMA DeriveOInv == IInv /\ OInv /\ Derive => OInv'
BY HeapOps DEF Derive, IssuerOwned, Buffers, DecryptPhase

LEMMA CipherOInv == IInv /\ OInv /\ Cipher => OInv'
<1> SUFFICES ASSUME IInv, OInv, Cipher PROVE OInv'
  OBVIOUS
<1>1. \A b \in IssuerOwned : heap'[b] = "live" => heap[b] = "live"
  BY HeapType, HeapOps DEF Cipher, IssuerOwned, Buffers
<1>2. /\ pc = "cipher" /\ pc' = "decryptExit"
      /\ UNCHANGED <<cclean, dclean>>
  BY DEF Cipher
<1> QED
  BY <1>1, <1>2 DEF DecryptPhase

LEMMA DecryptExitOInv == IInv /\ OInv /\ DecryptExit => OInv'
BY HeapOps DEF DecryptExit, IssuerOwned, Buffers, DecryptPhase

LEMMA TextStringOInv == IInv /\ OInv /\ TextString => OInv'
BY HeapOps DEF TextString, IssuerOwned, Buffers, DecryptPhase

LEMMA AfterLoadOInv == IInv /\ OInv /\ AfterLoad => OInv'
<1> SUFFICES ASSUME IInv, OInv, AfterLoad PROVE OInv'
  OBVIOUS
<1>1. /\ pc = "afterLoad" /\ pc' \in {"decodeKey", "issueExit"}
      /\ UNCHANGED dclean
  BY DEF AfterLoad
<1>2. \A b \in IssuerOwned : heap'[b] = "live" => heap[b] = "live" \/ b \in cclean'
  BY HeapType DEF AfterLoad, IssuerOwned, Buffers
<1>3. cclean \subseteq cclean' /\ "token" \notin cclean'
  BY DEF AfterLoad
<1> QED
  BY <1>1, <1>2, <1>3 DEF DecryptPhase

LEMMA DecodeKeyOInv == IInv /\ OInv /\ DecodeKey => OInv'
BY HeapOps DEF DecodeKey, IssuerOwned, Buffers, DecryptPhase

LEMMA HmacOInv == IInv /\ OInv /\ Hmac => OInv'
BY HeapOps DEF Hmac, IssuerOwned, Buffers, DecryptPhase

LEMMA EncodeHmacOInv == IInv /\ OInv /\ EncodeHmac => OInv'
BY HeapOps DEF EncodeHmac, IssuerOwned, Buffers, DecryptPhase

LEMMA FormatTokenOInv == IInv /\ OInv /\ FormatToken => OInv'
<1> SUFFICES ASSUME IInv, OInv, FormatToken PROVE OInv'
  OBVIOUS
<1>1. /\ pc = "formatToken" /\ pc' = "issueExit"
      /\ UNCHANGED <<cclean, dclean>>
  BY DEF FormatToken
<1>2. \A b \in IssuerOwned : heap'[b] = "live" => heap[b] = "live"
  BY HeapType DEF FormatToken, IssuerOwned, Buffers
<1> QED
  BY <1>1, <1>2 DEF DecryptPhase

LEMMA IssueExitOInv == IInv /\ OInv /\ IssueExit => OInv'
BY HeapOps DEF IssueExit, IssuerOwned, Buffers, DecryptPhase

LEMMA NextOInv == IInv /\ OInv /\ [Next]_vars => OInv'
<1> SUFFICES ASSUME IInv, OInv, [Next]_vars PROVE OInv'
  OBVIOUS
<1>1. CASE UNCHANGED vars
  BY <1>1 DEF vars
<1> QED
  BY <1>1, IssueBeginOInv, LoadPayloadOInv, DecryptBeginOInv, DecodePayloadOInv,
     ExtractOInv, DeriveOInv, CipherOInv, DecryptExitOInv, TextStringOInv,
     AfterLoadOInv, DecodeKeyOInv, HmacOInv, EncodeHmacOInv, FormatTokenOInv,
     IssueExitOInv DEF Next


\* When create_shared_access_token returns, on every path and for every
\* pattern of library failures, it has freed every block it or the
\* decryptor allocated on the way; the token is the caller's.
THEOREM LeakFree == Spec => []IssuerLeakFree
<1>1. IInv /\ OInv => IssuerLeakFree
  BY DEF IssuerLeakFree
<1> QED
  BY <1>1, InitIInv, InitOInv, NextIInv, NextOInv, PTL DEF Spec


=============================================================================
