------------------------- MODULE CredentialIssuance -------------------------
(***************************************************************************)
(* One call of create_shared_access_token (cloud/azure/authutil.c) with    *)
(* everything it calls that owns memory: load_base64_encoded_secret_key,   *)
(* load_base64_encoded_openssl_payload, decrypt_base64_encoded_openssl_    *)
(* payload and the helpers of crypto/openssl/cryptoutil.c.                 *)
(*                                                                         *)
(* The call is a sequential program; pc names the point between two calls. *)
(* Memory is modelled per pointer variable of the code (Buffers): heap[b]  *)
(* is "null", "undef" (holds an undefined value), "live" or "dangling"     *)
(* (its block was freed).  secret is the set of pointers whose block holds *)
(* secret bytes (passphrase, derived key or iv, shared access key).        *)
(* faults logs every free or read the C standard leaves undefined.        *)
(***************************************************************************)
EXTENDS CryptoUtil

CONSTANTS
  Files,       \* the payload files the user may point the client at
  Times,       \* the values time() may return
  TimeBits,    \* the width of time_t in the build
  LibMayFail   \* whether malloc, asprintf, curl, BIO, EVP and HMAC calls may fail

\* A payload file written by "openssl enc -aes-256-cfb -salt -base64 -A"
\* (cryptoutil.c:33) from a plaintext holding the base64 text of a
\* keyBytes-byte key, possibly followed by a line feed (keyNl); the last
\* cut characters of the base64 text may be missing, the file may end in a
\* line feed (fileNl), the container may lack the "Salted__" header (sig
\* FALSE) and the file may be empty.
FileRecords ==
  [empty : BOOLEAN, keyBytes : Nat, keyNl : BOOLEAN, cut : 0 .. 3,
   fileNl : BOOLEAN, sig : BOOLEAN]

\* The first value beyond the range of time_t.
TimeLimit == 2^(TimeBits - 1)

\* SECONDS_IN_AN_HOUR, the token's time to live.
SecondsInAnHour == 1 * 60 * 60

ASSUME Assumptions ==
  /\ Files \subseteq FileRecords
  /\ TimeBits \in Nat \ {0}
  /\ TimeLimit > SecondsInAnHour
  /\ 2^TimeBits = 2 * TimeLimit
  /\ Times \subseteq 0 .. (TimeLimit - 1)
  /\ LibMayFail \in BOOLEAN

\* What getline returns for the passphrase prompt: end of input, a bare
\* Enter, the passphrase the file was encrypted with, or another one.
Passphrases == {"eof", "enter", "right", "wrong"}

\* The pointer variables of the code that hold heap blocks.
Buffers ==
  {"curl", "urlEndpoint", "payloadText", "passphrase", "payload", "salt",
   "ciphertext", "cipherKey", "cipherIv", "plaintext", "b64Key", "message",
   "secretKey", "hmac", "b64Hmac", "urlHmac", "token"}

PointerStates == {"null", "undef", "live", "dangling"}

FaultKinds ==
  {"double_free", "invalid_free", "use_after_free", "uninit_read",
   "out_of_bounds"}

Faults == [kind : FaultKinds, buf : Buffers]

\* What the decrypted plaintext is known to be: its length, whether its
\* last byte is a line feed, whether it holds a NUL byte, and whether it is
\* the plaintext the file was made from.
Plains == [len : Nat, nl : BOOLEAN, nul : BOOLEAN, genuine : BOOLEAN]

Labels ==
  {"issue", "loadPayload", "decryptBegin", "decodePayload", "extract",
   "derive", "cipher", "decryptExit", "textString", "afterLoad",
   "decodeKey", "hmac", "encodeHmac", "formatToken", "issueExit", "done"}

VARIABLES
  pc,          \* the point the call has reached
  file,        \* the payload file (input)
  pass,        \* what getline returns for the passphrase (input)
  now,         \* what time() returns (input)
  heap,        \* pointer variable -> PointerStates
  secret,      \* pointers whose block holds secret bytes
  faults,      \* undefined frees and reads so far
  disclosed,   \* pointers whose secret contents were printed to stdout
  dclean,      \* blocks decrypt_base64_encoded_openssl_payload frees on exit
  cclean,      \* blocks create_shared_access_token frees on exit
  dstatus,     \* operation_status of decrypt_base64_encoded_openssl_payload
  lstatus,     \* operation_status of load_base64_encoded_secret_key
  payloadLen,  \* openssl_payload_size
  plain,       \* the decrypted plaintext
  keyLen,      \* shared_access_policy_secret_key_size
  expiry,      \* token_expiry
  tokenSe      \* the se field of the token built

inputs == <<file, pass, now>>
mem == <<heap, secret, faults, disclosed>>
vars == <<pc, file, pass, now, heap, secret, faults, disclosed, dclean, cclean,
          dstatus, lstatus, payloadLen, plain, keyLen, expiry, tokenSe>>

-----------------------------------------------------------------------------
(* The file's contents.                                                    *)

\* The base64 text of the key inside the plaintext.
KeyText(f) == EncodedText(f.keyBytes)

\* Length of the plaintext the file was encrypted from.
PlainLen(f) == KeyText(f).len + (IF f.keyNl THEN 1 ELSE 0)

\* The bytes ahead of the ciphertext: "Salted__" and the salt, or nothing
\* for a file made with -nosalt.
HeaderLen(f) == IF f.sig THEN SaltSignatureAndValueSize ELSE 0

\* The base64 text of the container (header, ciphertext).
ContainerText(f) ==
  LET whole == EncodedText(HeaderLen(f) + PlainLen(f))
  IN  [len |-> IF whole.len > f.cut THEN whole.len - f.cut ELSE 0,
       eq  |-> IF whole.eq > f.cut THEN whole.eq - f.cut ELSE 0]

\* file_content_size (ftell).
FileSize(f) ==
  IF f.empty THEN 0
  ELSE ContainerText(f).len + (IF f.fileNl THEN 1 ELSE 0)

\* The payload string after the trailing line feed was cut off.
PayloadText(f) == IF f.empty THEN [len |-> 0, eq |-> 0] ELSE ContainerText(f)

\* The first m bytes of the genuine plaintext.
GenuinePlain(f, m) ==
  [len |-> m, nl |-> f.keyNl /\ m = PlainLen(f), nul |-> FALSE, genuine |-> TRUE]

\* The first l characters of the key's base64 text.
KeyTextPrefix(f, l) ==
  LET k == KeyText(f)
  IN  [len |-> l, eq |-> IF k.eq > k.len - l THEN k.eq - (k.len - l) ELSE 0]

-----------------------------------------------------------------------------
(* Memory.                                                                 *)

\* malloc (and every allocating call) on the pointers of S.
Alloc(h, S) == [b \in Buffers |-> IF b \in S THEN "live" ELSE h[b]]

\* free on the pointers of S, which keep their (now dangling) values.
Release(h, S) ==
  [b \in Buffers |-> IF b \in S /\ h[b] = "live" THEN "dangling" ELSE h[b]]

\* The undefined behaviour of calling free on the pointers of S.
FreeFaults(h, S) ==
  {[kind |-> "double_free", buf |-> b] : b \in {x \in S : h[x] = "dangling"}}
  \cup {[kind |-> "invalid_free", buf |-> b] : b \in {x \in S : h[x] = "undef"}}

\* The undefined behaviour of reading through the pointers of S.
ReadFaults(h, S) ==
  {[kind |-> "use_after_free", buf |-> b] : b \in {x \in S : h[x] = "dangling"}}
  \cup {[kind |-> "uninit_read", buf |-> b] : b \in {x \in S : h[x] = "undef"}}

\* Outcomes of a call that may fail for lack of resources.
LibOutcomes == IF LibMayFail THEN BOOLEAN ELSE {TRUE}

\* memset(b, 0, ...) on the pointers of S.
Zeroed(S) == secret \ S

\* Fault-injected variant of IssueBegin: the token_expiry > 0 check is lost.
IssueBeginNoExpiryCheck ==
  /\ pc = "issue"
  /\ \E escaped \in LibOutcomes :
       /\ heap' = Alloc(heap, IF escaped THEN {"curl", "urlEndpoint"} ELSE {"curl"})
       /\ cclean' = {"curl", "urlEndpoint"}
       /\ expiry' = SignedWrap(now + SecondsInAnHour, TimeBits)
       /\ pc' = IF escaped THEN "loadPayload" ELSE "issueExit"
  /\ UNCHANGED <<inputs, secret, faults, disclosed, dclean, dstatus, lstatus,
                 payloadLen, plain, keyLen, tokenSe>>

-----------------------------------------------------------------------------
(* create_shared_access_token, up to the call of the loader.               *)

IssueBegin ==
  /\ pc = "issue"
  /\ \/ \* curl_easy_init fails
        /\ LibMayFail
        /\ pc' = "done"
        /\ UNCHANGED <<heap, cclean, expiry>>
     \/ \E escaped \in LibOutcomes :
          /\ heap' = Alloc(heap, IF escaped THEN {"curl", "urlEndpoint"} ELSE {"curl"})
          /\ cclean' = {"curl", "urlEndpoint"}
          /\ expiry' = SignedWrap(now + SecondsInAnHour, TimeBits)
          /\ pc' = IF escaped /\ expiry' > 0 THEN "loadPayload" ELSE "issueExit"
  /\ UNCHANGED <<inputs, secret, faults, disclosed, dclean, dstatus, lstatus,
                 payloadLen, plain, keyLen, tokenSe>>

-----------------------------------------------------------------------------
(* load_base64_encoded_openssl_payload, as called by                       *)
(* load_base64_encoded_secret_key.                                         *)

LoadPayload ==
  /\ pc = "loadPayload"
  /\ \/ \* no location, fopen fails, or malloc fails
        /\ lstatus' = FALSE
        /\ pc' = "afterLoad"
        /\ UNCHANGED <<heap, faults>>
     \/ \* fread is short: the buffer is neither returned nor freed
        /\ heap' = Alloc(heap, {"payloadText"})
        /\ lstatus' = FALSE
        /\ pc' = "afterLoad"
        /\ UNCHANGED faults
     \/ \* the file is read; an empty one is indexed at -1
        /\ heap' = Alloc(heap, {"payloadText"})
        /\ faults' = faults \cup
             (IF FileSize(file) = 0
                THEN {[kind |-> "out_of_bounds", buf |-> "payloadText"]}
                ELSE {})
        /\ pc' = "decryptBegin"
        /\ UNCHANGED lstatus
  /\ UNCHANGED <<inputs, secret, disclosed, dclean, cclean, dstatus, payloadLen,
                 plain, keyLen, expiry, tokenSe>>

-----------------------------------------------------------------------------
(* decrypt_base64_encoded_openssl_payload and the helpers it calls.        *)

\* getline for the passphrase; the buffer is freed on every exit.
DecryptBegin ==
  /\ pc = "decryptBegin"
  /\ heap' = Alloc(heap, {"passphrase"})
  /\ dclean' = {"passphrase"}
  /\ dstatus' = FALSE
  /\ \/ /\ pass \in {"eof", "enter"}
        /\ pc' = "decryptExit"
        /\ UNCHANGED secret
     \/ /\ pass \in {"right", "wrong"}
        /\ secret' = secret \cup {"passphrase"}
        /\ pc' = "decodePayload"
  /\ UNCHANGED <<inputs, faults, disclosed, cclean, lstatus, payloadLen, plain,
                 keyLen, expiry, tokenSe>>

\* Fault-injected variant of DecodePayload: free(openssl_payload) is lost.
DecodePayloadNoFree ==
  /\ pc = "decodePayload"
  /\ \/ /\ LibMayFail \/ ~DecodeSucceeds(PayloadText(file))
        /\ pc' = "decryptExit"
        /\ UNCHANGED <<heap, payloadLen>>
     \/ /\ DecodeSucceeds(PayloadText(file))
        /\ heap' = Alloc(heap, {"payload"})
        /\ payloadLen' = DecodeByteArraySize(PayloadText(file))
        /\ pc' = "extract"
  /\ faults' = faults \cup ReadFaults(heap, {"payloadText"})
  /\ UNCHANGED <<inputs, secret, disclosed, dclean, cclean, dstatus, lstatus,
                 plain, keyLen, expiry, tokenSe>>

\* compute_base64_decode of the payload text.
DecodePayload ==
  /\ pc = "decodePayload"
  /\ LET t == PayloadText(file) IN
       \/ /\ LibMayFail \/ ~DecodeSucceeds(t)
          /\ pc' = "decryptExit"
          /\ UNCHANGED <<heap, dclean, payloadLen>>
       \/ /\ DecodeSucceeds(t)
          /\ heap' = Alloc(heap, {"payload"})
          /\ payloadLen' = DecodeByteArraySize(t)
          /\ dclean' = dclean \cup {"payload"}
          /\ pc' = "extract"
  /\ faults' = faults \cup ReadFaults(heap, {"payloadText"})
  /\ UNCHANGED <<inputs, secret, disclosed, cclean, dstatus, lstatus, plain,
                 keyLen, expiry, tokenSe>>

\* Fault-injected variant of Extract: the size check admits a payload no
\* longer than the header.
ExtractNoSizeCheck ==
  /\ pc = "extract"
  /\ heap' = Alloc(heap, {"salt", "ciphertext"})
  /\ dclean' = dclean \cup {"salt", "ciphertext"}
  /\ pc' = "derive"
  /\ faults' = faults \cup ReadFaults(heap, {"payload"})
  /\ UNCHANGED <<inputs, secret, disclosed, cclean, dstatus, lstatus,
                 payloadLen, plain, keyLen, expiry, tokenSe>>

\* extract_salt_and_ciphertext_from_openssl_payload: splits at byte 16 and
\* never looks at the "Salted__" signature.
Extract ==
  /\ pc = "extract"
  /\ \/ /\ payloadLen <= SaltSignatureAndValueSize \/ LibMayFail
        /\ pc' = "decryptExit"
        /\ UNCHANGED <<heap, dclean>>
     \/ /\ payloadLen > SaltSignatureAndValueSize
        /\ heap' = Alloc(heap, {"salt", "ciphertext"})
        /\ dclean' = dclean \cup {"salt", "ciphertext"}
        /\ pc' = "derive"
  /\ faults' = faults \cup ReadFaults(heap, {"payload"})
  /\ UNCHANGED <<inputs, secret, disclosed, cclean, dstatus, lstatus,
                 payloadLen, plain, keyLen, expiry, tokenSe>>

\* derive_aes256cfb_cipher_key_and_iv_from_passphrase_and_salt.
Derive ==
  /\ pc = "derive"
  /\ \/ /\ LibMayFail
        /\ pc' = "decryptExit"
        /\ UNCHANGED <<heap, secret, dclean>>
     \/ /\ heap' = Alloc(heap, {"cipherKey", "cipherIv"})
        /\ secret' = secret \cup {"cipherKey", "cipherIv"}
        /\ dclean' = dclean \cup {"cipherKey", "cipherIv"}
        /\ pc' = "cipher"
  /\ faults' = faults \cup ReadFaults(heap, {"passphrase", "salt"})
  /\ UNCHANGED <<inputs, disclosed, cclean, dstatus, lstatus, payloadLen, plain,
                 keyLen, expiry, tokenSe>>

\* The plaintext of a decryption, and what the caller's trailing line-feed
\* trim makes of it.
Trimmed(p) ==
  IF p.nl THEN [len |-> p.len - 1, nl |-> FALSE, nul |-> p.nul, genuine |-> p.genuine]
  ELSE p

\* compute_aes256cfb_cipher(DECRYPT, ...) and the caller's trim.  When
\* EVP_CipherInit_ex or EVP_CipherUpdate fails, the output size compared
\* with the input size is the caller's uninitialized plaintext_size.
Cipher ==
  /\ pc = "cipher"
  /\ LET m == payloadLen - SaltSignatureAndValueSize IN
       \/ \* EVP_CIPHER_CTX_new or malloc fails
          /\ LibMayFail
          /\ UNCHANGED <<heap, secret, faults, dstatus, plain>>
       \/ \* the cipher runs
          /\ heap' = Alloc(heap, {"plaintext"})
          /\ \/ /\ pass = "right" /\ file.sig
                /\ plain' = Trimmed(GenuinePlain(file, m))
                /\ secret' = secret \cup {"plaintext"}
             \/ /\ pass = "wrong" \/ ~file.sig
                /\ \E nl, nul \in BOOLEAN :
                     plain' = Trimmed([len |-> m, nl |-> nl, nul |-> nul,
                                       genuine |-> FALSE])
                /\ UNCHANGED secret
          /\ dstatus' = TRUE
          /\ UNCHANGED faults
       \/ \* the cipher fails and the garbage size happens to match
          /\ LibMayFail
          /\ heap' = Alloc(heap, {"plaintext"})
          /\ faults' = faults \cup {[kind |-> "uninit_read", buf |-> "plaintext"]}
          /\ \E nl, nul \in BOOLEAN :
               plain' = Trimmed([len |-> m, nl |-> nl, nul |-> nul, genuine |-> FALSE])
          /\ dstatus' = TRUE
          /\ UNCHANGED secret
       \/ \* the cipher fails and the garbage size differs: freed, not NULLed
          /\ LibMayFail
          /\ heap' = [heap EXCEPT !["plaintext"] = "dangling"]
          /\ faults' = faults \cup {[kind |-> "uninit_read", buf |-> "plaintext"]}
          /\ UNCHANGED <<secret, dstatus, plain>>
  /\ pc' = "decryptExit"
  /\ UNCHANGED <<inputs, disclosed, dclean, cclean, lstatus, payloadLen, keyLen,
                 expiry, tokenSe>>

\* The frees on the way out of decrypt_base64_encoded_openssl_payload.
DecryptExit ==
  /\ pc = "decryptExit"
  /\ heap' = Release(heap, dclean)
  /\ faults' = faults \cup FreeFaults(heap, dclean)
  /\ \/ /\ dstatus
        /\ pc' = "textString"
        /\ UNCHANGED lstatus
     \/ /\ ~dstatus
        /\ lstatus' = FALSE
        /\ pc' = "afterLoad"
  /\ UNCHANGED <<inputs, secret, disclosed, dclean, cclean, dstatus, payloadLen,
                 plain, keyLen, expiry, tokenSe>>

\* Fault-injected variant of TextString: free(plaintext) moved ahead of
\* compute_text_string.
TextStringFreeFirst ==
  /\ pc = "textString"
  /\ plain.len > 0
  /\ heap' = Release(Alloc(heap, {"b64Key"}), {"plaintext"})
  /\ secret' = IF "plaintext" \in secret THEN secret \cup {"b64Key"} ELSE secret
  /\ lstatus' = ~plain.nul
  /\ faults' = faults \cup FreeFaults(heap, {"plaintext"})
                      \cup ReadFaults(Release(heap, {"plaintext"}), {"plaintext"})
  /\ pc' = "afterLoad"
  /\ UNCHANGED <<inputs, disclosed, dclean, cclean, dstatus, payloadLen, plain,
                 keyLen, expiry, tokenSe>>

\* load_base64_encoded_secret_key after a successful decryption:
\* compute_text_string, the strlen check, and free(plaintext), which is
\* skipped when the trimmed plaintext is empty.
TextString ==
  /\ pc = "textString"
  /\ \/ /\ plain.len = 0
        /\ lstatus' = FALSE
        /\ UNCHANGED <<heap, secret, faults>>
     \/ /\ plain.len > 0
        /\ LibMayFail
        /\ lstatus' = FALSE
        /\ heap' = Release(heap, {"plaintext"})
        /\ faults' = faults \cup ReadFaults(heap, {"plaintext"})
                            \cup FreeFaults(heap, {"plaintext"})
        /\ UNCHANGED secret
     \/ /\ plain.len > 0
        /\ heap' = Release(Alloc(heap, {"b64Key"}), {"plaintext"})
        /\ secret' = IF "plaintext" \in secret THEN secret \cup {"b64Key"} ELSE secret
        /\ lstatus' = ~plain.nul
        /\ faults' = faults \cup ReadFaults(heap, {"plaintext"})
                            \cup FreeFaults(heap, {"plaintext"})
  /\ pc' = "afterLoad"
  /\ UNCHANGED <<inputs, disclosed, dclean, cclean, dstatus, payloadLen, plain,
                 keyLen, expiry, tokenSe>>

-----------------------------------------------------------------------------
(* create_shared_access_token, after the loader returns.                   *)

\* The key text is printed, the message "endpoint\nexpiry" is formatted
\* with asprintf (its pointer is undefined when asprintf fails) and printed.
AfterLoad ==
  /\ pc = "afterLoad"
  /\ \/ /\ ~lstatus
        /\ pc' = "issueExit"
        /\ UNCHANGED <<heap, faults, disclosed, cclean>>
     \/ /\ lstatus
        /\ \E msg \in IF LibMayFail THEN {"live", "null", "undef"} ELSE {"live"} :
             /\ heap' = [heap EXCEPT !["message"] = msg]
             /\ faults' = faults \cup ReadFaults(heap, {"b64Key"})
                                 \cup ReadFaults(heap', {"message"})
             /\ pc' = IF msg = "live" THEN "decodeKey" ELSE "issueExit"
        /\ disclosed' = disclosed \cup ({"b64Key"} \cap secret)
        /\ cclean' = cclean \cup {"b64Key", "message"}
  /\ UNCHANGED <<inputs, secret, dclean, dstatus, lstatus, payloadLen, plain,
                 keyLen, expiry, tokenSe>>

\* The sizes compute_base64_decode may produce from the key text: the
\* genuine text decodes by the size arithmetic, garbage to anything.
KeySizes ==
  IF plain.genuine
    THEN LET t == KeyTextPrefix(file, plain.len)
         IN  IF DecodeSucceeds(t) THEN {DecodeByteArraySize(t)} ELSE {}
    ELSE {k \in {1, HmacSecretKeySize} : k <= (plain.len * 3) \div 4}

\* compute_base64_decode of the key text, then memset of the key text.
DecodeKey ==
  /\ pc = "decodeKey"
  /\ \/ /\ LibMayFail \/ ~plain.genuine \/ KeySizes = {}
        /\ pc' = "issueExit"
        /\ UNCHANGED <<heap, secret, cclean, keyLen>>
     \/ \E k \in KeySizes :
          /\ heap' = Alloc(heap, {"secretKey"})
          /\ keyLen' = k
          /\ secret' = IF "b64Key" \in secret
                         THEN Zeroed({"b64Key"}) \cup {"secretKey"}
                         ELSE secret
          /\ cclean' = cclean \cup {"secretKey"}
          /\ pc' = "hmac"
  /\ faults' = faults \cup ReadFaults(heap, {"b64Key"})
  /\ UNCHANGED <<inputs, disclosed, dclean, dstatus, lstatus, payloadLen, plain,
                 expiry, tokenSe>>

\* Fault-injected variant of Hmac: the memset of the binary key is lost.
HmacNoErase ==
  /\ pc = "hmac"
  /\ keyLen = HmacSecretKeySize
  /\ heap' = Alloc(heap, {"hmac"})
  /\ cclean' = cclean \cup {"hmac"}
  /\ pc' = "encodeHmac"
  /\ faults' = faults \cup ReadFaults(heap, {"secretKey", "message"})
  /\ UNCHANGED <<inputs, secret, disclosed, dclean, dstatus, lstatus, payloadLen,
                 plain, keyLen, expiry, tokenSe>>

\* compute_sha256_hmac, then memset of the binary key.
Hmac ==
  /\ pc = "hmac"
  /\ \/ /\ keyLen # HmacSecretKeySize \/ LibMayFail
        /\ pc' = "issueExit"
        /\ UNCHANGED <<heap, secret, cclean>>
     \/ /\ keyLen = HmacSecretKeySize
        /\ heap' = Alloc(heap, {"hmac"})
        /\ secret' = Zeroed({"secretKey"})
        /\ cclean' = cclean \cup {"hmac"}
        /\ pc' = "encodeHmac"
  /\ faults' = faults \cup ReadFaults(heap, {"secretKey", "message"})
  /\ UNCHANGED <<inputs, disclosed, dclean, dstatus, lstatus, payloadLen, plain,
                 keyLen, expiry, tokenSe>>

\* compute_base64_encode of the digest.
EncodeHmac ==
  /\ pc = "encodeHmac"
  /\ \/ /\ LibMayFail
        /\ pc' = "issueExit"
        /\ UNCHANGED <<heap, cclean>>
     \/ /\ heap' = Alloc(heap, {"b64Hmac"})
        /\ cclean' = cclean \cup {"b64Hmac"}
        /\ pc' = "formatToken"
  /\ faults' = faults \cup ReadFaults(heap, {"hmac"})
  /\ UNCHANGED <<inputs, secret, disclosed, dclean, dstatus, lstatus, payloadLen,
                 plain, keyLen, expiry, tokenSe>>

\* Fault-injected variant of FormatToken: the escaped signature is also
\* freed on the way out, after its curl_free.
FormatTokenFreeEscapedTwice ==
  /\ pc = "formatToken"
  /\ heap' = [heap EXCEPT !["urlHmac"] = "dangling", !["token"] = "live"]
  /\ tokenSe' = expiry
  /\ cclean' = cclean \cup {"urlHmac"}
  /\ pc' = "issueExit"
  /\ UNCHANGED <<inputs, secret, faults, disclosed, dclean, dstatus, lstatus,
                 payloadLen, plain, keyLen, expiry>>

\* curl_easy_escape of the signature, asprintf of the token, curl_free of
\* the escaped signature.  When asprintf fails, glibc leaves token at the
\* NULL it was initialised to (line 77), so the free(token) of line 160
\* frees NULL.
FormatToken ==
  /\ pc = "formatToken"
  /\ \/ /\ LibMayFail
        /\ UNCHANGED <<heap, tokenSe>>
     \/ /\ heap' = [heap EXCEPT !["urlHmac"] = "dangling", !["token"] = "live"]
        /\ tokenSe' = expiry
     \/ /\ LibMayFail
        /\ heap' = [heap EXCEPT !["urlHmac"] = "dangling"]
        /\ UNCHANGED tokenSe
  /\ pc' = "issueExit"
  /\ UNCHANGED <<inputs, secret, faults, disclosed, dclean, cclean, dstatus,
                 lstatus, payloadLen, plain, keyLen, expiry>>

\* Fault-injected variant of IssueExit: the token is freed with the other
\* buffers on the way out.
IssueExitFreeToken ==
  /\ pc = "issueExit"
  /\ heap' = Release(heap, cclean \cup {"token"})
  /\ faults' = faults \cup FreeFaults(heap, cclean \cup {"token"})
  /\ pc' = "done"
  /\ UNCHANGED <<inputs, secret, disclosed, dclean, cclean, dstatus, lstatus,
                 payloadLen, plain, keyLen, expiry, tokenSe>>

\* The frees on the way out of create_shared_access_token.
IssueExit ==
  /\ pc = "issueExit"
  /\ heap' = Release(heap, cclean)
  /\ faults' = faults \cup FreeFaults(heap, cclean)
  /\ pc' = "done"
  /\ UNCHANGED <<inputs, secret, disclosed, dclean, cclean, dstatus, lstatus,
                 payloadLen, plain, keyLen, expiry, tokenSe>>

-----------------------------------------------------------------------------
\* Every pointer variable is NULL or not yet assigned, which the code
\* never reads before assigning it.
NoBlocks == [b \in Buffers |-> "null"]

Init ==
  /\ file \in Files
  /\ pass \in Passphrases
  /\ now \in Times
  /\ pc = "issue"
  /\ heap = NoBlocks
  /\ secret = {}
  /\ faults = {}
  /\ disclosed = {}
  /\ dclean = {}
  /\ cclean = {}
  /\ dstatus = FALSE
  /\ lstatus = FALSE
  /\ payloadLen = 0
  /\ plain = [len |-> 0, nl |-> FALSE, nul |-> FALSE, genuine |-> FALSE]
  /\ keyLen = 0
  /\ expiry = 0
  /\ tokenSe = 0

\* The call returns at "done"; no step follows it.
Next ==
  \/ IssueBegin \/ LoadPayload \/ DecryptBegin \/ DecodePayload \/ Extract
  \/ Derive \/ Cipher \/ DecryptExit \/ TextString \/ AfterLoad \/ DecodeKey
  \/ Hmac \/ EncodeHmac \/ FormatToken \/ IssueExit

Spec == Init /\ [][Next]_vars

-----------------------------------------------------------------------------
(* Properties.                                                             *)

TypeOK ==
  /\ pc \in Labels
  /\ file \in Files
  /\ pass \in Passphrases
  /\ now \in Times
  /\ heap \in [Buffers -> PointerStates]
  /\ secret \subseteq Buffers
  /\ faults \subseteq Faults
  /\ disclosed \subseteq Buffers
  /\ dclean \subseteq Buffers
  /\ cclean \subseteq Buffers
  /\ dstatus \in BOOLEAN
  /\ lstatus \in BOOLEAN
  /\ payloadLen \in Nat
  /\ plain \in Plains
  /\ keyLen \in Nat
  /\ expiry \in Int
  /\ tokenSe \in Int

\* Buffers whose block create_shared_access_token or decrypt_base64_
\* encoded_openssl_payload allocates and must free before returning (the
\* token is the caller's).
IssuerOwned ==
  {"curl", "urlEndpoint", "passphrase", "payload", "salt", "ciphertext",
   "cipherKey", "cipherIv", "message", "secretKey", "hmac", "b64Hmac",
   "urlHmac"}

\* No block is freed twice on any path through create_shared_access_token,
\* the loader and the decryptor, however the library calls fail.
NoDoubleFree == \A f \in faults : f.kind # "double_free"

\* No freed block is read: in particular the plaintext buffer that
\* compute_aes256cfb_cipher frees without NULLing is never used again.
NoUseAfterFree == \A f \in faults : f.kind # "use_after_free"

\* A token is only returned with an se field one hour ahead of the time it
\* was issued at: the token_expiry > 0 check (authutil.c:97) must catch a
\* time_t wrap of cur_time_since_epoch + SECONDS_IN_AN_HOUR.
IssuedTokenUnexpired ==
  heap["token"] = "live" => tokenSe = now + SecondsInAnHour

\* When the call returns, every block that create_shared_access_token and
\* the decryptor allocated on the way has been freed, on every error path.
IssuerLeakFree ==
  pc = "done" => \A b \in IssuerOwned : heap[b] # "live"

\* When a token is issued, the shared access key, both as base64 text and
\* as binary, was zeroed before its buffer was freed (authutil.c:119, 128).
KeyErasedWhenIssued ==
  heap["token"] = "live" =>
    \A b \in {"b64Key", "secretKey"} : heap[b] = "dangling" => b \notin secret

\* Once asprintf has built the token (authutil.c:154), no later step frees
\* it or changes its se field: the frees on the way out (lines 160-197)
\* leave it to the caller, who receives exactly the token built.
TokenHandedOver ==
  [][heap["token"] = "live" =>
       heap'["token"] = "live" /\ tokenSe' = tokenSe]_vars

(***************************************************************************)
(* Claims of the specification the code does not keep; each is checked by *)
(* a run of its own.                                                       *)
(***************************************************************************)

\* Spec section 3 (the Secret, Passphrase and KeyMaterial rows) and section
\* 5: a secret is never logged, and every buffer that held one is zeroed
\* before it is freed, on every exit path.
SecretNeverLoggedAndErased ==
  /\ disclosed = {}
  /\ \A b \in secret : heap[b] # "dangling"

\* The call performs nothing the C standard leaves undefined: no free of a
\* pointer that is not NULL or a live block, no read of an uninitialized
\* value, no access outside a buffer.
NoUndefinedBehaviour == faults = {}

\* Spec sections 4.2 and 8: a container whose base64 text is not a multiple
\* of 4 characters long, or that does not start with the "Salted__"
\* signature, is rejected, so no key is derived from it.
MalformedContainerRejected ==
  pc = "derive" => file.sig /\ PayloadText(file).len % Base64CharBlockSize = 0

\* When the call returns, nothing it or its callees allocated is still
\* allocated except the token it returns (spec section 5: no leaks on any
\* path).
NoLeakOnReturn ==
  pc = "done" => \A b \in Buffers \ {"token"} : heap[b] # "live"

=============================================================================
