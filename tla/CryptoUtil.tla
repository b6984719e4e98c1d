----------------------------- MODULE CryptoUtil -----------------------------
(***************************************************************************)
(* Fixed sizes and the size arithmetic of the crypto helpers in            *)
(* src/satclient/release/src/crypto/openssl/cryptoutil.c.                  *)
(*                                                                         *)
(* Byte strings are abstracted to their lengths.  A base64 text is a       *)
(* record [len, eq]: its number of characters and the number (0..2) of     *)
(* trailing '=' characters; every other character is taken from the        *)
(* base64 alphabet.  No variables: the modules of the components EXTEND    *)
(* this one.                                                               *)
(***************************************************************************)
EXTENDS Integers

\* OPENSSL_SALT_SIGNATURE_AND_VALUE_SIZE_BYTES: "Salted__" plus the salt.
SaltSignatureAndValueSize == 16

\* OPENSSL_SALT_VALUE_SIZE_BYTES.
SaltValueSize == 8

\* EXPECTED_HMAC_SECRET_KEY_SIZE_BYTES: the only key size
\* compute_sha256_hmac accepts.
HmacSecretKeySize == 32

\* BASE64_BYTE_BLOCK_SIZE and BASE64_CHAR_BLOCK_SIZE.
Base64ByteBlockSize == 3
Base64CharBlockSize == 4

\* The base64 texts over which the helpers are defined.
B64Texts == [len : Nat, eq : 0 .. 2]

(***************************************************************************)
(* The text an OpenSSL base64 BIO with BIO_FLAGS_BASE64_NO_NL writes for   *)
(* n bytes (compute_base64_encode): a 4-character block per started       *)
(* 3-byte block, the last block padded with '='.                           *)
(***************************************************************************)
EncodedText(n) ==
  [len |-> Base64CharBlockSize * ((n + 2) \div Base64ByteBlockSize),
   eq  |-> (Base64ByteBlockSize - (n % Base64ByteBlockSize)) % Base64ByteBlockSize]

\* Fault-injected variant of DecodeByteArraySize: the '=' characters are
\* not subtracted.
DecodeByteArraySizeNoPadding(t) ==
  (t.len * Base64ByteBlockSize) \div Base64CharBlockSize

(***************************************************************************)
(* compute_base64_decode_byte_array_size: 3/4 of the length, minus the     *)
(* '=' characters, which are only looked at when the text has at least one *)
(* full block.  Nothing checks that the length is a multiple of 4.         *)
(***************************************************************************)
DecodeByteArraySize(t) ==
  (t.len * Base64ByteBlockSize) \div Base64CharBlockSize
    - (IF t.len >= Base64CharBlockSize THEN t.eq ELSE 0)

(***************************************************************************)
(* What BIO_read through a base64 filter returns for the text (OpenSSL's   *)
(* EVP decoder): the bytes of every complete 4-character block; a trailing *)
(* partial block is an error at end of input, after which the read returns *)
(* the bytes it decoded before it.                                         *)
(***************************************************************************)
BioDecodedCount(t) ==
  IF t.len % Base64CharBlockSize = 0
    THEN Base64ByteBlockSize * (t.len \div Base64CharBlockSize) - t.eq
    ELSE Base64ByteBlockSize * (t.len \div Base64CharBlockSize)

(***************************************************************************)
(* compute_base64_decode succeeds (apart from allocation failures) when    *)
(* the computed size is positive and the read returns exactly that many    *)
(* bytes.                                                                  *)
(***************************************************************************)
DecodeSucceeds(t) ==
  /\ DecodeByteArraySize(t) > 0
  /\ BioDecodedCount(t) = DecodeByteArraySize(t)

(***************************************************************************)
(* Two's-complement wrap of x to a signed integer of the given width.      *)
(***************************************************************************)
SignedWrap(x, bits) ==
  ((x + 2^(bits - 1)) % 2^bits) - 2^(bits - 1)

=============================================================================
