--------------------------- MODULE MC_Base64Codec ---------------------------
(***************************************************************************)
(* Arrays of up to 12 bytes (four blocks, every remainder modulo 3) and    *)
(* texts of up to 17 characters (every remainder modulo 4 past four full   *)
(* blocks), which covers every text the encoder writes for those arrays.   *)
(***************************************************************************)
EXTENDS Base64Codec

MCMaxBytes == 12

MCMaxChars == 17

=============================================================================
