----------------------- MODULE MC_CredentialIssuance -----------------------
(***************************************************************************)
(* A small instance of CredentialIssuance: a 13-bit time_t (the first      *)
(* width in which an hour fits), a time early in its range and one within  *)
(* an hour of its end, and payload files made the way cryptoutil.c:33 says *)
(* from the 32-byte key of the unit tests (44 base64 characters and a line *)
(* feed, so a 61-byte container as in testcryptoutil.c), intact, empty,    *)
(* truncated by three characters, made with -nosalt, and made from a key  *)
(* file holding only a line feed and from an empty key file.              *)
(***************************************************************************)
EXTENDS CredentialIssuance

MCTimeBits == 13

MCTimes == {100, 4000}

MCFiles ==
  {[empty |-> FALSE, keyBytes |-> 32, keyNl |-> TRUE, cut |-> 0, fileNl |-> TRUE, sig |-> TRUE],
   [empty |-> TRUE,  keyBytes |-> 32, keyNl |-> TRUE, cut |-> 0, fileNl |-> FALSE, sig |-> TRUE],
   [empty |-> FALSE, keyBytes |-> 32, keyNl |-> TRUE, cut |-> 3, fileNl |-> FALSE, sig |-> TRUE],
   [empty |-> FALSE, keyBytes |-> 32, keyNl |-> FALSE, cut |-> 0, fileNl |-> FALSE, sig |-> FALSE],
   [empty |-> FALSE, keyBytes |-> 0,  keyNl |-> TRUE, cut |-> 0, fileNl |-> FALSE, sig |-> TRUE],
   [empty |-> FALSE, keyBytes |-> 0,  keyNl |-> FALSE, cut |-> 0, fileNl |-> FALSE, sig |-> TRUE]}

=============================================================================
