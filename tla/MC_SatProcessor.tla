--------------------------- MODULE MC_SatProcessor ---------------------------
(***************************************************************************)
(* Model values for SatProcessor: a limit of 2 gives three publishes, so   *)
(* the loop's id test is passed twice before it holds; two bus failures    *)
(* hit the polling and the reads in every combination.                     *)
(***************************************************************************)
EXTENDS SatProcessor

MCLimit == 2
MCMaxBusFaults == 2

=============================================================================
