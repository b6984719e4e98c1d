----------------------------- MODULE MC_EventHub -----------------------------
(***************************************************************************)
(* Model values for EventHub: three publishes, so a hub is used several   *)
(* times before it is freed with lost and delivered messages in every      *)
(* order, and every allocation and library call may fail, so every failure *)
(* path of new_event_hub is taken.                                         *)
(***************************************************************************)
EXTENDS EventHub

MCMaxPublishes == 3

=============================================================================
