---------------------------- MODULE EventHubProofs ----------------------------
(***************************************************************************)
(* Proofs about the event hub client: for every bound on the publishes and *)
(* whether or not the library calls may fail, the hub new_event_hub hands  *)
(* out owns live parts until free_event_hub frees all of them, and no      *)
(* block is ever freed twice.                                              *)
(*                                                                         *)
(* Neither property is inductive alone: free_event_hub frees without a     *)
(* check, so the parts must be known live at "ready", and that rests on    *)
(* what each step of init_event_hub leaves behind.  IInv records it.       *)
(***************************************************************************)
EXTENDS EventHub, TLAPS

\* The blocks new_messaging_client and new_event_hub leave live before the
\* endpoint and token are made.
ClientParts == {"ehub", "mclient", "messenger", "message"}

\* Before the init failure path runs, the hub itself is live.
HubLiveOnFailure ==
  pc \in {"newClient", "initFailed"} => heap["ehub"] = "live"

\* Between new_messaging_client and authenticate_claim the hub and its
\* client are live.
ClientLiveDuringInit ==
  pc \in {"endpoint", "token", "authenticate"} =>
    \A b \in ClientParts : heap[b] = "live"

\* Until init_event_hub has finished, the endpoint and token have not been
\* freed.
EndpointNotFreedDuringInit ==
  pc \in {"newHub", "newClient", "endpoint", "token", "authenticate"} =>
    heap["endpoint"] # "freed" /\ heap["token"] # "freed"

IInv ==
  /\ TypeOK
  /\ HubOwnership
  /\ NoDoubleFree
  /\ HubLiveOnFailure
  /\ ClientLiveDuringInit
  /\ EndpointNotFreedDuringInit

USE EventHubAssumptions

LEMMA InitIInv == Init => IInv
BY DEF Init, IInv, TypeOK, HubOwnership, NoDoubleFree, HubLiveOnFailure,
       ClientLiveDuringInit, EndpointNotFreedDuringInit, Labels, Blocks,
       BlockStates, Verdicts

\* FreeBlocks keeps a heap well typed and frees exactly the live blocks
\* of bs.
LEMMA FreeBlocksType ==
  ASSUME NEW h \in [Blocks -> BlockStates], NEW bs
  PROVE  /\ FreeBlocks(h, bs) \in [Blocks -> BlockStates]
         /\ \A b \in Blocks : FreeBlocks(h, bs)[b] =
              IF b \in bs /\ h[b] = "live" THEN "freed" ELSE h[b]
BY DEF FreeBlocks, BlockStates

LEMMA NewEventHubIInv == IInv /\ NewEventHub => IInv'
<1> SUFFICES ASSUME IInv, NewEventHub PROVE IInv'
  OBVIOUS
<1>1. PICK ok \in Outcomes :
        /\ heap' = [heap EXCEPT !["ehub"] = IF ok THEN "live" ELSE "unalloc"]
        /\ pc' = IF ok THEN "newClient" ELSE "done"
  BY DEF NewEventHub
<1>2. CASE ok
  BY <1>1, <1>2 DEF NewEventHub, IInv, TypeOK, HubOwnership, NoDoubleFree,
     HubLiveOnFailure, ClientLiveDuringInit, EndpointNotFreedDuringInit,
     Labels, Blocks, BlockStates
<1>3. CASE ~ok
  BY <1>1, <1>3 DEF NewEventHub, IInv, TypeOK, HubOwnership, NoDoubleFree,
     HubLiveOnFailure, ClientLiveDuringInit, EndpointNotFreedDuringInit,
     Labels, Blocks, BlockStates
<1> QED
  BY <1>2, <1>3

LEMMA NewMessagingClientIInv == IInv /\ NewMessagingClient => IInv'
<1> SUFFICES ASSUME IInv, NewMessagingClient PROVE IInv'
  OBVIOUS
<1>1. PICK n \in IF LibMayFail THEN 0 .. 4 ELSE {4} :
        /\ heap' = [heap EXCEPT
                     !["mclient"]   = IF n = 0 THEN "unalloc"
                                      ELSE IF n = 4 THEN "live" ELSE "freed",
                     !["messenger"] = IF n < 2 THEN "unalloc"
                                      ELSE IF n = 4 THEN "live" ELSE "freed",
                     !["message"]   = IF n = 4 THEN "live" ELSE "unalloc"]
        /\ pc' = IF n = 4 THEN "endpoint" ELSE "initFailed"
  BY DEF NewMessagingClient
<1>2. n \in 0 .. 4
  BY <1>1
<1> QED
  BY <1>1, <1>2 DEF NewMessagingClient, IInv, TypeOK, HubOwnership, NoDoubleFree,
     HubLiveOnFailure, ClientLiveDuringInit, EndpointNotFreedDuringInit,
     Labels, Blocks, BlockStates, ClientParts

LEMMA CreateHubEndpointIInv == IInv /\ CreateHubEndpoint => IInv'
<1> SUFFICES ASSUME IInv, CreateHubEndpoint PROVE IInv'
  OBVIOUS
<1>1. PICK ok \in Outcomes : CreateServiceBusEndpoint("endpoint", ok)
  BY DEF CreateHubEndpoint
<1> QED
  BY <1>1 DEF CreateHubEndpoint, CreateServiceBusEndpoint, IInv, TypeOK,
     HubOwnership, NoDoubleFree, HubLiveOnFailure, ClientLiveDuringInit,
     EndpointNotFreedDuringInit, Labels, Blocks, BlockStates, ClientParts

LEMMA CreateTokenIInv == IInv /\ CreateToken => IInv'
<1> SUFFICES ASSUME IInv, CreateToken PROVE IInv'
  OBVIOUS
<1>1. PICK ok \in BOOLEAN :
        heap' = [heap EXCEPT !["token"] = IF ok THEN "live" ELSE "unalloc"]
  BY DEF CreateToken, Outcomes
<1> QED
  BY <1>1 DEF CreateToken, IInv, TypeOK, HubOwnership, NoDoubleFree,
     HubLiveOnFailure, ClientLiveDuringInit, EndpointNotFreedDuringInit,
     Labels, Blocks, BlockStates, ClientParts

LEMMA AuthenticateClaimIInv == IInv /\ AuthenticateClaim => IInv'
<1> SUFFICES ASSUME IInv, AuthenticateClaim PROVE IInv'
  OBVIOUS
<1>0. /\ heap \in [Blocks -> BlockStates]
      /\ pc = "authenticate"
      /\ heap["endpoint"] # "freed" /\ heap["token"] # "freed"
      /\ \A b \in ClientParts : heap[b] = "live"
  BY DEF IInv, TypeOK, AuthenticateClaim, EndpointNotFreedDuringInit,
         ClientLiveDuringInit
<1>1. DoubleFrees(heap, {"endpoint", "token"}) = {}
  BY <1>0 DEF DoubleFrees
<1>2. CASE /\ heap["endpoint"] = "live" /\ heap["token"] = "live"
           /\ CreateServiceBusEndpoint("cbsEndpoint", TRUE)
           /\ pc' = "ready"
  BY <1>0, <1>2 DEF AuthenticateClaim, CreateServiceBusEndpoint, IInv,
     TypeOK, HubOwnership, NoDoubleFree, HubLiveOnFailure,
     ClientLiveDuringInit, EndpointNotFreedDuringInit, Labels, Blocks,
     BlockStates, ClientParts, HubParts
<1>3. CASE /\ heap' = FreeBlocks(heap, {"endpoint", "token"})
           /\ faults' = faults \cup {"invalid_free"}
                                \cup DoubleFrees(heap, {"endpoint", "token"})
           /\ pc' = "initFailed"
  <2>1. heap'["ehub"] = "live" /\ heap' \in [Blocks -> BlockStates]
    BY <1>0, <1>3, FreeBlocksType DEF ClientParts, Blocks
  <2> QED
    BY <1>0, <1>1, <1>3, <2>1 DEF AuthenticateClaim, IInv, TypeOK,
       HubOwnership, NoDoubleFree, HubLiveOnFailure, ClientLiveDuringInit,
       EndpointNotFreedDuringInit, Labels
<1>4. CASE /\ heap' = FreeBlocks(heap, {"endpoint", "token"})
           /\ faults' = faults \cup DoubleFrees(heap, {"endpoint", "token"})
           /\ pc' = "initFailed"
  <2>1. heap'["ehub"] = "live" /\ heap' \in [Blocks -> BlockStates]
    BY <1>0, <1>4, FreeBlocksType DEF ClientParts, Blocks
  <2> QED
    BY <1>0, <1>1, <1>4, <2>1 DEF AuthenticateClaim, IInv, TypeOK,
       HubOwnership, NoDoubleFree, HubLiveOnFailure, ClientLiveDuringInit,
       EndpointNotFreedDuringInit, Labels
<1> QED
  BY <1>2, <1>3, <1>4 DEF AuthenticateClaim

LEMMA HubInitFailedIInv == IInv /\ HubInitFailed => IInv'
<1> SUFFICES ASSUME IInv, HubInitFailed PROVE IInv'
  OBVIOUS
<1>0. heap \in [Blocks -> BlockStates] /\ heap["ehub"] = "live"
  BY DEF IInv, TypeOK, HubInitFailed, HubLiveOnFailure
<1>1. DoubleFrees(heap, {"ehub"}) = {}
  BY <1>0 DEF DoubleFrees
<1>2. heap' \in [Blocks -> BlockStates]
  BY <1>0, FreeBlocksType DEF HubInitFailed
<1> QED
  BY <1>1, <1>2 DEF HubInitFailed, IInv, TypeOK, HubOwnership, NoDoubleFree,
     HubLiveOnFailure, ClientLiveDuringInit, EndpointNotFreedDuringInit,
     Labels

LEMMA PublishTelemetryIInv == IInv /\ PublishTelemetry => IInv'
<1> SUFFICES ASSUME IInv, PublishTelemetry PROVE IInv'
  OBVIOUS
<1>1. PICK ok \in BOOLEAN : lost' = IF ok THEN lost ELSE lost + 1
  BY DEF PublishTelemetry, Outcomes
<1> QED
  BY <1>1 DEF PublishTelemetry, IInv, TypeOK, HubOwnership, NoDoubleFree,
     HubLiveOnFailure, ClientLiveDuringInit, EndpointNotFreedDuringInit

LEMMA FreeEventHubIInv == IInv /\ FreeEventHub => IInv'
<1> SUFFICES ASSUME IInv, FreeEventHub PROVE IInv'
  OBVIOUS
<1>0. heap \in [Blocks -> BlockStates] /\ \A b \in HubParts : heap[b] = "live"
  BY DEF IInv, TypeOK, FreeEventHub, HubOwnership
<1>1. DoubleFrees(heap, HubParts) = {}
  BY <1>0 DEF DoubleFrees
<1>2. /\ heap' \in [Blocks -> BlockStates]
      /\ \A b \in HubParts : heap'[b] = "freed"
  BY <1>0, FreeBlocksType DEF FreeEventHub, HubParts
<1> QED
  BY <1>1, <1>2 DEF FreeEventHub, IInv, TypeOK, HubOwnership, NoDoubleFree,
     HubLiveOnFailure, ClientLiveDuringInit, EndpointNotFreedDuringInit,
     Labels

LEMMA StutterIInv == IInv /\ UNCHANGED vars => IInv'
BY DEF vars, IInv, TypeOK, HubOwnership, NoDoubleFree, HubLiveOnFailure,
       ClientLiveDuringInit, EndpointNotFreedDuringInit

LEMMA NextIInv == IInv /\ [Next]_vars => IInv'
BY NewEventHubIInv, NewMessagingClientIInv, CreateHubEndpointIInv,
   CreateTokenIInv, AuthenticateClaimIInv, HubInitFailedIInv,
   PublishTelemetryIInv, FreeEventHubIInv, StutterIInv DEF Next

\* For every bound and every library behaviour, a hub that new_event_hub
\* returns has live client, messenger, message, endpoint and token until
\* free_event_hub, which frees each of them.
THEOREM HubOwned == Spec => []HubOwnership
<1>1. IInv => HubOwnership
  BY DEF IInv
<1> QED
  BY InitIInv, NextIInv, <1>1, PTL DEF Spec

\* No path of new_event_hub, init_event_hub, new_messaging_client or
\* free_event_hub frees a block twice.
THEOREM NoBlockFreedTwice == Spec => []NoDoubleFree
<1>1. IInv => NoDoubleFree
  BY DEF IInv
<1> QED
  BY InitIInv, NextIInv, <1>1, PTL DEF Spec

=============================================================================
