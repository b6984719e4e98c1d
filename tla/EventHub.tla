------------------------------ MODULE EventHub ------------------------------
(***************************************************************************)
(* The Azure event hub client (cloud/azure/eventhub.c) over the AMQP       *)
(* messaging client (io/amqp/apache-qpid-proton/messagingclient.c) and the *)
(* claim authenticator (cloud/azure/authutil.c): one client creates a hub  *)
(* with new_event_hub, publishes through it, and frees it.                 *)
(*                                                                         *)
(* heap gives the state of each heap block or library object the hub code *)
(* allocates: never allocated (its pointer is NULL), live, or freed.  The *)
(* shared access token comes from create_shared_access_token, which the    *)
(* model CredentialIssuance details; here only its contract is used: a    *)
(* live token or NULL, and NULL for a NULL endpoint (authutil.c:79).       *)
(*                                                                         *)
(* authority is the verdict the claims-based security node ($cbs) would    *)
(* give on the token if it were asked; the code never asks it.             *)
(***************************************************************************)
EXTENDS Naturals

CONSTANTS
  MaxPublishes,   \* bound on the client's publish_telemetry_to_event_hub calls
  LibMayFail      \* whether malloc, asprintf and the proton calls may fail

ASSUME EventHubAssumptions ==
  /\ MaxPublishes \in Nat
  /\ LibMayFail \in BOOLEAN

Blocks == {"ehub", "mclient", "messenger", "message", "endpoint", "token",
           "cbsEndpoint"}

BlockStates == {"unalloc", "live", "freed"}

\* What new_event_hub returns ownership of: the hub and everything it holds.
HubParts == Blocks \ {"cbsEndpoint"}

Verdicts == {"accept", "reject", "silent"}

Labels == {"newHub", "newClient", "endpoint", "token", "authenticate",
           "initFailed", "ready", "freed", "done"}

VARIABLES
  pc,         \* where the client is
  heap,       \* state of each block
  faults,     \* undefined behaviours performed
  authority,  \* the $cbs node's verdict on the token
  sent,       \* publish_message calls made
  lost        \* of those, the ones whose put or send failed

vars == <<pc, heap, faults, authority, sent, lost>>

Outcomes == IF LibMayFail THEN BOOLEAN ELSE {TRUE}

\* free of the blocks bs that are allocated; a NULL pointer is a no-op.
FreeBlocks(h, bs) == [b \in Blocks |-> IF b \in bs /\ h[b] = "live"
                                         THEN "freed" ELSE h[b]]

\* The fault of freeing one of bs a second time.
DoubleFrees(h, bs) == IF \E b \in bs : h[b] = "freed" THEN {"double_free"} ELSE {}

(***************************************************************************)
(* create_service_bus_endpoint (authutil.c:32-57) into block b: asprintf   *)
(* gives a live string, or fails and leaves the endpoint local unassigned, *)
(* which line 52 then frees: an invalid free.                              *)
(***************************************************************************)
CreateServiceBusEndpoint(b, ok) ==
  /\ heap' = IF ok THEN [heap EXCEPT ![b] = "live"] ELSE heap
  /\ faults' = IF ok THEN faults ELSE faults \cup {"invalid_free"}

\* new_event_hub (eventhub.c:22-31): malloc of the EVENT_HUB.
NewEventHub ==
  /\ pc = "newHub"
  /\ \E ok \in Outcomes :
       /\ heap' = [heap EXCEPT !["ehub"] = IF ok THEN "live" ELSE "unalloc"]
       /\ pc' = IF ok THEN "newClient" ELSE "done"
  /\ UNCHANGED <<faults, authority, sent, lost>>

(***************************************************************************)
(* init_event_hub line 56: new_messaging_client (messagingclient.c:32-99). *)
(* The first of malloc, pn_messenger, pn_messenger_start and pn_message    *)
(* that fails undoes what came before it and NULL is returned; n is the   *)
(* number of them that succeeded.  If it is NULL, init_event_hub fails.    *)
(***************************************************************************)
NewMessagingClient ==
  /\ pc = "newClient"
  /\ \E n \in IF LibMayFail THEN 0 .. 4 ELSE {4} :
       /\ heap' = [heap EXCEPT
                     !["mclient"]   = IF n = 0 THEN "unalloc"
                                      ELSE IF n = 4 THEN "live" ELSE "freed",
                     !["messenger"] = IF n < 2 THEN "unalloc"
                                      ELSE IF n = 4 THEN "live" ELSE "freed",
                     !["message"]   = IF n = 4 THEN "live" ELSE "unalloc"]
       /\ pc' = IF n = 4 THEN "endpoint" ELSE "initFailed"
  /\ UNCHANGED <<faults, authority, sent, lost>>

\* init_event_hub line 62: the endpoint of the event hub node.
CreateHubEndpoint ==
  /\ pc = "endpoint"
  /\ \E ok \in Outcomes : CreateServiceBusEndpoint("endpoint", ok)
  /\ pc' = "token"
  /\ UNCHANGED <<authority, sent, lost>>

\* init_event_hub line 64: create_shared_access_token, NULL when the
\* endpoint is NULL, else a token or NULL.
CreateToken ==
  /\ pc = "token"
  /\ \E ok \in IF heap["endpoint"] = "live" THEN Outcomes ELSE {FALSE} :
       heap' = [heap EXCEPT !["token"] = IF ok THEN "live" ELSE "unalloc"]
  /\ pc' = "authenticate"
  /\ UNCHANGED <<faults, authority, sent, lost>>

(***************************************************************************)
(* init_event_hub lines 67-82 with authenticate_claim (authutil.c:264-285) *)
(* inlined: with an endpoint and a token, the $cbs endpoint is built and,  *)
(* if that works, true is returned; nothing is sent to $cbs and the        *)
(* endpoint is never freed.  Otherwise the endpoint and token are freed    *)
(* and init_event_hub fails, keeping the messaging client.                 *)
(***************************************************************************)
AuthenticateClaim ==
  /\ pc = "authenticate"
  /\ \/ /\ heap["endpoint"] = "live" /\ heap["token"] = "live"
        /\ CreateServiceBusEndpoint("cbsEndpoint", TRUE)
        /\ pc' = "ready"
     \/ /\ heap["endpoint"] = "live" /\ heap["token"] = "live" /\ LibMayFail
        /\ heap' = FreeBlocks(heap, {"endpoint", "token"})
        /\ faults' = faults \cup {"invalid_free"}
                             \cup DoubleFrees(heap, {"endpoint", "token"})
        /\ pc' = "initFailed"
     \/ /\ heap["endpoint"] # "live" \/ heap["token"] # "live"
        /\ heap' = FreeBlocks(heap, {"endpoint", "token"})
        /\ faults' = faults \cup DoubleFrees(heap, {"endpoint", "token"})
        /\ pc' = "initFailed"
  /\ UNCHANGED <<authority, sent, lost>>

\* new_event_hub lines 40-45: init_event_hub failed, the hub is freed and
\* NULL returned.
HubInitFailed ==
  /\ pc = "initFailed"
  /\ heap' = FreeBlocks(heap, {"ehub"})
  /\ faults' = faults \cup DoubleFrees(heap, {"ehub"})
  /\ pc' = "done"
  /\ UNCHANGED <<authority, sent, lost>>

(***************************************************************************)
(* publish_telemetry_to_event_hub (eventhub.c:110-116) and publish_message *)
(* (messagingclient.c:122-173): the reusable message is filled, put and    *)
(* sent; a messenger error is only printed by check(), and true is always *)
(* returned, so the caller cannot tell a lost message from a sent one.     *)
(***************************************************************************)
PublishTelemetry ==
  /\ pc = "ready"
  /\ sent < MaxPublishes
  /\ sent' = sent + 1
  /\ \E ok \in Outcomes : lost' = IF ok THEN lost ELSE lost + 1
  /\ UNCHANGED <<pc, heap, faults, authority>>

\* Fault-injected variant of FreeEventHub: free_messaging_client is not
\* called.
FreeEventHubKeepClient ==
  /\ pc = "ready"
  /\ heap' = FreeBlocks(heap, {"endpoint", "token", "ehub"})
  /\ faults' = faults \cup DoubleFrees(heap, {"endpoint", "token", "ehub"})
  /\ pc' = "freed"
  /\ UNCHANGED <<authority, sent, lost>>

\* Fault-injected variant of FreeEventHub: the client is freed again after
\* free_messaging_client has freed it.
FreeEventHubClientTwice ==
  /\ pc = "ready"
  /\ heap' = FreeBlocks(heap, HubParts)
  /\ faults' = faults \cup DoubleFrees(heap, HubParts)
                       \cup DoubleFrees(FreeBlocks(heap, HubParts), {"mclient"})
  /\ pc' = "freed"
  /\ UNCHANGED <<authority, sent, lost>>

(***************************************************************************)
(* free_event_hub (eventhub.c:92-106) with free_messaging_client           *)
(* (messagingclient.c:103-118): messenger stopped and freed, message and   *)
(* client freed, then the endpoint, the token and the hub.                 *)
(***************************************************************************)
FreeEventHub ==
  /\ pc = "ready"
  /\ heap' = FreeBlocks(heap, HubParts)
  /\ faults' = faults \cup DoubleFrees(heap, HubParts)
  /\ pc' = "freed"
  /\ UNCHANGED <<authority, sent, lost>>

Init ==
  /\ pc = "newHub"
  /\ heap = [b \in Blocks |-> "unalloc"]
  /\ faults = {}
  /\ authority \in Verdicts
  /\ sent = 0
  /\ lost = 0

Next ==
  \/ NewEventHub
  \/ NewMessagingClient
  \/ CreateHubEndpoint
  \/ CreateToken
  \/ AuthenticateClaim
  \/ HubInitFailed
  \/ PublishTelemetry
  \/ FreeEventHub

Spec == Init /\ [][Next]_vars

-----------------------------------------------------------------------------
(* Properties *)

\* Type invariant.
TypeOK ==
  /\ pc \in Labels
  /\ heap \in [Blocks -> BlockStates]
  /\ faults \subseteq {"invalid_free", "double_free"}
  /\ authority \in Verdicts
  /\ sent \in 0 .. MaxPublishes
  /\ lost \in 0 .. sent

\* The hub new_event_hub hands out owns a live messaging client (messenger
\* and reusable message), endpoint and token for as long as it is used,
\* and free_event_hub releases every one of them.
HubOwnership ==
  /\ pc = "ready" => \A b \in HubParts : heap[b] = "live"
  /\ pc = "freed" => \A b \in HubParts : heap[b] = "freed"

\* No block is freed twice, on the failure paths of init_event_hub and
\* new_messaging_client or in free_event_hub.
NoDoubleFree == "double_free" \notin faults

\* Spec section 4.8: until the $cbs node has accepted the shared access
\* token, the event hub endpoint is not used to publish application
\* messages.
ClaimVerifiedBeforeUse == sent > 0 => authority = "accept"

=============================================================================
