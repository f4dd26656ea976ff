--------------------------- MODULE ReliableUpload ---------------------------
(***************************************************************************)
(* What POST /api/v1/events promises the mobile client, whatever happens   *)
(* in between: an event is stored in asset_observation before the device   *)
(* is told that it may delete its local copy.  Requests, connections and   *)
(* transactions are absent: EventIngestion has them and refines this.      *)
(***************************************************************************)
CONSTANTS
    Devices,
    Recorded     \* [Devices -> set of client_ids recorded by the device]

VARIABLES
    outbox,      \* [Devices -> set of client_ids still held by the device]
    durable      \* client_ids of the committed rows of asset_observation

vars == <<outbox, durable>>

Init ==
    /\ outbox = Recorded
    /\ durable = {}

\* A batch becomes durable as a whole.
Store(S) ==
    /\ durable' = durable \union S
    /\ UNCHANGED outbox

\* The device deletes rows it was told are ingested, and only those.
Forget(d, S) ==
    /\ S \subseteq durable
    /\ outbox' = [outbox EXCEPT ![d] = @ \ S]
    /\ UNCHANGED durable

Next ==
    \/ \E d \in Devices : \E S \in SUBSET Recorded[d] : Store(S)
    \/ \E d \in Devices : \E S \in SUBSET Recorded[d] : Forget(d, S)

Spec == Init /\ [][Next]_vars
=============================================================================
