--------------------------- MODULE EventIngestion ---------------------------
(***************************************************************************)
(* POST /api/v1/events: concurrent uploads of event batches, the database  *)
(* transaction each runs in, and the device that deletes what was          *)
(* accepted (routes/events.py, services/event_service.py).                 *)
(*                                                                         *)
(* The handler awaits the database once per event, so the statements of    *)
(* concurrent requests interleave one by one.  PostgreSQL is modelled by   *)
(* the four rules insert_events depends on: a row is invisible until its   *)
(* transaction commits; an INSERT whose client_id is being inserted by     *)
(* another open transaction waits for it; a statement that raises aborts   *)
(* the whole transaction, after which every statement raises and COMMIT    *)
(* silently rolls back; one transaction of a waiting cycle is aborted.     *)
(* An event may also be rejected before its statement is sent, because the *)
(* driver cannot encode an argument: that leaves the transaction alone.    *)
(***************************************************************************)
EXTENDS Naturals, Sequences, FiniteSets

CONSTANTS
    Devices,     \* mobile clients
    Requests,    \* handler coroutines that may be in progress at once
    Recorded,    \* [Devices -> set of client_ids recorded by the device]
    Uploads,     \* the batches a device may form (sequences of client_ids)
    MaxBatch,    \* settings.max_batch_size
    Invalid,     \* client_ids of events that EventPayload does not validate
    Unencodable, \* client_ids whose arguments asyncpg cannot encode (a `ts`
                 \* whose conversion to UTC overflows)
    Unstorable,  \* client_ids whose INSERT raises in the server
    MaxFaults,   \* bound on refusals, lost connections and timeouts
    None         \* "no request"

Events == UNION {Recorded[d] : d \in Devices}
Items(s) == {s[i] : i \in DOMAIN s}

ASSUME RecordedAssumption == Recorded \in [Devices -> SUBSET Events]
ASSUME UploadsAssumption == Uploads \subseteq Seq(Events)
ASSUME BoundsAssumption == MaxBatch \in Nat /\ MaxFaults \in Nat
ASSUME NoneAssumption == None \notin Requests

VARIABLES
    outbox,      \* [Devices -> client_ids in the local Room table]
    awaiting,    \* [Devices -> the request whose reply the device waits for]
    durable,     \* client_ids of the committed rows of asset_observation
    phase,       \* [Requests -> where the handler stands]
    dev,         \* [Requests -> device_id of the request]
    todo,        \* [Requests -> events the loop has not reached]
    accepted,    \* [Requests -> the list `accepted`, as a set]
    rejected,    \* [Requests -> the ids of the list `rejected`, as a set]
    written,     \* [Requests -> rows inserted by the open transaction]
    aborted,     \* [Requests -> PostgreSQL has aborted the transaction]
    faults       \* faults so far, bounded by MaxFaults

clientVars == <<outbox, awaiting>>
handlerVars == <<phase, dev, todo, accepted, rejected>>
txVars == <<written, aborted>>
vars == <<clientVars, durable, handlerVars, txVars, faults>>

Phases == {"free", "received", "open", "answered"}

Init ==
    /\ outbox = Recorded
    /\ awaiting = [d \in Devices |-> None]
    /\ durable = {}
    /\ phase = [r \in Requests |-> "free"]
    /\ dev \in [Requests -> Devices]
    /\ todo = [r \in Requests |-> <<>>]
    /\ accepted = [r \in Requests |-> {}]
    /\ rejected = [r \in Requests |-> {}]
    /\ written = [r \in Requests |-> {}]
    /\ aborted = [r \in Requests |-> FALSE]
    /\ faults = 0

Fault == faults < MaxFaults /\ faults' = faults + 1

(***************************************************************************)
(* The device: upload a batch of what is left in the outbox, wait for the  *)
(* reply, delete exactly the accepted ids; or give up waiting and upload   *)
(* again while the abandoned request is still running.                     *)
(***************************************************************************)
\* Mutant of Send: the request gets a connection on which the transaction of
\* an earlier one is still aborted.
SendToAborted(d, r) ==
    /\ phase[r] = "free"
    /\ awaiting[d] = None
    /\ \E b \in Uploads :
        /\ b # <<>>
        /\ Items(b) \subseteq outbox[d]
        /\ todo' = [todo EXCEPT ![r] = b]
    /\ phase' = [phase EXCEPT ![r] = "received"]
    /\ dev' = [dev EXCEPT ![r] = d]
    /\ accepted' = [accepted EXCEPT ![r] = {}]
    /\ rejected' = [rejected EXCEPT ![r] = {}]
    /\ awaiting' = [awaiting EXCEPT ![d] = r]
    /\ UNCHANGED <<outbox, durable, txVars, faults>>

Send(d, r) ==
    /\ phase[r] = "free"
    /\ awaiting[d] = None
    /\ \E b \in Uploads :
        /\ b # <<>>
        /\ Items(b) \subseteq outbox[d]
        /\ todo' = [todo EXCEPT ![r] = b]
    /\ phase' = [phase EXCEPT ![r] = "received"]
    /\ dev' = [dev EXCEPT ![r] = d]
    /\ accepted' = [accepted EXCEPT ![r] = {}]
    /\ rejected' = [rejected EXCEPT ![r] = {}]
    /\ aborted' = [aborted EXCEPT ![r] = FALSE]
    /\ awaiting' = [awaiting EXCEPT ![d] = r]
    /\ UNCHANGED <<outbox, durable, written, faults>>

StopAwaiting(r) ==
    awaiting' = [d \in Devices |-> IF awaiting[d] = r THEN None ELSE awaiting[d]]

Deliver(r) ==
    /\ phase[r] = "answered"
    /\ awaiting[dev[r]] = r
    /\ outbox' = [outbox EXCEPT ![dev[r]] = @ \ accepted[r]]
    /\ StopAwaiting(r)
    /\ phase' = [phase EXCEPT ![r] = "free"]
    /\ UNCHANGED <<durable, dev, todo, accepted, rejected, txVars, faults>>

\* The device stops waiting: its own timeout, or the reply is lost.
Timeout(d) ==
    /\ awaiting[d] # None
    /\ Fault
    /\ awaiting' = [awaiting EXCEPT ![d] = None]
    /\ UNCHANGED <<outbox, durable, handlerVars, txVars>>

\* Nobody listens to the reply any more.
Discard(r) ==
    /\ phase[r] = "answered"
    /\ awaiting[dev[r]] # r
    /\ phase' = [phase EXCEPT ![r] = "free"]
    /\ UNCHANGED <<clientVars, durable, dev, todo, accepted, rejected, txVars, faults>>

(***************************************************************************)
(* The route, before it touches the database.  Whether check_rate_limit    *)
(* lets the batch pass is left open here (module RateLimit decides it).    *)
(***************************************************************************)
Refuse(r) ==
    /\ phase[r] = "received"
    /\ phase' = [phase EXCEPT ![r] = "free"]
    /\ StopAwaiting(r)
    /\ UNCHANGED <<outbox, durable, dev, todo, accepted, rejected, txVars>>

HasInvalid(r) == Items(todo[r]) \intersect Invalid # {}

\* 422: the body is validated as a whole before the handler is called.
RefuseInvalid(r) ==
    /\ HasInvalid(r)
    /\ Refuse(r)
    /\ UNCHANGED faults

RefuseTooLong(r) ==
    /\ ~HasInvalid(r) /\ Len(todo[r]) > MaxBatch
    /\ Refuse(r)
    /\ UNCHANGED faults

RefuseOverLimit(r) ==
    /\ ~HasInvalid(r) /\ Len(todo[r]) <= MaxBatch
    /\ Refuse(r)
    /\ Fault

Begin(r) ==
    /\ phase[r] = "received"
    /\ ~HasInvalid(r) /\ Len(todo[r]) <= MaxBatch
    /\ phase' = [phase EXCEPT ![r] = "open"]
    /\ UNCHANGED <<clientVars, durable, dev, todo, accepted, rejected, txVars, faults>>

(***************************************************************************)
(* The loop of insert_events: one awaited INSERT ... ON CONFLICT DO        *)
(* NOTHING per event, inside one transaction.                              *)
(***************************************************************************)
Blocks(q, r) ==
    /\ q # r
    /\ phase[q] = "open" /\ phase[r] = "open"
    /\ ~aborted[r]
    /\ todo[r] # <<>>
    /\ Head(todo[r]) \in written[q]

\* r waits, directly or not, for itself.
Deadlocked(r) ==
    \E C \in SUBSET Requests :
        /\ r \in C
        /\ \A p \in C : \E q \in C : Blocks(q, p)
        /\ \A q \in C : \E p \in C : Blocks(q, p)

Executing(r) == phase[r] = "open" /\ todo[r] # <<>>

\* The statement of the next event does not raise.
Storable(r) == Head(todo[r]) \notin Unstorable \union Unencodable

\* Mutant of Insert: the loop reads its uncommitted neighbours' rows as
\* duplicates instead of waiting for them.
InsertNoWait(r) ==
    /\ Executing(r)
    /\ ~aborted[r]
    /\ Storable(r)
    /\ accepted' = [accepted EXCEPT ![r] = @ \union {Head(todo[r])}]
    /\ written' = [written EXCEPT ![r] =
                      IF Head(todo[r]) \in durable \union UNION {written[q] : q \in Requests}
                      THEN @ ELSE @ \union {Head(todo[r])}]
    /\ todo' = [todo EXCEPT ![r] = Tail(@)]
    /\ UNCHANGED <<clientVars, durable, phase, dev, rejected, aborted, faults>>

\* Mutant of Insert: an id that already exists is reported as rejected.
InsertRejectsDuplicate(r) ==
    /\ Executing(r)
    /\ ~aborted[r]
    /\ Storable(r)
    /\ \A q \in Requests : ~Blocks(q, r)
    /\ IF Head(todo[r]) \in durable
       THEN /\ rejected' = [rejected EXCEPT ![r] = @ \union {Head(todo[r])}]
            /\ UNCHANGED <<accepted, written>>
       ELSE /\ accepted' = [accepted EXCEPT ![r] = @ \union {Head(todo[r])}]
            /\ written' = [written EXCEPT ![r] = @ \union {Head(todo[r])}]
            /\ UNCHANGED rejected
    /\ todo' = [todo EXCEPT ![r] = Tail(@)]
    /\ UNCHANGED <<clientVars, durable, phase, dev, aborted, faults>>

\* Mutant of Insert: no transaction is open, each INSERT commits at once.
InsertAutocommit(r) ==
    /\ Executing(r)
    /\ ~aborted[r]
    /\ Storable(r)
    /\ \A q \in Requests : ~Blocks(q, r)
    /\ accepted' = [accepted EXCEPT ![r] = @ \union {Head(todo[r])}]
    /\ durable' = durable \union {Head(todo[r])}
    /\ todo' = [todo EXCEPT ![r] = Tail(@)]
    /\ UNCHANGED <<clientVars, phase, dev, rejected, txVars, faults>>

\* The row is new, or its client_id exists: both count as accepted.
Insert(r) ==
    /\ Executing(r)
    /\ ~aborted[r]
    /\ Storable(r)
    /\ \A q \in Requests : ~Blocks(q, r)
    /\ accepted' = [accepted EXCEPT ![r] = @ \union {Head(todo[r])}]
    /\ written' = [written EXCEPT ![r] = @ \union ({Head(todo[r])} \ durable)]
    /\ todo' = [todo EXCEPT ![r] = Tail(@)]
    /\ UNCHANGED <<clientVars, durable, phase, dev, rejected, aborted, faults>>

\* The driver raises DataError, a PostgresError, before it sends anything:
\* the event is rejected and the transaction goes on.
EncodeFails(r) ==
    /\ Executing(r)
    /\ ~aborted[r]
    /\ Head(todo[r]) \in Unencodable
    /\ rejected' = [rejected EXCEPT ![r] = @ \union {Head(todo[r])}]
    /\ todo' = [todo EXCEPT ![r] = Tail(@)]
    /\ UNCHANGED <<clientVars, durable, phase, dev, accepted, txVars, faults>>

\* The server raises a PostgresError: the event is rejected, and PostgreSQL
\* aborts the transaction and drops its rows.
RaiseAndAbort(r) ==
    /\ Executing(r)
    /\ ~aborted[r]
    /\ rejected' = [rejected EXCEPT ![r] = @ \union {Head(todo[r])}]
    /\ todo' = [todo EXCEPT ![r] = Tail(@)]
    /\ aborted' = [aborted EXCEPT ![r] = TRUE]
    /\ written' = [written EXCEPT ![r] = {}]
    /\ UNCHANGED <<clientVars, durable, phase, dev, accepted, faults>>

InsertFails(r) ==
    /\ Executing(r)
    /\ Head(todo[r]) \in Unstorable \ Unencodable
    /\ RaiseAndAbort(r)

DeadlockVictim(r) ==
    /\ Deadlocked(r)
    /\ RaiseAndAbort(r)

\* Mutant of InsertInAborted: a statement that raised is tried again.
InsertRetried(r) ==
    /\ Executing(r)
    /\ aborted[r]
    /\ rejected' = [rejected EXCEPT ![r] = @ \union {Head(todo[r])}]
    /\ UNCHANGED <<clientVars, durable, phase, dev, todo, accepted, txVars, faults>>

\* Every further statement of an aborted transaction raises
\* InFailedSQLTransactionError, a PostgresError: the loop goes on rejecting.
InsertInAborted(r) ==
    /\ Executing(r)
    /\ aborted[r]
    /\ rejected' = [rejected EXCEPT ![r] = @ \union {Head(todo[r])}]
    /\ todo' = [todo EXCEPT ![r] = Tail(@)]
    /\ UNCHANGED <<clientVars, durable, phase, dev, accepted, txVars, faults>>

\* Leaving the `async with` sends COMMIT.  In an aborted transaction the
\* server answers ROLLBACK without an error, and the handler answers 200.
Commit(r) ==
    /\ phase[r] = "open"
    /\ todo[r] = <<>>
    /\ durable' = durable \union written[r]
    /\ written' = [written EXCEPT ![r] = {}]
    /\ phase' = [phase EXCEPT ![r] = "answered"]
    /\ UNCHANGED <<clientVars, dev, todo, accepted, rejected, aborted, faults>>

\* The connection is lost, a command exceeds command_timeout or the worker
\* dies: the transaction is rolled back and the request ends in a 500.
Drop(r) ==
    /\ phase[r] = "open"
    /\ Fault
    /\ phase' = [phase EXCEPT ![r] = "free"]
    /\ written' = [written EXCEPT ![r] = {}]
    /\ StopAwaiting(r)
    /\ UNCHANGED <<outbox, durable, dev, todo, accepted, rejected, aborted>>

\* The connection is lost while COMMIT is answered: the batch is stored, yet
\* the request ends in a 500.
DropAfterCommit(r) ==
    /\ phase[r] = "open"
    /\ todo[r] = <<>>
    /\ Fault
    /\ durable' = durable \union written[r]
    /\ written' = [written EXCEPT ![r] = {}]
    /\ phase' = [phase EXCEPT ![r] = "free"]
    /\ StopAwaiting(r)
    /\ UNCHANGED <<outbox, dev, todo, accepted, rejected, aborted>>

Handle(r) ==
    \/ RefuseInvalid(r)
    \/ RefuseTooLong(r)
    \/ Begin(r)
    \/ Insert(r)
    \/ EncodeFails(r)
    \/ InsertFails(r)
    \/ DeadlockVictim(r)
    \/ InsertInAborted(r)
    \/ Commit(r)
    \/ Deliver(r)
    \/ Discard(r)

Next ==
    \/ \E d \in Devices, r \in Requests : Send(d, r)
    \/ \E d \in Devices : Timeout(d)
    \/ \E r \in Requests : Handle(r)
    \/ \E r \in Requests : RefuseOverLimit(r) \/ Drop(r) \/ DropAfterCommit(r)

Spec == Init /\ [][Next]_vars

(***************************************************************************)
(* The event loop runs every coroutine that can go on, and the upload      *)
(* worker of the device retries as long as its outbox is not empty.        *)
(***************************************************************************)
Fairness ==
    /\ \A d \in Devices : WF_vars(\E r \in Requests : Send(d, r))
    /\ \A r \in Requests : WF_vars(Handle(r))

FairSpec == Spec /\ Fairness

-----------------------------------------------------------------------------
TypeOK ==
    /\ outbox \in [Devices -> SUBSET Events]
    /\ awaiting \in [Devices -> Requests \union {None}]
    /\ durable \subseteq Events
    /\ phase \in [Requests -> Phases]
    /\ dev \in [Requests -> Devices]
    /\ todo \in [Requests -> Seq(Events)]
    /\ accepted \in [Requests -> SUBSET Events]
    /\ rejected \in [Requests -> SUBSET Events]
    /\ written \in [Requests -> SUBSET Events]
    /\ aborted \in [Requests -> BOOLEAN]
    /\ faults \in 0..MaxFaults
    /\ \A r \in Requests : phase[r] = "open" => Len(todo[r]) <= MaxBatch

\* No event disappears: what a device recorded is still in its outbox or is
\* a committed row (the reason why the client deletes only accepted ids,
\* routes/events.py:9-12), across lost replies, retries that overlap the
\* abandoned request, lost connections and refusals.
NoEventLost ==
    \A d \in Devices : Recorded[d] \subseteq outbox[d] \union durable

\* An id in the `accepted` list of a reply is ingested: its row is committed
\* (models/__init__.py:91-94).
AcceptedIsIngested ==
    \A r \in Requests : phase[r] = "answered" => accepted[r] \subseteq durable

\* asset_observation grows at the end of a transaction and by the whole
\* accepted list of one request: neither a lost connection nor a deadlock
\* leaves a part of it behind ("if the connection drops mid-batch, nothing
\* is committed", event_service.py:62-63).  Rejected events do not matter.
AcceptedTogether ==
    [][durable' # durable =>
        \E r \in Requests :
            /\ phase[r] = "open" /\ todo[r] = <<>>
            /\ durable' = durable \union accepted[r]]_vars

Safe(d) == outbox[d] \union durable

\* An event disappears, neither in its device's outbox nor stored, only when
\* the device receives the reply of a batch in which a statement raised: the
\* reply lists it as accepted although the transaction was rolled back (the
\* `except` inside the `async with`, event_service.py:64-105).
LossOnlyThroughAbort ==
    [][\A d \in Devices : \A e \in Safe(d) \ Safe(d)' :
        \E r \in Requests :
            /\ phase[r] = "answered" /\ awaiting[d] = r
            /\ aborted[r] /\ e \in accepted[r]]_vars

\* Every recorded event is eventually stored and every outbox drained, in
\* spite of finitely many lost replies, refusals and lost connections.
EventsGetStored ==
    /\ \A e \in Events : <>(e \in durable)
    /\ <>(\A d \in Devices : outbox[d] = {})

\* A device whose events can all be stored uploads them all, though another
\* one retries for ever with an event that is refused or cannot be inserted
\* (models/__init__.py:46, event_service.py:64: one bad event holds up the
\* outbox of its own device only).
HealthyDevicesDrain ==
    \A d \in Devices : Recorded[d] \intersect (Invalid \union Unencodable \union Unstorable) = {} =>
        <>[](outbox[d] = {} /\ Recorded[d] \subseteq durable)

\* A batch the database can be asked to store does not hang, even when
\* overlapping retries wait for each other's rows.
EveryRequestEnds ==
    \A r \in Requests : phase[r] = "received" ~> phase[r] = "free"

\* "Partial batch acceptance: individual events can be rejected without
\* failing the entire batch" (README.md): an event that can be stored is
\* stored, whatever else is in its batch.
PartialBatchAcceptance ==
    \A e \in Events \ (Invalid \union Unencodable \union Unstorable) : <>(e \in durable)

\* "Invalid events are returned in the rejected array with reasons"
\* (routes/events.py:41): they are no reason to refuse the request.
InvalidEventsAreReturned ==
    [][\A r \in Requests : phase[r] = "received" /\ HasInvalid(r) => phase'[r] # "free"]_vars

\* The upload protocol implements what it promises the device.
Promise == INSTANCE ReliableUpload
ImplementsReliableUpload == Promise!Spec
=============================================================================
