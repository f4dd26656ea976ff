----------------------------- MODULE FusionJob ------------------------------
(***************************************************************************)
(* The fusion job (fusion/service.py:99-291): score a batch of unscored    *)
(* observations with the active model, then pair a batch of unprocessed    *)
(* frames with the nearest observation of the same device, while uploads   *)
(* and the fit job go on.  One run at a time: see OneWriter in JobLock.    *)
(*                                                                         *)
(* Every statement outside a transaction, and every transaction, is a      *)
(* step; the pairing query reads what is committed when it runs.  Times    *)
(* and places are small integers, client_ids are numbers: ORDER BY         *)
(* client_id is their order.                                               *)
(***************************************************************************)
EXTENDS Integers, FiniteSets

CONSTANTS
    Observations,  \* client_ids of the events that will be uploaded
    Frames,        \* client_ids of the frames that will be uploaded
    Obs,           \* [Observations -> [device, ts, place, received]]
    Frm,           \* [Frames -> [device, ts, place, received]]
    WindowMs,      \* settings.fusion_window_ms
    WindowM,       \* settings.fusion_window_m
    BatchSize,     \* settings.fusion_batch_size
    MaxModels,     \* bound on the fits
    MaxFaults      \* bound on failures and crashes

Rows == [device : Nat, ts : Int, place : Int, received : Nat]

ASSUME IdsAssumption ==
    /\ Observations \subseteq Nat /\ IsFiniteSet(Observations)
    /\ Frames \subseteq Nat /\ IsFiniteSet(Frames)
ASSUME RowsAssumption == Obs \in [Observations -> Rows] /\ Frm \in [Frames -> Rows]
ASSUME BoundsAssumption ==
    /\ WindowMs \in Nat /\ WindowM \in Nat /\ BatchSize \in Nat \ {0}
    /\ MaxModels \in Nat /\ MaxFaults \in Nat

NoModel == 0
Models == NoModel..MaxModels

VARIABLES
    stored,      \* committed rows of asset_observation
    scoredBy,    \* sensor_model_version of each of them (scored_at with it)
    uploaded,    \* committed rows of asset_frame
    processed,   \* those with processed_at
    pairs,       \* rows of fusion_pair, and what they were fused from
    runs,        \* rows of fusion_run
    fitted,      \* the newest model, NoModel before the first fit
    active,      \* the model with is_active
    pc,          \* where the run stands
    model,       \* the model it loaded (a local variable, as the next three)
    toScore,     \* the observations it will score
    batch,       \* the frames it will pair
    found,       \* the pairs of its open transaction
    asOf,        \* history: what matched a frame when its last batch was read
    faults

modelVars == <<fitted, active>>
dbVars == <<stored, scoredBy, uploaded, processed, pairs, runs, modelVars>>
jobVars == <<pc, model, toScore, batch, found>>
vars == <<dbVars, jobVars, asOf, faults>>

Places == {"idle", "loading", "scoring", "scored", "selecting", "pairing", "fusing"}

Init ==
    /\ stored = {}
    /\ scoredBy = [o \in Observations |-> NoModel]
    /\ uploaded = {}
    /\ processed = {}
    /\ pairs = {}
    /\ runs = {}
    /\ fitted = NoModel
    /\ active = NoModel
    /\ pc = "idle"
    /\ model = NoModel
    /\ toScore = {}
    /\ batch = {}
    /\ found = {}
    /\ asOf = [f \in Frames |-> {}]
    /\ faults = 0

(***************************************************************************)
(* Meanwhile: uploads commit in any order (received_at is the time at      *)
(* which their transactions began), the fit job activates the model it has *)
(* fitted, and an operator goes back to an earlier one.                    *)
(***************************************************************************)
StoreObservation(o) ==
    /\ o \notin stored
    /\ stored' = stored \union {o}
    /\ UNCHANGED <<scoredBy, uploaded, processed, pairs, runs, modelVars, jobVars, asOf, faults>>

StoreFrame(f) ==
    /\ f \notin uploaded
    /\ uploaded' = uploaded \union {f}
    /\ UNCHANGED <<stored, scoredBy, processed, pairs, runs, modelVars, jobVars, asOf, faults>>

ActivateModel ==
    /\ fitted < MaxModels
    /\ fitted' = fitted + 1
    /\ active' = fitted'
    /\ UNCHANGED <<stored, scoredBy, uploaded, processed, pairs, runs, jobVars, asOf, faults>>

\* "rollback by flipping is_active" (migrations/002:22): any model that was
\* ever fitted may become the active one.
FlipActive ==
    /\ \E m \in (NoModel + 1)..fitted : m # active /\ active' = m
    /\ UNCHANGED <<stored, scoredBy, uploaded, processed, pairs, runs, fitted, jobVars, asOf,
                   faults>>

-----------------------------------------------------------------------------
Earlier(row, a, b) ==
    \/ row[a].received < row[b].received
    \/ row[a].received = row[b].received /\ a < b

\* ORDER BY received_at, client_id LIMIT BatchSize
Oldest(S, row) == {a \in S : Cardinality({b \in S : Earlier(row, b, a)}) < BatchSize}

Start ==
    /\ pc = "idle"
    /\ pc' = "loading"
    /\ UNCHANGED <<dbVars, model, toScore, batch, found, asOf, faults>>

\* Mutant of LoadModel: the model is loaded once, when the process starts.
KeepModel ==
    /\ pc = "loading"
    /\ pc' = IF model = NoModel THEN "selecting" ELSE "scoring"
    /\ UNCHANGED <<dbVars, model, toScore, batch, found, asOf, faults>>

LoadModel ==
    /\ pc = "loading"
    /\ model' = active
    /\ pc' = IF active = NoModel THEN "selecting" ELSE "scoring"
    /\ UNCHANGED <<dbVars, toScore, batch, found, asOf, faults>>

\* Mutant of SelectUnscored: what an older model scored is taken again.
SelectOutdated ==
    /\ pc = "scoring"
    /\ toScore' = Oldest({o \in stored : scoredBy[o] # model}, Obs)
    /\ pc' = "scored"
    /\ UNCHANGED <<dbVars, model, batch, found, asOf, faults>>

SelectUnscored ==
    /\ pc = "scoring"
    /\ toScore' = Oldest({o \in stored : scoredBy[o] = NoModel}, Obs)
    /\ pc' = "scored"
    /\ UNCHANGED <<dbVars, model, batch, found, asOf, faults>>

\* One transaction of updates (none when there is nothing to score).
CommitScores ==
    /\ pc = "scored"
    /\ scoredBy' = [o \in Observations |-> IF o \in toScore THEN model ELSE scoredBy[o]]
    /\ toScore' = {}
    /\ pc' = "selecting"
    /\ UNCHANGED <<stored, uploaded, processed, pairs, runs, modelVars, model, batch, found,
                   asOf, faults>>

-----------------------------------------------------------------------------
Distance(a, b) == IF a >= b THEN a - b ELSE b - a
DeltaMs(f, o) == Distance(Frm[f].ts, Obs[o].ts)
DeltaM(f, o) == Distance(Frm[f].place, Obs[o].place)

\* The join condition of _PAIRING_SQL: ST_DWithin includes its bound.
Matches(f, o) ==
    /\ Obs[o].device = Frm[f].device
    /\ DeltaM(f, o) <= WindowM
    /\ DeltaMs(f, o) < WindowMs

SelectFrames ==
    /\ pc = "selecting"
    /\ batch' = Oldest(uploaded \ processed, Frm)
    /\ pc' = IF batch' = {} THEN "idle" ELSE "pairing"
    /\ model' = IF batch' = {} THEN NoModel ELSE model
    /\ asOf' = [f \in Frames |-> IF f \in batch'
                              THEN {o \in stored : Matches(f, o)} ELSE asOf[f]]
    /\ UNCHANGED <<dbVars, toScore, found, faults>>

\* Mutant of Closer: the nearest in space first.
CloserInSpace(f, a, b) ==
    \/ DeltaM(f, a) < DeltaM(f, b)
    \/ DeltaM(f, a) = DeltaM(f, b) /\ DeltaMs(f, a) < DeltaMs(f, b)
    \/ DeltaM(f, a) = DeltaM(f, b) /\ DeltaMs(f, a) = DeltaMs(f, b) /\ a < b

\* The order of its ROW_NUMBER: time, place, client_id.
Closer(f, a, b) ==
    \/ DeltaMs(f, a) < DeltaMs(f, b)
    \/ DeltaMs(f, a) = DeltaMs(f, b) /\ DeltaM(f, a) < DeltaM(f, b)
    \/ DeltaMs(f, a) = DeltaMs(f, b) /\ DeltaM(f, a) = DeltaM(f, b) /\ a < b

\* o has row number 1 among the candidates of f in S.
Ranked1(f, o, S) ==
    /\ o \in S /\ Matches(f, o)
    /\ \A c \in S \ {o} : Matches(f, c) => ~Closer(f, c, o)

Fuse(f, o) == [event |-> o, frame |-> f, engine |-> model, score |-> scoredBy[o]]
Fused == {Fuse(f, o) : f \in Frames, o \in Observations}

\* The transaction begins: the run is inserted, the pairing query is read.
Pair ==
    /\ pc = "pairing"
    /\ found' = {p \in Fused : p.frame \in batch /\ Ranked1(p.frame, p.event, stored)}
    /\ pc' = "fusing"
    /\ UNCHANGED <<dbVars, model, toScore, batch, asOf, faults>>

\* ON CONFLICT (event_client_id, frame_client_id) DO UPDATE
Upsert(table, new) ==
    {p \in table : \A q \in new : <<p.event, p.frame>> # <<q.event, q.frame>>} \union new

RunOf(b, n) == [frames |-> b, inputs |-> Cardinality(b), outputs |-> n]

\* Mutant of CommitFusion: the frames are marked in a transaction of their
\* own, which may not be reached.
CommitUnmarked ==
    /\ pc = "fusing"
    /\ pairs' = Upsert(pairs, found)
    /\ processed' \in {processed, processed \union batch}
    /\ runs' = runs \union {RunOf(batch, Cardinality(found))}
    /\ model' = NoModel /\ batch' = {} /\ found' = {}
    /\ pc' = "idle"
    /\ UNCHANGED <<stored, scoredBy, uploaded, modelVars, toScore, asOf, faults>>

\* Pairs, marks and the totals of the run are committed together.
CommitFusion ==
    /\ pc = "fusing"
    /\ pairs' = Upsert(pairs, found)
    /\ processed' = processed \union batch
    /\ runs' = runs \union {RunOf(batch, Cardinality(found))}
    /\ model' = NoModel /\ batch' = {} /\ found' = {}
    /\ pc' = "idle"
    /\ UNCHANGED <<stored, scoredBy, uploaded, modelVars, toScore, asOf, faults>>

\* The run raises or its process dies: an open transaction is rolled back.
Fail ==
    /\ pc # "idle"
    /\ faults < MaxFaults
    /\ faults' = faults + 1
    /\ pc' = "idle"
    /\ model' = NoModel /\ toScore' = {} /\ batch' = {} /\ found' = {}
    /\ asOf' = [f \in Frames |-> IF f \in batch \ processed THEN {} ELSE asOf[f]]
    /\ UNCHANGED dbVars

Run ==
    \/ Start
    \/ LoadModel
    \/ SelectUnscored
    \/ CommitScores
    \/ SelectFrames
    \/ Pair
    \/ CommitFusion

Next ==
    \/ Run
    \/ Fail
    \/ \E o \in Observations : StoreObservation(o)
    \/ \E f \in Frames : StoreFrame(f)
    \/ ActivateModel
    \/ FlipActive

Spec == Init /\ [][Next]_vars

\* The scheduler starts a run at every interval, and a run goes on.
FairSpec == Spec /\ WF_vars(Run)

-----------------------------------------------------------------------------
\* The statements of one run are about at most BatchSize rows each.
TypeOK ==
    /\ stored \subseteq Observations /\ uploaded \subseteq Frames
    /\ scoredBy \in [Observations -> Models]
    /\ processed \subseteq uploaded
    /\ fitted \in Models /\ active \in NoModel..fitted /\ model \in Models
    /\ pc \in Places
    /\ toScore \subseteq stored /\ Cardinality(toScore) <= BatchSize
    /\ batch \subseteq uploaded /\ Cardinality(batch) <= BatchSize
    /\ asOf \in [Frames -> SUBSET Observations]
    /\ faults \in 0..MaxFaults

\* A frame is fused with one observation at most, whatever arrives while
\* runs fail and are repeated: later runs do not pair it again
\* (service.py:215-262; test_fusion_db.py "upsert, not duplicate").
OnePairPerFrame == \A p, q \in pairs : p.frame = q.frame => p = q

\* The audit trail adds up: every processed frame is counted by exactly one
\* committed run, and no pair is without a run (service.py:220-273).
RunsAccountFrames ==
    /\ processed = UNION {r.frames : r \in runs}
    /\ \A r, s \in runs : r # s => r.frames \intersect s.frames = {}
    /\ \A r \in runs : r.outputs = Cardinality({p \in pairs : p.frame \in r.frames})

\* The pair of f in a table is with an observation at least as near in time,
\* then in place, as any that was stored when its batch was read; it is
\* missing only if none of those matched.
NearestIn(f, table) ==
    LET mine == {p.event : p \in {q \in table : q.frame = f}}
    IN  /\ mine = {} => asOf[f] = {}
        /\ \A o \in mine, c \in asOf[f] :
               /\ DeltaMs(f, o) <= DeltaMs(f, c)
               /\ DeltaMs(f, o) = DeltaMs(f, c) => DeltaM(f, o) <= DeltaM(f, c)

\* A processed frame keeps the nearest observation of its batch, or none, as
\* uploads go on and runs fail (service.py:131-163).
PairedWithNearest == \A f \in processed : NearestIn(f, pairs)

\* A pair was fused from the score its observation has now, or from none:
\* nothing recomputes a pair of a processed frame, so a score given later by
\* another model, refitted or rolled back to, would leave fused_confidence
\* behind (service.py:131-163, 186-209).
PairsAgreeWithScores == \A p \in pairs : p.score \in {NoModel, scoredBy[p.event]}

PairRows == [event : Observations, frame : Frames, engine : Models, score : Models]

\* LIMIT fusion_batch_size
Limited(S) == {b \in SUBSET S : Cardinality(b) <= BatchSize}

FrameQueue == INSTANCE WorkQueue WITH
    Items <- Frames, Outcomes <- SUBSET PairRows, Unset <- {}, Batches <- Limited(Frames),
    present <- uploaded, done <- processed,
    outcome <- [f \in Frames |-> {p \in pairs : p.frame = f}]

ScoreQueue == INSTANCE WorkQueue WITH
    Items <- Observations, Outcomes <- Models \ {NoModel}, Unset <- NoModel,
    Batches <- Limited(Observations),
    present <- stored, done <- {o \in stored : scoredBy[o] # NoModel},
    outcome <- scoredBy

\* Frames are handled once: the pairs of a batch appear with its marks and
\* never change again, even when an observation that would match arrives
\* later or a run is repeated (service.py:212-273).
FramesHandledOnce == FrameQueue!Spec

\* Observations are scored once, by one model, even when a run fails after it
\* selected its backlog or a new model is activated (service.py:186-209).
ObservationsHandledOnce == ScoreQueue!Spec

\* No frame stays in the queue, with or without a match, and no observation
\* stays unscored once there is a model, in spite of failed runs.
QueuesDrain ==
    /\ \A f \in Frames : f \in uploaded ~> f \in processed
    /\ \A o \in Observations :
        o \in stored /\ active # NoModel ~> scoredBy[o] # NoModel

\* "When an active SensorModel exists, the configured primary engine is used
\* with that model's scored sensor probability" (registry.py:3-4).
EngineUsesItsOwnScore == \A p \in pairs : p.engine # NoModel => p.score = p.engine
=============================================================================
