------------------------------ MODULE ModelFit ------------------------------
(***************************************************************************)
(* The fit job (fusion/service.py:41-97) and the table of sensor models    *)
(* (sensor_model/store.py): count the observations, compare with what the  *)
(* active model was fitted on, fetch, fit, and replace the active model.   *)
(* The job takes no lock, and every server process runs it.                *)
(*                                                                         *)
(* The replacement is an UPDATE and an INSERT in one transaction.  The     *)
(* UPDATE works on the active rows committed when it began; it waits for a *)
(* transaction that has updated one of them, and then skips what is no     *)
(* longer active.  The partial unique index makes the INSERT wait for      *)
(* other open transactions, and raise if another row is active after all.  *)
(***************************************************************************)
EXTENDS Integers, Sequences, FiniteSets

CONSTANTS
    Workers,         \* server processes
    NMin,            \* settings.sensor_fit_min_observations
    MaxObservations, \* bound on the observations
    MaxFaults        \* bound on failures and crashes

ASSUME BoundsAssumption ==
    /\ NMin \in Nat \ {0}
    /\ MaxObservations \in Nat
    /\ MaxFaults \in Nat

VARIABLES
    total,    \* fittable observations
    models,   \* committed rows of sensor_model: their n_observations, in order
    active,   \* those with is_active
    pc,       \* [Workers -> where the run stands]
    counted,  \* [Workers -> the count it made]
    fetched,  \* [Workers -> the number of rows it fetched and fits]
    targets,  \* [Workers -> the rows its UPDATE found active]
    locked,   \* [Workers -> the rows its open transaction has updated]
    faults

runVars == <<counted, fetched, targets, locked>>
vars == <<total, models, active, pc, runVars, faults>>

Places == {"idle", "counting", "loading", "fetching", "fitting",
           "deactivating", "inserting", "inserted"}

Init ==
    /\ total = 0
    /\ models = <<>>
    /\ active = {}
    /\ pc = [w \in Workers |-> "idle"]
    /\ counted = [w \in Workers |-> 0]
    /\ fetched = [w \in Workers |-> 0]
    /\ targets = [w \in Workers |-> {}]
    /\ locked = [w \in Workers |-> {}]
    /\ faults = 0

To(w, place) == pc' = [pc EXCEPT ![w] = place]

\* An upload commits.
StoreObservation ==
    /\ total < MaxObservations
    /\ total' = total + 1
    /\ UNCHANGED <<models, active, pc, runVars, faults>>

Tick(w) ==
    /\ pc[w] = "idle"
    /\ To(w, "counting")
    /\ UNCHANGED <<total, models, active, runVars, faults>>

\* Mutant of Count: "at least" read as "more than".
CountBeyond(w) ==
    /\ pc[w] = "counting"
    /\ counted' = [counted EXCEPT ![w] = total]
    /\ To(w, IF total <= NMin THEN "idle" ELSE "loading")
    /\ UNCHANGED <<total, models, active, fetched, targets, locked, faults>>

\* The gate: enough observations at all.
Count(w) ==
    /\ pc[w] = "counting"
    /\ counted' = [counted EXCEPT ![w] = total]
    /\ To(w, IF total < NMin THEN "idle" ELSE "loading")
    /\ UNCHANGED <<total, models, active, fetched, targets, locked, faults>>

TooFewSince(w) == \E i \in active : counted[w] - models[i] < NMin

\* load_active_model and the gate: enough observations since its fit.
LoadActive(w) ==
    /\ pc[w] = "loading"
    /\ To(w, IF TooFewSince(w) THEN "idle" ELSE "fetching")
    /\ UNCHANGED <<total, models, active, runVars, faults>>

Fetch(w) ==
    /\ pc[w] = "fetching"
    /\ fetched' = [fetched EXCEPT ![w] = total]
    /\ To(w, "fitting")
    /\ UNCHANGED <<total, models, active, counted, targets, locked, faults>>

\* The model is fitted, and the UPDATE of save_model begins.
BeginSave(w) ==
    /\ pc[w] = "fitting"
    /\ targets' = [targets EXCEPT ![w] = active]
    /\ To(w, "deactivating")
    /\ UNCHANGED <<total, models, active, counted, fetched, locked, faults>>

-----------------------------------------------------------------------------
Free(w, S) == \A v \in Workers \ {w} : locked[v] \intersect S = {}

\* Mutant of Deactivate: the UPDATE is committed on its own.
DeactivateAtOnce(w) ==
    /\ pc[w] = "deactivating"
    /\ active' = active \ targets[w]
    /\ To(w, "inserting")
    /\ UNCHANGED <<total, models, runVars, faults>>

Deactivate(w) ==
    /\ pc[w] = "deactivating"
    /\ Free(w, targets[w])
    /\ locked' = [locked EXCEPT ![w] = targets[w] \intersect active]
    /\ To(w, "inserting")
    /\ UNCHANGED <<total, models, active, counted, fetched, targets, faults>>

\* The unique index has nothing to wait for.
IndexSettled(w) ==
    /\ \A v \in Workers : pc[v] # "inserted"
    /\ Free(w, active)

InsertModel(w) ==
    /\ pc[w] = "inserting"
    /\ IndexSettled(w)
    /\ active \subseteq locked[w]
    /\ To(w, "inserted")
    /\ UNCHANGED <<total, models, active, runVars, faults>>

RollBack(w) ==
    /\ To(w, "idle")
    /\ locked' = [locked EXCEPT ![w] = {}]
    /\ UNCHANGED <<total, models, active, counted, fetched, targets>>

\* UniqueViolationError: another process has activated a model meanwhile.
InsertFails(w) ==
    /\ pc[w] = "inserting"
    /\ IndexSettled(w)
    /\ ~(active \subseteq locked[w])
    /\ RollBack(w)
    /\ UNCHANGED faults

Commit(w) ==
    /\ pc[w] = "inserted"
    /\ models' = Append(models, fetched[w])
    /\ active' = (active \ locked[w]) \union {Len(models) + 1}
    /\ locked' = [locked EXCEPT ![w] = {}]
    /\ To(w, "idle")
    /\ UNCHANGED <<total, counted, fetched, targets, faults>>

\* FitError, a lost connection or a crash.
Fail(w) ==
    /\ pc[w] # "idle"
    /\ faults < MaxFaults
    /\ faults' = faults + 1
    /\ RollBack(w)

Run(w) ==
    \/ Tick(w)
    \/ Count(w)
    \/ LoadActive(w)
    \/ Fetch(w)
    \/ BeginSave(w)
    \/ Deactivate(w)
    \/ InsertModel(w)
    \/ InsertFails(w)
    \/ Commit(w)

Next ==
    \/ StoreObservation
    \/ \E w \in Workers : Run(w) \/ Fail(w)

Spec == Init /\ [][Next]_vars

\* The scheduler starts the job at every interval, and a run goes on when it
\* need not wait for a transaction.
FairSpec == Spec /\ \A w \in Workers : WF_vars(Run(w))

-----------------------------------------------------------------------------
\* A model is fitted on at least the rows that passed the gates.
TypeOK ==
    /\ total \in 0..MaxObservations
    /\ models \in Seq(NMin..MaxObservations)
    /\ active \subseteq DOMAIN models
    /\ pc \in [Workers -> Places]
    /\ counted \in [Workers -> 0..MaxObservations]
    /\ fetched \in [Workers -> 0..MaxObservations]
    /\ targets \in [Workers -> SUBSET DOMAIN models]
    /\ locked \in [Workers -> SUBSET DOMAIN models]
    /\ faults \in 0..MaxFaults
    /\ \A w \in Workers :
        /\ counted[w] <= total /\ fetched[w] <= total
        /\ pc[w] \notin {"idle", "counting"} => NMin <= counted[w]
        /\ pc[w] \in {"fitting", "deactivating", "inserting", "inserted"} =>
            counted[w] <= fetched[w]

\* From the first fit on exactly one model is active, whatever processes save
\* at the same time and wherever they die: load_active_model is never left
\* without one, and its LIMIT 1 never has to choose (store.py:36-54).
OneActive ==
    IF models = <<>>
    THEN active = {}
    ELSE \E i \in DOMAIN models : active = {i}

\* "Refit the sensor model when enough (new) observations have accumulated"
\* (service.py:56): a model replaces another only if it has seen NMin more.
RefitNeedsNewData ==
    [][\A i \in active, j \in active' :
        i # j => models'[j] - models[i] >= NMin]_vars

\* The first model comes as soon as the gate allows one, and the active model
\* never stays NMin observations behind, in spite of failed runs and of runs
\* that lose against another process.
ModelKeepsUp ==
    /\ total >= NMin ~> active # {}
    /\ <>[](\A i \in active : total - models[i] < NMin)
=============================================================================
