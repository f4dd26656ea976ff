--------------------------- MODULE ModelFitProofs ---------------------------
(***************************************************************************)
(* Proofs about ModelFit, for any number of processes and observations:    *)
(* exactly one model is active from the first fit on, and a process that   *)
(* has the job to itself never refits without enough new observations.     *)
(***************************************************************************)
EXTENDS ModelFit, TLAPS

(* Only one transaction can have inserted its row, and it has deactivated  *)
(* whatever was active.                                                    *)
InsertedAlone ==
    \A v, w \in Workers : pc[v] = "inserted" /\ pc[w] = "inserted" => v = w
InsertedReplacesAll ==
    \A w \in Workers : pc[w] = "inserted" => active \subseteq locked[w]

IInv == TypeOK /\ OneActive /\ InsertedAlone /\ InsertedReplacesAll

(***************************************************************************)
(* Types.                                                                  *)
(***************************************************************************)
LEMMA InitTypes == Init => TypeOK
BY BoundsAssumption DEF Init, TypeOK, Places

LEMMA TypeStep ==
    ASSUME TypeOK, [Next]_vars
    PROVE  TypeOK'
<1> USE BoundsAssumption DEF TypeOK, Places, To
<1>1. CASE StoreObservation
    BY <1>1 DEF StoreObservation, runVars
<1>2. ASSUME NEW w \in Workers, Tick(w)
      PROVE  TypeOK'
    BY <1>2 DEF Tick, runVars
<1>3. ASSUME NEW w \in Workers, Count(w)
      PROVE  TypeOK'
    BY <1>3 DEF Count
<1>4. ASSUME NEW w \in Workers, LoadActive(w)
      PROVE  TypeOK'
    BY <1>4 DEF LoadActive, runVars
<1>5. ASSUME NEW w \in Workers, Fetch(w)
      PROVE  TypeOK'
    BY <1>5 DEF Fetch
<1>6. ASSUME NEW w \in Workers, BeginSave(w)
      PROVE  TypeOK'
    BY <1>6 DEF BeginSave
<1>7. ASSUME NEW w \in Workers, Deactivate(w)
      PROVE  TypeOK'
    BY <1>7 DEF Deactivate
<1>8. ASSUME NEW w \in Workers, InsertModel(w)
      PROVE  TypeOK'
    BY <1>8 DEF InsertModel, runVars
<1>9. ASSUME NEW w \in Workers, RollBack(w), UNCHANGED faults \/ faults' \in 0..MaxFaults
      PROVE  TypeOK'
    BY <1>9 DEF RollBack
<1>10. ASSUME NEW w \in Workers, Commit(w)
       PROVE  TypeOK'
    <2>0. pc[w] = "inserted" /\ models' = Append(models, fetched[w])
        BY <1>10 DEF Commit
    <2>a. counted[w] \in Nat /\ NMin \in Nat /\ fetched[w] \in 0..MaxObservations
        OBVIOUS
    <2>b. NMin <= counted[w] /\ counted[w] <= fetched[w]
        BY <2>0
    <2>1. /\ fetched[w] \in NMin..MaxObservations
          /\ models' = Append(models, fetched[w])
        BY <2>0, <2>a, <2>b
    <2>2. /\ models' \in Seq(NMin..MaxObservations)
          /\ DOMAIN models' = 1..Len(models) + 1
          /\ DOMAIN models = 1..Len(models) /\ Len(models) \in Nat
        BY <2>1
    <2>3. DOMAIN models \subseteq DOMAIN models' /\ Len(models) + 1 \in DOMAIN models'
        BY <2>2
    <2>4. active' \subseteq DOMAIN models'
        BY <1>10, <2>3 DEF Commit
    <2>5. /\ targets' \in [Workers -> SUBSET DOMAIN models']
          /\ locked' \in [Workers -> SUBSET DOMAIN models']
        BY <1>10, <2>3 DEF Commit
    <2>6. /\ total' \in 0..MaxObservations
          /\ pc' \in [Workers -> Places]
          /\ counted' \in [Workers -> 0..MaxObservations]
          /\ fetched' \in [Workers -> 0..MaxObservations]
          /\ faults' \in 0..MaxFaults
        BY <1>10 DEF Commit
    <2>7. ASSUME NEW v \in Workers
          PROVE  /\ counted'[v] = counted[v] /\ fetched'[v] = fetched[v] /\ total' = total
                 /\ pc'[v] \in {pc[v], "idle"}
        BY <1>10 DEF Commit
    <2> QED
        BY <2>2, <2>4, <2>5, <2>6, <2>7
<1>11. CASE UNCHANGED vars
    BY <1>11 DEF vars, runVars
<1>12. ASSUME NEW w \in Workers, Fail(w)
       PROVE  faults' \in 0..MaxFaults
    BY <1>12 DEF Fail
<1> QED
    BY <1>1, <1>2, <1>3, <1>4, <1>5, <1>6, <1>7, <1>8, <1>9, <1>10, <1>11, <1>12
    DEF Next, Run, InsertFails, Fail

(***************************************************************************)
(* One active model.                                                       *)
(***************************************************************************)
LEMMA InitInv == Init => IInv
BY InitTypes DEF Init, IInv, OneActive, InsertedAlone, InsertedReplacesAll

(* Nothing but an INSERT and a COMMIT matters to the invariant: every other *)
(* step leaves the table alone and brings no run to "inserted".             *)
LEMMA QuietStep ==
    ASSUME IInv, UNCHANGED <<models, active>>,
           \A w \in Workers : pc'[w] = "inserted" => pc[w] = "inserted" /\ locked'[w] = locked[w]
    PROVE  OneActive' /\ InsertedAlone' /\ InsertedReplacesAll'
BY DEF IInv, OneActive, InsertedAlone, InsertedReplacesAll

LEMMA StepInv == IInv /\ [Next]_vars => IInv'
<1> SUFFICES ASSUME IInv, [Next]_vars
             PROVE  OneActive' /\ InsertedAlone' /\ InsertedReplacesAll'
    BY TypeStep DEF IInv
<1> USE DEF To
<1> TypeOK
    BY DEF IInv
<1> DEFINE Quiet ==
        /\ UNCHANGED <<models, active>>
        /\ \A w \in Workers :
            pc'[w] = "inserted" => pc[w] = "inserted" /\ locked'[w] = locked[w]
<1>1. CASE StoreObservation \/ UNCHANGED vars
    <2>1. Quiet
        BY <1>1 DEF StoreObservation, vars, runVars
    <2> QED
        BY <2>1, QuietStep
<1>2. ASSUME NEW w \in Workers, Tick(w) \/ Count(w) \/ LoadActive(w) \/ Fetch(w) \/ BeginSave(w)
      PROVE  Quiet
    BY <1>2 DEF TypeOK, Tick, Count, LoadActive, Fetch, BeginSave, runVars
<1>3. ASSUME NEW w \in Workers, Deactivate(w)
      PROVE  Quiet
    BY <1>3 DEF TypeOK, Deactivate
<1>4. ASSUME NEW w \in Workers, InsertFails(w) \/ Fail(w)
      PROVE  Quiet
    BY <1>4 DEF TypeOK, InsertFails, Fail, RollBack
<1>5. ASSUME NEW w \in Workers, InsertModel(w)
      PROVE  OneActive' /\ InsertedAlone' /\ InsertedReplacesAll'
    BY <1>5 DEF IInv, TypeOK, OneActive, InsertedAlone, InsertedReplacesAll, InsertModel,
                IndexSettled, runVars
<1>6. ASSUME NEW w \in Workers, Commit(w)
      PROVE  OneActive' /\ InsertedAlone' /\ InsertedReplacesAll'
    <2>1. active' = {Len(models) + 1}
        BY <1>6 DEF IInv, InsertedReplacesAll, Commit
    <2>2. models' # <<>> /\ Len(models) + 1 \in DOMAIN models'
        BY <1>6 DEF TypeOK, Commit
    <2>3. \A v \in Workers : pc'[v] # "inserted"
        BY <1>6 DEF IInv, InsertedAlone, TypeOK, Commit
    <2> QED
        BY <2>1, <2>2, <2>3 DEF OneActive, InsertedAlone, InsertedReplacesAll
<1> QED
    BY <1>1, <1>2, <1>3, <1>4, <1>5, <1>6, QuietStep DEF Next, Run

(* The inductive invariant holds in every reachable state.                 *)
THEOREM Invariance == Spec => []IInv
BY InitInv, StepInv, PTL DEF Spec

(* Types, and a model is fitted on no fewer rows than passed the gates.    *)
THEOREM TypeCorrect == Spec => []TypeOK
<1>1. IInv => TypeOK
    BY DEF IInv
<1> QED
    BY <1>1, Invariance, PTL

(* From the first fit on exactly one row of sensor_model is active, for any *)
(* number of processes that save at once (store.py:36-54).                  *)
THEOREM ExactlyOneActive == Spec => []OneActive
<1>1. IInv => OneActive
    BY DEF IInv
<1> QED
    BY <1>1, Invariance, PTL

(***************************************************************************)
(* The gate, when one process has the job to itself.                       *)
(***************************************************************************)
Gated ==
    \A w \in Workers :
        pc[w] \in {"fetching", "fitting", "deactivating", "inserting", "inserted"} =>
            \A i \in active : models[i] + NMin <= counted[w]

LEMMA GatedStep ==
    ASSUME \A v, w \in Workers : v = w, IInv, Gated, [Next]_vars
    PROVE  Gated'
<1> USE DEF To
<1> TypeOK /\ BoundsAssumption
    BY BoundsAssumption DEF IInv
<1>0. \A i \in active : models[i] \in Int
    BY DEF TypeOK, BoundsAssumption
<1>1. CASE StoreObservation \/ UNCHANGED vars
    BY <1>1 DEF Gated, StoreObservation, vars, runVars
<1>2. ASSUME NEW w \in Workers, Tick(w) \/ Count(w) \/ InsertFails(w) \/ Fail(w)
      PROVE  Gated'
    BY <1>2 DEF Gated, TypeOK, Tick, Count, InsertFails, Fail, RollBack, runVars
<1>3. ASSUME NEW w \in Workers, LoadActive(w)
      PROVE  Gated'
    <2>1. CASE TooFewSince(w)
        BY <1>3, <2>1 DEF Gated, TypeOK, LoadActive, runVars
    <2>2. CASE ~TooFewSince(w)
        <3>1. counted[w] \in Int /\ NMin \in Int
            BY DEF TypeOK, BoundsAssumption
        <3>2. \A i \in active : models[i] + NMin <= counted[w]
            BY <1>0, <2>2, <3>1 DEF TooFewSince
        <3> QED
            BY <1>3, <3>2 DEF Gated, TypeOK, LoadActive, runVars
    <2> QED
        BY <2>1, <2>2
<1>4. ASSUME NEW w \in Workers, Fetch(w) \/ BeginSave(w) \/ Deactivate(w) \/ InsertModel(w)
      PROVE  Gated'
    BY <1>4 DEF Gated, TypeOK, Fetch, BeginSave, Deactivate, InsertModel, runVars
<1>5. ASSUME NEW w \in Workers, Commit(w)
      PROVE  Gated'
    BY <1>5 DEF Gated, TypeOK, Commit
<1> QED
    BY <1>1, <1>2, <1>3, <1>4, <1>5 DEF Next, Run

LEMMA ReplacedByNewer ==
    ASSUME IInv, Gated, [Next]_vars,
           NEW i \in active, NEW j \in active', i # j
    PROVE  models'[j] - models[i] >= NMin
<1> USE DEF To
<1> TypeOK /\ BoundsAssumption
    BY BoundsAssumption DEF IInv
<1>1. active' # active
    BY DEF IInv, OneActive
<1>2. PICK w \in Workers : Commit(w)
    BY <1>1 DEF Next, Run, StoreObservation, Tick, Count, LoadActive, Fetch, BeginSave,
                Deactivate, InsertModel, InsertFails, Fail, RollBack, vars, runVars
<1>3. /\ active \subseteq locked[w] /\ pc[w] = "inserted"
      /\ models' = Append(models, fetched[w])
    BY <1>2 DEF IInv, InsertedReplacesAll, Commit
<1>4. j = Len(models) + 1
    BY <1>2, <1>3 DEF Commit
<1>5. models \in Seq(Int) /\ fetched[w] \in Int /\ counted[w] \in Int /\ NMin \in Int
    BY DEF TypeOK, BoundsAssumption
<1>6. models[i] \in Int /\ models'[j] = fetched[w]
    BY <1>3, <1>4, <1>5 DEF TypeOK
<1>7. counted[w] <= fetched[w] /\ models[i] + NMin <= counted[w]
    BY <1>3 DEF TypeOK, Gated
<1> QED
    BY <1>5, <1>6, <1>7

(* A single process refits only when NMin new observations have arrived     *)
(* since the active model was fitted (service.py:56, 69-74).  With two this *)
(* is false.                                                               *)
THEOREM SingleProcessNeedsNewData ==
    ASSUME \A v, w \in Workers : v = w
    PROVE  Spec => RefitNeedsNewData
<1>1. Init => Gated
    BY DEF Init, Gated
<1>2. IInv /\ Gated /\ [Next]_vars => Gated'
    BY GatedStep
<1>3. IInv /\ Gated /\ [Next]_vars =>
        [\A i \in active, j \in active' : i # j => models'[j] - models[i] >= NMin]_vars
    BY ReplacedByNewer
<1> QED
    BY <1>1, <1>2, <1>3, Invariance, PTL DEF Spec, RefitNeedsNewData
=============================================================================
