-------------------------- MODULE FusionJobProofs ---------------------------
(***************************************************************************)
(* What holds of the fusion job for every set of observations and frames,  *)
(* every batch size, and any number of models and failures.                *)
(***************************************************************************)
EXTENDS FusionJob, FiniteSetTheorems, TLAPS

\* Only a run with a model scores, and only rows without a score are in its
\* backlog.
ScoresInOrder ==
    /\ \A o \in Observations \ stored : scoredBy[o] = NoModel
    /\ pc \in {"scoring", "scored"} => model # NoModel
    /\ pc = "scored" => \A o \in toScore : scoredBy[o] = NoModel

\* The frames of a batch were not processed before.
BatchIsFresh ==
    /\ pairs \subseteq PairRows
    /\ \A p \in pairs : p.frame \in processed
    /\ pc \in {"pairing", "fusing"} => batch \intersect processed = {}
    /\ pc = "pairing" =>
        \A f \in batch : asOf[f] \subseteq {o \in stored : Matches(f, o)}

\* What the open transaction will commit.
FoundIsRight ==
    pc = "fusing" =>
        /\ found \subseteq PairRows
        /\ \A p \in found : p.frame \in batch /\ p.score \in {NoModel, scoredBy[p.event]}
        /\ \A p, q \in found : p.frame = q.frame => p = q
        /\ \A f \in batch : NearestIn(f, found)

IInv ==
    /\ TypeOK
    /\ ScoresInOrder
    /\ BatchIsFresh
    /\ FoundIsRight
    /\ OnePairPerFrame
    /\ RunsAccountFrames
    /\ PairsAgreeWithScores
    /\ PairedWithNearest

-----------------------------------------------------------------------------
(* ORDER BY received_at, client_id is a strict total order of the rows.    *)
LEMMA EarlierIsAnOrder ==
    ASSUME NEW D \in SUBSET Nat, NEW row \in [D -> Rows],
           NEW a \in D, NEW b \in D, NEW c \in D
    PROVE  /\ ~Earlier(row, a, a)
           /\ a # b => Earlier(row, a, b) \/ Earlier(row, b, a)
           /\ Earlier(row, a, b) /\ Earlier(row, b, c) => Earlier(row, a, c)
<1>1. row[a].received \in Nat /\ row[b].received \in Nat /\ row[c].received \in Nat
    BY DEF Rows
<1>2. a \in Nat /\ b \in Nat /\ c \in Nat
    OBVIOUS
<1> QED
    BY <1>1, <1>2 DEF Earlier

(* LIMIT: a batch holds no more rows than the batch size.                  *)
LEMMA OldestBounded ==
    ASSUME NEW D \in SUBSET Nat, IsFiniteSet(D), NEW row \in [D -> Rows],
           NEW S \in SUBSET D
    PROVE  Oldest(S, row) \subseteq S /\ Cardinality(Oldest(S, row)) <= BatchSize
<1> DEFINE Before(a) == {b \in S : Earlier(row, b, a)}
           T == Oldest(S, row)
           rank == [a \in T |-> Cardinality(Before(a))]
<1>1. T \subseteq S
    BY DEF Oldest
<1>2. \A a \in S : IsFiniteSet(Before(a)) /\ Cardinality(Before(a)) \in Nat
  <2> TAKE a \in S
  <2>1. Before(a) \in SUBSET D
    OBVIOUS
  <2> HIDE DEF Before
  <2> QED
    BY <2>1, FS_Subset, FS_CardinalityType
<1>3. ASSUME NEW a \in S, NEW b \in S, Earlier(row, a, b)
      PROVE  Cardinality(Before(a)) # Cardinality(Before(b))
  <2>1. Before(a) \in SUBSET Before(b)
    BY <1>3, EarlierIsAnOrder
  <2>2. a \in Before(b) /\ a \notin Before(a)
    BY <1>3, EarlierIsAnOrder
  <2>3. IsFiniteSet(Before(b))
    BY <1>2
  <2> HIDE DEF Before
  <2> QED
    BY <2>1, <2>2, <2>3, FS_Subset
<1>4. \A a, b \in S : a # b => Cardinality(Before(a)) # Cardinality(Before(b))
  <2> SUFFICES ASSUME NEW a \in S, NEW b \in S, a # b
               PROVE  Cardinality(Before(a)) # Cardinality(Before(b))
    OBVIOUS
  <2>1. CASE Earlier(row, a, b)
    BY <2>1, <1>3
  <2>2. CASE Earlier(row, b, a)
    BY <2>2, <1>3
  <2> QED
    BY <2>1, <2>2, EarlierIsAnOrder
<1>5. rank \in [T -> 0..BatchSize - 1]
  <2>1. ASSUME NEW a \in T
        PROVE  Cardinality(Before(a)) \in 0..BatchSize - 1
    <3>1. Cardinality(Before(a)) < BatchSize
      BY DEF Oldest
    <3>2. Cardinality(Before(a)) \in Nat
      BY <1>1, <1>2
    <3> HIDE DEF Before
    <3> QED
      BY <3>1, <3>2, BoundsAssumption
  <2> QED
    BY <2>1
<1>6. rank \in Injection(T, 0..BatchSize - 1)
  <2>1. \A a \in T : rank[a] = Cardinality(Before(a))
    OBVIOUS
  <2> HIDE DEF rank, Before
  <2>2. \A a, b \in T : rank[a] = rank[b] => a = b
    BY <2>1, <1>1, <1>4
  <2>3. IsInjective(rank)
    BY <2>2, <1>5 DEF IsInjective
  <2> QED
    BY <2>3, <1>5 DEF Injection
<1>7. IsFiniteSet(0..BatchSize - 1) /\ Cardinality(0..BatchSize - 1) = BatchSize
    BY FS_Interval, BoundsAssumption
<1> HIDE DEF rank, T
<1>8. Cardinality(T) <= BatchSize
    BY <1>6, <1>7, FS_Injection
<1> QED
    BY <1>1, <1>8 DEF T

(* The same for the two queues of the job.                                 *)
LEMMA BatchesBounded ==
    /\ \A S \in SUBSET Observations :
           Oldest(S, Obs) \subseteq S /\ Cardinality(Oldest(S, Obs)) <= BatchSize
    /\ \A S \in SUBSET Frames :
           Oldest(S, Frm) \subseteq S /\ Cardinality(Oldest(S, Frm)) <= BatchSize
BY OldestBounded, IdsAssumption, RowsAssumption

-----------------------------------------------------------------------------
(* Distances are natural numbers.                                          *)
LEMMA DeltaType ==
    ASSUME NEW f \in Frames, NEW o \in Observations
    PROVE  DeltaMs(f, o) \in Nat /\ DeltaM(f, o) \in Nat /\ o \in Nat
<1>1. Obs[o].ts \in Int /\ Obs[o].place \in Int /\ Frm[f].ts \in Int /\ Frm[f].place \in Int
    BY RowsAssumption DEF Rows
<1>2. \A a, b \in Int : Distance(a, b) \in Nat
    BY DEF Distance
<1> QED
    BY <1>1, <1>2, IdsAssumption DEF DeltaMs, DeltaM

(* The order of ROW_NUMBER is a strict total order of the candidates.      *)
LEMMA CloserIsAnOrder ==
    ASSUME NEW f \in Frames,
           NEW a \in Observations, NEW b \in Observations, NEW c \in Observations
    PROVE  /\ ~Closer(f, a, a)
           /\ a # b => Closer(f, a, b) \/ Closer(f, b, a)
           /\ Closer(f, a, b) /\ Closer(f, b, c) => Closer(f, a, c)
BY DeltaType DEF Closer

(* At most one observation has row number 1.                               *)
LEMMA NearestIsUnique ==
    ASSUME NEW f \in Frames, NEW S \in SUBSET Observations,
           NEW a, NEW b, Ranked1(f, a, S), Ranked1(f, b, S)
    PROVE  a = b
BY CloserIsAnOrder DEF Ranked1

(* One has it as soon as one matches.                                      *)
LEMMA NearestExists ==
    ASSUME NEW f \in Frames, NEW S \in SUBSET Observations,
           NEW m \in S, Matches(f, m)
    PROVE  \E o \in S : Ranked1(f, o, S)
<1> DEFINE C == {c \in S : Matches(f, c)}
           Nearer(a) == {b \in C : Closer(f, b, a)}
           P == {Nearer(a) : a \in C}
<1>1. C \subseteq Observations /\ IsFiniteSet(C) /\ m \in C
  <2>1. C \in SUBSET Observations /\ m \in C
    OBVIOUS
  <2> HIDE DEF C
  <2> QED
    BY <2>1, FS_Subset, IdsAssumption
<1>2. P \subseteq FiniteSubsetsOf(C) /\ P # {}
  <2>1. \A a \in C : Nearer(a) \in SUBSET C
    OBVIOUS
  <2>2. \A T \in SUBSET C : IsFiniteSet(T)
    BY <1>1, FS_Subset
  <2>3. P # {}
    BY <1>1
  <2> HIDE DEF C, Nearer
  <2> QED
    BY <2>1, <2>2, <2>3 DEF FiniteSubsetsOf
<1>3. PICK x \in P : \A y \in P : ~(<<y, x>> \in StrictSubsetOrdering(C))
  <2>1. IsWellFoundedOn(StrictSubsetOrdering(C), FiniteSubsetsOf(C))
    BY FS_StrictSubsetOrderingWellFounded
  <2> HIDE DEF P, C
  <2> QED
    BY <2>1, <1>2, WFMin
<1>4. PICK a \in C : x = Nearer(a)
    BY <1>3
<1>5. ASSUME NEW b \in C, Closer(f, b, a)
      PROVE  FALSE
  <2>1. Nearer(b) \subseteq Nearer(a) /\ b \in Nearer(a) /\ b \notin Nearer(b)
    BY <1>1, <1>5, CloserIsAnOrder
  <2>2. Nearer(a) \subseteq C /\ Nearer(b) \in P
    OBVIOUS
  <2> HIDE DEF Nearer, P, C
  <2>3. <<Nearer(b), Nearer(a)>> \in StrictSubsetOrdering(C)
    BY <2>1, <2>2 DEF StrictSubsetOrdering
  <2> QED
    BY <2>2, <2>3, <1>3, <1>4
<1>6. Ranked1(f, a, S)
    BY <1>5 DEF Ranked1
<1> QED
    BY <1>6

(* What the pairing query returns: pairs of the batch, one for a frame at  *)
(* most, with the nearest of what is stored.                               *)
LEMMA PairFindsNearest ==
    ASSUME IInv, Pair
    PROVE  FoundIsRight'
<1> USE DEF IInv, Pair
<1>1. UNCHANGED <<stored, scoredBy, batch, model, asOf>> /\ pc = "pairing"
    BY DEF dbVars
<1>2. model \in Models /\ scoredBy \in [Observations -> Models]
      /\ stored \subseteq Observations /\ batch \subseteq Frames
    BY DEF TypeOK
<1>3. \A p \in found' :
          /\ p.frame \in batch /\ p.frame \in Frames /\ p.event \in Observations
          /\ p = Fuse(p.frame, p.event) /\ Ranked1(p.frame, p.event, stored)
    BY DEF Fused, Fuse
<1>4. \A f \in batch, o \in Observations :
          Ranked1(f, o, stored) => Fuse(f, o) \in found' /\ Fuse(f, o).frame = f
                                   /\ Fuse(f, o).event = o
    BY <1>2 DEF Fused, Fuse
<1>5. found' \subseteq PairRows
    BY <1>2, <1>3 DEF Fuse, PairRows
<1>6. \A p \in found' : p.frame \in batch /\ p.score \in {NoModel, scoredBy[p.event]}
    BY <1>3 DEF Fuse
<1>7. \A p, q \in found' : p.frame = q.frame => p = q
    BY <1>2, <1>3, NearestIsUnique
<1>8. ASSUME NEW f \in batch
      PROVE  NearestIn(f, found')
  <2> DEFINE mine == {p.event : p \in {q \in found' : q.frame = f}}
             there == asOf[f]
  <2>1. f \in Frames /\ asOf[f] \subseteq {o \in stored : Matches(f, o)} /\ stored \in SUBSET Observations
    BY <1>1, <1>2 DEF BatchIsFresh
  <2>2. mine = {} => there = {}
    <3> SUFFICES ASSUME NEW c \in there PROVE mine # {}
      OBVIOUS
    <3>1. PICK o \in stored : Ranked1(f, o, stored)
      BY <2>1, NearestExists
    <3> QED
      BY <3>1, <2>1, <1>4
  <2>3. ASSUME NEW o \in mine, NEW c \in there
        PROVE  /\ DeltaMs(f, o) <= DeltaMs(f, c)
               /\ DeltaMs(f, o) = DeltaMs(f, c) => DeltaM(f, o) <= DeltaM(f, c)
    <3>1. Ranked1(f, o, stored) /\ o \in Observations
      BY <1>3
    <3>2. c \in stored /\ Matches(f, c) /\ c \in Observations
      BY <2>1
    <3>3. ~Closer(f, c, o)
      BY <3>1, <3>2, <2>1, CloserIsAnOrder DEF Ranked1
    <3> QED
      BY <3>1, <3>2, <3>3, <2>1, DeltaType DEF Closer
  <2> QED
    BY <2>2, <2>3 DEF NearestIn
<1> QED
    BY <1>1, <1>5, <1>6, <1>7, <1>8 DEF FoundIsRight, NearestIn

(* What a commit does to the pairs: it adds those of a batch that had none. *)
LEMMA UpsertAdds ==
    ASSUME IInv, CommitFusion
    PROVE  /\ pairs' = pairs \union found
           /\ \A f \in batch : {p \in pairs' : p.frame = f} = {p \in found : p.frame = f}
           /\ \A f \in Frames \ batch : {p \in pairs' : p.frame = f} = {p \in pairs : p.frame = f}
<1>1. /\ \A p \in pairs : p.frame \notin batch
      /\ \A p \in found : p.frame \in batch
    BY DEF IInv, BatchIsFresh, FoundIsRight, CommitFusion
<1>2. pairs' = pairs \union found
    BY <1>1 DEF CommitFusion, Upsert
<1> QED
    BY <1>1, <1>2

(* The initial states satisfy the invariant.                               *)
LEMMA InitIInv == Init => IInv
<1> SUFFICES ASSUME Init PROVE IInv
    OBVIOUS
<1> USE DEF Init
<1>1. TypeOK
  <2>1. Cardinality({}) = 0
    BY FS_EmptySet
  <2> QED
    BY <2>1, BoundsAssumption DEF TypeOK, Models, NoModel, Places
<1>2. ScoresInOrder /\ BatchIsFresh /\ FoundIsRight
    BY DEF ScoresInOrder, BatchIsFresh, FoundIsRight, NoModel
<1>3. OnePairPerFrame /\ RunsAccountFrames /\ PairsAgreeWithScores /\ PairedWithNearest
    BY DEF OnePairPerFrame, RunsAccountFrames, PairsAgreeWithScores, PairedWithNearest
<1> QED
    BY <1>1, <1>2, <1>3 DEF IInv

(* Types are preserved by every action.                                    *)
LEMMA TypeStep ==
    ASSUME TypeOK, [Next]_vars
    PROVE  TypeOK'
<1> USE BoundsAssumption DEF TypeOK, dbVars, modelVars, jobVars, Models, NoModel, Places
<1>0. Cardinality({}) = 0
    BY FS_EmptySet
<1>1. CASE Start
    BY <1>1 DEF Start
<1>2. CASE LoadModel
    BY <1>2 DEF LoadModel
<1>3. CASE SelectUnscored
  <2> DEFINE S == {o \in stored : scoredBy[o] = NoModel}
  <2>1. S \in SUBSET Observations
    OBVIOUS
  <2> HIDE DEF S
  <2>2. Oldest(S, Obs) \subseteq S /\ Cardinality(Oldest(S, Obs)) <= BatchSize
    BY <2>1, BatchesBounded
  <2> QED
    BY <1>3, <2>2 DEF SelectUnscored, S
<1>4. CASE CommitScores
    BY <1>0, <1>4 DEF CommitScores
<1>5. CASE SelectFrames
  <2> DEFINE S == uploaded \ processed
  <2>1. S \in SUBSET Frames
    OBVIOUS
  <2> HIDE DEF S
  <2>2. Oldest(S, Frm) \subseteq S /\ Cardinality(Oldest(S, Frm)) <= BatchSize
    BY <2>1, BatchesBounded
  <2>3. batch' = Oldest(S, Frm)
    BY <1>5 DEF SelectFrames, S
  <2>4. batch' \subseteq uploaded' /\ Cardinality(batch') <= BatchSize
    BY <1>5, <2>2, <2>3 DEF SelectFrames, S
  <2> QED
    BY <1>5, <2>4 DEF SelectFrames
<1>6. CASE Pair
    BY <1>6 DEF Pair
<1>7. CASE CommitFusion
    BY <1>0, <1>7 DEF CommitFusion
<1>8. CASE Fail
    BY <1>0, <1>8 DEF Fail
<1>9. ASSUME NEW o \in Observations, StoreObservation(o)
      PROVE  TypeOK'
    BY <1>9 DEF StoreObservation
<1>10. ASSUME NEW f \in Frames, StoreFrame(f)
       PROVE  TypeOK'
    BY <1>10 DEF StoreFrame
<1>11. CASE ActivateModel \/ FlipActive
    BY <1>11 DEF ActivateModel, FlipActive
<1>12. CASE UNCHANGED vars
    BY <1>12 DEF vars
<1> QED
    BY <1>1, <1>2, <1>3, <1>4, <1>5, <1>6, <1>7, <1>8, <1>9, <1>10, <1>11, <1>12
    DEF Next, Run

(* Scores stay in order.                                                   *)
LEMMA ScoresStep ==
    ASSUME IInv, [Next]_vars
    PROVE  ScoresInOrder'
<1> USE DEF IInv, TypeOK, ScoresInOrder, dbVars, modelVars, jobVars, Models, NoModel
<1> USE BoundsAssumption
<1>1. CASE Start \/ SelectFrames \/ Pair \/ CommitFusion
    BY <1>1 DEF Start, SelectFrames, Pair, CommitFusion
<1>2. CASE LoadModel
    BY <1>2 DEF LoadModel
<1>3. CASE SelectUnscored
  <2>1. toScore' \subseteq {o \in stored : scoredBy[o] = NoModel}
    BY <1>3 DEF SelectUnscored, Oldest
  <2> QED
    BY <1>3, <2>1 DEF SelectUnscored
<1>4. CASE CommitScores
    BY <1>4 DEF CommitScores
<1>5. CASE Fail
    BY <1>5 DEF Fail
<1>6. ASSUME NEW o \in Observations, StoreObservation(o)
      PROVE  ScoresInOrder'
    BY <1>6 DEF StoreObservation
<1>7. ASSUME NEW f \in Frames, StoreFrame(f)
      PROVE  ScoresInOrder'
    BY <1>7 DEF StoreFrame
<1>8. CASE ActivateModel \/ FlipActive
    BY <1>8 DEF ActivateModel, FlipActive
<1>9. CASE UNCHANGED vars
    BY <1>9 DEF vars
<1> QED
    BY <1>1, <1>2, <1>3, <1>4, <1>5, <1>6, <1>7, <1>8, <1>9 DEF Next, Run

(* The frames of the batch stay unprocessed until its commit.              *)
LEMMA BatchStep ==
    ASSUME IInv, [Next]_vars
    PROVE  BatchIsFresh' /\ FoundIsRight'
<1> USE DEF IInv, BatchIsFresh, dbVars, modelVars, jobVars
<1>1. CASE Start \/ LoadModel \/ SelectUnscored \/ CommitScores
    BY <1>1 DEF Start, LoadModel, SelectUnscored, CommitScores, FoundIsRight
<1>2. CASE SelectFrames
  <2>1. batch' \subseteq Frames /\ batch' \intersect processed = {}
    BY <1>2 DEF SelectFrames, Oldest, TypeOK
  <2> QED
    BY <1>2, <2>1 DEF SelectFrames, FoundIsRight
<1>3. CASE Pair
  <2>1. FoundIsRight'
    BY <1>3, PairFindsNearest
  <2> QED
    BY <1>3, <2>1 DEF Pair
<1>4. CASE CommitFusion
  <2>1. found \subseteq PairRows /\ \A p \in found : p.frame \in batch
    BY <1>4 DEF CommitFusion, FoundIsRight
  <2>2. pairs' \subseteq PairRows /\ \A p \in pairs' : p.frame \in processed'
    BY <1>4, <2>1, UpsertAdds DEF CommitFusion
  <2> QED
    BY <1>4, <2>2 DEF CommitFusion, FoundIsRight
<1>5. CASE Fail
    BY <1>5 DEF Fail, FoundIsRight
<1>6. ASSUME NEW o \in Observations, StoreObservation(o)
      PROVE  BatchIsFresh' /\ FoundIsRight'
    BY <1>6 DEF StoreObservation, FoundIsRight, NearestIn
<1>7. ASSUME NEW f \in Frames, StoreFrame(f)
      PROVE  BatchIsFresh' /\ FoundIsRight'
    BY <1>7 DEF StoreFrame, FoundIsRight, NearestIn
<1>8. CASE ActivateModel \/ FlipActive
    BY <1>8 DEF ActivateModel, FlipActive, FoundIsRight, NearestIn
<1>9. CASE UNCHANGED vars
    BY <1>9 DEF vars, FoundIsRight, NearestIn
<1> QED
    BY <1>1, <1>2, <1>3, <1>4, <1>5, <1>6, <1>7, <1>8, <1>9 DEF Next, Run

\* What is committed of the job.
Results == OnePairPerFrame /\ RunsAccountFrames /\ PairsAgreeWithScores /\ PairedWithNearest

(* Only the commit of a batch changes what is committed of the job.        *)
LEMMA OnlyCommitsPair ==
    ASSUME [Next]_vars
    PROVE  \/ CommitFusion
           \/ UNCHANGED <<pairs, processed, runs>>
BY DEF Next, Run, Start, LoadModel, SelectUnscored, CommitScores, SelectFrames, Pair,
       Fail, StoreObservation, StoreFrame, ActivateModel,
       FlipActive, vars, dbVars, modelVars, jobVars

(* What was stored when the batch of a processed frame was read stays.     *)
LEMMA AsOfIsKept ==
    ASSUME IInv, [Next]_vars
    PROVE  \A f \in processed : asOf'[f] = asOf[f]
<1>1. CASE SelectFrames
  <2>1. batch' \intersect processed = {} /\ processed \subseteq Frames
    BY <1>1 DEF SelectFrames, Oldest, IInv, TypeOK
  <2> QED
    BY <1>1, <2>1 DEF SelectFrames
<1>2. CASE Fail
    BY <1>2 DEF Fail, IInv, TypeOK
<1>3. CASE ~SelectFrames /\ ~Fail
    BY <1>3 DEF Next, Run, Start, LoadModel, SelectUnscored, CommitScores, Pair,
       CommitFusion, StoreObservation, StoreFrame, ActivateModel,
       FlipActive, vars, dbVars, modelVars, jobVars
<1> QED
    BY <1>1, <1>2, <1>3

(* A score is never replaced by another one.                               *)
LEMMA ScoresAreFinal ==
    ASSUME IInv, [Next]_vars
    PROVE  \A o \in Observations : scoredBy[o] # NoModel => scoredBy'[o] = scoredBy[o]
<1>1. CASE CommitScores
    BY <1>1 DEF CommitScores, IInv, ScoresInOrder
<1>2. CASE ~CommitScores
    BY <1>2 DEF Next, Run, Start, LoadModel, SelectUnscored, SelectFrames, Pair,
       CommitFusion, Fail, StoreObservation, StoreFrame, ActivateModel,
       FlipActive, vars, dbVars, modelVars, jobVars
<1> QED
    BY <1>1, <1>2

(* What is committed stays right.                                          *)
LEMMA ResultsStep ==
    ASSUME IInv, [Next]_vars
    PROVE  Results'
<1> USE DEF IInv, Results
<1>1. CASE UNCHANGED <<pairs, processed, runs>>
  <2>1. PairedWithNearest'
    BY <1>1, AsOfIsKept DEF PairedWithNearest, NearestIn
  <2>2. PairsAgreeWithScores'
    BY <1>1, ScoresAreFinal DEF PairsAgreeWithScores, BatchIsFresh, PairRows
  <2> QED
    BY <1>1, <2>1, <2>2 DEF OnePairPerFrame, RunsAccountFrames
<1>2. CASE CommitFusion
  <2>1. /\ pairs' = pairs \union found
        /\ \A f \in batch : {p \in pairs' : p.frame = f} = {p \in found : p.frame = f}
        /\ \A f \in Frames \ batch : {p \in pairs' : p.frame = f} = {p \in pairs : p.frame = f}
    BY <1>2, UpsertAdds
  <2>2. /\ \A p \in found : p.frame \in batch /\ p.score \in {NoModel, scoredBy[p.event]}
        /\ \A p, q \in found : p.frame = q.frame => p = q
        /\ \A f \in batch : NearestIn(f, found)
        /\ batch \intersect processed = {} /\ batch \subseteq Frames
        /\ processed \subseteq Frames
        /\ \A p \in pairs : p.frame \in processed
    BY <1>2 DEF CommitFusion, FoundIsRight, BatchIsFresh, TypeOK
  <2>3. processed' = processed \union batch /\ asOf' = asOf
    BY <1>2 DEF CommitFusion
  <2>4. OnePairPerFrame'
    BY <2>1, <2>2 DEF OnePairPerFrame
  <2>5. PairsAgreeWithScores'
    BY <1>2, <2>1, <2>2 DEF PairsAgreeWithScores, CommitFusion
  <2>6. RunsAccountFrames'
    <3> DEFINE new == RunOf(batch, Cardinality(found))
    <3>1. runs' = runs \union {new} /\ new.frames = batch /\ new.outputs = Cardinality(found)
      BY <1>2 DEF CommitFusion, RunOf
    <3>2. \A r \in runs : r.frames \subseteq processed
      BY DEF RunsAccountFrames
    <3>3. {p \in pairs' : p.frame \in batch} = found
      BY <2>1, <2>2
    <3>4. \A r \in runs : {p \in pairs' : p.frame \in r.frames} = {p \in pairs : p.frame \in r.frames}
      BY <2>1, <2>2, <3>2
    <3> HIDE DEF new
    <3>5. processed' = UNION {r.frames : r \in runs'}
      BY <2>3, <3>1 DEF RunsAccountFrames
    <3>6. \A r, s \in runs' : r # s => r.frames \intersect s.frames = {}
      BY <2>2, <3>1, <3>2 DEF RunsAccountFrames
    <3>7. \A r \in runs' : r.outputs = Cardinality({p \in pairs' : p.frame \in r.frames})
      BY <3>1, <3>3, <3>4 DEF RunsAccountFrames
    <3> QED
      BY <3>5, <3>6, <3>7 DEF RunsAccountFrames
  <2>7. PairedWithNearest'
    <3>1. ASSUME NEW f \in batch
          PROVE  NearestIn(f, pairs)'
      <4>1. {q \in pairs' : q.frame = f} = {q \in found : q.frame = f}
        BY <2>1
      <4> QED
        BY <2>2, <2>3, <4>1 DEF NearestIn
    <3>2. ASSUME NEW f \in processed
          PROVE  NearestIn(f, pairs)'
      <4>1. {q \in pairs' : q.frame = f} = {q \in pairs : q.frame = f}
        BY <2>1, <2>2
      <4> QED
        BY <2>3, <4>1 DEF NearestIn, PairedWithNearest
    <3> QED
      BY <2>3, <3>1, <3>2 DEF PairedWithNearest
  <2> QED
    BY <2>4, <2>5, <2>6, <2>7
<1> QED
    BY <1>1, <1>2, OnlyCommitsPair

(* The invariant is inductive.                                             *)
LEMMA IInvStep == IInv /\ [Next]_vars => IInv'
BY TypeStep, ScoresStep, BatchStep, ResultsStep DEF IInv, Results

(* The invariant holds in every reachable state.                           *)
LEMMA Invariance == Spec => []IInv
<1>1. Init => IInv
    BY InitIInv
<1>2. IInv /\ [Next]_vars => IInv'
    BY IInvStep
<1> QED
    BY <1>1, <1>2, PTL DEF Spec

(***************************************************************************)
(* The tables keep their types and no statement is about more rows than    *)
(* the batch size (fusion/service.py:102-122).                             *)
(***************************************************************************)
THEOREM TypeCorrect == Spec => []TypeOK
<1>1. IInv => TypeOK
    BY DEF IInv
<1> QED
    BY <1>1, Invariance, PTL

(***************************************************************************)
(* The audit trail: one pair for a frame at most, each processed frame in  *)
(* exactly one run, and the totals of a run are those of its frames        *)
(* (fusion/service.py:215-273).                                            *)
(***************************************************************************)
THEOREM AuditTrail == Spec => [](OnePairPerFrame /\ RunsAccountFrames)
<1>1. IInv => OnePairPerFrame /\ RunsAccountFrames
    BY DEF IInv
<1> QED
    BY <1>1, Invariance, PTL

(***************************************************************************)
(* A processed frame has the nearest observation of its batch, and none    *)
(* only if none matched (fusion/service.py:131-163).                       *)
(***************************************************************************)
THEOREM NearestIsPaired == Spec => []PairedWithNearest
<1>1. IInv => PairedWithNearest
    BY DEF IInv
<1> QED
    BY <1>1, Invariance, PTL

(***************************************************************************)
(* A pair never disagrees with the score of its observation, whatever is   *)
(* fitted or rolled back (fusion/service.py:131-163, 186-209).             *)
(***************************************************************************)
THEOREM PairsStayCurrent == Spec => []PairsAgreeWithScores
<1>1. IInv => PairsAgreeWithScores
    BY DEF IInv
<1> QED
    BY <1>1, Invariance, PTL

-----------------------------------------------------------------------------
(* Steps of the job and of the uploads are steps of the queue of frames.   *)
LEMMA FrameQueueStep ==
    ASSUME IInv, [Next]_vars
    PROVE  [FrameQueue!Next]_(FrameQueue!queueVars)
<1> DEFINE Kept == [f \in Frames |-> {p \in pairs : p.frame = f}]
<1> USE DEF FrameQueue!queueVars
<1>1. ASSUME NEW f \in Frames, StoreFrame(f)
      PROVE  FrameQueue!Next
    BY <1>1 DEF FrameQueue!Next, FrameQueue!Arrive, StoreFrame
<1>2. CASE CommitFusion
  <2>1. /\ \A f \in batch : {p \in pairs' : p.frame = f} = {p \in found : p.frame = f}
        /\ \A f \in Frames \ batch : {p \in pairs' : p.frame = f} = {p \in pairs : p.frame = f}
    BY <1>2, UpsertAdds
  <2>2. /\ found \subseteq PairRows /\ batch \intersect processed = {}
        /\ batch \subseteq uploaded /\ uploaded \subseteq Frames
        /\ Cardinality(batch) <= BatchSize
    BY <1>2 DEF CommitFusion, IInv, TypeOK, BatchIsFresh, FoundIsRight
  <2>3. Kept' = [f \in Frames |-> {p \in pairs' : p.frame = f}]
    OBVIOUS
  <2>4. \A f \in Frames \ batch : Kept'[f] = Kept[f]
    BY <2>1, <2>3
  <2>5. \A f \in batch : Kept'[f] \in SUBSET PairRows
    BY <2>1, <2>2, <2>3
  <2>6. processed' = processed \union batch /\ uploaded' = uploaded
    BY <1>2 DEF CommitFusion
  <2>7. batch \in Limited(Frames)
    BY <2>2 DEF Limited
  <2> QED
    BY <2>2, <2>4, <2>5, <2>6, <2>7 DEF FrameQueue!Next, FrameQueue!Finish
<1>3. CASE UNCHANGED <<uploaded, processed, pairs>>
    BY <1>3
<1>4. \/ \E f \in Frames : StoreFrame(f)
      \/ CommitFusion
      \/ UNCHANGED <<uploaded, processed, pairs>>
    BY DEF Next, Run, Start, LoadModel, SelectUnscored, CommitScores, SelectFrames,
       Pair, Fail, StoreObservation, ActivateModel, FlipActive, vars, dbVars, modelVars, jobVars
<1> QED
    BY <1>1, <1>2, <1>3, <1>4

(* And of the queue of observations.                                       *)
LEMMA ScoreQueueStep ==
    ASSUME IInv, [Next]_vars
    PROVE  [ScoreQueue!Next]_(ScoreQueue!queueVars)
<1> DEFINE Marked == {o \in stored : scoredBy[o] # NoModel}
<1> USE DEF ScoreQueue!queueVars
<1>1. ASSUME NEW o \in Observations, StoreObservation(o)
      PROVE  ScoreQueue!Next
  <2>1. scoredBy[o] = NoModel /\ o \notin stored
    BY <1>1 DEF StoreObservation, IInv, ScoresInOrder
  <2>2. Marked' = Marked
    BY <1>1, <2>1 DEF StoreObservation
  <2> QED
    BY <1>1, <2>1, <2>2 DEF ScoreQueue!Next, ScoreQueue!Arrive, StoreObservation
<1>2. CASE CommitScores
  <2>1. /\ model \in Models \ {NoModel} /\ scoredBy \in [Observations -> Models]
        /\ toScore \subseteq stored /\ stored \subseteq Observations
        /\ Cardinality(toScore) <= BatchSize
        /\ \A o \in toScore : scoredBy[o] = NoModel
    BY <1>2 DEF CommitScores, IInv, TypeOK, ScoresInOrder
  <2>2. /\ \A o \in Observations \ toScore : scoredBy'[o] = scoredBy[o]
        /\ \A o \in toScore : scoredBy'[o] = model
        /\ stored' = stored
    BY <1>2, <2>1 DEF CommitScores
  <2>3. Marked' = Marked \union toScore /\ toScore \intersect Marked = {}
    BY <2>1, <2>2
  <2>4. toScore \in Limited(Observations)
    BY <2>1 DEF Limited
  <2> QED
    BY <2>1, <2>2, <2>3, <2>4 DEF ScoreQueue!Next, ScoreQueue!Finish
<1>3. CASE UNCHANGED <<stored, scoredBy>>
    BY <1>3
<1>4. \/ \E o \in Observations : StoreObservation(o)
      \/ CommitScores
      \/ UNCHANGED <<stored, scoredBy>>
    BY DEF Next, Run, Start, LoadModel, SelectUnscored, CommitFusion, SelectFrames,
       Pair, Fail, StoreFrame, ActivateModel, FlipActive, vars, dbVars, modelVars, jobVars
<1> QED
    BY <1>1, <1>2, <1>3, <1>4

(***************************************************************************)
(* Frames are handled once: the pairs of a batch appear with its marks and *)
(* are final (fusion/service.py:212-273).                                  *)
(***************************************************************************)
THEOREM FramesAreAQueue == Spec => FramesHandledOnce
<1>1. Init => FrameQueue!Init
    BY DEF Init, FrameQueue!Init
<1>2. IInv /\ [Next]_vars => [FrameQueue!Next]_(FrameQueue!queueVars)
    BY FrameQueueStep
<1> QED
    BY <1>1, <1>2, Invariance, PTL DEF Spec, FramesHandledOnce, FrameQueue!Spec

(***************************************************************************)
(* Observations are scored once, by one model (fusion/service.py:186-209). *)
(***************************************************************************)
THEOREM ObservationsAreAQueue == Spec => ObservationsHandledOnce
<1>1. Init => ScoreQueue!Init
    BY DEF Init, ScoreQueue!Init
<1>2. IInv /\ [Next]_vars => [ScoreQueue!Next]_(ScoreQueue!queueVars)
    BY ScoreQueueStep
<1> QED
    BY <1>1, <1>2, Invariance, PTL DEF Spec, ObservationsHandledOnce, ScoreQueue!Spec
=============================================================================
