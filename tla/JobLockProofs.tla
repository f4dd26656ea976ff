--------------------------- MODULE JobLockProofs ----------------------------
(***************************************************************************)
(* With direct connections at most one process can touch what a job works  *)
(* on, for any number of workers, jobs, connections and faults, though a   *)
(* run that lost its lock may not know it.  And, with or without a pooler, *)
(* the connections of a pool are those of its runs and its requests, for   *)
(* pools of any size (second part).                                        *)
(***************************************************************************)
EXTENDS JobLock, FiniteSetTheorems, TLAPS

LockTypes ==
    /\ pc \in [Workers -> [Jobs -> Places]]
    /\ severed \in SUBSET (Workers \X Jobs)
    /\ held \in [Workers \X Jobs -> [Jobs -> Nat]]

\* A session holds exactly the lock of the run it serves, exactly while the
\* run is in it and still connected to it.
HeldByItsRun ==
    \A w \in Workers, k, j \in Jobs :
        held[<<w, k>>][j] = IF k = j /\ Inside(w, j) THEN 1 ELSE 0

\* While a vanished client's session keeps a lock, nobody is inside.
OrphansExclude ==
    \A w \in Workers, j \in Jobs : Inside(w, j) => j \notin orphans

LockInv == LockTypes /\ HeldByItsRun /\ OrphansExclude /\ OneWriter

-----------------------------------------------------------------------------
(* In direct mode a job reaches its own session, and no other.             *)
LEMMA DirectSessions ==
    ASSUME ~Pooled
    PROVE  /\ Sessions = Workers \X Jobs
           /\ \A w \in Workers, j \in Jobs : Reach(w, j) = {<<w, j>>}
BY DEF Sessions, Reach

(* One run changes its own place, and no other run enters or leaves.       *)
LEMMA GoMoves ==
    ASSUME LockTypes, NEW w \in Workers, NEW j \in Jobs,
           NEW from, NEW to \in Places, Go(w, j, from, to), UNCHANGED severed
    PROVE  /\ pc[w][j] = from /\ pc'[w][j] = to
           /\ pc' \in [Workers -> [Jobs -> Places]]
           /\ Inside(w, j) <=> from \in InLock /\ Connected(w, j)
           /\ Inside(w, j)' <=> to \in InLock /\ Connected(w, j)
           /\ \A v \in Workers, i \in Jobs :
                <<v, i>> # <<w, j>> => (Inside(v, i)' <=> Inside(v, i))
<1>1. /\ pc[w][j] = from /\ pc'[w][j] = to
      /\ pc' \in [Workers -> [Jobs -> Places]]
      /\ \A v \in Workers, i \in Jobs : <<v, i>> # <<w, j>> => pc'[v][i] = pc[v][i]
    BY DEF Go, LockTypes
<1> QED
    BY <1>1 DEF Inside, Connected, InLock

(* A step at which nobody enters or leaves preserves the invariant.        *)
LEMMA ElsewhereStep ==
    ASSUME LockInv, LockTypes', UNCHANGED held, orphans' \subseteq orphans,
           \A v \in Workers, i \in Jobs : Inside(v, i)' <=> Inside(v, i)
    PROVE  LockInv'
<1>1. HeldByItsRun'
  <2> SUFFICES ASSUME NEW v \in Workers, NEW k \in Jobs, NEW i \in Jobs
               PROVE  held'[<<v, k>>][i] =
                        IF k = i /\ Inside(v, i)' THEN 1 ELSE 0
    BY DEF HeldByItsRun
  <2>1. held[<<v, k>>][i] = IF k = i /\ Inside(v, i) THEN 1 ELSE 0
    BY DEF LockInv, HeldByItsRun
  <2> QED
    BY <2>1
<1>2. OrphansExclude'
    BY DEF LockInv, OrphansExclude
<1>3. OneWriter'
    BY DEF LockInv, OneWriter
<1> QED
    BY <1>1, <1>2, <1>3 DEF LockInv

(* Moves between two places on the same side of the lock.                  *)
LEMMA QuietStep ==
    ASSUME ~Pooled, LockInv, NEW w \in Workers, NEW j \in Jobs,
           \/ Tick(w, j) \/ Acquire(w, j) \/ Skip(w, j) \/ WantModel(w, j)
           \/ LoadModel(w, j) \/ LoadFails(w, j) \/ Work(w, j) \/ Raise(w, j)
    PROVE  LockInv'
<1>1. ASSUME NEW from \in Places, NEW to \in Places, Go(w, j, from, to),
             from \in InLock <=> to \in InLock, UNCHANGED <<held, severed, orphans>>
      PROVE  LockInv'
  <2>1. /\ pc' \in [Workers -> [Jobs -> Places]]
        /\ \A v \in Workers, i \in Jobs : Inside(v, i)' <=> Inside(v, i)
    BY <1>1, GoMoves DEF LockInv
  <2>2. LockTypes'
    BY <1>1, <2>1 DEF LockInv, LockTypes
  <2> QED
    BY <1>1, <2>1, <2>2, ElsewhereStep
<1> USE DEF Places, InLock
<1>2. CASE Tick(w, j)
    BY <1>1, <1>2 DEF Tick
<1>3. CASE Acquire(w, j)
    BY <1>1, <1>3 DEF Acquire
<1>4. CASE Skip(w, j)
    BY <1>1, <1>4 DEF Skip
<1>5. CASE WantModel(w, j)
    BY <1>1, <1>5 DEF WantModel
<1>6. CASE LoadModel(w, j)
    BY <1>1, <1>6 DEF LoadModel
<1>7. CASE LoadFails(w, j)
    BY <1>1, <1>7 DEF LoadFails
<1>8. CASE Work(w, j)
    BY <1>1, <1>8 DEF Work
<1>9. CASE Raise(w, j)
  <2>1. PICK from \in {"locking", "working", "unlocking"} : Go(w, j, from, "releasing")
    BY <1>9 DEF Raise
  <2>2. ~Connected(w, j) /\ UNCHANGED <<held, severed, orphans>>
    BY <1>9 DEF Raise
  <2>3. /\ pc' \in [Workers -> [Jobs -> Places]]
        /\ \A v \in Workers, i \in Jobs : Inside(v, i)' <=> Inside(v, i)
    BY <2>1, <2>2, GoMoves DEF LockInv
  <2>4. LockTypes'
    BY <2>2, <2>3 DEF LockInv, LockTypes
  <2> QED
    BY <2>2, <2>3, <2>4, ElsewhereStep
<1> QED
    BY <1>2, <1>3, <1>4, <1>5, <1>6, <1>7, <1>8, <1>9

(* A granted lock is held by nobody else, and its key by nobody at all.    *)
LEMMA TryLockStep ==
    ASSUME ~Pooled, LockInv, NEW w \in Workers, NEW j \in Jobs, TryLock(w, j)
    PROVE  LockInv'
<1> DEFINE to == IF j \in NestedJobs THEN "wantsModel" ELSE "working"
<1>1. /\ Connected(w, j)
      /\ Granted(<<w, j>>, j)
      /\ held' = [held EXCEPT ![<<w, j>>][j] = @ + 1]
      /\ Go(w, j, "locking", to)
      /\ UNCHANGED <<severed, orphans>>
    BY DirectSessions DEF TryLock
<1>2. to \in Places /\ to \in InLock /\ "locking" \notin InLock
    BY DEF Places, InLock
<1>3. /\ ~Inside(w, j) /\ Inside(w, j)'
      /\ pc' \in [Workers -> [Jobs -> Places]]
      /\ \A v \in Workers, i \in Jobs :
            <<v, i>> # <<w, j>> => (Inside(v, i)' <=> Inside(v, i))
    BY <1>1, <1>2, GoMoves DEF LockInv
<1>4. j \notin orphans /\ \A v \in Workers : v # w => ~Inside(v, j)
  <2>1. ASSUME NEW v \in Workers, v # w PROVE ~Inside(v, j)
    <3>1. held[<<v, j>>][j] = 0
      BY <1>1, <2>1, DirectSessions DEF Granted
    <3>2. held[<<v, j>>][j] = IF Inside(v, j) THEN 1 ELSE 0
      BY DEF LockInv, HeldByItsRun
    <3> QED
      BY <3>1, <3>2
  <2>2. j \notin orphans
    BY <1>1 DEF Granted
  <2> QED
    BY <2>1, <2>2
<1>5. LockTypes'
    BY <1>1, <1>3 DEF LockInv, LockTypes
<1>6. HeldByItsRun'
  <2> SUFFICES ASSUME NEW v \in Workers, NEW k \in Jobs, NEW i \in Jobs
               PROVE  held'[<<v, k>>][i] =
                        IF k = i /\ Inside(v, i)' THEN 1 ELSE 0
    BY DEF HeldByItsRun
  <2>1. held[<<v, k>>][i] = IF k = i /\ Inside(v, i) THEN 1 ELSE 0
    BY DEF LockInv, HeldByItsRun
  <2>2. held'[<<v, k>>][i] =
            IF <<v, k>> = <<w, j>> /\ i = j THEN held[<<v, k>>][i] + 1 ELSE held[<<v, k>>][i]
    BY <1>1 DEF LockInv, LockTypes
  <2>3. CASE v = w /\ k = j /\ i = j
    BY <1>3, <2>1, <2>2, <2>3
  <2>4. CASE ~(v = w /\ i = j)
    BY <1>3, <2>1, <2>2, <2>4
  <2>5. CASE v = w /\ i = j /\ k # j
    BY <2>1, <2>2, <2>5
  <2> QED
    BY <2>3, <2>4, <2>5
<1>7. OrphansExclude'
    BY <1>1, <1>3, <1>4 DEF LockInv, OrphansExclude
<1>8. OneWriter'
  <2> SUFFICES ASSUME NEW i \in Jobs, NEW v \in Workers, NEW u \in Workers,
                      Inside(v, i)', Inside(u, i)'
               PROVE  v = u
    BY DEF OneWriter
  <2>1. CASE i = j
    BY <1>3, <1>4, <2>1
  <2>2. CASE i # j
    BY <1>3, <2>2 DEF LockInv, OneWriter
  <2> QED
    BY <2>1, <2>2
<1> QED
    BY <1>5, <1>6, <1>7, <1>8 DEF LockInv

(* Unlocking leaves the session of a finished run without a lock.          *)
LEMMA UnlockStep ==
    ASSUME ~Pooled, LockInv, NEW w \in Workers, NEW j \in Jobs, Unlock(w, j)
    PROVE  LockInv'
<1>1. PICK s \in Reach(w, j) :
        held' = [held EXCEPT ![s][j] = IF @ = 0 THEN 0 ELSE @ - 1]
    BY DEF Unlock
<1>0. s = <<w, j>>
    BY DirectSessions
<1>2. /\ Connected(w, j)
      /\ held' = [held EXCEPT ![<<w, j>>][j] = IF @ = 0 THEN 0 ELSE @ - 1]
      /\ Go(w, j, "unlocking", "releasing")
      /\ UNCHANGED <<severed, orphans>>
    BY <1>0, <1>1 DEF Unlock
<1>3. "releasing" \in Places /\ "releasing" \notin InLock /\ "unlocking" \in InLock
    BY DEF Places, InLock
<1>4. /\ Inside(w, j) /\ ~Inside(w, j)'
      /\ pc' \in [Workers -> [Jobs -> Places]]
      /\ \A v \in Workers, i \in Jobs :
            <<v, i>> # <<w, j>> => (Inside(v, i)' <=> Inside(v, i))
    BY <1>2, <1>3, GoMoves DEF LockInv
<1>5. held[<<w, j>>][j] = 1
    BY <1>4 DEF LockInv, HeldByItsRun
<1>6. held' = [held EXCEPT ![<<w, j>>][j] = 0]
    BY <1>2, <1>5 DEF LockInv, LockTypes
<1>7. LockTypes'
    BY <1>2, <1>4, <1>6 DEF LockInv, LockTypes
<1>8. HeldByItsRun'
  <2> SUFFICES ASSUME NEW v \in Workers, NEW k \in Jobs, NEW i \in Jobs
               PROVE  held'[<<v, k>>][i] =
                        IF k = i /\ Inside(v, i)' THEN 1 ELSE 0
    BY DEF HeldByItsRun
  <2>1. held[<<v, k>>][i] = IF k = i /\ Inside(v, i) THEN 1 ELSE 0
    BY DEF LockInv, HeldByItsRun
  <2>2. held'[<<v, k>>][i] =
          IF <<v, k>> = <<w, j>> /\ i = j THEN 0 ELSE held[<<v, k>>][i]
    BY <1>6 DEF LockInv, LockTypes
  <2>3. CASE v = w /\ k = j /\ i = j
    BY <1>4, <2>2, <2>3
  <2>4. CASE ~(v = w /\ i = j)
    BY <1>4, <2>1, <2>2, <2>4
  <2>5. CASE v = w /\ i = j /\ k # j
    BY <2>1, <2>2, <2>5
  <2> QED
    BY <2>3, <2>4, <2>5
<1>9. \A v \in Workers, i \in Jobs : Inside(v, i)' => Inside(v, i)
    BY <1>4
<1>10. OrphansExclude' /\ OneWriter'
    BY <1>2, <1>9 DEF LockInv, OrphansExclude, OneWriter
<1> QED
    BY <1>7, <1>8, <1>10 DEF LockInv

(* The reset that follows finds nothing to drop.                           *)
LEMMA ReleaseStep ==
    ASSUME ~Pooled, LockInv, NEW w \in Workers, NEW j \in Jobs, Release(w, j)
    PROVE  LockInv'
<1>1. /\ held' = [held EXCEPT ![<<w, j>>] = Nothing] \/ held' = held
      /\ pc[w][j] = "releasing" /\ pc' = [pc EXCEPT ![w][j] = "idle"]
      /\ severed' = severed \ {<<w, j>>}
      /\ UNCHANGED orphans
    BY DirectSessions DEF Release, ResetSession, Resets, Go
<1>2. /\ ~Inside(w, j) /\ ~Inside(w, j)'
      /\ pc' \in [Workers -> [Jobs -> Places]]
      /\ \A v \in Workers, i \in Jobs : Inside(v, i)' <=> Inside(v, i)
    BY <1>1 DEF LockInv, LockTypes, Inside, InLock, Connected, Places
<1>3. \A i \in Jobs : held[<<w, j>>][i] = 0
  <2> TAKE i \in Jobs
  <2>1. held[<<w, j>>][i] = IF j = i /\ Inside(w, i) THEN 1 ELSE 0
    BY DEF LockInv, HeldByItsRun
  <2> QED
    BY <1>2, <2>1
<1>4. held[<<w, j>>] = Nothing
    BY <1>3 DEF LockInv, LockTypes, Nothing
<1>5. UNCHANGED held
    BY <1>1, <1>4 DEF LockInv, LockTypes
<1>6. LockTypes'
    BY <1>1, <1>2, <1>5 DEF LockInv, LockTypes
<1> QED
    BY <1>1, <1>2, <1>5, <1>6, ElsewhereStep

(* Sessions whose clients are gone keep their locks out of reach, and the  *)
(* runs that have lost them are outside.                                   *)
LEMMA AbandonStep ==
    ASSUME ~Pooled, LockInv, NEW w \in Workers,
           \/ \E j \in Jobs : LoseConnection(w, j)
           \/ Crash(w)
    PROVE  LockInv'
<1> DEFINE Gone(S) ==
        \A v \in Workers, i \in Jobs : Inside(v, i)' <=> Inside(v, i) /\ <<v, i>> \notin S
<1>1. PICK S \in SUBSET ({w} \X Jobs) :
        /\ Abandon(S) /\ Gone(S) /\ pc' \in [Workers -> [Jobs -> Places]]
        /\ severed' \in SUBSET (Workers \X Jobs)
  <2>1. ASSUME NEW j \in Jobs, LoseConnection(w, j)
        PROVE  /\ {<<w, j>>} \in SUBSET ({w} \X Jobs)
               /\ Abandon({<<w, j>>}) /\ Gone({<<w, j>>})
               /\ pc' \in [Workers -> [Jobs -> Places]]
               /\ severed' \in SUBSET (Workers \X Jobs)
    BY <2>1 DEF LoseConnection, LockInv, LockTypes, Inside, Connected, InLock
  <2>2. ASSUME Crash(w)
        PROVE  /\ Abandon({w} \X Jobs) /\ Gone({w} \X Jobs)
               /\ pc' \in [Workers -> [Jobs -> Places]]
               /\ severed' \in SUBSET (Workers \X Jobs)
    <3>1. /\ Abandon({w} \X Jobs) /\ severed' = severed \ ({w} \X Jobs)
          /\ pc' \in [Workers -> [Jobs -> Places]]
          /\ \A i \in Jobs : pc'[w][i] = "idle"
          /\ \A v \in Workers : v # w => pc'[v] = pc[v]
      BY <2>2 DEF Crash, LockInv, LockTypes, Places
    <3>2. Gone({w} \X Jobs)
      BY <3>1 DEF Inside, Connected, InLock
    <3> QED
      BY <3>1, <3>2 DEF LockInv, LockTypes
  <2> QED
    BY <2>1, <2>2
<1>2. /\ held' = [s \in Workers \X Jobs |-> IF s \in S THEN Nothing ELSE held[s]]
      /\ orphans' = orphans \union {j \in Jobs : \E s \in S : held[s][j] > 0}
    BY <1>1, DirectSessions DEF Abandon
<1>3. LockTypes'
    BY <1>1, <1>2 DEF LockInv, LockTypes, Nothing
<1>4. HeldByItsRun'
  <2> SUFFICES ASSUME NEW v \in Workers, NEW k \in Jobs, NEW i \in Jobs
               PROVE  held'[<<v, k>>][i] =
                        IF k = i /\ Inside(v, i)' THEN 1 ELSE 0
    BY DEF HeldByItsRun
  <2>1. held[<<v, k>>][i] = IF k = i /\ Inside(v, i) THEN 1 ELSE 0
    BY DEF LockInv, HeldByItsRun
  <2>2. held'[<<v, k>>][i] = IF <<v, k>> \in S THEN 0 ELSE held[<<v, k>>][i]
    BY <1>2 DEF Nothing
  <2> QED
    BY <1>1, <2>1, <2>2
<1>5. OrphansExclude'
  <2> SUFFICES ASSUME NEW v \in Workers, NEW i \in Jobs, Inside(v, i)',
                      i \in orphans'
               PROVE  FALSE
    BY DEF OrphansExclude
  <2>1. Inside(v, i) /\ <<v, i>> \notin S /\ i \notin orphans
    BY <1>1 DEF LockInv, OrphansExclude
  <2>2. PICK s \in S : held[s][i] > 0
    BY <1>2, <2>1
  <2>3. PICK k \in Jobs : s = <<w, k>>
    BY <1>1
  <2>4. held[<<w, k>>][i] = IF k = i /\ Inside(w, i) THEN 1 ELSE 0
    BY DEF LockInv, HeldByItsRun
  <2>5. k = i /\ Inside(w, i)
    BY <2>2, <2>3, <2>4
  <2>6. v = w
    BY <2>1, <2>5 DEF LockInv, OneWriter
  <2> QED
    BY <2>1, <2>3, <2>5, <2>6
<1>6. OneWriter'
    BY <1>1 DEF LockInv, OneWriter
<1> QED
    BY <1>3, <1>4, <1>5, <1>6 DEF LockInv

(* The steps of requests and of the server, and stuttering.                *)
LEMMA OtherStep ==
    ASSUME ~Pooled, LockInv,
           \/ \E w \in Workers : Borrow(w) \/ Return(w)
           \/ \E j \in Jobs : ServerNotices(j)
           \/ UNCHANGED vars
    PROVE  LockInv'
<1>1. UNCHANGED <<pc, held, severed>> /\ orphans' \subseteq orphans
    BY DEF Borrow, Return, ServerNotices, vars
<1>2. LockTypes' /\ \A v \in Workers, i \in Jobs : Inside(v, i)' <=> Inside(v, i)
    BY <1>1 DEF LockInv, LockTypes, Inside, Connected, InLock
<1> QED
    BY <1>1, <1>2, ElsewhereStep

-----------------------------------------------------------------------------
(* With direct connections the invariant holds in every reachable state.   *)
THEOREM LockInvariance ==
    ASSUME ~Pooled
    PROVE  Spec => []LockInv
<1>1. Init => LockInv
    BY DirectSessions
    DEF Init, LockInv, LockTypes, Places, Nothing, HeldByItsRun, OrphansExclude,
        OneWriter, Inside, InLock
<1>2. LockInv /\ [Next]_vars => LockInv'
    BY QuietStep, TryLockStep, UnlockStep, ReleaseStep, AbandonStep, OtherStep
    DEF Next, Run
<1> QED
    BY <1>1, <1>2, PTL DEF Spec

(* With direct connections at most one process can execute statements of   *)
(* the body of a job, whenever the loss of a connection is noticed, by the *)
(* run or by the server (service.py:280-291).                              *)
THEOREM DirectOneWriter ==
    ASSUME ~Pooled
    PROVE  Spec => []OneWriter
<1>1. LockInv => OneWriter
    BY DEF LockInv
<1> QED
    BY <1>1, LockInvariance, PTL

(* With direct connections no session keeps a lock after its run left it   *)
(* or lost it (the `finally` of service.py:290-291 and 520-521).           *)
THEOREM DirectNoStrayLock ==
    ASSUME ~Pooled
    PROVE  Spec => []NoStrayLock
<1>1. LockInv => NoStrayLock
  <2> SUFFICES ASSUME LockInv, NEW s \in Sessions, NEW j \in Jobs, held[s][j] > 0
               PROVE  \E w \in Workers : Inside(w, j)
    BY DEF NoStrayLock
  <2>1. PICK w \in Workers, k \in Jobs : s = <<w, k>>
    BY DirectSessions
  <2>2. held[<<w, k>>][j] = IF k = j /\ Inside(w, j) THEN 1 ELSE 0
    BY DEF LockInv, HeldByItsRun
  <2> QED
    BY <2>1, <2>2
<1> QED
    BY <1>1, LockInvariance, PTL

-----------------------------------------------------------------------------
(***************************************************************************)
(* The connections of the pools.                                           *)
(***************************************************************************)
\* Types, without the bounds on what is lent.
PoolTypes ==
    /\ pc \in [Workers -> [Jobs -> Places]]
    /\ held \in [Sessions -> [Jobs -> Nat]]
    /\ severed \subseteq Workers \X Jobs
    /\ orphans \subseteq Jobs
    /\ lent \in [Workers -> 0..PoolSize]
    /\ requests \in [Workers -> Nat]
    /\ borrows \in 0..MaxBorrows
    /\ faults \in 0..MaxFaults

PoolInv == PoolTypes /\ PoolAccounted

\* Connections a run keeps at a place.
Keeps(p) == IF p \in HasConnection THEN 1 ELSE 0
KeepsSecond(p) == IF p = "loadsModel" THEN 1 ELSE 0

-----------------------------------------------------------------------------
(* Counting the jobs that have a property, when one of them changes.       *)
LEMMA CountMove ==
    ASSUME NEW S, IsFiniteSet(S), NEW A \in SUBSET S, NEW B \in SUBSET S, NEW j \in S,
           \A i \in S \ {j} : i \in A <=> i \in B
    PROVE  /\ Cardinality(A) \in Nat
           /\ Cardinality(B) = Cardinality(A)
                - (IF j \in A THEN 1 ELSE 0) + (IF j \in B THEN 1 ELSE 0)
           /\ j \in A => Cardinality(A) >= 1
<1> DEFINE C == A \ {j}
<1>1. IsFiniteSet(A) /\ IsFiniteSet(B)
    BY FS_Subset
<1>2. Cardinality(A) \in Nat /\ Cardinality(B) \in Nat
    BY <1>1, FS_CardinalityType
<1>3. C = B \ {j}
    OBVIOUS
<1>4. IsFiniteSet(C) /\ Cardinality(C) \in Nat
    BY <1>1, FS_RemoveElement, FS_CardinalityType
<1>5. Cardinality(C) = IF j \in A THEN Cardinality(A) - 1 ELSE Cardinality(A)
    BY <1>1, FS_RemoveElement
<1>6. Cardinality(C) = IF j \in B THEN Cardinality(B) - 1 ELSE Cardinality(B)
    BY <1>1, <1>3, FS_RemoveElement
<1> HIDE DEF C
<1> QED
    BY <1>2, <1>4, <1>5, <1>6

(* A run that moves keeps what its new place keeps.                        *)
LEMMA RunMoves ==
    ASSUME PoolTypes, NEW w \in Workers, NEW j \in Jobs, NEW to \in Places,
           pc' = [pc EXCEPT ![w][j] = to]
    PROVE  /\ pc' \in [Workers -> [Jobs -> Places]]
           /\ Connections(w) \in Nat
           /\ Connections(w) >= Keeps(pc[w][j]) + KeepsSecond(pc[w][j])
           /\ Connections(w)' = Connections(w)
                - Keeps(pc[w][j]) - KeepsSecond(pc[w][j]) + Keeps(to) + KeepsSecond(to)
           /\ \A v \in Workers \ {w} : Connections(v)' = Connections(v)
<1> DEFINE A == {i \in Jobs : pc[w][i] \in HasConnection}
           B == {i \in Jobs : pc'[w][i] \in HasConnection}
           C == {i \in Jobs : pc[w][i] = "loadsModel"}
           D == {i \in Jobs : pc'[w][i] = "loadsModel"}
<1>1. pc' \in [Workers -> [Jobs -> Places]]
    BY DEF PoolTypes
<1>2. pc'[w][j] = to /\ \A i \in Jobs \ {j} : pc'[w][i] = pc[w][i]
    BY DEF PoolTypes
<1>3. \A v \in Workers \ {w} : Connections(v)' = Connections(v)
    BY DEF PoolTypes, Connections, HasConnection
<1>4. /\ A \in SUBSET Jobs /\ B \in SUBSET Jobs /\ C \in SUBSET Jobs /\ D \in SUBSET Jobs
      /\ \A i \in Jobs \ {j} : (i \in A <=> i \in B) /\ (i \in C <=> i \in D)
    BY <1>2
<1>5. /\ j \in A <=> Keeps(pc[w][j]) = 1
      /\ j \in B <=> Keeps(to) = 1
      /\ j \in C <=> KeepsSecond(pc[w][j]) = 1
      /\ j \in D <=> KeepsSecond(to) = 1
    BY <1>2 DEF Keeps, KeepsSecond
<1>6. /\ Keeps(pc[w][j]) \in {0, 1} /\ Keeps(to) \in {0, 1}
      /\ KeepsSecond(pc[w][j]) \in {0, 1} /\ KeepsSecond(to) \in {0, 1}
    BY DEF Keeps, KeepsSecond
<1>7. Connections(w) = Cardinality(A) + Cardinality(C)
    BY DEF Connections
<1>8. Connections(w)' = Cardinality(B) + Cardinality(D)
    BY DEF Connections, HasConnection
<1> HIDE DEF A, B, C, D
<1>9. /\ Cardinality(A) \in Nat
      /\ Cardinality(B) = Cardinality(A) - Keeps(pc[w][j]) + Keeps(to)
      /\ Cardinality(A) >= Keeps(pc[w][j])
  <2>1. /\ Cardinality(A) \in Nat
        /\ Cardinality(B) = Cardinality(A)
             - (IF j \in A THEN 1 ELSE 0) + (IF j \in B THEN 1 ELSE 0)
        /\ j \in A => Cardinality(A) >= 1
    BY <1>4, CountMove, JobsAssumption
  <2> QED
    BY <1>5, <1>6, <2>1
<1>10. /\ Cardinality(C) \in Nat
       /\ Cardinality(D) = Cardinality(C) - KeepsSecond(pc[w][j]) + KeepsSecond(to)
       /\ Cardinality(C) >= KeepsSecond(pc[w][j])
  <2>1. /\ Cardinality(C) \in Nat
        /\ Cardinality(D) = Cardinality(C)
             - (IF j \in C THEN 1 ELSE 0) + (IF j \in D THEN 1 ELSE 0)
        /\ j \in C => Cardinality(C) >= 1
    BY <1>4, CountMove, JobsAssumption
  <2> QED
    BY <1>5, <1>6, <2>1
<1>11. /\ Connections(w) \in Nat
       /\ Connections(w) >= Keeps(pc[w][j]) + KeepsSecond(pc[w][j])
       /\ Connections(w)' = Connections(w)
            - Keeps(pc[w][j]) - KeepsSecond(pc[w][j]) + Keeps(to) + KeepsSecond(to)
    BY <1>6, <1>7, <1>8, <1>9, <1>10
<1> QED
    BY <1>1, <1>3, <1>11

(* A balance that moves as what it counts.                                 *)
LEMMA Balance ==
    ASSUME NEW l \in Nat, NEW c \in Nat, NEW r \in Nat, l = c + r,
           NEW a \in {0, 1}, NEW b \in {0, 1}, NEW x \in {0, 1}, NEW y \in {0, 1},
           c >= a + b, NEW n, n = l - a - b + x + y, n <= PoolSize
    PROVE  n = (c - a - b + x + y) + r /\ n \in 0..PoolSize
BY BoundsAssumption

(* The pool stays accounted for when a run moves and lent follows it.      *)
LEMMA RunAccounted ==
    ASSUME PoolInv, NEW w \in Workers, NEW j \in Jobs, NEW to \in Places,
           pc' = [pc EXCEPT ![w][j] = to],
           NEW n, lent' = [lent EXCEPT ![w] = n], n <= PoolSize,
           n = lent[w] - Keeps(pc[w][j]) - KeepsSecond(pc[w][j])
                 + Keeps(to) + KeepsSecond(to),
           requests' = requests, borrows' = borrows,
           held' \in [Sessions -> [Jobs -> Nat]], orphans' \subseteq Jobs,
           severed' \subseteq Workers \X Jobs,
           faults' \in 0..MaxFaults
    PROVE  PoolInv'
<1> USE BoundsAssumption DEF PoolInv
<1>1. /\ pc' \in [Workers -> [Jobs -> Places]]
      /\ Connections(w) \in Nat
      /\ Connections(w) >= Keeps(pc[w][j]) + KeepsSecond(pc[w][j])
      /\ Connections(w)' = Connections(w)
           - Keeps(pc[w][j]) - KeepsSecond(pc[w][j]) + Keeps(to) + KeepsSecond(to)
      /\ \A v \in Workers \ {w} : Connections(v)' = Connections(v)
    BY RunMoves
<1>2. lent[w] = Connections(w) + requests[w] /\ requests[w] \in Nat /\ lent[w] \in Nat
    BY DEF PoolAccounted, PoolTypes
<1>3. /\ Keeps(pc[w][j]) \in {0, 1} /\ Keeps(to) \in {0, 1}
      /\ KeepsSecond(pc[w][j]) \in {0, 1} /\ KeepsSecond(to) \in {0, 1}
    BY DEF Keeps, KeepsSecond
<1>4. lent'[w] = n
    BY DEF PoolTypes
<1>5. lent'[w] = Connections(w)' + requests'[w] /\ lent'[w] \in 0..PoolSize
  <2>1. /\ n = (Connections(w) - Keeps(pc[w][j]) - KeepsSecond(pc[w][j])
                  + Keeps(to) + KeepsSecond(to)) + requests[w]
        /\ n \in 0..PoolSize
    <3>1. PICK a \in {0, 1}, b \in {0, 1}, x \in {0, 1}, y \in {0, 1} :
              /\ a = Keeps(pc[w][j]) /\ b = KeepsSecond(pc[w][j])
              /\ x = Keeps(to) /\ y = KeepsSecond(to)
      BY <1>3
    <3>2. Connections(w) >= a + b /\ n = lent[w] - a - b + x + y
      BY <1>1, <3>1
    <3>3. PICK l \in Nat, c \in Nat, r \in Nat :
              l = lent[w] /\ c = Connections(w) /\ r = requests[w]
      BY <1>1, <1>2
    <3>4. l = c + r /\ c >= a + b /\ n = l - a - b + x + y
      BY <1>2, <3>2, <3>3
    <3>5. n = (c - a - b + x + y) + r /\ n \in 0..PoolSize
      BY <3>4, Balance
    <3> QED
      BY <3>1, <3>3, <3>5
  <2> QED
    BY <1>1, <1>4, <2>1
<1>6. PoolTypes'
    BY <1>1, <1>5 DEF PoolTypes
<1>7. PoolAccounted'
  <2> SUFFICES ASSUME NEW v \in Workers
               PROVE  lent'[v] = Connections(v)' + requests'[v]
    BY DEF PoolAccounted, Connections, HasConnection
  <2>1. CASE v = w
    BY <1>5, <2>1
  <2>2. CASE v # w
    BY <1>1, <2>2 DEF PoolAccounted, PoolTypes
  <2> QED
    BY <2>1, <2>2
<1> QED
    BY <1>6, <1>7

-----------------------------------------------------------------------------
(* The locks keep their types.                                             *)
LEMMA LocksTyped ==
    ASSUME PoolTypes, NEW S, S \subseteq Sessions
    PROVE  /\ ResetSession(S) => held' \in [Sessions -> [Jobs -> Nat]]
           /\ Abandon(S) => held' \in [Sessions -> [Jobs -> Nat]] /\ orphans' \subseteq Jobs
BY DEF PoolTypes, ResetSession, Resets, Abandon, Nothing

(* The sessions a job reaches are sessions.                                *)
LEMMA ReachIsSessions ==
    ASSUME NEW w \in Workers, NEW j \in Jobs
    PROVE  /\ Reach(w, j) \subseteq Sessions
           /\ ~Pooled => {<<w, j>>} \subseteq Sessions /\ {w} \X Jobs \subseteq Sessions
BY DEF Reach, Sessions

(* The steps of a run move it, and lend or take back what it keeps.        *)
LEMMA RunStep ==
    ASSUME PoolInv, NEW w \in Workers, NEW j \in Jobs,
           Tick(w, j) \/ Run(w, j) \/ LoadFails(w, j)
    PROVE  PoolInv'
<1>0. /\ pc[w] \in [Jobs -> Places] /\ lent[w] \in 0..PoolSize
      /\ lent = [lent EXCEPT ![w] = lent[w]]
      /\ held \in [Sessions -> [Jobs -> Nat]] /\ orphans \subseteq Jobs
      /\ faults \in 0..MaxFaults /\ severed \subseteq Workers \X Jobs
    BY DEF PoolInv, PoolTypes
<1>k. /\ \A p \in {"idle", "acquiring"} : Keeps(p) = 0 /\ KeepsSecond(p) = 0
      /\ \A p \in {"locking", "wantsModel", "working", "unlocking", "releasing"} :
            Keeps(p) = 1 /\ KeepsSecond(p) = 0
      /\ Keeps("loadsModel") = 1 /\ KeepsSecond("loadsModel") = 1
    BY DEF Keeps, KeepsSecond, HasConnection
<1>1. ASSUME NEW from, NEW to \in Places, Go(w, j, from, to),
             NEW n, lent' = [lent EXCEPT ![w] = n], n <= PoolSize,
             n = lent[w] - Keeps(from) - KeepsSecond(from) + Keeps(to) + KeepsSecond(to),
             held' \in [Sessions -> [Jobs -> Nat]],
             severed' \subseteq severed, faults' \in 0..MaxFaults,
             UNCHANGED <<orphans, requests, borrows>>
      PROVE  PoolInv'
  <2>1. pc[w][j] = from /\ pc' = [pc EXCEPT ![w][j] = to]
    BY <1>1 DEF Go
  <2> QED
    BY <1>0, <1>1, <2>1, RunAccounted
<1>2. CASE Tick(w, j)
  <2>1. Go(w, j, "idle", "acquiring") /\ UNCHANGED <<held, severed, orphans, lent, requests, borrows, faults>>
    BY <1>2 DEF Tick
  <2> QED
    BY <1>0, <1>k, <1>1, <2>1 DEF Places
<1>3. CASE Acquire(w, j)
  <2>1. /\ Go(w, j, "acquiring", "locking")
        /\ lent[w] < PoolSize /\ lent' = [lent EXCEPT ![w] = lent[w] + 1]
        /\ UNCHANGED <<held, severed, orphans, requests, borrows, faults>>
    BY <1>3 DEF Acquire, Take
  <2>2. lent[w] + 1 <= PoolSize
    BY <1>0, <2>1, BoundsAssumption
  <2>3. lent[w] + 1 = lent[w] - Keeps("acquiring") - KeepsSecond("acquiring")
                           + Keeps("locking") + KeepsSecond("locking")
    BY <1>0, <1>k, BoundsAssumption
  <2> QED
    BY <1>0, <1>1, <2>1, <2>2, <2>3 DEF Places
<1>4. CASE TryLock(w, j)
  <2>1. PICK s \in Sessions : held' = [held EXCEPT ![s][j] = held[s][j] + 1]
    BY <1>4, ReachIsSessions DEF TryLock
  <2>2. held[s][j] + 1 \in Nat
    BY <1>0
  <2>3. held' \in [Sessions -> [Jobs -> Nat]]
    BY <1>0, <2>1, <2>2
  <2>4. PICK to \in {"wantsModel", "working"} : Go(w, j, "locking", to)
    BY <1>4 DEF TryLock
  <2>5. UNCHANGED <<severed, orphans, lent, requests, borrows, faults>>
    BY <1>4 DEF TryLock
  <2> QED
    BY <1>0, <1>k, <1>1, <2>3, <2>4, <2>5 DEF Places
<1>5. CASE Skip(w, j)
  <2>1. Go(w, j, "locking", "releasing") /\ UNCHANGED <<held, severed, orphans, lent, requests, borrows, faults>>
    BY <1>5 DEF Skip
  <2> QED
    BY <1>0, <1>k, <1>1, <2>1 DEF Places
<1>6. CASE WantModel(w, j)
  <2>1. /\ Go(w, j, "wantsModel", "loadsModel")
        /\ lent[w] < PoolSize /\ lent' = [lent EXCEPT ![w] = lent[w] + 1]
        /\ UNCHANGED <<held, severed, orphans, requests, borrows, faults>>
    BY <1>6 DEF WantModel, Take
  <2>2. lent[w] + 1 <= PoolSize
    BY <1>0, <2>1, BoundsAssumption
  <2>3. lent[w] + 1 = lent[w] - Keeps("wantsModel") - KeepsSecond("wantsModel")
                           + Keeps("loadsModel") + KeepsSecond("loadsModel")
    BY <1>0, <1>k, BoundsAssumption
  <2> QED
    BY <1>0, <1>1, <2>1, <2>2, <2>3 DEF Places
<1>7. CASE LoadModel(w, j)
  <2>1. /\ Go(w, j, "loadsModel", "working")
        /\ lent' = [lent EXCEPT ![w] = lent[w] - 1]
        /\ UNCHANGED <<severed, orphans, requests, borrows, faults>>
    BY <1>7 DEF LoadModel, GiveBack
  <2>2. lent[w] - 1 <= PoolSize
    BY <1>0, BoundsAssumption
  <2>3. held' \in [Sessions -> [Jobs -> Nat]]
    BY <1>0, <1>7, LocksTyped DEF LoadModel, PoolInv
  <2>4. lent[w] - 1 = lent[w] - Keeps("loadsModel") - KeepsSecond("loadsModel")
                           + Keeps("working") + KeepsSecond("working")
    BY <1>0, <1>k, BoundsAssumption
  <2> QED
    BY <1>0, <1>1, <2>1, <2>2, <2>3, <2>4 DEF Places
<1>8. CASE Work(w, j)
  <2>1. Go(w, j, "working", "unlocking") /\ UNCHANGED <<held, severed, orphans, lent, requests, borrows, faults>>
    BY <1>8 DEF Work
  <2> QED
    BY <1>0, <1>k, <1>1, <2>1 DEF Places
<1>9. CASE Unlock(w, j)
  <2>1. PICK s \in Sessions :
            held' = [held EXCEPT ![s][j] = IF held[s][j] = 0 THEN 0 ELSE held[s][j] - 1]
    BY <1>9, ReachIsSessions DEF Unlock
  <2>2. PICK n \in Nat : n = IF held[s][j] = 0 THEN 0 ELSE held[s][j] - 1
    BY <1>0
  <2>3. held' \in [Sessions -> [Jobs -> Nat]]
    BY <1>0, <2>1, <2>2
  <2>4. Go(w, j, "unlocking", "releasing") /\ UNCHANGED <<severed, orphans, lent, requests, borrows, faults>>
    BY <1>9 DEF Unlock
  <2>5. lent' = [lent EXCEPT ![w] = lent[w]] /\ lent[w] <= PoolSize
    BY <1>0, <2>4, BoundsAssumption
  <2>6. lent[w] = lent[w] - Keeps("unlocking") - KeepsSecond("unlocking")
                       + Keeps("releasing") + KeepsSecond("releasing")
    BY <1>0, <1>k, BoundsAssumption
  <2>7. severed' \subseteq severed /\ faults' \in 0..MaxFaults
    BY <1>0, <2>4
  <2> QED
    BY <1>1, <2>3, <2>4, <2>5, <2>6, <2>7 DEF Places
<1>10. CASE Release(w, j)
  <2>1. /\ Go(w, j, "releasing", "idle")
        /\ lent' = [lent EXCEPT ![w] = lent[w] - 1]
        /\ severed' \subseteq severed
        /\ UNCHANGED <<orphans, requests, borrows, faults>>
    BY <1>10 DEF Release, GiveBack
  <2>2. lent[w] - 1 <= PoolSize
    BY <1>0, BoundsAssumption
  <2>3. held' \in [Sessions -> [Jobs -> Nat]]
    BY <1>0, <1>10, LocksTyped, ReachIsSessions DEF Release, PoolInv
  <2>4. lent[w] - 1 = lent[w] - Keeps("releasing") - KeepsSecond("releasing")
                           + Keeps("idle") + KeepsSecond("idle")
    BY <1>0, <1>k, BoundsAssumption
  <2> QED
    BY <1>0, <1>1, <2>1, <2>2, <2>3, <2>4 DEF Places
<1>11. CASE Raise(w, j)
  <2>1. PICK from \in {"locking", "working", "unlocking"} : Go(w, j, from, "releasing")
    BY <1>11 DEF Raise
  <2>2. UNCHANGED <<held, severed, orphans, lent, requests, borrows, faults>>
    BY <1>11 DEF Raise
  <2> QED
    BY <1>0, <1>k, <1>1, <2>1, <2>2 DEF Places
<1>12. CASE LoadFails(w, j)
  <2>1. /\ Go(w, j, "loadsModel", "unlocking")
        /\ lent' = [lent EXCEPT ![w] = lent[w] - 1]
        /\ UNCHANGED <<severed, orphans, requests, borrows>>
    BY <1>12 DEF LoadFails, GiveBack
  <2>2. lent[w] - 1 <= PoolSize
    BY <1>0, BoundsAssumption
  <2>3. held' \in [Sessions -> [Jobs -> Nat]]
    BY <1>0, <1>12, LocksTyped DEF LoadFails, ResetSession, PoolInv
  <2>4. lent[w] - 1 = lent[w] - Keeps("loadsModel") - KeepsSecond("loadsModel")
                           + Keeps("unlocking") + KeepsSecond("unlocking")
    BY <1>0, <1>k, BoundsAssumption
  <2>5. faults' \in 0..MaxFaults
    BY <1>12, BoundsAssumption DEF LoadFails, Fault, PoolInv, PoolTypes
  <2> QED
    BY <1>0, <1>1, <2>1, <2>2, <2>3, <2>4, <2>5 DEF Places
<1> QED
    BY <1>2, <1>3, <1>4, <1>5, <1>6, <1>7, <1>8, <1>9, <1>10, <1>11, <1>12 DEF Run

(* A run that loses its connection still keeps its place in the pool.      *)
LEMMA LossStep ==
    ASSUME PoolInv, NEW w \in Workers, NEW j \in Jobs, LoseConnection(w, j)
    PROVE  PoolInv'
<1>1. held' \in [Sessions -> [Jobs -> Nat]] /\ orphans' \subseteq Jobs
  <2>1. Abandon({<<w, j>>})
    BY DEF LoseConnection
  <2>2. CASE Pooled
    BY <2>1, <2>2 DEF Abandon, PoolInv, PoolTypes
  <2>3. CASE ~Pooled
    BY <2>1, <2>3, LocksTyped, ReachIsSessions DEF PoolInv
  <2> QED
    BY <2>2, <2>3
<1>2. faults' \in 0..MaxFaults
    BY BoundsAssumption DEF LoseConnection, Fault, PoolInv, PoolTypes
<1>3. severed' \subseteq Workers \X Jobs /\ UNCHANGED <<pc, lent, requests, borrows>>
    BY DEF LoseConnection, PoolInv, PoolTypes
<1>4. PoolTypes'
    BY <1>1, <1>2, <1>3 DEF PoolInv, PoolTypes
<1>5. PoolAccounted'
    BY <1>3 DEF PoolInv, PoolAccounted, Connections, HasConnection
<1> QED
    BY <1>4, <1>5 DEF PoolInv

(* Requests take one connection each and give it back.                     *)
LEMMA RequestStep ==
    ASSUME PoolInv, NEW w \in Workers, Borrow(w) \/ Return(w)
    PROVE  PoolInv'
<1> USE BoundsAssumption
<1>1. pc' = pc /\ severed' = severed /\ orphans' = orphans /\ faults' = faults
    BY DEF Borrow, Return
<1>2. \A v \in Workers : Connections(v)' = Connections(v)
    BY <1>1 DEF Connections, HasConnection
<1>3. held' \in [Sessions -> [Jobs -> Nat]]
    BY LocksTyped DEF Borrow, Return, PoolInv, PoolTypes
<1>4. borrows' \in 0..MaxBorrows
    BY DEF Borrow, Return, PoolInv, PoolTypes
<1>5. \A v \in Workers : Connections(v) \in Nat
  <2> TAKE v \in Workers
  <2> DEFINE A == {i \in Jobs : pc[v][i] \in HasConnection}
             C == {i \in Jobs : pc[v][i] = "loadsModel"}
  <2>1. IsFiniteSet(A) /\ IsFiniteSet(C)
    BY FS_Subset, JobsAssumption
  <2>2. Cardinality(A) \in Nat /\ Cardinality(C) \in Nat
    BY <2>1, FS_CardinalityType
  <2> QED
    BY <2>2 DEF Connections
<1>6. /\ lent' \in [Workers -> 0..PoolSize] /\ requests' \in [Workers -> Nat]
      /\ \A v \in Workers : lent'[v] = Connections(v) + requests'[v]
  <2>1. CASE Borrow(w)
    BY <1>5, <2>1 DEF Borrow, Take, PoolInv, PoolTypes, PoolAccounted
  <2>2. CASE Return(w)
    BY <1>5, <2>2 DEF Return, GiveBack, PoolInv, PoolTypes, PoolAccounted
  <2> QED
    BY <2>1, <2>2
<1>7. PoolTypes'
    BY <1>1, <1>3, <1>4, <1>6 DEF PoolInv, PoolTypes
<1>8. PoolAccounted'
    BY <1>2, <1>6 DEF PoolAccounted
<1> QED
    BY <1>7, <1>8 DEF PoolInv

(* A fresh process has lent nothing.                                       *)
LEMMA CrashStep ==
    ASSUME PoolInv, NEW w \in Workers, Crash(w)
    PROVE  PoolInv'
<1> USE BoundsAssumption
<1>1. /\ pc' = [pc EXCEPT ![w] = [j \in Jobs |-> "idle"]]
      /\ lent' = [lent EXCEPT ![w] = 0]
      /\ requests' = [requests EXCEPT ![w] = 0]
      /\ borrows' = borrows /\ faults' \in 0..MaxFaults
      /\ severed' \subseteq severed
    BY DEF Crash, Fault, PoolInv, PoolTypes
<1>2. held' \in [Sessions -> [Jobs -> Nat]] /\ orphans' \subseteq Jobs
  <2>1. Abandon({w} \X Jobs)
    BY DEF Crash
  <2>2. CASE Pooled
    BY <2>1, <2>2 DEF Abandon, PoolInv, PoolTypes
  <2>3. CASE ~Pooled
    <3>1. {w} \X Jobs \subseteq Sessions
      BY <2>3 DEF Sessions
    <3> QED
      BY <2>1, <3>1, LocksTyped DEF PoolInv
  <2> QED
    BY <2>2, <2>3
<1>3. PoolTypes'
    BY <1>1, <1>2 DEF PoolInv, PoolTypes, Places
<1>4. ASSUME NEW v \in Workers
      PROVE  lent'[v] = Connections(v)' + requests'[v]
  <2>1. CASE v = w
    <3> DEFINE A == {i \in Jobs : pc'[w][i] \in HasConnection}
               C == {i \in Jobs : pc'[w][i] = "loadsModel"}
    <3>1. A = {} /\ C = {}
      BY <1>1 DEF HasConnection, PoolInv, PoolTypes
    <3>2. Cardinality(A) = 0 /\ Cardinality(C) = 0
      BY <3>1, FS_EmptySet
    <3>3. Connections(w)' = Cardinality(A) + Cardinality(C)
      BY DEF Connections, HasConnection
    <3>4. lent'[w] = 0 /\ requests'[w] = 0
      BY <1>1 DEF PoolInv, PoolTypes
    <3> QED
      BY <2>1, <3>2, <3>3, <3>4
  <2>2. CASE v # w
    <3>1. pc'[v] = pc[v] /\ lent'[v] = lent[v] /\ requests'[v] = requests[v]
      BY <1>1, <2>2 DEF PoolInv, PoolTypes
    <3>2. Connections(v)' = Connections(v)
      BY <3>1 DEF Connections, HasConnection
    <3> QED
      BY <3>1, <3>2 DEF PoolInv, PoolAccounted
  <2> QED
    BY <2>1, <2>2
<1>5. PoolAccounted'
    BY <1>4 DEF PoolAccounted
<1> QED
    BY <1>3, <1>5 DEF PoolInv

(* The initial states satisfy the invariant.                               *)
LEMMA InitPoolInv == Init => PoolInv
<1> SUFFICES ASSUME Init PROVE PoolInv
    OBVIOUS
<1>1. PoolTypes
    BY BoundsAssumption DEF Init, PoolTypes, Places, Nothing
<1>2. ASSUME NEW w \in Workers
      PROVE  lent[w] = Connections(w) + requests[w]
  <2>1. /\ {i \in Jobs : pc[w][i] \in HasConnection} = {}
        /\ {i \in Jobs : pc[w][i] = "loadsModel"} = {}
    BY DEF Init, HasConnection
  <2>2. Cardinality({}) = 0
    BY FS_EmptySet
  <2> QED
    BY <2>1, <2>2 DEF Init, Connections
<1> QED
    BY <1>1, <1>2 DEF PoolInv, PoolAccounted

(* The invariant holds in every reachable state.                           *)
LEMMA PoolInvariance == Spec => []PoolInv
<1>1. PoolInv /\ [Next]_vars => PoolInv'
  <2> SUFFICES ASSUME PoolInv, [Next]_vars PROVE PoolInv'
    OBVIOUS
  <2>1. ASSUME NEW j \in Jobs, ServerNotices(j)
        PROVE  PoolInv'
    BY <2>1 DEF ServerNotices, PoolInv, PoolTypes, PoolAccounted, Connections, HasConnection
  <2>2. CASE UNCHANGED vars
    BY <2>2 DEF vars, PoolInv, PoolTypes, PoolAccounted, Connections, HasConnection
  <2> QED
    BY <2>1, <2>2, RunStep, LossStep, RequestStep, CrashStep DEF Next
<1> QED
    BY <1>1, InitPoolInv, PTL DEF Spec

(***************************************************************************)
(* The connections in use are those of the runs and of the requests: a run *)
(* that is skipped, fails or loses its connection gives back what it took, *)
(* once (fusion/service.py:280-291, 445-521).                              *)
(***************************************************************************)
THEOREM NothingLeaks == Spec => []PoolAccounted
<1>1. PoolInv => PoolAccounted
    BY DEF PoolInv
<1> QED
    BY <1>1, PoolInvariance, PTL

(***************************************************************************)
(* No more is lent than the pool has, and no more is given back than was   *)
(* lent; the other variables have their types.                             *)
(***************************************************************************)
THEOREM TypeCorrect == Spec => []TypeOK
<1>1. ASSUME PoolInv PROVE TypeOK
  <2>1. ASSUME NEW w \in Workers
        PROVE  requests[w] \in 0..PoolSize
    <3> DEFINE A == {i \in Jobs : pc[w][i] \in HasConnection}
               C == {i \in Jobs : pc[w][i] = "loadsModel"}
    <3>1. IsFiniteSet(A) /\ IsFiniteSet(C)
      BY FS_Subset, JobsAssumption
    <3>2. Cardinality(A) \in Nat /\ Cardinality(C) \in Nat
      BY <3>1, FS_CardinalityType
    <3>3. Connections(w) \in Nat
      BY <3>2 DEF Connections
    <3> QED
      BY <1>1, <3>3, BoundsAssumption DEF PoolInv, PoolTypes, PoolAccounted
  <2> QED
    BY <1>1, <2>1 DEF PoolInv, PoolTypes, TypeOK
<1> QED
    BY <1>1, PoolInvariance, PTL
=============================================================================
