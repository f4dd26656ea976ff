-------------------------- MODULE LifecycleProofs --------------------------
(***************************************************************************)
(* What holds of any number of processes, jobs and clients, of a pool of   *)
(* any size, any migrations, and however often the database goes away and  *)
(* processes crash and start again.                                        *)
(***************************************************************************)
EXTENDS Lifecycle, FiniteSetTheorems, TLAPS

\* The variables are functions of their types; TypeOK without its counting.
Types ==
    /\ phase \in [Workers -> Phases]
    /\ pool \in [Workers -> {"none", "open", "closing", "closed"}]
    /\ file \in [Workers -> 1..Files + 1]
    /\ clash \subseteq Workers
    /\ applied \subseteq 1..Files
    /\ scheduler \in [Workers -> {"none", "running", "stopping"}]
    /\ job \in [Workers -> [Jobs -> JobPlaces]]
    /\ request \in [Workers -> [Clients -> {"none", "waiting", "connected"}]]
    /\ reachable \in BOOLEAN
    /\ health \in [code : {200, 503}, reachable : BOOLEAN]
    /\ asked \in 0..MaxRequests /\ faults \in 0..MaxFaults

\* The phases in which the application is up, or was.
Up == {"serving", "draining", "closing", "stopped"}

\* What is applied is a prefix of the files which no process is ahead of.
SchemaGrows ==
    /\ \E n \in 0..Files : applied = 1..n
    /\ ~Development => applied = 1..Files
    /\ \A w \in Workers :
        /\ \A f \in 1..Files : f < file[w] => f \in applied
        /\ phase[w] = "inFile" => file[w] <= Files
        /\ phase[w] \in Up => applied = 1..Files

\* What may still run in a process, by the phase of its lifespan.
Winding(w) ==
    /\ phase[w] \notin Up => job[w] = Quiet /\ request[w] = NoRequest
    /\ phase[w] \in {"closing", "stopped"} => request[w] = NoRequest
    /\ phase[w] = "stopped" => scheduler[w] = "none" /\ job[w] = Quiet
    /\ phase[w] \in {"down", "migrating", "inFile"} => scheduler[w] = "none"
    /\ phase[w] \in {"serving", "draining"} /\ Jobs # {} => scheduler[w] = "running"
    /\ phase[w] = "closing" => scheduler[w] # "running"
    /\ phase[w] = "closing" /\ scheduler[w] = "none" =>
        \A j \in Jobs : job[w][j] \in {"idle", "cancelled"}
    /\ pool[w] = "none" => phase[w] = "down"
    /\ pool[w] = "closed" => phase[w] = "stopped"

WindsDown == \A w \in Workers : Winding(w)

IInv == Types /\ SchemaGrows /\ WindsDown

-----------------------------------------------------------------------------
(* A step of a run moves one job from one place to another.                *)
LEMMA RunSteps ==
    ASSUME Types, NEW w \in Workers, NEW j \in Jobs, Tick(w, j) \/ RunStep(w, j)
    PROVE  /\ \E to \in JobPlaces : job' = [job EXCEPT ![w][j] = to]
           /\ UNCHANGED jobUnchanged
           /\ job[w][j] = "idle" => scheduler[w] \in {"running", "stopping"}
           /\ job[w][j] = "cancelled" => job'[w][j] = "idle"
BY DEF Types, Tick, RunStep, Acquire, AcquireRaises, UseConnection, AcquireSecond,
    LoadModel, EndRun, JobGo, JobPlaces, Holding

(* The variables keep their types.                                         *)
LEMMA TypesStep ==
    ASSUME Types, SchemaGrows, [Next]_vars
    PROVE  Types'
<1>8. ASSUME NEW w \in Workers, NEW j \in Jobs, Tick(w, j) \/ RunStep(w, j)
      PROVE  Types'
  <2>1. PICK to \in JobPlaces : job' = [job EXCEPT ![w][j] = to]
    BY <1>8, RunSteps
  <2>2. UNCHANGED jobUnchanged
    BY <1>8, RunSteps
  <2>3. job' \in [Workers -> [Jobs -> JobPlaces]]
    BY <2>1 DEF Types
  <2> QED
    BY <2>2, <2>3 DEF Types, jobUnchanged, startVars, worldVars
<1> USE BoundsAssumption DEF Types, Phases, startVars, workVars, worldVars
<1>0. ASSUME NEW w \in Workers, Vanish(w), faults' \in 0..MaxFaults
      PROVE  Types'
    BY <1>0 DEF Vanish, Quiet, NoRequest, JobPlaces
<1>1. ASSUME NEW w \in Workers, CreatePool(w) \/ BeginFile(w) \/ Terminate(w)
      PROVE  Types'
  <2>1. CASE CreatePool(w)
    BY <2>1 DEF CreatePool, Go
  <2>2. CASE BeginFile(w)
    BY <2>2 DEF BeginFile, Go
  <2>3. CASE Terminate(w)
    BY <2>3 DEF Terminate, Go
  <2> QED
    BY <1>1, <2>1, <2>2, <2>3
<1>2. ASSUME NEW w \in Workers, CommitFile(w)
      PROVE  Types'
  <2>1. file[w] \in 1..Files
    BY <1>2 DEF CommitFile, Apply, Go, SchemaGrows
  <2>2. /\ phase' = [phase EXCEPT ![w] = "migrating"]
        /\ applied' = applied \union {file[w]}
        /\ clash' \subseteq Workers
        /\ file' = [file EXCEPT ![w] = file[w] + 1]
        /\ UNCHANGED <<pool, scheduler, workVars, health, worldVars>>
    BY <1>2 DEF CommitFile, Apply, Go
  <2>3. applied' \subseteq 1..Files
    <3>1. applied' = applied \union {file[w]} /\ applied \subseteq 1..Files
      BY <2>2
    <3> HIDE DEF Types
    <3> QED
      BY <2>1, <3>1
  <2>4. PICK n \in 1..Files + 1 : n = file[w] + 1
    BY <2>1
  <2>5. file' = [file EXCEPT ![w] = n]
    BY <2>2, <2>4
  <2>6. file' \in [Workers -> 1..Files + 1]
    BY <2>5
  <2> QED
    BY <2>2, <2>3, <2>6
<1>3. ASSUME NEW w \in Workers, FileClashes(w) \/ StartFails(w) \/ Crash(w)
      PROVE  Types'
  <2>1. faults' \in 0..MaxFaults
    BY <1>3 DEF FileClashes, StartFails, Crash, Fault
  <2> QED
    BY <1>0, <1>3, <2>1 DEF FileClashes, StartFails, Crash
<1>4. ASSUME NEW w \in Workers, StartScheduler(w)
      PROVE  Types'
    BY <1>4 DEF StartScheduler, Serve, Go
<1>5. ASSUME NEW w \in Workers, StopScheduler(w)
      PROVE  Types'
    BY <1>5 DEF StopScheduler, Stop, Go
<1>6. ASSUME NEW w \in Workers, CancelJobs(w)
      PROVE  Types'
    BY <1>6 DEF CancelJobs, JobPlaces, Holding
<1>7. ASSUME NEW w \in Workers, ClosePool(w)
      PROVE  Types'
    BY <1>7 DEF ClosePool, Go
<1>9. ASSUME NEW w \in Workers, NEW c \in Clients, Ask(w, c) \/ Handle(w, c)
      PROVE  Types'
  <2>1. CASE Ask(w, c)
    BY <2>1 DEF Ask, RequestGo
  <2>2. CASE Connect(w, c)
    BY <2>2 DEF Connect, RequestGo
  <2>3. CASE Answer(w, c)
    <3>1. health' \in [code : {200, 503}, reachable : BOOLEAN]
      BY <2>3 DEF Answer, Reply
    <3>2. request' = [request EXCEPT ![w][c] = "none"]
      BY <2>3 DEF Answer, RequestGo
    <3> QED
      BY <2>3, <3>1, <3>2 DEF Answer
  <2> QED
    BY <1>9, <2>1, <2>2, <2>3 DEF Handle
<1>10. CASE Outage \/ Recover
  <2>1. reachable' \in BOOLEAN
    BY <1>10, Zenon DEF Outage, Recover
  <2>2. faults' \in 0..MaxFaults
    BY <1>10 DEF Outage, Recover, Fault
  <2>3. UNCHANGED <<phase, pool, file, clash, applied, scheduler, job, request, health, asked>>
    BY <1>10 DEF Outage, Recover
  <2> QED
    BY <2>1, <2>2, <2>3
<1>11. CASE UNCHANGED vars
    BY <1>11 DEF vars
<1> QED
    BY <1>1, <1>2, <1>3, <1>4, <1>5, <1>6, <1>7, <1>8, <1>9, <1>10, <1>11
    DEF Next, Lifespan

(* A process that goes back, stays where it is, or passes a test, is not   *)
(* ahead of what is applied.                                               *)
LEMMA SchemaKept ==
    ASSUME Types, SchemaGrows, applied' = applied,
           \A v \in Workers :
               \/ file'[v] = 1 /\ phase'[v] = "down"
               \/ /\ file'[v] = file[v]
                  /\ phase'[v] = "inFile" => file[v] <= Files
                  /\ phase'[v] \in Up => applied = 1..Files
    PROVE  SchemaGrows'
<1> USE BoundsAssumption DEF Types
<1>1. ASSUME NEW v \in Workers
      PROVE  /\ \A f \in 1..Files : f < file'[v] => f \in applied
             /\ phase'[v] = "inFile" => file'[v] <= Files
             /\ phase'[v] \in Up => applied = 1..Files
    BY DEF SchemaGrows, Up
<1>2. \A v \in Workers :
        /\ \A f \in 1..Files : f < file'[v] => f \in applied'
        /\ phase'[v] = "inFile" => file'[v] <= Files
        /\ phase'[v] \in Up => applied' = 1..Files
    BY <1>1
<1> QED
    BY <1>2 DEF SchemaGrows, Up

(* Migrations are applied in order, and no process is ahead of them.       *)
LEMMA SchemaStep ==
    ASSUME Types, SchemaGrows, [Next]_vars
    PROVE  SchemaGrows'
<1>b. /\ applied' = applied
      /\ \A v \in Workers :
           \/ file'[v] = 1 /\ phase'[v] = "down"
           \/ /\ file'[v] = file[v]
              /\ phase'[v] = "inFile" => file[v] <= Files
              /\ phase'[v] \in Up => applied = 1..Files
      => SchemaGrows'
    BY SchemaKept
<1>a. \A w \in Workers, j \in Jobs : Tick(w, j) \/ RunStep(w, j) =>
        /\ \E to \in JobPlaces : job' = [job EXCEPT ![w][j] = to]
        /\ UNCHANGED jobUnchanged
        /\ job[w][j] = "idle" => scheduler[w] \in {"running", "stopping"}
        /\ job[w][j] = "cancelled" => job'[w][j] = "idle"
    BY RunSteps
<1> USE BoundsAssumption, DevelopmentAssumption DEF Types, startVars, workVars, worldVars
<1>1. ASSUME NEW w \in Workers, CreatePool(w) \/ BeginFile(w)
      PROVE  SchemaGrows'
    BY <1>1, <1>b DEF CreatePool, BeginFile, Go, SchemaGrows, Up
<1>2. ASSUME NEW w \in Workers, CommitFile(w)
      PROVE  SchemaGrows'
  <2> DEFINE f == file[w]
  <2>1. f \in 1..Files
    BY <1>2 DEF CommitFile, Apply, Go, SchemaGrows
  <2>2. PICK n \in 0..Files : applied = 1..n
    BY DEF SchemaGrows
  <2>3. f <= n + 1
    <3>1. \A g \in 1..Files : g < f => g \in 1..n
      BY <2>2 DEF SchemaGrows
    <3> QED
      BY <2>1, <3>1
  <2>4. /\ applied' = applied \union {f}
        /\ file' = [file EXCEPT ![w] = f + 1]
        /\ phase' = [phase EXCEPT ![w] = "migrating"]
    BY <1>2 DEF CommitFile, Apply, Go
  <2>5. \E m \in 0..Files : applied' = 1..m
    <3>1. CASE f <= n
      BY <2>1, <2>2, <2>4, <3>1
    <3>2. CASE f = n + 1
      <4>1. applied' = 1..n + 1
        BY <2>2, <2>4, <3>2
      <4> QED
        BY <2>1, <3>2, <4>1
    <3> QED
      BY <2>1, <2>3, <3>1, <3>2
  <2>6. applied = 1..Files => applied' = 1..Files
    BY <2>1, <2>4
  <2>7. ASSUME NEW v \in Workers
        PROVE  /\ \A g \in 1..Files : g < file'[v] => g \in applied'
               /\ phase'[v] = "inFile" => file'[v] <= Files
               /\ phase'[v] \in Up => applied' = 1..Files
    <3>1. CASE v = w
      BY <2>1, <2>4, <3>1 DEF SchemaGrows, Up
    <3>2. CASE v # w
      BY <2>4, <2>6, <3>2 DEF SchemaGrows
    <3> QED
      BY <3>1, <3>2
  <2> QED
    BY <2>5, <2>6, <2>7 DEF SchemaGrows
<1>3. ASSUME NEW w \in Workers, FileClashes(w) \/ StartFails(w) \/ Crash(w)
      PROVE  SchemaGrows'
  <2>1. Vanish(w)
    BY <1>3 DEF FileClashes, StartFails, Crash
  <2> QED
    BY <2>1, <1>b DEF Vanish, SchemaGrows
<1>4. ASSUME NEW w \in Workers, StartScheduler(w)
      PROVE  SchemaGrows'
  <2>1. applied = 1..Files
    <3>1. CASE Development
      <4>1. file[w] > Files
        BY <1>4, <3>1 DEF StartScheduler
      <4>2. 1..Files \subseteq applied
        BY <4>1 DEF SchemaGrows
      <4> QED
        BY <4>2
    <3>2. CASE ~Development
      BY <3>2 DEF SchemaGrows
    <3> QED
      BY <3>1, <3>2
  <2>2. phase' = [phase EXCEPT ![w] = "serving"] /\ UNCHANGED <<file, applied>>
    BY <1>4 DEF StartScheduler, Serve, Go
  <2> QED
    BY <2>1, <2>2, <1>b DEF SchemaGrows
<1>5. ASSUME NEW w \in Workers, Terminate(w) \/ StopScheduler(w) \/ ClosePool(w)
      PROVE  SchemaGrows'
    BY <1>5, <1>b DEF Terminate, StopScheduler, Stop, ClosePool, Go, SchemaGrows, Up
<1>6. ASSUME UNCHANGED <<phase, file, applied>>
      PROVE  SchemaGrows'
    BY <1>6, <1>b DEF SchemaGrows
<1>7. ASSUME NEW w \in Workers, NEW j \in Jobs, Tick(w, j) \/ RunStep(w, j)
      PROVE  SchemaGrows'
    BY <1>6, <1>7, <1>a DEF jobUnchanged
<1>8. ASSUME NEW w \in Workers, NEW c \in Clients, Ask(w, c) \/ Handle(w, c)
      PROVE  SchemaGrows'
    BY <1>6, <1>8 DEF Ask, Handle, Connect, Answer
<1>9. ASSUME NEW w \in Workers, CancelJobs(w)
      PROVE  SchemaGrows'
    BY <1>6, <1>9 DEF CancelJobs
<1>10. CASE Outage \/ Recover \/ UNCHANGED vars
    BY <1>6, <1>10 DEF Outage, Recover, vars
<1> QED
    BY <1>1, <1>2, <1>3, <1>4, <1>5, <1>7, <1>8, <1>9, <1>10 DEF Next, Lifespan

-----------------------------------------------------------------------------
(* A process the step leaves alone winds down as before.                   *)
LEMMA OthersWind ==
    ASSUME NEW v \in Workers, Winding(v),
           phase'[v] = phase[v], pool'[v] = pool[v], scheduler'[v] = scheduler[v],
           job'[v] = job[v], request'[v] = request[v]
    PROVE  Winding(v)'
BY DEF Winding, Quiet, NoRequest, Up, Holding

(* When nothing is lent, no run holds a connection.                        *)
LEMMA NothingLent ==
    ASSUME NEW w \in Workers, Lent(w) = 0
    PROVE  \A j \in Jobs : job[w][j] \notin Holding
<1> DEFINE one == {j \in Jobs : job[w][j] \in Holding}
           two == {j \in Jobs : job[w][j] = "two"}
           handlers == {c \in Clients : request[w][c] = "connected"}
<1>1. IsFiniteSet(one) /\ IsFiniteSet(two) /\ IsFiniteSet(handlers)
    BY FS_Subset, JobsAssumption, ClientsAssumption
<1>2. Cardinality(one) \in Nat /\ Cardinality(two) \in Nat /\ Cardinality(handlers) \in Nat
    BY <1>1, FS_CardinalityType
<1>3. Cardinality(one) + Cardinality(two) + Cardinality(handlers) = 0
    BY DEF Lent
<1> HIDE DEF one, two, handlers
<1>4. Cardinality(one) = 0
    BY <1>2, <1>3
<1>5. one = {}
    BY <1>1, <1>4, FS_EmptySet
<1> QED
    BY <1>5 DEF one

(* The posted shutdown leaves nothing but runs that are cancelled.         *)
LEMMA CancelWinds ==
    ASSUME Types, NEW w \in Workers, NEW v \in Workers, Winding(v), CancelJobs(w)
    PROVE  Winding(v)'
<1>1. /\ UNCHANGED <<phase, pool, request>>
      /\ scheduler[w] = "stopping"
      /\ scheduler' = [scheduler EXCEPT ![w] = "none"]
      /\ job' = [job EXCEPT ![w] =
             [j \in Jobs |-> IF job[w][j] \in Holding THEN "cancelled" ELSE "idle"]]
    BY DEF CancelJobs
<1>2. CASE v # w
  <2>1. job'[v] = job[v] /\ scheduler'[v] = scheduler[v]
    BY <1>1, <1>2 DEF Types
  <2> QED
    BY <1>1, <2>1 DEF Winding
<1>3. CASE v = w
  <2>1. \A j \in Jobs : job'[v][j] \in {"idle", "cancelled"}
    BY <1>1, <1>3 DEF Types
  <2>2. scheduler[v] = "stopping" /\ scheduler'[v] = "none"
    BY <1>1, <1>3 DEF Types
  <2>3. phase[v] \in {"serving", "draining", "closing"}
    BY <2>2 DEF Winding, Types, Phases
  <2>4. CASE Jobs # {}
    <3>1. phase[v] = "closing" /\ pool[v] # "closed" /\ pool[v] # "none"
      BY <2>2, <2>3, <2>4 DEF Winding
    <3> QED
      BY <1>1, <2>1, <2>2, <3>1 DEF Winding, Up
  <2>5. CASE Jobs = {}
    BY <1>1, <2>1, <2>2, <2>3, <2>5 DEF Winding, Up
  <2> QED
    BY <2>4, <2>5
<1> QED
  BY <1>2, <1>3

(* A step of a run is taken where the phase has room for it.               *)
LEMMA RunWinds ==
    ASSUME Types, NEW w \in Workers, NEW v \in Workers, Winding(v),
           NEW j \in Jobs, Tick(w, j) \/ RunStep(w, j)
    PROVE  Winding(v)'
<1>1. PICK to \in JobPlaces : job' = [job EXCEPT ![w][j] = to]
  BY RunSteps
<1>2. /\ UNCHANGED <<phase, pool, scheduler, request>>
      /\ job[w][j] = "idle" => scheduler[w] \in {"running", "stopping"}
      /\ job[w][j] = "cancelled" => job'[w][j] = "idle"
  BY RunSteps DEF jobUnchanged
<1>3. CASE v # w
  <2>1. job'[v] = job[v]
    BY <1>1, <1>3 DEF Types
  <2> QED
    BY <1>2, <2>1 DEF Winding
<1>4. CASE v = w
  <2>1. job[v] # Quiet \/ scheduler[v] # "none"
    BY <1>2, <1>4 DEF Quiet
  <2>2. phase[v] \in Up /\ phase[v] # "stopped"
    BY <2>1 DEF Winding, Types, Phases, Up
  <2>3. \A i \in Jobs : i # j => job'[v][i] = job[v][i]
    BY <1>1, <1>4 DEF Types
  <2>4. ASSUME phase[v] = "closing", scheduler[v] = "none"
        PROVE  \A i \in Jobs : job'[v][i] \in {"idle", "cancelled"}
    <3>1. \A i \in Jobs : job[v][i] \in {"idle", "cancelled"}
      BY <2>4 DEF Winding
    <3>2. job'[v][j] \in {"idle", "cancelled"}
      BY <3>1, <2>4, <1>2, <1>4
    <3> QED
      BY <3>1, <3>2, <2>3
  <2> QED
    BY <1>2, <2>2, <2>4 DEF Winding
<1> QED
  BY <1>3, <1>4

(* What runs in a process fits the phase of its lifespan.                  *)
LEMMA WindStep ==
    ASSUME Types, WindsDown, [Next]_vars
    PROVE  WindsDown'
<1> SUFFICES ASSUME NEW v \in Workers PROVE Winding(v)'
    BY DEF WindsDown
<1>0. Winding(v)
    BY DEF WindsDown
<1>5. ASSUME NEW w \in Workers, CancelJobs(w)
      PROVE  Winding(v)'
    BY <1>0, <1>5, CancelWinds
<1>7. ASSUME NEW w \in Workers, NEW j \in Jobs, Tick(w, j) \/ RunStep(w, j)
      PROVE  Winding(v)'
    BY <1>0, <1>7, RunWinds
<1> USE DEF Types, startVars, workVars, worldVars, Up, Quiet, NoRequest
<1>1. ASSUME NEW w \in Workers, CreatePool(w) \/ BeginFile(w) \/ CommitFile(w)
      PROVE  Winding(v)'
    BY <1>0, <1>1 DEF Winding, CreatePool, BeginFile, CommitFile, Apply, Go
<1>2. ASSUME NEW w \in Workers, FileClashes(w) \/ StartFails(w) \/ Crash(w)
      PROVE  Winding(v)'
  <2>1. Vanish(w)
    BY <1>2 DEF FileClashes, StartFails, Crash
  <2> QED
    BY <1>0, <2>1 DEF Vanish, Winding
<1>3. ASSUME NEW w \in Workers, StartScheduler(w) \/ Terminate(w)
      PROVE  Winding(v)'
    BY <1>0, <1>3 DEF Winding, StartScheduler, Serve, Terminate, Go
<1>4. ASSUME NEW w \in Workers, StopScheduler(w)
      PROVE  Winding(v)'
    BY <1>0, <1>4 DEF Winding, StopScheduler, Stop, Go
<1>6. ASSUME NEW w \in Workers, ClosePool(w)
      PROVE  Winding(v)'
    BY <1>0, <1>6, NothingLent DEF Winding, ClosePool, Go, Holding, JobPlaces
<1>8. ASSUME NEW w \in Workers, NEW c \in Clients, Ask(w, c) \/ Handle(w, c)
      PROVE  Winding(v)'
    BY <1>0, <1>8 DEF Winding, Ask, Handle, Connect, Answer, RequestGo
<1>9. CASE Outage \/ Recover \/ UNCHANGED vars
    BY <1>0, <1>9, OthersWind DEF Outage, Recover, vars
<1> QED
    BY <1>1, <1>2, <1>3, <1>4, <1>5, <1>6, <1>7, <1>8, <1>9 DEF Next, Lifespan

-----------------------------------------------------------------------------
(* The initial states satisfy the invariant.                               *)
LEMMA InitIInv == Init => IInv
<1> SUFFICES ASSUME Init PROVE IInv
    OBVIOUS
<1> USE BoundsAssumption, DevelopmentAssumption DEF Init
<1>1. \E n \in 0..Files : applied = 1..n
  <2>1. CASE Development
    BY <2>1
  <2>2. CASE ~Development
    BY <2>2
  <2> QED
    BY <2>1, <2>2
<1>2. Types
    BY <1>1 DEF Types, Phases, Quiet, NoRequest, JobPlaces
<1>3. SchemaGrows
    BY <1>1 DEF SchemaGrows, Up
<1>4. WindsDown
    BY DEF WindsDown, Winding, Up
<1> QED
    BY <1>2, <1>3, <1>4 DEF IInv

(* The invariant holds in every reachable state.                           *)
LEMMA Invariance == Spec => []IInv
<1>1. IInv /\ [Next]_vars => IInv'
    BY TypesStep, SchemaStep, WindStep DEF IInv
<1> QED
    BY <1>1, InitIInv, PTL DEF Spec

(***************************************************************************)
(* Handlers and jobs meet the complete schema only, however many processes *)
(* start, fail and start again on one database (main.py:18-42,             *)
(* database.py:61-77).                                                     *)
(***************************************************************************)
THEOREM CompleteSchema == Spec => []WorksOnCompleteSchema
<1>1. IInv => WorksOnCompleteSchema
    BY DEF IInv, SchemaGrows, WindsDown, Winding, WorksOnCompleteSchema
<1> QED
    BY <1>1, Invariance, PTL

(***************************************************************************)
(* No migration is applied before the ones it builds on, whichever process *)
(* applies it (database.py:67-77).                                         *)
(***************************************************************************)
THEOREM MigrationsInOrder == Spec => []AppliedInOrder
<1>1. ASSUME SchemaGrows PROVE AppliedInOrder
  <2>1. PICK n \in 0..Files : applied = 1..n
    BY <1>1 DEF SchemaGrows
  <2>2. Cardinality(1..n) = n
    BY <2>1, FS_Interval, BoundsAssumption
  <2> QED
    BY <2>1, <2>2 DEF AppliedInOrder
<1> QED
    BY <1>1, Invariance, PTL DEF IInv

(***************************************************************************)
(* When the pool is closed nothing of the process still runs or is due,    *)
(* though the jobs are cancelled only after stop_scheduler has returned    *)
(* (main.py:37-41, scheduler.py:76-82).                                    *)
(***************************************************************************)
THEOREM QuietWhenStopped == Spec => []StoppedIsQuiet
<1>1. IInv => StoppedIsQuiet
    BY DEF IInv, WindsDown, Winding, StoppedIsQuiet, Up
<1> QED
    BY <1>1, Invariance, PTL

-----------------------------------------------------------------------------
\* What Lent counts.
Held(w) == {j \in Jobs : job[w][j] \in Holding}
Doubled(w) == {j \in Jobs : job[w][j] = "two"}
Served(w) == {c \in Clients : request[w][c] = "connected"}

\* The connections a run keeps at a place.
Keeps(place) == IF place = "two" THEN 2 ELSE IF place \in Holding THEN 1 ELSE 0

PoolBound == \A w \in Workers : Lent(w) <= PoolSize

(* The three counts are natural numbers.                                   *)
LEMMA LentIs ==
    ASSUME NEW w
    PROVE  /\ Lent(w) = Cardinality(Held(w)) + Cardinality(Doubled(w)) + Cardinality(Served(w))
           /\ IsFiniteSet(Held(w)) /\ IsFiniteSet(Doubled(w)) /\ IsFiniteSet(Served(w))
           /\ Cardinality(Held(w)) \in Nat /\ Cardinality(Doubled(w)) \in Nat
           /\ Cardinality(Served(w)) \in Nat
           /\ Lent(w) \in Nat
<1>1. IsFiniteSet(Held(w)) /\ IsFiniteSet(Doubled(w)) /\ IsFiniteSet(Served(w))
    BY FS_Subset, JobsAssumption, ClientsAssumption DEF Held, Doubled, Served
<1>2. /\ Cardinality(Held(w)) \in Nat /\ Cardinality(Doubled(w)) \in Nat
      /\ Cardinality(Served(w)) \in Nat
    BY <1>1, FS_CardinalityType
<1>3. Lent(w) = Cardinality(Held(w)) + Cardinality(Doubled(w)) + Cardinality(Served(w))
    BY DEF Lent, Held, Doubled, Served
<1> QED
    BY <1>1, <1>2, <1>3

(* Counting the members of a set of which one may have come or gone.       *)
LEMMA CountMove ==
    ASSUME NEW A, NEW B, IsFiniteSet(A), IsFiniteSet(B), NEW j,
           A \ {j} = B \ {j}
    PROVE  Cardinality(B) = Cardinality(A)
               - (IF j \in A THEN 1 ELSE 0) + (IF j \in B THEN 1 ELSE 0)
<1>1. Cardinality(A) \in Nat /\ Cardinality(B) \in Nat
    BY FS_CardinalityType
<1>2. Cardinality(A \ {j}) = IF j \in A THEN Cardinality(A) - 1 ELSE Cardinality(A)
    BY FS_RemoveElement
<1>3. Cardinality(B \ {j}) = IF j \in B THEN Cardinality(B) - 1 ELSE Cardinality(B)
    BY FS_RemoveElement
<1> QED
    BY <1>1, <1>2, <1>3

(* A step of a run keeps no more than before, or takes one that is free.   *)
LEMMA RunTakes ==
    ASSUME Types, NEW w \in Workers, NEW j \in Jobs, Tick(w, j) \/ RunStep(w, j)
    PROVE  \E to \in JobPlaces :
               /\ job' = [job EXCEPT ![w][j] = to]
               /\ \/ Keeps(to) <= Keeps(job[w][j])
                  \/ Keeps(to) = Keeps(job[w][j]) + 1 /\ Lent(w) < PoolSize
<1> USE DEF Types, JobPlaces, Holding, Keeps
<1>1. CASE Tick(w, j)
    BY <1>1 DEF Tick, JobGo
<1>2. CASE Acquire(w, j)
    BY <1>2 DEF Acquire, JobGo, Granted
<1>3. CASE AcquireRaises(w, j)
    BY <1>3 DEF AcquireRaises, JobGo
<1>4. CASE UseConnection(w, j)
    BY <1>4 DEF UseConnection, JobGo
<1>5. CASE AcquireSecond(w, j)
    BY <1>5 DEF AcquireSecond, JobGo, Granted
<1>6. CASE LoadModel(w, j)
    BY <1>6 DEF LoadModel, JobGo
<1>7. CASE EndRun(w, j)
    BY <1>7 DEF EndRun
<1> QED
    BY <1>1, <1>2, <1>3, <1>4, <1>5, <1>6, <1>7 DEF RunStep

(* What a step of a run does to the number of connections lent.            *)
LEMMA RunLends ==
    ASSUME Types, PoolBound, NEW w \in Workers, NEW j \in Jobs, Tick(w, j) \/ RunStep(w, j)
    PROVE  PoolBound'
<1>1. PICK to \in JobPlaces :
          /\ job' = [job EXCEPT ![w][j] = to]
          /\ \/ Keeps(to) <= Keeps(job[w][j])
             \/ Keeps(to) = Keeps(job[w][j]) + 1 /\ Lent(w) < PoolSize
    BY RunTakes
<1>2. request' = request
    BY RunSteps DEF jobUnchanged
<1> SUFFICES ASSUME NEW v \in Workers PROVE Lent(v)' <= PoolSize
    BY DEF PoolBound
<1>3. CASE v # w
  <2>1. job'[v] = job[v]
    BY <1>1, <1>3 DEF Types
  <2>2. Lent(v)' = Lent(v)
    BY <1>2, <2>1 DEF Lent
  <2> QED
    BY <2>2 DEF PoolBound
<1>4. CASE v = w
  <2>1. job'[w][j] = to /\ \A i \in Jobs \ {j} : job'[w][i] = job[w][i]
    BY <1>1 DEF Types
  <2> DEFINE A == Held(w)
             B == Held(w)'
             C == Doubled(w)
             D == Doubled(w)'
             n == Cardinality(Served(w))
  <2>2. A \ {j} = B \ {j} /\ C \ {j} = D \ {j} /\ Served(w)' = Served(w)
    BY <1>2, <2>1 DEF Held, Doubled, Served
  <2>3. /\ IsFiniteSet(A) /\ IsFiniteSet(C) /\ n \in Nat
        /\ Lent(w) = Cardinality(A) + Cardinality(C) + n
        /\ Cardinality(A) \in Nat /\ Cardinality(C) \in Nat
    BY LentIs
  <2>4. /\ IsFiniteSet(B) /\ IsFiniteSet(D)
        /\ Lent(w)' = Cardinality(B) + Cardinality(D) + n
        /\ Cardinality(B) \in Nat /\ Cardinality(D) \in Nat
    <3>1. /\ IsFiniteSet(B) /\ IsFiniteSet(D)
      BY FS_Subset, JobsAssumption DEF Held, Doubled
    <3>2. Lent(w)' = Cardinality(B) + Cardinality(D) + n
      BY <2>2 DEF Lent, Held, Doubled, Served
    <3> QED
      BY <3>1, <3>2, FS_CardinalityType
  <2>5. /\ j \in A <=> job[w][j] \in Holding
        /\ j \in B <=> to \in Holding
        /\ j \in C <=> job[w][j] = "two"
        /\ j \in D <=> to = "two"
    BY <2>1 DEF Held, Doubled
  <2> HIDE DEF A, B, C, D, n
  <2>6. /\ Cardinality(B) = Cardinality(A)
               - (IF j \in A THEN 1 ELSE 0) + (IF j \in B THEN 1 ELSE 0)
        /\ Cardinality(D) = Cardinality(C)
               - (IF j \in C THEN 1 ELSE 0) + (IF j \in D THEN 1 ELSE 0)
    BY <2>2, <2>3, <2>4, CountMove
  <2>7. /\ Keeps(job[w][j]) = (IF j \in A THEN 1 ELSE 0) + (IF j \in C THEN 1 ELSE 0)
        /\ Keeps(to) = (IF j \in B THEN 1 ELSE 0) + (IF j \in D THEN 1 ELSE 0)
    BY <2>5 DEF Keeps, Holding
  <2>8. Lent(w)' = Lent(w) - Keeps(job[w][j]) + Keeps(to)
    BY <2>3, <2>4, <2>6, <2>7
  <2>9. Lent(w) <= PoolSize /\ Lent(w) \in Nat
    BY LentIs DEF PoolBound
  <2>10. Keeps(to) \in 0..2 /\ Keeps(job[w][j]) \in 0..2
    BY DEF Keeps
  <2> QED
    BY <1>1, <1>4, <2>8, <2>9, <2>10, BoundsAssumption
<1> QED
    BY <1>3, <1>4

(* A handler takes a connection that is free.                              *)
LEMMA HandlerLends ==
    ASSUME Types, PoolBound, NEW w \in Workers, NEW c \in Clients, Ask(w, c) \/ Handle(w, c)
    PROVE  PoolBound'
<1>1. \E to \in {"none", "waiting", "connected"} :
          /\ request' = [request EXCEPT ![w][c] = to]
          /\ to = "connected" => Lent(w) < PoolSize /\ request[w][c] = "waiting"
          /\ job' = job
    BY DEF Ask, Handle, Connect, Answer, RequestGo, Granted
<1>2. PICK to \in {"none", "waiting", "connected"} :
          /\ request' = [request EXCEPT ![w][c] = to]
          /\ to = "connected" => Lent(w) < PoolSize /\ request[w][c] = "waiting"
          /\ job' = job
    BY <1>1
<1> SUFFICES ASSUME NEW v \in Workers PROVE Lent(v)' <= PoolSize
    BY DEF PoolBound
<1>3. CASE v # w
  <2>1. request'[v] = request[v]
    BY <1>2, <1>3 DEF Types
  <2>2. Lent(v)' = Lent(v)
    BY <1>2, <2>1 DEF Lent
  <2> QED
    BY <2>2 DEF PoolBound
<1>4. CASE v = w
  <2>1. request'[w][c] = to /\ \A i \in Clients \ {c} : request'[w][i] = request[w][i]
    BY <1>2 DEF Types
  <2> DEFINE A == Served(w)
             B == Served(w)'
             n == Cardinality(Held(w)) + Cardinality(Doubled(w))
  <2>2. A \ {c} = B \ {c}
    BY <2>1 DEF Served
  <2>3. /\ IsFiniteSet(A) /\ n \in Nat /\ Cardinality(A) \in Nat
        /\ Lent(w) = n + Cardinality(A)
    BY LentIs
  <2>4. /\ IsFiniteSet(B) /\ Cardinality(B) \in Nat
        /\ Lent(w)' = n + Cardinality(B)
    <3>1. IsFiniteSet(B)
      BY FS_Subset, ClientsAssumption DEF Served
    <3>2. Lent(w)' = n + Cardinality(B)
      BY <1>2 DEF Lent, Held, Doubled, Served
    <3> QED
      BY <3>1, <3>2, FS_CardinalityType
  <2>5. c \in B <=> to = "connected"
    BY <2>1 DEF Served
  <2> HIDE DEF A, B, n
  <2>6. Cardinality(B) = Cardinality(A)
            - (IF c \in A THEN 1 ELSE 0) + (IF c \in B THEN 1 ELSE 0)
    BY <2>2, <2>3, <2>4, CountMove
  <2>7. Lent(w) <= PoolSize
    BY DEF PoolBound
  <2> QED
    BY <1>2, <1>4, <2>3, <2>4, <2>5, <2>6, <2>7, BoundsAssumption
<1> QED
    BY <1>3, <1>4

(* What ends a process or its jobs lends nothing.                          *)
LEMMA EndLends ==
    ASSUME Types, PoolBound, NEW w \in Workers, Vanish(w) \/ CancelJobs(w)
    PROVE  PoolBound'
<1> SUFFICES ASSUME NEW v \in Workers PROVE Lent(v)' <= PoolSize
    BY DEF PoolBound
<1>0. Lent(v) <= PoolSize /\ Lent(v) \in Nat
    BY LentIs DEF PoolBound
<1>1. CASE v # w
  <2>1. job'[v] = job[v] /\ request'[v] = request[v]
    BY <1>1 DEF Types, Vanish, CancelJobs
  <2>2. Lent(v)' = Lent(v)
    BY <2>1 DEF Lent
  <2> QED
    BY <1>0, <2>2
<1>2. CASE v = w /\ Vanish(w)
  <2>1. job'[v] = Quiet /\ request'[v] = NoRequest
    BY <1>2 DEF Types, Vanish
  <2>2. Held(v)' = {} /\ Doubled(v)' = {} /\ Served(v)' = {}
    BY <2>1 DEF Held, Doubled, Served, Quiet, NoRequest, Holding
  <2>3. Lent(v)' = Cardinality({}) + Cardinality({}) + Cardinality({})
    BY <2>2 DEF Lent, Held, Doubled, Served
  <2> QED
    BY <2>3, FS_EmptySet, BoundsAssumption
<1>3. CASE v = w /\ CancelJobs(w)
  <2>1. /\ request' = request
        /\ \A j \in Jobs : job'[v][j] = IF job[v][j] \in Holding THEN "cancelled" ELSE "idle"
    BY <1>3 DEF Types, CancelJobs
  <2>2. Held(v)' = Held(v) /\ Doubled(v)' = {} /\ Served(v)' = Served(v)
    BY <2>1 DEF Held, Doubled, Served, Holding
  <2>3. Lent(v)' = Cardinality(Held(v)) + Cardinality({}) + Cardinality(Served(v))
    BY <2>2 DEF Lent, Held, Doubled, Served
  <2> QED
    BY <1>0, <2>3, FS_EmptySet, LentIs, BoundsAssumption
<1> QED
    BY <1>1, <1>2, <1>3

(* No step makes a pool lend more than it has.                             *)
LEMMA PoolStep ==
    ASSUME Types, PoolBound, [Next]_vars
    PROVE  PoolBound'
<1>1. ASSUME NEW w \in Workers, NEW j \in Jobs, Tick(w, j) \/ RunStep(w, j)
      PROVE  PoolBound'
    BY <1>1, RunLends
<1>2. ASSUME NEW w \in Workers, NEW c \in Clients, Ask(w, c) \/ Handle(w, c)
      PROVE  PoolBound'
    BY <1>2, HandlerLends
<1>3. ASSUME NEW w \in Workers, FileClashes(w) \/ StartFails(w) \/ Crash(w) \/ CancelJobs(w)
      PROVE  PoolBound'
    BY <1>3, EndLends DEF FileClashes, StartFails, Crash
<1>4. ASSUME UNCHANGED workVars
      PROVE  PoolBound'
    BY <1>4 DEF PoolBound, Lent, workVars
<1>5. ASSUME NEW w \in Workers,
             \/ CreatePool(w) \/ BeginFile(w) \/ CommitFile(w) \/ StartScheduler(w)
             \/ StopScheduler(w) \/ ClosePool(w) \/ Terminate(w)
      PROVE  PoolBound'
    BY <1>4, <1>5 DEF CreatePool, BeginFile, CommitFile, Apply, StartScheduler, Serve,
        StopScheduler, Stop, ClosePool, Terminate
<1>6. CASE Outage \/ Recover \/ UNCHANGED vars
    BY <1>4, <1>6 DEF Outage, Recover, vars
<1> QED
    BY <1>1, <1>2, <1>3, <1>5, <1>6 DEF Next, Lifespan

(***************************************************************************)
(* Every variable has its type, and no pool lends more connections than it *)
(* has, whatever jobs and handlers ask for, however runs are cancelled and *)
(* processes crash (database.py:17-37, SV:278-291).                        *)
(***************************************************************************)
THEOREM TypeCorrect == Spec => []TypeOK
<1>1. Init => PoolBound
  <2> SUFFICES ASSUME Init, NEW w \in Workers PROVE Lent(w) <= PoolSize
    BY DEF PoolBound
  <2>1. Held(w) = {} /\ Doubled(w) = {} /\ Served(w) = {}
    BY DEF Init, Held, Doubled, Served, Quiet, NoRequest, Holding
  <2>2. Lent(w) = Cardinality({}) + Cardinality({}) + Cardinality({})
    BY <2>1, LentIs
  <2> QED
    BY <2>2, FS_EmptySet, BoundsAssumption
<1>2. IInv /\ PoolBound /\ [Next]_vars => PoolBound'
    BY PoolStep DEF IInv
<1>3. IInv /\ PoolBound => TypeOK
    BY DEF IInv, Types, PoolBound, TypeOK
<1> QED
    BY <1>1, <1>2, <1>3, Invariance, PTL DEF Spec
=============================================================================
