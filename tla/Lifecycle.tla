----------------------------- MODULE Lifecycle ------------------------------
(***************************************************************************)
(* The life of a server process (main.py:18-42): it creates the pool,      *)
(* applies the migrations, starts the scheduler, serves, and undoes the    *)
(* three on SIGTERM (database.py, fusion/scheduler.py, routes/health.py).  *)
(* Processes start independently of each other on one database.            *)
(*                                                                         *)
(* From the libraries: uvicorn begins the shutdown of the application when *)
(* no request is left; AsyncIOScheduler.shutdown posts its work to the     *)
(* event loop, where the asyncio executor cancels the jobs in flight;      *)
(* Pool.close refuses new acquires and waits for the connections that are  *)
(* lent; CREATE ... IF NOT EXISTS may raise when another transaction       *)
(* creates the same relation.                                              *)
(***************************************************************************)
EXTENDS Naturals, FiniteSets

CONSTANTS
    Workers,      \* server processes
    Jobs,         \* the jobs settings enable
    NestedJobs,   \* those that load the model while they hold a connection
    Clients,      \* those who send requests, one at a time each
    Probe,        \* the client that asks for GET /health
    Files,        \* number of migration files
    Development,  \* settings.env = "development"
    PoolSize,     \* settings.database_max_connections
    MaxRequests,  \* bound on the requests
    MaxFaults     \* bound on outages, failed start-ups and crashes

ASSUME JobsAssumption == NestedJobs \subseteq Jobs /\ IsFiniteSet(Jobs)
ASSUME ClientsAssumption == IsFiniteSet(Clients)
ASSUME DevelopmentAssumption == Development \in BOOLEAN
ASSUME BoundsAssumption ==
    /\ Files \in Nat /\ PoolSize \in Nat \ {0}
    /\ MaxRequests \in Nat /\ MaxFaults \in Nat

VARIABLES
    phase,      \* [Workers -> where the lifespan of the process stands]
    pool,       \* [Workers -> the state of its pool]
    file,       \* [Workers -> the migration file it is at]
    clash,      \* workers in a file that another one has applied meanwhile
    applied,    \* files whose transaction is committed
    scheduler,  \* [Workers -> the state of its scheduler]
    job,        \* [Workers -> [Jobs -> where its run stands]]
    request,    \* [Workers -> [Clients -> where the handler stands]]
    reachable,  \* is the database reachable
    health,     \* the last reply of GET /health, and what was true then
    asked,      \* requests so far
    faults      \* faults so far

startVars == <<file, clash, applied>>
workVars == <<job, request>>
worldVars == <<reachable, asked, faults>>
vars == <<phase, pool, startVars, scheduler, workVars, health, worldVars>>

Phases == {"down", "migrating", "inFile", "serving", "draining", "closing", "stopped"}
Holding == {"one", "wantsSecond", "two", "working", "cancelled"}
JobPlaces == {"idle", "acquiring"} \union Holding

Quiet == [j \in Jobs |-> "idle"]
NoRequest == [c \in Clients |-> "none"]

\* The database may hold the schema of an older version, or of this one when
\* migrations are "run via a dedicated migration tool or CI step".
Init ==
    /\ phase = [w \in Workers |-> "down"]
    /\ pool = [w \in Workers |-> "none"]
    /\ file = [w \in Workers |-> 1]
    /\ clash = {}
    /\ applied \in IF Development THEN {1..n : n \in 0..Files} ELSE {1..Files}
    /\ scheduler = [w \in Workers |-> "none"]
    /\ job = [w \in Workers |-> Quiet]
    /\ request = [w \in Workers |-> NoRequest]
    /\ reachable = TRUE
    /\ health = [code |-> 200, reachable |-> TRUE]
    /\ asked = 0
    /\ faults = 0

Go(w, from, to) == phase[w] = from /\ phase' = [phase EXCEPT ![w] = to]
JobGo(w, j, from, to) == job[w][j] = from /\ job' = [job EXCEPT ![w][j] = to]
RequestGo(w, c, from, to) ==
    /\ request[w][c] = from
    /\ request' = [request EXCEPT ![w][c] = to]

\* Connections of the pool in use.
Lent(w) ==
    LET one == {j \in Jobs : job[w][j] \in Holding}
        two == {j \in Jobs : job[w][j] = "two"}
        handlers == {c \in Clients : request[w][c] = "connected"}
    IN  Cardinality(one) + Cardinality(two) + Cardinality(handlers)

\* pool.acquire: it is answered, or it raises (a new connection cannot be
\* made, "pool is closing"), or it waits.
Granted(w) == pool[w] = "open" /\ Lent(w) < PoolSize /\ reachable
Refused(w) == pool[w] # "open" \/ (Lent(w) < PoolSize /\ ~reachable)

Fault == faults < MaxFaults /\ faults' = faults + 1

(***************************************************************************)
(* Start-up.                                                               *)
(***************************************************************************)
\* create_pool, its SELECT 1, set_pool.
CreatePool(w) ==
    /\ reachable
    /\ Go(w, "down", "migrating")
    /\ pool' = [pool EXCEPT ![w] = "open"]
    /\ UNCHANGED <<startVars, scheduler, workVars, health, worldVars>>

\* A file is one simple query, hence one implicit transaction.
BeginFile(w) ==
    /\ Development /\ reachable /\ file[w] <= Files
    /\ Go(w, "migrating", "inFile")
    /\ UNCHANGED <<pool, startVars, scheduler, workVars, health, worldVars>>

Apply(w, f) ==
    /\ reachable
    /\ Go(w, "inFile", "migrating")
    /\ applied' = applied \union {f}
    /\ clash' = (clash \ {w}) \union
           {v \in Workers \ {w} : f \notin applied /\ phase[v] = "inFile" /\ file[v] = f}
    /\ file' = [file EXCEPT ![w] = @ + 1]
    /\ UNCHANGED <<pool, scheduler, workVars, health, worldVars>>

CommitFileOnce(w) == Apply(w, file[w]) /\ file[w] \notin applied
    \* mutant: CREATE without IF NOT EXISTS
CommitFile(w) == Apply(w, file[w])

\* start_scheduler; the application is ready.
Serve(w) ==
    /\ Go(w, "migrating", "serving")
    /\ scheduler' = [scheduler EXCEPT ![w] = IF Jobs = {} THEN "none" ELSE "running"]
    /\ UNCHANGED <<pool, startVars, workVars, health, worldVars>>

StartScheduler(w) == (Development => file[w] > Files) /\ Serve(w)

\* The process ends and leaves nothing but the database; a supervisor starts
\* it again.
Vanish(w) ==
    /\ phase' = [phase EXCEPT ![w] = "down"]
    /\ pool' = [pool EXCEPT ![w] = "none"]
    /\ file' = [file EXCEPT ![w] = 1]
    /\ clash' = clash \ {w}
    /\ scheduler' = [scheduler EXCEPT ![w] = "none"]
    /\ job' = [job EXCEPT ![w] = Quiet]
    /\ request' = [request EXCEPT ![w] = NoRequest]
    /\ UNCHANGED <<applied, health, reachable, asked>>

\* A file raises because another process has just created what it creates:
\* the exception leaves lifespan, the process exits.
FileClashes(w) ==
    /\ phase[w] = "inFile" /\ w \in clash
    /\ Vanish(w)
    /\ UNCHANGED faults

\* Mutant of StartFails: the exception is logged and start-up goes on.
StartFailsLogged(w) == ~reachable /\ Serve(w)

\* A migration cannot reach the database (create_pool: the process is down
\* before and after).
StartFails(w) ==
    /\ phase[w] \in {"migrating", "inFile"}
    /\ ~reachable
    /\ Vanish(w)
    /\ UNCHANGED faults

\* SIGKILL, or an error while it starts.
Crash(w) ==
    /\ phase[w] \notin {"down", "stopped"}
    /\ Fault
    /\ Vanish(w)

(***************************************************************************)
(* Jobs, and what every await of theirs may come to.                       *)
(***************************************************************************)
jobUnchanged == <<phase, pool, startVars, scheduler, request, health, worldVars>>

\* A run that is due; max_instances = 1 drops it while one is in progress.
Tick(w, j) ==
    /\ scheduler[w] \in {"running", "stopping"}
    /\ JobGo(w, j, "idle", "acquiring")
    /\ UNCHANGED jobUnchanged

Acquire(w, j) ==
    /\ Granted(w)
    /\ JobGo(w, j, "acquiring", "one")
    /\ UNCHANGED jobUnchanged

AcquireRaises(w, j) ==
    /\ Refused(w)
    /\ \/ JobGo(w, j, "acquiring", "idle")
       \/ JobGo(w, j, "wantsSecond", "working")
    /\ UNCHANGED jobUnchanged

\* The fit job gives its connection back and takes one again; the others
\* skip the tick, or go on.
UseConnection(w, j) ==
    /\ reachable
    /\ \/ JobGo(w, j, "one", "idle")
       \/ j \in NestedJobs /\ JobGo(w, j, "one", "wantsSecond")
       \/ j \notin NestedJobs /\ JobGo(w, j, "one", "acquiring")
    /\ UNCHANGED jobUnchanged

AcquireSecond(w, j) ==
    /\ Granted(w)
    /\ JobGo(w, j, "wantsSecond", "two")
    /\ UNCHANGED jobUnchanged

LoadModel(w, j) ==
    /\ reachable
    /\ JobGo(w, j, "two", "working")
    /\ UNCHANGED jobUnchanged

\* A statement raises, or the body is done: `finally`, `async with`.
EndRun(w, j) ==
    /\ \/ ~reachable /\ job[w][j] \in Holding
       \/ job[w][j] \in {"working", "cancelled"}
    /\ job' = [job EXCEPT ![w][j] = "idle"]
    /\ UNCHANGED jobUnchanged

(***************************************************************************)
(* Requests: every handler takes one connection, once.                     *)
(***************************************************************************)
Ask(w, c) ==
    /\ phase[w] = "serving"
    /\ asked < MaxRequests
    /\ asked' = asked + 1
    /\ RequestGo(w, c, "none", "waiting")
    /\ UNCHANGED <<phase, pool, startVars, scheduler, job, health, reachable, faults>>

Connect(w, c) ==
    /\ Granted(w)
    /\ RequestGo(w, c, "waiting", "connected")
    /\ UNCHANGED <<phase, pool, startVars, scheduler, job, health, worldVars>>

\* health_check returns a dict in either case, hence a 200.
Reply(c) ==
    health' = IF c = Probe THEN [code |-> 200, reachable |-> reachable] ELSE health

Answer(w, c) ==
    /\ \/ RequestGo(w, c, "connected", "none")
       \/ Refused(w) /\ RequestGo(w, c, "waiting", "none")
    /\ Reply(c)
    /\ UNCHANGED <<phase, pool, startVars, scheduler, job, worldVars>>

(***************************************************************************)
(* Shutdown.                                                               *)
(***************************************************************************)
Terminate(w) ==
    /\ Go(w, "serving", "draining")
    /\ UNCHANGED <<pool, startVars, scheduler, workVars, health, worldVars>>

Stop(w, after) ==
    /\ request[w] = NoRequest
    /\ Go(w, "draining", "closing")
    /\ scheduler' = [scheduler EXCEPT ![w] = IF @ = "running" THEN after ELSE @]
    /\ pool' = [pool EXCEPT ![w] = "closing"]
    /\ UNCHANGED <<startVars, workVars, health, worldVars>>

StopSchedulerLate(w) == Stop(w, "running")  \* mutant: it is only forgotten
StopSchedulerIdle(w) == job[w] = Quiet /\ Stop(w, "stopping")
    \* mutant: wait for a moment without a job before stopping it

\* stop_scheduler, and close_pool up to its first await.
StopScheduler(w) == Stop(w, "stopping")

\* The posted shutdown runs: every job in flight is cancelled where it waits.
CancelJobs(w) ==
    /\ scheduler[w] = "stopping"
    /\ scheduler' = [scheduler EXCEPT ![w] = "none"]
    /\ job' = [job EXCEPT ![w] =
                  [j \in Jobs |-> IF @[j] \in Holding THEN "cancelled" ELSE "idle"]]
    /\ UNCHANGED <<phase, pool, startVars, request, health, worldVars>>

\* The callback above was posted before Pool.close began to wait.
ClosePool(w) ==
    /\ scheduler[w] # "stopping"
    /\ Lent(w) = 0
    /\ Go(w, "closing", "stopped")
    /\ pool' = [pool EXCEPT ![w] = "closed"]
    /\ UNCHANGED <<startVars, scheduler, workVars, health, worldVars>>

Outage ==
    /\ reachable
    /\ Fault
    /\ reachable' = FALSE
    /\ UNCHANGED <<phase, pool, startVars, scheduler, workVars, health, asked>>

Recover ==
    /\ ~reachable
    /\ reachable' = TRUE
    /\ UNCHANGED <<phase, pool, startVars, scheduler, workVars, health, asked, faults>>

-----------------------------------------------------------------------------
Lifespan(w) ==
    \/ CreatePool(w)
    \/ BeginFile(w) \/ CommitFile(w) \/ FileClashes(w)
    \/ StartFails(w)
    \/ StartScheduler(w)
    \/ StopScheduler(w) \/ CancelJobs(w) \/ ClosePool(w)

RunStep(w, j) ==
    \/ Acquire(w, j) \/ AcquireRaises(w, j) \/ UseConnection(w, j)
    \/ AcquireSecond(w, j) \/ LoadModel(w, j) \/ EndRun(w, j)

Handle(w, c) == Connect(w, c) \/ Answer(w, c)

Next ==
    \/ \E w \in Workers : Lifespan(w) \/ Terminate(w) \/ Crash(w)
    \/ \E w \in Workers, j \in Jobs : Tick(w, j) \/ RunStep(w, j)
    \/ \E w \in Workers, c \in Clients : Ask(w, c) \/ Handle(w, c)
    \/ Outage \/ Recover

Spec == Init /\ [][Next]_vars

(***************************************************************************)
(* The supervisor restarts what exits, the event loop runs what can run,   *)
(* the database comes back, and a pool serves its waiters in turn: who     *)
(* waits for a connection while others take and return them gets one.      *)
(***************************************************************************)
Fairness ==
    /\ WF_vars(Recover)
    /\ \A w \in Workers : WF_vars(Lifespan(w))
    /\ \A w \in Workers, j \in Jobs : WF_vars(RunStep(w, j))
    /\ \A w \in Workers, c \in Clients : SF_vars(Handle(w, c))

FairSpec == Spec /\ Fairness

-----------------------------------------------------------------------------
\* A pool never lends more than it has.
TypeOK ==
    /\ phase \in [Workers -> Phases]
    /\ pool \in [Workers -> {"none", "open", "closing", "closed"}]
    /\ file \in [Workers -> 1..Files + 1]
    /\ clash \subseteq Workers
    /\ applied \subseteq 1..Files
    /\ scheduler \in [Workers -> {"none", "running", "stopping"}]
    /\ job \in [Workers -> [Jobs -> JobPlaces]]
    /\ request \in [Workers -> [Clients -> {"none", "waiting", "connected"}]]
    /\ reachable \in BOOLEAN
    /\ health \in [code : {200, 503}, reachable : BOOLEAN]
    /\ asked \in 0..MaxRequests /\ faults \in 0..MaxFaults
    /\ \A w \in Workers : Lent(w) <= PoolSize

\* Handlers and jobs only ever meet the complete schema, though processes
\* start at once, fail in the middle of the migrations and start again
\* (main.py:27-33, database.py:61-77).
WorksOnCompleteSchema ==
    \A w \in Workers :
        request[w] # NoRequest \/ job[w] # Quiet => applied = 1..Files

\* "Apply SQL migration files in order" (database.py:62): no file is applied
\* before the ones it builds on.
AppliedInOrder == applied = 1..Cardinality(applied)

\* When the pool is closed nothing of the process still runs or is due: the
\* order of main.py:37-41.
StoppedIsQuiet ==
    \A w \in Workers : pool[w] \in {"none", "closed"} =>
        scheduler[w] = "none" /\ job[w] = Quiet /\ request[w] = NoRequest

\* Every process that starts gets to serve, whatever the others apply at the
\* same time and however often the database is away.
EveryWorkerServes == \A w \in Workers : phase[w] = "down" ~> phase[w] = "serving"

\* A process that was told to stop stops, whatever its jobs are doing: none
\* of them keeps a connection the shutdown waits for.
ServerStops == \A w \in Workers : phase[w] = "draining" ~> phase[w] \in {"stopped", "down"}

\* "Shut the scheduler down, waiting for any in-flight job to finish"
\* (scheduler.py:77).
JobsAreWaitedFor == \A w \in Workers, j \in Jobs : job[w][j] # "cancelled"
=============================================================================
