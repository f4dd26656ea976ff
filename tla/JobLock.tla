------------------------------ MODULE JobLock -------------------------------
(***************************************************************************)
(* The advisory lock that makes a background job single-flight, and the    *)
(* connection pool its statements go through (fusion/service.py:34-38,     *)
(* 278-291, 439-521; fusion/scheduler.py; database.py:11-37).              *)
(*                                                                         *)
(* Every server process ("worker") runs its own scheduler, and may tick    *)
(* the same job at the same time.  A tick takes a connection, tries the    *)
(* lock of its job, works, unlocks, and gives the connection back, which   *)
(* makes asyncpg send a reset query that drops every advisory lock of the  *)
(* session it reaches.                                                     *)
(*                                                                         *)
(* A lock belongs to a database session.  Connected directly, a connection *)
(* is a session.  Behind a transaction-mode pooler (DATABASE_USE_POOLER)   *)
(* each statement outside a transaction may reach any session.             *)
(*                                                                         *)
(* A run that loses its connection learns it from its next statement on    *)
(* it.  Until then it goes on, in Python and over the pool's other         *)
(* connections, while the server may already have given its lock away.     *)
(***************************************************************************)
EXTENDS Naturals, FiniteSets

CONSTANTS
    Workers,       \* server processes
    Jobs,          \* jobs that take a lock; each has its own key
    NestedJobs,    \* jobs that load the model through the pool, in the lock
    Pooled,        \* settings.database_use_pooler
    PoolerSessions,\* sessions behind the pooler
    PoolSize,      \* settings.database_max_connections
    MaxBorrows,    \* bound on the requests that take a connection
    MaxFaults      \* bound on lost connections and crashes

ASSUME JobsAssumption == NestedJobs \subseteq Jobs /\ IsFiniteSet(Jobs)
ASSUME PooledAssumption == Pooled \in BOOLEAN
ASSUME BoundsAssumption ==
    /\ PoolSize \in Nat \ {0}
    /\ MaxBorrows \in Nat
    /\ MaxFaults \in Nat

\* Of its own connection, or of the pooler.
Sessions == IF Pooled THEN PoolerSessions ELSE Workers \X Jobs
Reach(w, j) == IF Pooled THEN PoolerSessions ELSE {<<w, j>>}

VARIABLES
    pc,        \* [Workers -> [Jobs -> where the run of the job stands]]
    held,      \* [Sessions -> [Jobs -> times the session holds the lock]]
    severed,   \* runs that have lost their connection and have not noticed
    orphans,   \* locks of a session whose client is gone, not yet noticed
    lent,      \* [Workers -> connections taken from the pool]
    requests,  \* [Workers -> those of them taken by request handlers]
    borrows,   \* connections taken by requests so far
    faults     \* lost connections and crashes so far

vars == <<pc, held, severed, orphans, lent, requests, borrows, faults>>

Places == {"idle", "acquiring", "locking", "wantsModel", "loadsModel",
           "working", "unlocking", "releasing"}

Nothing == [j \in Jobs |-> 0]

Init ==
    /\ pc = [w \in Workers |-> [j \in Jobs |-> "idle"]]
    /\ held = [s \in Sessions |-> Nothing]
    /\ severed = {}
    /\ orphans = {}
    /\ lent = [w \in Workers |-> 0]
    /\ requests = [w \in Workers |-> 0]
    /\ borrows = 0
    /\ faults = 0

Go(w, j, from, to) ==
    /\ pc[w][j] = from
    /\ pc' = [pc EXCEPT ![w][j] = to]

Connected(w, j) == <<w, j>> \notin severed

Take(w) == lent[w] < PoolSize /\ lent' = [lent EXCEPT ![w] = @ + 1]
Fault == faults < MaxFaults /\ faults' = faults + 1

GiveBack(w) == lent' = [lent EXCEPT ![w] = @ - 1]

\* pg_advisory_unlock_all, sent by asyncpg when a connection is given back.
Resets(S) == {[held EXCEPT ![s] = Nothing] : s \in S}
ResetSession(S) == held' \in Resets(S)

(***************************************************************************)
(* One run of a job.  Its statements go over its own connection, which     *)
(* must be there, except for those of load_active_model.                   *)
(***************************************************************************)

\* The interval trigger fires; max_instances = 1 drops it during a run.
Tick(w, j) ==
    /\ Go(w, j, "idle", "acquiring")
    /\ UNCHANGED <<held, severed, orphans, lent, requests, borrows, faults>>

Acquire(w, j) ==
    /\ Go(w, j, "acquiring", "locking")
    /\ Take(w)
    /\ UNCHANGED <<held, severed, orphans, requests, borrows, faults>>

\* A session is granted a lock that no other session holds, as often as it
\* asks for it.
Granted(s, j) ==
    /\ j \notin orphans
    /\ \A t \in Sessions \ {s} : held[t][j] = 0

\* Mutant of TryLock: a transaction-level lock, gone with its statement.
TryTransactionLock(w, j) ==
    /\ Connected(w, j)
    /\ \E s \in Reach(w, j) : Granted(s, j)
    /\ Go(w, j, "locking", IF j \in NestedJobs THEN "wantsModel" ELSE "working")
    /\ UNCHANGED <<held, severed, orphans, lent, requests, borrows, faults>>

\* Mutant of TryLock: every job loads the model through the pool.
TryLockThenLoad(w, j) ==
    /\ Connected(w, j)
    /\ \E s \in Reach(w, j) :
        /\ Granted(s, j)
        /\ held' = [held EXCEPT ![s][j] = @ + 1]
    /\ Go(w, j, "locking", "wantsModel")
    /\ UNCHANGED <<severed, orphans, lent, requests, borrows, faults>>

TryLock(w, j) ==
    /\ Connected(w, j)
    /\ \E s \in Reach(w, j) :
        /\ Granted(s, j)
        /\ held' = [held EXCEPT ![s][j] = @ + 1]
    /\ Go(w, j, "locking", IF j \in NestedJobs THEN "wantsModel" ELSE "working")
    /\ UNCHANGED <<severed, orphans, lent, requests, borrows, faults>>

\* Mutant of Skip: the early return forgets the connection.
SkipAndKeep(w, j) ==
    /\ Connected(w, j)
    /\ \E s \in Reach(w, j) : ~Granted(s, j)
    /\ Go(w, j, "locking", "idle")
    /\ UNCHANGED <<held, severed, orphans, lent, requests, borrows, faults>>

\* "... already running; skipping this tick."
Skip(w, j) ==
    /\ Connected(w, j)
    /\ \E s \in Reach(w, j) : ~Granted(s, j)
    /\ Go(w, j, "locking", "releasing")
    /\ UNCHANGED <<held, severed, orphans, lent, requests, borrows, faults>>

\* load_active_model(pool) takes a second connection.
WantModel(w, j) ==
    /\ Go(w, j, "wantsModel", "loadsModel")
    /\ Take(w)
    /\ UNCHANGED <<held, severed, orphans, requests, borrows, faults>>

\* In direct mode the reset reaches a session that holds nothing.
LoadModel(w, j) ==
    /\ Go(w, j, "loadsModel", "working")
    /\ GiveBack(w)
    /\ IF Pooled THEN ResetSession(Sessions) ELSE UNCHANGED held
    /\ UNCHANGED <<severed, orphans, requests, borrows, faults>>

\* Its statements raise, or time out: the job ends, `finally` is next.
LoadFails(w, j) ==
    /\ Go(w, j, "loadsModel", "unlocking")
    /\ Fault
    /\ GiveBack(w)
    /\ held' \in {held} \union (IF Pooled THEN Resets(Sessions) ELSE {})
    /\ UNCHANGED <<severed, orphans, requests, borrows>>

\* The body returns or raises; either way `finally` is next.
Work(w, j) ==
    /\ Connected(w, j)
    /\ Go(w, j, "working", "unlocking")
    /\ UNCHANGED <<held, severed, orphans, lent, requests, borrows, faults>>

\* Mutant of Unlock: the key of another job.
UnlockOtherKey(w, j) ==
    /\ Connected(w, j)
    /\ Go(w, j, "unlocking", "releasing")
    /\ \E s \in Reach(w, j), k \in Jobs \ {j} :
        held' = [held EXCEPT ![s][k] = IF @ = 0 THEN 0 ELSE @ - 1]
    /\ UNCHANGED <<severed, orphans, lent, requests, borrows, faults>>

\* pg_advisory_unlock on a session that does not hold the lock only warns.
Unlock(w, j) ==
    /\ Connected(w, j)
    /\ Go(w, j, "unlocking", "releasing")
    /\ \E s \in Reach(w, j) :
        held' = [held EXCEPT ![s][j] = IF @ = 0 THEN 0 ELSE @ - 1]
    /\ UNCHANGED <<severed, orphans, lent, requests, borrows, faults>>

\* A statement on the lost connection raises, be it the lock, one of the
\* body or the unlock in `finally`: the exception leaves the job.
Raise(w, j) ==
    /\ ~Connected(w, j)
    /\ \E from \in {"locking", "working", "unlocking"} : Go(w, j, from, "releasing")
    /\ UNCHANGED <<held, severed, orphans, lent, requests, borrows, faults>>

\* asyncpg closes a connection that is lost, and resets any other.
Release(w, j) ==
    /\ Go(w, j, "releasing", "idle")
    /\ GiveBack(w)
    /\ IF Connected(w, j) THEN ResetSession(Reach(w, j)) ELSE UNCHANGED held
    /\ severed' = severed \ {<<w, j>>}
    /\ UNCHANGED <<orphans, requests, borrows, faults>>

(***************************************************************************)
(* The other users of the pool: one connection each, never a second one.   *)
(***************************************************************************)
Borrow(w) ==
    /\ borrows < MaxBorrows
    /\ borrows' = borrows + 1
    /\ Take(w)
    /\ requests' = [requests EXCEPT ![w] = @ + 1]
    /\ UNCHANGED <<pc, held, severed, orphans, faults>>

Return(w) ==
    /\ requests[w] > 0
    /\ requests' = [requests EXCEPT ![w] = @ - 1]
    /\ GiveBack(w)
    /\ IF Pooled THEN ResetSession(Sessions) ELSE UNCHANGED held
    /\ UNCHANGED <<pc, severed, orphans, borrows, faults>>

(***************************************************************************)
(* Faults.  A session whose client has gone keeps its locks until the      *)
(* server notices; a pooler keeps the session itself.                      *)
(***************************************************************************)
HasConnection ==
    {"locking", "wantsModel", "loadsModel", "working", "unlocking", "releasing"}

Abandon(S) ==
    IF Pooled
    THEN UNCHANGED <<held, orphans>>
    ELSE /\ held' = [s \in Sessions |-> IF s \in S THEN Nothing ELSE held[s]]
         /\ orphans' = orphans \union {j \in Jobs : \E s \in S : held[s][j] > 0}

\* The connection of the run is lost.  The run stays where it is.
LoseConnection(w, j) ==
    /\ pc[w][j] \in HasConnection /\ Connected(w, j)
    /\ Fault
    /\ severed' = severed \union {<<w, j>>}
    /\ Abandon({<<w, j>>})
    /\ UNCHANGED <<pc, lent, requests, borrows>>

\* The worker dies and a fresh one takes its place.
Crash(w) ==
    /\ Fault
    /\ pc' = [pc EXCEPT ![w] = [j \in Jobs |-> "idle"]]
    /\ lent' = [lent EXCEPT ![w] = 0]
    /\ requests' = [requests EXCEPT ![w] = 0]
    /\ severed' = severed \ ({w} \X Jobs)
    /\ Abandon({w} \X Jobs)
    /\ UNCHANGED borrows

ServerNotices(j) ==
    /\ j \in orphans
    /\ orphans' = orphans \ {j}
    /\ UNCHANGED <<pc, held, severed, lent, requests, borrows, faults>>

Run(w, j) ==
    \/ Acquire(w, j)
    \/ TryLock(w, j)
    \/ Skip(w, j)
    \/ WantModel(w, j)
    \/ LoadModel(w, j)
    \/ Work(w, j)
    \/ Unlock(w, j)
    \/ Release(w, j)
    \/ Raise(w, j)

Next ==
    \/ \E w \in Workers, j \in Jobs :
        Tick(w, j) \/ Run(w, j) \/ LoadFails(w, j) \/ LoseConnection(w, j)
    \/ \E w \in Workers : Borrow(w) \/ Return(w) \/ Crash(w)
    \/ \E j \in Jobs : ServerNotices(j)

Spec == Init /\ [][Next]_vars

(***************************************************************************)
(* A coroutine that can go on is resumed by the event loop, a request ends *)
(* within command_timeout, and the server notices a dead client.  Waiting  *)
(* for a connection is strongly fair: the pool wakes its waiters in order  *)
(* of arrival, and a newcomer overtakes one only when it asks in the very  *)
(* loop iteration in which a connection comes back.  Nothing is assumed of *)
(* the scheduler's ticks.                                                  *)
(***************************************************************************)
Fairness ==
    /\ \A w \in Workers, j \in Jobs :
        WF_vars(Run(w, j)) /\ SF_vars(Acquire(w, j) \/ WantModel(w, j))
    /\ \A w \in Workers : WF_vars(Return(w))
    /\ \A j \in Jobs : WF_vars(ServerNotices(j))

FairSpec == Spec /\ Fairness

-----------------------------------------------------------------------------
\* The job holds its lock, as far as its code can know.
InLock == {"wantsModel", "loadsModel", "working", "unlocking"}

\* It can also execute a statement of its body.
Inside(w, j) == pc[w][j] \in InLock /\ Connected(w, j)

TypeOK ==
    /\ pc \in [Workers -> [Jobs -> Places]]
    /\ held \in [Sessions -> [Jobs -> Nat]]
    /\ severed \subseteq Workers \X Jobs
    /\ orphans \subseteq Jobs
    /\ lent \in [Workers -> 0..PoolSize]
    /\ requests \in [Workers -> 0..PoolSize]
    /\ borrows \in 0..MaxBorrows
    /\ faults \in 0..MaxFaults

\* At most one process can read and write the tables of a job: a run that has
\* lost its lock unawares has lost with it the connection over which all the
\* statements of its body go (service.py:280-289, 445-519), however late it
\* notices.
OneWriter ==
    \A j \in Jobs : \A v, w \in Workers : Inside(v, j) /\ Inside(w, j) => v = w

\* What the comment promises of OneWriter without its exception ("keeps the
\* fusion job single-flight even across processes", service.py:34-35): fails
\* through a pooler, and between the loss of a connection and its notice.
SingleFlight ==
    \A j \in Jobs : \A v, w \in Workers :
        pc[v][j] \in InLock /\ pc[w][j] \in InLock => v = w

\* A lock that some session's client holds protects a run of its job that is
\* inside: no session keeps a lock after its run has unlocked, failed or lost
\* its connection (the `finally` of service.py:290-291 and 520-521).
NoStrayLock ==
    \A s \in Sessions, j \in Jobs : held[s][j] > 0 =>
        \E w \in Workers : Inside(w, j)

\* The connections in use are those of the runs and of the requests: none
\* leaks when a run is skipped, fails or loses its connection.
Connections(w) ==
    Cardinality({j \in Jobs : pc[w][j] \in HasConnection})
    + Cardinality({j \in Jobs : pc[w][j] = "loadsModel"})
PoolAccounted == \A w \in Workers : lent[w] = Connections(w) + requests[w]

\* Every run ends, although the fusion job waits for a second connection
\* while it keeps its first one (service.py:280-286).
EveryRunEnds ==
    \A w \in Workers, j \in Jobs : pc[w][j] = "acquiring" ~> pc[w][j] = "idle"

=============================================================================
