----------------------------- MODULE RateLimit ------------------------------
(***************************************************************************)
(* The sliding-window rate limiter (middleware/rate_limit.py): per process *)
(* and device a list of time buckets, pruned and charged on every request. *)
(* Both resources ("events" and "frames") have such a store and a limit;   *)
(* the module is about one of them.  The lock makes a check one step.      *)
(***************************************************************************)
EXTENDS Integers, Sequences, FiniteSets, Functions

CONSTANTS
    Workers,     \* server processes, each with its own store
    Devices,     \* values of the X-Device-Id header
    Counts,      \* numbers of items a request may have
    Limit,       \* settings.rate_limit_events_per_hour
    Window,      \* _WINDOW_SECONDS
    Bucket,      \* _BUCKET_SECONDS
    MaxTime,     \* bound on the clock
    MaxPerSecond \* bound on the items a worker is asked for in one second

ASSUME WorkersAssumption == IsFiniteSet(Workers)
ASSUME LimitAssumption == Limit \in Nat /\ Counts \subseteq Nat \ {0}
ASSUME TimeAssumption ==
    /\ Bucket \in Nat \ {0}
    /\ Window \in Nat /\ Window >= Bucket
    /\ MaxTime \in Nat /\ MaxPerSecond \in Nat

Times == 0..MaxTime

VARIABLES
    now,         \* time.time()
    buckets,     \* [Workers -> [Devices -> sequence of [ts, count]]]
    charged,     \* history: [Workers -> [Devices -> [Times -> items]]]
    admitted     \* history: the items of it that were let through

vars == <<now, buckets, charged, admitted>>

Init ==
    /\ now = 0
    /\ buckets = [w \in Workers |-> [d \in Devices |-> <<>>]]
    /\ charged = [w \in Workers |-> [d \in Devices |-> [t \in Times |-> 0]]]
    /\ admitted = charged

Wait ==
    /\ now < MaxTime
    /\ now' = now + 1
    /\ UNCHANGED <<buckets, charged, admitted>>

-----------------------------------------------------------------------------
\* _get_current_count, of a list that is pruned.
Total(b) == SumFunction([i \in DOMAIN b |-> b[i].count])

\* The buckets of b that start at a moment or later, in order.
Since(b, cutoff) ==
    LET kept[i \in 0..Len(b)] ==
            IF i = 0 THEN <<>>
            ELSE IF b[i].ts >= cutoff THEN Append(kept[i - 1], b[i]) ELSE kept[i - 1]
    IN  kept[Len(b)]

\* Mutant of Live: a bucket is kept until its last second has left.
LiveToItsEnd(b) == Since(b, now - Window - Bucket + 1)

\* The buckets that start within the window.
Live(b) == Since(b, now - Window)

CurrentTs == (now \div Bucket) * Bucket

\* Mutant of Charge: every request opens a bucket of its own.
ChargeApart(b, n) == Append(Live(b), [ts |-> CurrentTs, count |-> n])

\* _prune_and_increment: add n to the current bucket.
Charge(b, n) ==
    LET live == Live(b)
        last == Len(live)
    IN  IF live # <<>> /\ live[last].ts = CurrentTs
        THEN [live EXCEPT ![last].count = @ + n]
        ELSE Append(live, [ts |-> CurrentTs, count |-> n])

(***************************************************************************)
(* check_rate_limit: the request is charged first and refused with a 429   *)
(* afterwards, so that refused requests count too.                         *)
(***************************************************************************)

\* Mutant of Check: what was charged before decides.
CheckBefore(w, d, n) ==
    /\ charged[w][d][now] + n <= MaxPerSecond
    /\ buckets' = [buckets EXCEPT ![w][d] = Charge(@, n)]
    /\ charged' = [charged EXCEPT ![w][d][now] = @ + n]
    /\ admitted' = [admitted EXCEPT ![w][d][now] =
                        IF Total(Live(buckets[w][d])) >= Limit THEN @ ELSE @ + n]
    /\ UNCHANGED now

Check(w, d, n) ==
    /\ charged[w][d][now] + n <= MaxPerSecond
    /\ buckets' = [buckets EXCEPT ![w][d] = Charge(@, n)]
    /\ charged' = [charged EXCEPT ![w][d][now] = @ + n]
    /\ admitted' = [admitted EXCEPT ![w][d][now] =
                        IF Total(Charge(buckets[w][d], n)) > Limit THEN @ ELSE @ + n]
    /\ UNCHANGED now

Next ==
    \/ Wait
    \/ \E w \in Workers, d \in Devices, n \in Counts : Check(w, d, n)

Spec == Init /\ [][Next]_vars

-----------------------------------------------------------------------------
\* The items of a history from one moment to another.
Items(h, from, to) == SumFunctionOnSet(h, {t \in Times : from <= t /\ t <= to})

\* A list of buckets is in order, aligned, and never longer than the window
\* has buckets, however often and irregularly the device calls.
WellFormed(b) ==
    /\ \A i \in DOMAIN b : b[i].ts % Bucket = 0 /\ b[i].ts <= now /\ b[i].count > 0
    /\ \A i, j \in DOMAIN b : i < j => b[i].ts < b[j].ts
    /\ Len(b) <= Window \div Bucket + 1

TypeOK ==
    /\ now \in Times
    /\ \A w \in Workers, d \in Devices : WellFormed(buckets[w][d])
    /\ charged \in [Workers -> [Devices -> [Times -> 0..MaxPerSecond]]]
    /\ admitted \in [Workers -> [Devices -> [Times -> 0..MaxPerSecond]]]

\* The bucketed count lies between two exact sliding windows: it forgets a
\* request at most one bucket early, and never remembers one longer than
\* the window (rate_limit.py:31-57).
CountIsWindowed ==
    \A w \in Workers, d \in Devices :
        LET total == Total(Live(buckets[w][d]))
        IN  /\ Items(charged[w][d], now - Window + Bucket - 1, now) <= total
            /\ total <= Items(charged[w][d], now - Window, now)

\* No device gets more than the limit through a process in a window that is
\* one bucket short of the documented one (rate_limit.py:79-94).
LimitHolds ==
    \A w \in Workers, d \in Devices, t \in Times :
        Items(admitted[w][d], t - (Window - Bucket), t) <= Limit

\* "100 events/hour per device" (rate_limit.py:8): in no window of an hour
\* does a device get more than the limit through.
HourlyLimit ==
    \A d \in Devices, t \in Times :
        SumFunction([w \in Workers |-> Items(admitted[w][d], t - Window + 1, t)]) <= Limit
=============================================================================
