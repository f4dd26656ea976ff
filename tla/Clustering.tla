----------------------------- MODULE Clustering -----------------------------
(***************************************************************************)
(* The clustering job (fusion/service.py:294-521): read the members, label *)
(* them with DBSCAN, and match every labelled group with the nearest       *)
(* existing cluster or insert a new one, in one transaction; while         *)
(* detections arrive and leave the window, and an administrator marks      *)
(* clusters as repaired, between runs or during one.  One run at a time:   *)
(* see OneWriter in JobLock.                                               *)
(*                                                                         *)
(* Places are points of a line, with distances in the unit of Eps;         *)
(* client_ids are numbers.  A cluster's id is the position of its row.     *)
(***************************************************************************)
EXTENDS Integers, Sequences, FiniteSets, FiniteSetsExt, Functions

CONSTANTS
    Observations,  \* client_ids
    Obs,           \* [Observations -> [device, ts, place, weight]]
    Eps,           \* settings.cluster_eps_m
    EpsUnits,      \* what eps_units comes to on the ground: less than Eps
                   \* where the latitude is above the mean of the members
    MinPoints,     \* settings.cluster_min_points
    RepairTimes,   \* dates an administrator may give to a repair
    MaxRepairs,    \* bound on the clusters marked as repaired
    MaxFaults      \* bound on failed runs

ASSUME IdsAssumption == Observations \subseteq Nat /\ IsFiniteSet(Observations)
ASSUME ObsAssumption ==
    Obs \in [Observations -> [device : Nat, ts : Nat, place : Nat, weight : Nat \ {0}]]
ASSUME BoundsAssumption ==
    /\ Eps \in Nat /\ EpsUnits \in Nat /\ MinPoints \in Nat \ {0}
    /\ RepairTimes \subseteq Nat /\ MaxRepairs \in Nat /\ MaxFaults \in Nat

Never == -1    \* repaired_at IS NULL
New == 0       \* no existing cluster matches

VARIABLES
    detected,  \* observations scored as potholes, or fused with confidence
    expired,   \* those that have left cluster_window_days
    clusters,  \* committed rows of asset_cluster, with their links
    pc,        \* where the run stands
    found,     \* the labelled groups it writes, in order
    done,      \* how many of them it has written
    target,    \* the row it has found for the next one
    matched,   \* the rows this run has written
    draft,     \* asset_cluster as its open transaction sees it
    last,      \* history: `found` of the last commit, if no repair followed
    late,      \* history: rows repaired since this run has read its members
    raced,     \* history: those that were its target then
    faults

runVars == <<pc, found, done, target, matched, draft>>
history == <<last, late, raced>>
vars == <<detected, expired, clusters, runVars, history, faults>>

Stages == {"idle", "counting", "labelling", "finding", "writing"}

Init ==
    /\ detected = {}
    /\ expired = {}
    /\ clusters = <<>>
    /\ pc = "idle"
    /\ found = <<>> /\ done = 0 /\ target = New /\ matched = {} /\ draft = <<>>
    /\ last = <<>> /\ late = {} /\ raced = {}
    /\ faults = 0

(***************************************************************************)
(* Meanwhile.                                                              *)
(***************************************************************************)
\* An observation is scored, or fused, and committed.  Its timestamp is the
\* device's, whose clock may be ahead.
Detect(o) ==
    /\ o \notin detected
    /\ detected' = detected \union {o}
    /\ UNCHANGED <<expired, clusters, runVars, history, faults>>

\* received_at > now() - make_interval(days => window) is no longer true.
Expire(o) ==
    /\ o \in detected \ expired
    /\ expired' = expired \union {o}
    /\ UNCHANGED <<detected, clusters, runVars, history, faults>>

InTransaction == pc \in {"finding", "writing"}

Repaired(S) == {c \in DOMAIN S : S[c].repaired # Never}

\* A row that the open transaction has written is locked until it ends.
Repair(c, t) ==
    /\ c \in DOMAIN clusters \ (Repaired(clusters) \union matched)
    /\ Cardinality(Repaired(clusters)) < MaxRepairs
    /\ clusters' = [clusters EXCEPT ![c].repaired = t]
    /\ draft' = IF c \in DOMAIN draft THEN [draft EXCEPT ![c].repaired = t] ELSE draft
    /\ last' = <<>>
    /\ late' = IF InTransaction THEN late \union {c} ELSE late
    /\ raced' = IF target = c THEN raced \union {c} ELSE raced
    /\ UNCHANGED <<detected, expired, pc, found, done, target, matched, faults>>

-----------------------------------------------------------------------------
Distance(p, q) == IF p >= q THEN p - q ELSE q - p
Near(a, b) == Distance(Obs[a].place, Obs[b].place) <= EpsUnits

\* o is explained by a repaired cluster, and cannot resurrect its defect.
Explained(o) ==
    \E c \in Repaired(clusters) :
        /\ clusters[c].repaired >= Obs[o].ts
        /\ Distance(clusters[c].centroid, Obs[o].place) <= Eps

\* Mutant of Members: repairs are not looked at.
MembersRegardless == detected \ expired

Members == {o \in detected \ expired : ~Explained(o)}

Start ==
    /\ pc = "idle"
    /\ pc' = "counting"
    /\ UNCHANGED <<detected, expired, clusters, found, done, target, matched, draft,
                   history, faults>>

\* Mutant of Count: "at least" read as "more than".
CountBeyond ==
    /\ pc = "counting"
    /\ pc' = IF Cardinality(Members) <= MinPoints THEN "idle" ELSE "labelling"
    /\ UNCHANGED <<detected, expired, clusters, found, done, target, matched, draft,
                   history, faults>>

\* "Cluster gate not met"
Count ==
    /\ pc = "counting"
    /\ pc' = IF Cardinality(Members) < MinPoints THEN "idle" ELSE "labelling"
    /\ UNCHANGED <<detected, expired, clusters, found, done, target, matched, draft,
                   history, faults>>

(***************************************************************************)
(* ST_ClusterDBSCAN: core points that are near each other, directly or     *)
(* through core points, have the same label; a border point has the label  *)
(* of one of the core points it is near to.                                *)
(***************************************************************************)
Cores(M) == {a \in M : Cardinality({b \in M : Near(a, b)}) >= MinPoints}

Joined(a, b, K) ==
    \A S \in SUBSET K :
        (a \in S /\ \A x \in S, y \in K : Near(x, y) => y \in S) => b \in S

Labels(M) == {{b \in Cores(M) : Joined(a, b, Cores(M))} : a \in Cores(M)}

NearSome(a, S) == \E b \in S : Near(a, b)

Labellings(M) ==
    LET Border == {a \in M \ Cores(M) : NearSome(a, Cores(M))}
        Assigned == {h \in [Border -> Labels(M)] : \A a \in Border : NearSome(a, h[a])}
    IN  {{L \union {a \in Border : h[a] = L} : L \in Labels(M)} : h \in Assigned}

\* GREATEST(confidence, 0.001): weights are positive.
Weights(G) == SumFunctionOnSet([o \in Observations |-> Obs[o].weight], G)
Moments(G) == SumFunctionOnSet([o \in Observations |-> Obs[o].place * Obs[o].weight], G)
Centroid(G) == Moments(G) \div Weights(G)

\* Mutant of Summary: the devices are counted once per observation.
SummaryPerObservation(G, date) ==
    [centroid |-> Centroid(G), count |-> Cardinality(G), devices |-> Cardinality(G),
     lastSeen |-> Max({Obs[o].ts : o \in G}), links |-> G, repaired |-> date]

\* The row of a group.
Summary(G, date) ==
    [centroid |-> Centroid(G),
     count |-> Cardinality(G),
     devices |-> Cardinality({Obs[o].device : o \in G}),
     lastSeen |-> Max({Obs[o].ts : o \in G}),
     links |-> G,
     repaired |-> date]

\* The members are read again, labelled, and the transaction begins.
Label ==
    /\ pc = "labelling"
    /\ \E groups \in Labellings(Members) :
        \E order \in [1..Cardinality(groups) -> groups] :
            /\ \A i, k \in DOMAIN order : i < k => Min(order[i]) < Min(order[k])
            /\ found' = order
    /\ done' = 0
    /\ matched' = {}
    /\ draft' = clusters
    /\ pc' = "finding"
    /\ UNCHANGED <<detected, expired, clusters, target, history, faults>>

-----------------------------------------------------------------------------
Group == found[done + 1]
DistanceTo(c) == Distance(draft[c].centroid, Centroid(Group))

\* Mutant of Candidates: repaired rows are matched too.
CandidatesRepairedToo == {c \in DOMAIN draft \ matched : DistanceTo(c) <= Eps}

\* Rows of _FIND_EXISTING_SQL, before it orders and limits them.
Candidates ==
    {c \in DOMAIN draft \ (Repaired(draft) \union matched) : DistanceTo(c) <= Eps}

\* Mutant of Nearest: any row within reach.
NearestOrNot(C) == C

\* cluster_ids are random: any of the nearest may be the first.
Nearest(C) == {c \in C : \A d \in C : DistanceTo(c) <= DistanceTo(d)}

\* Mutant of Find: rows that this run has written are matched again.
FindAgain ==
    /\ pc = "finding" /\ done < Len(found)
    /\ LET C == {c \in DOMAIN draft \ Repaired(draft) : DistanceTo(c) <= Eps}
       IN  \/ C = {} /\ target' = New
           \/ target' \in Nearest(C)
    /\ pc' = "writing"
    /\ UNCHANGED <<detected, expired, clusters, found, done, matched, draft, history, faults>>

Find ==
    /\ pc = "finding" /\ done < Len(found)
    /\ \/ Candidates = {} /\ target' = New
       \/ target' \in Nearest(Candidates)
    /\ pc' = "writing"
    /\ UNCHANGED <<detected, expired, clusters, found, done, matched, draft, history, faults>>

\* UPDATE asset_cluster, DELETE and INSERT of its links.
Rewrite(row, G) == Summary(G, row.repaired)

Write ==
    /\ pc = "writing"
    /\ IF target = New
       THEN /\ draft' = Append(draft, Summary(Group, Never))
            /\ matched' = matched \union {Len(draft) + 1}
       ELSE /\ draft' = [draft EXCEPT ![target] = Rewrite(@, Group)]
            /\ matched' = matched \union {target}
    /\ done' = done + 1
    /\ target' = New
    /\ pc' = "finding"
    /\ UNCHANGED <<detected, expired, clusters, found, history, faults>>

\* Mutant of EndRun: `matched` outlives the run.
EndRunKeepingMatched ==
    /\ pc' = "idle"
    /\ found' = <<>> /\ done' = 0 /\ target' = New /\ draft' = <<>>
    /\ late' = {} /\ raced' = {}
    /\ UNCHANGED matched

EndRun ==
    /\ pc' = "idle"
    /\ found' = <<>> /\ done' = 0 /\ target' = New /\ matched' = {} /\ draft' = <<>>
    /\ late' = {} /\ raced' = {}

Commit ==
    /\ pc = "finding" /\ done = Len(found)
    /\ clusters' = draft
    /\ last' = IF late = {} THEN found ELSE <<>>
    /\ EndRun
    /\ UNCHANGED <<detected, expired, faults>>

\* A statement raises or the process dies: the transaction is rolled back.
Fail ==
    /\ pc # "idle"
    /\ faults < MaxFaults
    /\ faults' = faults + 1
    /\ EndRun
    /\ UNCHANGED <<detected, expired, clusters, last>>

Run == Start \/ Count \/ Label \/ Find \/ Write \/ Commit

Next ==
    \/ Run
    \/ Fail
    \/ \E o \in Observations : Detect(o) \/ Expire(o)
    \/ \E c \in DOMAIN clusters, t \in RepairTimes : Repair(c, t)

Spec == Init /\ [][Next]_vars

\* The scheduler starts a run at every interval, and a run goes on.
FairSpec == Spec /\ WF_vars(Run)

-----------------------------------------------------------------------------
Row == [centroid : Nat, count : Nat, devices : Nat, lastSeen : Nat,
        links : SUBSET Observations, repaired : {Never} \union RepairTimes]

\* Variables have their types, and rows are added to the table, never removed.
TypeOK ==
    /\ faults \in 0 .. MaxFaults
    /\ expired \subseteq detected /\ detected \subseteq Observations
    /\ \A c \in DOMAIN clusters : clusters[c] \in Row
    /\ \A c \in DOMAIN draft : draft[c] \in Row
    /\ pc \in Stages
    /\ done \in 0 .. Len(found)
    /\ target \in {New} \union DOMAIN draft
    /\ raced \subseteq late /\ late \subseteq Repaired(clusters)
    /\ matched \subseteq DOMAIN draft
    /\ pc \in {"finding", "writing"} => Len(draft) >= Len(clusters)

\* A stored cluster's observation_count, distinct_devices and last_seen are
\* those of the observations it links to, through inserts, rewrites of a row
\* for a changed group, merges and failed runs (service.py:497-513).
SummaryMatchesLinks ==
    \A c \in DOMAIN clusters :
        LET row == clusters[c]
        IN  /\ row.links # {}
            /\ row.count = Cardinality(row.links)
            /\ row.devices = Cardinality({Obs[o].device : o \in row.links})
            /\ \E o \in row.links : Obs[o].ts = row.lastSeen
            /\ \A o \in row.links : Obs[o].ts <= row.lastSeen

\* When a run commits, each group that DBSCAN found has a row of its own that
\* links to exactly its members: no group takes the row that an earlier one
\* was just given, however near they are (`matched`, service.py:400, 509).
GroupsKeepApart ==
    pc = "finding" /\ done = Len(found) =>
        /\ Cardinality(matched) = Len(found)
        /\ {draft[c].links : c \in matched} = {found[i] : i \in DOMAIN found}

\* A run that finds what the last one found leaves every row as it is: no
\* cluster is duplicated, and none changes its identity with another one
\* (tests/test_cluster_db.py:72-93), whatever stale rows lie near by.
StableIdentity ==
    pc = "finding" /\ done = Len(found) /\ found = last => draft = clusters

\* Detections from before a repair do not bring the defect back: what a run
\* writes is not linked to a cluster that was repaired before it read its
\* members, unless the detection is later than the repair, or a chain of
\* others has carried it further than Eps from the cluster (service.py:324-333).
NoResurrection ==
    \A c \in matched, r \in Repaired(clusters) \ late :
        \A o \in clusters[r].links \intersect draft[c].links :
            \/ Obs[o].ts > clusters[r].repaired
            \/ Distance(clusters[r].centroid, Obs[o].place) > Eps

\* The same without the two exceptions: "A member already explained by a
\* nearby repaired cluster ... is excluded so it cannot resurrect the repaired
\* defect" (service.py:324-327) does not hold that far.
NeverResurrected ==
    \A c \in matched : \A r \in Repaired(clusters) \ {c} :
        \A o \in clusters[r].links \intersect draft[c].links :
            Obs[o].ts > clusters[r].repaired

\* No run takes a repair back, and a run rewrites a repaired row only if the
\* repair came between its look for the row and its UPDATE, which does not
\* look at repaired_at again (service.py:395, 485-497).
RepairedUntouched ==
    [][\A r \in Repaired(clusters) :
           \/ clusters'[r] = clusters[r]
           \/ r \in raced /\ clusters'[r].repaired = clusters[r].repaired]_vars

\* "the repaired cluster is preserved" (docs/phase-2.2-clustering-plan.md:63-64),
\* whenever it is marked.
AlwaysPreserved ==
    [][\A r \in Repaired(clusters) : clusters'[r] = clusters[r]]_vars

\* Once detections stop arriving, every observation in a dense enough spot is
\* linked to a cluster for good, however runs fail in between.
DetectionsGetClustered ==
    <>[](\A o \in Cores(Members) : \E c \in DOMAIN clusters : o \in clusters[c].links)
=============================================================================
