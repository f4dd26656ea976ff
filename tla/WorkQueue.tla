----------------------------- MODULE WorkQueue -----------------------------
(***************************************************************************)
(* What the fusion job promises to its two tables (fusion/service.py:      *)
(* 102-122): a row without a mark is work to do, a batch of work is        *)
(* finished in one step together with its outcomes, and what is finished   *)
(* is final, whatever runs fail, are repeated or overlap with uploads.     *)
(***************************************************************************)
CONSTANTS
    Items,     \* rows that may ever be stored
    Outcomes,  \* what finished work may leave behind
    Unset,     \* the outcome of a row without a mark
    Batches    \* sets of rows that one run may finish

VARIABLES
    present,   \* the rows that are stored
    done,      \* those with a mark
    outcome    \* what is kept of each of them

queueVars == <<present, done, outcome>>

Init ==
    /\ present = {}
    /\ done = {}
    /\ outcome = [i \in Items |-> Unset]

Arrive(i) ==
    /\ i \in Items \ present
    /\ present' = present \union {i}
    /\ UNCHANGED <<done, outcome>>

Finish(S) ==
    /\ S \subseteq present \ done
    /\ done' = done \union S
    /\ \A i \in Items \ S : outcome'[i] = outcome[i]
    /\ \A i \in S : outcome'[i] \in Outcomes
    /\ UNCHANGED present

Next ==
    \/ \E i \in Items : Arrive(i)
    \/ \E S \in Batches : Finish(S)

Spec == Init /\ [][Next]_queueVars
=============================================================================
