--------------------------- MODULE MCGroupReduce ----------------------------
(***************************************************************************)
(* Instances of GroupReduce for TLC: all vectors of up to MaxRuns runs     *)
(* over up to MaxRows rows, with null runs and null rows.                  *)
(***************************************************************************)
EXTENDS GroupReduce

CONSTANTS MaxRuns, MaxRows

(* Run ends rise strictly, and the last is the number of rows.             *)
RunEnds(runs) ==
  {e \in [0 .. runs - 1 -> 1 .. MaxRows] : \A j, k \in 0 .. runs - 1 : j < k => e[j] < e[k]}

(* The keys of the runs are 1, 3, 5, ...; the first run is not null.       *)
RunVector(runs, null) ==
  [len    |-> runs,
   cells  |-> [k \in 0 .. runs - 1 |-> [key |-> 2 * k + 1, valid |-> k \notin null]],
   before |-> [key |-> 0, valid |-> TRUE],
   after  |-> [key |-> 2 * runs + 1, valid |-> TRUE]]

GroupQueries ==
  UNION {UNION {[v : {RunVector(runs, null) : null \in SUBSET (1 .. runs - 1)}, run_ends : {e},
                 rows : [0 .. e[runs - 1] - 1 -> BOOLEAN]] :
                e \in RunEnds(runs)} :
         runs \in 1 .. MaxRuns}

ASSUME GroupedAssumption == \A query \in GroupQueries : IsGrouped(query)
=============================================================================
