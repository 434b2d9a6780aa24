---------------------------- MODULE GroupReduce -----------------------------
(***************************************************************************)
(* A reduction inside a loop: an Op over the keys of a two-dimensional     *)
(* vector, one of whose outputs reduces the rows grouped under the key.    *)
(*                                                                         *)
(* The first column is run-end encoded.  Run k holds key k of the vector   *)
(* and the rows from run end k-1 up to run end k, the SubVector that       *)
(* LoopGen::visit(Element) makes of vec[t].  The body of the outer loop,   *)
(* one step in LoopGen, is here the loop that LoopGen::visit(Reduce)       *)
(* generates, with the most general accumulator: it remembers, in order,   *)
(* every row it was given.                                                 *)
(*                                                                         *)
(* A query has fields  v  (the keys, a vector),  run_ends  (by run) and    *)
(* rows  (whether a row of the other columns is not null).                 *)
(***************************************************************************)
EXTENDS LoopGen, Sequences

(* A vector that is sorted, whose first key the index has, its runs' ends  *)
(* rising to the number of rows.                                           *)
IsGrouped(query) ==
  LET last == query.v.len - 1
  IN  /\ IsVector(query.v) /\ Sorted(query.v)
      /\ last >= 0 /\ Located(query.v, query.v.cells[0].key)
      /\ query.run_ends \in [0 .. last -> Nat \ {0}]
      /\ \A j, k \in 0 .. last : j < k => query.run_ends[j] < query.run_ends[k]
      /\ query.rows \in [0 .. query.run_ends[last] - 1 -> BOOLEAN]

VARIABLES
  phase,      (* "idle", "reducing", or "reduced": where the body stands.    *)
  red_idx,    (* *red_idx_addr                                               *)
  state,      (* *state_addr                                                 *)
  sums        (* The column the reductions are written to, by position.      *)

redvars == <<phase, red_idx, state, sums>>

GroupSpace(query) == VecSpace("v", query.v)
GroupAnswer(query) == Keys(query.v)

(* Slips: a run from the end of the run before the last, and a run with    *)
(* the first row of the next.                                              *)
StartEarly == IF idx < 2 THEN 0 ELSE q.run_ends[idx - 2]
EndLate == q.run_ends[idx] + 1

(* read_runend_buf: before the first run, rows end at 0.                   *)
RunEnd(k) == IF k < 0 THEN 0 ELSE q.run_ends[k]
Start == RunEnd(idx - 1)
End == RunEnd(idx)

(* ReadBit of column 1.                                                    *)
RowValid(i) == q.rows[i]

(* The value the accumulator is given is the row itself.                   *)
Accumulate == Append(state, red_idx)

GInit ==
  /\ Init
  /\ phase = "idle"
  /\ red_idx = 0
  /\ state = <<>>
  /\ sums = Empty

(* Slip: the state of the last reduction is kept.                          *)
BeginStale ==
  /\ pc = "body"
  /\ phase = "idle"
  /\ vectorize \/ space.iter_cond[idx]
  /\ phase' = "reducing"
  /\ red_idx' = Start
  /\ UNCHANGED <<vars, state, sums>>

(* loop->init of the reduction.  Vectorized, rows that will be null reduce *)
(* their run too.                                                          *)
Begin ==
  /\ pc = "body"
  /\ phase = "idle"
  /\ vectorize \/ space.iter_cond[idx]
  /\ phase' = "reducing"
  /\ red_idx' = Start
  /\ state' = <<>>
  /\ UNCHANGED <<vars, sums>>

(* One row: IfElse(body_cond, ...) scalar, a Select of the old state       *)
(* vectorized, to the same effect.                                         *)
Accept ==
  /\ phase = "reducing"
  /\ red_idx < End
  /\ state' = IF RowValid(red_idx) THEN Accumulate ELSE state
  /\ red_idx' = red_idx + 1
  /\ UNCHANGED <<vars, phase, sums>>

(* Slip: the exit one row too late.                                        *)
FinishAfter ==
  /\ phase = "reducing"
  /\ red_idx > End
  /\ phase' = "reduced"
  /\ UNCHANGED <<vars, red_idx, state, sums>>

(* exit_cond of the reduction.                                             *)
Finish ==
  /\ phase = "reducing"
  /\ red_idx >= End
  /\ phase' = "reduced"
  /\ UNCHANGED <<vars, red_idx, state, sums>>

(* The rest of the outer body, which writes the state into its column.     *)
Write ==
  /\ phase = "reduced"
  /\ ScalarBody \/ VectorBody
  /\ sums' = Store(sums, out_vec_idx, state)
  /\ phase' = "idle"
  /\ UNCHANGED <<red_idx, state>>

(* The outer body skipped.                                                 *)
Skip ==
  /\ phase = "idle"
  /\ ~space.iter_cond[idx]
  /\ ScalarBody
  /\ UNCHANGED redvars

Outer == (Continue \/ Break \/ Incr \/ Post) /\ UNCHANGED redvars

GNext == Begin \/ Accept \/ Finish \/ Write \/ Skip \/ Outer
GSpec == GInit /\ [][GNext]_<<vars, redvars>> /\ WF_<<vars, redvars>>(GNext)

-----------------------------------------------------------------------------
(* The run a row belongs to: as many runs end at or before it.             *)
RunOf(row) == Cardinality({k \in DOMAIN q.run_ends : q.run_ends[k] <= row})

(* The rows a reduction of the run at key t must see.                      *)
Expected(t) == {row \in DOMAIN q.rows : q.rows[row] /\ q.v.cells[RunOf(row)].key = t}

Ascending(s) == \A i, j \in DOMAIN s : i < j => s[i] < s[j]
Seen(s) == {s[i] : i \in DOMAIN s}

(* Each valid output row holds the reduction of exactly its own run's rows *)
(* that are not null, in order: no state is left over from another run.    *)
GroupsExact ==
  pc = "done" => \A i \in ValidRows :
    Ascending(sums[i]) /\ Seen(sums[i]) = Expected(out_vec[i].iter)

(* No row is reduced twice, be it for different outputs or for null ones.  *)
EachRowOnce ==
  \A i, j \in DOMAIN sums : i < j =>
    \A a \in Seen(sums[i]), b \in Seen(sums[j]) : a < b

(* A reduction reads rows of its vector only.                              *)
NoStrayRow == phase = "reducing" /\ red_idx < End => red_idx \in DOMAIN q.rows

(* And the nest of loops ends.                                             *)
Ends == <>(pc = "done")
=============================================================================
