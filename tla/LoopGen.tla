------------------------------ MODULE LoopGen -------------------------------
(***************************************************************************)
(* The loop LoopGen generates for an Op, in the shape CanonPass and the    *)
(* emitters give it:                                                       *)
(*                                                                         *)
(*     init;  while (1) { if (exit_cond) break;  body;  incr; }  post      *)
(*                                                                         *)
(* in both code paths: scalar, where body_cond guards the body, and        *)
(* vectorized, where every iteration writes a row and records in a byte    *)
(* map whether the row counts, the bitmap being built afterwards by        *)
(* finalize_vector.                                                        *)
(***************************************************************************)
EXTENDS IterSpace, FiniteSets

CONSTANTS
  Queries,      (* The compiled queries, each with the vectors it is run on. *)
  SpaceOf(_),   (* The iteration space LoopGen::build_loop got for a query.  *)
  AnswerOf(_)   (* The values the query's predicate holds of.                *)

VARIABLES
  q,            (* The query that runs.                                      *)
  vectorize,    (* LoopGen::_vectorize.                                      *)
  pc,           (* The block of the loop that runs next.                     *)
  idx,          (* *idx_addr                                                 *)
  out_vec_idx,  (* *_out_vec_idx_addr                                        *)
  null_count,   (* *_null_count                                              *)
  out_vec,      (* The rows written, by position.                            *)
  bytemap,      (* _bytemap, by position (vectorized only).                  *)
  out_len,      (* The length the output array states.                       *)
  out_bits      (* Its validity bitmap, by position; with no position it is  *)
                (* the null bitmap, by which every row is valid.             *)

vars == <<q, vectorize, pc, idx, out_vec_idx, null_count, out_vec, bytemap,
          out_len, out_bits>>

space == SpaceOf(q)

(* A buffer on which nothing is written yet, and one more write.           *)
Empty == [i \in {} |-> 0]
Store(buf, i, x) == [j \in DOMAIN buf \union {i} |-> IF j = i THEN x ELSE buf[j]]

(* What one iteration computes: the iterator, and for each vector the row  *)
(* its Element expressions read through _vec_iter_idx_map.                 *)
Output == [iter |-> space.idx_to_iter[idx], elems |-> space.vec_iter_idxs[idx]]

-----------------------------------------------------------------------------
(* loop->init, run once: lb is evaluated, the index stored.                *)
Init ==
  /\ q \in Queries
  /\ vectorize \in BOOLEAN
  /\ pc = "exit_cond"
  /\ idx \in {space.iter_to_idx[lb] : lb \in space.lower_bound}
  /\ out_vec_idx = 0
  /\ null_count = 0
  /\ out_vec = Empty
  /\ bytemap = Empty
  /\ out_len = 0
  /\ out_bits = Empty

(* The loop goes on, or breaks when the space is no longer alive.          *)
Continue ==
  /\ pc = "exit_cond"
  /\ space.is_alive[idx]
  /\ pc' = "body"
  /\ UNCHANGED <<q, vectorize, idx, out_vec_idx, null_count, out_vec, bytemap,
                 out_len, out_bits>>

Break ==
  /\ pc = "exit_cond"
  /\ ~space.is_alive[idx]
  /\ pc' = "post"
  /\ UNCHANGED <<q, vectorize, idx, out_vec_idx, null_count, out_vec, bytemap,
                 out_len, out_bits>>

(* Every _writedata of the row, then the store of out_vec_idx + 1.         *)
WriteRow ==
  /\ out_vec' = Store(out_vec, out_vec_idx, Output)
  /\ out_vec_idx' = out_vec_idx + 1

(* Slip: the body without its condition.                                   *)
ScalarBodyAlways ==
  /\ pc = "body"
  /\ ~vectorize
  /\ WriteRow
  /\ pc' = "incr"
  /\ UNCHANGED <<q, vectorize, idx, null_count, bytemap, out_len, out_bits>>

(* Scalar: IfElse(body_cond, body, noop).                                  *)
ScalarBody ==
  /\ pc = "body"
  /\ ~vectorize
  /\ IF space.iter_cond[idx]
     THEN WriteRow
     ELSE UNCHANGED <<out_vec, out_vec_idx>>
  /\ pc' = "incr"
  /\ UNCHANGED <<q, vectorize, idx, null_count, bytemap, out_len, out_bits>>

(* Slip: the byte stored after out_vec_idx has moved.                      *)
VectorBodyLateByte ==
  /\ pc = "body"
  /\ vectorize
  /\ WriteRow
  /\ bytemap' = Store(bytemap, out_vec_idx + 1, space.iter_cond[idx])
  /\ null_count' = null_count + (IF space.iter_cond[idx] THEN 0 ELSE 1)
  /\ pc' = "incr"
  /\ UNCHANGED <<q, vectorize, idx, out_len, out_bits>>

(* Slip: the rows that count are counted.                                  *)
VectorBodyCountsValid ==
  /\ pc = "body"
  /\ vectorize
  /\ WriteRow
  /\ bytemap' = Store(bytemap, out_vec_idx, space.iter_cond[idx])
  /\ null_count' = null_count + (IF space.iter_cond[idx] THEN 1 ELSE 0)
  /\ pc' = "incr"
  /\ UNCHANGED <<q, vectorize, idx, out_len, out_bits>>

(* Vectorized: no condition on the body, which also stores it as a byte.   *)
VectorBody ==
  /\ pc = "body"
  /\ vectorize
  /\ WriteRow
  /\ bytemap' = Store(bytemap, out_vec_idx, space.iter_cond[idx])
  /\ null_count' = null_count + (IF space.iter_cond[idx] THEN 0 ELSE 1)
  /\ pc' = "incr"
  /\ UNCHANGED <<q, vectorize, idx, out_len, out_bits>>

(* Slip: the step taken within body_cond.                                  *)
IncrIfWritten ==
  /\ pc = "incr"
  /\ idx' = IF space.iter_cond[idx] THEN space.next[idx] ELSE idx
  /\ pc' = "exit_cond"
  /\ UNCHANGED <<q, vectorize, out_vec_idx, null_count, out_vec, bytemap,
                 out_len, out_bits>>

Incr ==
  /\ pc = "incr"
  /\ idx' = space.next[idx]
  /\ pc' = "exit_cond"
  /\ UNCHANGED <<q, vectorize, out_vec_idx, null_count, out_vec, bytemap,
                 out_len, out_bits>>

(* loop->post, finalize_vector(out_vec, bytemap, out_vec_idx, null_count). *)
Post ==
  /\ pc = "post"
  /\ out_len' = out_vec_idx
  /\ out_bits' = IF null_count > 0
                 THEN [i \in 0 .. out_vec_idx - 1 |-> bytemap[i]]
                 ELSE Empty
  /\ pc' = "done"
  /\ UNCHANGED <<q, vectorize, idx, out_vec_idx, null_count, out_vec, bytemap>>

Next == Continue \/ Break \/ ScalarBody \/ VectorBody \/ Incr \/ Post

(* The loop is one thread of straight code: it keeps running.              *)
Spec == Init /\ [][Next]_vars /\ WF_vars(Next)

-----------------------------------------------------------------------------
(* The rows a consumer of the finished output sees.                        *)
OutValid(i) == i \in DOMAIN out_bits => out_bits[i]
ValidRows == {i \in 0 .. out_len - 1 : OutValid(i)}
Result == {out_vec[i].iter : i \in ValidRows}

(* The rows written so far that will be valid.                             *)
Counted == {i \in DOMAIN out_vec : vectorize => bytemap[i]}
Emitted == {out_vec[i].iter : i \in Counted}

-----------------------------------------------------------------------------
(* The types of the variables: rows and bytes fill their buffers from 0 to *)
(* out_vec_idx without a gap.                                              *)
TypeOK ==
  /\ vectorize \in BOOLEAN
  /\ pc \in {"exit_cond", "body", "incr", "post", "done"}
  /\ idx \in space.idx
  /\ out_vec_idx \in Nat
  /\ null_count \in Nat
  /\ DOMAIN out_vec = 0 .. out_vec_idx - 1
  /\ \A i \in DOMAIN out_vec : out_vec[i].iter \in Int
  /\ DOMAIN bytemap = IF vectorize THEN DOMAIN out_vec ELSE {}
  /\ \A i \in DOMAIN bytemap : bytemap[i] \in BOOLEAN
  /\ out_len \in Nat
  /\ DOMAIN out_bits \in {{}, 0 .. out_len - 1}

(* The result of a finished query is its answer, whichever code path was   *)
(* generated: the space and the loop lose no value and add none.  AnswerOf *)
(* says by which reading of the predicate.                                 *)
ResultExact == pc = "done" => Result = AnswerOf(q)

(* Rows are written in ascending order of the iterator, null rows too, so  *)
(* the output can be the sorted input of the next query.                   *)
OutputSorted ==
  \A i, j \in DOMAIN out_vec : i < j => out_vec[i].iter < out_vec[j].iter

(* finalize_vector's bitmap says null for exactly null_count rows, also    *)
(* when the bitmap is dropped because there are none.                      *)
NullsCounted == pc = "done" => out_len - Cardinality(ValidRows) = null_count

(* Rows that count are found one at a time in ascending order, none is     *)
(* skipped, and the loop leaves only when none remains: every step of the  *)
(* loop is a step of the abstract scan or changes nothing it can see.      *)
Scan == INSTANCE RelationScan WITH listed <- Emitted, done <- (pc = "done")
ScanSteps == Scan!Steps

(* And the loop ends: vectors are finite and its index only moves forward. *)
ImplementsScan == Scan!Spec
=============================================================================
