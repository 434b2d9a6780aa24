----------------------------- MODULE VectorLoop -----------------------------
(***************************************************************************)
(* The loop of an Op with one iterator, and the rows of vectors its        *)
(* iterations stand on.                                                    *)
(***************************************************************************)
EXTENDS LoopGen, SpaceLaws

CONSTANTS
  WalksOf(_)    (* The walks of the vectors of a query: records of the     *)
                (* vector's name, the vector vec, and the shift.           *)

(* An Element expression reads, in every row that counts, the first row of *)
(* its vector that is not below the iterator: the iterator's own row where *)
(* the vector has one (LoopGen::visit(Element) takes the loop's index      *)
(* instead of looking the iterator up).                                    *)
ElementsMatch ==
  \A i \in Counted : \A e \in out_vec[i].elems : \A w \in WalksOf(q) :
    e[1] = w.name => IsRowAt(e, w, out_vec[i].iter)

(* No iteration stands outside a vector: body and step, in the vectorized  *)
(* path also for the rows that will be null, read no stray memory.  The    *)
(* exit test of a bounded walk looks at the iterator before it asks        *)
(* whether there is one (UBoundSpace::_is_alive), and so may read the one  *)
(* cell behind a vector, but no other.                                     *)
NoStrayRead ==
  \A e \in space.vec_iter_idxs[idx] : \E w \in WalksOf(q) :
    /\ e[1] = w.name
    /\ pc = "exit_cond" => e[2] \in 0 .. w.vec.len
    /\ pc \in {"body", "incr"} => e[2] \in Rows(w.vec)

(* The output is made for a fixed number of rows and written without a     *)
(* check.  A loop over vectors never writes more rows, null rows included, *)
(* than there are different keys in the rows of its vectors.               *)
RowsFit == WalksOf(q) # {} => out_vec_idx <= Cardinality(RowKeys(WalksOf(q)))

(* When the value the loop starts from is not located it starts one row    *)
(* before its vector.  A query of one vector without an upper bound loses  *)
(* nothing by it: every row is still walked, and the stray cell is at most *)
(* one row more.                                                           *)
StrayRowAtMost ==
  pc = "done" =>
    /\ AnswerOf(q) \subseteq Result
    /\ Result \subseteq AnswerOf(q) \union {w.vec.before.key + w.shift : w \in WalksOf(q)}
=============================================================================
