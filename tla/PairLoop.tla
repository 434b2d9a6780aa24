------------------------------ MODULE PairLoop ------------------------------
(***************************************************************************)
(* The loop of an Op with two iterators: the one loop of LoopGen over the  *)
(* pairs of a nested space.  A query has a field  n,  the length of an     *)
(* inner walk.                                                             *)
(***************************************************************************)
EXTENDS LoopGen

CONSTANTS
  Separable(_),   (* The query's predicate does not compare the iterators.   *)
  Rectangle(_)    (* Nor does it ask for more than a range of each.          *)

(* The pairs a query is promised: those of its answer that are not below   *)
(* the outer bound the solver made up.                                     *)
Promised(query) ==
  {x \in AnswerOf(query) : \A lb \in SpaceOf(query).lower_bound : lb[1] <= x[1]}

(* The values between the bounds of a space.                               *)
Under(s, i) == \A b \in s.upper_bound : i <= b
InRange(s, i) == (\A b \in s.lower_bound : b <= i) /\ Under(s, i)

Before(s, t) == s[1] < t[1] \/ (s[1] = t[1] /\ s[2] < t[2])

(* A finished query has listed exactly the pairs its predicate holds of,   *)
(* as long as that does not compare the iterators with each other.         *)
PairsExact == pc = "done" /\ Separable(q) => Result = AnswerOf(q)

(* When the predicate compares the iterators with each other, a pair may   *)
(* be lost to the outer bound the solver made up, but only to that bound,  *)
(* and no pair is made up.                                                 *)
PairsLostToBound ==
  pc = "done" =>
    /\ Result \subseteq AnswerOf(q)
    /\ \A t \in AnswerOf(q) \ Result : \A lb \in space.lower_bound : t[1] < lb[1]

(* Rows, null rows too, are written in the order of their pairs.           *)
PairsSorted == \A i, j \in DOMAIN out_vec : i < j => Before(out_vec[i].iter, out_vec[j].iter)

(* The nest of two walks in one loop ends.                                 *)
NestEnds == <>(pc = "done")

(* Where a consumer that addresses rows by position (Nbody's subvectors    *)
(* from idx*N to (idx + 1)*N) expects the pairs of the outer value t: each *)
(* row that counts of the scalar output is in its outer value's block of N.*)
RowsByBlock ==
  pc = "done" /\ ~vectorize /\ q.n > 0 =>
    \A i \in ValidRows : \A lb \in space.lower_bound :
      out_vec[i].iter[1] = lb[1] + i \div q.n

(* A rectangle without a condition on the pair is laid out that way.       *)
RectangleByBlock == Rectangle(q) => RowsByBlock
=============================================================================
