------------------------------ MODULE MCNested ------------------------------
(***************************************************************************)
(* Instances of NestedQuery and its loop for TLC: rectangles and triangles *)
(* of pairs, with and without a condition on the pair.                     *)
(***************************************************************************)
EXTENDS PairLoop, NestedQuery

CONSTANTS
  Side,     (* The lengths of a side, zero included.                       *)
  Shapes    (* "rectangle", "triangle", or "distinct": which predicates.   *)

(* The values of the lower bounds.                                         *)
Corners == {-1, 1}

Window == -6 .. 6
Biases == -4 .. 4
Weights == -1 .. 1

(* lo <= i < lo + n                                                        *)
Outer(lo, n) == And(PairCmp("GTE", 1, 0, -lo), PairCmp("LT", 1, 0, -(lo + n)))
InnerFrom(lo) == PairCmp("GTE", 0, 1, -lo)
InnerRange(lo, n) == And(InnerFrom(lo), PairCmp("LT", 0, 1, -(lo + n)))

(* The conjuncts in the order of the tests: outer bounds, inner bounds.    *)
ShapePreds(shape, lo, n, m) ==
  CASE shape = "rectangle" -> {And(Outer(lo, n), InnerRange(lo, m))}
    [] shape = "triangle"  -> {And(And(Outer(lo, n), InnerFrom(lo)), PairCmp("LTE", -1, 1, 0)),
                               And(And(Outer(lo, n), InnerFrom(lo)), PairCmp("GT", 1, -1, 1))}
    [] shape = "distinct"  -> {And(And([op |-> "SYM", keep |-> {t \in Window \X Window : t[1] # t[2]}],
                                       Outer(lo, n)), InnerRange(lo, m))}

MCPairQueries ==
  UNION {UNION {[pred : {p}, outer : OuterReffine(p), inner : {InnerReffine(p)}, n : {m},
                 values : {Window \X Window}] :
                p \in ShapePreds(shape, lo, n, m)} :
         shape \in Shapes, lo \in Corners, n \in Side, m \in Side}

(* What the proofs ask of the pass (AllNested of PairLoopProofs): a query  *)
(* is promised what lies in the ranges it was given and meets its          *)
(* conditions, all of its answer unless the iterators are compared, and a  *)
(* rectangle's inner range has n values.                                   *)
ASSUME NestedAssumption ==
  \A query \in MCPairQueries :
    LET outer == Space(query.outer, [x |-> 0])
        inner(t) == Space(query.inner, [x |-> t])
    IN  /\ Promised(query) = {t \in query.values : /\ InRange(outer, t[1])
                                                   /\ InRange(inner(t[1]), t[2])
                                                   /\ Flags(query.pred, t)}
        /\ IsSeparable(query) => Promised(query) = PairAnswer(query)
        /\ IsRectangle(query) /\ query.n > 0 =>
             \A t \in Window : \A b \in inner(t).lower_bound :
               inner(t).upper_bound = {b + query.n - 1}
=============================================================================
