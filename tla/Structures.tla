---------------------------- MODULE Structures -----------------------------
(***************************************************************************)
(* The trees the Reffine pass works on, predicates and structures of       *)
(* spaces, and each of its functions on them one level at a time: what it  *)
(* makes of a tree when the answers for the tree's parts are given, as a   *)
(* function from parts.  ReffinePass ties the knots; PassTables says the   *)
(* same of tables of answers.                                              *)
(*                                                                         *)
(* The pass works before any vector is known.  The inputs of the function  *)
(* it compiles are `in`, a record                                          *)
(*   vec |-> the vectors by name,  x |-> the value of the scalar input.    *)
(***************************************************************************)
EXTENDS IterSpace

CONSTANTS
  ZWindow,   (* Iterator and input values the solver quantifies over.       *)
  ZBias,     (* Candidate biases of a bound.                                *)
  ZWeight    (* Candidate weights of the input in a bound.                  *)

-----------------------------------------------------------------------------
(* Predicates: comparisons a*t + w*x + c OP 0 of the iterator t and the    *)
(* input x, membership of t + offset in a vector, a BOOL symbol computed   *)
(* from the current row (true on the keys of `keep`), AND and OR.          *)
Cmp(op, a, w, c) == [op |-> op, a |-> a, w |-> w, c |-> c]
In(vec, offset) == [op |-> "IN", vec |-> vec, offset |-> offset]
Flag(keep) == [op |-> "SYM", keep |-> keep]
And(l, r) == [op |-> "AND", l |-> l, r |-> r]
Or(l, r) == [op |-> "OR", l |-> l, r |-> r]

Operands(p) == IF p.op \in {"AND", "OR"} THEN {p.l, p.r} ELSE {}

CmpHolds(e, t, x) ==
  LET n == e.a * t + e.w * x + e.c
  IN  CASE e.op = "LT"  -> n < 0
        [] e.op = "LTE" -> n <= 0
        [] e.op = "GT"  -> n > 0
        [] e.op = "GTE" -> n >= 0

(* The reference: what a predicate says of an iterator value.              *)
HoldsOver(p, in, t, holds) ==
  CASE p.op = "AND" -> holds[p.l] /\ holds[p.r]
    [] p.op = "OR"  -> holds[p.l] \/ holds[p.r]
    [] p.op = "IN"  -> t + p.offset \in Keys(in.vec[p.vec])
    [] p.op = "SYM" -> t \in p.keep
    [] OTHER        -> CmpHolds(p, t, in.x)

-----------------------------------------------------------------------------
(* Structures of spaces.                                                   *)
Universal == [kind |-> "universal"]
Vec(vec) == [kind |-> "vec", vec |-> vec]
Shifted(s, offset) == [kind |-> "shifted", ispace |-> s, offset |-> offset]
Filtered(s, keep) == [kind |-> "filtered", ispace |-> s, keep |-> keep]
LBound(s, bound) == [kind |-> "lbound", ispace |-> s, bound |-> bound]
UBound(s, bound) == [kind |-> "ubound", ispace |-> s, bound |-> bound]
Union(l, r) == [kind |-> "union", left |-> l, right |-> r]
Inter(l, r) == [kind |-> "inter", left |-> l, right |-> r]

SuperKinds == {"shifted", "filtered", "lbound", "ubound"}
JointKinds == {"union", "inter"}

Parts(s) ==
  IF s.kind \in SuperKinds THEN {s.ispace}
  ELSE IF s.kind \in JointKinds THEN {s.left, s.right}
  ELSE {}

(* A super space around another child, and a joint space of others.        *)
Around(s, child) == [s EXCEPT !.ispace = child]
Joining(s, l, r) == [s EXCEPT !.left = l, !.right = r]

(* IterSpace::intersect; the empty set is nullptr.  A super space hands    *)
(* the other space to its child and wraps the answer.                      *)
IntersectOver(s, other, met) ==
  CASE s.kind = "universal"   -> {other}
    [] s.kind = "vec"         -> {}
    [] s.kind \in SuperKinds  -> {Around(s, a) : a \in met[s.ispace]}
    [] s.kind \in JointKinds  -> {Joining(s, l, r) : l \in met[s.left], r \in met[s.right]}

(* operator& of l and r, given intersect of either with the other: one of  *)
(* these, or a merge of the two.                                           *)
MeetOver(l, r, lr, rl) ==
  CHOOSE s \in (IF lr # {} THEN lr ELSE IF rl # {} THEN rl ELSE {Inter(l, r)}) : TRUE

(* The space a structure stands for on given inputs.                       *)
BoundOf(b, in) == b.bias + b.weight * in.x

SpaceOver(s, in, spaces) ==
  CASE s.kind = "universal" -> UniversalSpace
    [] s.kind = "vec"       -> VecSpace(s.vec, in.vec[s.vec])
    [] s.kind = "shifted"   -> ShiftedSpace(spaces[s.ispace], s.offset)
    [] s.kind = "filtered"  -> LET child == spaces[s.ispace]
                               IN  FilteredSpace(child, [i \in child.idx |-> child.idx_to_iter[i] \in s.keep])
    [] s.kind = "lbound"    -> LBoundSpace(spaces[s.ispace], BoundOf(s.bound, in))
    [] s.kind = "ubound"    -> UBoundSpace(spaces[s.ispace], BoundOf(s.bound, in))
    [] s.kind = "union"     -> UnionSpace(spaces[s.left], spaces[s.right])
    [] s.kind = "inter"     -> InterSpace(spaces[s.left], spaces[s.right])

-----------------------------------------------------------------------------
(* extract_bound: the bounds bias + weight*x the solver finds such that    *)
(* iter >= bound (or <=) is the comparison for every iterator and input.   *)
Bounds == [bias : ZBias, weight : ZWeight]
LowerBounds(e) ==
  {b \in Bounds : \A t, x \in ZWindow : (t >= b.bias + b.weight * x) <=> CmpHolds(e, t, x)}
UpperBounds(e) ==
  {b \in Bounds : \A t, x \in ZWindow : (t <= b.bias + b.weight * x) <=> CmpHolds(e, t, x)}

(* A comparison with neither bound leaves the iterator unconstrained.      *)
ExtractBound(e) ==
  IF LowerBounds(e) # {} THEN LBound(Universal, CHOOSE b \in LowerBounds(e) : TRUE)
  ELSE IF UpperBounds(e) # {} THEN UBound(Universal, CHOOSE b \in UpperBounds(e) : TRUE)
  ELSE Universal

(* The iterator of a membership, as a space.                               *)
Iterator(offset) == IF offset = 0 THEN Universal ELSE Shifted(Universal, offset)

(* The structures operator& is called with.                                *)
Conjuncts(p, made) ==
  CASE p.op = "AND" -> {<<made[p.l], made[p.r]>>}
    [] p.op = "IN"  -> {<<Iterator(p.offset), Vec(p.vec)>>}
    [] OTHER        -> {}

(* The pass proper; meet[<<l, r>>] is l & r.                               *)
ReffineOver(p, made, meet) ==
  CASE p.op = "AND" -> meet[<<made[p.l], made[p.r]>>]
    [] p.op = "OR"  -> Union(made[p.l], made[p.r])
    [] p.op = "IN"  -> meet[<<Iterator(p.offset), Vec(p.vec)>>]
    [] p.op = "SYM" -> Filtered(Universal, p.keep)
    [] OTHER        -> ExtractBound(p)

-----------------------------------------------------------------------------
(* The predicate as the pass and the spaces of the source read it:         *)
(* ShiftedSpace(v, c) walks the keys of v moved by +c, so In(t + c, v) is  *)
(* taken as t - c in v, and a comparison the solver finds no bound for     *)
(* holds of everything.                                                    *)
True == Cmp("GTE", 0, 0, 0)

MirrorOver(p, mirror) ==
  CASE p.op = "IN"             -> [p EXCEPT !.offset = -@]
    [] p.op \in {"AND", "OR"} -> [p EXCEPT !.l = mirror[@], !.r = mirror[@]]
    [] p.op = "SYM"            -> p
    [] OTHER                   -> IF ExtractBound(p) = Universal THEN True ELSE p

-----------------------------------------------------------------------------
(* What of a structure its callers arrange.  The compiler and the loop     *)
(* check none of it.                                                       *)

(* Every vector of the structure, with the shift it is walked under.       *)
LeavesOver(s, leaves) ==
  CASE s.kind = "universal"   -> {}
    [] s.kind = "vec"         -> {[vec |-> s.vec, shift |-> 0]}
    [] s.kind = "shifted"     -> {[vec |-> l.vec, shift |-> l.shift + s.offset] : l \in leaves[s.ispace]}
    [] OTHER                  -> UNION {leaves[c] : c \in Parts(s)}

(* Something ends the walk: a vector or an upper bound on every branch.    *)
EndsOver(s, ends) ==
  CASE s.kind = "universal"      -> FALSE
    [] s.kind \in {"vec", "ubound"} -> TRUE
    [] s.kind = "inter"          -> \E c \in Parts(s) : ends[c]
    [] OTHER                     -> \A c \in Parts(s) : ends[c]

(* No row of these vectors is null, and nothing restricts them.            *)
PlainOver(s, in, plain) ==
  CASE s.kind = "vec"     -> \A i \in Rows(in.vec[s.vec]) : in.vec[s.vec].cells[i].valid
    [] s.kind = "shifted" -> plain[s.ispace]
    [] s.kind = "union"   -> plain[s.left] /\ plain[s.right]
    [] OTHER              -> FALSE

(* The two sides of every merge go over the same vectors.                  *)
AlignedOver(s, leaves, aligned) ==
  /\ \A c, d \in Parts(s) : leaves[c] = leaves[d]
  /\ \A c \in Parts(s) : aligned[c]

LastKey(l, in) == ReadData(in.vec[l.vec], in.vec[l.vec].len - 1) + l.shift

(* The sides of a union can be merged: each knows both its bounds, and     *)
(* either they run out together and each of their values counts, or they   *)
(* are one walk in step with itself.                                       *)
Mergeable(s, in, spaces, leaves, plain, aligned) ==
  /\ \A c \in Parts(s) : spaces[c].lower_bound # {} /\ spaces[c].upper_bound # {}
  /\ \/ /\ \A l, m \in leaves[s] : LastKey(l, in) = LastKey(m, in)
        /\ \A c \in Parts(s) : plain[c]
     \/ /\ \A l, m \in leaves[s] : l = m
        /\ aligned[s]

MergesOver(s, in, spaces, leaves, plain, aligned, merges) ==
  /\ s.kind = "union" => Mergeable(s, in, spaces, leaves, plain, aligned)
  /\ \A c \in Parts(s) : merges[c]

(* The vectors of a structure as the loop walks them.                      *)
WalkOf(l, in) == [name |-> l.vec, vec |-> in.vec[l.vec], shift |-> l.shift]
WalksOver(leaves, in) == {WalkOf(l, in) : l \in leaves}
=============================================================================
