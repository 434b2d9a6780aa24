---------------------------- MODULE NestedQuery -----------------------------
(***************************************************************************)
(* The predicate of an Op with two iterators: the Reffine pass runs once   *)
(* for each, and the spaces it makes are nested.                           *)
(* A vector cannot be named in such a predicate (the pass for the other    *)
(* iterator throws), so it is a conjunction of comparisons                 *)
(*                                                                         *)
(*     a*i + b*j + c  OP  0       i the outer iterator, j the inner one    *)
(*                                                                         *)
(* and of BOOL symbols computed from i and j.                              *)
(***************************************************************************)
EXTENDS ReffinePass

PairCmp(op, a, b, c) == [op |-> op, a |-> a, b |-> b, c |-> c]

RECURSIVE PairHolds(_, _)
PairHolds(p, t) ==
  CASE p.op = "AND" -> PairHolds(p.l, t) /\ PairHolds(p.r, t)
    [] p.op = "SYM" -> t \in p.keep
    [] OTHER        -> CmpHolds(Cmp(p.op, p.a, p.b, p.c), t[1], t[2])

-----------------------------------------------------------------------------
(* The pass for the outer iterator.  extract_bound quantifies over that    *)
(* iterator only, so the inner one is a free constant of the solver: a     *)
(* comparison of the two is given the bound of whichever value of the      *)
(* inner iterator the solver comes up with.                                *)
OuterLower(p) ==
  {b \in ZBias : \E j \in ZWindow : \A i \in ZWindow :
     i >= b <=> CmpHolds(Cmp(p.op, p.a, p.b, p.c), i, j)}

OuterUpper(p) ==
  {b \in ZBias : \E j \in ZWindow : \A i \in ZWindow :
     i <= b <=> CmpHolds(Cmp(p.op, p.a, p.b, p.c), i, j)}

OuterBounds(p) ==
  IF OuterLower(p) # {}
  THEN {LBound(Universal, [bias |-> b, weight |-> 0]) : b \in OuterLower(p)}
  ELSE IF OuterUpper(p) # {}
  THEN {UBound(Universal, [bias |-> b, weight |-> 0]) : b \in OuterUpper(p)}
  ELSE {Universal}

(* The structures either pass may make; BOOL symbols are left to           *)
(* PairSpace, for either pass puts all of them into iter_cond.             *)
RECURSIVE OuterReffine(_)
OuterReffine(p) ==
  CASE p.op = "AND" -> {Meet(l, r) : l \in OuterReffine(p.l), r \in OuterReffine(p.r)}
    [] p.op = "SYM" -> {Universal}
    [] OTHER        -> OuterBounds(p)

(* The pass for the inner iterator, to which the outer one is a variable.  *)
RECURSIVE InnerReffine(_)
InnerReffine(p) ==
  CASE p.op = "AND" -> Meet(InnerReffine(p.l), InnerReffine(p.r))
    [] p.op = "SYM" -> Universal
    [] OTHER        -> ExtractBound(Cmp(p.op, p.b, p.a, p.c))

RECURSIVE Flags(_, _)
Flags(p, t) ==
  CASE p.op = "AND" -> Flags(p.l, t) /\ Flags(p.r, t)
    [] p.op = "SYM" -> t \in p.keep
    [] OTHER        -> TRUE

(* A query is a record: pred, the structures outer and inner made of it,   *)
(* n the length of an inner walk, and values, the pairs to look at.        *)
PairSpace(query) ==
  LET nest == NestedSpace(Space(query.outer, [x |-> 0]),
                          [t \in Int |-> Space(query.inner, [x |-> t])])
  IN  FilteredSpace(nest, [i \in nest.idx |-> Flags(query.pred, nest.idx_to_iter[i])])

PairAnswer(query) == {t \in query.values : PairHolds(query.pred, t)}

-----------------------------------------------------------------------------
RECURSIVE Atoms(_)
Atoms(p) == IF p.op = "AND" THEN Atoms(p.l) \union Atoms(p.r) ELSE {p}

(* Nothing compares the iterators with each other; nor asks for more.      *)
IsSeparable(query) == \A e \in Atoms(query.pred) : e.op = "SYM" \/ e.a = 0 \/ e.b = 0
IsRectangle(query) == IsSeparable(query) /\ \A e \in Atoms(query.pred) : e.op # "SYM"
=============================================================================
