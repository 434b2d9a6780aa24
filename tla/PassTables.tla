---------------------------- MODULE PassTables -----------------------------
(***************************************************************************)
(* The functions of the Reffine pass as tables: T is a record that has for *)
(* each of them its answer on every tree of a set, each answer being what  *)
(* Structures makes of the answers on the parts.  A recursive definition   *)
(* says just that of itself, and a theorem about all tables is one about   *)
(* it.                                                                     *)
(*                                                                         *)
(*   trees, size      structures, and a number that falls from a structure *)
(*                    to its parts                                         *)
(*   space .. merges  what Query and ReffinePass compute of a structure    *)
(*   stands           the values it stands for                             *)
(*   preds, length    predicates, and a number that falls to the operands  *)
(*   made, mirror     Reffine and Mirror of a predicate                    *)
(*   answer           the values a predicate holds of                      *)
(*   pairs, intersect the structures l & r is asked of, and the answers of *)
(*                    IterSpace::intersect                                 *)
(*   open, steady     of structures: see below                             *)
(***************************************************************************)
EXTENDS Structures, SpaceLaws

(* The inputs of a query.                                                  *)
IsInput(in) ==
  /\ in.x \in Int
  /\ \A n \in DOMAIN in.vec : IsVector(in.vec[n]) /\ Sorted(in.vec[n])

IsBound(b) == b.bias \in Int /\ b.weight \in Int

IsStructure(s, in) ==
  \/ s = Universal
  \/ s.kind = "vec" /\ s = Vec(s.vec) /\ s.vec \in DOMAIN in.vec
  \/ s.kind = "shifted" /\ s = Shifted(s.ispace, s.offset) /\ s.offset \in Int
  \/ s.kind = "filtered" /\ s = Filtered(s.ispace, s.keep)
  \/ s.kind = "lbound" /\ s = LBound(s.ispace, s.bound) /\ IsBound(s.bound)
  \/ s.kind = "ubound" /\ s = UBound(s.ispace, s.bound) /\ IsBound(s.bound)
  \/ s.kind = "union" /\ s = Union(s.left, s.right)
  \/ s.kind = "inter" /\ s = Inter(s.left, s.right)

(* The values a structure stands for.                                      *)
StandsOver(s, in, stands) ==
  CASE s.kind = "universal" -> Int
    [] s.kind = "vec"       -> Keys(in.vec[s.vec])
    [] s.kind = "shifted"   -> Moved(stands[s.ispace], s.offset)
    [] s.kind = "filtered"  -> stands[s.ispace] \intersect s.keep
    [] s.kind = "lbound"    -> AtLeast(stands[s.ispace], BoundOf(s.bound, in))
    [] s.kind = "ubound"    -> AtMost(stands[s.ispace], BoundOf(s.bound, in))
    [] s.kind = "union"     -> stands[s.left] \union stands[s.right]
    [] s.kind = "inter"     -> stands[s.left] \intersect stands[s.right]

(* What the compiler and the callers of the query know of a structure, and *)
(* what it is on the inputs.                                               *)
TreeTables(T, in) ==
  /\ T.size \in [T.trees -> Nat]
  /\ \A s \in T.trees :
       /\ IsStructure(s, in)
       /\ \A c \in Parts(s) : c \in T.trees /\ T.size[c] < T.size[s]
       /\ T.leaves[s] = LeavesOver(s, T.leaves)
       /\ T.plain[s] <=> PlainOver(s, in, T.plain)
       /\ T.aligned[s] <=> AlignedOver(s, T.leaves, T.aligned)
       /\ T.merges[s] <=> MergesOver(s, in, T.space, T.leaves, T.plain, T.aligned, T.merges)

ValueTables(T, in) ==
  \A s \in T.trees :
    /\ T.space[s] = SpaceOver(s, in, T.space)
    /\ T.stands[s] = StandsOver(s, in, T.stands)

StructureTables(T, in) == TreeTables(T, in) /\ ValueTables(T, in)

-----------------------------------------------------------------------------
(* A structure is open when intersect puts another one into it.  Shifting  *)
(* an open structure would shift that other one too; the pass never does,  *)
(* and a structure without is steady.                                      *)
OpenOver(s, open) == s.kind # "vec" /\ \A c \in Parts(s) : open[c]

SteadyOver(s, open, steady) ==
  /\ s.kind = "shifted" => ~open[s.ispace]
  /\ \A c \in Parts(s) : steady[c]

MeetIn(T, l, r) == MeetOver(l, r, T.intersect[<<l, r>>], T.intersect[<<r, l>>])

IntersectTables(T) ==
  /\ \A s \in T.trees :
       /\ T.open[s] <=> OpenOver(s, T.open)
       /\ T.steady[s] <=> SteadyOver(s, T.open, T.steady)
  /\ \A p \in T.pairs :
       /\ p = <<p[1], p[2]>>
       /\ p[1] \in T.trees /\ p[2] \in T.trees
       /\ T.intersect[p] \subseteq T.trees
       /\ \A c \in Parts(p[1]) : <<c, p[2]>> \in T.pairs
       /\ T.intersect[p] = IntersectOver(p[1], p[2], [c \in Parts(p[1]) |-> T.intersect[<<c, p[2]>>]])

-----------------------------------------------------------------------------
IsPredicate(p, in) ==
  \/ p.op = "AND" /\ p = And(p.l, p.r)
  \/ p.op = "OR" /\ p = Or(p.l, p.r)
  \/ p.op = "IN" /\ p = In(p.vec, p.offset) /\ p.vec \in DOMAIN in.vec /\ p.offset \in Int
  \/ p.op = "SYM" /\ p = Flag(p.keep)
  \/ /\ p.op \in {"LT", "LTE", "GT", "GTE"}
     /\ p = Cmp(p.op, p.a, p.w, p.c)
     /\ p.a \in Int /\ p.w \in Int /\ p.c \in Int

(* The structures intersect may be asked of for a predicate.               *)
Asked(p, made) == Conjuncts(p, made) \union {<<a[2], a[1]>> : a \in Conjuncts(p, made)}

MeetsIn(T, p) == [a \in Conjuncts(p, T.made) |-> MeetIn(T, a[1], a[2])]

MadeTables(T, in) ==
  /\ T.length \in [T.preds -> Nat]
  /\ \A p \in T.preds :
       /\ IsPredicate(p, in)
       /\ \A o \in Operands(p) : o \in T.preds /\ T.length[o] < T.length[p]
       /\ T.made[p] \in T.trees
       /\ T.made[p] = ReffineOver(p, T.made, MeetsIn(T, p))
       /\ Asked(p, T.made) \subseteq T.pairs
       /\ T.mirror[p] \in T.preds
       /\ T.mirror[p] = MirrorOver(p, T.mirror)

AnswerTables(T, in) ==
  \A p \in T.preds :
    T.answer[p] = {t \in Int : HoldsOver(p, in, t, [o \in Operands(p) |-> t \in T.answer[o]])}

PassTablesFor(T, in) ==
  /\ StructureTables(T, in)
  /\ IntersectTables(T)
  /\ MadeTables(T, in)
  /\ AnswerTables(T, in)
=============================================================================
