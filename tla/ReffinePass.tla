---------------------------- MODULE ReffinePass -----------------------------
(***************************************************************************)
(* The Reffine pass: from the predicate of an Op to its iteration space.   *)
(* Space(s, in) is the IterSpace a structure s stands for once the inputs  *)
(* of the function are known, Holds what a predicate means.  A level of    *)
(* each is in Structures.                                                  *)
(***************************************************************************)
EXTENDS Structures

RECURSIVE Holds(_, _, _)
Holds(p, in, t) == HoldsOver(p, in, t, [c \in Operands(p) |-> Holds(c, in, t)])

RECURSIVE Intersect(_, _)
Intersect(s, other) == IntersectOver(s, other, [c \in Parts(s) |-> Intersect(c, other)])

Meet(l, r) == MeetOver(l, r, Intersect(l, r), Intersect(r, l))

RECURSIVE Space(_, _)
Space(s, in) == SpaceOver(s, in, [c \in Parts(s) |-> Space(c, in)])

RECURSIVE Reffine(_)
Reffine(p) ==
  LET made == [c \in Operands(p) |-> Reffine(c)]
  IN  ReffineOver(p, made, [a \in Conjuncts(p, made) |-> Meet(a[1], a[2])])

RECURSIVE Mirror(_)
Mirror(p) == MirrorOver(p, [c \in Operands(p) |-> Mirror(c)])
=============================================================================
