------------------------------ MODULE MCQuery -------------------------------
(***************************************************************************)
(* Instances of Query for TLC: predicates over two vectors "a" and "b" and *)
(* a scalar input x, on all small sorted vectors.                          *)
(***************************************************************************)
EXTENDS Query, PassTables, Sequences, SequencesExt

CONSTANTS
  OneKeys,    (* The largest key where one vector is walked, or a union.   *)
  TwoKeys,    (* The largest key where two vectors with nulls are.         *)
  Strays,     (* Keys a read outside a vector may see.                     *)
  Xs          (* Values of the scalar input.                               *)

Window == -6 .. 6
Biases == -4 .. 4
Weights == -1 .. 1

(* All sorted vectors: a set of keys, and which of them are null.          *)
KeySeq(S) == SetToSortSeq(S, LAMBDA a, b : a < b)
Vector(present, null, stray) ==
  LET ks == KeySeq(present)
  IN  [len    |-> Len(ks),
       cells  |-> [i \in 0 .. Len(ks) - 1 |-> [key |-> ks[i + 1], valid |-> ks[i + 1] \notin null]],
       before |-> [key |-> stray, valid |-> TRUE],
       after  |-> [key |-> stray, valid |-> TRUE]]

(* All vectors over the keys 1..n, some of whose rows in nullable are null. *)
VectorsOver(n, nullable, stray) ==
  UNION {{Vector(p, null, stray) : null \in SUBSET (p \intersect nullable)} :
           p \in (SUBSET (1 .. n)) \ {{}}}

(* Every query of the predicates over such vectors.                        *)
QueriesOf(p, n, nullable, xs) ==
  LET tree == Reffine(p)
      names == {l.vec : l \in Leaves(tree)}
  IN  [pred   : {p},
       tree   : {tree},
       mirror : {Mirror(p)},
       in     : [vec : UNION {[names -> VectorsOver(n, nullable, stray)] : stray \in Strays}, x : xs],
       values : {-2 .. n + 2}]

Workload(preds, n, nullable, xs) == UNION {QueriesOf(p, n, nullable, xs) : p \in preds}

A == In("a", 0)
B == In("b", 0)
From == Cmp("GTE", 1, -1, 0)      (* t >= x        *)
After == Cmp("GT", 1, -1, 0)      (* t > x         *)
UpTo == Cmp("LT", 1, 0, -3)       (* t < 3         *)
Twice == Cmp("LTE", 2, 0, -5)     (* 2t <= 5       *)
Back == Cmp("GTE", -1, 1, 1)      (* x + 1 >= t    *)
Steep == Cmp("GTE", 2, -1, -3)    (* 2t >= x + 3, for which there is no bound *)
Aside == Cmp("GT", 0, 1, -1)      (* x > 1, which is not about t              *)

SelectPreds ==
  { A, And(A, From), And(And(From, A), UpTo), And(And(A, Twice), Flag({2, 3})),
    And(Flag({1, 3}), And(After, And(Back, A))), And(From, UpTo),
    And(Steep, A), And(And(From, Aside), And(A, UpTo)),
    And(Or(UpTo, Cmp("GT", 1, 0, -3)), A), Or(And(A, UpTo), And(A, Flag({3, 4}))),
    Or(And(From, UpTo), And(From, Back)) }

JoinPreds ==
  { And(A, B), And(And(From, A), B), And(And(A, UpTo), And(B, Flag({2, 3}))),
    And(And(A, B), And(A, Twice)), And(And(And(A, B), From), UpTo) }

UnionPreds == { Or(A, B), And(Or(A, B), From), And(Or(A, B), UpTo) }

ShiftPreds ==
  { In("a", 1), And(In("a", -2), From), And(And(A, In("b", 1)), UpTo), And(In("a", -1), In("b", -1)),
    Or(In("a", 1), In("b", 1)) }

LowerPreds == { A, And(A, From), And(And(After, A), Flag({2, 3})) }

(* Rows that are null keep the sides of a union from being merged.         *)
SelectQueries == Workload(SelectPreds, OneKeys, 1 .. OneKeys, Xs)
JoinQueries == Workload(JoinPreds, TwoKeys, 1 .. TwoKeys, {2})
UnionQueries == Workload(UnionPreds, OneKeys, {}, Xs)
ShiftQueries == Workload(ShiftPreds, TwoKeys, 1 .. TwoKeys, {1})

MCQueries ==
  {query \in SelectQueries \union JoinQueries \union UnionQueries \union ShiftQueries : Fits(query)}
MCShifted == {query \in ShiftQueries : Fits(query)}
MCMissed == {query \in Workload(LowerPreds, OneKeys, 1 .. OneKeys, Xs) : ~StartLocated(query)}

-----------------------------------------------------------------------------
(* The tables QueryProofs assumes of a query, for these predicates: all    *)
(* structures and predicates the pass meets, and for each what the         *)
(* recursive definitions compute.                                          *)
RECURSIVE Within(_)
Within(s) == {s} \union UNION {Within(c) : c \in Parts(s)}

RECURSIVE Clauses(_)
Clauses(p) == {p} \union UNION {Clauses(o) : o \in Operands(p)}

RECURSIVE Height(_)
Height(s) == Max({0} \union {1 + Height(c) : c \in Parts(s)})

RECURSIVE Depth(_)
Depth(p) == Max({0} \union {1 + Depth(o) : o \in Operands(p)})

RECURSIVE Open(_)
Open(s) == OpenOver(s, [c \in Parts(s) |-> Open(c)])

RECURSIVE Steady(_)
Steady(s) == SteadyOver(s, [c \in Parts(s) |-> Open(c)], [c \in Parts(s) |-> Steady(c)])

TablesOf(p, in) ==
  LET preds == Clauses(p) \union Clauses(Mirror(p))
      asked == UNION {Asked(c, [o \in Operands(c) |-> Reffine(o)]) : c \in preds}
      pairs == UNION {Within(a[1]) \X {a[2]} : a \in asked}
      roots == {Reffine(c) : c \in preds}
                 \union UNION {{a[1], a[2]} \union Intersect(a[1], a[2]) : a \in pairs}
      trees == UNION {Within(s) : s \in roots}
  IN  [trees     |-> trees,
       size      |-> [s \in trees |-> Height(s)],
       space     |-> [s \in trees |-> Space(s, in)],
       leaves    |-> [s \in trees |-> Leaves(s)],
       plain     |-> [s \in trees |-> Plain(s, in)],
       aligned   |-> [s \in trees |-> Aligned(s)],
       merges    |-> [s \in trees |-> UnionsMergeable(s, in)],
       open      |-> [s \in trees |-> Open(s)],
       steady    |-> [s \in trees |-> Steady(s)],
       pairs     |-> pairs,
       intersect |-> [a \in pairs |-> Intersect(a[1], a[2])],
       preds     |-> preds,
       length    |-> [c \in preds |-> Depth(c)],
       made      |-> [c \in preds |-> Reffine(c)],
       mirror    |-> [c \in preds |-> Mirror(c)]]

SmallInput == [vec |-> [name \in {"a", "b"} |-> Vector({1, 2}, {}, 0)], x |-> 1]

ASSUME TablesExist ==
  /\ IsInput(SmallInput)
  /\ \A p \in SelectPreds \union JoinPreds \union UnionPreds \union ShiftPreds :
       LET T == TablesOf(p, SmallInput)
       IN  TreeTables(T, SmallInput) /\ IntersectTables(T) /\ MadeTables(T, SmallInput)

(* And the structures of LowerPreds are a vector under shifts, filters and *)
(* lower bounds: where a missed start does no harm.                        *)
ASSUME OneVectorEach ==
  \A p \in LowerPreds : \A s \in Within(Reffine(p)) :
    s.kind \in {"vec", "shifted", "filtered", "lbound"}

(* Where a predicate is about a vector its structure has one on every      *)
(* branch, each under one shift.                                           *)
ASSUME VectorsEach ==
  \A p \in SelectPreds \union JoinPreds \union UnionPreds \union ShiftPreds :
    LET tree == Reffine(p)
    IN  /\ Leaves(tree) # {} => \A s \in Within(tree) : s.kind # "universal"
        /\ \A l, m \in Leaves(tree) : l.vec = m.vec => l = m
=============================================================================
