------------------------------- MODULE Query --------------------------------
(***************************************************************************)
(* A query from its predicate to its result: the Reffine pass makes the    *)
(* iteration space, LoopGen the loop over it, and the loop runs on the     *)
(* vectors of the query.  The reference is the predicate itself.           *)
(*                                                                         *)
(* A query is a record: pred the predicate, tree the structure Reffine     *)
(* made of it, mirror what the source takes it for (see Mirror), in the    *)
(* inputs, values the iterator values to look at.                          *)
(***************************************************************************)
EXTENDS VectorLoop, ReffinePass

(* SpaceOf and AnswerOf of a query: what Reffine built for it, and what    *)
(* its predicate means.                                                    *)
QuerySpace(query) == Space(query.tree, query.in)
QueryAnswer(query) == {t \in query.values : Holds(query.pred, query.in, t)}

-----------------------------------------------------------------------------
(* When the loop computes what the predicate says.  The compiler and the   *)
(* loop check none of this; it is what their callers arrange.              *)
RECURSIVE Leaves(_)
Leaves(s) == LeavesOver(s, [c \in Parts(s) |-> Leaves(c)])

QueryWalks(query) == WalksOver(Leaves(query.tree), query.in)

(* The value the loop starts from is a non-null key of every vector.       *)
StartLocated(query) ==
  \A lb \in QuerySpace(query).lower_bound : \A w \in QueryWalks(query) :
    Located(w.vec, lb - w.shift)

RECURSIVE Ends(_)
Ends(s) == EndsOver(s, [c \in Parts(s) |-> Ends(c)])

RECURSIVE Plain(_, _)
Plain(s, in) == PlainOver(s, in, [c \in Parts(s) |-> Plain(c, in)])

RECURSIVE Aligned(_)
Aligned(s) ==
  AlignedOver(s, [c \in Parts(s) |-> Leaves(c)], [c \in Parts(s) |-> Aligned(c)])

RECURSIVE UnionsMergeable(_, _)
UnionsMergeable(s, in) ==
  MergesOver(s, in, [c \in Parts(s) |-> Space(c, in)], [c \in {s} |-> Leaves(c)],
             [c \in Parts(s) |-> Plain(c, in)], [c \in {s} |-> Aligned(c)],
             [c \in Parts(s) |-> UnionsMergeable(c, in)])

Fits(query) ==
  /\ QuerySpace(query).lower_bound # {}
  /\ Ends(query.tree)
  /\ StartLocated(query)
  /\ UnionsMergeable(query.tree, query.in)

MirrorAnswer(query) == {t \in query.values : Holds(query.mirror, query.in, t)}

=============================================================================
