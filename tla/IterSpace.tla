----------------------------- MODULE IterSpace ------------------------------
(***************************************************************************)
(* The iteration spaces of src/iter: how a loop walks the values of an     *)
(* iterator.  A space is the record of its virtual methods:                *)
(*                                                                         *)
(*   lower_bound, upper_bound   the empty set (nullptr) or a singleton     *)
(*   iter_cond[idx]             does idx hold a value of the space         *)
(*   idx_to_iter[idx]           the iterator value at idx                  *)
(*   iter_to_idx[iter]          the idx to start from for an iterator      *)
(*   is_alive[idx], next[idx]   is the walk over, and its step             *)
(*   vec_iter_idxs[idx]         which row of which vector idx stands on    *)
(*                                                                         *)
(* over the set idx of its indices: an integer for the simple spaces, the  *)
(* pair of its children's for a joint space.  Constructors take their      *)
(* arguments in the order of the source.                                   *)
(***************************************************************************)
EXTENDS Vectors

(* _min of the generated code.                                             *)
Min2(a, b) == IF a <= b THEN a ELSE b

(* One bound from two of which either may be nullptr.                      *)
Lowest(bounds) == {b \in bounds : \A c \in bounds : b <= c}
Highest(bounds) == {b \in bounds : \A c \in bounds : c <= b}

-----------------------------------------------------------------------------
(* Simple spaces.                                                          *)

UniversalSpace ==
  [idx           |-> Int,
   lower_bound   |-> {},
   upper_bound   |-> {},
   iter_cond     |-> [i \in Int |-> TRUE],
   idx_to_iter   |-> [i \in Int |-> i],
   iter_to_idx   |-> [t \in Int |-> t],
   is_alive      |-> [i \in Int |-> TRUE],
   next          |-> [i \in Int |-> i + 1],
   vec_iter_idxs |-> [i \in Int |-> {}]]

(* `name` is the vector's symbol, v its contents.                          *)
VecSpace(name, v) ==
  [idx           |-> Int,
   lower_bound   |-> {ReadData(v, 0)},
   upper_bound   |-> {ReadData(v, v.len - 1)},
   iter_cond     |-> [i \in Int |-> i < v.len /\ ReadBit(v, i)],
   idx_to_iter   |-> [i \in Int |-> ReadData(v, i)],
   iter_to_idx   |-> [t \in Int |-> Locate(v, t)],
   is_alive      |-> [i \in Int |-> i < v.len],
   next          |-> [i \in Int |-> i + 1],
   vec_iter_idxs |-> [i \in Int |-> {<<name, i>>}]]

-----------------------------------------------------------------------------
(* Super spaces: one child, every method inherited but the ones replaced.  *)

(* Slip: the walk keeps the child's values.                                *)
ShiftedSpaceUnmoved(s, offset) ==
  [s EXCEPT
    !.lower_bound = {b + offset : b \in @},
    !.upper_bound = {b + offset : b \in @},
    !.iter_to_idx = [t \in Int |-> @[t - offset]]]

ShiftedSpace(s, offset) ==
  [s EXCEPT
    !.lower_bound = {b + offset : b \in @},
    !.upper_bound = {b + offset : b \in @},
    !.idx_to_iter = [i \in s.idx |-> @[i] + offset],
    !.iter_to_idx = [t \in Int |-> @[t - offset]]]

(* cond: the BOOL symbol, computed from the row the child stands on.       *)
FilteredSpace(s, cond) ==
  [s EXCEPT !.iter_cond = [i \in s.idx |-> cond[i] /\ @[i]]]

(* Slip: the bound chooses the start but is not tested.                    *)
LBoundSpaceUntested(s, bound) ==
  [s EXCEPT !.lower_bound = Highest({bound} \union @)]

LBoundSpace(s, bound) ==
  LET lower == Highest({bound} \union s.lower_bound)
  IN  [s EXCEPT
        !.lower_bound = lower,
        !.iter_cond   = [i \in s.idx |->
                          (\A b \in lower : s.idx_to_iter[i] >= b) /\ @[i]]]

UBoundSpace(s, bound) ==
  LET upper  == Lowest({bound} \union s.upper_bound)
      Below(i) == \A b \in upper : s.idx_to_iter[i] <= b
  IN  [s EXCEPT
        !.upper_bound = upper,
        !.iter_cond   = [i \in s.idx |-> Below(i) /\ @[i]],
        !.is_alive    = [i \in s.idx |-> Below(i) /\ @[i]]]

-----------------------------------------------------------------------------
(* Joint spaces: two children walked together, the one that is behind (or  *)
(* both when they are level) taking the step.                              *)

(* Slip: level children do not step together.                              *)
JointSpaceOneSided(l, r) ==
  LET idxs == l.idx \X r.idx
      LIter(i) == l.idx_to_iter[i[1]]
      RIter(i) == r.idx_to_iter[i[2]]
  IN  [idx           |-> idxs,
       idx_to_iter   |-> [i \in idxs |-> Min2(LIter(i), RIter(i))],
       iter_to_idx   |-> [t \in Int |-> <<l.iter_to_idx[t], r.iter_to_idx[t]>>],
       next          |-> [i \in idxs |-> IF LIter(i) <= RIter(i)
                                         THEN <<l.next[i[1]], i[2]>>
                                         ELSE <<i[1], r.next[i[2]]>>],
       vec_iter_idxs |-> [i \in idxs |-> l.vec_iter_idxs[i[1]] \union r.vec_iter_idxs[i[2]]]]

JointSpace(l, r) ==
  LET idxs == l.idx \X r.idx
      LIter(i) == l.idx_to_iter[i[1]]
      RIter(i) == r.idx_to_iter[i[2]]
  IN  [idx           |-> idxs,
       idx_to_iter   |-> [i \in idxs |-> Min2(LIter(i), RIter(i))],
       iter_to_idx   |-> [t \in Int |-> <<l.iter_to_idx[t], r.iter_to_idx[t]>>],
       next          |-> [i \in idxs |->
                           << IF LIter(i) <= RIter(i) THEN l.next[i[1]] ELSE i[1],
                              IF RIter(i) <= LIter(i) THEN r.next[i[2]] ELSE i[2] >>],
       vec_iter_idxs |-> [i \in idxs |-> l.vec_iter_idxs[i[1]] \union r.vec_iter_idxs[i[2]]]]

(* The joint space j completed by the methods the two kinds define.        *)
Complete(j, lower, upper, cond, alive) ==
  [idx           |-> j.idx,
   lower_bound   |-> lower,
   upper_bound   |-> upper,
   iter_cond     |-> cond,
   idx_to_iter   |-> j.idx_to_iter,
   iter_to_idx   |-> j.iter_to_idx,
   is_alive      |-> alive,
   next          |-> j.next,
   vec_iter_idxs |-> j.vec_iter_idxs]

UnionSpace(l, r) ==
  LET idxs == l.idx \X r.idx
  IN  Complete(JointSpace(l, r),
               Lowest(l.lower_bound \union r.lower_bound),
               Highest(l.upper_bound \union r.upper_bound),
               [i \in idxs |-> l.iter_cond[i[1]] \/ r.iter_cond[i[2]]],
               [i \in idxs |-> l.is_alive[i[1]] \/ r.is_alive[i[2]]])

(* Slip: the children need not stand on the same value.                    *)
InterSpaceLoose(l, r) ==
  LET idxs == l.idx \X r.idx
  IN  Complete(JointSpace(l, r),
               Highest(l.lower_bound \union r.lower_bound),
               Lowest(l.upper_bound \union r.upper_bound),
               [i \in idxs |-> l.iter_cond[i[1]] /\ r.iter_cond[i[2]]],
               [i \in idxs |-> l.is_alive[i[1]] /\ r.is_alive[i[2]]])

(* Slip: the walk goes on as long as either child does.                    *)
InterSpaceOverrun(l, r) ==
  LET idxs == l.idx \X r.idx
  IN  Complete(JointSpace(l, r),
               Highest(l.lower_bound \union r.lower_bound),
               Lowest(l.upper_bound \union r.upper_bound),
               [i \in idxs |-> /\ l.iter_cond[i[1]]
                               /\ r.iter_cond[i[2]]
                               /\ l.idx_to_iter[i[1]] = r.idx_to_iter[i[2]]],
               [i \in idxs |-> l.is_alive[i[1]] \/ r.is_alive[i[2]]])

InterSpace(l, r) ==
  LET idxs == l.idx \X r.idx
  IN  Complete(JointSpace(l, r),
               Highest(l.lower_bound \union r.lower_bound),
               Lowest(l.upper_bound \union r.upper_bound),
               [i \in idxs |-> /\ l.iter_cond[i[1]]
                               /\ r.iter_cond[i[2]]
                               /\ l.idx_to_iter[i[1]] = r.idx_to_iter[i[2]]],
               [i \in idxs |-> l.is_alive[i[1]] /\ r.is_alive[i[2]]])

-----------------------------------------------------------------------------
(* Nested spaces: a walk of the inner space for each step of the outer.   *)

(* The inner space while the outer index of the pair i stands where it is. *)
InnerAt(outer, inner, i) == inner[outer.idx_to_iter[i[1]]]

(* Slip: the inner index is not set back when the outer one moves.         *)
NestedNextNoReset(outer, inner, start, i) ==
  LET here == InnerAt(outer, inner, i)
  IN  IF here.is_alive[i[2]]
      THEN <<i[1], here.next[i[2]]>>
      ELSE <<outer.next[i[1]], i[2]>>

(* Slip: the inner walk starts again but the outer one does not step.      *)
NestedNextNoStep(outer, inner, start, i) ==
  LET here == InnerAt(outer, inner, i)
  IN  <<i[1], IF here.is_alive[i[2]] THEN here.next[i[2]] ELSE start>>

(* The inner index steps until it is dead (that index is visited too);     *)
(* then the outer one steps and the inner one starts again.                *)
NestedNext(outer, inner, start, i) ==
  LET here == InnerAt(outer, inner, i)
  IN  IF here.is_alive[i[2]]
      THEN <<i[1], here.next[i[2]]>>
      ELSE <<outer.next[i[1]], start>>

(* inner[t] is the inner space while the outer iterator is t.  Its lower   *)
(* bound is evaluated before the loop has an outer iterator, so it is the  *)
(* same for every t.                                                       *)
NestedSpace(outer, inner) ==
  LET idxs == outer.idx \X Int
      Inner(i) == InnerAt(outer, inner, i)
      ilower == inner[0].lower_bound
      start == inner[0].iter_to_idx[CHOOSE b \in ilower : TRUE]
  IN  [idx           |-> idxs,
       lower_bound   |-> outer.lower_bound \X ilower,
       upper_bound   |-> outer.upper_bound \X inner[0].upper_bound,
       iter_cond     |-> [i \in idxs |-> outer.iter_cond[i[1]] /\ Inner(i).iter_cond[i[2]]],
       idx_to_iter   |-> [i \in idxs |-> <<outer.idx_to_iter[i[1]], Inner(i).idx_to_iter[i[2]]>>],
       iter_to_idx   |-> [t \in Int \X Int |-> <<outer.iter_to_idx[t[1]], inner[0].iter_to_idx[t[2]]>>],
       is_alive      |-> [i \in idxs |-> outer.is_alive[i[1]]],
       next          |-> [i \in idxs |-> NestedNext(outer, inner, start, i)],
       vec_iter_idxs |-> [i \in idxs |-> outer.vec_iter_idxs[i[1]] \union Inner(i).vec_iter_idxs[i[2]]]]
=============================================================================
