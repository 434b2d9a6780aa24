-------------------------- MODULE SpaceLawsProofs ---------------------------
(***************************************************************************)
(* Every space of IterSpace obeys the laws when its children do.           *)
(***************************************************************************)
EXTENDS SpaceLaws, FiniteSetTheorems, TLAPS

(* UniversalSpace walks all the integers from wherever it starts.          *)
LEMMA UniversalLaws ==
  /\ IsSpace(UniversalSpace)
  /\ Laws(UniversalSpace, Int, Int)
  /\ \A lb \in Int : StartLaw(UniversalSpace, Int, lb)
BY DEF UniversalSpace, IsSpace, Laws, StepLaw, CondLaw, StartLaw, Optional

(* LBoundSpace keeps the values from its bound upwards.                    *)
LEMMA LBoundLaws ==
  ASSUME NEW s, IsSpace(s), NEW G, NEW Sol, Laws(s, G, Sol), NEW b \in Int,
         NEW lower \in Int, LBoundSpace(s, b).lower_bound = {lower}
  PROVE  /\ IsSpace(LBoundSpace(s, b))
         /\ Laws(LBoundSpace(s, b), G, AtLeast(Sol, lower))
         /\ LowerLaw(LBoundSpace(s, b), AtLeast(Sol, lower))
         /\ \A lb \in Int : StartLaw(s, G, lb) => StartLaw(LBoundSpace(s, b), G, lb)
<1> DEFINE l == LBoundSpace(s, b)
<1>1. Highest({b} \union s.lower_bound) = {lower}
  BY DEF LBoundSpace, IsSpace
<1>2. l = [s EXCEPT
             !.lower_bound = {lower},
             !.iter_cond   = [i \in s.idx |-> s.idx_to_iter[i] >= lower /\ s.iter_cond[i]]]
  <2>1. l = [s EXCEPT
               !.lower_bound = {lower},
               !.iter_cond   = [i \in s.idx |->
                                 (\A c \in {lower} : s.idx_to_iter[i] >= c) /\ s.iter_cond[i]]]
    BY <1>1 DEF LBoundSpace
  <2>2. [i \in s.idx |-> (\A c \in {lower} : s.idx_to_iter[i] >= c) /\ s.iter_cond[i]]
          = [i \in s.idx |-> s.idx_to_iter[i] >= lower /\ s.iter_cond[i]]
    OBVIOUS
  <2>3. QED BY <2>1, <2>2
<1> HIDE DEF l
<1>3. IsSpace(l)
  BY <1>2 DEF IsSpace, Optional
<1>4. Laws(l, G, AtLeast(Sol, lower))
  BY <1>2 DEF IsSpace, Laws, StepLaw, CondLaw, AtLeast
<1>5. LowerLaw(l, AtLeast(Sol, lower))
  BY <1>2 DEF LowerLaw, AtLeast
<1>6. ASSUME NEW lb \in Int, StartLaw(s, G, lb)
      PROVE  StartLaw(l, G, lb)
  BY <1>2, <1>6 DEF StartLaw
<1>7. QED BY <1>3, <1>4, <1>5, <1>6 DEF l

(* The bound of an LBoundSpace: the child's, or its own if that is higher. *)
LEMMA LBoundLower ==
  ASSUME NEW s, IsSpace(s), NEW b \in Int
  PROVE  \E lower \in Int : /\ LBoundSpace(s, b).lower_bound = {lower}
                            /\ lower >= b
                            /\ \A c \in s.lower_bound : lower >= c
<1>1. LBoundSpace(s, b).lower_bound = Highest({b} \union s.lower_bound)
  BY DEF LBoundSpace, IsSpace
<1>2. CASE s.lower_bound = {}
  BY <1>1, <1>2 DEF Highest
<1>3. ASSUME NEW c \in Int, s.lower_bound = {c}
      PROVE  \E lower \in Int : /\ LBoundSpace(s, b).lower_bound = {lower}
                                /\ lower >= b
                                /\ \A d \in s.lower_bound : lower >= d
  <2>1. CASE b >= c
    <3>1. Highest({b} \union {c}) = {b}
      BY <2>1 DEF Highest
    <3>2. QED BY <1>1, <1>3, <2>1, <3>1
  <2>2. CASE b < c
    <3>1. Highest({b} \union {c}) = {c}
      BY <2>2 DEF Highest
    <3>2. QED BY <1>1, <1>3, <2>2, <3>1
  <2>3. QED BY <2>1, <2>2
<1>4. QED BY <1>2, <1>3 DEF IsSpace, Optional

(* UBoundSpace keeps the values up to its bound and is dead past it.       *)
LEMMA UBoundLaws ==
  ASSUME NEW s, IsSpace(s), NEW G, NEW Sol, Laws(s, G, Sol), NEW b \in Int,
         NEW upper \in Int, UBoundSpace(s, b).upper_bound = {upper}
  PROVE  /\ IsSpace(UBoundSpace(s, b))
         /\ Laws(UBoundSpace(s, b), G, AtMost(Sol, upper))
         /\ LowerLaw(s, Sol) => LowerLaw(UBoundSpace(s, b), AtMost(Sol, upper))
         /\ \A lb \in Int : lb <= upper /\ StartLaw(s, G, lb) => StartLaw(UBoundSpace(s, b), G, lb)
<1> DEFINE u == UBoundSpace(s, b)
<1>1. Lowest({b} \union s.upper_bound) = {upper}
  BY DEF UBoundSpace, IsSpace
<1>2. u = [s EXCEPT
             !.upper_bound = {upper},
             !.iter_cond   = [i \in s.idx |-> s.idx_to_iter[i] <= upper /\ s.iter_cond[i]],
             !.is_alive    = [i \in s.idx |-> s.idx_to_iter[i] <= upper /\ s.is_alive[i]]]
  <2>1. u = [s EXCEPT
               !.upper_bound = {upper},
               !.iter_cond   = [i \in s.idx |->
                                 (\A c \in {upper} : s.idx_to_iter[i] <= c) /\ s.iter_cond[i]],
               !.is_alive    = [i \in s.idx |->
                                 (\A c \in {upper} : s.idx_to_iter[i] <= c) /\ s.is_alive[i]]]
    BY <1>1 DEF UBoundSpace
  <2>2. [i \in s.idx |-> (\A c \in {upper} : s.idx_to_iter[i] <= c) /\ s.iter_cond[i]]
          = [i \in s.idx |-> s.idx_to_iter[i] <= upper /\ s.iter_cond[i]]
    OBVIOUS
  <2>3. [i \in s.idx |-> (\A c \in {upper} : s.idx_to_iter[i] <= c) /\ s.is_alive[i]]
          = [i \in s.idx |-> s.idx_to_iter[i] <= upper /\ s.is_alive[i]]
    OBVIOUS
  <2>4. QED BY <2>1, <2>2, <2>3
<1> HIDE DEF u
<1>3. IsSpace(u)
  BY <1>2 DEF IsSpace, Optional
<1>4. Laws(u, G, AtMost(Sol, upper))
  <2>1. StepLaw(u, G, AtMost(Sol, upper))
    <3>1. ASSUME NEW i \in G, u.is_alive[i]
          PROVE  /\ u.next[i] \in G
                 /\ u.is_alive[u.next[i]] => u.idx_to_iter[i] < u.idx_to_iter[u.next[i]]
                 /\ \A x \in AtMost(Sol, upper) : x > u.idx_to_iter[i] =>
                      u.is_alive[u.next[i]] /\ x >= u.idx_to_iter[u.next[i]]
      <4>1. /\ i \in s.idx /\ s.next[i] \in s.idx /\ s.is_alive[i]
            /\ u.next[i] = s.next[i]
            /\ u.is_alive[s.next[i]] <=> s.idx_to_iter[s.next[i]] <= upper /\ s.is_alive[s.next[i]]
            /\ u.idx_to_iter = s.idx_to_iter
            /\ s.idx_to_iter[i] \in Int
            /\ s.idx_to_iter[s.next[i]] \in Int
        BY <1>2, <3>1 DEF IsSpace, Laws
      <4>2. QED BY <4>1 DEF Laws, StepLaw, AtMost
    <3>2. QED BY <3>1 DEF StepLaw
  <2>2. CondLaw(u, G, AtMost(Sol, upper))
    BY <1>2 DEF IsSpace, Laws, CondLaw, AtMost
  <2>3. QED BY <1>2, <2>1, <2>2 DEF IsSpace, Laws, AtMost
<1>5. ASSUME LowerLaw(s, Sol)
      PROVE  LowerLaw(u, AtMost(Sol, upper))
  BY <1>2, <1>5 DEF LowerLaw, IsSpace, AtMost
<1>6. ASSUME NEW lb \in Int, lb <= upper, StartLaw(s, G, lb)
      PROVE  StartLaw(u, G, lb)
  BY <1>2, <1>6 DEF StartLaw, IsSpace, Laws
<1>7. QED BY <1>3, <1>4, <1>5, <1>6 DEF u

(* FilteredSpace keeps the values on which the symbol is true.             *)
LEMMA FilteredLaws ==
  ASSUME NEW s, IsSpace(s), NEW G, NEW Sol, Laws(s, G, Sol), NEW keep,
         NEW cond \in [s.idx -> BOOLEAN],
         \A i \in G : s.is_alive[i] => (cond[i] <=> s.idx_to_iter[i] \in keep)
  PROVE  /\ IsSpace(FilteredSpace(s, cond))
         /\ Laws(FilteredSpace(s, cond), G, Sol \intersect keep)
         /\ LowerLaw(s, Sol) => LowerLaw(FilteredSpace(s, cond), Sol \intersect keep)
         /\ \A lb \in Int : StartLaw(s, G, lb) => StartLaw(FilteredSpace(s, cond), G, lb)
<1> DEFINE f == FilteredSpace(s, cond)
<1>1. f = [s EXCEPT !.iter_cond = [i \in s.idx |-> cond[i] /\ s.iter_cond[i]]]
  BY DEF FilteredSpace
<1> HIDE DEF f
<1>2. IsSpace(f)
  BY <1>1 DEF IsSpace
<1>3. Laws(f, G, Sol \intersect keep)
  <2>1. StepLaw(f, G, Sol \intersect keep)
    BY <1>1 DEF IsSpace, Laws, StepLaw
  <2>2. CondLaw(f, G, Sol \intersect keep)
    BY <1>1 DEF IsSpace, Laws, CondLaw
  <2>3. QED BY <1>1, <2>1, <2>2 DEF IsSpace, Laws
<1>4. LowerLaw(s, Sol) => LowerLaw(f, Sol \intersect keep)
  BY <1>1 DEF LowerLaw, IsSpace
<1>5. \A lb \in Int : StartLaw(s, G, lb) => StartLaw(f, G, lb)
  BY <1>1 DEF StartLaw, IsSpace
<1>6. QED BY <1>2, <1>3, <1>4, <1>5 DEF f

(* ShiftedSpace walks its child's values moved by the offset.              *)
LEMMA ShiftedLaws ==
  ASSUME NEW s, IsSpace(s), NEW G, NEW Sol, Laws(s, G, Sol), NEW c \in Int
  PROVE  /\ IsSpace(ShiftedSpace(s, c))
         /\ Laws(ShiftedSpace(s, c), G, Moved(Sol, c))
         /\ LowerLaw(s, Sol) => LowerLaw(ShiftedSpace(s, c), Moved(Sol, c))
         /\ \A lb \in Int : StartLaw(s, G, lb - c) => StartLaw(ShiftedSpace(s, c), G, lb)
<1> DEFINE h == ShiftedSpace(s, c)
           S == Moved(Sol, c)
<1>1. h = [s EXCEPT
             !.lower_bound = {b + c : b \in s.lower_bound},
             !.upper_bound = {b + c : b \in s.upper_bound},
             !.idx_to_iter = [i \in s.idx |-> s.idx_to_iter[i] + c],
             !.iter_to_idx = [t \in Int |-> s.iter_to_idx[t - c]]]
  BY DEF ShiftedSpace
<1> HIDE DEF h
<1>2. IsSpace(h)
  <2>1. ASSUME NEW o \in Optional
        PROVE  {b + c : b \in o} \in Optional
    <3>1. CASE o = {}
      BY <3>1 DEF Optional
    <3>2. ASSUME NEW d \in Int, o = {d}
          PROVE  {b + c : b \in o} \in Optional
      <4>1. {b + c : b \in o} = {d + c}
        BY <3>2
      <4>2. QED BY <4>1 DEF Optional
    <3>3. QED BY <3>1, <3>2 DEF Optional
  <2>2. h.lower_bound \in Optional /\ h.upper_bound \in Optional
    BY <1>1, <2>1 DEF IsSpace
  <2>3. /\ h.idx_to_iter \in [h.idx -> Int]
        /\ h.iter_to_idx \in [Int -> h.idx]
        /\ h.iter_cond \in [h.idx -> BOOLEAN]
        /\ h.is_alive \in [h.idx -> BOOLEAN]
        /\ h.next \in [h.idx -> h.idx]
    BY <1>1 DEF IsSpace
  <2>4. h = [idx           |-> h.idx,
             lower_bound   |-> h.lower_bound,
             upper_bound   |-> h.upper_bound,
             iter_cond     |-> h.iter_cond,
             idx_to_iter   |-> h.idx_to_iter,
             iter_to_idx   |-> h.iter_to_idx,
             is_alive      |-> h.is_alive,
             next          |-> h.next,
             vec_iter_idxs |-> h.vec_iter_idxs]
    BY <1>1 DEF IsSpace
  <2>5. QED BY <2>2, <2>3, <2>4 DEF IsSpace
<1>3. Laws(h, G, S)
  <2>1. StepLaw(h, G, S)
    <3>1. SUFFICES ASSUME NEW i \in G, h.is_alive[i]
                   PROVE  /\ h.next[i] \in G
                          /\ h.is_alive[h.next[i]] => h.idx_to_iter[i] < h.idx_to_iter[h.next[i]]
                          /\ \A x \in S : x > h.idx_to_iter[i] =>
                               h.is_alive[h.next[i]] /\ x >= h.idx_to_iter[h.next[i]]
      BY DEF StepLaw
    <3>2. /\ i \in s.idx /\ s.next[i] \in s.idx /\ s.is_alive[i]
          /\ h.next[i] = s.next[i]
          /\ h.is_alive[h.next[i]] = s.is_alive[s.next[i]]
          /\ h.idx_to_iter[i] = s.idx_to_iter[i] + c
          /\ h.idx_to_iter[h.next[i]] = s.idx_to_iter[s.next[i]] + c
          /\ s.idx_to_iter[i] \in Int
          /\ s.idx_to_iter[s.next[i]] \in Int
      BY <1>1, <3>1 DEF IsSpace, Laws
    <3>3. ASSUME NEW x \in S, x > h.idx_to_iter[i]
          PROVE  h.is_alive[h.next[i]] /\ x >= h.idx_to_iter[h.next[i]]
      <4>1. x - c \in Sol /\ x - c > s.idx_to_iter[i] /\ x \in Int
        BY <3>2, <3>3 DEF Moved
      <4>2. s.is_alive[s.next[i]] /\ x - c >= s.idx_to_iter[s.next[i]]
        BY <3>2, <4>1 DEF Laws, StepLaw
      <4>3. QED BY <3>2, <4>1, <4>2
    <3>4. QED BY <3>2, <3>3 DEF Laws, StepLaw
  <2>2. CondLaw(h, G, S)
    BY <1>1 DEF IsSpace, Laws, CondLaw, Moved
  <2>3. QED BY <1>1, <2>1, <2>2 DEF IsSpace, Laws, Moved
<1>4. LowerLaw(s, Sol) => LowerLaw(h, S)
  BY <1>1 DEF LowerLaw, IsSpace, Optional, Moved
<1>5. \A lb \in Int : StartLaw(s, G, lb - c) => StartLaw(h, G, lb)
  BY <1>1 DEF StartLaw, IsSpace, Laws
<1>6. QED BY <1>2, <1>3, <1>4, <1>5 DEF h

-----------------------------------------------------------------------------
(* Locate finds the row of a key that some row holds and is not null.      *)
LEMMA LocateRow ==
  ASSUME NEW v, IsVector(v), Sorted(v), NEW t \in Int, Located(v, t)
  PROVE  Locate(v, t) \in Rows(v) /\ ReadData(v, Locate(v, t)) = t
<1>1. IndexedAt(v, t) # {}
  BY DEF Located, Locate
<1>2. \E i \in IndexedAt(v, t) : \A j \in IndexedAt(v, t) : i <= j
  <2>1. ASSUME NEW i \in IndexedAt(v, t), NEW j \in IndexedAt(v, t)
        PROVE  i <= j
    <3>1. /\ i \in Rows(v) /\ j \in Rows(v)
          /\ v.cells[i].key = t /\ v.cells[j].key = t
          /\ i \in Int /\ j \in Int
      BY <2>1 DEF IndexedAt, Rows, IsVector
    <3>2. ~(j < i)
      BY <3>1 DEF Sorted
    <3>3. QED BY <3>1, <3>2
  <2>2. QED BY <1>1, <2>1
<1>3. Locate(v, t) \in IndexedAt(v, t)
  BY <1>1, <1>2 DEF Locate
<1>4. Locate(v, t) \in Rows(v) /\ v.cells[Locate(v, t)].valid /\ v.cells[Locate(v, t)].key = t
  BY <1>3 DEF IndexedAt
<1>5. ReadCell(v, Locate(v, t)) = v.cells[Locate(v, t)]
  BY <1>4 DEF ReadCell, Rows, IsVector
<1>6. QED BY <1>4, <1>5 DEF ReadData

(* VecSpace walks the rows of a sorted vector and stands for its non-null  *)
(* keys; a loop that starts at one of them starts well.                    *)
LEMMA VecLaws ==
  ASSUME NEW name, NEW v, IsVector(v), Sorted(v)
  PROVE  /\ IsSpace(VecSpace(name, v))
         /\ Laws(VecSpace(name, v), 0 .. v.len, Keys(v))
         /\ LowerLaw(VecSpace(name, v), Keys(v))
         /\ \A lb \in Int : Located(v, lb) => StartLaw(VecSpace(name, v), 0 .. v.len, lb)
<1> DEFINE s == VecSpace(name, v)
<1>0. v.len \in Nat /\ \A i \in Int : ReadCell(v, i) \in Cell
  BY DEF IsVector, ReadCell, Cell
<1>1. \A t \in Int : Locate(v, t) \in Int
  <2>1. \A t \in Int : Locate(v, t) = -1 \/ Locate(v, t) \in Rows(v)
    BY LocateRow DEF Located
  <2>2. QED BY <2>1, <1>0 DEF Rows
<1>2. \A i \in Int : ReadData(v, i) \in Int /\ ReadBit(v, i) \in BOOLEAN
  BY <1>0 DEF ReadData, ReadBit, Cell
<1>3. /\ s.idx = Int
      /\ s.lower_bound = {ReadData(v, 0)}
      /\ \A i \in Int : s.iter_cond[i] <=> (i < v.len /\ ReadBit(v, i))
      /\ \A i \in Int : s.idx_to_iter[i] = ReadData(v, i)
      /\ \A t \in Int : s.iter_to_idx[t] = Locate(v, t)
      /\ \A i \in Int : s.is_alive[i] <=> i < v.len
      /\ \A i \in Int : s.next[i] = i + 1
  BY DEF VecSpace
<1>4. IsSpace(s)
  BY <1>0, <1>1, <1>2 DEF VecSpace, IsSpace, Optional
<1> HIDE DEF s
<1>5. \A i \in Rows(v) : v.cells[i] \in Cell /\ ReadData(v, i) = v.cells[i].key /\ ReadBit(v, i) = v.cells[i].valid
  BY DEF ReadData, ReadBit, ReadCell, Rows, IsVector
<1>6. \A x \in Keys(v) : \E j \in Rows(v) : ReadData(v, j) = x /\ ReadBit(v, j)
  BY <1>5 DEF Keys
<1>7. \A i, j \in Rows(v) : ReadData(v, i) < ReadData(v, j) <=> i < j
  BY <1>0, <1>5, <1>2 DEF Sorted, Rows
<1>8. StepLaw(s, 0 .. v.len, Keys(v))
  <2>1. ASSUME NEW i \in 0 .. v.len, s.is_alive[i]
        PROVE  /\ s.next[i] \in 0 .. v.len
               /\ s.is_alive[s.next[i]] => s.idx_to_iter[i] < s.idx_to_iter[s.next[i]]
               /\ \A x \in Keys(v) : x > s.idx_to_iter[i] =>
                    s.is_alive[s.next[i]] /\ x >= s.idx_to_iter[s.next[i]]
    <3>1. i \in Rows(v) /\ s.next[i] = i + 1
      BY <1>0, <1>3, <2>1 DEF Rows
    <3>2. s.is_alive[i + 1] <=> i + 1 \in Rows(v)
      BY <1>0, <1>3, <3>1 DEF Rows
    <3>3. s.idx_to_iter[i] = ReadData(v, i) /\ s.idx_to_iter[i + 1] = ReadData(v, i + 1)
      BY <1>3, <3>1 DEF Rows
    <3>4. s.is_alive[i + 1] => s.idx_to_iter[i] < s.idx_to_iter[i + 1]
      BY <1>7, <3>1, <3>2, <3>3 DEF Rows
    <3>5. ASSUME NEW x \in Keys(v), x > s.idx_to_iter[i]
          PROVE  s.is_alive[i + 1] /\ x >= s.idx_to_iter[i + 1]
      <4>1. PICK j \in Rows(v) : ReadData(v, j) = x
        BY <1>6
      <4>2. i < j
        BY <1>2, <1>7, <3>1, <3>3, <3>5, <4>1 DEF Rows
      <4>3. i + 1 \in Rows(v) /\ i + 1 <= j
        BY <1>0, <3>1, <4>2 DEF Rows
      <4>4. j = i + 1 \/ ReadData(v, i + 1) < ReadData(v, j)
        BY <1>7, <4>3 DEF Rows
      <4>5. QED BY <1>2, <3>2, <3>3, <4>1, <4>3, <4>4 DEF Rows
    <3>6. QED BY <1>0, <3>1, <3>4, <3>5 DEF Rows
  <2>2. QED BY <2>1 DEF StepLaw
<1>9. CondLaw(s, 0 .. v.len, Keys(v))
  <2>1. ASSUME NEW i \in 0 .. v.len, s.is_alive[i]
        PROVE  s.iter_cond[i] <=> s.idx_to_iter[i] \in Keys(v)
    <3>1. i \in Rows(v) /\ s.idx_to_iter[i] = ReadData(v, i) /\ (s.iter_cond[i] <=> ReadBit(v, i))
      BY <1>0, <1>3, <2>1 DEF Rows
    <3>2. ReadBit(v, i) => ReadData(v, i) \in Keys(v)
      BY <1>5, <3>1 DEF Keys
    <3>3. ASSUME ReadData(v, i) \in Keys(v)
          PROVE  ReadBit(v, i)
      <4>1. PICK j \in Rows(v) : ReadData(v, j) = ReadData(v, i) /\ ReadBit(v, j)
        BY <1>6, <3>3
      <4>2. i = j
        BY <1>2, <1>7, <3>1, <4>1 DEF Rows
      <4>3. QED BY <4>1, <4>2
    <3>4. QED BY <3>1, <3>2, <3>3
  <2>2. QED BY <2>1 DEF CondLaw
<1>10. Keys(v) \in SUBSET Int
  BY <1>2, <1>6 DEF Rows
<1>11. LowerLaw(s, Keys(v))
  <2>1. ASSUME NEW x \in Keys(v)
        PROVE  x >= ReadData(v, 0)
    <3>1. PICK j \in Rows(v) : ReadData(v, j) = x
      BY <1>6
    <3>2. j = 0 \/ (0 \in Rows(v) /\ 0 < j)
      BY <1>0, <3>1 DEF Rows
    <3>3. QED BY <1>2, <1>7, <3>1, <3>2 DEF Rows
  <2>2. QED BY <1>3, <2>1 DEF LowerLaw
<1>12. ASSUME NEW lb \in Int, Located(v, lb)
       PROVE  StartLaw(s, 0 .. v.len, lb)
  <2>1. Locate(v, lb) \in Rows(v) /\ ReadData(v, Locate(v, lb)) = lb
    BY <1>12, LocateRow
  <2>2. QED BY <1>0, <1>3, <2>1 DEF StartLaw, Rows
<1>13. QED BY <1>3, <1>4, <1>8, <1>9, <1>10, <1>11, <1>12, <1>0 DEF s, Laws

-----------------------------------------------------------------------------
(* One step of a merge, whatever its kind.                                 *)
LEMMA JointStep ==
  ASSUME NEW l, IsSpace(l), NEW r, IsSpace(r),
         NEW i \in l.idx \X r.idx
  PROVE  /\ i[1] \in l.idx /\ i[2] \in r.idx
         /\ JointSpace(l, r).idx_to_iter[i] = Min2(l.idx_to_iter[i[1]], r.idx_to_iter[i[2]])
         /\ l.idx_to_iter[i[1]] < r.idx_to_iter[i[2]] => JointSpace(l, r).next[i] = <<l.next[i[1]], i[2]>>
         /\ r.idx_to_iter[i[2]] < l.idx_to_iter[i[1]] => JointSpace(l, r).next[i] = <<i[1], r.next[i[2]]>>
         /\ l.idx_to_iter[i[1]] = r.idx_to_iter[i[2]] => JointSpace(l, r).next[i] = <<l.next[i[1]], r.next[i[2]]>>
<1>1. i[1] \in l.idx /\ i[2] \in r.idx
  OBVIOUS
<1>2. l.idx_to_iter[i[1]] \in Int /\ r.idx_to_iter[i[2]] \in Int
  BY <1>1 DEF IsSpace
<1>3. JointSpace(l, r).idx_to_iter[i] = Min2(l.idx_to_iter[i[1]], r.idx_to_iter[i[2]])
  BY DEF JointSpace
<1>4. JointSpace(l, r).next[i] = << IF l.idx_to_iter[i[1]] <= r.idx_to_iter[i[2]] THEN l.next[i[1]] ELSE i[1],
                     IF r.idx_to_iter[i[2]] <= l.idx_to_iter[i[1]] THEN r.next[i[2]] ELSE i[2] >>
  BY DEF JointSpace
<1>5. QED BY <1>1, <1>2, <1>3, <1>4

(* A merge is a space.                                                     *)
LEMMA JointTypes ==
  ASSUME NEW l, IsSpace(l), NEW r, IsSpace(r)
  PROVE  /\ JointSpace(l, r).idx = l.idx \X r.idx
         /\ JointSpace(l, r).idx_to_iter \in [JointSpace(l, r).idx -> Int]
         /\ JointSpace(l, r).iter_to_idx \in [Int -> JointSpace(l, r).idx]
         /\ JointSpace(l, r).next \in [JointSpace(l, r).idx -> JointSpace(l, r).idx]
<1>1. JointSpace(l, r).idx = l.idx \X r.idx
  BY DEF JointSpace
<1>2. \A i \in JointSpace(l, r).idx : /\ i[1] \in l.idx /\ i[2] \in r.idx
                       /\ l.idx_to_iter[i[1]] \in Int /\ r.idx_to_iter[i[2]] \in Int
                       /\ l.next[i[1]] \in l.idx /\ r.next[i[2]] \in r.idx
  BY <1>1 DEF IsSpace
<1>3. JointSpace(l, r).idx_to_iter \in [JointSpace(l, r).idx -> Int]
  BY <1>1, <1>2 DEF JointSpace, Min2
<1>4. JointSpace(l, r).iter_to_idx \in [Int -> JointSpace(l, r).idx]
  BY <1>1 DEF JointSpace, IsSpace
<1>5. JointSpace(l, r).next \in [JointSpace(l, r).idx -> JointSpace(l, r).idx]
  BY <1>1, <1>2 DEF JointSpace
<1>6. QED BY <1>1, <1>3, <1>4, <1>5

(* The tightest and the loosest of two optional bounds is again one: of    *)
(* two bounds the higher or the lower, of one bound that one.              *)
LEMMA OptionalBounds ==
  ASSUME NEW o \in Optional, NEW p \in Optional
  PROVE  /\ Highest(o \union p) \in Optional
         /\ Lowest(o \union p) \in Optional
         /\ Highest(o \union p) \subseteq o \union p
         /\ Lowest(o \union p) \subseteq o \union p
<1>1. CASE o = {} \/ p = {}
  <2>1. \A d \in Optional : Highest(d) = d /\ Lowest(d) = d
    BY DEF Optional, Highest, Lowest
  <2>2. o \union p \in Optional
    BY <1>1 DEF Optional
  <2>3. QED BY <2>1, <2>2
<1>2. ASSUME NEW c \in Int, NEW d \in Int, o = {c}, p = {d}
      PROVE  Highest(o \union p) \in Optional /\ Lowest(o \union p) \in Optional
  <2>1. CASE c <= d
    <3>1. Highest(o \union p) = {d} /\ Lowest(o \union p) = {c}
      BY <1>2, <2>1 DEF Highest, Lowest
    <3>2. QED BY <3>1 DEF Optional
  <2>2. CASE d < c
    <3>1. Highest(o \union p) = {c} /\ Lowest(o \union p) = {d}
      BY <1>2, <2>2 DEF Highest, Lowest
    <3>2. QED BY <3>1 DEF Optional
  <2>3. QED BY <2>1, <2>2
<1>3. Highest(o \union p) \subseteq o \union p /\ Lowest(o \union p) \subseteq o \union p
  BY DEF Highest, Lowest
<1>4. QED BY <1>1, <1>2, <1>3 DEF Optional

(* InterSpace is the merge join: it stands for the common values.          *)
LEMMA InterLaws ==
  ASSUME NEW l, IsSpace(l), NEW GL, NEW SolL, Laws(l, GL, SolL),
         NEW r, IsSpace(r), NEW GR, NEW SolR, Laws(r, GR, SolR)
  PROVE  /\ IsSpace(InterSpace(l, r))
         /\ Laws(InterSpace(l, r), InterReach(l, r, GL, GR, SolL, SolR), SolL \intersect SolR)
         /\ LowerLaw(l, SolL) /\ LowerLaw(r, SolR) =>
              LowerLaw(InterSpace(l, r), SolL \intersect SolR)
         /\ \A lb \in Int : StartLaw(l, GL, lb) /\ StartLaw(r, GR, lb) =>
              StartLaw(InterSpace(l, r), InterReach(l, r, GL, GR, SolL, SolR), lb)
<1> DEFINE s == InterSpace(l, r)
           G == InterReach(l, r, GL, GR, SolL, SolR)
           Sol == SolL \intersect SolR
           LI(i) == l.idx_to_iter[i[1]]
           RI(i) == r.idx_to_iter[i[2]]
<1>1. /\ s.idx = l.idx \X r.idx
      /\ s.lower_bound = Highest(l.lower_bound \union r.lower_bound)
      /\ s.upper_bound = Lowest(l.upper_bound \union r.upper_bound)
      /\ s.idx_to_iter = JointSpace(l, r).idx_to_iter
      /\ s.iter_to_idx = JointSpace(l, r).iter_to_idx
      /\ s.next = JointSpace(l, r).next
      /\ s.is_alive = [i \in l.idx \X r.idx |-> l.is_alive[i[1]] /\ r.is_alive[i[2]]]
      /\ s.iter_cond = [i \in l.idx \X r.idx |-> l.iter_cond[i[1]] /\ r.iter_cond[i[2]] /\ LI(i) = RI(i)]
  BY DEF InterSpace, Complete, JointSpace
<1>2. IsSpace(s)
  <2>1. /\ l.lower_bound \in Optional /\ r.lower_bound \in Optional
        /\ l.upper_bound \in Optional /\ r.upper_bound \in Optional
    BY DEF IsSpace
  <2>2. s.lower_bound \in Optional /\ s.upper_bound \in Optional
    <3>1. Highest(l.lower_bound \union r.lower_bound) \in Optional
      BY <2>1, OptionalBounds
    <3>2. Lowest(l.upper_bound \union r.upper_bound) \in Optional
      BY <2>1, OptionalBounds
    <3>3. QED BY <1>1, <3>1, <3>2
  <2>3. /\ s.idx_to_iter \in [s.idx -> Int]
        /\ s.iter_to_idx \in [Int -> s.idx]
        /\ s.next \in [s.idx -> s.idx]
    <3>1. /\ JointSpace(l, r).idx = l.idx \X r.idx
          /\ JointSpace(l, r).idx_to_iter \in [JointSpace(l, r).idx -> Int]
          /\ JointSpace(l, r).iter_to_idx \in [Int -> JointSpace(l, r).idx]
          /\ JointSpace(l, r).next \in [JointSpace(l, r).idx -> JointSpace(l, r).idx]
      BY JointTypes
    <3>2. QED BY <1>1, <3>1
  <2>4. s.is_alive \in [s.idx -> BOOLEAN] /\ s.iter_cond \in [s.idx -> BOOLEAN]
    BY <1>1
  <2>5. s = [idx           |-> s.idx,
             lower_bound   |-> s.lower_bound,
             upper_bound   |-> s.upper_bound,
             iter_cond     |-> s.iter_cond,
             idx_to_iter   |-> s.idx_to_iter,
             iter_to_idx   |-> s.iter_to_idx,
             is_alive      |-> s.is_alive,
             next          |-> s.next,
             vec_iter_idxs |-> s.vec_iter_idxs]
    BY DEF InterSpace, Complete
  <2>6. QED BY <2>2, <2>3, <2>4, <2>5 DEF IsSpace
<1>3. \A i \in G : /\ i \in l.idx \X r.idx /\ i[1] \in GL /\ i[2] \in GR
                   /\ i[1] \in l.idx /\ i[2] \in r.idx
                   /\ LI(i) \in Int /\ RI(i) \in Int
                   /\ l.is_alive[i[1]] /\ r.is_alive[i[2]] => Level(l, r, SolL, SolR, i)
  BY DEF InterReach, Laws, IsSpace
<1>4. \A i \in l.idx \X r.idx :
        /\ s.is_alive[i] <=> l.is_alive[i[1]] /\ r.is_alive[i[2]]
        /\ s.iter_cond[i] <=> l.iter_cond[i[1]] /\ r.iter_cond[i[2]] /\ LI(i) = RI(i)
        /\ s.idx_to_iter[i] = Min2(LI(i), RI(i))
        /\ LI(i) < RI(i) => s.next[i] = <<l.next[i[1]], i[2]>>
        /\ RI(i) < LI(i) => s.next[i] = <<i[1], r.next[i[2]]>>
        /\ LI(i) = RI(i) => s.next[i] = <<l.next[i[1]], r.next[i[2]]>>
  <2>1. TAKE i \in l.idx \X r.idx
  <2>2. /\ s.idx_to_iter[i] = Min2(LI(i), RI(i))
        /\ LI(i) < RI(i) => s.next[i] = <<l.next[i[1]], i[2]>>
        /\ RI(i) < LI(i) => s.next[i] = <<i[1], r.next[i[2]]>>
        /\ LI(i) = RI(i) => s.next[i] = <<l.next[i[1]], r.next[i[2]]>>
    BY <1>1, JointStep
  <2>3. QED BY <1>1, <2>2
<1> HIDE DEF s, G
<1>5. StepLaw(s, G, Sol)
  <2>1. SUFFICES ASSUME NEW i \in G, s.is_alive[i]
                 PROVE  /\ s.next[i] \in G
                        /\ s.is_alive[s.next[i]] => s.idx_to_iter[i] < s.idx_to_iter[s.next[i]]
                        /\ \A x \in Sol : x > s.idx_to_iter[i] =>
                             s.is_alive[s.next[i]] /\ x >= s.idx_to_iter[s.next[i]]
    BY DEF StepLaw
  <2> DEFINE n == s.next[i]
  <2>2. l.is_alive[i[1]] /\ r.is_alive[i[2]] /\ Level(l, r, SolL, SolR, i)
    BY <1>3, <1>4, <2>1
  <2>3. /\ s.idx_to_iter[i] = Min2(LI(i), RI(i))
        /\ LI(i) < RI(i) => n = <<l.next[i[1]], i[2]>>
        /\ RI(i) < LI(i) => n = <<i[1], r.next[i[2]]>>
        /\ LI(i) = RI(i) => n = <<l.next[i[1]], r.next[i[2]]>>
    BY <1>3, <1>4, <2>1
  <2>4. /\ l.next[i[1]] \in GL /\ l.next[i[1]] \in l.idx
        /\ l.is_alive[l.next[i[1]]] => LI(i) < l.idx_to_iter[l.next[i[1]]]
        /\ \A x \in SolL : x > LI(i) =>
             l.is_alive[l.next[i[1]]] /\ x >= l.idx_to_iter[l.next[i[1]]]
        /\ l.idx_to_iter[l.next[i[1]]] \in Int
    BY <1>3, <2>1, <2>2 DEF Laws, StepLaw, IsSpace
  <2>5. /\ r.next[i[2]] \in GR /\ r.next[i[2]] \in r.idx
        /\ r.is_alive[r.next[i[2]]] => RI(i) < r.idx_to_iter[r.next[i[2]]]
        /\ \A x \in SolR : x > RI(i) =>
             r.is_alive[r.next[i[2]]] /\ x >= r.idx_to_iter[r.next[i[2]]]
        /\ r.idx_to_iter[r.next[i[2]]] \in Int
    BY <1>3, <2>1, <2>2 DEF Laws, StepLaw, IsSpace
  <2>6. SolL \in SUBSET Int /\ SolR \in SUBSET Int
    BY DEF Laws
  <2>7. /\ n \in l.idx \X r.idx /\ n[1] \in GL /\ n[2] \in GR
        /\ n \in GL \X GR
    BY <1>3, <2>1, <2>3, <2>4, <2>5
  <2>8. /\ s.is_alive[n] <=> l.is_alive[n[1]] /\ r.is_alive[n[2]]
        /\ s.idx_to_iter[n] = Min2(LI(n), RI(n))
    BY <1>4, <2>7
  <2>9. ASSUME l.is_alive[n[1]], r.is_alive[n[2]]
        PROVE  /\ Level(l, r, SolL, SolR, n)
               /\ s.idx_to_iter[i] < s.idx_to_iter[n]
    <3>1. CASE LI(i) < RI(i)
      <4>1. /\ LI(n) = l.idx_to_iter[l.next[i[1]]] /\ RI(n) = RI(i)
            /\ l.is_alive[l.next[i[1]]]
        BY <2>3, <2>9, <3>1
      <4>2. LI(i) < LI(n) /\ LI(n) \in Int
        BY <2>4, <4>1
      <4>3. \A x \in SolL : x > LI(i) => x >= LI(n)
        BY <2>4, <4>1
      <4>4. Level(l, r, SolL, SolR, n)
        BY <1>3, <2>1, <2>2, <2>6, <3>1, <4>1, <4>2, <4>3 DEF Level
      <4>5. QED BY <1>3, <2>1, <2>3, <2>8, <3>1, <4>1, <4>2, <4>4 DEF Min2
    <3>2. CASE RI(i) < LI(i)
      <4>1. /\ RI(n) = r.idx_to_iter[r.next[i[2]]] /\ LI(n) = LI(i)
            /\ r.is_alive[r.next[i[2]]]
        BY <2>3, <2>9, <3>2
      <4>2. RI(i) < RI(n) /\ RI(n) \in Int
        BY <2>5, <4>1
      <4>3. \A x \in SolR : x > RI(i) => x >= RI(n)
        BY <2>5, <4>1
      <4>4. Level(l, r, SolL, SolR, n)
        BY <1>3, <2>1, <2>2, <2>6, <3>2, <4>1, <4>2, <4>3 DEF Level
      <4>5. QED BY <1>3, <2>1, <2>3, <2>8, <3>2, <4>1, <4>2, <4>4 DEF Min2
    <3>3. CASE LI(i) = RI(i)
      <4>1. /\ LI(n) = l.idx_to_iter[l.next[i[1]]] /\ RI(n) = r.idx_to_iter[r.next[i[2]]]
            /\ l.is_alive[l.next[i[1]]] /\ r.is_alive[r.next[i[2]]]
        BY <2>3, <2>9, <3>3
      <4>2. LI(i) < LI(n) /\ RI(i) < RI(n) /\ LI(n) \in Int /\ RI(n) \in Int
        BY <2>4, <2>5, <4>1
      <4>3. \A x \in SolL : x > LI(i) => x >= LI(n)
        BY <2>4, <4>1
      <4>4. \A x \in SolR : x > RI(i) => x >= RI(n)
        BY <2>5, <4>1
      <4>5. Level(l, r, SolL, SolR, n)
        BY <1>3, <2>1, <2>6, <3>3, <4>2, <4>3, <4>4 DEF Level
      <4>6. QED BY <1>3, <1>4, <2>1, <2>8, <3>3, <4>2, <4>5 DEF Min2
    <3>4. QED BY <1>3, <2>1, <3>1, <3>2, <3>3
  <2>10. n \in G
    BY <2>7, <2>9 DEF G, InterReach
  <2>11. ASSUME NEW x \in Sol, x > s.idx_to_iter[i]
         PROVE  s.is_alive[n] /\ x >= s.idx_to_iter[n]
    <3>0. x \in SolL /\ x \in SolR /\ x \in Int
      BY <2>6, <2>11
    <3>1. CASE LI(i) < RI(i)
      BY <1>3, <2>1, <2>2, <2>3, <2>4, <2>8, <2>11, <3>0, <3>1 DEF Level, Min2
    <3>2. CASE RI(i) < LI(i)
      BY <1>3, <2>1, <2>2, <2>3, <2>5, <2>8, <2>11, <3>0, <3>2 DEF Level, Min2
    <3>3. CASE LI(i) = RI(i)
      BY <1>3, <2>1, <2>2, <2>3, <2>4, <2>5, <2>8, <2>11, <3>0, <3>3 DEF Level, Min2
    <3>4. QED BY <1>3, <2>1, <3>1, <3>2, <3>3
  <2>12. QED BY <2>8, <2>9, <2>10, <2>11
<1>6. CondLaw(s, G, Sol)
  <2>1. ASSUME NEW i \in G, s.is_alive[i]
        PROVE  s.iter_cond[i] <=> s.idx_to_iter[i] \in Sol
    <3>1. /\ s.iter_cond[i] <=> l.iter_cond[i[1]] /\ r.iter_cond[i[2]] /\ LI(i) = RI(i)
          /\ s.idx_to_iter[i] = Min2(LI(i), RI(i))
      BY <1>3, <1>4, <2>1
    <3>2. /\ l.iter_cond[i[1]] <=> LI(i) \in SolL
          /\ r.iter_cond[i[2]] <=> RI(i) \in SolR
          /\ Level(l, r, SolL, SolR, i)
      BY <1>3, <1>4, <2>1 DEF Laws, CondLaw
    <3>3. QED BY <1>3, <2>1, <3>1, <3>2 DEF Level, Min2
  <2>2. QED BY <2>1 DEF CondLaw
<1>7. Laws(s, G, Sol)
  <2>1. G \in SUBSET s.idx
    BY <1>1, <1>3
  <2>2. QED BY <1>5, <1>6, <2>1 DEF Laws
<1>8. LowerLaw(l, SolL) /\ LowerLaw(r, SolR) => LowerLaw(s, Sol)
  <2>1. s.lower_bound \subseteq l.lower_bound \union r.lower_bound
    BY <1>1 DEF Highest
  <2>2. QED BY <2>1 DEF LowerLaw
<1>9. ASSUME NEW lb \in Int, StartLaw(l, GL, lb), StartLaw(r, GR, lb)
      PROVE  StartLaw(s, G, lb)
  <2> DEFINE i == <<l.iter_to_idx[lb], r.iter_to_idx[lb]>>
  <2>1. s.iter_to_idx[lb] = i
    BY <1>1 DEF JointSpace
  <2>2. /\ i[1] \in GL /\ i[2] \in GR
        /\ l.is_alive[i[1]] /\ r.is_alive[i[2]]
        /\ LI(i) = lb /\ RI(i) = lb
    BY <1>9 DEF StartLaw
  <2>3. Level(l, r, SolL, SolR, i)
    BY <2>2 DEF Level, Laws
  <2>4. i \in G
    BY <2>2, <2>3 DEF G, InterReach
  <2>5. s.is_alive[i]
    BY <1>3, <1>4, <2>2, <2>4
  <2>6. s.idx_to_iter[i] = lb
    BY <1>3, <1>4, <2>2, <2>4 DEF Min2
  <2>7. QED BY <2>1, <2>4, <2>5, <2>6 DEF StartLaw
<1>10. QED BY <1>2, <1>7, <1>8, <1>9 DEF s, G

(* UnionSpace is the merge of two walks that run out together and whose    *)
(* every row counts: it stands for the values of either.                   *)
LEMMA UnionLaws ==
  ASSUME NEW l, IsSpace(l), NEW GL, NEW SolL, Laws(l, GL, SolL),
         NEW r, IsSpace(r), NEW GR, NEW SolR, Laws(r, GR, SolR),
         NEW last \in Int, UnionSide(l, GL, last), UnionSide(r, GR, last)
  PROVE  /\ IsSpace(UnionSpace(l, r))
         /\ Laws(UnionSpace(l, r), UnionReach(l, r, GL, GR, SolL, SolR), SolL \union SolR)
         /\ /\ LowerLaw(l, SolL) /\ LowerLaw(r, SolR)
            /\ l.lower_bound # {} /\ r.lower_bound # {}
            => LowerLaw(UnionSpace(l, r), SolL \union SolR)
         /\ \A lb \in Int : StartLaw(l, GL, lb) /\ StartLaw(r, GR, lb) =>
              StartLaw(UnionSpace(l, r), UnionReach(l, r, GL, GR, SolL, SolR), lb)
<1> DEFINE s == UnionSpace(l, r)
           G == UnionReach(l, r, GL, GR, SolL, SolR)
           Sol == SolL \union SolR
           LI(i) == l.idx_to_iter[i[1]]
           RI(i) == r.idx_to_iter[i[2]]
<1>1. /\ s.idx = l.idx \X r.idx
      /\ s.lower_bound = Lowest(l.lower_bound \union r.lower_bound)
      /\ s.upper_bound = Highest(l.upper_bound \union r.upper_bound)
      /\ s.idx_to_iter = JointSpace(l, r).idx_to_iter
      /\ s.iter_to_idx = JointSpace(l, r).iter_to_idx
      /\ s.next = JointSpace(l, r).next
      /\ s.is_alive = [i \in l.idx \X r.idx |-> l.is_alive[i[1]] \/ r.is_alive[i[2]]]
      /\ s.iter_cond = [i \in l.idx \X r.idx |-> l.iter_cond[i[1]] \/ r.iter_cond[i[2]]]
  BY DEF UnionSpace, Complete, JointSpace
<1>2. IsSpace(s)
  <2>1. /\ l.lower_bound \in Optional /\ r.lower_bound \in Optional
        /\ l.upper_bound \in Optional /\ r.upper_bound \in Optional
    BY DEF IsSpace
  <2>2. s.lower_bound \in Optional /\ s.upper_bound \in Optional
    <3>1. Lowest(l.lower_bound \union r.lower_bound) \in Optional
      BY <2>1, OptionalBounds
    <3>2. Highest(l.upper_bound \union r.upper_bound) \in Optional
      BY <2>1, OptionalBounds
    <3>3. QED BY <1>1, <3>1, <3>2
  <2>3. /\ s.idx_to_iter \in [s.idx -> Int]
        /\ s.iter_to_idx \in [Int -> s.idx]
        /\ s.next \in [s.idx -> s.idx]
    <3>1. /\ JointSpace(l, r).idx = l.idx \X r.idx
          /\ JointSpace(l, r).idx_to_iter \in [JointSpace(l, r).idx -> Int]
          /\ JointSpace(l, r).iter_to_idx \in [Int -> JointSpace(l, r).idx]
          /\ JointSpace(l, r).next \in [JointSpace(l, r).idx -> JointSpace(l, r).idx]
      BY JointTypes
    <3>2. QED BY <1>1, <3>1
  <2>4. s.is_alive \in [s.idx -> BOOLEAN] /\ s.iter_cond \in [s.idx -> BOOLEAN]
    BY <1>1
  <2>5. s = [idx           |-> s.idx,
             lower_bound   |-> s.lower_bound,
             upper_bound   |-> s.upper_bound,
             iter_cond     |-> s.iter_cond,
             idx_to_iter   |-> s.idx_to_iter,
             iter_to_idx   |-> s.iter_to_idx,
             is_alive      |-> s.is_alive,
             next          |-> s.next,
             vec_iter_idxs |-> s.vec_iter_idxs]
    BY DEF UnionSpace, Complete
  <2>6. QED BY <2>2, <2>3, <2>4, <2>5 DEF IsSpace
<1>3. \A i \in G : /\ i \in l.idx \X r.idx /\ i[1] \in GL /\ i[2] \in GR
                   /\ i[1] \in l.idx /\ i[2] \in r.idx
                   /\ LI(i) \in Int /\ RI(i) \in Int
                   /\ l.is_alive[i[1]] <=> r.is_alive[i[2]]
                   /\ l.is_alive[i[1]] /\ r.is_alive[i[2]] => Level(l, r, SolL, SolR, i)
  BY DEF UnionReach, Laws, IsSpace
<1>4. \A i \in l.idx \X r.idx :
        /\ s.is_alive[i] <=> l.is_alive[i[1]] \/ r.is_alive[i[2]]
        /\ s.iter_cond[i] <=> l.iter_cond[i[1]] \/ r.iter_cond[i[2]]
        /\ s.idx_to_iter[i] = Min2(LI(i), RI(i))
        /\ LI(i) < RI(i) => s.next[i] = <<l.next[i[1]], i[2]>>
        /\ RI(i) < LI(i) => s.next[i] = <<i[1], r.next[i[2]]>>
        /\ LI(i) = RI(i) => s.next[i] = <<l.next[i[1]], r.next[i[2]]>>
  <2>1. TAKE i \in l.idx \X r.idx
  <2>2. /\ s.idx_to_iter[i] = Min2(LI(i), RI(i))
        /\ LI(i) < RI(i) => s.next[i] = <<l.next[i[1]], i[2]>>
        /\ RI(i) < LI(i) => s.next[i] = <<i[1], r.next[i[2]]>>
        /\ LI(i) = RI(i) => s.next[i] = <<l.next[i[1]], r.next[i[2]]>>
    BY <1>1, JointStep
  <2>3. QED BY <1>1, <2>2
<1> HIDE DEF s, G
<1>5. StepLaw(s, G, Sol)
  <2>1. SUFFICES ASSUME NEW i \in G, s.is_alive[i]
                 PROVE  /\ s.next[i] \in G
                        /\ s.is_alive[s.next[i]] => s.idx_to_iter[i] < s.idx_to_iter[s.next[i]]
                        /\ \A x \in Sol : x > s.idx_to_iter[i] =>
                             s.is_alive[s.next[i]] /\ x >= s.idx_to_iter[s.next[i]]
    BY DEF StepLaw
  <2> DEFINE n == s.next[i]
  <2>2. l.is_alive[i[1]] /\ r.is_alive[i[2]] /\ Level(l, r, SolL, SolR, i)
    BY <1>3, <1>4, <2>1
  <2>3. /\ s.idx_to_iter[i] = Min2(LI(i), RI(i))
        /\ LI(i) < RI(i) => n = <<l.next[i[1]], i[2]>>
        /\ RI(i) < LI(i) => n = <<i[1], r.next[i[2]]>>
        /\ LI(i) = RI(i) => n = <<l.next[i[1]], r.next[i[2]]>>
    BY <1>3, <1>4, <2>1
  <2>4. /\ l.next[i[1]] \in GL /\ l.next[i[1]] \in l.idx
        /\ l.is_alive[l.next[i[1]]] => LI(i) < l.idx_to_iter[l.next[i[1]]]
        /\ \A x \in SolL : x > LI(i) =>
             l.is_alive[l.next[i[1]]] /\ x >= l.idx_to_iter[l.next[i[1]]]
        /\ l.idx_to_iter[l.next[i[1]]] \in Int
    BY <1>3, <2>1, <2>2 DEF Laws, StepLaw, IsSpace
  <2>5. /\ r.next[i[2]] \in GR /\ r.next[i[2]] \in r.idx
        /\ r.is_alive[r.next[i[2]]] => RI(i) < r.idx_to_iter[r.next[i[2]]]
        /\ \A x \in SolR : x > RI(i) =>
             r.is_alive[r.next[i[2]]] /\ x >= r.idx_to_iter[r.next[i[2]]]
        /\ r.idx_to_iter[r.next[i[2]]] \in Int
    BY <1>3, <2>1, <2>2 DEF Laws, StepLaw, IsSpace
  <2>6. SolL \in SUBSET Int /\ SolR \in SUBSET Int
    BY DEF Laws
  <2>7. /\ n \in l.idx \X r.idx /\ n[1] \in GL /\ n[2] \in GR
        /\ n \in GL \X GR
    BY <1>3, <2>1, <2>3, <2>4, <2>5
  <2>8. /\ s.is_alive[n] <=> l.is_alive[n[1]] \/ r.is_alive[n[2]]
        /\ s.idx_to_iter[n] = Min2(LI(n), RI(n))
    BY <1>4, <2>7
  <2>9. /\ LI(i) <= last /\ (l.is_alive[l.next[i[1]]] <=> LI(i) < last)
        /\ RI(i) <= last /\ (r.is_alive[r.next[i[2]]] <=> RI(i) < last)
    BY <1>3, <2>1, <2>2 DEF UnionSide
  <2>10. l.is_alive[n[1]] <=> r.is_alive[n[2]]
    <3>1. CASE LI(i) < RI(i)
      BY <1>3, <2>1, <2>2, <2>3, <2>9, <3>1
    <3>2. CASE RI(i) < LI(i)
      BY <1>3, <2>1, <2>2, <2>3, <2>9, <3>2
    <3>3. CASE LI(i) = RI(i)
      BY <2>3, <2>9, <3>3
    <3>4. QED BY <1>3, <2>1, <3>1, <3>2, <3>3
  <2>11. ASSUME l.is_alive[n[1]], r.is_alive[n[2]]
        PROVE  /\ Level(l, r, SolL, SolR, n)
               /\ s.idx_to_iter[i] < s.idx_to_iter[n]
    <3>1. CASE LI(i) < RI(i)
      <4>1. /\ LI(n) = l.idx_to_iter[l.next[i[1]]] /\ RI(n) = RI(i)
            /\ l.is_alive[l.next[i[1]]]
        BY <2>3, <2>11, <3>1
      <4>2. /\ LI(i) < LI(n) /\ LI(i) \in Int /\ RI(i) \in Int
            /\ LI(n) \in Int /\ RI(n) \in Int
        BY <1>3, <2>1, <2>4, <4>1
      <4>3. \A x \in SolL : x > LI(i) => x >= LI(n)
        BY <2>4, <4>1
      <4>4. Level(l, r, SolL, SolR, n)
        BY <2>2, <2>6, <3>1, <4>1, <4>2, <4>3 DEF Level
      <4>5. s.idx_to_iter[i] < s.idx_to_iter[n]
        BY <2>3, <2>8, <3>1, <4>1, <4>2 DEF Min2
      <4>6. QED BY <4>4, <4>5
    <3>2. CASE RI(i) < LI(i)
      <4>1. /\ RI(n) = r.idx_to_iter[r.next[i[2]]] /\ LI(n) = LI(i)
            /\ r.is_alive[r.next[i[2]]]
        BY <2>3, <2>11, <3>2
      <4>2. /\ RI(i) < RI(n) /\ RI(i) \in Int /\ LI(i) \in Int
            /\ RI(n) \in Int /\ LI(n) \in Int
        BY <1>3, <2>1, <2>5, <4>1
      <4>3. \A x \in SolR : x > RI(i) => x >= RI(n)
        BY <2>5, <4>1
      <4>4. Level(l, r, SolL, SolR, n)
        BY <2>2, <2>6, <3>2, <4>1, <4>2, <4>3 DEF Level
      <4>5. s.idx_to_iter[i] < s.idx_to_iter[n]
        BY <2>3, <2>8, <3>2, <4>1, <4>2 DEF Min2
      <4>6. QED BY <4>4, <4>5
    <3>3. CASE LI(i) = RI(i)
      <4>1. /\ LI(n) = l.idx_to_iter[l.next[i[1]]] /\ RI(n) = r.idx_to_iter[r.next[i[2]]]
            /\ l.is_alive[l.next[i[1]]] /\ r.is_alive[r.next[i[2]]]
        BY <2>3, <2>11, <3>3
      <4>2. LI(i) < LI(n) /\ RI(i) < RI(n) /\ LI(n) \in Int /\ RI(n) \in Int
        BY <2>4, <2>5, <4>1
      <4>3. \A x \in SolL : x > LI(i) => x >= LI(n)
        BY <2>4, <4>1
      <4>4. \A x \in SolR : x > RI(i) => x >= RI(n)
        BY <2>5, <4>1
      <4>5. Level(l, r, SolL, SolR, n)
        BY <1>3, <2>1, <2>6, <3>3, <4>2, <4>3, <4>4 DEF Level
      <4>6. QED BY <1>3, <1>4, <2>1, <2>8, <3>3, <4>2, <4>5 DEF Min2
    <3>4. QED BY <1>3, <2>1, <3>1, <3>2, <3>3
  <2>12. n \in G
    BY <2>7, <2>10, <2>11 DEF G, UnionReach
  <2>13. ASSUME NEW x \in Sol, x > s.idx_to_iter[i]
         PROVE  s.is_alive[n] /\ x >= s.idx_to_iter[n]
    <3>0. (x \in SolL \/ x \in SolR) /\ x \in Int
      BY <2>6, <2>13
    <3>1. CASE LI(i) < RI(i)
      BY <1>3, <2>1, <2>2, <2>3, <2>4, <2>8, <2>13, <3>0, <3>1 DEF Level, Min2
    <3>2. CASE RI(i) < LI(i)
      BY <1>3, <2>1, <2>2, <2>3, <2>5, <2>8, <2>13, <3>0, <3>2 DEF Level, Min2
    <3>3. CASE LI(i) = RI(i)
      BY <1>3, <2>1, <2>2, <2>3, <2>4, <2>5, <2>8, <2>13, <3>0, <3>3 DEF Min2
    <3>4. QED BY <1>3, <2>1, <3>1, <3>2, <3>3
  <2>14. QED BY <2>8, <2>10, <2>11, <2>12, <2>13
<1>6. CondLaw(s, G, Sol)
  <2>1. ASSUME NEW i \in G, s.is_alive[i]
        PROVE  s.iter_cond[i] <=> s.idx_to_iter[i] \in Sol
    <3>1. l.is_alive[i[1]] /\ r.is_alive[i[2]]
      BY <1>3, <1>4, <2>1
    <3>2. l.iter_cond[i[1]] /\ r.iter_cond[i[2]]
      BY <1>3, <2>1, <3>1 DEF UnionSide
    <3>3. LI(i) \in SolL /\ RI(i) \in SolR
      BY <1>3, <2>1, <3>1, <3>2 DEF Laws, CondLaw
    <3>4. s.iter_cond[i] /\ s.idx_to_iter[i] \in {LI(i), RI(i)}
      BY <1>3, <1>4, <2>1, <3>2 DEF Min2
    <3>5. QED BY <3>3, <3>4
  <2>2. QED BY <2>1 DEF CondLaw
<1>7. Laws(s, G, Sol)
  <2>1. G \in SUBSET s.idx
    BY <1>1, <1>3
  <2>2. Sol \in SUBSET Int
    BY DEF Laws
  <2>3. QED BY <1>5, <1>6, <2>1, <2>2 DEF Laws
<1>8. ASSUME LowerLaw(l, SolL), LowerLaw(r, SolR), l.lower_bound # {}, r.lower_bound # {}
      PROVE  LowerLaw(s, Sol)
  <2>1. PICK c \in Int : l.lower_bound = {c}
    BY <1>8 DEF IsSpace, Optional
  <2>2. PICK d \in Int : r.lower_bound = {d}
    BY <1>8 DEF IsSpace, Optional
  <2>3. \A b \in s.lower_bound : b \in Int /\ b <= c /\ b <= d
    BY <1>1, <2>1, <2>2 DEF Lowest
  <2>4. \A x \in SolL : x >= c /\ x \in Int
    BY <1>8, <2>1 DEF LowerLaw, Laws
  <2>5. \A x \in SolR : x >= d /\ x \in Int
    BY <1>8, <2>2 DEF LowerLaw, Laws
  <2>6. QED BY <2>3, <2>4, <2>5 DEF LowerLaw
<1>9. ASSUME NEW lb \in Int, StartLaw(l, GL, lb), StartLaw(r, GR, lb)
      PROVE  StartLaw(s, G, lb)
  <2> DEFINE i == <<l.iter_to_idx[lb], r.iter_to_idx[lb]>>
  <2>1. s.iter_to_idx[lb] = i
    BY <1>1 DEF JointSpace
  <2>2. /\ i[1] \in GL /\ i[2] \in GR
        /\ l.is_alive[i[1]] /\ r.is_alive[i[2]]
        /\ LI(i) = lb /\ RI(i) = lb
    BY <1>9 DEF StartLaw
  <2>3. Level(l, r, SolL, SolR, i)
    BY <2>2 DEF Level, Laws
  <2>4. i \in G
    BY <2>2, <2>3 DEF G, UnionReach
  <2>5. s.is_alive[i]
    BY <1>3, <1>4, <2>2, <2>4
  <2>6. s.idx_to_iter[i] = lb
    BY <1>3, <1>4, <2>2, <2>4 DEF Min2
  <2>7. QED BY <2>1, <2>4, <2>5, <2>6 DEF StartLaw
<1>10. QED BY <1>2, <1>7, <1>8, <1>9 DEF s, G

-----------------------------------------------------------------------------
(* Elements: every space keeps its children on the rows of their vectors.  *)

(* Walks are the records SpaceLaws says they are.                          *)
AreWalks(walks) ==
  \A w \in walks :
    /\ w = [name |-> w.name, vec |-> w.vec, shift |-> w.shift]
    /\ IsVector(w.vec)
    /\ w.shift \in Int

VecWalks(name, v) == {[name |-> name, vec |-> v, shift |-> 0]}

LEMMA VecReads ==
  ASSUME NEW name, NEW v, IsVector(v)
  PROVE  /\ AreWalks(VecWalks(name, v))
         /\ ReadLaw(VecSpace(name, v), 0 .. v.len, VecWalks(name, v))
<1> DEFINE s == VecSpace(name, v)
<1>1. v.len \in Nat /\ \A i \in Int : ReadData(v, i) \in Int
  BY DEF IsVector, ReadData, ReadCell, Cell
<1>2. ASSUME NEW i \in 0 .. v.len, s.is_alive[i], NEW e \in s.vec_iter_idxs[i]
      PROVE  /\ e = <<name, i>> /\ i \in Rows(v)
             /\ s.idx_to_iter[i] = ReadData(v, i)
  <2>1. i \in Int
    BY <1>1
  <2>2. /\ s.is_alive[i] <=> i < v.len
        /\ s.idx_to_iter[i] = ReadData(v, i)
        /\ s.vec_iter_idxs[i] = {<<name, i>>}
    BY <2>1 DEF VecSpace
  <2> HIDE DEF s
  <2>3. QED BY <1>1, <1>2, <2>2 DEF Rows
<1>3. ASSUME NEW i \in 0 .. v.len, s.is_alive[i], NEW e \in s.vec_iter_idxs[i],
             NEW w \in VecWalks(name, v)
      PROVE  IsRowAt(e, w, s.idx_to_iter[i])
  <2>1. w.vec = v /\ w.shift = 0
    BY DEF VecWalks
  <2>2. e[2] = i /\ i \in Rows(v) /\ s.idx_to_iter[i] = ReadData(v, i) /\ ReadData(v, i) \in Int
    BY <1>1, <1>2, <1>3
  <2> HIDE DEF s
  <2>3. QED BY <2>1, <2>2 DEF IsRowAt
<1>4. AreWalks(VecWalks(name, v))
  BY DEF AreWalks, VecWalks
<1>5. ReadLaw(s, 0 .. v.len, VecWalks(name, v))
  <2>1. [name |-> name, vec |-> v, shift |-> 0] \in VecWalks(name, v)
    BY DEF VecWalks
  <2>2. \A i \in 0 .. v.len : s.is_alive[i] => \A e \in s.vec_iter_idxs[i] :
          \E w \in VecWalks(name, v) : e[1] = w.name /\ e[2] \in Rows(w.vec)
    BY <1>2, <2>1
  <2>3. EdgeLaw(s, 0 .. v.len, VecWalks(name, v))
    <3>1. \A i \in 0 .. v.len : s.vec_iter_idxs[i] = {<<name, i>>}
      BY <1>1 DEF VecSpace
    <3> HIDE DEF s
    <3>2. QED BY <2>1, <3>1 DEF EdgeLaw
  <2> HIDE DEF s
  <2>4. QED BY <1>3, <2>2, <2>3 DEF ReadLaw
<1>6. QED BY <1>4, <1>5

(* A shift moves the walks.                                                *)
ShiftedWalks(walks, offset) ==
  {[name |-> w.name, vec |-> w.vec, shift |-> w.shift + offset] : w \in walks}

LEMMA ShiftReads ==
  ASSUME NEW s, IsSpace(s), NEW G \in SUBSET s.idx, NEW walks, AreWalks(walks),
         ReadLaw(s, G, walks), NEW offset \in Int
  PROVE  /\ AreWalks(ShiftedWalks(walks, offset))
         /\ ReadLaw(ShiftedSpace(s, offset), G, ShiftedWalks(walks, offset))
<1> DEFINE h == ShiftedSpace(s, offset)
           moved == ShiftedWalks(walks, offset)
<1>1. /\ h.is_alive = s.is_alive /\ h.iter_cond = s.iter_cond
      /\ h.vec_iter_idxs = s.vec_iter_idxs
      /\ h.idx_to_iter = [i \in s.idx |-> s.idx_to_iter[i] + offset]
  BY DEF ShiftedSpace, IsSpace
<1>2. AreWalks(moved)
  BY DEF AreWalks, ShiftedWalks
<1> HIDE DEF h
<1>3. ASSUME NEW i \in G, s.is_alive[i], NEW e \in s.vec_iter_idxs[i]
      PROVE  /\ \E w \in moved : e[1] = w.name /\ e[2] \in Rows(w.vec)
             /\ s.iter_cond[i] => \A w \in moved : e[1] = w.name => IsRowAt(e, w, h.idx_to_iter[i])
  <2>1. /\ \E w \in walks : e[1] = w.name /\ e[2] \in Rows(w.vec)
        /\ s.iter_cond[i] => \A w \in walks : e[1] = w.name => IsRowAt(e, w, s.idx_to_iter[i])
    BY <1>3 DEF ReadLaw
  <2>2. \E w \in moved : e[1] = w.name /\ e[2] \in Rows(w.vec)
    <3>1. PICK w \in walks : e[1] = w.name /\ e[2] \in Rows(w.vec)
      BY <2>1
    <3>2. [name |-> w.name, vec |-> w.vec, shift |-> w.shift + offset] \in moved
      BY DEF ShiftedWalks
    <3> HIDE DEF moved
    <3>3. QED BY <3>1, <3>2
  <2>3. ASSUME s.iter_cond[i], NEW m \in moved, e[1] = m.name
        PROVE  IsRowAt(e, m, h.idx_to_iter[i])
    <3>1. PICK w \in walks : m = [name |-> w.name, vec |-> w.vec, shift |-> w.shift + offset]
      BY DEF ShiftedWalks
    <3>2. IsRowAt(e, w, s.idx_to_iter[i]) /\ w.shift \in Int
      BY <2>1, <2>3, <3>1 DEF AreWalks
    <3>3. h.idx_to_iter[i] = s.idx_to_iter[i] + offset /\ s.idx_to_iter[i] \in Int
      BY <1>1 DEF IsSpace
    <3>4. h.idx_to_iter[i] - m.shift = s.idx_to_iter[i] - w.shift /\ m.vec = w.vec
      BY <3>1, <3>2, <3>3
    <3>5. QED BY <3>2, <3>4 DEF IsRowAt
  <2>4. QED BY <2>2, <2>3
<1>4. EdgeLaw(h, G, moved)
  <2>1. SUFFICES ASSUME NEW i \in G, NEW e \in s.vec_iter_idxs[i]
                 PROVE  \E w \in moved : e[1] = w.name /\ e[2] \in 0 .. w.vec.len
    BY <1>1 DEF EdgeLaw
  <2>2. PICK w \in walks : e[1] = w.name /\ e[2] \in 0 .. w.vec.len
    BY DEF ReadLaw, EdgeLaw
  <2>3. [name |-> w.name, vec |-> w.vec, shift |-> w.shift + offset] \in moved
    BY DEF ShiftedWalks
  <2> HIDE DEF moved
  <2>4. QED BY <2>2, <2>3
<1>5. ReadLaw(h, G, moved)
  BY <1>1, <1>3, <1>4 DEF ReadLaw
<1>6. QED BY <1>2, <1>5 DEF h

(* A space that walks as its child does, on fewer live indices and values. *)
LEMMA NarrowReads ==
  ASSUME NEW s, NEW n, NEW G, NEW walks, ReadLaw(s, G, walks),
         n.vec_iter_idxs = s.vec_iter_idxs, n.idx_to_iter = s.idx_to_iter,
         \A i \in G : n.is_alive[i] => /\ s.is_alive[i]
                                       /\ n.iter_cond[i] => s.iter_cond[i]
  PROVE  ReadLaw(n, G, walks)
BY DEF ReadLaw, EdgeLaw

(* Filters and bounds are such spaces.                                     *)
LEMMA FilterReads ==
  ASSUME NEW s, IsSpace(s), NEW G \in SUBSET s.idx, NEW walks, ReadLaw(s, G, walks), NEW cond
  PROVE  ReadLaw(FilteredSpace(s, cond), G, walks)
<1> DEFINE f == FilteredSpace(s, cond)
<1>1. /\ f.vec_iter_idxs = s.vec_iter_idxs /\ f.idx_to_iter = s.idx_to_iter
      /\ f.is_alive = s.is_alive
      /\ f.iter_cond = [i \in s.idx |-> cond[i] /\ s.iter_cond[i]]
  BY DEF FilteredSpace, IsSpace
<1> HIDE DEF f
<1>2. \A i \in G : f.iter_cond[i] => s.iter_cond[i]
  BY <1>1
<1>3. QED BY <1>1, <1>2, NarrowReads DEF f

LEMMA LBoundReads ==
  ASSUME NEW s, IsSpace(s), NEW G \in SUBSET s.idx, NEW walks, ReadLaw(s, G, walks), NEW b
  PROVE  ReadLaw(LBoundSpace(s, b), G, walks)
<1> DEFINE l == LBoundSpace(s, b)
           Above(i) == \A c \in Highest({b} \union s.lower_bound) : s.idx_to_iter[i] >= c
<1>1. /\ l.vec_iter_idxs = s.vec_iter_idxs /\ l.idx_to_iter = s.idx_to_iter
      /\ l.is_alive = s.is_alive
      /\ l.iter_cond = [i \in s.idx |-> Above(i) /\ s.iter_cond[i]]
  BY DEF LBoundSpace, IsSpace
<1> HIDE DEF l, Above
<1>2. \A i \in G : l.iter_cond[i] => s.iter_cond[i]
  BY <1>1
<1>3. QED BY <1>1, <1>2, NarrowReads DEF l

LEMMA UBoundReads ==
  ASSUME NEW s, IsSpace(s), NEW G \in SUBSET s.idx, NEW walks, ReadLaw(s, G, walks), NEW b
  PROVE  ReadLaw(UBoundSpace(s, b), G, walks)
<1> DEFINE u == UBoundSpace(s, b)
           Below(i) == \A c \in Lowest({b} \union s.upper_bound) : s.idx_to_iter[i] <= c
<1>1. /\ u.vec_iter_idxs = s.vec_iter_idxs /\ u.idx_to_iter = s.idx_to_iter
      /\ u.is_alive = [i \in s.idx |-> Below(i) /\ s.is_alive[i]]
      /\ u.iter_cond = [i \in s.idx |-> Below(i) /\ s.iter_cond[i]]
  BY DEF UBoundSpace, IsSpace
<1> HIDE DEF u, Below
<1>2. \A i \in G : /\ u.is_alive[i] => s.is_alive[i]
                   /\ u.iter_cond[i] => s.iter_cond[i]
  BY <1>1
<1>3. QED BY <1>1, <1>2, NarrowReads DEF u

(* Where an intersection counts, both its children do, on one value.       *)
LEMMA InterReads ==
  ASSUME NEW l, IsSpace(l), NEW GL \in SUBSET l.idx, NEW walksL, ReadLaw(l, GL, walksL),
         NEW r, IsSpace(r), NEW GR \in SUBSET r.idx, NEW walksR, ReadLaw(r, GR, walksR),
         OneEach(walksL \union walksR),
         NEW G \in SUBSET (GL \X GR)
  PROVE  ReadLaw(InterSpace(l, r), G, walksL \union walksR)
<1> DEFINE j == InterSpace(l, r)
           idxs == l.idx \X r.idx
           walks == walksL \union walksR
<1>1. /\ j.idx_to_iter = [i \in idxs |-> Min2(l.idx_to_iter[i[1]], r.idx_to_iter[i[2]])]
      /\ j.vec_iter_idxs = [i \in idxs |-> l.vec_iter_idxs[i[1]] \union r.vec_iter_idxs[i[2]]]
      /\ j.iter_cond = [i \in idxs |-> /\ l.iter_cond[i[1]]
                                       /\ r.iter_cond[i[2]]
                                       /\ l.idx_to_iter[i[1]] = r.idx_to_iter[i[2]]]
      /\ j.is_alive = [i \in idxs |-> l.is_alive[i[1]] /\ r.is_alive[i[2]]]
  BY DEF InterSpace, JointSpace, Complete
<1> HIDE DEF j
<1>2. ASSUME NEW i \in G, j.is_alive[i]
      PROVE  /\ i[1] \in GL /\ i[2] \in GR /\ i \in idxs
             /\ l.is_alive[i[1]] /\ r.is_alive[i[2]]
             /\ j.iter_cond[i] => /\ l.iter_cond[i[1]] /\ r.iter_cond[i[2]]
                                  /\ j.idx_to_iter[i] = l.idx_to_iter[i[1]]
                                  /\ j.idx_to_iter[i] = r.idx_to_iter[i[2]]
             /\ j.vec_iter_idxs[i] = l.vec_iter_idxs[i[1]] \union r.vec_iter_idxs[i[2]]
  <2>1. i[1] \in GL /\ i[2] \in GR /\ i \in idxs
    OBVIOUS
  <2>2. l.is_alive[i[1]] /\ r.is_alive[i[2]]
    BY <1>1, <1>2, <2>1
  <2>3. j.iter_cond[i] => /\ l.iter_cond[i[1]] /\ r.iter_cond[i[2]]
                          /\ l.idx_to_iter[i[1]] = r.idx_to_iter[i[2]]
    BY <1>1, <2>1
  <2>4. j.idx_to_iter[i] = Min2(l.idx_to_iter[i[1]], r.idx_to_iter[i[2]])
    BY <1>1, <2>1
  <2>5. j.vec_iter_idxs[i] = l.vec_iter_idxs[i[1]] \union r.vec_iter_idxs[i[2]]
    BY <1>1, <2>1
  <2>6. QED BY <2>1, <2>2, <2>3, <2>4, <2>5 DEF Min2
<1>3. ASSUME NEW i \in G, j.is_alive[i], NEW e \in l.vec_iter_idxs[i[1]]
      PROVE  /\ \E w \in walks : e[1] = w.name /\ e[2] \in Rows(w.vec)
             /\ j.iter_cond[i] => \A w \in walks : e[1] = w.name => IsRowAt(e, w, j.idx_to_iter[i])
  <2>1. /\ \E w \in walksL : e[1] = w.name /\ e[2] \in Rows(w.vec)
        /\ l.iter_cond[i[1]] => \A w \in walksL : e[1] = w.name => IsRowAt(e, w, l.idx_to_iter[i[1]])
    BY <1>2, <1>3 DEF ReadLaw
  <2>2. \A w \in walks : e[1] = w.name => w \in walksL
    BY <2>1 DEF OneEach
  <2>3. QED BY <1>2, <1>3, <2>1, <2>2
<1>4. ASSUME NEW i \in G, j.is_alive[i], NEW e \in r.vec_iter_idxs[i[2]]
      PROVE  /\ \E w \in walks : e[1] = w.name /\ e[2] \in Rows(w.vec)
             /\ j.iter_cond[i] => \A w \in walks : e[1] = w.name => IsRowAt(e, w, j.idx_to_iter[i])
  <2>1. /\ \E w \in walksR : e[1] = w.name /\ e[2] \in Rows(w.vec)
        /\ r.iter_cond[i[2]] => \A w \in walksR : e[1] = w.name => IsRowAt(e, w, r.idx_to_iter[i[2]])
    BY <1>2, <1>4 DEF ReadLaw
  <2>2. \A w \in walks : e[1] = w.name => w \in walksR
    BY <2>1 DEF OneEach
  <2>3. QED BY <1>2, <1>4, <2>1, <2>2
<1>5. EdgeLaw(j, G, walks)
  BY <1>1 DEF ReadLaw, EdgeLaw
<1>6. ReadLaw(j, G, walks)
  BY <1>2, <1>3, <1>4, <1>5 DEF ReadLaw
<1>7. QED BY <1>6 DEF j

(* The bound of a UBoundSpace: the child's, or its own if that is lower.   *)
LEMMA UBoundUpper ==
  ASSUME NEW s, IsSpace(s), NEW b \in Int
  PROVE  \E upper \in Int : /\ UBoundSpace(s, b).upper_bound = {upper}
                            /\ upper <= b
                            /\ upper \in {b} \union s.upper_bound
<1>1. UBoundSpace(s, b).upper_bound = Lowest({b} \union s.upper_bound)
  BY DEF UBoundSpace, IsSpace
<1>2. CASE s.upper_bound = {}
  BY <1>1, <1>2 DEF Lowest
<1>3. ASSUME NEW c \in Int, s.upper_bound = {c}
      PROVE  \E upper \in Int : /\ UBoundSpace(s, b).upper_bound = {upper}
                                /\ upper <= b
                                /\ upper \in {b} \union s.upper_bound
  <2>1. CASE b <= c
    <3>1. Lowest({b} \union {c}) = {b}
      BY <2>1 DEF Lowest
    <3>2. QED BY <1>1, <1>3, <2>1, <3>1
  <2>2. CASE c < b
    <3>1. Lowest({b} \union {c}) = {c}
      BY <2>2 DEF Lowest
    <3>2. QED BY <1>1, <1>3, <2>2, <3>1
  <2>3. QED BY <2>1, <2>2
<1>4. QED BY <1>2, <1>3 DEF IsSpace, Optional

(* No key is beyond the last row of a sorted vector.                       *)
LEMMA VecUpper ==
  ASSUME NEW name, NEW v, IsVector(v), Sorted(v)
  PROVE  UpperLaw(VecSpace(name, v), Keys(v))
<1>1. VecSpace(name, v).upper_bound = {ReadData(v, v.len - 1)}
  BY DEF VecSpace
<1>2. ASSUME NEW x \in Keys(v)
      PROVE  x <= ReadData(v, v.len - 1)
  <2>1. PICK i \in Rows(v) : v.cells[i].key = x
    BY DEF Keys
  <2>2. /\ v.len \in Nat /\ i \in 0 .. v.len - 1 /\ v.len - 1 \in Rows(v)
        /\ v.cells[i].key \in Int /\ v.cells[v.len - 1].key \in Int
    BY <2>1 DEF IsVector, Rows, Cell
  <2>3. ReadData(v, v.len - 1) = v.cells[v.len - 1].key
    BY <2>2 DEF ReadData, ReadCell
  <2>4. i = v.len - 1 \/ v.cells[i].key < v.cells[v.len - 1].key
    BY <2>2 DEF Sorted, Rows
  <2>5. QED BY <2>1, <2>2, <2>3, <2>4
<1>3. QED BY <1>1, <1>2 DEF UpperLaw

-----------------------------------------------------------------------------
(* Every space is one, and within its bounds, when its children are.       *)
LEMMA NoLaws ==
  ASSUME NEW s
  PROVE  Laws(s, {}, {}) /\ UnionSide(s, {}, 0)
BY DEF Laws, StepLaw, CondLaw, UnionSide

LEMMA UniversalBounded == Bounded(UniversalSpace, Int)
<1>1. UniversalSpace.lower_bound = {} /\ UniversalSpace.upper_bound = {}
  BY DEF UniversalSpace
<1>2. QED BY <1>1, UniversalLaws DEF Bounded, LowerLaw, UpperLaw

LEMMA VecBounded ==
  ASSUME NEW name, NEW v, IsVector(v), Sorted(v)
  PROVE  Bounded(VecSpace(name, v), Keys(v))
BY VecLaws, VecUpper DEF Bounded

LEMMA ShiftedBounded ==
  ASSUME NEW s, NEW Sol \in SUBSET Int, Bounded(s, Sol), NEW c \in Int
  PROVE  Bounded(ShiftedSpace(s, c), Moved(Sol, c))
<1>1. IsSpace(s)
  BY DEF Bounded
<1>2. IsSpace(ShiftedSpace(s, c))
  BY <1>1, NoLaws, ShiftedLaws
<1>3. /\ ShiftedSpace(s, c).lower_bound = {b + c : b \in s.lower_bound}
      /\ ShiftedSpace(s, c).upper_bound = {b + c : b \in s.upper_bound}
  BY <1>1 DEF ShiftedSpace, IsSpace
<1>4. s.lower_bound \in SUBSET Int /\ s.upper_bound \in SUBSET Int
  BY <1>1 DEF IsSpace, Optional
<1>5. QED BY <1>2, <1>3, <1>4 DEF Bounded, LowerLaw, UpperLaw, Moved

LEMMA FilteredBounded ==
  ASSUME NEW s, NEW Sol \in SUBSET Int, Bounded(s, Sol), NEW keep
  PROVE  Bounded(FilteredSpace(s, [i \in s.idx |-> s.idx_to_iter[i] \in keep]), Sol \intersect keep)
<1> DEFINE cond == [i \in s.idx |-> s.idx_to_iter[i] \in keep]
           f == FilteredSpace(s, cond)
<1>1. IsSpace(s) /\ cond \in [s.idx -> BOOLEAN]
  BY DEF Bounded
<1> HIDE DEF cond
<1>2. IsSpace(f)
  <2>1. Laws(s, {}, {})
    BY NoLaws
  <2>2. \A i \in {} : s.is_alive[i] => (cond[i] <=> s.idx_to_iter[i] \in keep)
    OBVIOUS
  <2>3. QED BY <1>1, <2>1, <2>2, FilteredLaws
<1>3. f.lower_bound = s.lower_bound /\ f.upper_bound = s.upper_bound
  BY <1>1 DEF FilteredSpace, IsSpace
<1>4. QED BY <1>2, <1>3 DEF Bounded, LowerLaw, UpperLaw, cond

(* The values from a bound upwards are those from the space's own lower    *)
(* bound upwards: it is the bound or the child's, whichever is higher.     *)
LEMMA LBoundSame ==
  ASSUME NEW s, NEW Sol \in SUBSET Int, Bounded(s, Sol), NEW b \in Int
  PROVE  \E lower \in Int : /\ LBoundSpace(s, b).lower_bound = {lower}
                            /\ AtLeast(Sol, lower) = AtLeast(Sol, b)
<1>1. IsSpace(s) /\ LowerLaw(s, Sol)
  BY DEF Bounded
<1>2. PICK lower \in Int : LBoundSpace(s, b).lower_bound = {lower} /\ lower >= b
  BY <1>1, LBoundLower
<1>3. lower \in {b} \union s.lower_bound
  BY <1>1, <1>2 DEF LBoundSpace, IsSpace, Highest
<1>4. AtLeast(Sol, lower) = AtLeast(Sol, b)
  <2>1. \A x \in Sol : x >= lower <=> x >= b
    BY <1>1, <1>2, <1>3 DEF LowerLaw
  <2>2. QED BY <2>1 DEF AtLeast
<1>5. QED BY <1>2, <1>4

LEMMA LBoundBounded ==
  ASSUME NEW s, NEW Sol \in SUBSET Int, Bounded(s, Sol), NEW b \in Int
  PROVE  Bounded(LBoundSpace(s, b), AtLeast(Sol, b))
<1> DEFINE l == LBoundSpace(s, b)
<1>1. IsSpace(s) /\ LowerLaw(s, Sol) /\ UpperLaw(s, Sol)
  BY DEF Bounded
<1>2. PICK lower \in Int : l.lower_bound = {lower} /\ AtLeast(Sol, lower) = AtLeast(Sol, b)
  BY LBoundSame
<1>3. IsSpace(l) /\ l.upper_bound = s.upper_bound
  <2>1. IsSpace(l)
    BY <1>1, <1>2, NoLaws, LBoundLaws
  <2>2. QED BY <1>1, <2>1 DEF LBoundSpace, IsSpace
<1> HIDE DEF l
<1>4. LowerLaw(l, AtLeast(Sol, lower)) /\ UpperLaw(l, AtLeast(Sol, lower))
  BY <1>1, <1>2, <1>3 DEF LowerLaw, UpperLaw, AtLeast
<1>5. QED BY <1>2, <1>3, <1>4 DEF Bounded, l

LEMMA UBoundSame ==
  ASSUME NEW s, NEW Sol \in SUBSET Int, Bounded(s, Sol), NEW b \in Int
  PROVE  \E upper \in Int : /\ UBoundSpace(s, b).upper_bound = {upper}
                            /\ AtMost(Sol, upper) = AtMost(Sol, b)
<1>1. IsSpace(s) /\ UpperLaw(s, Sol)
  BY DEF Bounded
<1>2. PICK upper \in Int : /\ UBoundSpace(s, b).upper_bound = {upper}
                           /\ upper <= b
                           /\ upper \in {b} \union s.upper_bound
  BY <1>1, UBoundUpper
<1>3. AtMost(Sol, upper) = AtMost(Sol, b)
  BY <1>1, <1>2 DEF UpperLaw, AtMost
<1>4. QED BY <1>2, <1>3

LEMMA UBoundBounded ==
  ASSUME NEW s, NEW Sol \in SUBSET Int, Bounded(s, Sol), NEW b \in Int
  PROVE  Bounded(UBoundSpace(s, b), AtMost(Sol, b))
<1> DEFINE u == UBoundSpace(s, b)
<1>1. IsSpace(s) /\ LowerLaw(s, Sol) /\ UpperLaw(s, Sol)
  BY DEF Bounded
<1>2. PICK upper \in Int : u.upper_bound = {upper} /\ AtMost(Sol, upper) = AtMost(Sol, b)
  BY UBoundSame
<1>3. IsSpace(u) /\ u.lower_bound = s.lower_bound
  <2>1. IsSpace(u)
    BY <1>1, <1>2, NoLaws, UBoundLaws
  <2>2. QED BY <1>1, <2>1 DEF UBoundSpace, IsSpace
<1> HIDE DEF u
<1>4. LowerLaw(u, AtMost(Sol, upper)) /\ UpperLaw(u, AtMost(Sol, upper))
  BY <1>1, <1>2, <1>3 DEF LowerLaw, UpperLaw, AtMost
<1>5. QED BY <1>2, <1>3, <1>4 DEF Bounded, u

LEMMA InterBounded ==
  ASSUME NEW l, NEW SolL \in SUBSET Int, Bounded(l, SolL),
         NEW r, NEW SolR \in SUBSET Int, Bounded(r, SolR)
  PROVE  Bounded(InterSpace(l, r), SolL \intersect SolR)
<1>1. IsSpace(l) /\ IsSpace(r)
  BY DEF Bounded
<1>2. IsSpace(InterSpace(l, r))
  <2>1. Laws(l, {}, {}) /\ Laws(r, {}, {})
    BY NoLaws
  <2>2. QED BY <1>1, <2>1, InterLaws
<1>3. /\ InterSpace(l, r).lower_bound \subseteq l.lower_bound \union r.lower_bound
      /\ InterSpace(l, r).upper_bound \subseteq l.upper_bound \union r.upper_bound
  BY DEF InterSpace, Complete, Highest, Lowest
<1>4. QED BY <1>2, <1>3 DEF Bounded, LowerLaw, UpperLaw

LEMMA UnionBounded ==
  ASSUME NEW l, NEW SolL \in SUBSET Int, Bounded(l, SolL), l.lower_bound # {}, l.upper_bound # {},
         NEW r, NEW SolR \in SUBSET Int, Bounded(r, SolR), r.lower_bound # {}, r.upper_bound # {}
  PROVE  Bounded(UnionSpace(l, r), SolL \union SolR)
<1>1. IsSpace(l) /\ IsSpace(r)
  BY DEF Bounded
<1>2. IsSpace(UnionSpace(l, r))
  <2>1. Laws(l, {}, {}) /\ Laws(r, {}, {}) /\ UnionSide(l, {}, 0) /\ UnionSide(r, {}, 0)
    BY NoLaws
  <2>2. 0 \in Int
    OBVIOUS
  <2>3. QED BY <1>1, <2>1, <2>2, UnionLaws, Zenon
<1>3. /\ UnionSpace(l, r).lower_bound = Lowest(l.lower_bound \union r.lower_bound)
      /\ UnionSpace(l, r).upper_bound = Highest(l.upper_bound \union r.upper_bound)
  BY DEF UnionSpace, Complete
<1>4. PICK lo \in Int, ro \in Int, hi \in Int, si \in Int :
        l.lower_bound = {lo} /\ r.lower_bound = {ro} /\ l.upper_bound = {hi} /\ r.upper_bound = {si}
  <2>1. \A o \in Optional : o # {} => \E b \in Int : o = {b}
    BY DEF Optional
  <2>2. /\ l.lower_bound \in Optional /\ r.lower_bound \in Optional
        /\ l.upper_bound \in Optional /\ r.upper_bound \in Optional
    BY <1>1 DEF IsSpace
  <2>3. PICK lo \in Int : l.lower_bound = {lo}
    BY <2>1, <2>2
  <2>4. PICK ro \in Int : r.lower_bound = {ro}
    BY <2>1, <2>2
  <2>5. PICK hi \in Int : l.upper_bound = {hi}
    BY <2>1, <2>2
  <2>6. PICK si \in Int : r.upper_bound = {si}
    BY <2>1, <2>2
  <2>7. QED BY <2>3, <2>4, <2>5, <2>6
<1>5. /\ \A x \in SolL : lo <= x /\ x <= hi
      /\ \A x \in SolR : ro <= x /\ x <= si
  BY <1>4 DEF Bounded, LowerLaw, UpperLaw
<1>6. /\ \A b \in UnionSpace(l, r).lower_bound : b \in Int /\ b <= lo /\ b <= ro
      /\ \A b \in UnionSpace(l, r).upper_bound : b \in Int /\ b >= hi /\ b >= si
  BY <1>3, <1>4 DEF Lowest, Highest
<1>7. PICK u : u = UnionSpace(l, r)
  OBVIOUS
<1>8. LowerLaw(u, SolL \union SolR)
  <2>1. SUFFICES ASSUME NEW b \in u.lower_bound, NEW x \in SolL \union SolR
                 PROVE  x >= b
    BY DEF LowerLaw
  <2>2. b \in Int /\ b <= lo /\ b <= ro
    BY <1>6, <1>7
  <2>3. x \in Int /\ (lo <= x \/ ro <= x)
    BY <1>5
  <2>4. QED BY <2>2, <2>3
<1>9. UpperLaw(u, SolL \union SolR)
  <2>1. SUFFICES ASSUME NEW b \in u.upper_bound, NEW x \in SolL \union SolR
                 PROVE  x <= b
    BY DEF UpperLaw
  <2>2. b \in Int /\ b >= hi /\ b >= si
    BY <1>6, <1>7
  <2>3. x \in Int /\ (x <= hi \/ x <= si)
    BY <1>5
  <2>4. QED BY <2>2, <2>3
<1>10. QED BY <1>2, <1>7, <1>8, <1>9 DEF Bounded

-----------------------------------------------------------------------------
(* A start that is rightly dead stays so in a space that walks as its      *)
(* child does, on fewer live indices and values.                           *)
LEMMA DeadStartKept ==
  ASSUME NEW s, NEW n, NEW G, NEW Sol, NEW Less \in SUBSET Sol, NEW lb,
         DeadStart(s, G, Sol, lb), n.iter_to_idx = s.iter_to_idx,
         n.is_alive[s.iter_to_idx[lb]] => s.is_alive[s.iter_to_idx[lb]]
  PROVE  DeadStart(n, G, Less, lb)
BY DEF DeadStart

LEMMA UniversalSound == Sound(UniversalSpace, Int, {})
<1>1. UniversalSpace.idx = Int /\ UniversalSpace.vec_iter_idxs = [i \in Int |-> {}]
  BY DEF UniversalSpace
<1>2. ReadLaw(UniversalSpace, Int, {})
  BY <1>1 DEF ReadLaw, EdgeLaw
<1>3. Walked(UniversalSpace, Int, Int, {})
  BY <1>2, UniversalLaws DEF Walked
<1>4. QED BY <1>1, <1>3, UniversalBounded DEF Sound

LEMMA VecSound ==
  ASSUME NEW name, NEW v, IsVector(v), Sorted(v)
  PROVE  Sound(VecSpace(name, v), Keys(v), VecWalks(name, v))
<1> DEFINE s == VecSpace(name, v)
           w == [name |-> name, vec |-> v, shift |-> 0]
<1>1. /\ Laws(s, 0 .. v.len, Keys(v))
      /\ \A lb \in Int : Located(v, lb) => StartLaw(s, 0 .. v.len, lb)
      /\ ReadLaw(s, 0 .. v.len, VecWalks(name, v))
  BY VecLaws, VecReads
<1> HIDE DEF s
<1>2. ASSUME NEW lb \in Int, StartsAt(VecWalks(name, v), lb)
      PROVE  StartLaw(s, 0 .. v.len, lb)
  <2>1. Located(v, lb - 0)
    BY <1>2 DEF StartsAt, VecWalks
  <2>2. lb - 0 = lb
    OBVIOUS
  <2>3. QED BY <1>1, <2>1, <2>2
<1>3. Walked(s, 0 .. v.len, Keys(v), VecWalks(name, v))
  BY <1>1, <1>2 DEF Walked
<1>4. QED BY <1>1, <1>3, VecBounded DEF Sound, Laws, s

LEMMA ShiftedStarts ==
  ASSUME NEW walks, AreWalks(walks), NEW c \in Int, NEW lb \in Int,
         StartsAt(ShiftedWalks(walks, c), lb)
  PROVE  StartsAt(walks, lb - c)
<1>1. ASSUME NEW w \in walks
      PROVE  Located(w.vec, (lb - c) - w.shift)
  <2> DEFINE m == [name |-> w.name, vec |-> w.vec, shift |-> w.shift + c]
  <2>1. m \in ShiftedWalks(walks, c)
    BY DEF ShiftedWalks
  <2>2. Located(m.vec, lb - m.shift)
    BY <2>1 DEF StartsAt
  <2>3. w.shift \in Int
    BY DEF AreWalks
  <2>4. lb - m.shift = (lb - c) - w.shift
    BY <2>3
  <2>5. QED BY <2>2, <2>4
<1>2. QED BY <1>1 DEF StartsAt

LEMMA ShiftedOneEach ==
  ASSUME NEW walks, AreWalks(walks), NEW c \in Int, OneEach(ShiftedWalks(walks, c))
  PROVE  OneEach(walks)
<1>1. ASSUME NEW w \in walks, NEW x \in walks, w.name = x.name
      PROVE  w = x
  <2> DEFINE m(y) == [name |-> y.name, vec |-> y.vec, shift |-> y.shift + c]
  <2>1. m(w) \in ShiftedWalks(walks, c) /\ m(x) \in ShiftedWalks(walks, c)
    BY DEF ShiftedWalks
  <2>2. m(w) = m(x)
    BY <1>1, <2>1 DEF OneEach
  <2>3. w.vec = x.vec /\ w.shift + c = x.shift + c
    BY <2>2
  <2>0. w.shift \in Int /\ x.shift \in Int
    BY DEF AreWalks
  <2>4. w.shift = x.shift
    BY <2>0, <2>3
  <2>5. QED BY <1>1, <2>3, <2>4 DEF AreWalks
<1>2. QED BY <1>1 DEF OneEach

LEMMA ShiftedDead ==
  ASSUME NEW s, IsSpace(s), NEW G, NEW Sol \in SUBSET Int, NEW c \in Int, NEW lb \in Int,
         DeadStart(s, G, Sol, lb - c)
  PROVE  DeadStart(ShiftedSpace(s, c), G, Moved(Sol, c), lb)
<1> DEFINE h == ShiftedSpace(s, c)
<1>1. h.is_alive = s.is_alive /\ h.iter_to_idx[lb] = s.iter_to_idx[lb - c]
  BY DEF ShiftedSpace, IsSpace
<1>2. \A x \in Int : x - c \in Sol => x - c < lb - c
  BY DEF DeadStart
<1>3. \A x \in Int : x - c \in Sol => x < lb
  BY <1>2
<1> HIDE DEF h
<1>4. QED BY <1>1, <1>3 DEF DeadStart, h, Moved

LEMMA ShiftedSound ==
  ASSUME NEW s, NEW Sol, NEW walks, AreWalks(walks), Sound(s, Sol, walks), NEW c \in Int
  PROVE  Sound(ShiftedSpace(s, c), Moved(Sol, c), ShiftedWalks(walks, c))
<1> DEFINE h == ShiftedSpace(s, c)
           S == Moved(Sol, c)
           moved == ShiftedWalks(walks, c)
<1>1. PICK G \in SUBSET s.idx : Walked(s, G, Sol, walks)
  BY DEF Sound
<1>2. IsSpace(s) /\ Bounded(s, Sol) /\ Laws(s, G, Sol) /\ Sol \in SUBSET Int
  BY <1>1 DEF Sound, Bounded, Walked, Laws
<1>3. /\ Laws(h, G, S)
      /\ \A lb \in Int : StartLaw(s, G, lb - c) => StartLaw(h, G, lb)
  BY <1>2, ShiftedLaws
<1>4. Bounded(h, S)
  BY <1>2, ShiftedBounded
<1>5. ASSUME NEW lb \in Int, StartsAt(moved, lb)
      PROVE  StartLaw(h, G, lb) \/ DeadStart(h, G, S, lb)
  <2>1. lb - c \in Int /\ StartsAt(walks, lb - c)
    BY <1>5, ShiftedStarts
  <2>2. StartLaw(s, G, lb - c) \/ DeadStart(s, G, Sol, lb - c)
    BY <1>1, <2>1 DEF Walked
  <2>3. QED BY <1>2, <1>3, <2>2, ShiftedDead
<1>6. OneEach(moved) => ReadLaw(h, G, moved)
  BY <1>1, <1>2, ShiftedOneEach, ShiftReads DEF Walked
<1> HIDE DEF h, S, moved
<1>7. Walked(h, G, S, moved)
  BY <1>3, <1>5, <1>6 DEF Walked
<1>8. G \in SUBSET h.idx
  BY <1>7 DEF Walked, Laws
<1>9. QED BY <1>4, <1>7, <1>8 DEF Sound, h, S, moved

LEMMA FilteredSound ==
  ASSUME NEW s, NEW Sol, NEW walks, Sound(s, Sol, walks), NEW keep
  PROVE  Sound(FilteredSpace(s, [i \in s.idx |-> s.idx_to_iter[i] \in keep]), Sol \intersect keep, walks)
<1> DEFINE cond == [i \in s.idx |-> s.idx_to_iter[i] \in keep]
           f == FilteredSpace(s, cond)
           S == Sol \intersect keep
<1>1. PICK G \in SUBSET s.idx : Walked(s, G, Sol, walks)
  BY DEF Sound
<1>2. IsSpace(s) /\ Bounded(s, Sol) /\ Laws(s, G, Sol) /\ Sol \in SUBSET Int
  BY <1>1 DEF Sound, Bounded, Walked, Laws
<1>3. /\ Laws(f, G, S)
      /\ \A lb \in Int : StartLaw(s, G, lb) => StartLaw(f, G, lb)
  <2>1. cond \in [s.idx -> BOOLEAN]
    OBVIOUS
  <2>2. ASSUME NEW i \in G
        PROVE  cond[i] <=> s.idx_to_iter[i] \in keep
    <3>1. i \in s.idx
      BY <1>1
    <3>2. QED BY <3>1
  <2> HIDE DEF cond
  <2>3. QED BY <1>2, <2>1, <2>2, FilteredLaws
<1>4. Bounded(f, S)
  BY <1>2, FilteredBounded
<1>5. OneEach(walks) => ReadLaw(f, G, walks)
  BY <1>1, <1>2, FilterReads DEF Walked
<1>6. f.iter_to_idx = s.iter_to_idx /\ f.is_alive = s.is_alive
  BY <1>2 DEF FilteredSpace, IsSpace
<1> HIDE DEF f
<1>7. ASSUME NEW lb \in Int, StartsAt(walks, lb)
      PROVE  StartLaw(f, G, lb) \/ DeadStart(f, G, S, lb)
  BY <1>1, <1>3, <1>6, <1>7, DeadStartKept DEF Walked
<1> HIDE DEF S
<1>8. Walked(f, G, S, walks)
  BY <1>3, <1>5, <1>7 DEF Walked
<1>9. G \in SUBSET f.idx
  BY <1>8 DEF Walked, Laws
<1>10. QED BY <1>4, <1>8, <1>9 DEF Sound, f, S

LEMMA LBoundSound ==
  ASSUME NEW s, NEW Sol, NEW walks, Sound(s, Sol, walks), NEW b \in Int
  PROVE  Sound(LBoundSpace(s, b), AtLeast(Sol, b), walks)
<1> DEFINE l == LBoundSpace(s, b)
           S == AtLeast(Sol, b)
<1>1. PICK G \in SUBSET s.idx : Walked(s, G, Sol, walks)
  BY DEF Sound
<1>2. IsSpace(s) /\ Bounded(s, Sol) /\ Laws(s, G, Sol) /\ Sol \in SUBSET Int
  BY <1>1 DEF Sound, Bounded, Walked, Laws
<1>3. PICK lower \in Int : l.lower_bound = {lower} /\ AtLeast(Sol, lower) = S
  BY <1>2, LBoundSame
<1>4. /\ Laws(l, G, S)
      /\ \A lb \in Int : StartLaw(s, G, lb) => StartLaw(l, G, lb)
  <2>1. Laws(l, G, AtLeast(Sol, lower))
    BY <1>2, <1>3, LBoundLaws
  <2>2. QED BY <1>2, <1>3, <2>1, LBoundLaws
<1>5. Bounded(l, S)
  BY <1>2, LBoundBounded
<1>6. OneEach(walks) => ReadLaw(l, G, walks)
  BY <1>1, <1>2, LBoundReads DEF Walked
<1>7. l.iter_to_idx = s.iter_to_idx /\ l.is_alive = s.is_alive
  BY <1>2 DEF LBoundSpace, IsSpace
<1> HIDE DEF l
<1>8. ASSUME NEW lb \in Int, StartsAt(walks, lb)
      PROVE  StartLaw(l, G, lb) \/ DeadStart(l, G, S, lb)
  BY <1>1, <1>4, <1>7, <1>8, DeadStartKept DEF Walked, AtLeast
<1> HIDE DEF S
<1>9. Walked(l, G, S, walks)
  BY <1>4, <1>6, <1>8 DEF Walked
<1>10. G \in SUBSET l.idx
  BY <1>9 DEF Walked, Laws
<1>11. QED BY <1>5, <1>9, <1>10 DEF Sound, l, S

(* A loop that starts above the upper bound is over, and rightly so.       *)
LEMMA UBoundStart ==
  ASSUME NEW s, IsSpace(s), NEW G \in SUBSET s.idx, NEW Sol \in SUBSET Int, NEW b \in Int,
         NEW upper \in Int, UBoundSpace(s, b).upper_bound = {upper},
         NEW lb \in Int, lb > upper, StartLaw(s, G, lb)
  PROVE  DeadStart(UBoundSpace(s, b), G, AtMost(Sol, upper), lb)
<1> DEFINE u == UBoundSpace(s, b)
           i == s.iter_to_idx[lb]
<1>1. i \in G /\ i \in s.idx /\ s.idx_to_iter[i] = lb
  BY DEF StartLaw, IsSpace
<1>2. Lowest({b} \union s.upper_bound) = {upper} /\ u.iter_to_idx = s.iter_to_idx
  BY DEF UBoundSpace, IsSpace
<1>3. u.is_alive = [k \in s.idx |-> (\A c \in {upper} : s.idx_to_iter[k] <= c) /\ s.is_alive[k]]
  BY <1>2 DEF UBoundSpace, IsSpace
<1> HIDE DEF u
<1>4. ~u.is_alive[i]
  <2>1. u.is_alive[i] = ((\A c \in {upper} : s.idx_to_iter[i] <= c) /\ s.is_alive[i])
    BY <1>1, <1>3
  <2>2. ~(\A c \in {upper} : s.idx_to_iter[i] <= c)
    BY <1>1
  <2>3. QED BY <2>1, <2>2
<1>5. QED BY <1>1, <1>2, <1>4 DEF DeadStart, u, AtMost

LEMMA UBoundSound ==
  ASSUME NEW s, NEW Sol, NEW walks, Sound(s, Sol, walks), NEW b \in Int
  PROVE  Sound(UBoundSpace(s, b), AtMost(Sol, b), walks)
<1> DEFINE u == UBoundSpace(s, b)
           S == AtMost(Sol, b)
<1>1. PICK G \in SUBSET s.idx : Walked(s, G, Sol, walks)
  BY DEF Sound
<1>2. IsSpace(s) /\ Bounded(s, Sol) /\ Laws(s, G, Sol) /\ Sol \in SUBSET Int
  BY <1>1 DEF Sound, Bounded, Walked, Laws
<1>3. PICK upper \in Int : u.upper_bound = {upper} /\ AtMost(Sol, upper) = S
  BY <1>2, UBoundSame
<1>4. /\ Laws(u, G, S)
      /\ \A lb \in Int : lb <= upper /\ StartLaw(s, G, lb) => StartLaw(u, G, lb)
  <2>1. Laws(u, G, AtMost(Sol, upper))
    BY <1>2, <1>3, UBoundLaws
  <2>2. QED BY <1>2, <1>3, <2>1, UBoundLaws
<1>5. Bounded(u, S)
  BY <1>2, UBoundBounded
<1>6. OneEach(walks) => ReadLaw(u, G, walks)
  BY <1>1, <1>2, UBoundReads DEF Walked
<1>7. \A lb \in Int : lb > upper /\ StartLaw(s, G, lb) => DeadStart(u, G, S, lb)
  <2>1. \A lb \in Int : lb > upper /\ StartLaw(s, G, lb) => DeadStart(u, G, AtMost(Sol, upper), lb)
    BY <1>2, <1>3, UBoundStart
  <2>2. QED BY <1>3, <2>1
<1>8. /\ u.iter_to_idx = s.iter_to_idx
      /\ \A i \in s.idx : u.is_alive[i] => s.is_alive[i]
  <2> DEFINE Below(i) == \A c \in Lowest({b} \union s.upper_bound) : s.idx_to_iter[i] <= c
  <2>1. u.iter_to_idx = s.iter_to_idx /\ u.is_alive = [i \in s.idx |-> Below(i) /\ s.is_alive[i]]
    BY <1>2 DEF UBoundSpace, IsSpace
  <2> HIDE DEF Below, u
  <2>2. QED BY <2>1
<1> HIDE DEF u
<1>9. ASSUME NEW lb \in Int, StartsAt(walks, lb)
      PROVE  StartLaw(u, G, lb) \/ DeadStart(u, G, S, lb)
  <2>1. CASE StartLaw(s, G, lb)
    BY <1>4, <1>7, <2>1
  <2>2. CASE DeadStart(s, G, Sol, lb)
    <3>1. s.iter_to_idx[lb] \in s.idx
      BY <1>2 DEF IsSpace
    <3>2. S \in SUBSET Sol
      BY DEF AtMost
    <3> HIDE DEF S
    <3>3. QED BY <1>8, <2>2, <3>1, <3>2, DeadStartKept
  <2>3. QED BY <1>1, <1>9, <2>1, <2>2 DEF Walked
<1> HIDE DEF S
<1>10. Walked(u, G, S, walks)
  BY <1>4, <1>6, <1>9 DEF Walked
<1>11. G \in SUBSET u.idx
  BY <1>10 DEF Walked, Laws
<1>12. QED BY <1>5, <1>10, <1>11 DEF Sound, u, S

(* An intersection one side of which is over at its start is over too.     *)
LEMMA InterSound ==
  ASSUME NEW l, NEW SolL, NEW walksL, Sound(l, SolL, walksL),
         NEW r, NEW SolR, NEW walksR, Sound(r, SolR, walksR)
  PROVE  Sound(InterSpace(l, r), SolL \intersect SolR, walksL \union walksR)
<1> DEFINE s == InterSpace(l, r)
           Sol == SolL \intersect SolR
           walks == walksL \union walksR
<1>1. PICK GL \in SUBSET l.idx : Walked(l, GL, SolL, walksL)
  BY DEF Sound
<1>2. PICK GR \in SUBSET r.idx : Walked(r, GR, SolR, walksR)
  BY DEF Sound
<1>3. /\ IsSpace(l) /\ Bounded(l, SolL) /\ Laws(l, GL, SolL) /\ SolL \in SUBSET Int
      /\ IsSpace(r) /\ Bounded(r, SolR) /\ Laws(r, GR, SolR) /\ SolR \in SUBSET Int
  BY <1>1, <1>2 DEF Sound, Bounded, Walked, Laws
<1> DEFINE G == InterReach(l, r, GL, GR, SolL, SolR)
<1>4. /\ Laws(s, G, Sol)
      /\ \A lb \in Int : StartLaw(l, GL, lb) /\ StartLaw(r, GR, lb) => StartLaw(s, G, lb)
  BY <1>3, InterLaws
<1>5. Bounded(s, Sol)
  BY <1>3, InterBounded
<1>6. G \in SUBSET (GL \X GR)
  BY DEF InterReach
<1>7. OneEach(walks) => ReadLaw(s, G, walks)
  <2>1. SUFFICES ASSUME OneEach(walks)
                 PROVE  ReadLaw(s, G, walks)
    OBVIOUS
  <2>2. OneEach(walksL) /\ OneEach(walksR)
    BY <2>1 DEF OneEach
  <2>3. ReadLaw(l, GL, walksL) /\ ReadLaw(r, GR, walksR)
    BY <1>1, <1>2, <2>2 DEF Walked
  <2> HIDE DEF G
  <2>4. QED BY <1>3, <1>6, <2>1, <2>3, InterReads
<1>8. ASSUME NEW lb \in Int, StartsAt(walks, lb)
      PROVE  StartLaw(s, G, lb) \/ DeadStart(s, G, Sol, lb)
  <2>1. StartsAt(walksL, lb) /\ StartsAt(walksR, lb)
    BY <1>8 DEF StartsAt
  <2>2. /\ StartLaw(l, GL, lb) \/ DeadStart(l, GL, SolL, lb)
        /\ StartLaw(r, GR, lb) \/ DeadStart(r, GR, SolR, lb)
    BY <1>1, <1>2, <2>1 DEF Walked
  <2>3. ASSUME DeadStart(l, GL, SolL, lb) \/ DeadStart(r, GR, SolR, lb)
        PROVE  DeadStart(s, G, Sol, lb)
    <3> DEFINE i == <<l.iter_to_idx[lb], r.iter_to_idx[lb]>>
    <3>1. i[1] \in GL /\ i[2] \in GR /\ i \in l.idx \X r.idx /\ i \in GL \X GR
      BY <2>2 DEF StartLaw, DeadStart
    <3>2. /\ ~(l.is_alive[i[1]] /\ r.is_alive[i[2]])
          /\ \A x \in Sol : x < lb
      BY <2>3 DEF DeadStart
    <3>3. s.iter_to_idx[lb] = i
      BY DEF InterSpace, Complete, JointSpace
    <3>4. s.is_alive[i] <=> l.is_alive[i[1]] /\ r.is_alive[i[2]]
      BY <3>1 DEF InterSpace, Complete
    <3>5. i \in G
      BY <3>1, <3>2 DEF InterReach
    <3> HIDE DEF i, s, G, Sol
    <3>6. QED BY <3>2, <3>3, <3>4, <3>5 DEF DeadStart
  <2>4. QED BY <1>4, <2>2, <2>3
<1> HIDE DEF s, G, Sol, walks
<1>9. Walked(s, G, Sol, walks)
  BY <1>4, <1>7, <1>8 DEF Walked
<1>10. G \in SUBSET s.idx
  BY <1>9 DEF Walked, Laws
<1>11. QED BY <1>5, <1>9, <1>10 DEF Sound, s, Sol, walks

-----------------------------------------------------------------------------
(* Sides of a union.  A vector without nulls is one: all of its rows       *)
(* count, and it ends in the last.                                         *)
LEMMA PlainVec ==
  ASSUME NEW name, NEW v, IsVector(v), Sorted(v), \A i \in Rows(v) : v.cells[i].valid
  PROVE  PlainSide(VecSpace(name, v), Keys(v), VecWalks(name, v), ReadData(v, v.len - 1))
<1> DEFINE s == VecSpace(name, v)
           last == ReadData(v, v.len - 1)
<1>1. /\ Laws(s, 0 .. v.len, Keys(v))
      /\ \A lb \in Int : Located(v, lb) => StartLaw(s, 0 .. v.len, lb)
      /\ ReadLaw(s, 0 .. v.len, VecWalks(name, v))
  BY VecLaws, VecReads
<1>2. ASSUME NEW lb \in Int, StartsAt(VecWalks(name, v), lb)
      PROVE  StartLaw(s, 0 .. v.len, lb)
  <2>1. Located(v, lb - 0)
    BY <1>2 DEF StartsAt, VecWalks
  <2>2. lb - 0 = lb
    OBVIOUS
  <2>3. QED BY <1>1, <2>1, <2>2
<1>3. ASSUME NEW i \in 0 .. v.len, s.is_alive[i]
      PROVE  /\ s.iter_cond[i]
             /\ s.idx_to_iter[i] <= last
             /\ s.is_alive[s.next[i]] <=> s.idx_to_iter[i] < last
  <2>0. v.len \in Nat /\ i \in Int /\ i + 1 \in Int
    BY DEF IsVector
  <2>1. /\ \A k \in Int : s.is_alive[k] <=> k < v.len
        /\ s.iter_cond[i] <=> i < v.len /\ ReadBit(v, i)
        /\ s.idx_to_iter[i] = ReadData(v, i)
        /\ s.next[i] = i + 1
    BY <2>0 DEF VecSpace
  <2> HIDE DEF s
  <2>2. i \in Rows(v) /\ v.len - 1 \in Rows(v)
    BY <1>3, <2>0, <2>1 DEF Rows
  <2>9. \A k \in Rows(v) : /\ v.cells[k] \in Cell
                           /\ ReadData(v, k) = v.cells[k].key
                           /\ ReadBit(v, k) = v.cells[k].valid
    BY DEF ReadData, ReadBit, ReadCell, Rows, IsVector
  <2>3. /\ ReadBit(v, i) = v.cells[i].valid
        /\ ReadData(v, i) = v.cells[i].key /\ v.cells[i].key \in Int
        /\ last = v.cells[v.len - 1].key /\ v.cells[v.len - 1].key \in Int
    BY <2>2, <2>9 DEF Cell
  <2>4. i < v.len - 1 => v.cells[i].key < v.cells[v.len - 1].key
    BY <2>2 DEF Sorted
  <2> HIDE DEF last
  <2>5. CASE i = v.len - 1
    BY <2>0, <2>1, <2>2, <2>3, <2>5
  <2>6. CASE i < v.len - 1
    BY <2>0, <2>1, <2>2, <2>3, <2>4, <2>6
  <2>7. QED BY <2>0, <2>2, <2>5, <2>6 DEF Rows
<1> HIDE DEF s
<1>4. Side(s, 0 .. v.len, Keys(v), VecWalks(name, v), last)
  BY <1>1, <1>2, <1>3 DEF Side, UnionSide
<1>5. \A w \in VecWalks(name, v) : \A k \in Keys(w.vec) : k + w.shift \in Keys(v)
  <2>1. \A k \in Keys(v) : k \in Int
    BY <1>1 DEF Laws
  <2>2. QED BY <2>1 DEF VecWalks
<1>6. 0 .. v.len \in SUBSET s.idx
  BY <1>1 DEF Laws
<1>7. QED BY <1>4, <1>5, <1>6, VecBounded DEF PlainSide, s

(* A shift moves its end.                                                  *)
LEMMA PlainShifted ==
  ASSUME NEW s, NEW Sol, NEW walks, AreWalks(walks), NEW last \in Int,
         PlainSide(s, Sol, walks, last), NEW c \in Int
  PROVE  PlainSide(ShiftedSpace(s, c), Moved(Sol, c), ShiftedWalks(walks, c), last + c)
<1> DEFINE h == ShiftedSpace(s, c)
           S == Moved(Sol, c)
           moved == ShiftedWalks(walks, c)
<1>1. PICK G \in SUBSET s.idx : Side(s, G, Sol, walks, last)
  BY DEF PlainSide
<1>2. IsSpace(s) /\ Bounded(s, Sol) /\ Laws(s, G, Sol) /\ Sol \in SUBSET Int
  BY <1>1 DEF PlainSide, Bounded, Side, Laws
<1>3. /\ Laws(h, G, S)
      /\ \A lb \in Int : StartLaw(s, G, lb - c) => StartLaw(h, G, lb)
  BY <1>2, ShiftedLaws
<1>4. Bounded(h, S)
  BY <1>2, ShiftedBounded
<1>5. ASSUME NEW lb \in Int, StartsAt(moved, lb)
      PROVE  StartLaw(h, G, lb)
  <2>1. lb - c \in Int /\ StartsAt(walks, lb - c)
    BY <1>5, ShiftedStarts
  <2>2. QED BY <1>1, <1>3, <2>1 DEF Side
<1>6. OneEach(moved) => ReadLaw(h, G, moved)
  BY <1>1, <1>2, ShiftedOneEach, ShiftReads DEF Side
<1>7. UnionSide(h, G, last + c)
  <2>1. ASSUME NEW i \in G, h.is_alive[i]
        PROVE  /\ h.iter_cond[i]
               /\ h.idx_to_iter[i] <= last + c
               /\ h.is_alive[h.next[i]] <=> h.idx_to_iter[i] < last + c
    <3>1. /\ h.is_alive = s.is_alive /\ h.iter_cond = s.iter_cond /\ h.next = s.next
          /\ h.idx_to_iter = [k \in s.idx |-> s.idx_to_iter[k] + c]
      BY <1>2 DEF ShiftedSpace, IsSpace
    <3>2. i \in s.idx /\ s.idx_to_iter[i] \in Int
      BY <1>2 DEF IsSpace
    <3> HIDE DEF h
    <3>3. /\ s.iter_cond[i]
          /\ s.idx_to_iter[i] <= last
          /\ s.is_alive[s.next[i]] <=> s.idx_to_iter[i] < last
      BY <1>1, <2>1, <3>1 DEF Side, UnionSide
    <3>4. h.idx_to_iter[i] = s.idx_to_iter[i] + c
      BY <3>1, <3>2
    <3>5. QED BY <3>1, <3>2, <3>3, <3>4
  <2>2. QED BY <2>1 DEF UnionSide
<1>8. \A w \in moved : \A k \in Keys(w.vec) : k + w.shift \in S
  <2>1. ASSUME NEW w \in walks, NEW k \in Keys(w.vec)
        PROVE  k + (w.shift + c) \in S
    <3>1. k + w.shift \in Sol
      BY DEF PlainSide
    <3>2. k \in Int /\ w.shift \in Int
      BY DEF AreWalks, IsVector, Keys, Rows, Cell
    <3>3. (k + (w.shift + c)) - c = k + w.shift /\ k + (w.shift + c) \in Int
      BY <3>2
    <3>4. QED BY <3>1, <3>3 DEF Moved
  <2>2. QED BY <2>1 DEF ShiftedWalks
<1> HIDE DEF h, S, moved
<1>9. Side(h, G, S, moved, last + c)
  BY <1>3, <1>5, <1>6, <1>7 DEF Side
<1>10. G \in SUBSET h.idx
  BY <1>9 DEF Side, Laws
<1>11. QED BY <1>4, <1>8, <1>9, <1>10 DEF PlainSide, h, S, moved

(* The merge of two sides that end together is a side that ends there.     *)
LEMMA UnionSides ==
  ASSUME NEW l, IsSpace(l), NEW GL \in SUBSET l.idx, NEW SolL,
         NEW r, IsSpace(r), NEW GR \in SUBSET r.idx, NEW SolR,
         NEW last \in Int, UnionSide(l, GL, last), UnionSide(r, GR, last)
  PROVE  UnionSide(UnionSpace(l, r), UnionReach(l, r, GL, GR, SolL, SolR), last)
<1> DEFINE s == UnionSpace(l, r)
           G == UnionReach(l, r, GL, GR, SolL, SolR)
<1>1. SUFFICES ASSUME NEW i \in G, s.is_alive[i]
               PROVE  /\ s.iter_cond[i]
                      /\ s.idx_to_iter[i] <= last
                      /\ s.is_alive[s.next[i]] <=> s.idx_to_iter[i] < last
  BY DEF UnionSide
<1> DEFINE li == l.idx_to_iter[i[1]]
           ri == r.idx_to_iter[i[2]]
           n == JointSpace(l, r).next[i]
<1>2. /\ i[1] \in GL /\ i[2] \in GR /\ i \in l.idx \X r.idx
      /\ l.is_alive[i[1]] <=> r.is_alive[i[2]]
  BY DEF UnionReach
<1>3. \A k \in l.idx \X r.idx :
        /\ s.is_alive[k] <=> l.is_alive[k[1]] \/ r.is_alive[k[2]]
        /\ s.iter_cond[k] <=> l.iter_cond[k[1]] \/ r.iter_cond[k[2]]
  BY DEF UnionSpace, Complete
<1>4. s.idx_to_iter[i] = Min2(li, ri) /\ s.next[i] = n
  <2>1. s.idx_to_iter = JointSpace(l, r).idx_to_iter /\ s.next = JointSpace(l, r).next
    BY DEF UnionSpace, Complete
  <2>2. QED BY <1>2, <2>1, JointStep
<1>5. /\ li < ri => n = <<l.next[i[1]], i[2]>>
      /\ ri < li => n = <<i[1], r.next[i[2]]>>
      /\ li = ri => n = <<l.next[i[1]], r.next[i[2]]>>
  BY <1>2, JointStep
<1> HIDE DEF s, G, n
<1>6. l.is_alive[i[1]] /\ r.is_alive[i[2]]
  <2>1. s.is_alive[i] <=> l.is_alive[i[1]] \/ r.is_alive[i[2]]
    BY <1>2, <1>3
  <2>2. QED BY <1>1, <1>2, <2>1
<1>7. /\ l.iter_cond[i[1]] /\ li <= last /\ (l.is_alive[l.next[i[1]]] <=> li < last)
      /\ r.iter_cond[i[2]] /\ ri <= last /\ (r.is_alive[r.next[i[2]]] <=> ri < last)
  BY <1>2, <1>6 DEF UnionSide
<1>8. /\ li \in Int /\ ri \in Int
      /\ l.next[i[1]] \in l.idx /\ r.next[i[2]] \in r.idx
      /\ i[1] \in l.idx /\ i[2] \in r.idx
  BY <1>2 DEF IsSpace
<1>9. s.iter_cond[i]
  BY <1>2, <1>3, <1>7
<1>10. CASE li < ri
  <2>1. n \in l.idx \X r.idx /\ n[1] = l.next[i[1]] /\ n[2] = i[2]
    BY <1>5, <1>8, <1>10
  <2>2. s.is_alive[n] /\ li < last /\ s.idx_to_iter[i] = li
    BY <1>3, <1>4, <1>6, <1>7, <1>8, <1>10, <2>1 DEF Min2
  <2>3. QED BY <1>4, <1>7, <1>9, <2>2
<1>11. CASE ri < li
  <2>1. n \in l.idx \X r.idx /\ n[1] = i[1] /\ n[2] = r.next[i[2]]
    BY <1>5, <1>8, <1>11
  <2>2. s.is_alive[n] /\ ri < last /\ s.idx_to_iter[i] = ri
    BY <1>3, <1>4, <1>6, <1>7, <1>8, <1>11, <2>1 DEF Min2
  <2>3. QED BY <1>4, <1>7, <1>9, <2>2
<1>12. CASE li = ri
  <2>1. n \in l.idx \X r.idx /\ n[1] = l.next[i[1]] /\ n[2] = r.next[i[2]]
    BY <1>5, <1>8, <1>12
  <2>2. s.is_alive[n] <=> l.is_alive[l.next[i[1]]] \/ r.is_alive[r.next[i[2]]]
    BY <1>3, <2>1
  <2>3. s.is_alive[n] <=> li < last
    BY <1>7, <1>12, <2>2
  <2>4. s.idx_to_iter[i] = li
    BY <1>4, <1>8, <1>12 DEF Min2
  <2>5. QED BY <1>4, <1>7, <1>9, <2>3, <2>4
<1>13. QED BY <1>8, <1>10, <1>11, <1>12

(* It reads the rows of its value: the side that is ahead has none there.  *)
LEMMA UnionReads ==
  ASSUME NEW l, IsSpace(l), NEW GL \in SUBSET l.idx, NEW SolL, NEW walksL, ReadLaw(l, GL, walksL),
         NEW r, IsSpace(r), NEW GR \in SUBSET r.idx, NEW SolR, NEW walksR, ReadLaw(r, GR, walksR),
         NEW last \in Int, UnionSide(l, GL, last), UnionSide(r, GR, last),
         AreWalks(walksL), \A w \in walksL : \A k \in Keys(w.vec) : k + w.shift \in SolL,
         AreWalks(walksR), \A w \in walksR : \A k \in Keys(w.vec) : k + w.shift \in SolR,
         OneEach(walksL \union walksR)
  PROVE  ReadLaw(UnionSpace(l, r), UnionReach(l, r, GL, GR, SolL, SolR), walksL \union walksR)
<1> DEFINE s == UnionSpace(l, r)
           G == UnionReach(l, r, GL, GR, SolL, SolR)
           walks == walksL \union walksR
<1>0. ASSUME NEW e, NEW w, IsVector(w.vec), w.shift \in Int,
             NEW far \in Int, NEW near \in Int, near <= far,
             IsRowAt(e, w, far),
             near < far => near - w.shift \notin Keys(w.vec)
      PROVE  IsRowAt(e, w, near)
  <2>1. e[2] \in Rows(w.vec) /\ ReadData(w.vec, e[2]) \in Int
    BY <1>0 DEF IsRowAt, ReadData, ReadCell, IsVector, Rows, Cell
  <2>2. CASE near = far
    BY <1>0, <2>2
  <2>3. CASE near < far
    BY <1>0, <2>1, <2>3 DEF IsRowAt
  <2>4. QED BY <1>0, <2>2, <2>3
<1>1. EdgeLaw(s, G, walks)
  <2>1. \A i \in G : i \in l.idx \X r.idx /\ i[1] \in GL /\ i[2] \in GR
    BY DEF UnionReach
  <2>2. s.vec_iter_idxs = [i \in l.idx \X r.idx |-> l.vec_iter_idxs[i[1]] \union r.vec_iter_idxs[i[2]]]
    BY DEF UnionSpace, Complete, JointSpace
  <2> HIDE DEF s, G
  <2>3. QED BY <2>1, <2>2 DEF ReadLaw, EdgeLaw
<1>2. SUFFICES ASSUME NEW i \in G, s.is_alive[i], NEW e \in s.vec_iter_idxs[i]
               PROVE  /\ \E w \in walks : e[1] = w.name /\ e[2] \in Rows(w.vec)
                      /\ \A w \in walks : e[1] = w.name => IsRowAt(e, w, s.idx_to_iter[i])
  BY <1>1 DEF ReadLaw
<1> DEFINE li == l.idx_to_iter[i[1]]
           ri == r.idx_to_iter[i[2]]
<1>3. /\ i[1] \in GL /\ i[2] \in GR /\ i \in l.idx \X r.idx
      /\ l.is_alive[i[1]] <=> r.is_alive[i[2]]
      /\ l.is_alive[i[1]] /\ r.is_alive[i[2]] => Level(l, r, SolL, SolR, i)
  BY DEF UnionReach
<1>4. /\ s.is_alive[i] <=> l.is_alive[i[1]] \/ r.is_alive[i[2]]
      /\ s.vec_iter_idxs[i] = l.vec_iter_idxs[i[1]] \union r.vec_iter_idxs[i[2]]
      /\ s.idx_to_iter[i] = Min2(li, ri)
  BY <1>3 DEF UnionSpace, Complete, JointSpace
<1> HIDE DEF s, G
<1>5. l.is_alive[i[1]] /\ r.is_alive[i[2]] /\ Level(l, r, SolL, SolR, i)
  BY <1>2, <1>3, <1>4
<1>6. l.iter_cond[i[1]] /\ r.iter_cond[i[2]]
  BY <1>3, <1>5 DEF UnionSide
<1>7. li \in Int /\ ri \in Int /\ Min2(li, ri) \in {li, ri} /\ Min2(li, ri) <= li /\ Min2(li, ri) <= ri
  BY <1>3 DEF IsSpace, Min2
<1>8. CASE e \in l.vec_iter_idxs[i[1]]
  <2>1. /\ \E w \in walksL : e[1] = w.name /\ e[2] \in Rows(w.vec)
        /\ \A w \in walksL : e[1] = w.name => IsRowAt(e, w, li)
    BY <1>3, <1>5, <1>6, <1>8 DEF ReadLaw
  <2>2. ASSUME NEW w \in walks, e[1] = w.name
        PROVE  IsRowAt(e, w, Min2(li, ri))
    <3>1. w \in walksL
      BY <2>1, <2>2 DEF OneEach
    <3>2. IsVector(w.vec) /\ w.shift \in Int /\ IsRowAt(e, w, li)
      BY <2>1, <2>2, <3>1 DEF AreWalks
    <3>3. ASSUME ri < li, ri - w.shift \in Keys(w.vec)
          PROVE  FALSE
      <4>1. (ri - w.shift) + w.shift \in SolL
        BY <3>1, <3>3
      <4>2. ri \in SolL
        BY <1>7, <3>2, <4>1
      <4>3. QED BY <1>5, <1>7, <3>3, <4>2 DEF Level
    <3> HIDE DEF li, ri
    <3>4. QED BY <1>0, <1>7, <3>2, <3>3
  <2>3. QED BY <1>4, <2>1, <2>2
<1>9. CASE e \in r.vec_iter_idxs[i[2]]
  <2>1. /\ \E w \in walksR : e[1] = w.name /\ e[2] \in Rows(w.vec)
        /\ \A w \in walksR : e[1] = w.name => IsRowAt(e, w, ri)
    BY <1>3, <1>5, <1>6, <1>9 DEF ReadLaw
  <2>2. ASSUME NEW w \in walks, e[1] = w.name
        PROVE  IsRowAt(e, w, Min2(li, ri))
    <3>1. w \in walksR
      BY <2>1, <2>2 DEF OneEach
    <3>2. IsVector(w.vec) /\ w.shift \in Int /\ IsRowAt(e, w, ri)
      BY <2>1, <2>2, <3>1 DEF AreWalks
    <3>3. ASSUME li < ri, li - w.shift \in Keys(w.vec)
          PROVE  FALSE
      <4>1. (li - w.shift) + w.shift \in SolR
        BY <3>1, <3>3
      <4>2. li \in SolR
        BY <1>7, <3>2, <4>1
      <4>3. QED BY <1>5, <1>7, <3>3, <4>2 DEF Level
    <3> HIDE DEF li, ri
    <3>4. QED BY <1>0, <1>7, <3>2, <3>3
  <2>3. QED BY <1>4, <2>1, <2>2
<1>10. QED BY <1>2, <1>4, <1>8, <1>9

LEMMA PlainUnion ==
  ASSUME NEW l, NEW SolL, NEW walksL, AreWalks(walksL), NEW last \in Int,
         PlainSide(l, SolL, walksL, last), l.lower_bound # {}, l.upper_bound # {},
         NEW r, NEW SolR, NEW walksR, AreWalks(walksR),
         PlainSide(r, SolR, walksR, last), r.lower_bound # {}, r.upper_bound # {}
  PROVE  PlainSide(UnionSpace(l, r), SolL \union SolR, walksL \union walksR, last)
<1> DEFINE s == UnionSpace(l, r)
           Sol == SolL \union SolR
           walks == walksL \union walksR
<1>1. PICK GL \in SUBSET l.idx : Side(l, GL, SolL, walksL, last)
  BY DEF PlainSide
<1>2. PICK GR \in SUBSET r.idx : Side(r, GR, SolR, walksR, last)
  BY DEF PlainSide
<1>3. /\ IsSpace(l) /\ Bounded(l, SolL) /\ Laws(l, GL, SolL) /\ SolL \in SUBSET Int
      /\ IsSpace(r) /\ Bounded(r, SolR) /\ Laws(r, GR, SolR) /\ SolR \in SUBSET Int
      /\ UnionSide(l, GL, last) /\ UnionSide(r, GR, last)
  BY <1>1, <1>2 DEF PlainSide, Bounded, Side, Laws
<1> DEFINE G == UnionReach(l, r, GL, GR, SolL, SolR)
<1>4. /\ Laws(s, G, Sol)
      /\ \A lb \in Int : StartLaw(l, GL, lb) /\ StartLaw(r, GR, lb) => StartLaw(s, G, lb)
  BY <1>3, UnionLaws
<1>5. Bounded(s, Sol)
  BY <1>3, UnionBounded
<1>6. UnionSide(s, G, last)
  BY <1>3, UnionSides
<1>7. ASSUME OneEach(walks)
      PROVE  ReadLaw(s, G, walks)
  <2>1. OneEach(walksL) /\ OneEach(walksR)
    BY <1>7 DEF OneEach
  <2>2. ReadLaw(l, GL, walksL) /\ ReadLaw(r, GR, walksR)
    BY <1>1, <1>2, <2>1 DEF Side
  <2>3. /\ \A w \in walksL : \A k \in Keys(w.vec) : k + w.shift \in SolL
        /\ \A w \in walksR : \A k \in Keys(w.vec) : k + w.shift \in SolR
    BY DEF PlainSide
  <2>4. QED BY <1>3, <1>7, <2>2, <2>3, UnionReads
<1>8. ASSUME NEW lb \in Int, StartsAt(walks, lb)
      PROVE  StartLaw(s, G, lb)
  <2>1. StartsAt(walksL, lb) /\ StartsAt(walksR, lb)
    BY <1>8 DEF StartsAt
  <2>2. QED BY <1>1, <1>2, <1>4, <2>1 DEF Side
<1>9. \A w \in walks : \A k \in Keys(w.vec) : k + w.shift \in Sol
  BY DEF PlainSide
<1> HIDE DEF s, G, Sol, walks
<1>10. Side(s, G, Sol, walks, last)
  BY <1>4, <1>6, <1>7, <1>8 DEF Side
<1>11. G \in SUBSET s.idx
  BY <1>10 DEF Side, Laws
<1>12. QED BY <1>5, <1>9, <1>10, <1>11 DEF PlainSide, s, Sol, walks

(* A side is a space like any other.                                       *)
LEMMA PlainSound ==
  ASSUME NEW s, NEW Sol, NEW walks, NEW last, PlainSide(s, Sol, walks, last)
  PROVE  Sound(s, Sol, walks)
BY DEF PlainSide, Side, Sound, Walked

-----------------------------------------------------------------------------
(* Spaces that go in step with a base.                                     *)
LEMMA FreeBaseIs == IsBase(FreeBase)
BY DEF IsBase, FreeBase

LEMMA WalkBaseIs ==
  ASSUME NEW w, IsVector(w.vec), Sorted(w.vec), w.shift \in Int
  PROVE  /\ IsBase(WalkBase(w))
         /\ \A p \in Rows(w.vec) : ReadData(w.vec, p) \in Int
<1> DEFINE v == w.vec
           b == WalkBase(w)
<1>1. /\ v.len \in Nat
      /\ \A p \in Int : ReadCell(v, p) \in Cell
  BY DEF IsVector, ReadCell, Cell
<1>2. \A p \in Int : ReadData(v, p) \in Int
  BY <1>1 DEF ReadData, Cell
<1>3. \A o, p \in Rows(v) : o < p => ReadData(v, o) < ReadData(v, p)
  BY <1>1 DEF Sorted, Rows, ReadData, ReadCell
<1>4. /\ b.pos = 0 .. v.len /\ b.live = Rows(v)
      /\ \A p \in b.pos : b.at[p] = ReadData(v, p) + w.shift
      /\ b.at \in [b.pos -> Int]
      /\ b.starts = {lb \in Int : Located(v, lb - w.shift)}
      /\ \A lb \in b.starts : b.start[lb] = Locate(v, lb - w.shift)
  BY <1>1, <1>2 DEF WalkBase
<1> HIDE DEF b
<1>5. Rows(v) \in SUBSET (0 .. v.len) /\ \A p \in Rows(v) : p + 1 \in 0 .. v.len
  BY <1>1 DEF Rows
<1>6. ASSUME NEW o \in Rows(v), NEW p \in Rows(v), o < p
      PROVE  b.at[o] < b.at[p] /\ o + 1 \in Rows(v)
  <2>1. ReadData(v, o) < ReadData(v, p) /\ o \in Int /\ p \in Int
    BY <1>1, <1>3, <1>6 DEF Rows
  <2>2. o + 1 \in Rows(v)
    BY <1>1, <1>6 DEF Rows
  <2>3. ReadData(v, o) + w.shift < ReadData(v, p) + w.shift
    BY <1>2, <2>1
  <2>4. QED BY <1>4, <1>5, <2>2, <2>3
<1>7. ASSUME NEW lb \in b.starts
      PROVE  b.start[lb] \in Rows(v) /\ b.at[b.start[lb]] = lb
  <2>1. lb \in Int /\ lb - w.shift \in Int /\ Located(v, lb - w.shift)
    BY <1>4
  <2>2. Locate(v, lb - w.shift) \in Rows(v) /\ ReadData(v, Locate(v, lb - w.shift)) = lb - w.shift
    BY <2>1, LocateRow
  <2>3. (lb - w.shift) + w.shift = lb
    BY <2>1
  <2>4. QED BY <1>4, <1>5, <2>2, <2>3
<1>8. IsBase(b)
  BY <1>1, <1>4, <1>5, <1>6, <1>7 DEF IsBase
<1>9. QED BY <1>2, <1>8 DEF b, Rows

(* What goes in step with a base is a space of its live values.            *)
LEMMA InStepLaws ==
  ASSUME NEW base, IsBase(base), NEW s, NEW Sol, Bounded(s, Sol), Sol \in SUBSET Int,
         NEW names, NEW D, StepsWith(s, Sol, base, names, D)
  PROVE  /\ Laws(s, Trace(base, D), Sol)
         /\ \A lb \in base.starts : \/ StartLaw(s, Trace(base, D), lb)
                                    \/ DeadStart(s, Trace(base, D), Sol, lb)
<1> DEFINE G == Trace(base, D)
<1>1. /\ base.pos \in SUBSET Int /\ base.live \in SUBSET base.pos
      /\ \A p \in base.live : base.at[p] \in Int /\ p + 1 \in base.pos
      /\ \A o, p \in base.live : o < p => base.at[o] < base.at[p] /\ o + 1 \in base.live
  BY DEF IsBase
<1>2. /\ \A p \in base.live :
           /\ s.next[D[p]] = D[p + 1]
           /\ s.idx_to_iter[D[p]] = base.at[p]
           /\ s.iter_cond[D[p]] <=> base.at[p] \in Sol
           /\ ~s.is_alive[D[p]] => \A x \in Sol : x < base.at[p]
      /\ \A p \in base.pos : s.is_alive[D[p]] => p \in base.live
      /\ \A x \in Sol : \E p \in base.live : x = base.at[p]
  BY DEF StepsWith
<1>3. G \in SUBSET s.idx
  BY DEF StepsWith, Trace
<1>4. ASSUME NEW p \in base.pos, s.is_alive[D[p]]
      PROVE  /\ D[p + 1] \in G
             /\ s.is_alive[D[p + 1]] => base.at[p] < s.idx_to_iter[D[p + 1]]
             /\ \A x \in Sol : x > base.at[p] =>
                  s.is_alive[D[p + 1]] /\ x >= s.idx_to_iter[D[p + 1]]
  <2>1. p \in base.live /\ p + 1 \in base.pos /\ p \in Int
    BY <1>1, <1>2, <1>4
  <2>2. s.is_alive[D[p + 1]] => base.at[p] < s.idx_to_iter[D[p + 1]]
    BY <1>1, <1>2, <2>1
  <2>3. ASSUME NEW x \in Sol, x > base.at[p]
        PROVE  s.is_alive[D[p + 1]] /\ x >= s.idx_to_iter[D[p + 1]]
    <3>1. PICK o \in base.live : x = base.at[o]
      BY <1>2
    <3>2. p < o /\ o \in Int
      <4>1. o \in Int /\ base.at[o] \in Int /\ base.at[p] \in Int
        BY <1>1, <2>1
      <4>2. ~(o < p) /\ o # p
        BY <1>1, <2>1, <2>3, <3>1, <4>1
      <4>3. QED BY <2>1, <4>1, <4>2
    <3>3. p + 1 \in base.live
      BY <1>1, <2>1, <3>2
    <3>4. base.at[p + 1] <= x
      <4>1. p + 1 = o \/ p + 1 < o
        BY <2>1, <3>2
      <4>2. base.at[p + 1] \in Int /\ x \in Int
        BY <1>1, <3>3
      <4>3. QED BY <1>1, <3>1, <3>3, <4>1, <4>2
    <3>5. base.at[p + 1] \in Int /\ x \in Int
      BY <1>1, <3>3
    <3>6. QED BY <1>2, <3>3, <3>4, <3>5
  <2>4. QED BY <2>1, <2>2, <2>3 DEF Trace
<1>5. StepLaw(s, G, Sol)
  <2>1. SUFFICES ASSUME NEW p \in base.pos, s.is_alive[D[p]]
                 PROVE  /\ s.next[D[p]] \in G
                        /\ s.is_alive[s.next[D[p]]] => s.idx_to_iter[D[p]] < s.idx_to_iter[s.next[D[p]]]
                        /\ \A x \in Sol : x > s.idx_to_iter[D[p]] =>
                             s.is_alive[s.next[D[p]]] /\ x >= s.idx_to_iter[s.next[D[p]]]
    BY DEF StepLaw, Trace
  <2>2. s.next[D[p]] = D[p + 1] /\ s.idx_to_iter[D[p]] = base.at[p]
    BY <1>2, <2>1
  <2> HIDE DEF G
  <2>3. QED BY <1>4, <2>1, <2>2
<1>6. CondLaw(s, G, Sol)
  BY <1>2 DEF CondLaw, Trace
<1>7. ASSUME NEW lb \in base.starts
      PROVE  StartLaw(s, G, lb) \/ DeadStart(s, G, Sol, lb)
  <2> DEFINE p == base.start[lb]
  <2>1. p \in base.live /\ base.at[p] = lb /\ s.iter_to_idx[lb] = D[p]
    BY DEF IsBase, StepsWith
  <2>2. D[p] \in G
    BY <1>1, <2>1 DEF Trace
  <2> HIDE DEF p, G
  <2>3. QED BY <1>2, <2>1, <2>2 DEF StartLaw, DeadStart
<1>8. QED BY <1>3, <1>5, <1>6, <1>7 DEF Laws

LEMMA FreeSound ==
  ASSUME NEW s, NEW Sol \in SUBSET Int, Bounded(s, Sol), InStep(s, Sol, FreeBase, {})
  PROVE  Sound(s, Sol, {})
<1> DEFINE base == FreeBase
<1>1. PICK D \in [base.pos -> s.idx] : StepsWith(s, Sol, base, {}, D)
  BY DEF InStep
<1>2. IsBase(base)
  BY FreeBaseIs
<1>3. base.starts = Int
  BY DEF FreeBase
<1> DEFINE G == Trace(base, D)
<1> HIDE DEF base
<1>4. /\ Laws(s, G, Sol)
      /\ \A lb \in base.starts : StartLaw(s, G, lb) \/ DeadStart(s, G, Sol, lb)
  BY <1>1, <1>2, InStepLaws
<1>5. ReadLaw(s, G, {})
  <2>1. \A p \in base.pos : s.vec_iter_idxs[D[p]] \subseteq {<<name, p>> : name \in {}}
    BY <1>1 DEF StepsWith
  <2>2. \A i \in G : s.vec_iter_idxs[i] = {}
    BY <2>1 DEF Trace
  <2> HIDE DEF G
  <2>3. QED BY <2>2 DEF ReadLaw, EdgeLaw
<1> HIDE DEF G
<1>6. Walked(s, G, Sol, {})
  BY <1>3, <1>4, <1>5 DEF Walked
<1>7. QED BY <1>4, <1>6 DEF Sound, Laws

LEMMA WalkSound ==
  ASSUME NEW w, IsVector(w.vec), Sorted(w.vec), w.shift \in Int,
         NEW s, NEW Sol \in SUBSET Int, Bounded(s, Sol), InStep(s, Sol, WalkBase(w), {w.name})
  PROVE  Sound(s, Sol, {w})
<1> DEFINE base == WalkBase(w)
<1>1. PICK D \in [base.pos -> s.idx] : StepsWith(s, Sol, base, {w.name}, D)
  BY DEF InStep
<1> DEFINE G == Trace(base, D)
<1>2. IsBase(base) /\ \A p \in Rows(w.vec) : ReadData(w.vec, p) \in Int
  BY WalkBaseIs
<1>3. /\ base.live = Rows(w.vec)
      /\ base.starts = {lb \in Int : Located(w.vec, lb - w.shift)}
      /\ \A p \in Rows(w.vec) : base.at[p] = ReadData(w.vec, p) + w.shift
  <2>1. \A p \in Rows(w.vec) : p \in 0 .. w.vec.len
    BY DEF Rows, IsVector
  <2>2. QED BY <2>1 DEF WalkBase
<1> HIDE DEF base
<1>4. /\ Laws(s, G, Sol)
      /\ \A lb \in base.starts : StartLaw(s, G, lb) \/ DeadStart(s, G, Sol, lb)
  BY <1>1, <1>2, InStepLaws
<1>5. ReadLaw(s, G, {w})
  <2>1. EdgeLaw(s, G, {w})
    <3>1. base.pos = 0 .. w.vec.len
      BY DEF base, WalkBase
    <3>2. \A p \in base.pos : s.vec_iter_idxs[D[p]] \subseteq {<<name, p>> : name \in {w.name}}
      BY <1>1 DEF StepsWith
    <3>3. QED BY <3>1, <3>2 DEF EdgeLaw, Trace
  <2>2. SUFFICES ASSUME NEW p \in base.pos, s.is_alive[D[p]], NEW e \in s.vec_iter_idxs[D[p]]
                 PROVE  /\ e[1] = w.name /\ e[2] \in Rows(w.vec)
                        /\ IsRowAt(e, w, s.idx_to_iter[D[p]])
    BY <2>1 DEF ReadLaw, Trace
  <2>3. p \in Rows(w.vec) /\ e \in {<<name, p>> : name \in {w.name}}
    BY <1>1, <1>3, <2>2 DEF StepsWith
  <2>4. e[1] = w.name /\ e[2] = p
    BY <2>3
  <2>5. s.idx_to_iter[D[p]] - w.shift = ReadData(w.vec, p) /\ ReadData(w.vec, p) \in Int
    <3>1. s.idx_to_iter[D[p]] = base.at[p] /\ base.at[p] = ReadData(w.vec, p) + w.shift
      BY <1>1, <1>3, <2>3 DEF StepsWith
    <3>2. QED BY <1>2, <2>3, <3>1
  <2>6. QED BY <2>3, <2>4, <2>5 DEF IsRowAt
<1> HIDE DEF G
<1>6. ASSUME NEW lb \in Int, StartsAt({w}, lb)
      PROVE  StartLaw(s, G, lb) \/ DeadStart(s, G, Sol, lb)
  <2>1. lb \in base.starts
    BY <1>3, <1>6 DEF StartsAt
  <2>2. QED BY <1>4, <2>1
<1>7. Walked(s, G, Sol, {w})
  BY <1>4, <1>5, <1>6 DEF Walked
<1>8. QED BY <1>4, <1>7 DEF Sound, Laws

(* The spaces of no vector and of one.                                     *)
LEMMA UniversalInStep == InStep(UniversalSpace, Int, FreeBase, {})
<1> DEFINE D == [p \in Int |-> p]
<1>1. D \in [FreeBase.pos -> UniversalSpace.idx]
  BY DEF FreeBase, UniversalSpace
<1>2. StepsWith(UniversalSpace, Int, FreeBase, {}, D)
  BY <1>1 DEF StepsWith, FreeBase, UniversalSpace
<1>3. QED BY <1>1, <1>2 DEF InStep

LEMMA VecInStep ==
  ASSUME NEW w, IsVector(w.vec), Sorted(w.vec), w.shift = 0
  PROVE  InStep(VecSpace(w.name, w.vec), Keys(w.vec), WalkBase(w), {w.name})
<1> DEFINE v == w.vec
           s == VecSpace(w.name, v)
           base == WalkBase(w)
           D == [p \in 0 .. v.len |-> p]
<1>1. /\ v.len \in Nat
      /\ \A p \in Int : ReadCell(v, p) \in Cell
  BY DEF IsVector, ReadCell, Cell
<1>2. /\ s.idx = Int
      /\ \A i \in Int : /\ s.iter_cond[i] <=> (i < v.len /\ ReadBit(v, i))
                        /\ s.idx_to_iter[i] = ReadData(v, i)
                        /\ s.is_alive[i] <=> i < v.len
                        /\ s.next[i] = i + 1
                        /\ s.vec_iter_idxs[i] = {<<w.name, i>>}
      /\ \A t \in Int : s.iter_to_idx[t] = Locate(v, t)
  BY DEF VecSpace
<1>3. \A p \in Int : ReadData(v, p) \in Int
  BY <1>1 DEF ReadData, Cell
<1>4. /\ base.pos = 0 .. v.len /\ base.live = Rows(v)
      /\ \A p \in 0 .. v.len : base.at[p] = ReadData(v, p)
      /\ base.starts \subseteq {lb \in Int : Located(v, lb)}
      /\ \A lb \in base.starts : base.start[lb] = Locate(v, lb)
  <2>1. \A t \in Int : t + 0 = t /\ t - 0 = t
    OBVIOUS
  <2>2. \A p \in 0 .. v.len : p \in Int
    BY <1>1
  <2>3. \A lb \in Int : lb - w.shift = lb
    BY <2>1
  <2>4. base.starts = {lb \in Int : Located(v, lb)}
    BY <2>3 DEF WalkBase
  <2>5. \A lb \in base.starts : base.start[lb] = Locate(v, lb)
    BY <2>3 DEF WalkBase
  <2>6. /\ base.pos = 0 .. v.len /\ base.live = Rows(v)
        /\ \A p \in 0 .. v.len : base.at[p] = ReadData(v, p) + w.shift
    BY DEF WalkBase
  <2>7. QED BY <1>3, <2>1, <2>2, <2>4, <2>5, <2>6
<1>5. /\ \A p \in Rows(v) : p \in Int /\ p < v.len /\ p \in 0 .. v.len /\ p + 1 \in 0 .. v.len
      /\ \A p \in 0 .. v.len : p \in Int /\ (p < v.len => p \in Rows(v))
  BY <1>1 DEF Rows
<1>6. \A p \in Rows(v) : ReadBit(v, p) <=> ReadData(v, p) \in Keys(v)
  <2>1. Laws(s, 0 .. v.len, Keys(v))
    BY VecLaws
  <2> HIDE DEF s
  <2>2. QED BY <1>2, <1>5, <2>1 DEF Laws, CondLaw
<1>7. \A x \in Keys(v) : \E p \in Rows(v) : x = ReadData(v, p)
  BY DEF Keys, ReadData, ReadCell, Rows, IsVector
<1>8. \A lb \in base.starts : lb \in Int /\ Locate(v, lb) \in Rows(v)
  BY <1>4, LocateRow
<1> HIDE DEF s, base, v
<1>9. D \in [base.pos -> s.idx]
  BY <1>2, <1>4, <1>5
<1>10. StepsWith(s, Keys(v), base, {w.name}, D)
  <2>1. \A p \in base.live :
          /\ s.next[D[p]] = D[p + 1]
          /\ s.idx_to_iter[D[p]] = base.at[p]
          /\ s.iter_cond[D[p]] <=> base.at[p] \in Keys(v)
          /\ s.is_alive[D[p]]
    BY <1>2, <1>4, <1>5, <1>6
  <2>2. \A p \in base.pos :
          /\ s.is_alive[D[p]] => p \in base.live
          /\ s.vec_iter_idxs[D[p]] \subseteq {<<name, p>> : name \in {w.name}}
    BY <1>2, <1>4, <1>5
  <2>3. \A lb \in base.starts : s.iter_to_idx[lb] = D[base.start[lb]]
    <3>1. TAKE lb \in base.starts
    <3>2. lb \in Int /\ base.start[lb] = Locate(v, lb) /\ Locate(v, lb) \in 0 .. v.len
      BY <1>4, <1>5, <1>8
    <3>3. QED BY <1>2, <3>2
  <2>4. \A x \in Keys(v) : \E p \in base.live : x = base.at[p]
    BY <1>4, <1>5, <1>7
  <2>5. QED BY <1>9, <2>1, <2>2, <2>3, <2>4 DEF StepsWith
<1>11. QED BY <1>9, <1>10 DEF InStep, s, base, v

(* A space in step stays so under each of the other spaces.                *)
LEMMA ShiftedInStepFree ==
  ASSUME NEW s, IsSpace(s), NEW Sol \in SUBSET Int, InStep(s, Sol, FreeBase, {}), NEW c \in Int
  PROVE  InStep(ShiftedSpace(s, c), Moved(Sol, c), FreeBase, {})
<1> DEFINE h == ShiftedSpace(s, c)
           S == Moved(Sol, c)
<1>1. PICK D \in [FreeBase.pos -> s.idx] : StepsWith(s, Sol, FreeBase, {}, D)
  BY DEF InStep
<1>2. /\ D \in [Int -> s.idx]
      /\ \A p \in Int :
           /\ s.next[D[p]] = D[p + 1]
           /\ s.idx_to_iter[D[p]] = p
           /\ s.iter_cond[D[p]] <=> p \in Sol
           /\ ~s.is_alive[D[p]] => \A x \in Sol : x < p
           /\ s.vec_iter_idxs[D[p]] = {}
           /\ s.iter_to_idx[p] = D[p]
  BY <1>1 DEF StepsWith, FreeBase
<1>3. /\ h.idx = s.idx /\ h.next = s.next /\ h.iter_cond = s.iter_cond
      /\ h.is_alive = s.is_alive /\ h.vec_iter_idxs = s.vec_iter_idxs
      /\ \A i \in s.idx : h.idx_to_iter[i] = s.idx_to_iter[i] + c
      /\ \A t \in Int : h.iter_to_idx[t] = s.iter_to_idx[t - c]
  BY DEF ShiftedSpace, IsSpace
<1>4. /\ S \in SUBSET Int
      /\ \A x \in Int : x \in S <=> x - c \in Sol
  BY DEF Moved
<1> DEFINE M == [p \in Int |-> D[p - c]]
<1> HIDE DEF h, S
<1>5. M \in [FreeBase.pos -> h.idx]
  BY <1>2, <1>3 DEF FreeBase
<1>6. ASSUME NEW p \in Int
      PROVE  /\ h.next[M[p]] = M[p + 1]
             /\ h.idx_to_iter[M[p]] = p
             /\ h.iter_cond[M[p]] <=> p \in S
             /\ ~h.is_alive[M[p]] => \A x \in S : x < p
             /\ h.vec_iter_idxs[M[p]] = {}
             /\ h.iter_to_idx[p] = M[p]
  <2> DEFINE o == p - c
  <2>1. o \in Int /\ M[p] = D[o] /\ M[p + 1] = D[o + 1] /\ o + c = p /\ D[o] \in s.idx
    <3>1. (p + 1) - c = (p - c) + 1 /\ p - c \in Int /\ p + 1 \in Int
      OBVIOUS
    <3>2. QED BY <1>2, <3>1
  <2>a. p \in S <=> o \in Sol
    BY <1>4
  <2>b. \A t \in Int : h.iter_to_idx[t] = s.iter_to_idx[t - c]
    BY <1>3
  <2>c. h.iter_to_idx[p] = s.iter_to_idx[o]
    BY <2>b
  <2> HIDE DEF o, M
  <2>d. /\ s.next[D[o]] = D[o + 1]
        /\ s.idx_to_iter[D[o]] = o
        /\ s.iter_cond[D[o]] <=> o \in Sol
        /\ s.vec_iter_idxs[D[o]] = {}
        /\ s.iter_to_idx[o] = D[o]
    BY <1>2, <2>1
  <2>2. h.next[M[p]] = M[p + 1] /\ h.vec_iter_idxs[M[p]] = {}
    BY <1>3, <2>1, <2>d
  <2>3. h.idx_to_iter[M[p]] = p
    BY <1>3, <2>1, <2>d
  <2>4. h.iter_cond[M[p]] <=> p \in S
    BY <1>3, <2>1, <2>a, <2>d
  <2>5. ASSUME ~h.is_alive[M[p]], NEW x \in S
        PROVE  x < p
    <3>1. x \in Int /\ x - c \in Sol
      BY <1>4
    <3>2. x - c < o
      BY <1>2, <1>3, <2>1, <2>5, <3>1
    <3>3. QED BY <2>1, <3>1, <3>2
  <2>6. h.iter_to_idx[p] = M[p]
    BY <2>1, <2>c, <2>d
  <2>7. QED BY <2>2, <2>3, <2>4, <2>5, <2>6
<1> HIDE DEF M
<1>7. StepsWith(h, S, FreeBase, {}, M)
  BY <1>4, <1>5, <1>6 DEF StepsWith, FreeBase
<1>8. QED BY <1>5, <1>7 DEF InStep, h, S

LEMMA ShiftedInStepWalk ==
  ASSUME NEW w, NEW m, m.vec = w.vec, m.name = w.name, w.shift \in Int, IsVector(w.vec),
         NEW c \in Int, m.shift = w.shift + c,
         NEW s, IsSpace(s), NEW Sol \in SUBSET Int, InStep(s, Sol, WalkBase(w), {w.name})
  PROVE  InStep(ShiftedSpace(s, c), Moved(Sol, c), WalkBase(m), {m.name})
<1> DEFINE h == ShiftedSpace(s, c)
           S == Moved(Sol, c)
           v == w.vec
           base == WalkBase(w)
           moved == WalkBase(m)
<1>1. PICK D \in [base.pos -> s.idx] : StepsWith(s, Sol, base, {w.name}, D)
  BY DEF InStep
<1>2. /\ base.pos = 0 .. v.len /\ base.live = Rows(v) /\ moved.pos = 0 .. v.len /\ moved.live = Rows(v)
      /\ \A p \in 0 .. v.len : base.at[p] = ReadData(v, p) + w.shift
      /\ \A p \in 0 .. v.len : moved.at[p] = ReadData(v, p) + m.shift
      /\ base.starts = {lb \in Int : Located(v, lb - w.shift)}
      /\ moved.starts = {lb \in Int : Located(v, lb - m.shift)}
      /\ \A lb \in base.starts : base.start[lb] = Locate(v, lb - w.shift)
      /\ \A lb \in moved.starts : moved.start[lb] = Locate(v, lb - m.shift)
  BY DEF WalkBase
<1>3. v.len \in Nat /\ \A p \in Int : ReadCell(v, p) \in Cell
  BY DEF IsVector, ReadCell, Cell
<1>4. /\ \A p \in 0 .. v.len : ReadData(v, p) \in Int
      /\ Rows(v) \in SUBSET (0 .. v.len)
  BY <1>3 DEF ReadData, Cell, Rows
<1>5. /\ h.idx = s.idx /\ h.next = s.next /\ h.iter_cond = s.iter_cond
      /\ h.is_alive = s.is_alive /\ h.vec_iter_idxs = s.vec_iter_idxs
      /\ \A i \in s.idx : h.idx_to_iter[i] = s.idx_to_iter[i] + c
      /\ \A t \in Int : h.iter_to_idx[t] = s.iter_to_idx[t - c]
  BY DEF ShiftedSpace, IsSpace
<1>6. S \in SUBSET Int /\ \A x \in Int : x \in S <=> x - c \in Sol
  BY DEF Moved
<1> HIDE DEF h, S, base, moved
<1>7. \A p \in 0 .. v.len : /\ base.at[p] \in Int /\ moved.at[p] \in Int
                            /\ moved.at[p] = base.at[p] + c /\ moved.at[p] - c = base.at[p]
  <2>1. TAKE p \in 0 .. v.len
  <2>2. /\ ReadData(v, p) \in Int
        /\ base.at[p] = ReadData(v, p) + w.shift /\ moved.at[p] = ReadData(v, p) + (w.shift + c)
    BY <1>2, <1>4
  <2>3. QED BY <2>2
<1>8. D \in [moved.pos -> h.idx]
  BY <1>2, <1>5
<1>9. ASSUME NEW p \in moved.live
      PROVE  /\ h.next[D[p]] = D[p + 1]
             /\ h.idx_to_iter[D[p]] = moved.at[p]
             /\ h.iter_cond[D[p]] <=> moved.at[p] \in S
             /\ ~h.is_alive[D[p]] => \A x \in S : x < moved.at[p]
  <2>1. p \in base.live /\ p \in 0 .. v.len /\ D[p] \in s.idx
    BY <1>1, <1>2, <1>4
  <2>2. /\ s.next[D[p]] = D[p + 1]
        /\ s.idx_to_iter[D[p]] = base.at[p]
        /\ s.iter_cond[D[p]] <=> base.at[p] \in Sol
        /\ ~s.is_alive[D[p]] => \A x \in Sol : x < base.at[p]
    BY <1>1, <2>1 DEF StepsWith
  <2>3. h.idx_to_iter[D[p]] = moved.at[p]
    BY <1>5, <1>7, <2>1, <2>2
  <2>4. h.iter_cond[D[p]] <=> moved.at[p] \in S
    BY <1>5, <1>6, <1>7, <2>1, <2>2
  <2>5. ASSUME ~h.is_alive[D[p]], NEW x \in S
        PROVE  x < moved.at[p]
    <3>1. x \in Int /\ x - c \in Sol
      BY <1>6
    <3>2. x - c < base.at[p]
      BY <1>5, <2>2, <2>5, <3>1
    <3>3. QED BY <1>7, <2>1, <3>1, <3>2
  <2>6. QED BY <1>5, <2>2, <2>3, <2>4, <2>5
<1>10. \A p \in moved.pos : /\ h.is_alive[D[p]] => p \in moved.live
                            /\ h.vec_iter_idxs[D[p]] \subseteq {<<name, p>> : name \in {m.name}}
  BY <1>1, <1>2, <1>5 DEF StepsWith
<1>11. ASSUME NEW lb \in moved.starts
       PROVE  h.iter_to_idx[lb] = D[moved.start[lb]]
  <2>1. lb \in Int /\ lb - c \in Int /\ lb - m.shift = (lb - c) - w.shift
    BY <1>2
  <2>2. lb - c \in base.starts /\ moved.start[lb] = base.start[lb - c]
    BY <1>2, <2>1
  <2>3. QED BY <1>1, <1>5, <2>1, <2>2 DEF StepsWith
<1>12. ASSUME NEW x \in S
       PROVE  \E p \in moved.live : x = moved.at[p]
  <2>1. x \in Int /\ x - c \in Sol
    BY <1>6
  <2>2. PICK p \in base.live : x - c = base.at[p]
    BY <1>1, <2>1 DEF StepsWith
  <2>3. p \in moved.live /\ p \in 0 .. v.len
    BY <1>2, <1>4, <2>2
  <2>4. x = moved.at[p]
    BY <1>7, <2>1, <2>2, <2>3
  <2>5. QED BY <2>3, <2>4
<1>13. StepsWith(h, S, moved, {m.name}, D)
  BY <1>8, <1>9, <1>10, <1>11, <1>12 DEF StepsWith
<1>14. QED BY <1>8, <1>13 DEF InStep, h, S, moved

LEMMA FilteredInStep ==
  ASSUME NEW base, IsBase(base), NEW names, NEW s, IsSpace(s), NEW Sol,
         InStep(s, Sol, base, names), NEW keep
  PROVE  InStep(FilteredSpace(s, [i \in s.idx |-> s.idx_to_iter[i] \in keep]), Sol \intersect keep,
                base, names)
<1> DEFINE f == FilteredSpace(s, [i \in s.idx |-> s.idx_to_iter[i] \in keep])
           S == Sol \intersect keep
<1>1. PICK D \in [base.pos -> s.idx] : StepsWith(s, Sol, base, names, D)
  BY DEF InStep
<1>2. /\ f.idx = s.idx /\ f.next = s.next /\ f.is_alive = s.is_alive
      /\ f.vec_iter_idxs = s.vec_iter_idxs /\ f.idx_to_iter = s.idx_to_iter
      /\ f.iter_to_idx = s.iter_to_idx
      /\ \A i \in s.idx : f.iter_cond[i] <=> s.idx_to_iter[i] \in keep /\ s.iter_cond[i]
  BY DEF FilteredSpace, IsSpace
<1>3. \A p \in base.live : D[p] \in s.idx
  BY DEF IsBase
<1> HIDE DEF f
<1>4. StepsWith(f, S, base, names, D)
  BY <1>1, <1>2, <1>3 DEF StepsWith
<1> HIDE DEF S
<1>5. QED BY <1>1, <1>2, <1>4 DEF InStep, f, S

LEMMA LBoundInStep ==
  ASSUME NEW base, IsBase(base), NEW names, NEW s, NEW Sol \in SUBSET Int, Bounded(s, Sol),
         InStep(s, Sol, base, names), NEW b \in Int
  PROVE  InStep(LBoundSpace(s, b), AtLeast(Sol, b), base, names)
<1> DEFINE l == LBoundSpace(s, b)
           S == AtLeast(Sol, b)
<1>1. PICK D \in [base.pos -> s.idx] : StepsWith(s, Sol, base, names, D)
  BY DEF InStep
<1>2. PICK lower \in Int : l.lower_bound = {lower} /\ AtLeast(Sol, lower) = S
  BY LBoundSame
<1>3. IsSpace(s)
  BY DEF Bounded
<1>4. /\ l.idx = s.idx /\ l.next = s.next /\ l.is_alive = s.is_alive
      /\ l.vec_iter_idxs = s.vec_iter_idxs /\ l.idx_to_iter = s.idx_to_iter
      /\ l.iter_to_idx = s.iter_to_idx
      /\ \A i \in s.idx : l.iter_cond[i] <=> s.idx_to_iter[i] >= lower /\ s.iter_cond[i]
  <2> DEFINE Above(i) == \A c \in Highest({b} \union s.lower_bound) : s.idx_to_iter[i] >= c
  <2>1. /\ l.idx = s.idx /\ l.next = s.next /\ l.is_alive = s.is_alive
        /\ l.vec_iter_idxs = s.vec_iter_idxs /\ l.idx_to_iter = s.idx_to_iter
        /\ l.iter_to_idx = s.iter_to_idx
        /\ l.iter_cond = [i \in s.idx |-> Above(i) /\ s.iter_cond[i]]
    BY <1>3 DEF LBoundSpace, IsSpace
  <2>2. Highest({b} \union s.lower_bound) = {lower}
    BY <1>2, <1>3 DEF LBoundSpace, IsSpace
  <2>3. \A i \in s.idx : Above(i) <=> s.idx_to_iter[i] >= lower
    BY <2>2
  <2> HIDE DEF Above, l
  <2>4. \A i \in s.idx : l.iter_cond[i] <=> s.idx_to_iter[i] >= lower /\ s.iter_cond[i]
    BY <2>1, <2>3
  <2>5. QED BY <2>1, <2>4
<1>5. /\ \A p \in base.live : D[p] \in s.idx
      /\ S \subseteq Sol /\ \A x \in Sol : x \in S <=> x >= lower
  BY <1>2 DEF IsBase, AtLeast
<1> HIDE DEF l, S
<1>6. \A p \in base.live : l.iter_cond[D[p]] <=> base.at[p] \in S
  <2>1. TAKE p \in base.live
  <2>2. D[p] \in s.idx /\ s.idx_to_iter[D[p]] = base.at[p] /\ (s.iter_cond[D[p]] <=> base.at[p] \in Sol)
    BY <1>1, <1>5 DEF StepsWith
  <2>3. l.iter_cond[D[p]] <=> base.at[p] >= lower /\ base.at[p] \in Sol
    BY <1>4, <2>2
  <2>4. QED BY <1>5, <2>3
<1>7. ASSUME NEW p \in base.live
      PROVE  ~l.is_alive[D[p]] => \A x \in S : x < base.at[p]
  BY <1>1, <1>4, <1>5 DEF StepsWith
<1>9. /\ \A p \in base.live : l.next[D[p]] = D[p + 1] /\ l.idx_to_iter[D[p]] = base.at[p]
      /\ \A p \in base.pos :
           /\ l.is_alive[D[p]] => p \in base.live
           /\ l.vec_iter_idxs[D[p]] \subseteq {<<name, p>> : name \in names}
      /\ \A lb \in base.starts : l.iter_to_idx[lb] = D[base.start[lb]]
      /\ \A x \in S : \E p \in base.live : x = base.at[p]
      /\ D \in [base.pos -> l.idx]
  BY <1>1, <1>4, <1>5 DEF StepsWith
<1>10. StepsWith(l, S, base, names, D)
  BY <1>6, <1>7, <1>9 DEF StepsWith
<1>8. QED BY <1>1, <1>4, <1>10 DEF InStep, l, S

LEMMA UBoundInStep ==
  ASSUME NEW base, IsBase(base), NEW names, NEW s, NEW Sol \in SUBSET Int, Bounded(s, Sol),
         InStep(s, Sol, base, names), NEW b \in Int
  PROVE  InStep(UBoundSpace(s, b), AtMost(Sol, b), base, names)
<1> DEFINE u == UBoundSpace(s, b)
           S == AtMost(Sol, b)
<1>1. PICK D \in [base.pos -> s.idx] : StepsWith(s, Sol, base, names, D)
  BY DEF InStep
<1>2. PICK upper \in Int : u.upper_bound = {upper} /\ AtMost(Sol, upper) = S
  BY UBoundSame
<1>3. IsSpace(s)
  BY DEF Bounded
<1>4. /\ u.idx = s.idx /\ u.next = s.next
      /\ u.vec_iter_idxs = s.vec_iter_idxs /\ u.idx_to_iter = s.idx_to_iter
      /\ u.iter_to_idx = s.iter_to_idx
      /\ \A i \in s.idx : /\ u.iter_cond[i] <=> s.idx_to_iter[i] <= upper /\ s.iter_cond[i]
                          /\ u.is_alive[i] <=> s.idx_to_iter[i] <= upper /\ s.is_alive[i]
  <2> DEFINE Below(i) == \A c \in Lowest({b} \union s.upper_bound) : s.idx_to_iter[i] <= c
  <2>1. /\ u.idx = s.idx /\ u.next = s.next
        /\ u.vec_iter_idxs = s.vec_iter_idxs /\ u.idx_to_iter = s.idx_to_iter
        /\ u.iter_to_idx = s.iter_to_idx
        /\ u.iter_cond = [i \in s.idx |-> Below(i) /\ s.iter_cond[i]]
        /\ u.is_alive = [i \in s.idx |-> Below(i) /\ s.is_alive[i]]
    BY <1>3 DEF UBoundSpace, IsSpace
  <2>2. Lowest({b} \union s.upper_bound) = {upper}
    BY <1>2, <1>3 DEF UBoundSpace, IsSpace
  <2>3. \A i \in s.idx : Below(i) <=> s.idx_to_iter[i] <= upper
    BY <2>2
  <2> HIDE DEF Below, u
  <2>4. \A i \in s.idx : /\ u.iter_cond[i] <=> s.idx_to_iter[i] <= upper /\ s.iter_cond[i]
                         /\ u.is_alive[i] <=> s.idx_to_iter[i] <= upper /\ s.is_alive[i]
    BY <2>1, <2>3
  <2>5. QED BY <2>1, <2>4
<1>5. /\ \A p \in base.pos : D[p] \in s.idx
      /\ \A p \in base.live : p \in base.pos /\ base.at[p] \in Int
      /\ S \subseteq Sol /\ \A x \in Sol : x \in Int /\ (x \in S <=> x <= upper)
  BY <1>2 DEF IsBase, AtMost
<1> HIDE DEF u, S
<1>6. ASSUME NEW p \in base.live, ~u.is_alive[D[p]], NEW x \in S
      PROVE  x < base.at[p]
  <2>1. D[p] \in s.idx /\ base.at[p] \in Int /\ x \in Sol /\ x \in Int /\ x <= upper
    BY <1>5
  <2>2. /\ s.idx_to_iter[D[p]] = base.at[p]
        /\ ~s.is_alive[D[p]] => x < base.at[p]
    BY <1>1, <2>1 DEF StepsWith
  <2>3. CASE s.is_alive[D[p]]
    <3>1. ~(base.at[p] <= upper)
      BY <1>4, <1>6, <2>1, <2>2, <2>3
    <3>2. QED BY <2>1, <3>1
  <2>4. QED BY <2>2, <2>3
<1>7. StepsWith(u, S, base, names, D)
  BY <1>1, <1>4, <1>5, <1>6 DEF StepsWith
<1>8. QED BY <1>1, <1>4, <1>7 DEF InStep, u, S

(* The part of StepsWith a merge takes from JointSpace.                    *)
InStepJoint(j, base, names, D) ==
  /\ D \in [base.pos -> j.idx]
  /\ \A p \in base.live : j.next[D[p]] = D[p + 1] /\ j.idx_to_iter[D[p]] = base.at[p]
  /\ \A p \in base.pos : j.vec_iter_idxs[D[p]] \subseteq {<<name, p>> : name \in names}
  /\ \A lb \in base.starts : j.iter_to_idx[lb] = D[base.start[lb]]

(* Two walks of the same base never part: a merge of them is in step too.  *)
LEMMA JointTrace ==
  ASSUME NEW base, IsBase(base), NEW names,
         NEW l, IsSpace(l), NEW SolL, NEW Dl, StepsWith(l, SolL, base, names, Dl),
         NEW r, IsSpace(r), NEW SolR, NEW Dr, StepsWith(r, SolR, base, names, Dr),
         NEW D, D = [p \in base.pos |-> <<Dl[p], Dr[p]>>]
  PROVE  InStepJoint(JointSpace(l, r), base, names, D)
<1> DEFINE j == JointSpace(l, r)
<1>1. /\ Dl \in [base.pos -> l.idx] /\ Dr \in [base.pos -> r.idx]
      /\ base.live \subseteq base.pos
      /\ \A p \in base.live : base.at[p] \in Int /\ p + 1 \in base.pos
      /\ \A lb \in base.starts : lb \in Int /\ base.start[lb] \in base.live
  BY DEF StepsWith, IsBase
<1>0. j.idx = l.idx \X r.idx
  BY JointTypes
<1>2. D \in [base.pos -> j.idx]
  BY <1>0, <1>1
<1>3. ASSUME NEW p \in base.live
      PROVE  j.next[D[p]] = D[p + 1] /\ j.idx_to_iter[D[p]] = base.at[p]
  <2> DEFINE i == <<Dl[p], Dr[p]>>
  <2>1. /\ l.idx_to_iter[Dl[p]] = base.at[p] /\ l.next[Dl[p]] = Dl[p + 1]
        /\ r.idx_to_iter[Dr[p]] = base.at[p] /\ r.next[Dr[p]] = Dr[p + 1]
    BY DEF StepsWith
  <2>2. i \in l.idx \X r.idx /\ i[1] = Dl[p] /\ i[2] = Dr[p]
    BY <1>1
  <2>3. D[p] = i /\ D[p + 1] = <<Dl[p + 1], Dr[p + 1]>>
    BY <1>1
  <2> HIDE DEF i
  <2>4. /\ JointSpace(l, r).idx_to_iter[i] = Min2(base.at[p], base.at[p])
        /\ JointSpace(l, r).next[i] = <<l.next[i[1]], r.next[i[2]]>>
    BY <2>1, <2>2, JointStep
  <2>5. Min2(base.at[p], base.at[p]) = base.at[p]
    BY DEF Min2
  <2>6. QED BY <2>1, <2>2, <2>3, <2>4, <2>5
<1>4. ASSUME NEW p \in base.pos
      PROVE  j.vec_iter_idxs[D[p]] \subseteq {<<name, p>> : name \in names}
  <2>1. <<Dl[p], Dr[p]>> \in l.idx \X r.idx
    BY <1>1
  <2>2. j.vec_iter_idxs[D[p]] = l.vec_iter_idxs[Dl[p]] \union r.vec_iter_idxs[Dr[p]]
    BY <2>1 DEF JointSpace
  <2>3. QED BY <2>2 DEF StepsWith
<1>5. ASSUME NEW lb \in base.starts
      PROVE  j.iter_to_idx[lb] = D[base.start[lb]]
  <2>1. j.iter_to_idx[lb] = <<l.iter_to_idx[lb], r.iter_to_idx[lb]>>
    BY <1>1 DEF JointSpace
  <2>2. QED BY <1>1, <2>1 DEF StepsWith
<1>6. QED BY <1>2, <1>3, <1>4, <1>5 DEF InStepJoint

LEMMA InterInStep ==
  ASSUME NEW base, IsBase(base), NEW names,
         NEW l, IsSpace(l), NEW SolL, InStep(l, SolL, base, names),
         NEW r, IsSpace(r), NEW SolR, InStep(r, SolR, base, names)
  PROVE  InStep(InterSpace(l, r), SolL \intersect SolR, base, names)
<1> DEFINE j == InterSpace(l, r)
           Sol == SolL \intersect SolR
<1>1. PICK Dl \in [base.pos -> l.idx] : StepsWith(l, SolL, base, names, Dl)
  BY DEF InStep
<1>2. PICK Dr \in [base.pos -> r.idx] : StepsWith(r, SolR, base, names, Dr)
  BY DEF InStep
<1> DEFINE D == [p \in base.pos |-> <<Dl[p], Dr[p]>>]
<1>3. /\ j.idx = l.idx \X r.idx
      /\ j.next = JointSpace(l, r).next
      /\ j.idx_to_iter = JointSpace(l, r).idx_to_iter
      /\ j.iter_to_idx = JointSpace(l, r).iter_to_idx
      /\ j.vec_iter_idxs = JointSpace(l, r).vec_iter_idxs
      /\ \A i \in l.idx \X r.idx :
           /\ j.is_alive[i] <=> l.is_alive[i[1]] /\ r.is_alive[i[2]]
           /\ j.iter_cond[i] <=> /\ l.iter_cond[i[1]] /\ r.iter_cond[i[2]]
                                 /\ l.idx_to_iter[i[1]] = r.idx_to_iter[i[2]]
  BY DEF InterSpace, Complete, JointSpace
<1> HIDE DEF j
<1>0. D = [p \in base.pos |-> <<Dl[p], Dr[p]>>]
  OBVIOUS
<1> HIDE DEF D
<1>4. /\ D \in [base.pos -> j.idx]
      /\ \A p \in base.live : j.next[D[p]] = D[p + 1] /\ j.idx_to_iter[D[p]] = base.at[p]
      /\ \A p \in base.pos : j.vec_iter_idxs[D[p]] \subseteq {<<name, p>> : name \in names}
      /\ \A lb \in base.starts : j.iter_to_idx[lb] = D[base.start[lb]]
  <2>1. InStepJoint(JointSpace(l, r), base, names, D)
    BY <1>0, <1>1, <1>2, JointTrace
  <2>2. JointSpace(l, r).idx = l.idx \X r.idx
    BY JointTypes
  <2>3. QED BY <1>3, <2>1, <2>2 DEF InStepJoint
<1>5. ASSUME NEW p \in base.pos
      PROVE  /\ j.is_alive[D[p]] <=> l.is_alive[Dl[p]] /\ r.is_alive[Dr[p]]
             /\ j.iter_cond[D[p]] <=> /\ l.iter_cond[Dl[p]] /\ r.iter_cond[Dr[p]]
                                      /\ l.idx_to_iter[Dl[p]] = r.idx_to_iter[Dr[p]]
  <2>1. D[p] = <<Dl[p], Dr[p]>> /\ <<Dl[p], Dr[p]>> \in l.idx \X r.idx
    BY <1>0
  <2>2. QED BY <1>3, <2>1
<1>6. base.live \subseteq base.pos
  BY DEF IsBase
<1>7. ASSUME NEW p \in base.live
      PROVE  /\ j.iter_cond[D[p]] <=> base.at[p] \in Sol
             /\ ~j.is_alive[D[p]] => \A x \in Sol : x < base.at[p]
  <2>1. /\ l.idx_to_iter[Dl[p]] = base.at[p] /\ r.idx_to_iter[Dr[p]] = base.at[p]
        /\ l.iter_cond[Dl[p]] <=> base.at[p] \in SolL
        /\ r.iter_cond[Dr[p]] <=> base.at[p] \in SolR
        /\ ~l.is_alive[Dl[p]] => \A x \in SolL : x < base.at[p]
        /\ ~r.is_alive[Dr[p]] => \A x \in SolR : x < base.at[p]
    BY <1>1, <1>2 DEF StepsWith
  <2>2. QED BY <1>5, <1>6, <2>1
<1>8. /\ \A p \in base.pos : j.is_alive[D[p]] => p \in base.live
      /\ \A x \in Sol : \E p \in base.live : x = base.at[p]
  BY <1>1, <1>5 DEF StepsWith
<1> HIDE DEF Sol
<1>9. StepsWith(j, Sol, base, names, D)
  BY <1>4, <1>7, <1>8 DEF StepsWith
<1>10. QED BY <1>4, <1>9 DEF InStep, j, Sol

LEMMA UnionInStep ==
  ASSUME NEW base, IsBase(base), NEW names,
         NEW l, IsSpace(l), NEW SolL, InStep(l, SolL, base, names),
         NEW r, IsSpace(r), NEW SolR, InStep(r, SolR, base, names)
  PROVE  InStep(UnionSpace(l, r), SolL \union SolR, base, names)
<1> DEFINE j == UnionSpace(l, r)
           Sol == SolL \union SolR
<1>1. PICK Dl \in [base.pos -> l.idx] : StepsWith(l, SolL, base, names, Dl)
  BY DEF InStep
<1>2. PICK Dr \in [base.pos -> r.idx] : StepsWith(r, SolR, base, names, Dr)
  BY DEF InStep
<1> DEFINE D == [p \in base.pos |-> <<Dl[p], Dr[p]>>]
<1>3. /\ j.idx = l.idx \X r.idx
      /\ j.next = JointSpace(l, r).next
      /\ j.idx_to_iter = JointSpace(l, r).idx_to_iter
      /\ j.iter_to_idx = JointSpace(l, r).iter_to_idx
      /\ j.vec_iter_idxs = JointSpace(l, r).vec_iter_idxs
      /\ \A i \in l.idx \X r.idx :
           /\ j.is_alive[i] <=> l.is_alive[i[1]] \/ r.is_alive[i[2]]
           /\ j.iter_cond[i] <=> l.iter_cond[i[1]] \/ r.iter_cond[i[2]]
  BY DEF UnionSpace, Complete, JointSpace
<1> HIDE DEF j
<1>0. D = [p \in base.pos |-> <<Dl[p], Dr[p]>>]
  OBVIOUS
<1> HIDE DEF D
<1>4. /\ D \in [base.pos -> j.idx]
      /\ \A p \in base.live : j.next[D[p]] = D[p + 1] /\ j.idx_to_iter[D[p]] = base.at[p]
      /\ \A p \in base.pos : j.vec_iter_idxs[D[p]] \subseteq {<<name, p>> : name \in names}
      /\ \A lb \in base.starts : j.iter_to_idx[lb] = D[base.start[lb]]
  <2>1. InStepJoint(JointSpace(l, r), base, names, D)
    BY <1>0, <1>1, <1>2, JointTrace
  <2>2. JointSpace(l, r).idx = l.idx \X r.idx
    BY JointTypes
  <2>3. QED BY <1>3, <2>1, <2>2 DEF InStepJoint
<1>5. ASSUME NEW p \in base.pos
      PROVE  /\ j.is_alive[D[p]] <=> l.is_alive[Dl[p]] \/ r.is_alive[Dr[p]]
             /\ j.iter_cond[D[p]] <=> l.iter_cond[Dl[p]] \/ r.iter_cond[Dr[p]]
  <2>1. D[p] = <<Dl[p], Dr[p]>> /\ <<Dl[p], Dr[p]>> \in l.idx \X r.idx
    BY <1>0
  <2>2. QED BY <1>3, <2>1
<1>6. base.live \subseteq base.pos
  BY DEF IsBase
<1>7. ASSUME NEW p \in base.live
      PROVE  /\ j.iter_cond[D[p]] <=> base.at[p] \in Sol
             /\ ~j.is_alive[D[p]] => \A x \in Sol : x < base.at[p]
  <2>1. /\ l.iter_cond[Dl[p]] <=> base.at[p] \in SolL
        /\ r.iter_cond[Dr[p]] <=> base.at[p] \in SolR
        /\ ~l.is_alive[Dl[p]] => \A x \in SolL : x < base.at[p]
        /\ ~r.is_alive[Dr[p]] => \A x \in SolR : x < base.at[p]
    BY <1>1, <1>2 DEF StepsWith
  <2>2. QED BY <1>5, <1>6, <2>1
<1>8. /\ \A p \in base.pos : j.is_alive[D[p]] => p \in base.live
      /\ \A x \in Sol : \E p \in base.live : x = base.at[p]
  BY <1>1, <1>2, <1>5 DEF StepsWith
<1> HIDE DEF Sol
<1>9. StepsWith(j, Sol, base, names, D)
  BY <1>4, <1>7, <1>8 DEF StepsWith
<1>10. QED BY <1>4, <1>9 DEF InStep, j, Sol

-----------------------------------------------------------------------------
(* What any read of a vector yields, inside it or not.                     *)
LEMMA ReadsAreIntegers ==
  ASSUME NEW v, IsVector(v), NEW i \in Int
  PROVE  ReadData(v, i) \in Int
<1>1. ReadCell(v, i) \in Cell
  BY DEF IsVector, ReadCell
<1>2. QED BY <1>1 DEF ReadData, Cell

(* A vector is straight, and shifting, filtering and bounding it below     *)
(* keep it so.                                                             *)
LEMMA VecStraight ==
  ASSUME NEW name, NEW v, IsVector(v), Sorted(v)
  PROVE  Straight(VecSpace(name, v), Keys(v), [name |-> name, vec |-> v, shift |-> 0])
<1> DEFINE s == VecSpace(name, v)
           w == [name |-> name, vec |-> v, shift |-> 0]
<1>1. /\ s.idx = Int
      /\ \A t \in Int : s.iter_to_idx[t] = Locate(v, t)
      /\ \A i \in Int : /\ s.idx_to_iter[i] = ReadData(v, i)
                        /\ s.is_alive[i] <=> i < v.len
                        /\ s.next[i] = i + 1
                        /\ s.iter_cond[i] <=> i < v.len /\ ReadBit(v, i)
  BY DEF VecSpace
<1>2. \A i \in Rows(v) : /\ i \in Int /\ i < v.len
                        /\ ReadData(v, i) = v.cells[i].key /\ v.cells[i].key \in Int
                        /\ ReadBit(v, i) = v.cells[i].valid
  BY DEF IsVector, Rows, ReadData, ReadBit, ReadCell, Cell
<1>3. ASSUME NEW i \in Rows(v)
      PROVE  v.cells[i].valid <=> v.cells[i].key \in Keys(v)
  <2>1. ASSUME NEW j \in Rows(v), v.cells[j].key = v.cells[i].key
        PROVE  j = i
    BY <1>2, <2>1 DEF Sorted, Rows, IsVector
  <2>2. QED BY <2>1 DEF Keys
<1>4. \A x \in Keys(v) : \E i \in Rows(v) : x = v.cells[i].key
  BY DEF Keys
<1>5. w.vec = v /\ w.shift = 0
  OBVIOUS
<1>6. \A t \in Int : t - 0 = t /\ t + 0 = t
  OBVIOUS
<1>7. \A i \in Int : ReadData(v, i) \in Int
  BY ReadsAreIntegers
<1> HIDE DEF s, w
<1>8. QED BY <1>1, <1>2, <1>3, <1>4, <1>5, <1>6, <1>7 DEF Straight, s, w

LEMMA ShiftedStraight ==
  ASSUME NEW s, IsSpace(s), NEW Sol \in SUBSET Int, NEW w, IsVector(w.vec), w.shift \in Int,
         Straight(s, Sol, w), NEW offset \in Int, NEW m,
         m.vec = w.vec, m.shift = w.shift + offset
  PROVE  Straight(ShiftedSpace(s, offset), Moved(Sol, offset), m)
<1> DEFINE z == ShiftedSpace(s, offset)
<1>1. /\ s.idx = Int
      /\ \A t \in Int : s.iter_to_idx[t] = Locate(w.vec, t - w.shift)
      /\ \A i \in Int : /\ s.idx_to_iter[i] = ReadData(w.vec, i) + w.shift
                        /\ s.is_alive[i] <=> i < w.vec.len
                        /\ s.next[i] = i + 1
      /\ \A i \in Rows(w.vec) : s.iter_cond[i] <=> s.idx_to_iter[i] \in Sol
      /\ \A x \in Sol : \E i \in Rows(w.vec) : x = s.idx_to_iter[i]
  BY DEF Straight
<1>2. /\ z.idx = s.idx /\ z.iter_cond = s.iter_cond /\ z.is_alive = s.is_alive /\ z.next = s.next
      /\ \A i \in Int : z.idx_to_iter[i] = s.idx_to_iter[i] + offset
      /\ \A t \in Int : z.iter_to_idx[t] = s.iter_to_idx[t - offset]
  BY <1>1 DEF ShiftedSpace, IsSpace
<1> HIDE DEF z
<1>3. \A i \in Int : s.idx_to_iter[i] \in Int /\ ReadData(w.vec, i) \in Int
  BY <1>1, ReadsAreIntegers DEF IsSpace
<1>4. \A i \in Rows(w.vec) : i \in Int
  BY DEF Rows, IsVector
<1>5. ASSUME NEW t \in Int
      PROVE  z.iter_to_idx[t] = Locate(m.vec, t - m.shift)
  <2>1. t - offset \in Int /\ (t - offset) - w.shift = t - m.shift
    OBVIOUS
  <2>2. QED BY <1>1, <1>2, <2>1
<1>6. ASSUME NEW i \in Int
      PROVE  z.idx_to_iter[i] = ReadData(m.vec, i) + m.shift
  <2>1. z.idx_to_iter[i] = (ReadData(w.vec, i) + w.shift) + offset
    BY <1>1, <1>2
  <2>2. ReadData(w.vec, i) \in Int
    BY <1>3
  <2>3. QED BY <2>1, <2>2
<1>7. ASSUME NEW i \in Rows(m.vec)
      PROVE  z.iter_cond[i] <=> z.idx_to_iter[i] \in Moved(Sol, offset)
  <2>1. i \in Int /\ s.idx_to_iter[i] \in Int
    BY <1>3, <1>4
  <2>2. (s.idx_to_iter[i] + offset) - offset = s.idx_to_iter[i]
    BY <2>1
  <2>3. z.idx_to_iter[i] \in Moved(Sol, offset) <=> s.idx_to_iter[i] \in Sol
    BY <1>2, <2>1, <2>2 DEF Moved
  <2>4. QED BY <1>1, <1>2, <2>3
<1>8. ASSUME NEW x \in Moved(Sol, offset)
      PROVE  \E i \in Rows(m.vec) : x = z.idx_to_iter[i]
  <2>1. x \in Int /\ x - offset \in Sol
    BY DEF Moved
  <2>2. PICK i \in Rows(w.vec) : x - offset = s.idx_to_iter[i]
    BY <1>1, <2>1
  <2>3. x = z.idx_to_iter[i]
    BY <1>2, <1>3, <1>4, <2>1, <2>2
  <2>4. QED BY <2>3
<1>9. QED BY <1>1, <1>2, <1>5, <1>6, <1>7, <1>8 DEF Straight, z

LEMMA FilteredStraight ==
  ASSUME NEW s, IsSpace(s), NEW Sol \in SUBSET Int, NEW w, IsVector(w.vec),
         Straight(s, Sol, w), NEW keep
  PROVE  Straight(FilteredSpace(s, [i \in s.idx |-> s.idx_to_iter[i] \in keep]),
                  Sol \intersect keep, w)
<1> DEFINE f == FilteredSpace(s, [i \in s.idx |-> s.idx_to_iter[i] \in keep])
<1>1. /\ f.idx = s.idx /\ f.iter_to_idx = s.iter_to_idx /\ f.idx_to_iter = s.idx_to_iter
      /\ f.is_alive = s.is_alive /\ f.next = s.next
      /\ \A i \in s.idx : f.iter_cond[i] <=> s.idx_to_iter[i] \in keep /\ s.iter_cond[i]
  BY DEF FilteredSpace, IsSpace
<1> HIDE DEF f
<1>2. \A i \in Rows(w.vec) : i \in Int
  BY DEF Rows, IsVector
<1>3. QED BY <1>1, <1>2 DEF Straight, f

LEMMA LBoundStraight ==
  ASSUME NEW s, NEW Sol \in SUBSET Int, Bounded(s, Sol), NEW w, IsVector(w.vec),
         Straight(s, Sol, w), NEW b \in Int
  PROVE  Straight(LBoundSpace(s, b), AtLeast(Sol, b), w)
<1> DEFINE l == LBoundSpace(s, b)
<1>1. PICK lower \in Int : l.lower_bound = {lower} /\ AtLeast(Sol, lower) = AtLeast(Sol, b)
  BY LBoundSame
<1>2. IsSpace(s)
  BY DEF Bounded
<1>3. /\ l.idx = s.idx /\ l.iter_to_idx = s.iter_to_idx /\ l.idx_to_iter = s.idx_to_iter
      /\ l.is_alive = s.is_alive /\ l.next = s.next
      /\ \A i \in s.idx : l.iter_cond[i] <=> s.idx_to_iter[i] >= lower /\ s.iter_cond[i]
  <2>1. Highest({b} \union s.lower_bound) = {lower}
    BY <1>1, <1>2 DEF LBoundSpace, IsSpace
  <2>2. l.iter_cond = [i \in s.idx |-> (\A c \in {lower} : s.idx_to_iter[i] >= c) /\ s.iter_cond[i]]
    BY <1>2, <2>1 DEF LBoundSpace, IsSpace
  <2>3. QED BY <1>2, <2>2 DEF LBoundSpace, IsSpace
<1> HIDE DEF l
<1>4. \A i \in Rows(w.vec) : i \in Int
  BY DEF Rows, IsVector
<1>5. Straight(l, AtLeast(Sol, lower), w)
  BY <1>3, <1>4 DEF Straight, AtLeast
<1>6. QED BY <1>1, <1>5 DEF l
-----------------------------------------------------------------------------
(* The rows of a vector have finitely many values, and so have those of    *)
(* two sets of walks.                                                      *)
LEMMA VecRowKeys ==
  ASSUME NEW name, NEW v, IsVector(v)
  PROVE  IsFiniteSet(RowKeys(VecWalks(name, v)))
<1> DEFINE keys == {ReadData(v, i) + 0 : i \in Rows(v)}
           f == [i \in Rows(v) |-> ReadData(v, i) + 0]
<1>1. RowKeys(VecWalks(name, v)) = keys
  BY DEF RowKeys, VecWalks
<1>2. IsFiniteSet(Rows(v))
  BY FS_Interval DEF Rows, IsVector
<1>3. f \in Surjection(Rows(v), keys)
  BY DEF Surjection
<1> HIDE DEF f, keys
<1>4. QED BY <1>1, <1>2, <1>3, FS_Surjection

LEMMA ShiftedRowKeys ==
  ASSUME NEW walks, AreWalks(walks), NEW offset \in Int, IsFiniteSet(RowKeys(walks))
  PROVE  /\ IsFiniteSet(RowKeys(ShiftedWalks(walks, offset)))
         /\ \A k \in RowKeys(walks) : k + offset \in RowKeys(ShiftedWalks(walks, offset))
<1> DEFINE keys == RowKeys(walks)
           moved == RowKeys(ShiftedWalks(walks, offset))
           f == [k \in keys |-> k + offset]
<1>1. ASSUME NEW w \in walks, NEW i \in Rows(w.vec)
      PROVE  ReadData(w.vec, i) + (w.shift + offset) = (ReadData(w.vec, i) + w.shift) + offset
  <2>1. ReadData(w.vec, i) \in Int /\ w.shift \in Int
    BY ReadsAreIntegers DEF AreWalks, Rows, IsVector
  <2>2. QED BY <2>1
<1>2. ASSUME NEW k \in keys
      PROVE  k + offset \in moved
  <2>1. PICK w \in walks : \E i \in Rows(w.vec) : k = ReadData(w.vec, i) + w.shift
    BY DEF RowKeys
  <2>2. [name |-> w.name, vec |-> w.vec, shift |-> w.shift + offset] \in ShiftedWalks(walks, offset)
    BY DEF ShiftedWalks
  <2>3. \A i \in Rows(w.vec) : ReadData(w.vec, i) + (w.shift + offset) \in moved
    BY <2>2 DEF RowKeys
  <2>4. QED BY <1>1, <2>1, <2>3
<1>3. ASSUME NEW k \in moved
      PROVE  \E c \in keys : f[c] = k
  <2>1. PICK m \in ShiftedWalks(walks, offset) : \E i \in Rows(m.vec) : k = ReadData(m.vec, i) + m.shift
    BY DEF RowKeys
  <2>2. PICK w \in walks : m.vec = w.vec /\ m.shift = w.shift + offset
    BY DEF ShiftedWalks
  <2>3. \A i \in Rows(w.vec) : ReadData(w.vec, i) + w.shift \in keys
    BY DEF RowKeys
  <2>4. QED BY <1>1, <2>1, <2>2, <2>3
<1>4. f \in Surjection(keys, moved)
  BY <1>2, <1>3 DEF Surjection
<1> HIDE DEF f, keys, moved
<1>5. QED BY <1>2, <1>4, FS_Surjection DEF keys, moved

LEMMA BothRowKeys ==
  ASSUME NEW some, IsFiniteSet(RowKeys(some)), NEW others, IsFiniteSet(RowKeys(others))
  PROVE  /\ RowKeys(some \union others) = RowKeys(some) \union RowKeys(others)
         /\ IsFiniteSet(RowKeys(some \union others))
<1>1. RowKeys(some \union others) = RowKeys(some) \union RowKeys(others)
  BY DEF RowKeys
<1>2. QED BY <1>1, FS_Union

(* A space over vectors is on a value of a row of them, as long as it is   *)
(* inside all of them.                                                     *)
LEMMA VecKeyed ==
  ASSUME NEW name, NEW vec, IsVector(vec[name])
  PROVE  Keyed(VecSpace(name, vec[name]), VecWalks(name, vec[name]), vec)
<1> DEFINE v == vec[name]
<1>1. ASSUME NEW i \in Int, i \in Rows(v)
      PROVE  ReadData(v, i) \in RowKeys(VecWalks(name, v))
  <2>1. ReadData(v, i) + 0 = ReadData(v, i)
    BY ReadsAreIntegers
  <2>2. RowKeys(VecWalks(name, v)) = {ReadData(v, j) + 0 : j \in Rows(v)}
    BY DEF RowKeys, VecWalks
  <2>3. QED BY <1>1, <2>1, <2>2
<1>2. /\ VecSpace(name, v).idx = Int
      /\ \A i \in Int : /\ VecSpace(name, v).idx_to_iter[i] = ReadData(v, i)
                         /\ VecSpace(name, v).vec_iter_idxs[i] = {<<name, i>>}
  BY DEF VecSpace
<1>3. ASSUME NEW i \in Int, \A e \in VecSpace(name, v).vec_iter_idxs[i] : e[2] \in Rows(vec[e[1]])
      PROVE  VecSpace(name, v).idx_to_iter[i] \in RowKeys(VecWalks(name, v))
  <2>1. <<name, i>> \in VecSpace(name, v).vec_iter_idxs[i]
    BY <1>2
  <2>2. i \in Rows(v)
    BY <1>3, <2>1
  <2>3. QED BY <1>1, <1>2, <2>2
<1> HIDE DEF v
<1>4. Keyed(VecSpace(name, v), VecWalks(name, v), vec)
  BY <1>2, <1>3 DEF Keyed
<1>5. QED BY <1>4 DEF v

LEMMA ShiftedKeyed ==
  ASSUME NEW s, IsSpace(s), NEW walks, AreWalks(walks), NEW vec, Keyed(s, walks, vec),
         NEW offset \in Int, IsFiniteSet(RowKeys(walks))
  PROVE  Keyed(ShiftedSpace(s, offset), ShiftedWalks(walks, offset), vec)
<1> DEFINE h == ShiftedSpace(s, offset)
<1>1. /\ h.idx = s.idx /\ h.vec_iter_idxs = s.vec_iter_idxs
      /\ \A i \in s.idx : h.idx_to_iter[i] = s.idx_to_iter[i] + offset
  BY DEF ShiftedSpace, IsSpace
<1> HIDE DEF h
<1>2. QED BY <1>1, ShiftedRowKeys DEF Keyed, h

LEMMA NarrowKeyed ==
  ASSUME NEW s, IsSpace(s), NEW walks, NEW vec, Keyed(s, walks, vec), NEW cond, NEW b
  PROVE  /\ Keyed(FilteredSpace(s, cond), walks, vec)
         /\ Keyed(LBoundSpace(s, b), walks, vec)
         /\ Keyed(UBoundSpace(s, b), walks, vec)
<1>1. \A n \in {FilteredSpace(s, cond), LBoundSpace(s, b), UBoundSpace(s, b)} :
        n.idx = s.idx /\ n.vec_iter_idxs = s.vec_iter_idxs /\ n.idx_to_iter = s.idx_to_iter
  BY DEF FilteredSpace, LBoundSpace, UBoundSpace, IsSpace
<1>2. QED BY <1>1 DEF Keyed

LEMMA JointKeyed ==
  ASSUME NEW l, IsSpace(l), NEW r, IsSpace(r), NEW vec,
         NEW some, Keyed(l, some, vec), NEW others, Keyed(r, others, vec)
  PROVE  /\ Keyed(InterSpace(l, r), some \union others, vec)
         /\ Keyed(UnionSpace(l, r), some \union others, vec)
<1>1. ASSUME NEW i \in l.idx \X r.idx,
             \A e \in JointSpace(l, r).vec_iter_idxs[i] : e[2] \in Rows(vec[e[1]])
      PROVE  JointSpace(l, r).idx_to_iter[i] \in RowKeys(some \union others)
  <2>1. i[1] \in l.idx /\ i[2] \in r.idx
    OBVIOUS
  <2>2. JointSpace(l, r).vec_iter_idxs[i] = l.vec_iter_idxs[i[1]] \union r.vec_iter_idxs[i[2]]
    BY DEF JointSpace
  <2>3. l.idx_to_iter[i[1]] \in RowKeys(some) /\ r.idx_to_iter[i[2]] \in RowKeys(others)
    BY <1>1, <2>1, <2>2 DEF Keyed
  <2>4. JointSpace(l, r).idx_to_iter[i] \in {l.idx_to_iter[i[1]], r.idx_to_iter[i[2]]}
    BY JointStep DEF Min2
  <2>5. RowKeys(some) \union RowKeys(others) \subseteq RowKeys(some \union others)
    BY DEF RowKeys
  <2>6. QED BY <2>3, <2>4, <2>5
<1>2. \A j \in {InterSpace(l, r), UnionSpace(l, r)} :
        /\ j.idx = l.idx \X r.idx
        /\ j.vec_iter_idxs = JointSpace(l, r).vec_iter_idxs
        /\ j.idx_to_iter = JointSpace(l, r).idx_to_iter
  BY JointTypes DEF InterSpace, UnionSpace, Complete
<1>3. QED BY <1>1, <1>2 DEF Keyed
=============================================================================
