----------------------------- MODULE SpaceLaws ------------------------------
(***************************************************************************)
(* What a loop needs of an iteration space to list a set of values.        *)
(*                                                                         *)
(* Sol is the set of values the space stands for and G the indices the     *)
(* loop can reach; both are for the laws only, the code has neither.       *)
(***************************************************************************)
EXTENDS IterSpace

(* A bound, or nullptr.                                                    *)
Optional == {{}} \union {{b} : b \in Int}

(* A space is the record IterSpace says it is.                             *)
IsSpace(s) ==
  /\ s = [idx           |-> s.idx,
          lower_bound   |-> s.lower_bound,
          upper_bound   |-> s.upper_bound,
          iter_cond     |-> s.iter_cond,
          idx_to_iter   |-> s.idx_to_iter,
          iter_to_idx   |-> s.iter_to_idx,
          is_alive      |-> s.is_alive,
          next          |-> s.next,
          vec_iter_idxs |-> s.vec_iter_idxs]
  /\ s.lower_bound \in Optional
  /\ s.upper_bound \in Optional
  /\ s.iter_cond \in [s.idx -> BOOLEAN]
  /\ s.idx_to_iter \in [s.idx -> Int]
  /\ s.iter_to_idx \in [Int -> s.idx]
  /\ s.is_alive \in [s.idx -> BOOLEAN]
  /\ s.next \in [s.idx -> s.idx]

(* The values a bound leaves of a set, and a set moved by an offset.       *)
AtLeast(S, b) == {x \in S : x >= b}
AtMost(S, b) == {x \in S : x <= b}
Moved(S, offset) == {x \in Int : x - offset \in S}

(* A step from a live index goes to a reachable one, further up, and over  *)
(* no value of the space.                                                  *)
StepLaw(s, G, Sol) ==
  \A i \in G : s.is_alive[i] =>
    /\ s.next[i] \in G
    /\ s.is_alive[s.next[i]] => s.idx_to_iter[i] < s.idx_to_iter[s.next[i]]
    /\ \A x \in Sol : x > s.idx_to_iter[i] =>
         s.is_alive[s.next[i]] /\ x >= s.idx_to_iter[s.next[i]]

(* iter_cond says whether a live index is on a value of the space.         *)
CondLaw(s, G, Sol) ==
  \A i \in G : s.is_alive[i] => (s.iter_cond[i] <=> s.idx_to_iter[i] \in Sol)

Laws(s, G, Sol) ==
  /\ G \in SUBSET s.idx
  /\ Sol \in SUBSET Int
  /\ StepLaw(s, G, Sol)
  /\ CondLaw(s, G, Sol)

(* A loop that starts at iter_to_idx[lb] stands on lb, live, and has every *)
(* value of the space that is not below lb ahead of it.                    *)
StartLaw(s, G, lb) ==
  LET i == s.iter_to_idx[lb]
  IN  i \in G /\ s.is_alive[i] /\ s.idx_to_iter[i] = lb

(* Or it is over at once, and rightly so.                                  *)
DeadStart(s, G, Sol, lb) ==
  LET i == s.iter_to_idx[lb]
  IN  i \in G /\ ~s.is_alive[i] /\ \A x \in Sol : x < lb

(* No value of the space is beyond its bounds.                             *)
LowerLaw(s, Sol) == \A lb \in s.lower_bound : \A x \in Sol : x >= lb
UpperLaw(s, Sol) == \A ub \in s.upper_bound : \A x \in Sol : x <= ub

Lawful(s, Sol) ==
  /\ IsSpace(s)
  /\ \E G \in SUBSET s.idx :
       /\ Laws(s, G, Sol)
       /\ \A lb \in s.lower_bound : StartLaw(s, G, lb) \/ DeadStart(s, G, Sol, lb)
  /\ LowerLaw(s, Sol)

-----------------------------------------------------------------------------
(* A walk: the vector a space goes over, its name, and the shift between   *)
(* its keys and the iterator.  The row e of it is the one an Element at    *)
(* the iterator t means: the first row that is not below t, and the row of *)
(* t where the vector has one.                                             *)
IsRowAt(e, walk, t) ==
  LET x == t - walk.shift
  IN  /\ e[2] \in Rows(walk.vec)
      /\ ReadData(walk.vec, e[2]) >= x
      /\ x \in Keys(walk.vec) => ReadData(walk.vec, e[2]) = x

(* Alive or not, an index of a space is within its vectors or on the cell  *)
(* behind one, which is_alive may read.                                    *)
EdgeLaw(s, G, walks) ==
  \A i \in G : \A e \in s.vec_iter_idxs[i] :
    \E w \in walks : e[1] = w.name /\ e[2] \in 0 .. w.vec.len

(* A live one stands on rows; where it counts, on the rows of its value.   *)
ReadLaw(s, G, walks) ==
  /\ EdgeLaw(s, G, walks)
  /\ \A i \in G : s.is_alive[i] =>
       \A e \in s.vec_iter_idxs[i] :
         /\ \E w \in walks : e[1] = w.name /\ e[2] \in Rows(w.vec)
         /\ s.iter_cond[i] => \A w \in walks : e[1] = w.name => IsRowAt(e, w, s.idx_to_iter[i])

-----------------------------------------------------------------------------
(* Two walks are level when neither has passed a value the other has yet   *)
(* to reach: between their two iterators lies no value of the one ahead.   *)
Level(l, r, SolL, SolR, i) ==
  LET li == l.idx_to_iter[i[1]]
      ri == r.idx_to_iter[i[2]]
  IN  /\ \A x \in SolL : ~(ri <= x /\ x < li)
      /\ \A x \in SolR : ~(li <= x /\ x < ri)

(* The indices a merge of l and r can reach, for an intersection and for a *)
(* union: as long as both are alive they are level, and in a union no one  *)
(* outlives the other.                                                     *)
InterReach(l, r, GL, GR, SolL, SolR) ==
  {i \in GL \X GR :
     l.is_alive[i[1]] /\ r.is_alive[i[2]] => Level(l, r, SolL, SolR, i)}

UnionReach(l, r, GL, GR, SolL, SolR) ==
  {i \in GL \X GR :
     /\ l.is_alive[i[1]] <=> r.is_alive[i[2]]
     /\ l.is_alive[i[1]] /\ r.is_alive[i[2]] => Level(l, r, SolL, SolR, i)}

(* A side that may be merged into a union with another: each live index    *)
(* counts, none is beyond `last`, and the walk dies in its step from last. *)
UnionSide(s, G, last) ==
  \A i \in G : s.is_alive[i] =>
    /\ s.iter_cond[i]
    /\ s.idx_to_iter[i] <= last
    /\ s.is_alive[s.next[i]] <=> s.idx_to_iter[i] < last
-----------------------------------------------------------------------------
(* The laws together, for a space over given walks: a loop may start at    *)
(* every value all the walks locate, and each name says which walk it is   *)
(* of.                                                                     *)
StartsAt(walks, lb) == \A w \in walks : Located(w.vec, lb - w.shift)
OneEach(walks) == \A w, x \in walks : w.name = x.name => w = x

Walked(s, G, Sol, walks) ==
  /\ Laws(s, G, Sol)
  /\ \A lb \in Int : StartsAt(walks, lb) => StartLaw(s, G, lb) \/ DeadStart(s, G, Sol, lb)
  /\ OneEach(walks) => ReadLaw(s, G, walks)

Bounded(s, Sol) == IsSpace(s) /\ LowerLaw(s, Sol) /\ UpperLaw(s, Sol)

Sound(s, Sol, walks) ==
  /\ Bounded(s, Sol)
  /\ \E G \in SUBSET s.idx : Walked(s, G, Sol, walks)

(* A side of a union whose every live index counts: `last` is where it     *)
(* ends and it stands for every key of its walks.                          *)
Side(s, G, Sol, walks, last) ==
  /\ Laws(s, G, Sol)
  /\ UnionSide(s, G, last)
  /\ \A lb \in Int : StartsAt(walks, lb) => StartLaw(s, G, lb)
  /\ OneEach(walks) => ReadLaw(s, G, walks)

PlainSide(s, Sol, walks, last) ==
  /\ Bounded(s, Sol)
  /\ \A w \in walks : \A k \in Keys(w.vec) : k + w.shift \in Sol
  /\ \E G \in SUBSET s.idx : Side(s, G, Sol, walks, last)

-----------------------------------------------------------------------------
(* A base: its positions pos, of which those in live are rows; at[p] is    *)
(* the value of row p, and a loop that starts at lb in starts begins in    *)
(* row start[lb].                                                          *)
IsBase(base) ==
  /\ base.pos \in SUBSET Int
  /\ base.live \in SUBSET base.pos
  /\ base.at \in [base.pos -> Int]
  /\ base.starts \in SUBSET Int
  /\ \A p \in base.live : p + 1 \in base.pos
  /\ \A o, p \in base.live : o < p => base.at[o] < base.at[p] /\ o + 1 \in base.live
  /\ \A lb \in base.starts : base.start[lb] \in base.live /\ base.at[base.start[lb]] = lb

(* A space that goes in step with a base: D[p] is where it is while the    *)
(* base is in p, and names are the vectors it reads there.                 *)
StepsWith(s, Sol, base, names, D) ==
  /\ D \in [base.pos -> s.idx]
  /\ \A p \in base.live :
       /\ s.next[D[p]] = D[p + 1]
       /\ s.idx_to_iter[D[p]] = base.at[p]
       /\ s.iter_cond[D[p]] <=> base.at[p] \in Sol
       /\ ~s.is_alive[D[p]] => \A x \in Sol : x < base.at[p]
  /\ \A p \in base.pos :
       /\ s.is_alive[D[p]] => p \in base.live
       /\ s.vec_iter_idxs[D[p]] \subseteq {<<name, p>> : name \in names}
  /\ \A lb \in base.starts : s.iter_to_idx[lb] = D[base.start[lb]]
  /\ \A x \in Sol : \E p \in base.live : x = base.at[p]

Trace(base, D) == {D[p] : p \in base.pos}

InStep(s, Sol, base, names) ==
  \E D \in [base.pos -> s.idx] : StepsWith(s, Sol, base, names, D)

(* The base of no vector, which is in row t when the iterator is t; and    *)
(* the base of one walk.                                                   *)
FreeBase ==
  [pos |-> Int, live |-> Int, at |-> [p \in Int |-> p],
   starts |-> Int, start |-> [lb \in Int |-> lb]]

WalkBase(w) ==
  LET starts == {lb \in Int : Located(w.vec, lb - w.shift)}
  IN  [pos    |-> 0 .. w.vec.len,
       live   |-> Rows(w.vec),
       at     |-> [p \in 0 .. w.vec.len |-> ReadData(w.vec, p) + w.shift],
       starts |-> starts,
       start  |-> [lb \in starts |-> Locate(w.vec, lb - w.shift)]]

-----------------------------------------------------------------------------
(* The values at the rows of some walks, null rows included; and a space   *)
(* that is on one of them wherever it stands on rows of its vectors.       *)
RowKeys(walks) == UNION {{ReadData(w.vec, i) + w.shift : i \in Rows(w.vec)} : w \in walks}

Keyed(s, walks, vec) ==
  \A i \in s.idx : (\A e \in s.vec_iter_idxs[i] : e[2] \in Rows(vec[e[1]]))
                     => s.idx_to_iter[i] \in RowKeys(walks)

-----------------------------------------------------------------------------
(* A space that goes over the rows of one walk w and nothing else: it may  *)
(* be filtered and bounded below, and starts wherever Locate says, which   *)
(* may be before the first row.                                            *)
Straight(s, Sol, w) ==
  /\ s.idx = Int
  /\ \A t \in Int : s.iter_to_idx[t] = Locate(w.vec, t - w.shift)
  /\ \A i \in Int : /\ s.idx_to_iter[i] = ReadData(w.vec, i) + w.shift
                    /\ s.is_alive[i] <=> i < w.vec.len
                    /\ s.next[i] = i + 1
  /\ \A i \in Rows(w.vec) : s.iter_cond[i] <=> s.idx_to_iter[i] \in Sol
  /\ \A x \in Sol : \E i \in Rows(w.vec) : x = s.idx_to_iter[i]
=============================================================================
