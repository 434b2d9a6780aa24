------------------------- MODULE GroupReduceProofs --------------------------
(***************************************************************************)
(* A reduction by group sees exactly its group's rows: whatever the runs,  *)
(* the rows and the nulls among them, in both code paths.                  *)
(***************************************************************************)
EXTENDS GroupReduce, LoopGenProofs, SpaceLawsProofs

(* Every query is a reduction over the groups of such a vector.            *)
AllGrouped ==
  \A query \in Queries : /\ IsGrouped(query)
                         /\ SpaceOf(query) = GroupSpace(query)
                         /\ AnswerOf(query) = GroupAnswer(query)

-----------------------------------------------------------------------------
(* The inductive invariant.                                                *)

(* A state holds, in order, the rows from a up to b that are not null.     *)
Sifted(s, a, b) ==
  /\ s \in Seq(Int)
  /\ Ascending(s)
  /\ Seen(s) = {row \in a .. b - 1 : q.rows[row]}

(* Where the body of the outer loop stands.                                *)
Standing ==
  /\ phase \in {"idle", "reducing", "reduced"}
  /\ idx \in 0 .. q.v.len
  /\ phase # "idle" => pc = "body" /\ (vectorize \/ space.iter_cond[idx])

(* What the reduction under way has seen of its run.                       *)
UnderWay ==
  /\ phase = "reducing" => red_idx \in Start .. End /\ Sifted(state, Start, red_idx)
  /\ phase = "reduced" => Sifted(state, Start, End)

(* What has been written is, for the run whose key the row has, all of it. *)
Whole(i, k) == out_vec[i].iter = q.v.cells[k].key /\ Sifted(sums[i], RunEnd(k - 1), RunEnd(k))

Written ==
  /\ DOMAIN sums = DOMAIN out_vec
  /\ \A i \in DOMAIN sums : \E k \in 0 .. q.v.len - 1 : Whole(i, k)

GInv ==
  /\ Inv
  /\ Standing
  /\ UnderWay
  /\ Written

-----------------------------------------------------------------------------
(* Facts about grouped vectors.                                            *)

(* The space of a grouped vector stands for its keys.                      *)
LEMMA GroupLawful ==
  ASSUME AllGrouped
  PROVE  AllLawful
<1>1. ASSUME NEW query \in Queries
      PROVE  Lawful(SpaceOf(query), AnswerOf(query))
  <2> DEFINE v == query.v
             vs == VecSpace("v", v)
             G == 0 .. v.len
  <2>1. IsVector(v) /\ Sorted(v) /\ v.len - 1 >= 0 /\ Located(v, v.cells[0].key)
    BY <1>1 DEF AllGrouped, IsGrouped
  <2>2. SpaceOf(query) = vs /\ AnswerOf(query) = Keys(v)
    BY <1>1 DEF AllGrouped, GroupSpace, GroupAnswer
  <2>3. vs.lower_bound = {v.cells[0].key} /\ v.cells[0].key \in Int /\ vs.idx = Int
    BY <2>1 DEF VecSpace, ReadData, ReadCell, IsVector, Cell
  <2>4. /\ IsSpace(vs) /\ Laws(vs, G, Keys(v)) /\ LowerLaw(vs, Keys(v))
        /\ \A lb \in Int : Located(v, lb) => StartLaw(vs, G, lb)
    BY <2>1, VecLaws
  <2>5. G \in SUBSET vs.idx
    BY <2>4 DEF Laws
  <2> HIDE DEF v, vs, G
  <2>6. QED BY <2>1, <2>2, <2>3, <2>4, <2>5 DEF Lawful
<1>2. QED BY <1>1 DEF AllLawful

(* Runs are not empty and follow each other; the last ends with the rows.  *)
LEMMA RunFacts ==
  ASSUME AllGrouped, q \in Queries
  PROVE  /\ q.v.len \in Nat \ {0}
         /\ \A k \in -1 .. q.v.len - 1 : RunEnd(k) \in Nat
         /\ RunEnd(-1) = 0
         /\ \A j, k \in -1 .. q.v.len - 1 : j < k => RunEnd(j) < RunEnd(k)
         /\ DOMAIN q.rows = 0 .. RunEnd(q.v.len - 1) - 1
         /\ \A row \in DOMAIN q.rows : q.rows[row] \in BOOLEAN
         /\ DOMAIN q.run_ends = 0 .. q.v.len - 1
<1>1. /\ IsVector(q.v) /\ q.v.len - 1 >= 0
      /\ q.run_ends \in [0 .. q.v.len - 1 -> Nat \ {0}]
      /\ \A j, k \in 0 .. q.v.len - 1 : j < k => q.run_ends[j] < q.run_ends[k]
      /\ q.rows \in [0 .. q.run_ends[q.v.len - 1] - 1 -> BOOLEAN]
  BY DEF AllGrouped, IsGrouped
<1>2. q.v.len \in Nat \ {0}
  BY <1>1 DEF IsVector
<1>3. /\ RunEnd(-1) = 0
      /\ \A k \in 0 .. q.v.len - 1 : RunEnd(k) = q.run_ends[k] /\ RunEnd(k) \in Nat \ {0}
  BY <1>1, <1>2 DEF RunEnd
<1>4. \A k \in -1 .. q.v.len - 1 : k = -1 \/ k \in 0 .. q.v.len - 1
  BY <1>2
<1>5. ASSUME NEW j \in -1 .. q.v.len - 1, NEW k \in -1 .. q.v.len - 1, j < k
      PROVE  RunEnd(j) < RunEnd(k)
  <2>1. k \in 0 .. q.v.len - 1 /\ RunEnd(k) = q.run_ends[k] /\ RunEnd(k) \in Nat \ {0}
    BY <1>2, <1>3, <1>5
  <2>2. CASE j = -1
    BY <1>3, <2>1, <2>2
  <2>3. CASE j \in 0 .. q.v.len - 1
    BY <1>1, <1>3, <1>5, <2>1, <2>3
  <2>4. QED BY <1>4, <2>2, <2>3
<1>6. /\ DOMAIN q.rows = 0 .. RunEnd(q.v.len - 1) - 1
      /\ \A row \in DOMAIN q.rows : q.rows[row] \in BOOLEAN
  <2>1. q.v.len - 1 \in 0 .. q.v.len - 1
    BY <1>2
  <2>2. RunEnd(q.v.len - 1) = q.run_ends[q.v.len - 1]
    BY <1>3, <2>1
  <2>3. QED BY <1>1, <2>2
<1>7. \A k \in -1 .. q.v.len - 1 : RunEnd(k) \in Nat
  BY <1>3, <1>4
<1>8. QED BY <1>1, <1>2, <1>3, <1>5, <1>6, <1>7

(* The space of the outer loop: position k is run k.                       *)
LEMMA SpaceFacts ==
  ASSUME AllGrouped, q \in Queries
  PROVE  /\ \A k \in 0 .. q.v.len : /\ space.is_alive[k] <=> k < q.v.len
                                    /\ space.next[k] = k + 1
         /\ \A k \in 0 .. q.v.len - 1 : /\ space.idx_to_iter[k] = q.v.cells[k].key
                                        /\ q.v.cells[k].key \in Int
<1>1. space = VecSpace("v", q.v) /\ q.v.len \in Nat /\ IsVector(q.v)
  BY RunFacts DEF space, AllGrouped, GroupSpace, IsGrouped
<1>2. ASSUME NEW k \in 0 .. q.v.len
      PROVE  (space.is_alive[k] <=> k < q.v.len) /\ space.next[k] = k + 1
  <2>1. /\ space.is_alive = [i \in Int |-> i < q.v.len]
        /\ space.next = [i \in Int |-> i + 1]
    BY <1>1 DEF VecSpace
  <2>2. k \in Int
    BY <1>1
  <2>3. (space.is_alive[k] <=> k < q.v.len)
    BY <2>1, <2>2, Zenon
  <2>4. QED BY <2>1, <2>2, <2>3
<1>3. ASSUME NEW k \in 0 .. q.v.len - 1
      PROVE  space.idx_to_iter[k] = q.v.cells[k].key /\ q.v.cells[k].key \in Int
  <2>1. k \in Int /\ ~(k < 0) /\ k < q.v.len /\ q.v.cells[k] \in Cell
    BY <1>1 DEF IsVector
  <2>2. space.idx_to_iter[k] = ReadData(q.v, k)
    BY <1>1, <2>1 DEF VecSpace
  <2>3. QED BY <2>1, <2>2 DEF ReadData, ReadCell, Cell
<1>4. QED BY <1>2, <1>3

(* Keys rise with the runs, so a key has one run.                          *)
LEMMA KeysRise ==
  ASSUME AllGrouped, q \in Queries
  PROVE  \A j, k \in 0 .. q.v.len - 1 : j < k <=> q.v.cells[j].key < q.v.cells[k].key
<1>1. /\ q.v.len \in Nat
      /\ \A j, k \in 0 .. q.v.len - 1 : j < k => q.v.cells[j].key < q.v.cells[k].key
      /\ \A k \in 0 .. q.v.len - 1 : q.v.cells[k].key \in Int
  BY RunFacts, SpaceFacts DEF AllGrouped, IsGrouped, Sorted, Rows
<1>2. QED BY <1>1

(* The first turn of the loop is at the first run.                         *)
LEMMA FirstRun ==
  ASSUME AllGrouped, Init
  PROVE  q \in Queries /\ idx = 0
<1>1. q \in Queries
  BY DEF Init
<1>2. /\ IsVector(q.v) /\ Sorted(q.v) /\ Located(q.v, q.v.cells[0].key)
      /\ space = VecSpace("v", q.v) /\ q.v.len \in Nat \ {0}
  BY <1>1, RunFacts DEF space, AllGrouped, GroupSpace, IsGrouped
<1> DEFINE t == q.v.cells[0].key
           i == Locate(q.v, t)
<1>3. t \in Int /\ space.lower_bound = {t} /\ space.iter_to_idx[t] = i
  <2>1. 0 \in 0 .. q.v.len - 1 /\ q.v.cells[0] \in Cell /\ 0 < q.v.len
    BY <1>2 DEF IsVector
  <2>2. t \in Int
    BY <2>1 DEF Cell
  <2>3. ReadData(q.v, 0) = t
    BY <2>1 DEF ReadData, ReadCell
  <2>4. space.lower_bound = {t}
    BY <1>2, <2>3 DEF VecSpace
  <2>5. space.iter_to_idx[t] = i
    BY <1>2, <2>2 DEF VecSpace
  <2>6. QED BY <2>2, <2>4, <2>5
<1>4. i \in Rows(q.v) /\ ReadData(q.v, i) = t
  BY <1>2, <1>3, LocateRow
<1>5. idx = i
  BY <1>3 DEF Init
<1> HIDE DEF i
<1>6. i \in 0 .. q.v.len - 1 /\ q.v.cells[i].key = t
  BY <1>2, <1>4 DEF Rows, ReadData, ReadCell
<1>7. i = 0
  BY <1>1, <1>2, <1>6, KeysRise
<1>8. QED BY <1>1, <1>5, <1>7

(* One more row for a reduction, if it is not null.                        *)
LEMMA SiftMore ==
  ASSUME NEW s, NEW a \in Int, NEW b \in Int, a <= b, Sifted(s, a, b), q.rows[b] \in BOOLEAN
  PROVE  Sifted(IF q.rows[b] THEN Append(s, b) ELSE s, a, b + 1)
<1>1. /\ s \in Seq(Int) /\ Len(s) \in Nat /\ DOMAIN s = 1 .. Len(s)
      /\ \A i, j \in DOMAIN s : i < j => s[i] < s[j]
      /\ {s[i] : i \in DOMAIN s} = {row \in a .. b - 1 : q.rows[row]}
  BY DEF Sifted, Ascending, Seen
<1>2. CASE ~q.rows[b]
  <2>1. {row \in a .. b : q.rows[row]} = {row \in a .. b - 1 : q.rows[row]}
    BY <1>2
  <2>2. b + 1 - 1 = b
    OBVIOUS
  <2>3. QED BY <1>1, <1>2, <2>1, <2>2 DEF Sifted, Ascending, Seen
<1>3. CASE q.rows[b]
  <2> DEFINE u == Append(s, b)
             n == Len(s) + 1
  <2>1. /\ u \in Seq(Int) /\ DOMAIN u = 1 .. n
        /\ \A i \in 1 .. n - 1 : u[i] = s[i]
        /\ u[n] = b
    BY <1>1
  <2>2. \A i \in DOMAIN s : s[i] \in a .. b - 1
    BY <1>1
  <2> HIDE DEF u
  <2>3. Ascending(u)
    <3>1. ASSUME NEW i \in 1 .. n, NEW j \in 1 .. n, i < j
          PROVE  u[i] < u[j]
      <4>1. i \in 1 .. n - 1 /\ u[i] = s[i] /\ s[i] \in a .. b - 1
        BY <1>1, <2>1, <2>2, <3>1
      <4>2. CASE j = n
        BY <2>1, <4>1, <4>2
      <4>3. CASE j # n
        <5>1. j \in 1 .. n - 1
          BY <1>1, <4>3
        <5>2. u[j] = s[j] /\ i \in DOMAIN s /\ j \in DOMAIN s
          BY <1>1, <2>1, <4>1, <5>1
        <5>3. QED BY <1>1, <3>1, <4>1, <5>2
      <4>4. QED BY <4>2, <4>3
    <3>2. QED BY <2>1, <3>1 DEF Ascending
  <2>4. Seen(u) = {row \in a .. b : q.rows[row]}
    <3>1. Seen(u) = {s[i] : i \in DOMAIN s} \union {b}
      <4>1. 1 .. n = DOMAIN s \union {n}
        BY <1>1
      <4>2. \A i \in DOMAIN s : u[i] = s[i]
        BY <1>1, <2>1
      <4>3. QED BY <2>1, <4>1, <4>2 DEF Seen
    <3>2. {row \in a .. b - 1 : q.rows[row]} \union {b} = {row \in a .. b : q.rows[row]}
      BY <1>3
    <3>3. QED BY <1>1, <3>1, <3>2
  <2>5. b + 1 - 1 = b
    OBVIOUS
  <2>6. QED BY <1>3, <2>1, <2>3, <2>4, <2>5 DEF Sifted, u
<1>4. QED BY <1>2, <1>3

-----------------------------------------------------------------------------
(* The initial state and each step.                                        *)

LEMMA GroupInit ==
  ASSUME AllGrouped, GInit
  PROVE  GInv
<1>1. Inv
  BY GroupLawful, InitInv DEF GInit
<1>2. q \in Queries /\ idx = 0 /\ q.v.len \in Nat \ {0}
  BY FirstRun, RunFacts DEF GInit
<1>3. Standing
  BY <1>2 DEF GInit, Standing
<1>4. UnderWay
  BY DEF GInit, UnderWay
<1>5. Written
  BY DEF GInit, Init, Written, Empty
<1>6. QED BY <1>1, <1>3, <1>4, <1>5 DEF GInv

(* What has been said of a state of the same query stays true.             *)
LEMMA SameGroups ==
  ASSUME UNCHANGED <<q, sums, out_vec>>
  PROVE  Written' = Written
BY DEF Written, Whole, RunEnd, Sifted

(* Sifting is of the query only.                                           *)
LEMMA SameSift ==
  ASSUME UNCHANGED q
  PROVE  \A k : RunEnd(k)' = RunEnd(k)
BY DEF RunEnd

(* Where the body stands, the current index is a run's.                    *)
LEMMA AtRun ==
  ASSUME AllGrouped, GInv, pc \in {"body", "incr"}
  PROVE  /\ q \in Queries /\ idx \in 0 .. q.v.len - 1
         /\ Start = RunEnd(idx - 1) /\ End = RunEnd(idx)
         /\ Start \in Nat /\ End \in Nat /\ Start < End
         /\ End <= RunEnd(q.v.len - 1)
<1>1. q \in Queries /\ space.is_alive[idx] /\ idx \in 0 .. q.v.len
  BY DEF GInv, Inv, Books, TypeOK, Progress, Alive, Standing
<1>2. q.v.len \in Nat \ {0} /\ idx \in 0 .. q.v.len - 1
  BY <1>1, SpaceFacts, RunFacts
<1>3. /\ idx - 1 \in -1 .. q.v.len - 1 /\ idx \in -1 .. q.v.len - 1
      /\ q.v.len - 1 \in -1 .. q.v.len - 1 /\ idx - 1 < idx
      /\ idx = q.v.len - 1 \/ idx < q.v.len - 1
  BY <1>2
<1>4. /\ RunEnd(idx - 1) \in Nat /\ RunEnd(idx) \in Nat /\ RunEnd(q.v.len - 1) \in Nat
      /\ RunEnd(idx - 1) < RunEnd(idx)
      /\ RunEnd(idx) = RunEnd(q.v.len - 1) \/ RunEnd(idx) < RunEnd(q.v.len - 1)
  BY <1>1, <1>3, RunFacts
<1>5. QED BY <1>1, <1>2, <1>4 DEF Start, End

(* A reduction starts with nothing seen of its run.                        *)
LEMMA BeginInv ==
  ASSUME AllGrouped, GInv, Begin
  PROVE  GInv'
<1>1. /\ pc = "body" /\ phase' = "reducing" /\ red_idx' = Start /\ state' = <<>>
      /\ vectorize \/ space.iter_cond[idx]
      /\ UNCHANGED <<vars, sums>>
  BY DEF Begin
<1>2. Inv'
  BY <1>1, GroupLawful, StepInv DEF GInv
<1>3. UNCHANGED <<q, pc, idx, vectorize, out_vec, sums, space>>
  BY <1>1 DEF vars, space
<1>4. Standing'
  BY <1>1, <1>3 DEF GInv, Standing
<1>5. Written'
  BY <1>3, SameGroups DEF GInv
<1>6. Start \in Nat /\ End \in Nat /\ Start < End /\ Start' = Start /\ End' = End
  BY <1>1, <1>3, AtRun, SameSift DEF Start, End
<1>7. Sifted(<<>>, Start, Start)
  BY <1>6 DEF Sifted, Ascending, Seen
<1>8. UnderWay'
  <2>1. Sifted(state, Start, red_idx)'
    BY <1>1, <1>3, <1>6, <1>7 DEF Sifted
  <2>2. red_idx' \in Start' .. End'
    BY <1>1, <1>6
  <2>3. QED BY <1>1, <2>1, <2>2 DEF UnderWay
<1>9. QED BY <1>2, <1>4, <1>5, <1>8 DEF GInv

(* One row of the run.                                                     *)
LEMMA AcceptInv ==
  ASSUME AllGrouped, GInv, Accept
  PROVE  GInv'
<1>1. /\ phase = "reducing" /\ red_idx < End
      /\ state' = IF q.rows[red_idx] THEN Append(state, red_idx) ELSE state
      /\ red_idx' = red_idx + 1
      /\ UNCHANGED <<vars, phase, sums>>
  BY DEF Accept, RowValid, Accumulate
<1>2. Inv'
  BY <1>1, GroupLawful, StepInv DEF GInv
<1>3. UNCHANGED <<q, pc, idx, vectorize, out_vec, sums, space>>
  BY <1>1 DEF vars, space
<1>4. Standing' /\ Written' /\ pc = "body"
  BY <1>1, <1>3, SameGroups DEF GInv, Standing
<1>5. /\ q \in Queries /\ Start \in Nat /\ End \in Nat /\ End <= RunEnd(q.v.len - 1)
      /\ Start' = Start /\ End' = End
  BY <1>3, <1>4, AtRun, SameSift DEF Start, End
<1>6. red_idx \in Start .. End /\ Sifted(state, Start, red_idx)
  BY <1>1 DEF GInv, UnderWay
<1>7. red_idx \in Int /\ Start <= red_idx /\ q.rows[red_idx] \in BOOLEAN
  <2>1. RunEnd(q.v.len - 1) \in Nat
    <3>1. q.v.len - 1 \in -1 .. q.v.len - 1
      BY <1>5, RunFacts
    <3>2. QED BY <1>5, <3>1, RunFacts
  <2>2. red_idx \in 0 .. RunEnd(q.v.len - 1) - 1
    BY <1>1, <1>5, <1>6, <2>1
  <2>3. QED BY <1>5, <1>6, <2>2, RunFacts
<1>8. Sifted(state', Start, red_idx + 1)
  BY <1>1, <1>5, <1>6, <1>7, SiftMore
<1>9. UnderWay'
  <2>1. Sifted(state, Start, red_idx)'
    BY <1>1, <1>3, <1>5, <1>8 DEF Sifted
  <2>2. red_idx' \in Start' .. End'
    BY <1>1, <1>5, <1>6
  <2>3. QED BY <1>1, <2>1, <2>2 DEF UnderWay
<1>10. QED BY <1>2, <1>4, <1>9 DEF GInv

(* The reduction is over when its run is.                                  *)
LEMMA FinishInv ==
  ASSUME AllGrouped, GInv, Finish
  PROVE  GInv'
<1>1. /\ phase = "reducing" /\ phase' = "reduced" /\ red_idx >= End
      /\ UNCHANGED <<vars, red_idx, state, sums>>
  BY DEF Finish
<1>2. Inv'
  BY <1>1, GroupLawful, StepInv DEF GInv
<1>3. UNCHANGED <<q, pc, idx, vectorize, out_vec, sums, space>>
  BY <1>1 DEF vars, space
<1>4. Standing' /\ Written' /\ pc = "body"
  BY <1>1, <1>3, SameGroups DEF GInv, Standing
<1>5. /\ Start \in Nat /\ End \in Nat /\ Start' = Start /\ End' = End
      /\ red_idx \in Start .. End /\ Sifted(state, Start, red_idx)
  BY <1>1, <1>3, <1>4, AtRun, SameSift DEF Start, End, GInv, UnderWay
<1>6. red_idx = End
  BY <1>1, <1>5
<1>7. Sifted(state, Start, End)'
  BY <1>1, <1>3, <1>5, <1>6 DEF Sifted
<1>8. QED BY <1>1, <1>2, <1>4, <1>7 DEF GInv, UnderWay

(* The row of the run and its reduction are written at one position.       *)
LEMMA WriteInv ==
  ASSUME AllGrouped, GInv, Write
  PROVE  GInv'
<1>1. /\ phase = "reduced" /\ phase' = "idle"
      /\ ScalarBody \/ VectorBody
      /\ sums' = Store(sums, out_vec_idx, state)
  BY DEF Write
<1>2. Inv'
  BY <1>1, GroupLawful, StepInv DEF GInv, Next
<1>3. /\ UNCHANGED <<q, idx, vectorize>>
      /\ out_vec' = Store(out_vec, out_vec_idx, Output)
  BY <1>1 DEF ScalarBody, VectorBody, WriteRow, GInv, Standing
<1>4. Standing'
  BY <1>1, <1>3 DEF GInv, Standing
<1>5. /\ q \in Queries /\ idx \in 0 .. q.v.len - 1
      /\ Sifted(state, RunEnd(idx - 1), RunEnd(idx))
      /\ Output.iter = q.v.cells[idx].key
  BY <1>1, AtRun, SpaceFacts DEF GInv, Standing, UnderWay, Output
<1>6. /\ out_vec_idx \in Nat /\ DOMAIN out_vec = 0 .. out_vec_idx - 1
      /\ DOMAIN sums = DOMAIN out_vec
  BY DEF GInv, Inv, Books, TypeOK, Written
<1>7. /\ DOMAIN out_vec' = 0 .. out_vec_idx /\ DOMAIN sums' = 0 .. out_vec_idx
      /\ out_vec'[out_vec_idx] = Output /\ sums'[out_vec_idx] = state
      /\ \A i \in 0 .. out_vec_idx - 1 : out_vec'[i] = out_vec[i] /\ sums'[i] = sums[i]
  BY <1>1, <1>3, <1>6, StoreNext
<1>8. Written'
  <2>1. ASSUME NEW i \in 0 .. out_vec_idx
        PROVE  \E k \in 0 .. q.v.len - 1 :
                 out_vec'[i].iter = q.v.cells[k].key /\ Sifted(sums'[i], RunEnd(k - 1), RunEnd(k))
    <3>1. CASE i = out_vec_idx
      BY <1>5, <1>7, <3>1
    <3>2. CASE i \in 0 .. out_vec_idx - 1
      <4>1. PICK k \in 0 .. q.v.len - 1 : Whole(i, k)
        BY <1>6, <3>2 DEF GInv, Written
      <4>2. QED BY <1>7, <3>2, <4>1 DEF Whole
    <3>3. QED BY <1>6, <3>1, <3>2
  <2>2. \A s, a, b : Sifted(s, a, b)' <=> Sifted(s, a, b)
    BY <1>3 DEF Sifted
  <2>3. \A i \in DOMAIN sums' : \E k \in 0 .. q'.v.len - 1 :
          out_vec'[i].iter = q'.v.cells[k].key /\ Sifted(sums[i], RunEnd(k - 1), RunEnd(k))'
    BY <1>3, <1>7, <2>1 DEF Sifted, RunEnd
  <2>4. QED BY <1>7, <2>3 DEF Written, Whole
<1>9. QED BY <1>1, <1>2, <1>4, <1>8 DEF GInv, UnderWay

(* A body that is skipped writes nothing, and neither does what is around. *)
LEMMA QuietInv ==
  ASSUME AllGrouped, GInv, Skip \/ Outer
  PROVE  GInv'
<1>1. UNCHANGED <<redvars, q, vectorize, out_vec, sums>>
  BY DEF Skip, Outer, redvars, ScalarBody, WriteRow, Continue, Break, Incr, Post
<1>2. [Next]_vars
  BY DEF Skip, Outer, Next
<1>3. Inv'
  BY <1>2, GroupLawful, StepInv DEF GInv
<1>4. Written'
  BY <1>1, SameGroups DEF GInv
<1>5. phase = "idle" /\ phase' = "idle"
  <2>1. pc # "body" => phase = "idle"
    BY DEF GInv, Standing
  <2>2. pc # "body" \/ phase = "idle"
    BY DEF Skip, Outer, Continue, Break, Incr, Post
  <2>3. QED BY <1>1, <2>1, <2>2 DEF redvars
<1>6. idx' \in 0 .. q.v.len
  <2>1. CASE Skip
    BY <2>1 DEF Skip, ScalarBody, GInv, Standing
  <2>2. CASE Continue \/ Break \/ Post
    BY <2>2 DEF Continue, Break, Post, GInv, Standing
  <2>3. CASE Incr
    <3>1. pc = "incr" /\ idx' = space.next[idx]
      BY <2>3 DEF Incr
    <3>2. q \in Queries /\ idx \in 0 .. q.v.len - 1 /\ q.v.len \in Nat
      BY <3>1, AtRun, RunFacts
    <3>3. idx' = idx + 1
      BY <3>1, <3>2, SpaceFacts
    <3>4. QED BY <3>2, <3>3
  <2>4. QED BY <2>1, <2>2, <2>3 DEF Outer
<1>7. QED BY <1>1, <1>3, <1>4, <1>5, <1>6 DEF GInv, Standing, UnderWay

(* Every step keeps the invariant.                                         *)
LEMMA GroupStep ==
  ASSUME AllGrouped, GInv, [GNext]_<<vars, redvars>>
  PROVE  GInv'
<1>1. CASE Begin
  BY <1>1, BeginInv
<1>2. CASE Accept
  BY <1>2, AcceptInv
<1>3. CASE Finish
  BY <1>3, FinishInv
<1>4. CASE Write
  BY <1>4, WriteInv
<1>5. CASE Skip \/ Outer
  BY <1>5, QuietInv
<1>6. CASE UNCHANGED <<vars, redvars>>
  <2>1. Inv'
    BY <1>6, GroupLawful, StepInv DEF GInv
  <2>2. Written'
    BY <1>6, SameGroups DEF GInv, vars, redvars
  <2>3. Standing' /\ UnderWay'
    BY <1>6 DEF GInv, Standing, UnderWay, Sifted, Start, End, RunEnd, space, vars, redvars
  <2>4. QED BY <2>1, <2>2, <2>3 DEF GInv
<1>7. QED BY <1>1, <1>2, <1>3, <1>4, <1>5, <1>6 DEF GNext

LEMMA GroupInvariance ==
  ASSUME AllGrouped
  PROVE  GSpec => []GInv
<1>1. GInit => GInv
  BY GroupInit
<1>2. GInv /\ [GNext]_<<vars, redvars>> => GInv'
  BY GroupStep
<1>3. QED BY <1>1, <1>2, PTL DEF GSpec

-----------------------------------------------------------------------------
(* What the invariant says of the properties.                              *)

(* A row belongs to the run it lies in, and to no other.                   *)
LEMMA RunOfRow ==
  ASSUME AllGrouped, q \in Queries,
         NEW row \in DOMAIN q.rows, NEW k \in 0 .. q.v.len - 1
  PROVE  /\ RunOf(row) \in 0 .. q.v.len - 1
         /\ RunOf(row) = k <=> row \in RunEnd(k - 1) .. RunEnd(k) - 1
<1> DEFINE last == q.v.len - 1
           A == {j \in DOMAIN q.run_ends : q.run_ends[j] <= row}
<1>1. /\ last \in Nat /\ q.v.len \in Nat /\ RunEnd(-1) = 0
      /\ \A j \in -1 .. last : RunEnd(j) \in Nat
      /\ \A i, j \in -1 .. last : i < j => RunEnd(i) < RunEnd(j)
      /\ row \in 0 .. RunEnd(last) - 1
      /\ DOMAIN q.run_ends = 0 .. last
  <2>1. q.v.len \in Nat \ {0} /\ DOMAIN q.rows = 0 .. RunEnd(last) - 1
    BY RunFacts
  <2>2. row \in 0 .. RunEnd(last) - 1
    BY <2>1
  <2>3. last \in Nat /\ q.v.len \in Nat
    BY <2>1
  <2> HIDE DEF A
  <2>4. QED BY <2>2, <2>3, RunFacts
<1>2. A = {j \in 0 .. last : RunEnd(j) <= row}
  BY <1>1 DEF RunEnd
<1>3. RunOf(row) = Cardinality(A)
  BY DEF RunOf
<1> HIDE DEF A
<1>4. last \in -1 .. last /\ RunEnd(last) \in Nat /\ row \in Nat /\ row < RunEnd(last)
  BY <1>1
<1>5. A \subseteq 0 .. last - 1
  <2>1. ASSUME NEW j \in 0 .. last, RunEnd(j) <= row
        PROVE  j \in 0 .. last - 1
    <3>1. j # last
      BY <1>4, <2>1
    <3>2. QED BY <1>1, <2>1, <3>1
  <2>2. QED BY <1>2, <2>1
<1>6. /\ IsFiniteSet(A) /\ Cardinality(A) \in Nat /\ Cardinality(A) <= last
  <2>1. IsFiniteSet(0 .. last - 1) /\ Cardinality(0 .. last - 1) = last
    <3> HIDE DEF last
    <3>1. last \in Nat /\ last - 1 \in Int /\ 0 \in Int
      BY <1>1
    <3>2. last - 1 - 0 + 1 = last /\ (0 > last - 1 => last = 0)
      BY <3>1
    <3>3. QED BY <3>1, <3>2, FS_Interval
  <2>2. QED BY <1>5, <2>1, FS_Subset, FS_CardinalityType
<1>7. ASSUME NEW j \in 0 .. last, RunEnd(j) <= row
      PROVE  j + 1 <= Cardinality(A)
  <2>1. 0 .. j \subseteq A
    <3>1. ASSUME NEW i \in 0 .. j
          PROVE  i \in A
      <4>1. i \in 0 .. last /\ i \in -1 .. last /\ j \in -1 .. last /\ (i = j \/ i < j)
        BY <1>1
      <4>2. RunEnd(i) \in Nat /\ RunEnd(j) \in Nat /\ (RunEnd(i) = RunEnd(j) \/ RunEnd(i) < RunEnd(j))
        BY <1>1, <4>1
      <4>3. RunEnd(i) <= row
        BY <1>4, <1>7, <4>2
      <4>4. QED BY <1>2, <4>1, <4>3
    <3>2. QED BY <3>1
  <2>2. Cardinality(0 .. j) = j + 1
    BY FS_Interval
  <2>3. QED BY <1>6, <2>1, <2>2, FS_Subset
<1>8. ASSUME NEW j \in 0 .. last, row < RunEnd(j)
      PROVE  Cardinality(A) <= j
  <2>1. A \subseteq 0 .. j - 1
    <3>1. ASSUME NEW i \in A
          PROVE  i < j
      <4>1. i \in 0 .. last /\ i \in -1 .. last /\ j \in -1 .. last /\ RunEnd(i) <= row
        BY <1>1, <1>2
      <4>2. RunEnd(i) \in Nat /\ RunEnd(j) \in Nat /\ RunEnd(i) < RunEnd(j)
        BY <1>1, <1>4, <1>8, <4>1
      <4>3. ~(j < i) /\ j # i
        BY <1>1, <4>1, <4>2
      <4>4. QED BY <4>1, <4>3
    <3>2. QED BY <1>2, <3>1
  <2>2. IsFiniteSet(0 .. j - 1) /\ Cardinality(0 .. j - 1) = j
    BY FS_Interval
  <2>3. QED BY <2>1, <2>2, FS_Subset
<1>9. RunEnd(k) \in Nat /\ RunEnd(k - 1) \in Nat
  <2>1. k \in -1 .. last /\ k - 1 \in -1 .. last
    BY <1>1
  <2>2. QED BY <1>1, <2>1
<1>10. ASSUME row \in RunEnd(k - 1) .. RunEnd(k) - 1
       PROVE  Cardinality(A) = k
  <2>1. Cardinality(A) <= k
    BY <1>4, <1>8, <1>9, <1>10
  <2>2. k <= Cardinality(A)
    <3>1. CASE k = 0
      BY <1>6, <3>1
    <3>2. CASE k # 0
      <4>1. k - 1 \in 0 .. last /\ RunEnd(k - 1) <= row
        BY <1>1, <1>4, <1>9, <1>10, <3>2
      <4>2. k - 1 + 1 <= Cardinality(A)
        BY <1>7, <4>1
      <4>3. QED BY <4>2
    <3>3. QED BY <3>1, <3>2
  <2>3. QED BY <1>6, <2>1, <2>2
<1>11. ASSUME Cardinality(A) = k
       PROVE  row \in RunEnd(k - 1) .. RunEnd(k) - 1
  <2>1. row < RunEnd(k)
    BY <1>4, <1>6, <1>7, <1>9, <1>11
  <2>2. RunEnd(k - 1) <= row
    <3>1. CASE k = 0
      <4>1. k - 1 = -1
        BY <3>1
      <4>2. QED BY <1>1, <1>4, <4>1
    <3>2. CASE k # 0
      <4>1. k - 1 \in 0 .. last
        BY <1>1, <3>2
      <4>2. QED BY <1>4, <1>8, <1>9, <1>11, <4>1
    <3>3. QED BY <3>1, <3>2
  <2>3. QED BY <1>4, <1>9, <2>1, <2>2
<1>12. QED BY <1>1, <1>3, <1>6, <1>10, <1>11

LEMMA InvNoStray ==
  ASSUME AllGrouped, GInv
  PROVE  NoStrayRow
<1>1. ASSUME phase = "reducing", red_idx < End
      PROVE  red_idx \in DOMAIN q.rows
  <2>1. pc = "body" /\ red_idx \in Start .. End
    BY <1>1 DEF GInv, Standing, UnderWay
  <2>2. q \in Queries /\ Start \in Nat /\ End \in Nat /\ End <= RunEnd(q.v.len - 1)
    BY <2>1, AtRun
  <2>3. DOMAIN q.rows = 0 .. RunEnd(q.v.len - 1) - 1 /\ RunEnd(q.v.len - 1) \in Nat
    <3>1. q.v.len - 1 \in -1 .. q.v.len - 1
      BY <2>2, RunFacts
    <3>2. QED BY <2>2, <3>1, RunFacts
  <2>4. QED BY <1>1, <2>1, <2>2, <2>3
<1>2. QED BY <1>1 DEF NoStrayRow

LEMMA InvOnce ==
  ASSUME AllGrouped, GInv
  PROVE  EachRowOnce
<1>1. ASSUME NEW i \in DOMAIN sums, NEW j \in DOMAIN sums, i < j,
             NEW a \in Seen(sums[i]), NEW b \in Seen(sums[j])
      PROVE  a < b
  <2>1. q \in Queries /\ out_vec[i].iter < out_vec[j].iter
    BY <1>1 DEF GInv, Inv, Books, Order, OutputSorted, Written
  <2>2. PICK k \in 0 .. q.v.len - 1 : Whole(i, k)
    BY DEF GInv, Written
  <2>3. PICK l \in 0 .. q.v.len - 1 : Whole(j, l)
    BY DEF GInv, Written
  <2>4. k < l
    BY <2>1, <2>2, <2>3, KeysRise DEF Whole
  <2>5. a \in RunEnd(k - 1) .. RunEnd(k) - 1 /\ b \in RunEnd(l - 1) .. RunEnd(l) - 1
    BY <2>2, <2>3 DEF Whole, Sifted
  <2>6. /\ RunEnd(k) \in Nat /\ RunEnd(l - 1) \in Nat
        /\ RunEnd(k) = RunEnd(l - 1) \/ RunEnd(k) < RunEnd(l - 1)
    <3>1. /\ k \in -1 .. q.v.len - 1 /\ l - 1 \in -1 .. q.v.len - 1
          /\ k = l - 1 \/ k < l - 1
      BY <2>1, <2>4, RunFacts
    <3>2. QED BY <2>1, <3>1, RunFacts
  <2>7. QED BY <2>5, <2>6
<1>2. QED BY <1>1 DEF EachRowOnce

LEMMA InvGroups ==
  ASSUME AllGrouped, GInv
  PROVE  GroupsExact
<1>1. ASSUME pc = "done", NEW i \in ValidRows
      PROVE  Ascending(sums[i]) /\ Seen(sums[i]) = Expected(out_vec[i].iter)
  <2>1. q \in Queries /\ i \in DOMAIN sums
    BY <1>1, GroupLawful, FinishedRows, RowsFinite DEF GInv, Inv, Books, Written
  <2>2. PICK k \in 0 .. q.v.len - 1 : Whole(i, k)
    BY <2>1 DEF GInv, Written
  <2>3. /\ out_vec[i].iter = q.v.cells[k].key
        /\ Ascending(sums[i])
        /\ Seen(sums[i]) = {row \in RunEnd(k - 1) .. RunEnd(k) - 1 : q.rows[row]}
    BY <2>2 DEF Whole, Sifted
  <2>4. RunEnd(k - 1) .. RunEnd(k) - 1 \subseteq DOMAIN q.rows
    <3>1. /\ k - 1 \in -1 .. q.v.len - 1 /\ k \in -1 .. q.v.len - 1
          /\ q.v.len - 1 \in -1 .. q.v.len - 1
          /\ k = q.v.len - 1 \/ k < q.v.len - 1
      <4>1. q.v.len \in Nat \ {0} /\ k \in 0 .. q.v.len - 1
        BY <2>1, <2>2, RunFacts
      <4>2. QED BY <4>1
    <3>2. /\ RunEnd(k - 1) \in Nat /\ RunEnd(k) \in Nat /\ RunEnd(q.v.len - 1) \in Nat
          /\ RunEnd(k) = RunEnd(q.v.len - 1) \/ RunEnd(k) < RunEnd(q.v.len - 1)
          /\ DOMAIN q.rows = 0 .. RunEnd(q.v.len - 1) - 1
      BY <2>1, <3>1, RunFacts
    <3>3. QED BY <3>2
  <2>5. ASSUME NEW row \in DOMAIN q.rows
        PROVE  /\ row \in RunEnd(k - 1) .. RunEnd(k) - 1
                    <=> q.v.cells[RunOf(row)].key = q.v.cells[k].key
    <3>1. /\ RunOf(row) \in 0 .. q.v.len - 1
          /\ RunOf(row) = k <=> row \in RunEnd(k - 1) .. RunEnd(k) - 1
      BY <2>1, RunOfRow
    <3>2. \A j \in 0 .. q.v.len - 1 :
            q.v.cells[j].key = q.v.cells[k].key => j = k
      <4>1. \A j \in 0 .. q.v.len - 1 : q.v.cells[j].key \in Int
        BY <2>1, SpaceFacts
      <4>2. \A j \in 0 .. q.v.len - 1 : /\ j < k <=> q.v.cells[j].key < q.v.cells[k].key
                                        /\ k < j <=> q.v.cells[k].key < q.v.cells[j].key
        BY <2>1, KeysRise
      <4>3. QED BY <4>1, <4>2
    <3>3. QED BY <3>1, <3>2
  <2>6. Seen(sums[i]) = {row \in DOMAIN q.rows :
                           q.rows[row] /\ q.v.cells[RunOf(row)].key = q.v.cells[k].key}
    BY <2>3, <2>4, <2>5
  <2>7. QED BY <2>3, <2>6 DEF Expected
<1>2. QED BY <1>1 DEF GroupsExact

-----------------------------------------------------------------------------
(* Each valid output row holds the reduction of exactly its own group's    *)
(* rows that are not null, in order, in the scalar and the vectorized loop *)
(* alike: LoopGen::visit(Reduce) starts each run with a new state, and the *)
(* key and the state of a run are written at one position.                 *)
THEOREM GroupReductionsExact ==
  ASSUME AllGrouped
  PROVE  GSpec => []GroupsExact
<1>1. GInv => GroupsExact
  BY InvGroups
<1>2. GSpec => []GInv
  BY GroupInvariance
<1>3. QED BY <1>1, <1>2, PTL

(* No row is reduced for two outputs, though the vectorized loop reduces   *)
(* the runs of null keys too.                                              *)
THEOREM RowsReducedOnce ==
  ASSUME AllGrouped
  PROVE  GSpec => []EachRowOnce
<1>1. GInv => EachRowOnce
  BY InvOnce
<1>2. GSpec => []GInv
  BY GroupInvariance
<1>3. QED BY <1>1, <1>2, PTL

(* The bounds read_runend_buf gives a reduction are within the rows of the *)
(* vector, so what RowValid and the element reads address is there.        *)
THEOREM ReductionsWithinRows ==
  ASSUME AllGrouped
  PROVE  GSpec => []NoStrayRow
<1>1. GInv => NoStrayRow
  BY InvNoStray
<1>2. GSpec => []GInv
  BY GroupInvariance
<1>3. QED BY <1>1, <1>2, PTL
=============================================================================
