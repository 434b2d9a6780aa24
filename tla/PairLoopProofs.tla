--------------------------- MODULE PairLoopProofs ---------------------------
(***************************************************************************)
(* The loop over two iterators lists each pair of its predicate once, in   *)
(* order, whatever the ranges: the loop of LoopGen is right for a space of *)
(* pairs that obeys the laws below, and nested ranges obey them.           *)
(***************************************************************************)
EXTENDS PairLoop, LoopGenProofs, SpaceLawsProofs

Pair == Int \X Int

(* What a loop needs of a space of pairs to list the set Sol: from each    *)
(* pair on which it is alive the step goes up, and over no pair of Sol;    *)
(* iter_cond says whether the pair is in Sol; and the start is on the      *)
(* lower bound, no pair of Sol before it.                                  *)
PairLaws(s, Sol) ==
  /\ Sol \in SUBSET Pair
  /\ \A i \in Pair :
       /\ s.idx_to_iter[i] = i
       /\ s.next[i] \in Pair
       /\ s.iter_cond[i] \in BOOLEAN
       /\ s.is_alive[i] =>
            /\ Before(i, s.next[i])
            /\ s.iter_cond[i] <=> i \in Sol
            /\ \A x \in Sol : Before(i, x) => s.is_alive[s.next[i]] /\ ~Before(x, s.next[i])
  /\ \E lb \in Pair :
       /\ s.lower_bound = {lb} /\ s.iter_to_idx[lb] = lb
       /\ \A x \in Sol : s.is_alive[lb] /\ ~Before(x, lb)

AllPaired ==
  \A query \in Queries :
    /\ PairLaws(SpaceOf(query), Promised(query))
    /\ Separable(query) => Promised(query) = AnswerOf(query)

-----------------------------------------------------------------------------
(* The inductive invariant.                                                *)

Typed ==
  /\ vectorize \in BOOLEAN
  /\ pc \in {"exit_cond", "body", "incr", "post", "done"}
  /\ idx \in Pair
  /\ out_vec_idx \in Nat
  /\ null_count \in Nat
  /\ DOMAIN out_vec = 0 .. out_vec_idx - 1
  /\ \A i \in DOMAIN out_vec : out_vec[i].iter \in Pair
  /\ DOMAIN bytemap = IF vectorize THEN DOMAIN out_vec ELSE {}
  /\ \A i \in DOMAIN bytemap : bytemap[i] \in BOOLEAN

(* What has been emitted, by the block that runs next.                     *)
Covered ==
  /\ pc \in {"exit_cond", "body"} =>
       Emitted = {x \in Promised(q) : Alive => Before(x, idx)}
  /\ pc = "incr" => Emitted = {x \in Promised(q) : ~Before(idx, x)}
  /\ pc \in {"body", "incr"} => Alive
  /\ pc \in {"post", "done"} => Emitted = Promised(q)

(* Rows are in order, and none is ahead of the loop.                       *)
Ordered ==
  /\ PairsSorted
  /\ pc \in {"exit_cond", "body"} /\ Alive => \A i \in DOMAIN out_vec : Before(out_vec[i].iter, idx)
  /\ pc = "incr" => \A i \in DOMAIN out_vec : ~Before(idx, out_vec[i].iter)

(* Nulls are counted by the vectorized loop; with none counted there are   *)
(* none.                                                                   *)
NoneNull ==
  /\ ~vectorize => null_count = 0
  /\ null_count = 0 => Counted = DOMAIN out_vec

PInv ==
  /\ Typed
  /\ q \in Queries
  /\ Covered
  /\ Ordered
  /\ NoneNull
  /\ Finished

-----------------------------------------------------------------------------
(* Before is a strict order, total on the pairs.                           *)
LEMMA BeforeOrder ==
  /\ \A x \in Pair : ~Before(x, x)
  /\ \A x, y \in Pair : Before(x, y) \/ x = y \/ Before(y, x)
  /\ \A x, y \in Pair : Before(x, y) => ~Before(y, x)
  /\ \A x, y, z \in Pair : Before(x, y) /\ Before(y, z) => Before(x, z)
<1>1. \A x \in Pair : x = <<x[1], x[2]>> /\ x[1] \in Int /\ x[2] \in Int
  BY DEF Pair
<1>2. ASSUME NEW x \in Pair, NEW y \in Pair
      PROVE  Before(x, y) \/ x = y \/ Before(y, x)
  <2>1. x[1] = y[1] /\ x[2] = y[2] => x = y
    BY <1>1
  <2>2. QED BY <1>1, <2>1 DEF Before
<1>3. \A x, y \in Pair : Before(x, y) => ~Before(y, x)
  BY <1>1 DEF Before
<1>4. \A x \in Pair : ~Before(x, x)
  BY <1>1 DEF Before
<1>5. \A x, y, z \in Pair : Before(x, y) /\ Before(y, z) => Before(x, z)
  BY <1>1 DEF Before
<1>6. QED BY <1>2, <1>3, <1>4, <1>5

(* What the laws say of the current query.                                 *)
LEMMA PairFacts ==
  ASSUME AllPaired, q \in Queries
  PROVE  /\ PairLaws(space, Promised(q))
         /\ Promised(q) \in SUBSET Pair
         /\ \A i \in Pair : /\ space.idx_to_iter[i] = i
                            /\ space.next[i] \in Pair
                            /\ space.iter_cond[i] \in BOOLEAN
BY DEF AllPaired, PairLaws, space

LEMMA PairInit ==
  ASSUME AllPaired, Init
  PROVE  PInv
<1>1. /\ q \in Queries /\ pc = "exit_cond" /\ out_vec = Empty /\ bytemap = Empty
      /\ out_vec_idx = 0 /\ null_count = 0 /\ vectorize \in BOOLEAN
      /\ \E lb \in space.lower_bound : idx = space.iter_to_idx[lb]
  BY DEF Init
<1>2. PICK lb \in Pair :
        /\ space.lower_bound = {lb} /\ space.iter_to_idx[lb] = lb
        /\ \A x \in Promised(q) : space.is_alive[lb] /\ ~Before(x, lb)
  BY <1>1, PairFacts DEF PairLaws
<1>3. idx = lb
  BY <1>1, <1>2
<1>4. DOMAIN out_vec = {} /\ DOMAIN bytemap = {}
  BY <1>1 DEF Empty
<1>5. Counted = {} /\ Emitted = {}
  BY <1>4 DEF Counted, Emitted
<1>6. Typed
  BY <1>1, <1>3, <1>4 DEF Typed
<1>7. Covered
  <2>1. {x \in Promised(q) : Alive => Before(x, idx)} = {}
    BY <1>2, <1>3 DEF Alive
  <2>2. QED BY <1>1, <1>5, <2>1 DEF Covered
<1>8. Ordered /\ NoneNull /\ Finished
  BY <1>1, <1>4, <1>5 DEF Ordered, PairsSorted, NoneNull, Finished
<1>9. QED BY <1>1, <1>6, <1>7, <1>8 DEF PInv

(* What a step that leaves the query alone leaves alone.                   *)
LEMMA SamePairs ==
  ASSUME UNCHANGED q
  PROVE  /\ space' = space
         /\ Promised(q)' = Promised(q)
         /\ (q \in Queries)' <=> q \in Queries
BY DEF space, Promised

(* And the rows.                                                           *)
LEMMA SamePairRows ==
  ASSUME UNCHANGED <<vectorize, out_vec, bytemap>>
  PROVE  /\ Counted' = Counted
         /\ Emitted' = Emitted
         /\ PairsSorted' = PairsSorted
BY DEF Counted, Emitted, PairsSorted

LEMMA PairBranch ==
  ASSUME AllPaired, PInv, Continue \/ Break
  PROVE  PInv'
<1>1. /\ UNCHANGED <<q, vectorize, idx, out_vec_idx, null_count, out_vec, bytemap,
                     out_len, out_bits>>
      /\ pc = "exit_cond"
      /\ pc' = IF Alive THEN "body" ELSE "post"
  BY DEF Continue, Break, Alive
<1>2. /\ Promised(q)' = Promised(q) /\ Alive' = Alive /\ Counted' = Counted
      /\ Emitted' = Emitted /\ PairsSorted' = PairsSorted
      /\ (q \in Queries)' <=> q \in Queries
  BY <1>1, SamePairs, SamePairRows DEF Alive
<1>3. Typed' /\ NoneNull' /\ Finished'
  BY <1>1, <1>2 DEF PInv, Typed, NoneNull, Finished
<1>4. Covered'
  <2>1. Emitted = {x \in Promised(q) : Alive => Before(x, idx)}
    BY <1>1 DEF PInv, Covered
  <2>2. CASE Alive
    BY <1>1, <1>2, <2>1, <2>2 DEF Covered
  <2>3. CASE ~Alive
    BY <1>1, <1>2, <2>1, <2>3 DEF Covered
  <2>4. QED BY <2>2, <2>3
<1>5. Ordered'
  BY <1>1, <1>2 DEF PInv, Ordered
<1>6. QED BY <1>2, <1>3, <1>4, <1>5 DEF PInv

LEMMA PairIncr ==
  ASSUME AllPaired, PInv, Incr
  PROVE  PInv'
<1>1. /\ UNCHANGED <<q, vectorize, out_vec_idx, null_count, out_vec, bytemap,
                     out_len, out_bits>>
      /\ pc = "incr" /\ pc' = "exit_cond"
      /\ idx' = space.next[idx]
  BY DEF Incr
<1>2. /\ space' = space /\ Promised(q)' = Promised(q) /\ Counted' = Counted
      /\ Emitted' = Emitted /\ PairsSorted' = PairsSorted
      /\ (q \in Queries)' <=> q \in Queries
  BY <1>1, SamePairs, SamePairRows
<1>3. /\ q \in Queries /\ idx \in Pair /\ space.is_alive[idx]
      /\ Emitted = {x \in Promised(q) : ~Before(idx, x)}
      /\ \A i \in DOMAIN out_vec : out_vec[i].iter \in Pair /\ ~Before(idx, out_vec[i].iter)
  BY <1>1 DEF PInv, Typed, Covered, Ordered, Alive
<1>4. /\ idx' \in Pair /\ Before(idx, idx') /\ Promised(q) \in SUBSET Pair
      /\ \A x \in Promised(q) : Before(idx, x) => space.is_alive[idx'] /\ ~Before(x, idx')
  BY <1>1, <1>3, PairFacts DEF PairLaws
<1>5. Alive' <=> space.is_alive[idx']
  BY <1>2 DEF Alive
<1>6. \A x \in Pair : ~Before(idx, x) => Before(x, idx')
  BY <1>3, <1>4, BeforeOrder
<1>7. Typed' /\ NoneNull' /\ Finished'
  BY <1>1, <1>2, <1>4 DEF PInv, Typed, NoneNull, Finished
<1>8. Covered'
  <2>1. \A x \in Promised(q) : ~Before(idx, x) <=> (Alive' => Before(x, idx'))
    BY <1>4, <1>5, <1>6
  <2>2. Emitted' = {x \in Promised(q) : Alive' => Before(x, idx')}
    BY <1>2, <1>3, <2>1
  <2>3. QED BY <1>1, <1>2, <2>2 DEF Covered
<1>9. Ordered'
  BY <1>1, <1>2, <1>3, <1>6 DEF PInv, Ordered
<1>10. QED BY <1>2, <1>3, <1>7, <1>8, <1>9 DEF PInv

LEMMA PairPost ==
  ASSUME AllPaired, PInv, Post
  PROVE  PInv'
<1>1. /\ UNCHANGED <<q, vectorize, idx, out_vec_idx, null_count, out_vec, bytemap>>
      /\ pc = "post" /\ pc' = "done"
      /\ out_len' = out_vec_idx
      /\ out_bits' = IF null_count > 0
                     THEN [i \in 0 .. out_vec_idx - 1 |-> bytemap[i]]
                     ELSE Empty
  BY DEF Post
<1>2. /\ Promised(q)' = Promised(q) /\ Counted' = Counted
      /\ Emitted' = Emitted /\ PairsSorted' = PairsSorted
      /\ (q \in Queries)' <=> q \in Queries
  BY <1>1, SamePairs, SamePairRows
<1>3. Typed' /\ NoneNull'
  BY <1>1, <1>2 DEF PInv, Typed, NoneNull
<1>4. Covered' /\ Ordered'
  BY <1>1, <1>2 DEF PInv, Covered, Ordered
<1>5. Finished'
  <2>1. null_count > 0 => out_bits' = [i \in 0 .. out_vec_idx - 1 |-> bytemap[i]]
    BY <1>1
  <2>2. null_count = 0 => out_bits' = Empty
    BY <1>1
  <2>3. QED BY <1>1, <2>1, <2>2 DEF Finished
<1>6. QED BY <1>2, <1>3, <1>4, <1>5 DEF PInv

(* What holds where the body runs.                                         *)
LEMMA PairBodyFacts ==
  ASSUME AllPaired, PInv, pc = "body"
  PROVE  /\ q \in Queries /\ idx \in Pair /\ Alive
         /\ Promised(q) \in SUBSET Pair
         /\ Output.iter = idx
         /\ space.iter_cond[idx] \in BOOLEAN
         /\ space.iter_cond[idx] <=> idx \in Promised(q)
         /\ Emitted = {x \in Promised(q) : Before(x, idx)}
         /\ \A i \in DOMAIN out_vec : out_vec[i].iter \in Pair /\ Before(out_vec[i].iter, idx)
<1>1. /\ q \in Queries /\ idx \in Pair /\ Alive
      /\ Emitted = {x \in Promised(q) : Before(x, idx)}
      /\ \A i \in DOMAIN out_vec : out_vec[i].iter \in Pair /\ Before(out_vec[i].iter, idx)
  BY DEF PInv, Typed, Covered, Ordered
<1>2. /\ Promised(q) \in SUBSET Pair
      /\ space.idx_to_iter[idx] = idx /\ space.iter_cond[idx] \in BOOLEAN
      /\ space.iter_cond[idx] <=> idx \in Promised(q)
  BY <1>1, PairFacts DEF PairLaws, Alive
<1>3. Output.iter = idx
  BY <1>2 DEF Output
<1>4. QED BY <1>1, <1>2, <1>3

(* A row written for the current pair, and whether it counts.              *)
LEMMA WrittenPair ==
  ASSUME AllPaired, PInv, pc = "body", WriteRow, UNCHANGED <<q, vectorize, idx>>,
         IF vectorize
         THEN bytemap' = Store(bytemap, out_vec_idx, space.iter_cond[idx])
         ELSE UNCHANGED bytemap /\ space.iter_cond[idx]
  PROVE  /\ out_vec_idx' = out_vec_idx + 1
         /\ DOMAIN out_vec' = 0 .. out_vec_idx
         /\ DOMAIN bytemap' = IF vectorize THEN 0 .. out_vec_idx ELSE {}
         /\ \A i \in DOMAIN bytemap' : bytemap'[i] \in BOOLEAN
         /\ \A i \in DOMAIN out_vec' : out_vec'[i].iter \in Pair /\ ~Before(idx, out_vec'[i].iter)
         /\ PairsSorted'
         /\ Counted' = IF space.iter_cond[idx] THEN Counted \union {out_vec_idx} ELSE Counted
         /\ Emitted' = IF space.iter_cond[idx] THEN Emitted \union {idx} ELSE Emitted
<1> DEFINE n == out_vec_idx
           c == space.iter_cond[idx]
<1>1. /\ n \in Nat /\ DOMAIN out_vec = 0 .. n - 1
      /\ vectorize \in BOOLEAN
      /\ DOMAIN bytemap = IF vectorize THEN 0 .. n - 1 ELSE {}
      /\ \A i \in DOMAIN bytemap : bytemap[i] \in BOOLEAN
  BY DEF PInv, Typed
<1>2. /\ idx \in Pair /\ Output.iter = idx /\ c \in BOOLEAN
      /\ \A i \in 0 .. n - 1 : out_vec[i].iter \in Pair /\ Before(out_vec[i].iter, idx)
  BY <1>1, PairBodyFacts
<1>3. /\ out_vec' = Store(out_vec, n, Output) /\ n' = n + 1
  BY DEF WriteRow
<1>4. /\ DOMAIN out_vec' = 0 .. n
      /\ out_vec'[n].iter = idx
      /\ \A i \in 0 .. n - 1 : out_vec'[i] = out_vec[i]
  BY <1>1, <1>2, <1>3, StoreNext
<1>5. vectorize => /\ DOMAIN bytemap' = 0 .. n
                   /\ bytemap'[n] = c
                   /\ \A i \in 0 .. n - 1 : bytemap'[i] = bytemap[i]
  <2>1. CASE vectorize
    <3>1. DOMAIN bytemap = 0 .. n - 1 /\ bytemap' = Store(bytemap, n, c)
      BY <1>1, <2>1
    <3> HIDE DEF c
    <3>2. QED BY <1>1, <3>1, StoreNext
  <2>2. QED BY <2>1
<1>6. ~vectorize => bytemap' = bytemap /\ c
  OBVIOUS
<1>7. 0 .. n = (0 .. n - 1) \union {n} /\ n \notin 0 .. n - 1
  BY <1>1
<1> HIDE DEF c, n
<1>8. DOMAIN bytemap' = IF vectorize THEN 0 .. n ELSE {}
  BY <1>1, <1>5, <1>6
<1>9. \A i \in DOMAIN bytemap' : bytemap'[i] \in BOOLEAN
  <2>1. CASE vectorize
    <3>1. ASSUME NEW i \in 0 .. n
          PROVE  bytemap'[i] \in BOOLEAN
      <4>1. CASE i = n
        BY <1>2, <1>5, <2>1, <4>1
      <4>2. CASE i \in 0 .. n - 1
        BY <1>1, <1>5, <2>1, <4>2
      <4>3. QED BY <1>7, <4>1, <4>2
    <3>2. QED BY <1>8, <2>1, <3>1
  <2>2. CASE ~vectorize
    BY <1>8, <2>2
  <2>3. QED BY <2>1, <2>2
<1>10. \A i \in 0 .. n : out_vec'[i].iter \in Pair /\ ~Before(idx, out_vec'[i].iter)
  BY <1>2, <1>4, <1>7, BeforeOrder
<1>11. PairsSorted'
  <2>1. \A i, j \in 0 .. n - 1 : i < j => Before(out_vec[i].iter, out_vec[j].iter)
    BY <1>1 DEF PInv, Ordered, PairsSorted
  <2>2. ASSUME NEW i \in 0 .. n, NEW j \in 0 .. n, i < j
        PROVE  Before(out_vec'[i].iter, out_vec'[j].iter)
    <3>1. i \in 0 .. n - 1
      BY <1>1, <2>2 DEF n
    <3>2. CASE j = n
      BY <1>2, <1>4, <3>1, <3>2
    <3>3. CASE j \in 0 .. n - 1
      BY <1>4, <2>1, <2>2, <3>1, <3>3
    <3>4. QED BY <1>7, <3>2, <3>3
  <2>3. QED BY <1>4, <2>2 DEF PairsSorted
<1>12. n \in Counted' <=> c
  BY <1>1, <1>4, <1>5, <1>6, <1>7 DEF Counted
<1>13. \A i \in 0 .. n - 1 : i \in Counted' <=> i \in Counted
  BY <1>1, <1>4, <1>5, <1>6, <1>7 DEF Counted
<1>14. Counted' \subseteq 0 .. n /\ Counted \subseteq 0 .. n - 1
  BY <1>1, <1>4 DEF Counted
<1>15. Counted' = IF c THEN Counted \union {n} ELSE Counted
  <2>1. CASE c
    BY <1>7, <1>12, <1>13, <1>14, <2>1
  <2>2. CASE ~c
    <3>1. \A i : i \in Counted' <=> i \in Counted
      BY <1>7, <1>12, <1>13, <1>14, <2>2
    <3>2. Counted' = Counted
      BY <3>1
    <3>3. QED BY <2>2, <3>2
  <2>3. QED BY <2>1, <2>2
<1>16. Emitted' = IF c THEN Emitted \union {idx} ELSE Emitted
  <2>1. \A i \in Counted : out_vec'[i] = out_vec[i]
    BY <1>4, <1>14
  <2>2. Emitted' = {out_vec'[i].iter : i \in Counted'}
    BY DEF Emitted
  <2>3. CASE c
    BY <1>4, <1>15, <2>1, <2>2, <2>3 DEF Emitted
  <2>4. CASE ~c
    BY <1>15, <2>1, <2>2, <2>4 DEF Emitted
  <2>5. QED BY <2>3, <2>4
<1>17. QED
  BY <1>3, <1>4, <1>8, <1>9, <1>10, <1>11, <1>15, <1>16 DEF c, n

(* The body of either path.                                                *)
LEMMA PairBody ==
  ASSUME AllPaired, PInv, ScalarBody \/ VectorBody
  PROVE  PInv'
<1> DEFINE c == space.iter_cond[idx]
<1>1. /\ pc = "body" /\ pc' = "incr"
      /\ UNCHANGED <<q, vectorize, idx>>
  BY DEF ScalarBody, VectorBody
<1>2. /\ Promised(q)' = Promised(q) /\ Alive' = Alive
      /\ (q \in Queries)' <=> q \in Queries
  BY <1>1, SamePairs DEF Alive
<1>3. /\ q \in Queries /\ idx \in Pair /\ Alive
      /\ Promised(q) \in SUBSET Pair
      /\ c \in BOOLEAN
      /\ c <=> idx \in Promised(q)
      /\ Emitted = {x \in Promised(q) : Before(x, idx)}
      /\ \A i \in DOMAIN out_vec : out_vec[i].iter \in Pair /\ Before(out_vec[i].iter, idx)
  BY <1>1, PairBodyFacts
<1>4. /\ out_vec_idx \in Nat /\ null_count \in Nat /\ vectorize \in BOOLEAN
      /\ DOMAIN out_vec = 0 .. out_vec_idx - 1
      /\ ~vectorize => null_count = 0
      /\ null_count = 0 => Counted = DOMAIN out_vec
  BY DEF PInv, Typed, NoneNull
<1>5. Finished'
  BY <1>1 DEF Finished
<1>6. {x \in Promised(q) : ~Before(idx, x)} =
        IF c THEN Emitted \union {idx} ELSE Emitted
  <2>1. \A x \in Promised(q) : ~Before(idx, x) <=> Before(x, idx) \/ x = idx
    BY <1>3, BeforeOrder
  <2> HIDE DEF c
  <2>2. CASE c
    BY <1>3, <2>1, <2>2
  <2>3. CASE ~c
    <3>1. \A x \in Promised(q) : ~Before(idx, x) <=> Before(x, idx)
      BY <1>3, <2>1, <2>3
    <3>2. {x \in Promised(q) : ~Before(idx, x)} = Emitted
      BY <1>3, <3>1
    <3>3. QED BY <2>3, <3>2
  <2>4. QED BY <2>2, <2>3
<1>7. CASE ~vectorize /\ ~c
  <2>1. UNCHANGED <<out_vec, out_vec_idx, null_count, bytemap>>
    BY <1>7 DEF ScalarBody, VectorBody
  <2>2. Counted' = Counted /\ Emitted' = Emitted /\ PairsSorted' = PairsSorted
    BY <1>1, <2>1, SamePairRows
  <2>3. Typed' /\ NoneNull'
    BY <1>1, <2>1, <2>2 DEF PInv, Typed, NoneNull
  <2>4. Covered'
    <3>1. Emitted' = {x \in Promised(q) : ~Before(idx, x)}
      BY <1>6, <1>7, <2>2
    <3>2. QED BY <1>1, <1>2, <1>3, <3>1 DEF Covered
  <2>5. Ordered'
    <3>1. \A i \in DOMAIN out_vec : ~Before(idx, out_vec[i].iter)
      BY <1>3, BeforeOrder
    <3>2. QED BY <1>1, <2>1, <2>2, <3>1 DEF PInv, Ordered
  <2>6. QED BY <1>2, <1>3, <1>5, <2>3, <2>4, <2>5 DEF PInv
<1>8. CASE vectorize \/ c
  <2>1. WriteRow
    BY <1>8 DEF ScalarBody, VectorBody
  <2>2. IF vectorize
        THEN bytemap' = Store(bytemap, out_vec_idx, space.iter_cond[idx])
        ELSE UNCHANGED bytemap /\ space.iter_cond[idx]
    BY <1>8 DEF ScalarBody, VectorBody
  <2>3. null_count' = IF c THEN null_count ELSE null_count + 1
    BY <1>4, <1>8 DEF ScalarBody, VectorBody
  <2>4. /\ out_vec_idx' = out_vec_idx + 1
        /\ DOMAIN out_vec' = 0 .. out_vec_idx
        /\ DOMAIN bytemap' = IF vectorize THEN 0 .. out_vec_idx ELSE {}
        /\ \A i \in DOMAIN bytemap' : bytemap'[i] \in BOOLEAN
        /\ \A i \in DOMAIN out_vec' : out_vec'[i].iter \in Pair /\ ~Before(idx, out_vec'[i].iter)
        /\ PairsSorted'
        /\ Counted' = IF c THEN Counted \union {out_vec_idx} ELSE Counted
        /\ Emitted' = IF c THEN Emitted \union {idx} ELSE Emitted
    BY <1>1, <2>1, <2>2, WrittenPair
  <2> HIDE DEF c
  <2>5. Typed'
    <3>1. null_count' \in Nat /\ out_vec_idx' \in Nat
      BY <1>4, <2>3, <2>4
    <3>2. 0 .. out_vec_idx' - 1 = 0 .. out_vec_idx
      BY <1>4, <2>4
    <3>3. QED BY <1>1, <1>3, <1>4, <2>4, <3>1, <3>2 DEF Typed
  <2>6. Covered'
    <3>1. Emitted' = {x \in Promised(q) : ~Before(idx, x)}
      BY <1>6, <2>4
    <3>2. QED BY <1>1, <1>2, <1>3, <3>1 DEF Covered
  <2>7. Ordered'
    BY <1>1, <2>4 DEF Ordered
  <2>8. NoneNull'
    <3>1. ASSUME null_count' = 0
          PROVE  Counted' = DOMAIN out_vec'
      <4>1. c /\ null_count = 0
        BY <1>3, <1>4, <2>3, <3>1
      <4>2. 0 .. out_vec_idx = (0 .. out_vec_idx - 1) \union {out_vec_idx}
        BY <1>4
      <4>3. QED BY <1>4, <2>4, <4>1, <4>2
    <3>2. ~vectorize => null_count' = 0
      BY <1>4, <1>8, <2>3
    <3>3. QED BY <1>1, <3>1, <3>2 DEF NoneNull
  <2>9. QED BY <1>2, <1>3, <1>5, <2>5, <2>6, <2>7, <2>8 DEF PInv
<1>9. QED BY <1>3, <1>4, <1>7, <1>8

LEMMA PairStep ==
  ASSUME AllPaired, PInv, [Next]_vars
  PROVE  PInv'
<1>1. CASE UNCHANGED vars
  <2>1. /\ Promised(q)' = Promised(q) /\ Alive' = Alive /\ Counted' = Counted
        /\ Emitted' = Emitted /\ PairsSorted' = PairsSorted
        /\ (q \in Queries)' <=> q \in Queries
    BY <1>1, SamePairs, SamePairRows DEF Alive, vars
  <2>2. Typed' /\ NoneNull' /\ Finished'
    BY <1>1, <2>1 DEF PInv, Typed, NoneNull, Finished, vars
  <2>3. Covered' /\ Ordered'
    BY <1>1, <2>1 DEF PInv, Covered, Ordered, vars
  <2>4. QED BY <2>1, <2>2, <2>3 DEF PInv
<1>2. QED BY <1>1, PairBranch, PairBody, PairIncr, PairPost DEF Next

LEMMA PairInvariance ==
  ASSUME AllPaired
  PROVE  Spec => []PInv
<1>1. Init => PInv
  BY PairInit
<1>2. PInv /\ [Next]_vars => PInv'
  BY PairStep
<1>3. QED BY <1>1, <1>2, PTL DEF Spec

(* A finished query has listed what it is promised.                        *)
LEMMA FinishedPairs ==
  ASSUME AllPaired, PInv, pc = "done"
  PROVE  Result = Promised(q)
<1>1. /\ out_len = out_vec_idx
      /\ null_count > 0 => out_bits = [i \in 0 .. out_vec_idx - 1 |-> bytemap[i]]
      /\ null_count = 0 => out_bits = Empty
      /\ ~vectorize => null_count = 0
      /\ null_count = 0 => Counted = DOMAIN out_vec
      /\ null_count \in Nat /\ out_vec_idx \in Nat /\ vectorize \in BOOLEAN
      /\ DOMAIN out_vec = 0 .. out_vec_idx - 1
      /\ Emitted = Promised(q)
  BY DEF PInv, Finished, NoneNull, Typed, Covered
<1>2. ValidRows = Counted
  <2>1. CASE null_count = 0
    <3>1. ValidRows = 0 .. out_len - 1
      BY <1>1, <2>1 DEF ValidRows, OutValid, Empty
    <3>2. QED BY <1>1, <2>1, <3>1
  <2>2. CASE null_count > 0 /\ vectorize
    BY <1>1, <2>2 DEF ValidRows, OutValid, Counted
  <2>3. QED BY <1>1, <2>1, <2>2
<1>3. QED BY <1>1, <1>2 DEF Result, Emitted

-----------------------------------------------------------------------------
(* Ranges: the spaces of an iterator of which only comparisons are known.  *)

IsRange(s) ==
  /\ IsSpace(s)
  /\ s.idx = Int
  /\ \A i \in Int : /\ s.idx_to_iter[i] = i
                    /\ s.iter_to_idx[i] = i
                    /\ s.next[i] = i + 1
                    /\ s.is_alive[i] <=> Under(s, i)
                    /\ s.iter_cond[i] <=> InRange(s, i)

(* The universal space is a range, and bounds make ranges of ranges: so is *)
(* every space Reffine makes of comparisons, in whatever order.            *)
LEMMA RangeUniversal == IsRange(UniversalSpace)
<1>1. IsSpace(UniversalSpace)
  BY UniversalLaws
<1>2. QED BY <1>1 DEF UniversalSpace, IsRange, Under, InRange

LEMMA RangeLBound ==
  ASSUME NEW s, IsRange(s), NEW b \in Int
  PROVE  IsRange(LBoundSpace(s, b))
<1> DEFINE l == LBoundSpace(s, b)
<1>1. IsSpace(s) /\ s.idx = Int
  BY DEF IsRange
<1>2. PICK lower \in Int : /\ l.lower_bound = {lower}
                           /\ lower >= b
                           /\ \A c \in s.lower_bound : lower >= c
  BY <1>1, LBoundLower
<1>3. Laws(s, {}, {})
  BY DEF Laws, StepLaw, CondLaw
<1>4. IsSpace(l)
  BY <1>1, <1>2, <1>3, LBoundLaws
<1>5. Highest({b} \union s.lower_bound) = {lower}
  BY <1>1, <1>2 DEF LBoundSpace, IsSpace
<1>6. /\ l.idx = Int /\ l.idx_to_iter = s.idx_to_iter /\ l.iter_to_idx = s.iter_to_idx
      /\ l.next = s.next /\ l.is_alive = s.is_alive /\ l.upper_bound = s.upper_bound
      /\ l.iter_cond = [i \in Int |-> (\A c \in {lower} : s.idx_to_iter[i] >= c) /\ s.iter_cond[i]]
  BY <1>1, <1>5 DEF LBoundSpace, IsSpace
<1> HIDE DEF l
<1>7. ASSUME NEW i \in Int
      PROVE  l.iter_cond[i] <=> InRange(l, i)
  <2>1. s.idx_to_iter[i] = i /\ (s.iter_cond[i] <=> InRange(s, i))
    BY DEF IsRange
  <2>2. l.iter_cond[i] <=> i >= lower /\ InRange(s, i)
    BY <1>6, <2>1
  <2>3. \A c \in s.lower_bound : c \in Int
    BY <1>1 DEF IsSpace, Optional
  <2>4. InRange(l, i) <=> lower <= i /\ Under(s, i)
    BY <1>2, <1>6 DEF InRange, Under
  <2>5. lower <= i => \A c \in s.lower_bound : c <= i
    BY <1>2, <2>3
  <2>6. InRange(s, i) <=> (\A c \in s.lower_bound : c <= i) /\ Under(s, i)
    BY DEF InRange
  <2>7. i >= lower <=> lower <= i
    OBVIOUS
  <2>8. QED BY <2>2, <2>4, <2>5, <2>6, <2>7
<1>8. \A i \in Int : l.is_alive[i] <=> Under(l, i)
  BY <1>6 DEF IsRange, Under
<1>9. QED BY <1>4, <1>6, <1>7, <1>8 DEF IsRange, l

LEMMA RangeUBound ==
  ASSUME NEW s, IsRange(s), NEW b \in Int
  PROVE  IsRange(UBoundSpace(s, b))
<1> DEFINE u == UBoundSpace(s, b)
<1>1. IsSpace(s) /\ s.idx = Int
  BY DEF IsRange
<1>2. PICK upper \in Int : /\ Lowest({b} \union s.upper_bound) = {upper}
                           /\ \A c \in s.upper_bound : upper <= c
  <2>1. CASE s.upper_bound = {}
    BY <2>1 DEF Lowest
  <2>2. ASSUME NEW c \in Int, s.upper_bound = {c}
        PROVE  \E upper \in Int : /\ Lowest({b} \union s.upper_bound) = {upper}
                                  /\ \A d \in s.upper_bound : upper <= d
    <3>1. CASE b <= c
      <4>1. Lowest({b} \union {c}) = {b}
        BY <3>1 DEF Lowest
      <4>2. QED BY <2>2, <3>1, <4>1
    <3>2. CASE c < b
      <4>1. Lowest({b} \union {c}) = {c}
        BY <3>2 DEF Lowest
      <4>2. QED BY <2>2, <3>2, <4>1
    <3>3. QED BY <3>1, <3>2
  <2>3. QED BY <1>1, <2>1, <2>2 DEF IsSpace, Optional
<1>3. Laws(s, {}, {})
  BY DEF Laws, StepLaw, CondLaw
<1>4. u.upper_bound = {upper}
  BY <1>1, <1>2 DEF UBoundSpace, IsSpace
<1>5. IsSpace(u)
  BY <1>1, <1>3, <1>4, UBoundLaws
<1>6. /\ u.idx = Int /\ u.idx_to_iter = s.idx_to_iter /\ u.iter_to_idx = s.iter_to_idx
      /\ u.next = s.next /\ u.lower_bound = s.lower_bound
      /\ u.iter_cond = [i \in Int |-> (\A c \in {upper} : s.idx_to_iter[i] <= c) /\ s.iter_cond[i]]
      /\ u.is_alive = [i \in Int |-> (\A c \in {upper} : s.idx_to_iter[i] <= c) /\ s.is_alive[i]]
  BY <1>1, <1>2 DEF UBoundSpace, IsSpace
<1> HIDE DEF u
<1>7. ASSUME NEW i \in Int
      PROVE  /\ u.iter_cond[i] <=> InRange(u, i)
             /\ u.is_alive[i] <=> Under(u, i)
  <2>1. /\ s.idx_to_iter[i] = i
        /\ s.iter_cond[i] <=> InRange(s, i)
        /\ s.is_alive[i] <=> Under(s, i)
    BY DEF IsRange
  <2>2. /\ u.iter_cond[i] <=> i <= upper /\ InRange(s, i)
        /\ u.is_alive[i] <=> i <= upper /\ Under(s, i)
    BY <1>6, <2>1
  <2>3. \A c \in s.upper_bound : c \in Int
    BY <1>1 DEF IsSpace, Optional
  <2>4. i <= upper => Under(s, i)
    BY <1>2, <2>3 DEF Under
  <2>5. Under(u, i) <=> i <= upper
    BY <1>4 DEF Under
  <2>6. /\ InRange(s, i) <=> (\A c \in s.lower_bound : c <= i) /\ Under(s, i)
        /\ InRange(u, i) <=> (\A c \in s.lower_bound : c <= i) /\ Under(u, i)
    BY <1>6 DEF InRange
  <2>7. QED BY <2>2, <2>4, <2>5, <2>6
<1>8. QED BY <1>5, <1>6, <1>7 DEF IsRange, u

-----------------------------------------------------------------------------
(* Nested ranges: the inner one starts at the same value for every outer   *)
(* value, and a condition keeps some of the pairs.                         *)

Nest(outer, inner, keep) ==
  LET nest == NestedSpace(outer, inner)
  IN  FilteredSpace(nest, [i \in nest.idx |-> nest.idx_to_iter[i] \in keep])

IsNest(outer, inner) ==
  /\ IsRange(outer) /\ outer.lower_bound # {}
  /\ \E start \in Int : \A t \in Int : IsRange(inner[t]) /\ inner[t].lower_bound = {start}

Nested(outer, inner, keep) ==
  {x \in Pair \intersect keep : InRange(outer, x[1]) /\ InRange(inner[x[1]], x[2])}

(* How the one loop walks them.                                            *)
Walks(s, outer, inner, keep, first, start) ==
  /\ outer.lower_bound = {first}
  /\ \A t \in Int : IsRange(inner[t]) /\ inner[t].lower_bound = {start}
  /\ s.lower_bound = {<<first, start>>}
  /\ s.iter_to_idx[<<first, start>>] = <<first, start>>
  /\ \A i \in Pair :
       /\ s.idx_to_iter[i] = i
       /\ s.is_alive[i] <=> Under(outer, i[1])
       /\ s.iter_cond[i] <=> i \in Nested(outer, inner, keep)
       /\ s.iter_cond[i] \in BOOLEAN
       /\ s.next[i] = IF Under(inner[i[1]], i[2]) THEN <<i[1], i[2] + 1>> ELSE <<i[1] + 1, start>>

LEMMA NestWalk ==
  ASSUME NEW outer, NEW inner, NEW keep, IsNest(outer, inner)
  PROVE  \E first, start \in Int : Walks(Nest(outer, inner, keep), outer, inner, keep, first, start)
<1> DEFINE s == Nest(outer, inner, keep)
           n == NestedSpace(outer, inner)
<1>1. PICK start \in Int : \A t \in Int : IsRange(inner[t]) /\ inner[t].lower_bound = {start}
  BY DEF IsNest
<1>2. PICK first \in Int : outer.lower_bound = {first}
  BY DEF IsNest, IsRange, IsSpace, Optional
<1>3. /\ IsRange(outer) /\ outer.idx = Int
      /\ inner[0].lower_bound = {start} /\ inner[0].iter_to_idx[start] = start
  <2>1. 0 \in Int
    OBVIOUS
  <2>2. QED BY <1>1, <2>1 DEF IsNest, IsRange
<1>4. /\ n.idx = Pair
      /\ n.lower_bound = {<<first, start>>}
      /\ n.iter_cond = [i \in Pair |-> outer.iter_cond[i[1]] /\ InnerAt(outer, inner, i).iter_cond[i[2]]]
      /\ n.idx_to_iter = [i \in Pair |-> <<outer.idx_to_iter[i[1]], InnerAt(outer, inner, i).idx_to_iter[i[2]]>>]
      /\ n.iter_to_idx = [t \in Pair |-> <<outer.iter_to_idx[t[1]], inner[0].iter_to_idx[t[2]]>>]
      /\ n.is_alive = [i \in Pair |-> outer.is_alive[i[1]]]
      /\ n.next = [i \in Pair |-> NestedNext(outer, inner, start, i)]
  <2>1. inner[0].iter_to_idx[CHOOSE b \in {start} : TRUE] = start
    BY <1>3
  <2>2. outer.lower_bound \X {start} = {<<first, start>>}
    BY <1>2
  <2>3. QED BY <1>3, <2>1, <2>2 DEF NestedSpace, Pair
<1>5. /\ s.idx_to_iter = n.idx_to_iter /\ s.iter_to_idx = n.iter_to_idx
      /\ s.next = n.next /\ s.is_alive = n.is_alive /\ s.lower_bound = n.lower_bound
      /\ s.iter_cond = [i \in Pair |-> n.idx_to_iter[i] \in keep /\ n.iter_cond[i]]
  BY <1>4 DEF Nest, FilteredSpace, NestedSpace
<1> HIDE DEF s, n
<1>6. ASSUME NEW i \in Pair
      PROVE  /\ i[1] \in Int /\ i[2] \in Int /\ i = <<i[1], i[2]>>
             /\ s.idx_to_iter[i] = i
             /\ s.is_alive[i] <=> Under(outer, i[1])
             /\ s.iter_cond[i] <=> i \in Nested(outer, inner, keep)
             /\ s.iter_cond[i] \in BOOLEAN
             /\ s.next[i] = IF Under(inner[i[1]], i[2]) THEN <<i[1], i[2] + 1>> ELSE <<i[1] + 1, start>>
  <2>1. i[1] \in Int /\ i[2] \in Int /\ i = <<i[1], i[2]>>
    BY DEF Pair
  <2>2. /\ outer.idx_to_iter[i[1]] = i[1] /\ outer.next[i[1]] = i[1] + 1
        /\ outer.is_alive[i[1]] <=> Under(outer, i[1])
        /\ outer.iter_cond[i[1]] <=> InRange(outer, i[1])
    BY <1>3, <2>1 DEF IsRange
  <2>3. InnerAt(outer, inner, i) = inner[i[1]]
    BY <2>2 DEF InnerAt
  <2> DEFINE in == inner[i[1]]
  <2>4. /\ in.idx_to_iter[i[2]] = i[2] /\ in.next[i[2]] = i[2] + 1
        /\ in.is_alive[i[2]] <=> Under(in, i[2])
        /\ in.iter_cond[i[2]] <=> InRange(in, i[2])
    BY <1>1, <2>1 DEF IsRange
  <2> HIDE DEF in
  <2>5. n.idx_to_iter[i] = i /\ s.idx_to_iter[i] = i
    BY <1>4, <1>5, <2>1, <2>2, <2>3, <2>4 DEF in
  <2>6. s.is_alive[i] <=> Under(outer, i[1])
    BY <1>4, <1>5, <2>2
  <2>7. n.iter_cond[i] <=> InRange(outer, i[1]) /\ InRange(in, i[2])
    BY <1>4, <2>2, <2>3, <2>4 DEF in
  <2>8. s.iter_cond[i] = (i \in keep /\ n.iter_cond[i])
    BY <1>5, <2>5
  <2>9. s.iter_cond[i] <=> i \in Nested(outer, inner, keep)
    BY <2>7, <2>8 DEF Nested, in
  <2>10. s.iter_cond[i] \in BOOLEAN
    BY <2>8
  <2>11. s.next[i] = IF Under(in, i[2]) THEN <<i[1], i[2] + 1>> ELSE <<i[1] + 1, start>>
    <3>1. s.next[i] = NestedNext(outer, inner, start, i)
      BY <1>4, <1>5
    <3>2. NestedNext(outer, inner, start, i)
            = IF in.is_alive[i[2]] THEN <<i[1], in.next[i[2]]>> ELSE <<outer.next[i[1]], start>>
      BY <2>3 DEF NestedNext, in
    <3>3. QED BY <2>2, <2>4, <3>1, <3>2
  <2>12. QED BY <2>1, <2>5, <2>6, <2>9, <2>10, <2>11 DEF in
<1>7. s.iter_to_idx[<<first, start>>] = <<first, start>>
  <2>1. <<first, start>> \in Pair
    BY DEF Pair
  <2>2. outer.iter_to_idx[first] = first
    BY <1>3 DEF IsRange
  <2>3. QED BY <1>3, <1>4, <1>5, <2>1, <2>2
<1>8. Walks(s, outer, inner, keep, first, start)
  BY <1>1, <1>2, <1>4, <1>5, <1>6, <1>7 DEF Walks
<1>9. QED BY <1>8 DEF s

(* They obey the laws of pairs.                                            *)
LEMMA NestLaws ==
  ASSUME NEW outer, NEW inner, NEW keep, IsNest(outer, inner)
  PROVE  /\ PairLaws(Nest(outer, inner, keep), Nested(outer, inner, keep))
         /\ \A lb \in Nest(outer, inner, keep).lower_bound : lb[1] \in outer.lower_bound
<1> DEFINE s == Nest(outer, inner, keep)
           Sol == Nested(outer, inner, keep)
<1>1. PICK first \in Int, start \in Int : Walks(s, outer, inner, keep, first, start)
  BY NestWalk
<1> HIDE DEF s
<1>2. /\ outer.lower_bound = {first}
      /\ \A t \in Int : IsRange(inner[t]) /\ inner[t].lower_bound = {start}
      /\ s.lower_bound = {<<first, start>>} /\ s.iter_to_idx[<<first, start>>] = <<first, start>>
  BY <1>1 DEF Walks
<1>3. IsRange(outer)
  BY DEF IsNest
<1>4. ASSUME NEW i \in Pair
      PROVE  /\ i[1] \in Int /\ i[2] \in Int /\ i = <<i[1], i[2]>>
             /\ s.idx_to_iter[i] = i
             /\ s.is_alive[i] <=> Under(outer, i[1])
             /\ s.iter_cond[i] <=> i \in Sol
             /\ s.iter_cond[i] \in BOOLEAN
             /\ s.next[i] = IF Under(inner[i[1]], i[2]) THEN <<i[1], i[2] + 1>> ELSE <<i[1] + 1, start>>
  BY <1>1 DEF Walks, Pair
<1>5. ASSUME NEW x \in Sol
      PROVE  /\ x \in Pair /\ first <= x[1] /\ start <= x[2]
             /\ Under(outer, x[1]) /\ Under(inner[x[1]], x[2])
  <2>1. x \in Pair /\ InRange(outer, x[1]) /\ InRange(inner[x[1]], x[2])
    BY DEF Nested
  <2>2. x[1] \in Int
    BY <1>4, <2>1
  <2>3. inner[x[1]].lower_bound = {start}
    BY <1>2, <2>2
  <2> HIDE DEF Sol
  <2>4. QED BY <1>2, <2>1, <2>3 DEF InRange
<1>6. /\ \A j, k \in Int : j <= k /\ Under(outer, k) => Under(outer, j)
      /\ \A t, j, k \in Int : j <= k /\ Under(inner[t], k) => Under(inner[t], j)
  <2>1. \A b \in outer.upper_bound : b \in Int
    BY <1>3 DEF IsRange, IsSpace, Optional
  <2>2. \A t \in Int : \A b \in inner[t].upper_bound : b \in Int
    <3>1. ASSUME NEW t \in Int PROVE inner[t].upper_bound \in Optional
      BY <1>2 DEF IsRange, IsSpace
    <3>2. QED BY <3>1 DEF Optional
  <2>3. QED BY <2>1, <2>2 DEF Under
<1> HIDE DEF Sol
<1>7. ASSUME NEW i \in Pair
      PROVE  /\ s.next[i] \in Pair
             /\ Before(i, s.next[i])
  <2>1. i[1] \in Int /\ i[2] \in Int
    BY <1>4
  <2>2. CASE Under(inner[i[1]], i[2])
    <3>1. s.next[i] = <<i[1], i[2] + 1>>
      BY <1>4, <2>2
    <3>2. QED BY <2>1, <3>1 DEF Pair, Before
  <2>3. CASE ~Under(inner[i[1]], i[2])
    <3>1. s.next[i] = <<i[1] + 1, start>>
      BY <1>4, <2>3
    <3>2. QED BY <2>1, <3>1 DEF Pair, Before
  <2>4. QED BY <2>2, <2>3
<1>8. ASSUME NEW i \in Pair, s.is_alive[i], NEW x \in Sol, Before(i, x)
       PROVE  s.is_alive[s.next[i]] /\ ~Before(x, s.next[i])
  <2>1. /\ x[1] \in Int /\ x[2] \in Int /\ i[1] \in Int /\ i[2] \in Int
        /\ i[1] < x[1] \/ (i[1] = x[1] /\ i[2] < x[2])
    BY <1>4, <1>5, <1>8 DEF Before
  <2>2. CASE Under(inner[i[1]], i[2])
    <3>1. s.next[i] = <<i[1], i[2] + 1>>
      BY <1>4, <2>2
    <3>2. s.is_alive[s.next[i]]
      BY <1>4, <1>7, <1>8, <3>1
    <3>3. QED BY <2>1, <3>1, <3>2 DEF Before
  <2>3. CASE ~Under(inner[i[1]], i[2])
    <3>1. s.next[i] = <<i[1] + 1, start>>
      BY <1>4, <2>3
    <3>2. i[1] < x[1]
      <4>1. i[1] = x[1] /\ i[2] < x[2] => Under(inner[i[1]], i[2])
        BY <1>5, <1>6, <2>1
      <4>2. QED BY <2>1, <2>3, <4>1
    <3>3. Under(outer, i[1] + 1)
      BY <1>5, <1>6, <2>1, <3>2
    <3>4. s.is_alive[s.next[i]]
      BY <1>4, <1>7, <3>1, <3>3
    <3>5. QED BY <1>5, <2>1, <3>1, <3>2, <3>4 DEF Before
  <2>4. QED BY <2>2, <2>3
<1>9. ASSUME NEW x \in Sol
       PROVE  s.is_alive[<<first, start>>] /\ ~Before(x, <<first, start>>)
  <2>1. x[1] \in Int /\ x[2] \in Int
    BY <1>4, <1>5
  <2>2. Under(outer, first) /\ <<first, start>> \in Pair
    BY <1>5, <1>6, <2>1 DEF Pair
  <2>3. s.is_alive[<<first, start>>]
    BY <1>4, <2>2
  <2>4. QED BY <1>5, <2>1, <2>3 DEF Before
<1>10. <<first, start>> \in Pair
  BY DEF Pair
<1>11. Sol \in SUBSET Pair
  BY <1>5
<1>12. PairLaws(s, Sol)
  <2>1. \A i \in Pair :
          /\ s.idx_to_iter[i] = i
          /\ s.next[i] \in Pair
          /\ s.iter_cond[i] \in BOOLEAN
          /\ s.is_alive[i] =>
               /\ Before(i, s.next[i])
               /\ s.iter_cond[i] <=> i \in Sol
               /\ \A x \in Sol : Before(i, x) => s.is_alive[s.next[i]] /\ ~Before(x, s.next[i])
    BY <1>4, <1>7, <1>8
  <2>2. QED BY <1>2, <1>9, <1>10, <1>11, <2>1 DEF PairLaws
<1>13. \A lb \in s.lower_bound : lb[1] \in outer.lower_bound
  BY <1>2
<1>14. QED BY <1>12, <1>13 DEF s, Sol

-----------------------------------------------------------------------------
(* What the queries must be: a condition over nested ranges, which is what *)
(* the pass makes of comparisons and BOOL symbols, and a rectangle asks    *)
(* for nothing but n values of the inner iterator.                         *)
IsBlock(n, inner, keep) ==
  /\ n \in Int
  /\ Pair \subseteq keep
  /\ n > 0 => \A t \in Int : \A b \in inner[t].lower_bound : inner[t].upper_bound = {b + n - 1}

AllNested ==
  \A query \in Queries :
    /\ AnswerOf(query) \in SUBSET Pair
    /\ \E outer, inner, keep :
         /\ IsNest(outer, inner)
         /\ SpaceOf(query) = Nest(outer, inner, keep)
         /\ Promised(query) = Nested(outer, inner, keep)
         /\ Rectangle(query) => IsBlock(query.n, inner, keep)
    /\ Separable(query) => Promised(query) = AnswerOf(query)

LEMMA NestedPaired ==
  ASSUME AllNested
  PROVE  AllPaired
<1>1. ASSUME NEW query \in Queries
      PROVE  PairLaws(SpaceOf(query), Promised(query))
  BY <1>1, NestLaws DEF AllNested
<1>2. QED BY <1>1 DEF AllNested, AllPaired

(* Rows are written in the order of their pairs, null rows too, whatever   *)
(* the ranges and the condition, in both code paths.                       *)
THEOREM PairRowsSorted ==
  ASSUME AllNested
  PROVE  Spec => []PairsSorted
<1>1. PInv => PairsSorted
  BY DEF PInv, Ordered
<1>2. Spec => []PInv
  BY NestedPaired, PairInvariance
<1>3. QED BY <1>1, <1>2, PTL

(* Given nests of two ranges that stand for their predicates: a finished   *)
(* query of iterators that are not compared has listed exactly its pairs.  *)
THEOREM SeparablePairsExact ==
  ASSUME AllNested
  PROVE  Spec => []PairsExact
<1>1. PInv => PairsExact
  BY NestedPaired, FinishedPairs DEF AllPaired, PairsExact, PInv
<1>2. Spec => []PInv
  BY NestedPaired, PairInvariance
<1>3. QED BY <1>1, <1>2, PTL

(* Given the same, whatever the predicate, no pair is made up and the ones *)
(* that are lost lie before the outer lower bound.                         *)
THEOREM PairsLostToBoundOnly ==
  ASSUME AllNested
  PROVE  Spec => []PairsLostToBound
<1>1. ASSUME PInv, pc = "done"
      PROVE  /\ Result \subseteq AnswerOf(q)
             /\ \A t \in AnswerOf(q) \ Result : \A lb \in space.lower_bound : t[1] < lb[1]
  <2>1. Result = Promised(q)
    BY <1>1, NestedPaired, FinishedPairs
  <2>2. /\ AnswerOf(q) \in SUBSET Pair
        /\ PairLaws(space, Promised(q))
    BY <1>1, NestedPaired, PairFacts DEF AllNested, PInv
  <2>3. PICK first \in Pair : space.lower_bound = {first}
    BY <2>2 DEF PairLaws
  <2>4. Promised(q) = {x \in AnswerOf(q) : first[1] <= x[1]}
    BY <2>3 DEF Promised, space
  <2>5. \A x \in Pair : x[1] \in Int
    BY DEF Pair
  <2>6. QED BY <2>1, <2>2, <2>3, <2>4, <2>5
<1>2. PInv => PairsLostToBound
  BY <1>1 DEF PairsLostToBound
<1>3. Spec => []PInv
  BY NestedPaired, PairInvariance
<1>4. QED BY <1>2, <1>3, PTL

-----------------------------------------------------------------------------
(* Rows by position.  In a rectangle the walk visits n pairs that count    *)
(* and one that does not for each outer value.                             *)
BlockLaws(s, n) ==
  \A lb \in s.lower_bound :
    /\ lb \in Pair
    /\ \A i \in Pair : lb[1] <= i[1] /\ lb[2] <= i[2] =>
         /\ s.next[i] = IF i[2] < lb[2] + n THEN <<i[1], i[2] + 1>> ELSE <<i[1] + 1, lb[2]>>
         /\ s.is_alive[i] => (s.iter_cond[i] <=> i[2] < lb[2] + n)

(* Where the loop stands in the rectangle from lb on, and the rows so far. *)
Row(lb) == idx[1] - lb[1]
Col(lb) == idx[2] - lb[2]

InBlocks(lb, n) ==
  /\ Row(lb) \in Nat /\ Col(lb) \in 0 .. n
  /\ pc \in {"exit_cond", "body"} => out_vec_idx = Row(lb) * n + Col(lb)
  /\ pc = "incr" => out_vec_idx = Row(lb) * n + (IF Col(lb) < n THEN Col(lb) + 1 ELSE n)
  /\ \A k \in DOMAIN out_vec : out_vec[k].iter[1] = lb[1] + k \div n

Blocks ==
  Rectangle(q) /\ ~vectorize /\ q.n > 0 => \A lb \in space.lower_bound : InBlocks(lb, q.n)

(* The rectangles of the queries obey the laws.                            *)
LEMMA NestedBlocks ==
  ASSUME AllNested, NEW query \in Queries, Rectangle(query)
  PROVE  /\ query.n \in Int
         /\ query.n > 0 => BlockLaws(SpaceOf(query), query.n)
<1> DEFINE n == query.n
<1>1. PICK outer, inner, keep :
        /\ IsNest(outer, inner)
        /\ SpaceOf(query) = Nest(outer, inner, keep)
        /\ IsBlock(n, inner, keep)
  BY DEF AllNested
<1> DEFINE s == Nest(outer, inner, keep)
<1>2. PICK first \in Int, start \in Int : Walks(s, outer, inner, keep, first, start)
  BY <1>1, NestWalk
<1> HIDE DEF s, n
<1>3. /\ n \in Int /\ Pair \subseteq keep
      /\ n > 0 => \A t \in Int : \A b \in inner[t].lower_bound : inner[t].upper_bound = {b + n - 1}
  BY <1>1 DEF IsBlock
<1>4. ASSUME n > 0
      PROVE  BlockLaws(s, n)
  <2>1. /\ s.lower_bound = {<<first, start>>}
        /\ outer.lower_bound = {first}
        /\ \A t \in Int : inner[t].lower_bound = {start}
        /\ \A t \in Int : inner[t].upper_bound = {start + n - 1}
    BY <1>2, <1>3, <1>4 DEF Walks
  <2>2. ASSUME NEW i \in Pair, first <= i[1], start <= i[2]
        PROVE  /\ s.next[i] = IF i[2] < start + n THEN <<i[1], i[2] + 1>> ELSE <<i[1] + 1, start>>
               /\ s.is_alive[i] => (s.iter_cond[i] <=> i[2] < start + n)
    <3>1. /\ i[1] \in Int /\ i[2] \in Int
          /\ s.is_alive[i] <=> Under(outer, i[1])
          /\ s.iter_cond[i] <=> i \in Nested(outer, inner, keep)
          /\ s.next[i] = IF Under(inner[i[1]], i[2]) THEN <<i[1], i[2] + 1>> ELSE <<i[1] + 1, start>>
      BY <1>2 DEF Walks, Pair
    <3>2. Under(inner[i[1]], i[2]) <=> i[2] < start + n
      <4>1. inner[i[1]].upper_bound = {start + n - 1}
        BY <2>1, <3>1
      <4>2. Under(inner[i[1]], i[2]) <=> i[2] <= start + n - 1
        BY <4>1 DEF Under
      <4>3. i[2] <= start + n - 1 <=> i[2] < start + n
        BY <1>3, <3>1
      <4>4. QED BY <4>2, <4>3
    <3>3. InRange(inner[i[1]], i[2]) <=> i[2] < start + n
      BY <2>1, <2>2, <3>1, <3>2 DEF InRange
    <3>4. s.is_alive[i] => InRange(outer, i[1])
      BY <2>1, <2>2, <3>1 DEF InRange
    <3>5. s.is_alive[i] => (i \in Nested(outer, inner, keep) <=> i[2] < start + n)
      BY <1>3, <3>3, <3>4 DEF Nested
    <3>6. QED BY <3>1, <3>2, <3>5
  <2>3. <<first, start>> \in Pair
    BY DEF Pair
  <2>4. QED BY <2>1, <2>2, <2>3 DEF BlockLaws
<1>5. QED BY <1>1, <1>3, <1>4 DEF s, n

(* The position of a row tells the outer value it was written for.         *)
LEMMA BlockArithmetic ==
  ASSUME NEW a \in Nat, NEW n \in Nat \ {0}
  PROVE  /\ a * n \in Nat
         /\ (a + 1) * n = a * n + n
         /\ \A r \in 0 .. n - 1 : (a * n + r) \div n = a
<1>1. a * n \in Nat /\ (a + 1) * n = a * n + n
  OBVIOUS
<1>2. ASSUME NEW r \in 0 .. n - 1
      PROVE  (a * n + r) \div n = a
  OBVIOUS
<1>3. QED BY <1>1, <1>2

LEMMA BlocksInit ==
  ASSUME AllNested, Init
  PROVE  Blocks
<1>1. SUFFICES ASSUME Rectangle(q), q.n > 0, NEW lb \in space.lower_bound
               PROVE  InBlocks(lb, q.n)
  BY DEF Blocks
<1>2. /\ q \in Queries /\ pc = "exit_cond" /\ out_vec = Empty /\ out_vec_idx = 0
      /\ \E b \in space.lower_bound : idx = space.iter_to_idx[b]
  BY DEF Init
<1>3. q.n \in Int
  BY <1>1, <1>2, NestedBlocks
<1>4. PICK first \in Pair : space.lower_bound = {first} /\ space.iter_to_idx[first] = first
  BY <1>2, NestedPaired, PairFacts DEF PairLaws
<1>5. idx = lb /\ lb[1] \in Int /\ lb[2] \in Int
  BY <1>1, <1>2, <1>4 DEF Pair
<1>6. Row(lb) = 0 /\ Col(lb) = 0
  BY <1>5 DEF Row, Col
<1>7. out_vec_idx = Row(lb) * q.n + Col(lb)
  BY <1>2, <1>3, <1>6
<1>8. DOMAIN out_vec = {}
  BY <1>2 DEF Empty
<1>9. QED BY <1>1, <1>2, <1>3, <1>6, <1>7, <1>8 DEF InBlocks

(* What the steps of the loop do to a rectangle.                           *)
LEMMA BlocksStep ==
  ASSUME AllNested, PInv, Blocks, [Next]_vars
  PROVE  Blocks'
<1>1. SUFFICES ASSUME Rectangle(q), ~vectorize, q.n > 0, UNCHANGED <<q, vectorize>>,
                      NEW lb \in space.lower_bound
               PROVE  InBlocks(lb, q.n)'
  <2>1. UNCHANGED <<q, vectorize>>
    BY DEF Next, vars, Continue, Break, ScalarBody, VectorBody, Incr, Post
  <2>2. space' = space /\ Rectangle(q)' = Rectangle(q) /\ q'.n = q.n
    BY <2>1 DEF space
  <2>3. QED BY <2>1, <2>2 DEF Blocks
<1> DEFINE n == q.n
           row == Row(lb)
           col == Col(lb)
<1>2. q \in Queries /\ idx \in Pair /\ out_vec_idx \in Nat /\ DOMAIN out_vec = 0 .. out_vec_idx - 1
  BY DEF PInv, Typed
<1>3. n \in Nat \ {0} /\ BlockLaws(space, n)
  BY <1>1, <1>2, NestedBlocks DEF space
<1>4. /\ row \in Nat /\ col \in 0 .. n
      /\ pc \in {"exit_cond", "body"} => out_vec_idx = row * n + col
      /\ pc = "incr" => out_vec_idx = row * n + (IF col < n THEN col + 1 ELSE n)
      /\ \A k \in DOMAIN out_vec : out_vec[k].iter[1] = lb[1] + k \div n
  BY <1>1 DEF Blocks, InBlocks
<1>5. /\ lb \in Pair
      /\ lb[1] <= idx[1] /\ lb[2] <= idx[2] =>
           /\ space.next[idx] = IF idx[2] < lb[2] + n THEN <<idx[1], idx[2] + 1>> ELSE <<idx[1] + 1, lb[2]>>
           /\ Alive => (space.iter_cond[idx] <=> idx[2] < lb[2] + n)
  BY <1>1, <1>2, <1>3 DEF BlockLaws, Alive
<1>6. lb[1] \in Int /\ lb[2] \in Int /\ idx[1] \in Int /\ idx[2] \in Int
  BY <1>2, <1>5 DEF Pair
<1>7. row = idx[1] - lb[1] /\ col = idx[2] - lb[2]
  BY DEF Row, Col
<1>8. /\ space.next[idx] = IF col < n THEN <<idx[1], idx[2] + 1>> ELSE <<idx[1] + 1, lb[2]>>
      /\ Alive => (space.iter_cond[idx] <=> col < n)
  BY <1>3, <1>4, <1>5, <1>6, <1>7
<1>9. /\ row * n \in Nat
      /\ (row + 1) * n = row * n + n
      /\ \A r \in 0 .. n - 1 : (row * n + r) \div n = row
  BY <1>3, <1>4, BlockArithmetic
<1>10. InBlocks(lb, q.n)' <=>
         /\ row' \in Nat /\ col' \in 0 .. n
         /\ pc' \in {"exit_cond", "body"} => out_vec_idx' = row' * n + col'
         /\ pc' = "incr" => out_vec_idx' = row' * n + (IF col' < n THEN col' + 1 ELSE n)
         /\ \A k \in DOMAIN out_vec' : out_vec'[k].iter[1] = lb[1] + k \div n
  BY <1>1 DEF InBlocks
<1>11. row' = idx'[1] - lb[1] /\ col' = idx'[2] - lb[2]
  BY DEF Row, Col
<1> HIDE DEF n, row, col
<1>12. CASE UNCHANGED vars
  <2>1. UNCHANGED <<pc, idx, out_vec, out_vec_idx>> /\ row' = row /\ col' = col
    BY <1>7, <1>11, <1>12 DEF vars
  <2>2. QED BY <1>4, <1>10, <2>1
<1>13. CASE Continue \/ Break \/ Post
  <2>1. /\ UNCHANGED <<idx, out_vec, out_vec_idx>> /\ row' = row /\ col' = col
        /\ pc' \in {"exit_cond", "body"} => pc \in {"exit_cond", "body"}
        /\ pc' # "incr"
    BY <1>7, <1>11, <1>13 DEF Continue, Break, Post
  <2>2. QED BY <1>4, <1>10, <2>1
<1>14. CASE ScalarBody
  <2>1. /\ pc = "body" /\ pc' = "incr" /\ idx' = idx /\ row' = row /\ col' = col
        /\ IF space.iter_cond[idx] THEN WriteRow ELSE UNCHANGED <<out_vec, out_vec_idx>>
    BY <1>7, <1>11, <1>14 DEF ScalarBody
  <2>2. /\ Alive /\ Output.iter = idx
    BY <2>1, NestedPaired, PairBodyFacts
  <2>3. CASE col < n
    <3>1. WriteRow
      BY <1>8, <2>1, <2>2, <2>3
    <3>2. /\ out_vec_idx' = out_vec_idx + 1
          /\ DOMAIN out_vec' = 0 .. out_vec_idx
          /\ out_vec'[out_vec_idx].iter = idx
          /\ \A k \in 0 .. out_vec_idx - 1 : out_vec'[k] = out_vec[k]
      BY <1>2, <2>2, <3>1, StoreNext DEF WriteRow
    <3>3. out_vec_idx = row * n + col /\ col \in 0 .. n - 1
      BY <1>3, <1>4, <2>1, <2>3
    <3>4. out_vec_idx \div n = row
      BY <1>9, <3>3
    <3>5. out_vec'[out_vec_idx].iter[1] = lb[1] + out_vec_idx \div n
      BY <1>6, <1>7, <3>2, <3>4
    <3>6. \A k \in DOMAIN out_vec' : out_vec'[k].iter[1] = lb[1] + k \div n
      <4>1. 0 .. out_vec_idx = (0 .. out_vec_idx - 1) \union {out_vec_idx}
        BY <1>2
      <4>2. QED BY <1>2, <1>4, <3>2, <3>5, <4>1
    <3>7. out_vec_idx' = row' * n + (IF col' < n THEN col' + 1 ELSE n)
      BY <1>3, <1>4, <1>9, <2>1, <2>3, <3>2, <3>3
    <3>8. QED BY <1>4, <1>10, <2>1, <3>6, <3>7
  <2>4. CASE ~(col < n)
    <3>1. UNCHANGED <<out_vec, out_vec_idx>>
      BY <1>8, <2>1, <2>2, <2>4
    <3>2. out_vec_idx = row * n + n
      BY <1>3, <1>4, <2>1, <2>4
    <3>3. QED BY <1>4, <1>10, <2>1, <2>4, <3>1, <3>2
  <2>5. QED BY <2>3, <2>4
<1>15. CASE Incr
  <2>1. /\ pc = "incr" /\ pc' = "exit_cond" /\ UNCHANGED <<out_vec, out_vec_idx>>
        /\ idx' = space.next[idx]
    BY <1>15 DEF Incr
  <2>2. CASE col < n
    <3>1. row' = row /\ col' = col + 1
      BY <1>6, <1>7, <1>8, <1>11, <2>1, <2>2
    <3>2. out_vec_idx' = row' * n + col' /\ col' \in 0 .. n
      BY <1>3, <1>4, <2>1, <2>2, <3>1
    <3>3. QED BY <1>4, <1>10, <2>1, <3>1, <3>2
  <2>3. CASE ~(col < n)
    <3>1. row' = row + 1 /\ col' = 0
      BY <1>6, <1>7, <1>8, <1>11, <2>1, <2>3
    <3>2. row' * n = row * n + n
      BY <1>9, <3>1
    <3>3. out_vec_idx' = row' * n + col' /\ col' \in 0 .. n /\ row' \in Nat
      BY <1>3, <1>4, <1>9, <2>1, <2>3, <3>1, <3>2
    <3>4. QED BY <1>4, <1>10, <2>1, <3>3
  <2>4. QED BY <2>2, <2>3
<1>16. ~VectorBody
  BY <1>1 DEF VectorBody
<1>17. QED BY <1>12, <1>13, <1>14, <1>15, <1>16 DEF Next

(* The rows of a rectangle lie by position: the scalar loop writes those   *)
(* of the k-th outer value from k*n to (k + 1)*n.                          *)
THEOREM RectanglesByBlock ==
  ASSUME AllNested
  PROVE  Spec => []RectangleByBlock
<1>1. Init => PInv /\ Blocks
  BY NestedPaired, PairInit, BlocksInit
<1>2. PInv /\ Blocks /\ [Next]_vars => (PInv /\ Blocks)'
  BY NestedPaired, PairStep, BlocksStep
<1>3. PInv /\ Blocks => RectangleByBlock
  <2>1. SUFFICES ASSUME PInv, Blocks, Rectangle(q), pc = "done", ~vectorize, q.n > 0,
                        NEW i \in ValidRows, NEW lb \in space.lower_bound
                 PROVE  out_vec[i].iter[1] = lb[1] + i \div q.n
    BY DEF RectangleByBlock, RowsByBlock
  <2>2. DOMAIN out_vec = 0 .. out_len - 1
    BY <2>1 DEF PInv, Typed, Finished
  <2>3. i \in DOMAIN out_vec
    BY <2>2 DEF ValidRows
  <2>4. InBlocks(lb, q.n)
    BY <2>1 DEF Blocks
  <2>5. QED BY <2>3, <2>4 DEF InBlocks
<1>4. QED BY <1>1, <1>2, <1>3, PTL DEF Spec

-----------------------------------------------------------------------------
(* The theorems put together for one family of queries, a strip of pairs:  *)
(*                                                                         *)
(*     lo <= i <= hi,  first <= j <= last[i],  and a condition on (i, j)   *)
(*                                                                         *)
(* where  j <= last[i]  also gave the outer iterator a lower bound that    *)
(* the solver made up.                                                     *)
StripOuter(query) ==
  LBoundSpace(UBoundSpace(LBoundSpace(UniversalSpace, query.made), query.hi), query.lo)

StripInner(query) ==
  [t \in Int |-> LBoundSpace(UBoundSpace(UniversalSpace, query.last[t]), query.first)]

StripAnswer(query) ==
  {t \in Pair : /\ query.lo <= t[1] /\ t[1] <= query.hi
                /\ query.first <= t[2] /\ t[2] <= query.last[t[1]]
                /\ t \in query.keep}

(* A predicate that does not compare the iterators gives no such bound,    *)
(* and a rectangle has no condition.                                       *)
IsStrip(query) ==
  /\ query.lo \in Int /\ query.hi \in Int /\ query.made \in Int
  /\ query.first \in Int /\ query.last \in [Int -> Int]
  /\ SpaceOf(query) = Nest(StripOuter(query), StripInner(query), query.keep)
  /\ AnswerOf(query) = StripAnswer(query)
  /\ Separable(query) => query.made <= query.lo
  /\ Rectangle(query) =>
       /\ query.n \in Int /\ Pair \subseteq query.keep
       /\ \A t \in Int : query.last[t] = query.first + query.n - 1

AllStrips == \A query \in Queries : IsStrip(query)

(* The bounds of an LBoundSpace and of a UBoundSpace of no such bound.     *)
LEMMA FirstBounds ==
  ASSUME NEW s, IsRange(s), NEW b \in Int
  PROVE  /\ LBoundSpace(s, b).upper_bound = s.upper_bound
         /\ UBoundSpace(s, b).lower_bound = s.lower_bound
         /\ s.lower_bound = {} => LBoundSpace(s, b).lower_bound = {b}
         /\ s.upper_bound = {} => UBoundSpace(s, b).upper_bound = {b}
<1>1. IsSpace(s)
  BY DEF IsRange
<1>2. /\ LBoundSpace(s, b).upper_bound = s.upper_bound
      /\ UBoundSpace(s, b).lower_bound = s.lower_bound
      /\ LBoundSpace(s, b).lower_bound = Highest({b} \union s.lower_bound)
      /\ UBoundSpace(s, b).upper_bound = Lowest({b} \union s.upper_bound)
  BY <1>1 DEF LBoundSpace, UBoundSpace, IsSpace
<1>3. Highest({b} \union {}) = {b} /\ Lowest({b} \union {}) = {b}
  BY DEF Highest, Lowest
<1>4. QED BY <1>2, <1>3

LEMMA StripNested ==
  ASSUME NEW query \in Queries, IsStrip(query)
  PROVE  /\ IsNest(StripOuter(query), StripInner(query))
         /\ Promised(query) = Nested(StripOuter(query), StripInner(query), query.keep)
         /\ \A x \in AnswerOf(query) : x \in Promised(query) <=> query.made <= x[1]
<1> DEFINE outer == StripOuter(query)
           inner == StripInner(query)
           made == LBoundSpace(UniversalSpace, query.made)
           upto == UBoundSpace(made, query.hi)
<1>1. /\ query.lo \in Int /\ query.hi \in Int /\ query.made \in Int
      /\ query.first \in Int /\ query.last \in [Int -> Int]
      /\ SpaceOf(query) = Nest(outer, inner, query.keep)
      /\ AnswerOf(query) = StripAnswer(query)
  BY DEF IsStrip
<1>2. UniversalSpace.lower_bound = {} /\ UniversalSpace.upper_bound = {}
  BY DEF UniversalSpace
<1>3. IsRange(made) /\ made.lower_bound = {query.made} /\ made.upper_bound = {}
  BY <1>1, <1>2, RangeUniversal, RangeLBound, FirstBounds
<1> HIDE DEF made
<1>4. IsRange(upto) /\ upto.lower_bound = {query.made} /\ upto.upper_bound = {query.hi}
  <2>1. IsRange(UBoundSpace(made, query.hi))
    BY <1>1, <1>3, RangeUBound
  <2>2. /\ UBoundSpace(made, query.hi).lower_bound = made.lower_bound
        /\ UBoundSpace(made, query.hi).upper_bound = {query.hi}
    BY <1>1, <1>3, FirstBounds
  <2>3. QED BY <1>3, <2>1, <2>2
<1>5. outer = LBoundSpace(upto, query.lo)
  BY DEF StripOuter, made
<1> HIDE DEF upto
<1>6. PICK low \in Int : /\ outer.lower_bound = {low}
                         /\ \A x \in Int : low <= x <=> query.made <= x /\ query.lo <= x
  <2>1. IsSpace(upto)
    BY <1>4 DEF IsRange
  <2>2. outer.lower_bound = Highest({query.lo} \union {query.made})
    BY <1>4, <1>5, <2>1 DEF LBoundSpace, IsSpace
  <2>3. CASE query.lo <= query.made
    <3>1. Highest({query.lo} \union {query.made}) = {query.made}
      BY <1>1, <2>3 DEF Highest
    <3>2. \A x \in Int : query.made <= x <=> query.made <= x /\ query.lo <= x
      BY <1>1, <2>3
    <3>3. QED BY <1>1, <2>2, <3>1, <3>2
  <2>4. CASE query.made < query.lo
    <3>1. Highest({query.lo} \union {query.made}) = {query.lo}
      BY <1>1, <2>4 DEF Highest
    <3>2. \A x \in Int : query.lo <= x <=> query.made <= x /\ query.lo <= x
      BY <1>1, <2>4
    <3>3. QED BY <1>1, <2>2, <3>1, <3>2
  <2>5. QED BY <1>1, <2>3, <2>4
<1>7. IsRange(outer) /\ outer.upper_bound = {query.hi}
  <2>1. IsRange(LBoundSpace(upto, query.lo))
    BY <1>1, <1>4, RangeLBound
  <2>2. LBoundSpace(upto, query.lo).upper_bound = upto.upper_bound
    BY <1>1, <1>4, FirstBounds
  <2>3. QED BY <1>4, <1>5, <2>1, <2>2
<1>8. ASSUME NEW t \in Int
      PROVE  /\ IsRange(inner[t])
             /\ inner[t].lower_bound = {query.first}
             /\ inner[t].upper_bound = {query.last[t]}
  <2> DEFINE u == UBoundSpace(UniversalSpace, query.last[t])
  <2>1. query.last[t] \in Int
    BY <1>1
  <2>2. IsRange(u) /\ u.lower_bound = {} /\ u.upper_bound = {query.last[t]}
    BY <1>2, <2>1, RangeUniversal, RangeUBound, FirstBounds
  <2>3. inner[t] = LBoundSpace(u, query.first)
    BY DEF StripInner
  <2> HIDE DEF u
  <2>4. IsRange(LBoundSpace(u, query.first))
    BY <1>1, <2>2, RangeLBound
  <2>5. /\ LBoundSpace(u, query.first).lower_bound = {query.first}
        /\ LBoundSpace(u, query.first).upper_bound = u.upper_bound
    BY <1>1, <2>2, FirstBounds
  <2>6. QED BY <2>2, <2>3, <2>4, <2>5
<1> HIDE DEF outer, inner
<1>9. IsNest(outer, inner)
  BY <1>1, <1>6, <1>7, <1>8 DEF IsNest
<1>10. SpaceOf(query).lower_bound = {<<low, query.first>>}
  <2>1. PICK first \in Int, start \in Int :
          Walks(Nest(outer, inner, query.keep), outer, inner, query.keep, first, start)
    BY <1>9, NestWalk
  <2>2. 0 \in Int
    OBVIOUS
  <2>3. first = low /\ start = query.first
    BY <1>6, <1>8, <2>1, <2>2 DEF Walks
  <2>4. QED BY <1>1, <2>1, <2>3 DEF Walks
<1>11. Promised(query) = {x \in StripAnswer(query) : low <= x[1]}
  BY <1>1, <1>10 DEF Promised
<1>12. ASSUME NEW x \in Pair
       PROVE  /\ x[1] \in Int /\ x[2] \in Int
              /\ InRange(outer, x[1]) <=> low <= x[1] /\ x[1] <= query.hi
              /\ InRange(inner[x[1]], x[2]) <=> query.first <= x[2] /\ x[2] <= query.last[x[1]]
  <2>1. x[1] \in Int /\ x[2] \in Int
    BY DEF Pair
  <2>2. QED BY <1>6, <1>7, <1>8, <2>1 DEF InRange, Under
<1>13. \A x \in Pair : x \in StripAnswer(query) /\ low <= x[1] <=> x \in Nested(outer, inner, query.keep)
  <2>1. \A x \in Pair : low <= x[1] => query.lo <= x[1]
    BY <1>6, <1>12
  <2>2. QED BY <1>12, <2>1 DEF StripAnswer, Nested
<1>14. Promised(query) = Nested(outer, inner, query.keep)
  BY <1>11, <1>13 DEF StripAnswer, Nested
<1>15. ASSUME NEW x \in AnswerOf(query)
       PROVE  x \in Promised(query) <=> query.made <= x[1]
  <2>1. x \in Pair /\ query.lo <= x[1] /\ x \in StripAnswer(query)
    BY <1>1 DEF StripAnswer
  <2>2. QED BY <1>6, <1>11, <1>12, <2>1
<1>16. QED BY <1>9, <1>14, <1>15 DEF outer, inner

LEMMA StripsNested ==
  ASSUME AllStrips
  PROVE  AllNested
<1>1. ASSUME NEW query \in Queries
      PROVE  /\ AnswerOf(query) \in SUBSET Pair
             /\ IsNest(StripOuter(query), StripInner(query))
             /\ SpaceOf(query) = Nest(StripOuter(query), StripInner(query), query.keep)
             /\ Promised(query) = Nested(StripOuter(query), StripInner(query), query.keep)
             /\ Rectangle(query) => IsBlock(query.n, StripInner(query), query.keep)
             /\ Separable(query) => Promised(query) = AnswerOf(query)
  <2>1. IsStrip(query)
    BY DEF AllStrips
  <2>2. AnswerOf(query) \in SUBSET Pair
    BY <2>1 DEF IsStrip, StripAnswer
  <2>3. ASSUME Rectangle(query)
        PROVE  IsBlock(query.n, StripInner(query), query.keep)
    <3>1. ASSUME NEW t \in Int
          PROVE  /\ StripInner(query)[t].lower_bound = {query.first}
                 /\ StripInner(query)[t].upper_bound = {query.first + query.n - 1}
      <4> DEFINE u == UBoundSpace(UniversalSpace, query.last[t])
      <4>1. /\ query.first \in Int /\ query.last[t] \in Int
            /\ query.last[t] = query.first + query.n - 1
        BY <2>1, <2>3 DEF IsStrip
      <4>2. UniversalSpace.lower_bound = {} /\ UniversalSpace.upper_bound = {}
        BY DEF UniversalSpace
      <4>3. IsRange(u) /\ u.lower_bound = {} /\ u.upper_bound = {query.last[t]}
        BY <4>1, <4>2, RangeUniversal, RangeUBound, FirstBounds
      <4>4. StripInner(query)[t] = LBoundSpace(u, query.first)
        BY DEF StripInner
      <4> HIDE DEF u
      <4>5. QED BY <4>1, <4>3, <4>4, FirstBounds
    <3>2. QED BY <2>1, <2>3, <3>1 DEF IsStrip, IsBlock
  <2>4. ASSUME Separable(query)
        PROVE  Promised(query) = AnswerOf(query)
    <3>1. \A x \in AnswerOf(query) : x[1] \in Int /\ query.lo <= x[1]
      BY <2>1 DEF IsStrip, StripAnswer, Pair
    <3>2. query.made <= query.lo /\ query.made \in Int /\ query.lo \in Int
      BY <2>1, <2>4 DEF IsStrip
    <3>3. \A x \in AnswerOf(query) : x \in Promised(query)
      BY <2>1, <3>1, <3>2, StripNested
    <3>4. QED BY <3>3 DEF Promised
  <2>5. QED BY <2>1, <2>2, <2>3, <2>4, StripNested DEF IsStrip
<1>2. QED BY <1>1 DEF AllNested

(* Of a strip, the loop lists in order each pair once that is not below    *)
(* the bound the solver made up, and all of it when there is none.         *)
THEOREM StripsListed ==
  ASSUME AllStrips
  PROVE  /\ Spec => [](pc = "done" => Result = {x \in AnswerOf(q) : q.made <= x[1]})
         /\ Spec => [](PairsExact /\ PairsSorted /\ RectangleByBlock)
<1>1. AllNested
  BY StripsNested
<1>2. PInv => (pc = "done" => Result = {x \in AnswerOf(q) : q.made <= x[1]})
  <2>1. SUFFICES ASSUME PInv, pc = "done"
                 PROVE  Result = {x \in AnswerOf(q) : q.made <= x[1]}
    OBVIOUS
  <2>2. Result = Promised(q)
    BY <1>1, <2>1, NestedPaired, FinishedPairs
  <2>3. \A x \in AnswerOf(q) : x \in Promised(q) <=> q.made <= x[1]
    BY <2>1, StripNested DEF AllStrips, PInv
  <2>4. Promised(q) \subseteq AnswerOf(q)
    BY DEF Promised
  <2>5. QED BY <2>2, <2>3, <2>4
<1>3. Spec => []PInv
  BY <1>1, NestedPaired, PairInvariance
<1>4. Spec => [](pc = "done" => Result = {x \in AnswerOf(q) : q.made <= x[1]})
  BY <1>2, <1>3, PTL
<1>5. Spec => [](PairsExact /\ PairsSorted /\ RectangleByBlock)
  <2>1. (Spec => []PairsExact) /\ (Spec => []PairsSorted) /\ (Spec => []RectangleByBlock)
    BY <1>1, SeparablePairsExact, PairRowsSorted, RectanglesByBlock
  <2>2. QED BY <2>1, PTL
<1>6. QED BY <1>4, <1>5, PTL
=============================================================================
