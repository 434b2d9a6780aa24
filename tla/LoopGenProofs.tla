--------------------------- MODULE LoopGenProofs ----------------------------
(***************************************************************************)
(* The loop LoopGen generates: its buffers and its null count are right    *)
(* over every space, and its output over every space that obeys the laws,  *)
(* whatever the vectors.                                                   *)
(***************************************************************************)
EXTENDS LoopGen, SpaceLaws, FiniteSetTheorems, TLAPS

(* Each query was given a space; and one that stands for its answer.       *)
AllSpaces == \A query \in Queries : IsSpace(SpaceOf(query))
AllLawful == \A query \in Queries : Lawful(SpaceOf(query), AnswerOf(query))

-----------------------------------------------------------------------------
(* The inductive invariant.                                                *)

Answer == AnswerOf(q)
Here == space.idx_to_iter[idx]
Alive == space.is_alive[idx]

(* The indices the loop can reach.                                         *)
Reach(query) ==
  CHOOSE G \in SUBSET SpaceOf(query).idx :
    /\ Laws(SpaceOf(query), G, AnswerOf(query))
    /\ \A lb \in SpaceOf(query).lower_bound :
         \/ StartLaw(SpaceOf(query), G, lb)
         \/ DeadStart(SpaceOf(query), G, AnswerOf(query), lb)

(* What has been emitted, by the block that runs next.                     *)
Progress ==
  /\ pc \in {"exit_cond", "body"} => Emitted = {x \in Answer : Alive => x < Here}
  /\ pc = "incr" => Emitted = {x \in Answer : x <= Here}
  /\ pc \in {"body", "incr"} => Alive
  /\ pc \in {"post", "done"} => Emitted = Answer

(* Rows are in order, and none is ahead of the loop.                       *)
Order ==
  /\ OutputSorted
  /\ pc \in {"exit_cond", "body"} /\ Alive => \A i \in DOMAIN out_vec : out_vec[i].iter < Here
  /\ pc = "incr" => \A i \in DOMAIN out_vec : out_vec[i].iter <= Here

(* null_count is the number of rows that do not count.                     *)
Nulls == null_count = Cardinality(DOMAIN out_vec \ Counted)

(* A finished output.                                                      *)
Finished ==
  pc = "done" =>
    /\ out_len = out_vec_idx
    /\ null_count > 0 => out_bits = [i \in 0 .. out_vec_idx - 1 |-> bytemap[i]]
    /\ null_count = 0 => out_bits = Empty

(* What holds over every space, and what the laws add.                     *)
Books == TypeOK /\ q \in Queries /\ Nulls /\ Finished

Inv ==
  /\ Books
  /\ idx \in Reach(q)
  /\ Progress
  /\ Order

-----------------------------------------------------------------------------
(* Facts about buffers and spaces.                                         *)

(* One more write to a buffer filled from 0 leaves no gap.                 *)
LEMMA StoreNext ==
  ASSUME NEW buf, NEW n \in Nat, DOMAIN buf = 0 .. n - 1, NEW x
  PROVE  /\ DOMAIN Store(buf, n, x) = 0 .. n
         /\ Store(buf, n, x)[n] = x
         /\ \A i \in 0 .. n - 1 : Store(buf, n, x)[i] = buf[i]
<1>1. DOMAIN buf \union {n} = 0 .. n
  OBVIOUS
<1>2. Store(buf, n, x) = [j \in 0 .. n |-> IF j = n THEN x ELSE buf[j]]
  BY <1>1 DEF Store
<1>3. QED BY <1>2

(* The reachable indices of a lawful space obey the laws.                  *)
LEMMA ReachLaws ==
  ASSUME AllLawful, NEW query \in Queries
  PROVE  /\ IsSpace(SpaceOf(query))
         /\ LowerLaw(SpaceOf(query), AnswerOf(query))
         /\ Laws(SpaceOf(query), Reach(query), AnswerOf(query))
         /\ \A lb \in SpaceOf(query).lower_bound :
              \/ StartLaw(SpaceOf(query), Reach(query), lb)
              \/ DeadStart(SpaceOf(query), Reach(query), AnswerOf(query), lb)
<1>1. Lawful(SpaceOf(query), AnswerOf(query))
  BY DEF AllLawful
<1>2. QED BY <1>1 DEF Lawful, Reach

(* The rows of a buffer and those of them that count are finite sets.      *)
LEMMA RowsFinite ==
  ASSUME TypeOK
  PROVE  /\ IsFiniteSet(DOMAIN out_vec)
         /\ Cardinality(DOMAIN out_vec) = out_vec_idx
         /\ Counted \subseteq DOMAIN out_vec
         /\ IsFiniteSet(Counted)
         /\ IsFiniteSet(DOMAIN out_vec \ Counted)
<1>1. DOMAIN out_vec = 0 .. out_vec_idx - 1 /\ out_vec_idx \in Nat
  BY DEF TypeOK
<1>2. IsFiniteSet(DOMAIN out_vec) /\ Cardinality(DOMAIN out_vec) = out_vec_idx
  <2>1. IsFiniteSet(0 .. out_vec_idx - 1)
    BY <1>1, FS_Interval
  <2>2. Cardinality(0 .. out_vec_idx - 1) =
          IF 0 > out_vec_idx - 1 THEN 0 ELSE (out_vec_idx - 1) - 0 + 1
    BY <1>1, FS_Interval
  <2>3. QED BY <1>1, <2>1, <2>2
<1>3. Counted \subseteq DOMAIN out_vec
  BY DEF Counted
<1>4. QED BY <1>2, <1>3, FS_Subset

-----------------------------------------------------------------------------
(* The books: buffers and null count, over any space.                      *)

LEMMA SpaceTypes ==
  ASSUME AllSpaces, q \in Queries
  PROVE  /\ IsSpace(space) /\ space.lower_bound \subseteq Int
         /\ \A i \in space.idx : /\ space.iter_cond[i] \in BOOLEAN
                                 /\ space.idx_to_iter[i] \in Int
                                 /\ space.next[i] \in space.idx
         /\ \A lb \in Int : space.iter_to_idx[lb] \in space.idx
<1>1. IsSpace(space)
  BY DEF AllSpaces, space
<1>2. QED BY <1>1 DEF IsSpace, Optional

LEMMA InitBooks ==
  ASSUME AllSpaces, Init
  PROVE  Books
<1>1. PICK lb \in space.lower_bound : idx = space.iter_to_idx[lb]
  BY DEF Init
<1>2. /\ q \in Queries /\ pc = "exit_cond" /\ out_vec = Empty /\ bytemap = Empty
      /\ out_vec_idx = 0 /\ null_count = 0 /\ out_len = 0 /\ out_bits = Empty
      /\ vectorize \in BOOLEAN
  BY DEF Init
<1>3. idx \in space.idx
  BY <1>1, <1>2, SpaceTypes
<1>4. DOMAIN out_vec = {} /\ DOMAIN bytemap = {} /\ DOMAIN out_bits = {}
  BY <1>2 DEF Empty
<1>5. TypeOK
  BY <1>2, <1>3, <1>4 DEF TypeOK
<1>6. Nulls
  BY <1>2, <1>4, FS_EmptySet DEF Nulls
<1>7. Finished
  BY <1>2 DEF Finished
<1>8. QED BY <1>2, <1>5, <1>6, <1>7 DEF Books

(* What a step that leaves the query alone leaves alone.                   *)
LEMMA SameQuery ==
  ASSUME UNCHANGED q
  PROVE  /\ space' = space
         /\ Answer' = Answer
         /\ Reach(q)' = Reach(q)
         /\ (q \in Queries)' <=> q \in Queries
BY DEF space, Answer

(* What a step that writes nothing leaves alone.                           *)
LEMMA SameRows ==
  ASSUME UNCHANGED <<vectorize, out_vec, bytemap>>
  PROVE  /\ Counted' = Counted
         /\ Emitted' = Emitted
         /\ OutputSorted' = OutputSorted
BY DEF Counted, Emitted, OutputSorted

(* A row written for the current index, and whether it counts.             *)
LEMMA WrittenRow ==
  ASSUME AllSpaces, Books, WriteRow, UNCHANGED <<q, vectorize, idx>>,
         IF vectorize
         THEN bytemap' = Store(bytemap, out_vec_idx, space.iter_cond[idx])
         ELSE UNCHANGED bytemap /\ space.iter_cond[idx]
  PROVE  /\ out_vec_idx' = out_vec_idx + 1
         /\ DOMAIN out_vec' = 0 .. out_vec_idx
         /\ out_vec'[out_vec_idx].iter = Here
         /\ \A i \in 0 .. out_vec_idx - 1 : out_vec'[i] = out_vec[i]
         /\ DOMAIN bytemap' = IF vectorize THEN 0 .. out_vec_idx ELSE {}
         /\ \A i \in DOMAIN bytemap' : bytemap'[i] \in BOOLEAN
         /\ \A i \in DOMAIN out_vec' : out_vec'[i].iter \in Int
         /\ Counted' = IF space.iter_cond[idx] THEN Counted \union {out_vec_idx} ELSE Counted
         /\ Emitted' = IF space.iter_cond[idx] THEN Emitted \union {Here} ELSE Emitted
<1> DEFINE n == out_vec_idx
           c == space.iter_cond[idx]
<1>1. /\ n \in Nat /\ DOMAIN out_vec = 0 .. n - 1
      /\ vectorize \in BOOLEAN
      /\ DOMAIN bytemap = IF vectorize THEN 0 .. n - 1 ELSE {}
      /\ \A i \in DOMAIN bytemap : bytemap[i] \in BOOLEAN
      /\ \A i \in 0 .. n - 1 : out_vec[i].iter \in Int
  BY DEF Books, TypeOK
<1>2. out_vec' = Store(out_vec, n, Output) /\ n' = n + 1
  BY DEF WriteRow
<1>3. Output.iter = Here
  BY DEF Output, Here
<1>4. /\ DOMAIN out_vec' = 0 .. n
      /\ out_vec'[n].iter = Here
      /\ \A i \in 0 .. n - 1 : out_vec'[i] = out_vec[i]
  BY <1>1, <1>2, <1>3, StoreNext
<1>5. vectorize => /\ DOMAIN bytemap' = 0 .. n
                   /\ bytemap'[n] = c
                   /\ \A i \in 0 .. n - 1 : bytemap'[i] = bytemap[i]
  BY <1>1, StoreNext
<1>6. ~vectorize => bytemap' = bytemap /\ c
  OBVIOUS
<1>7. Here \in Int /\ c \in BOOLEAN
  BY SpaceTypes DEF Books, TypeOK, Here
<1> HIDE DEF c
<1>8. DOMAIN bytemap' = IF vectorize THEN 0 .. n ELSE {}
  BY <1>1, <1>5, <1>6
<1>9. \A i \in DOMAIN bytemap' : bytemap'[i] \in BOOLEAN
  <2>1. CASE vectorize
    <3>1. ASSUME NEW i \in 0 .. n
          PROVE  bytemap'[i] \in BOOLEAN
      <4>1. CASE i = n
        BY <1>5, <1>7, <2>1, <4>1
      <4>2. CASE i \in 0 .. n - 1
        BY <1>1, <1>5, <2>1, <4>2
      <4>3. QED BY <1>1, <4>1, <4>2
    <3>2. QED BY <1>8, <2>1, <3>1
  <2>2. CASE ~vectorize
    BY <1>8, <2>2
  <2>3. QED BY <2>1, <2>2
<1>10. \A i \in DOMAIN out_vec' : out_vec'[i].iter \in Int
  BY <1>1, <1>4, <1>7
<1>11. n \in Counted' <=> c
  BY <1>1, <1>4, <1>5, <1>6 DEF Counted
<1>12. \A i \in 0 .. n - 1 : i \in Counted' <=> i \in Counted
  BY <1>1, <1>4, <1>5, <1>6 DEF Counted
<1>13. Counted' \subseteq 0 .. n /\ Counted \subseteq 0 .. n - 1
  BY <1>1, <1>4 DEF Counted
<1>14. Counted' = IF c THEN Counted \union {n} ELSE Counted
  <2>1. 0 .. n = (0 .. n - 1) \union {n}
    BY <1>1
  <2>2. CASE c
    BY <1>11, <1>12, <1>13, <2>1, <2>2
  <2>3. CASE ~c
    <3>1. n \notin Counted'
      BY <1>11, <2>3
    <3>2. \A i : i \in Counted' <=> i \in Counted
      BY <1>12, <1>13, <2>1, <3>1
    <3>3. Counted' = Counted
      BY <3>2
    <3>4. QED BY <2>3, <3>3
  <2>4. QED BY <2>2, <2>3
<1>15. Emitted' = IF c THEN Emitted \union {Here} ELSE Emitted
  <2>1. \A i \in Counted : out_vec'[i] = out_vec[i]
    BY <1>4, <1>13
  <2>2. Emitted' = {out_vec'[i].iter : i \in Counted'}
    BY DEF Emitted
  <2>3. CASE c
    BY <1>4, <1>14, <2>1, <2>2, <2>3 DEF Emitted
  <2>4. CASE ~c
    BY <1>14, <2>1, <2>2, <2>4 DEF Emitted
  <2>5. QED BY <2>3, <2>4
<1>16. QED
  BY <1>2, <1>4, <1>8, <1>9, <1>10, <1>14, <1>15 DEF c

(* The body of either path, as one: a row is written, or nothing is.       *)
LEMMA BodyWrites ==
  ASSUME null_count \in Nat, ScalarBody \/ VectorBody
  PROVE  /\ pc = "body" /\ pc' = "incr" /\ UNCHANGED <<q, vectorize, idx, out_len, out_bits>>
         /\ \/ /\ ~vectorize /\ ~space.iter_cond[idx]
               /\ UNCHANGED <<out_vec, out_vec_idx, null_count, bytemap>>
            \/ /\ vectorize \/ space.iter_cond[idx]
               /\ WriteRow
               /\ IF vectorize
                  THEN bytemap' = Store(bytemap, out_vec_idx, space.iter_cond[idx])
                  ELSE UNCHANGED bytemap /\ space.iter_cond[idx]
               /\ null_count' = IF vectorize /\ ~space.iter_cond[idx] THEN null_count + 1
                                ELSE null_count
<1>1. CASE ScalarBody
  BY <1>1 DEF ScalarBody
<1>2. CASE VectorBody
  <2>1. null_count' = IF ~space.iter_cond[idx] THEN null_count + 1 ELSE null_count
    BY <1>2 DEF VectorBody
  <2>2. QED BY <1>2, <2>1 DEF VectorBody
<1>3. QED BY <1>1, <1>2

(* What the body does to the output, with or without a row.                *)
LEMMA BodyEmits ==
  ASSUME AllSpaces, Books, ScalarBody \/ VectorBody
  PROVE  /\ Emitted' = IF space.iter_cond[idx] THEN Emitted \union {Here} ELSE Emitted
         /\ \/ UNCHANGED <<out_vec, bytemap>>
            \/ /\ DOMAIN out_vec' = 0 .. out_vec_idx
               /\ out_vec'[out_vec_idx].iter = Here
               /\ \A i \in 0 .. out_vec_idx - 1 : out_vec'[i] = out_vec[i]
<1>1. UNCHANGED <<q, vectorize, idx>> /\ null_count \in Nat
  BY BodyWrites DEF Books, TypeOK
<1>2. CASE ~vectorize /\ ~space.iter_cond[idx] /\ UNCHANGED <<out_vec, bytemap>>
  BY <1>1, <1>2, SameRows
<1>3. CASE /\ WriteRow
           /\ IF vectorize
              THEN bytemap' = Store(bytemap, out_vec_idx, space.iter_cond[idx])
              ELSE UNCHANGED bytemap /\ space.iter_cond[idx]
  BY <1>1, <1>3, WrittenRow
<1>4. QED BY <1>1, <1>2, <1>3, BodyWrites

LEMMA BodyBooks ==
  ASSUME AllSpaces, Books, ScalarBody \/ VectorBody
  PROVE  Books'
<1>1. pc = "body" /\ pc' = "incr" /\ UNCHANGED <<q, vectorize, idx, out_len, out_bits>>
  BY BodyWrites DEF Books, TypeOK
<1>2. space' = space /\ (q \in Queries)' /\ Finished'
  BY <1>1, SameQuery DEF Books, Finished
<1>3. /\ out_vec_idx \in Nat /\ null_count \in Nat /\ vectorize \in BOOLEAN
      /\ DOMAIN out_vec = 0 .. out_vec_idx - 1
      /\ Nulls
  BY DEF Books, TypeOK
<1>4. IsFiniteSet(Counted) /\ IsFiniteSet(DOMAIN out_vec \ Counted)
      /\ Counted \subseteq DOMAIN out_vec
  BY RowsFinite DEF Books
<1>5. CASE UNCHANGED <<out_vec, out_vec_idx, null_count, bytemap>>
  <2>1. TypeOK'
    BY <1>1, <1>2, <1>5 DEF Books, TypeOK
  <2>2. Nulls'
    BY <1>1, <1>3, <1>5, SameRows DEF Nulls
  <2>3. QED BY <1>2, <2>1, <2>2 DEF Books
<1>6. CASE /\ vectorize \/ space.iter_cond[idx]
           /\ WriteRow
           /\ IF vectorize
              THEN bytemap' = Store(bytemap, out_vec_idx, space.iter_cond[idx])
              ELSE UNCHANGED bytemap /\ space.iter_cond[idx]
           /\ null_count' = IF vectorize /\ ~space.iter_cond[idx] THEN null_count + 1
                            ELSE null_count
  <2>1. /\ out_vec_idx' = out_vec_idx + 1
        /\ DOMAIN out_vec' = 0 .. out_vec_idx
        /\ DOMAIN bytemap' = IF vectorize THEN 0 .. out_vec_idx ELSE {}
        /\ \A i \in DOMAIN bytemap' : bytemap'[i] \in BOOLEAN
        /\ \A i \in DOMAIN out_vec' : out_vec'[i].iter \in Int
        /\ Counted' = IF space.iter_cond[idx] THEN Counted \union {out_vec_idx} ELSE Counted
    BY <1>1, <1>6, WrittenRow
  <2>2. null_count' = IF space.iter_cond[idx] THEN null_count ELSE null_count + 1
    BY <1>3, <1>6
  <2>3. TypeOK'
    <3>1. null_count' \in Nat /\ out_vec_idx' \in Nat
      BY <1>3, <2>1, <2>2
    <3>2. 0 .. out_vec_idx' - 1 = 0 .. out_vec_idx
      BY <1>3, <2>1
    <3>3. QED BY <1>1, <1>2, <2>1, <3>1, <3>2 DEF Books, TypeOK
  <2>4. Nulls'
    <3> DEFINE missing == DOMAIN out_vec \ Counted
    <3>1. null_count = Cardinality(missing) /\ IsFiniteSet(missing) /\ out_vec_idx \notin missing
      BY <1>3, <1>4 DEF Nulls
    <3>2. CASE space.iter_cond[idx]
      <4>1. (DOMAIN out_vec \ Counted)' = missing
        BY <1>3, <1>4, <2>1, <3>2
      <4>2. QED BY <2>2, <3>1, <3>2, <4>1 DEF Nulls
    <3>3. CASE ~space.iter_cond[idx]
      <4>1. (DOMAIN out_vec \ Counted)' = missing \union {out_vec_idx}
        BY <1>3, <1>4, <2>1, <3>3
      <4>2. Cardinality(missing \union {out_vec_idx}) = Cardinality(missing) + 1
        BY <3>1, FS_AddElement
      <4>3. QED BY <2>2, <3>1, <3>3, <4>1, <4>2 DEF Nulls
    <3>4. QED BY <3>2, <3>3
  <2>5. QED BY <1>2, <2>3, <2>4 DEF Books
<1>7. QED BY <1>3, <1>5, <1>6, BodyWrites

LEMMA StepBooks ==
  ASSUME AllSpaces, Books, [Next]_vars
  PROVE  Books'
<1>1. ASSUME Continue \/ Break \/ UNCHANGED vars
      PROVE  Books'
  <2>1. /\ UNCHANGED <<q, vectorize, idx, out_vec_idx, null_count, out_vec, bytemap, out_len, out_bits>>
        /\ pc' \in {pc, "body", "post"}
    BY <1>1 DEF Continue, Break, vars
  <2>2. space' = space /\ Counted' = Counted
    BY <2>1, SameQuery, SameRows
  <2>3. TypeOK'
    BY <2>1, <2>2 DEF Books, TypeOK
  <2>4. Finished'
    BY <2>1 DEF Books, Finished
  <2>5. QED BY <2>1, <2>2, <2>3, <2>4 DEF Books, Nulls
<1>2. ASSUME Incr
      PROVE  Books'
  <2>1. /\ UNCHANGED <<q, vectorize, out_vec_idx, null_count, out_vec, bytemap, out_len, out_bits>>
        /\ pc' = "exit_cond" /\ idx' = space.next[idx]
    BY <1>2 DEF Incr
  <2>2. space' = space /\ Counted' = Counted /\ idx' \in space.idx
    BY <2>1, SameQuery, SameRows, SpaceTypes DEF Books, TypeOK
  <2>3. TypeOK'
    BY <2>1, <2>2 DEF Books, TypeOK
  <2>4. QED BY <2>1, <2>2, <2>3 DEF Books, Nulls, Finished
<1>3. ASSUME Post
      PROVE  Books'
  <2>1. /\ UNCHANGED <<q, vectorize, idx, out_vec_idx, null_count, out_vec, bytemap>>
        /\ pc' = "done" /\ out_len' = out_vec_idx
        /\ out_bits' = IF null_count > 0 THEN [i \in 0 .. out_vec_idx - 1 |-> bytemap[i]]
                       ELSE Empty
    BY <1>3 DEF Post
  <2>2. space' = space /\ Counted' = Counted
    BY <2>1, SameQuery, SameRows
  <2>3. out_vec_idx \in Nat /\ null_count \in Nat
    BY DEF Books, TypeOK
  <2>4. DOMAIN out_bits' \in {{}, 0 .. out_len' - 1}
    BY <2>1 DEF Empty
  <2>5. TypeOK'
    BY <2>1, <2>2, <2>3, <2>4 DEF Books, TypeOK
  <2>6. Finished'
    BY <2>1, <2>3 DEF Finished
  <2>7. QED BY <2>1, <2>2, <2>5, <2>6 DEF Books, Nulls
<1>4. QED BY <1>1, <1>2, <1>3, BodyBooks DEF Next

LEMMA SpecBooks == ASSUME AllSpaces PROVE Spec => []Books
BY InitBooks, StepBooks, PTL DEF Spec

(* What the books say of a finished query.                                 *)
LEMMA FinishedRows ==
  ASSUME Books, pc = "done"
  PROVE  /\ ValidRows = Counted
         /\ out_len = out_vec_idx
         /\ Result = Emitted
<1>1. /\ out_len = out_vec_idx
      /\ null_count > 0 => out_bits = [i \in 0 .. out_vec_idx - 1 |-> bytemap[i]]
      /\ null_count = 0 => out_bits = Empty
  BY DEF Books, Finished
<1>2. /\ out_vec_idx \in Nat /\ null_count \in Nat /\ vectorize \in BOOLEAN
      /\ DOMAIN out_vec = 0 .. out_vec_idx - 1
      /\ null_count = Cardinality(DOMAIN out_vec \ Counted)
  BY DEF Books, TypeOK, Nulls
<1>3. Counted \subseteq DOMAIN out_vec /\ IsFiniteSet(DOMAIN out_vec \ Counted)
  BY RowsFinite DEF Books
<1>4. ASSUME null_count = 0 PROVE ValidRows = Counted
  <2>1. DOMAIN out_vec \ Counted = {}
    BY <1>2, <1>3, <1>4, FS_EmptySet
  <2>2. Counted = 0 .. out_len - 1
    BY <1>1, <1>2, <1>3, <2>1
  <2>3. ValidRows = 0 .. out_len - 1
    BY <1>1, <1>4 DEF ValidRows, OutValid, Empty
  <2>4. QED BY <1>1, <2>2, <2>3
<1>5. ASSUME null_count > 0 PROVE ValidRows = Counted
  <2>1. out_bits = [i \in 0 .. out_len - 1 |-> bytemap[i]]
    BY <1>1, <1>5
  <2>2. vectorize
    <3>1. CASE ~vectorize
      <4>1. DOMAIN out_vec \ Counted = {}
        BY <3>1 DEF Counted
      <4>2. QED BY <1>2, <1>5, <4>1, FS_EmptySet
    <3>2. QED BY <3>1
  <2>3. ValidRows = {i \in 0 .. out_len - 1 : bytemap[i]}
    BY <2>1 DEF ValidRows, OutValid
  <2>4. Counted = {i \in 0 .. out_len - 1 : bytemap[i]}
    BY <1>1, <1>2, <2>2 DEF Counted
  <2>5. QED BY <1>1, <2>3, <2>4
<1>6. ValidRows = Counted
  BY <1>2, <1>4, <1>5
<1>7. QED BY <1>1, <1>6 DEF Result, Emitted

LEMMA BooksNulls ==
  ASSUME Books
  PROVE  NullsCounted
<1>1. ASSUME pc = "done" PROVE out_len - Cardinality(ValidRows) = null_count
  <2>1. ValidRows = Counted /\ out_len = out_vec_idx
    BY <1>1, FinishedRows
  <2>2. /\ IsFiniteSet(DOMAIN out_vec) /\ Cardinality(DOMAIN out_vec) = out_vec_idx
        /\ Counted \subseteq DOMAIN out_vec /\ IsFiniteSet(Counted)
    BY RowsFinite DEF Books
  <2>3. Cardinality(DOMAIN out_vec \ Counted)
          = Cardinality(DOMAIN out_vec) - Cardinality(DOMAIN out_vec \intersect Counted)
    BY <2>2, FS_Difference
  <2>4. DOMAIN out_vec \intersect Counted = Counted
    BY <2>2
  <2>5. Cardinality(Counted) \in Nat /\ out_vec_idx \in Nat
    BY <2>2, FS_CardinalityType DEF Books, TypeOK
  <2>6. QED BY <2>1, <2>2, <2>3, <2>4, <2>5 DEF Books, Nulls
<1>2. QED BY <1>1 DEF NullsCounted

(* The buffers are filled without a gap and never beyond the output index, *)
(* over any space and wherever the loop starts.                            *)
THEOREM TypeCorrect == ASSUME AllSpaces PROVE Spec => []TypeOK
<1>1. Books => TypeOK
  BY DEF Books
<1>2. QED BY <1>1, SpecBooks, PTL

(* And the stated null count is that of the bitmap, kept or dropped.       *)
THEOREM LoopNulls == ASSUME AllSpaces PROVE Spec => []NullsCounted
<1>1. Books => NullsCounted
  BY BooksNulls
<1>2. QED BY <1>1, SpecBooks, PTL

-----------------------------------------------------------------------------
(* The output, over lawful spaces.                                         *)

LEMMA LawfulSpaces == ASSUME AllLawful PROVE AllSpaces
BY DEF AllLawful, AllSpaces, Lawful

(* Before the start every value of the answer is ahead.                    *)
LEMMA InitInv ==
  ASSUME AllLawful, Init
  PROVE  Inv
<1>1. PICK lb \in space.lower_bound : idx = space.iter_to_idx[lb]
  BY DEF Init
<1>2. q \in Queries /\ pc = "exit_cond" /\ out_vec = Empty
  BY DEF Init
<1>3. /\ IsSpace(space)
      /\ LowerLaw(space, Answer)
      /\ Laws(space, Reach(q), Answer)
      /\ StartLaw(space, Reach(q), lb) \/ DeadStart(space, Reach(q), Answer, lb)
  BY <1>1, <1>2, ReachLaws DEF space, Answer
<1>4. /\ idx \in Reach(q)
      /\ \/ Alive /\ Here = lb
         \/ ~Alive /\ \A x \in Answer : x < lb
  BY <1>1, <1>3 DEF StartLaw, DeadStart, Alive, Here, Laws
<1>5. DOMAIN out_vec = {}
  BY <1>2 DEF Empty
<1>6. Emitted = {}
  BY <1>5 DEF Counted, Emitted
<1>7. Progress
  <2>1. \A x \in Answer : x >= lb /\ x \in Int
    BY <1>1, <1>3 DEF LowerLaw, Laws
  <2>2. lb \in Int
    BY <1>1, <1>3 DEF IsSpace, Optional
  <2>3. {x \in Answer : Alive => x < Here} = {}
    BY <1>4, <2>1, <2>2
  <2>4. QED BY <1>2, <1>6, <2>3 DEF Progress
<1>8. Order
  BY <1>2, <1>5 DEF Order, OutputSorted
<1>9. Books
  BY LawfulSpaces, InitBooks
<1>10. QED BY <1>4, <1>7, <1>8, <1>9 DEF Inv

(* The loop leaves exit_cond, its index unchanged.                         *)
LEMMA BranchInv ==
  ASSUME AllLawful, Inv, Continue \/ Break
  PROVE  Inv'
<1>1. /\ UNCHANGED <<q, vectorize, idx, out_vec_idx, null_count, out_vec, bytemap,
                     out_len, out_bits>>
      /\ pc = "exit_cond"
      /\ pc' = IF Alive THEN "body" ELSE "post"
  BY DEF Continue, Break, Alive
<1>2. space' = space /\ Answer' = Answer /\ Here' = Here /\ Alive' = Alive
  BY <1>1, SameQuery DEF Here, Alive
<1>3. Counted' = Counted /\ Emitted' = Emitted /\ OutputSorted' = OutputSorted
  BY <1>1, SameRows
<1>4. Books'
  BY LawfulSpaces, StepBooks DEF Inv, Next
<1>5. Progress'
  <2>1. Emitted = {x \in Answer : Alive => x < Here}
    BY <1>1 DEF Inv, Progress
  <2>2. CASE Alive
    BY <1>1, <1>2, <1>3, <2>1, <2>2 DEF Progress
  <2>3. CASE ~Alive
    BY <1>1, <1>2, <1>3, <2>1, <2>3 DEF Progress
  <2>4. QED BY <2>2, <2>3
<1>6. Order'
  BY <1>1, <1>2, <1>3 DEF Inv, Order
<1>7. QED BY <1>1, <1>2, <1>4, <1>5, <1>6, SameQuery DEF Inv

(* The index moves on: the values it passes are none of the answer's.      *)
LEMMA IncrInv ==
  ASSUME AllLawful, Inv, Incr
  PROVE  Inv'
<1>1. /\ UNCHANGED <<q, vectorize, out_vec_idx, null_count, out_vec, bytemap,
                     out_len, out_bits>>
      /\ pc = "incr" /\ pc' = "exit_cond"
      /\ idx' = space.next[idx]
  BY DEF Incr
<1>2. /\ space' = space /\ Answer' = Answer /\ Reach(q)' = Reach(q)
      /\ Here' = space.idx_to_iter[idx'] /\ Alive' = space.is_alive[idx']
  BY <1>1, SameQuery DEF Here, Alive
<1>3. Counted' = Counted /\ Emitted' = Emitted /\ OutputSorted' = OutputSorted
  BY <1>1, SameRows
<1>4. IsSpace(space) /\ Laws(space, Reach(q), Answer)
  BY ReachLaws DEF Inv, Books, space, Answer
<1>5. /\ Alive /\ idx \in Reach(q) /\ idx \in space.idx
      /\ Emitted = {x \in Answer : x <= Here}
  BY <1>1 DEF Inv, Books, Progress, TypeOK
<1>6. /\ idx' \in Reach(q)
      /\ Alive' => Here < Here'
      /\ \A x \in Answer : x > Here => Alive' /\ x >= Here'
  BY <1>1, <1>2, <1>4, <1>5 DEF Laws, StepLaw, Here, Alive
<1>7. idx' \in space.idx /\ Here \in Int /\ Here' \in Int /\ Answer \in SUBSET Int
  BY <1>1, <1>2, <1>4, <1>5, <1>6 DEF Laws, IsSpace, Here
<1>8. Books'
  BY LawfulSpaces, StepBooks DEF Inv, Next
<1>9. Progress'
  <2>1. \A x \in Answer : x <= Here <=> (Alive' => x < Here')
    BY <1>6, <1>7
  <2>2. {x \in Answer : x <= Here} = {x \in Answer : Alive' => x < Here'}
    BY <2>1
  <2>3. Emitted' = {x \in Answer' : Alive' => x < Here'}
    BY <1>2, <1>3, <1>5, <2>2
  <2>4. QED BY <1>1, <2>3 DEF Progress
<1>10. Order'
  <2>1. \A i \in DOMAIN out_vec : out_vec[i].iter <= Here /\ out_vec[i].iter \in Int
    BY <1>1 DEF Inv, Books, Order, TypeOK
  <2>2. Alive' => \A i \in DOMAIN out_vec' : out_vec'[i].iter < Here'
    BY <1>1, <1>6, <1>7, <2>1
  <2>3. QED BY <1>1, <1>3, <2>2 DEF Inv, Order
<1>11. QED BY <1>1, <1>2, <1>6, <1>8, <1>9, <1>10 DEF Inv

(* The bitmap is made of the byte map: the loop is over.                   *)
LEMMA PostInv ==
  ASSUME AllLawful, Inv, Post
  PROVE  Inv'
<1>1. /\ UNCHANGED <<q, vectorize, idx, out_vec, bytemap>>
      /\ pc = "post" /\ pc' = "done"
  BY DEF Post
<1>2. Answer' = Answer /\ Reach(q)' = Reach(q)
  BY <1>1, SameQuery
<1>3. Emitted' = Emitted /\ OutputSorted' = OutputSorted
  BY <1>1, SameRows
<1>4. Books'
  BY LawfulSpaces, StepBooks DEF Inv, Next
<1>5. Progress'
  BY <1>1, <1>2, <1>3 DEF Inv, Progress
<1>6. Order'
  BY <1>1, <1>3 DEF Inv, Order
<1>7. QED BY <1>1, <1>2, <1>4, <1>5, <1>6 DEF Inv

-----------------------------------------------------------------------------
(* The body: at a live index, everything emitted is behind it.             *)
LEMMA BodyFacts ==
  ASSUME AllLawful, Inv, pc = "body"
  PROVE  /\ Alive /\ idx \in space.idx /\ idx \in Reach(q)
         /\ Here \in Int /\ Answer \in SUBSET Int
         /\ space.iter_cond[idx] \in BOOLEAN
         /\ space.iter_cond[idx] <=> Here \in Answer
         /\ Emitted = {x \in Answer : x < Here}
         /\ \A i \in DOMAIN out_vec : out_vec[i].iter < Here
<1>1. IsSpace(space) /\ Laws(space, Reach(q), Answer)
  BY ReachLaws DEF Inv, Books, space, Answer
<1>2. Alive /\ idx \in Reach(q) /\ idx \in space.idx
  BY DEF Inv, Books, Progress, TypeOK
<1>3. Here \in Int /\ Answer \in SUBSET Int /\ space.iter_cond[idx] \in BOOLEAN
  BY <1>1, <1>2 DEF IsSpace, Laws, Here
<1>4. space.iter_cond[idx] <=> Here \in Answer
  BY <1>1, <1>2 DEF Laws, CondLaw, Alive, Here
<1>5. Emitted = {x \in Answer : x < Here}
  BY <1>2 DEF Inv, Progress
<1>6. \A i \in DOMAIN out_vec : out_vec[i].iter < Here
  BY <1>2 DEF Inv, Order
<1>7. QED BY <1>2, <1>3, <1>4, <1>5, <1>6

(* The body of either path: what is emitted now includes this value, if it *)
(* is one of the answer's.                                                 *)
LEMMA BodyInv ==
  ASSUME AllLawful, Inv, ScalarBody \/ VectorBody
  PROVE  Inv'
<1>1. pc = "body" /\ pc' = "incr" /\ UNCHANGED <<q, vectorize, idx, out_len, out_bits>>
  BY BodyWrites DEF Inv, Books, TypeOK
<1>2. /\ space' = space /\ Answer' = Answer /\ Reach(q)' = Reach(q)
      /\ Here' = Here /\ Alive' = Alive
  BY <1>1, SameQuery DEF Here, Alive
<1>3. /\ Alive /\ idx \in Reach(q)
      /\ Here \in Int /\ Answer \in SUBSET Int
      /\ space.iter_cond[idx] \in BOOLEAN
      /\ space.iter_cond[idx] <=> Here \in Answer
      /\ Emitted = {x \in Answer : x < Here}
      /\ \A i \in DOMAIN out_vec : out_vec[i].iter < Here
  BY <1>1, BodyFacts
<1>4. /\ out_vec_idx \in Nat /\ DOMAIN out_vec = 0 .. out_vec_idx - 1
      /\ \A i \in DOMAIN out_vec : out_vec[i].iter \in Int
  BY DEF Inv, Books, TypeOK
<1>5. Books'
  BY LawfulSpaces, StepBooks DEF Inv, Next
<1>6. /\ Emitted' = IF space.iter_cond[idx] THEN Emitted \union {Here} ELSE Emitted
      /\ \/ UNCHANGED <<out_vec, bytemap>>
         \/ /\ DOMAIN out_vec' = 0 .. out_vec_idx
            /\ out_vec'[out_vec_idx].iter = Here
            /\ \A i \in 0 .. out_vec_idx - 1 : out_vec'[i] = out_vec[i]
  BY LawfulSpaces, BodyEmits DEF Inv
<1>7. Progress'
  <2>1. Emitted' = {x \in Answer : x <= Here}
    <3>1. CASE space.iter_cond[idx]
      <4>1. Here \in Answer /\ Emitted' = {x \in Answer : x < Here} \union {Here}
        BY <1>3, <1>6, <3>1
      <4>2. \A x \in Answer : x <= Here <=> x < Here \/ x = Here
        BY <1>3
      <4>3. QED BY <1>3, <4>1, <4>2
    <3>2. CASE ~space.iter_cond[idx]
      <4>1. Here \notin Answer /\ Emitted' = {x \in Answer : x < Here}
        BY <1>3, <1>6, <3>2
      <4>2. \A x \in Answer : x <= Here <=> x < Here
        BY <1>3, <4>1
      <4>3. QED BY <4>1, <4>2
    <3>3. QED BY <3>1, <3>2
  <2>2. QED BY <1>1, <1>2, <1>3, <2>1 DEF Progress
<1>8. Order'
  <2>1. OutputSorted
    BY DEF Inv, Order
  <2>2. CASE UNCHANGED <<out_vec, bytemap>>
    <3>1. \A i \in DOMAIN out_vec : out_vec[i].iter <= Here
      BY <1>3, <1>4
    <3>2. OutputSorted'
      BY <1>1, <2>1, <2>2, SameRows
    <3>3. QED BY <1>1, <1>2, <2>2, <3>1, <3>2 DEF Order
  <2>3. CASE /\ DOMAIN out_vec' = 0 .. out_vec_idx
             /\ out_vec'[out_vec_idx].iter = Here
             /\ \A i \in 0 .. out_vec_idx - 1 : out_vec'[i] = out_vec[i]
    <3>1. \A i \in DOMAIN out_vec' : out_vec'[i].iter <= Here
      BY <1>3, <1>4, <2>3
    <3>2. ASSUME NEW i \in 0 .. out_vec_idx, NEW j \in 0 .. out_vec_idx, i < j
          PROVE  out_vec'[i].iter < out_vec'[j].iter
      <4>1. CASE j = out_vec_idx
        BY <1>3, <1>4, <2>3, <3>2, <4>1
      <4>2. CASE j # out_vec_idx
        BY <1>4, <2>1, <2>3, <3>2, <4>2 DEF OutputSorted
      <4>3. QED BY <4>1, <4>2
    <3>3. OutputSorted'
      BY <2>3, <3>2 DEF OutputSorted
    <3>4. QED BY <1>1, <1>2, <3>1, <3>3 DEF Order
  <2>4. QED BY <1>6, <2>2, <2>3
<1>9. QED BY <1>1, <1>2, <1>3, <1>5, <1>7, <1>8 DEF Inv

-----------------------------------------------------------------------------
LEMMA StepInv ==
  ASSUME AllLawful, Inv, [Next]_vars
  PROVE  Inv'
<1>1. CASE Continue \/ Break
  BY <1>1, BranchInv
<1>2. CASE ScalarBody \/ VectorBody
  BY <1>2, BodyInv
<1>3. CASE Incr
  BY <1>3, IncrInv
<1>4. CASE Post
  BY <1>4, PostInv
<1>5. CASE UNCHANGED vars
  <2>1. UNCHANGED <<q, vectorize, pc, idx, out_vec_idx, null_count, out_vec, bytemap,
                    out_len, out_bits>>
    BY <1>5 DEF vars
  <2>2. /\ Answer' = Answer /\ Reach(q)' = Reach(q)
        /\ Here' = Here /\ Alive' = Alive
    BY <2>1, SameQuery DEF Here, Alive
  <2>3. Emitted' = Emitted /\ OutputSorted' = OutputSorted
    BY <2>1, SameRows
  <2>4. Books'
    BY <1>5, LawfulSpaces, StepBooks DEF Inv
  <2>5. Progress' /\ Order'
    BY <2>1, <2>2, <2>3 DEF Inv, Progress, Order
  <2>6. QED BY <2>1, <2>2, <2>4, <2>5 DEF Inv
<1>6. QED BY <1>1, <1>2, <1>3, <1>4, <1>5 DEF Next

LEMMA SpecInv == ASSUME AllLawful PROVE Spec => []Inv
BY InitInv, StepInv, PTL DEF Spec

LEMMA InvExact ==
  ASSUME Inv
  PROVE  ResultExact
BY FinishedRows DEF Inv, Progress, Answer, ResultExact

(* A loop over a space that stands for the answer of its query finishes    *)
(* with that answer, in both code paths.                                   *)
THEOREM LoopExact == ASSUME AllLawful PROVE Spec => []ResultExact
<1>1. Inv => ResultExact
  BY InvExact
<1>2. QED BY <1>1, SpecInv, PTL

(* Every output is sorted by its iterator, null rows included.             *)
THEOREM LoopSorted == ASSUME AllLawful PROVE Spec => []OutputSorted
<1>1. Inv => OutputSorted
  BY DEF Inv, Order
<1>2. QED BY <1>1, SpecInv, PTL

-----------------------------------------------------------------------------
(* What each step of the loop is to the abstract scan.                     *)
LEMMA ScanInit ==
  ASSUME Init
  PROVE  Scan!Init
<1>1. DOMAIN out_vec = {} /\ pc = "exit_cond"
  BY DEF Init, Empty
<1>2. Emitted = {}
  BY <1>1 DEF Counted, Emitted
<1>3. QED BY <1>1, <1>2 DEF Scan!Init

LEMMA ScanStep ==
  ASSUME AllLawful, Inv, [Next]_vars
  PROVE  [Scan!Next]_<<q, Emitted, pc = "done">>
<1>1. ASSUME Continue \/ Break \/ Incr \/ UNCHANGED vars
      PROVE  UNCHANGED <<q, Emitted, pc = "done">>
  <2>1. UNCHANGED <<q, vectorize, out_vec, bytemap>>
    BY <1>1 DEF Continue, Break, Incr, vars
  <2>2. (pc = "done")' = (pc = "done")
    BY <1>1 DEF Continue, Break, Incr, vars
  <2>3. Emitted' = Emitted
    BY <2>1, SameRows
  <2>4. QED BY <2>1, <2>2, <2>3
<1>2. ASSUME ScalarBody \/ VectorBody
      PROVE  Scan!List \/ UNCHANGED <<q, Emitted, pc = "done">>
  <2>1. /\ pc = "body" /\ pc' = "incr" /\ UNCHANGED <<q, vectorize, idx>>
    BY <1>2 DEF ScalarBody, VectorBody
  <2>2. /\ Here \in Int /\ Answer \in SUBSET Int
        /\ space.iter_cond[idx] \in BOOLEAN
        /\ space.iter_cond[idx] <=> Here \in Answer
        /\ Emitted = {x \in Answer : x < Here}
    BY <2>1, BodyFacts
  <2>3. CASE ~vectorize /\ ~space.iter_cond[idx]
    <3>1. UNCHANGED <<out_vec, bytemap>>
      BY <1>2, <2>3 DEF ScalarBody, VectorBody
    <3>2. Emitted' = Emitted
      BY <2>1, <3>1, SameRows
    <3>3. QED BY <2>1, <3>2
  <2>4. CASE vectorize \/ space.iter_cond[idx]
    <3>1. WriteRow
      BY <1>2, <2>4 DEF ScalarBody, VectorBody
    <3>2. IF vectorize
          THEN bytemap' = Store(bytemap, out_vec_idx, space.iter_cond[idx])
          ELSE UNCHANGED bytemap /\ space.iter_cond[idx]
      BY <1>2, <2>4 DEF ScalarBody, VectorBody
    <3>3. Emitted' = IF space.iter_cond[idx] THEN Emitted \union {Here} ELSE Emitted
      BY <2>1, <3>1, <3>2, LawfulSpaces, WrittenRow DEF Inv
    <3>4. CASE space.iter_cond[idx]
      <4>1. Here \in AnswerOf(q) \ Emitted
        BY <2>2, <3>4 DEF Answer
      <4>2. \A u \in AnswerOf(q) \ Emitted : Here <= u
        BY <2>2 DEF Answer
      <4>3. Emitted' = Emitted \union {Here}
        BY <3>3, <3>4
      <4>4. ~(pc = "done") /\ (pc = "done")' = (pc = "done")
        BY <2>1
      <4>5. Scan!List
        BY <2>1, <4>1, <4>2, <4>3, <4>4 DEF Scan!List
      <4>6. QED BY <4>5
    <3>5. CASE ~space.iter_cond[idx]
      BY <2>1, <3>3, <3>5
    <3>6. QED BY <2>2, <3>4, <3>5
  <2>5. QED BY <2>2, <2>3, <2>4
<1>3. ASSUME Post
      PROVE  Scan!End
  <2>1. /\ pc = "post" /\ pc' = "done" /\ UNCHANGED <<q, vectorize, out_vec, bytemap>>
    BY <1>3 DEF Post
  <2>2. Emitted' = Emitted
    BY <2>1, SameRows
  <2>3. Emitted = AnswerOf(q)
    BY <2>1 DEF Inv, Progress, Answer
  <2>4. ~(pc = "done") /\ (pc = "done")' = TRUE
    BY <2>1
  <2>5. QED BY <2>1, <2>2, <2>3, <2>4 DEF Scan!End
<1>4. QED BY <1>1, <1>2, <1>3 DEF Next, Scan!Next

(* The loop implements the scan: values are listed one at a time, the      *)
(* least of those that remain, and it ends only when none does.            *)
THEOREM LoopScans == ASSUME AllLawful PROVE Spec => ScanSteps
<1>1. Init => Scan!Init
  BY ScanInit
<1>2. Inv /\ [Next]_vars => [Scan!Next]_<<q, Emitted, pc = "done">>
  BY ScanStep
<1>3. QED BY <1>1, <1>2, SpecInv, PTL DEF Spec, ScanSteps, Scan!Steps
=============================================================================
