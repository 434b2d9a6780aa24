----------------------------- MODULE QueryProofs ----------------------------
(***************************************************************************)
(* A query from its predicate to its result, for every predicate and       *)
(* vectors of any length: what the Reffine pass makes of a predicate       *)
(* stands for the values of the predicate, the space of that structure     *)
(* walks over these values, and so the loop finishes with them.            *)
(*                                                                         *)
(* The functions of the pass are tables here (see PassTables): what a      *)
(* table has for a tree is proved of a tree when it is of its parts, and   *)
(* of every tree because the sizes of trees are natural numbers.           *)
(***************************************************************************)
EXTENDS VectorLoop, LoopGenProofs, SpaceLawsProofs, PassTables, WellFoundedInduction

-----------------------------------------------------------------------------
(* Each query was given a space that keeps to the rows of its vectors on   *)
(* the indices a walk from its lower bound reaches.                        *)
Closed(s, G) ==
  /\ \A lb \in s.lower_bound : s.iter_to_idx[lb] \in G
  /\ \A i \in G : s.is_alive[i] => s.next[i] \in G

AllReadable ==
  \A query \in Queries : \E G \in SUBSET SpaceOf(query).idx :
    Closed(SpaceOf(query), G) /\ ReadLaw(SpaceOf(query), G, WalksOf(query))

-----------------------------------------------------------------------------
(* The inductive invariant: the loop stays on those indices, and each row  *)
(* that counts was read at its value.                                      *)
ReadReach(query) ==
  CHOOSE G \in SUBSET SpaceOf(query).idx :
    Closed(SpaceOf(query), G) /\ ReadLaw(SpaceOf(query), G, WalksOf(query))

RowRead(row) ==
  \A e \in row.elems : \A w \in WalksOf(q) : e[1] = w.name => IsRowAt(e, w, row.iter)

ReadInv ==
  /\ q \in Queries
  /\ idx \in ReadReach(q)
  /\ pc \in {"body", "incr"} => Alive
  /\ \A k \in DOMAIN out_vec : (vectorize => bytemap[k]) => RowRead(out_vec[k])
  /\ vectorize => DOMAIN out_vec \subseteq DOMAIN bytemap

LEMMA ReadFacts ==
  ASSUME AllReadable, q \in Queries
  PROVE  /\ Closed(space, ReadReach(q))
         /\ ReadLaw(space, ReadReach(q), WalksOf(q))
BY DEF AllReadable, ReadReach, space

LEMMA ReadInit ==
  ASSUME AllReadable, Init
  PROVE  ReadInv
<1>1. /\ q \in Queries /\ pc = "exit_cond" /\ out_vec = Empty
      /\ idx \in {space.iter_to_idx[lb] : lb \in space.lower_bound}
  BY DEF Init
<1>2. idx \in ReadReach(q)
  BY <1>1, ReadFacts DEF Closed
<1>3. DOMAIN out_vec = {}
  BY <1>1 DEF Empty
<1>4. QED BY <1>1, <1>2, <1>3 DEF ReadInv

(* The row the body writes, where it counts.                               *)
LEMMA BodyRead ==
  ASSUME AllReadable, ReadInv, pc = "body"
  PROVE  space.iter_cond[idx] => RowRead(Output)
<1>1. /\ q \in Queries /\ idx \in ReadReach(q) /\ space.is_alive[idx]
  BY DEF ReadInv, Alive
<1>2. space.iter_cond[idx] =>
        \A e \in space.vec_iter_idxs[idx] : \A w \in WalksOf(q) :
          e[1] = w.name => IsRowAt(e, w, space.idx_to_iter[idx])
  BY <1>1, ReadFacts DEF ReadLaw
<1>3. QED BY <1>2 DEF RowRead, Output

LEMMA ReadStep ==
  ASSUME AllReadable, ReadInv, [Next]_vars
  PROVE  ReadInv'
<1>1. UNCHANGED <<q, vectorize>>
  BY DEF Next, vars, Continue, Break, ScalarBody, VectorBody, Incr, Post
<1>2. /\ space' = space /\ ReadReach(q)' = ReadReach(q) /\ (q \in Queries)' = (q \in Queries)
      /\ \A row : RowRead(row)' = RowRead(row)
  BY <1>1 DEF space, ReadReach, RowRead
<1>3. /\ q \in Queries /\ idx \in ReadReach(q)
      /\ pc \in {"body", "incr"} => space.is_alive[idx]
      /\ \A k \in DOMAIN out_vec : (vectorize => bytemap[k]) => RowRead(out_vec[k])
      /\ vectorize => DOMAIN out_vec \subseteq DOMAIN bytemap
  BY DEF ReadInv, Alive
<1>4. CASE UNCHANGED <<idx, out_vec, bytemap>> /\ (pc' \in {"body", "incr"} => space.is_alive[idx])
  BY <1>1, <1>2, <1>3, <1>4 DEF ReadInv, Alive
<1>5. CASE Incr
  <2>1. idx' = space.next[idx] /\ pc' = "exit_cond" /\ UNCHANGED <<out_vec, bytemap>> /\ pc = "incr"
    BY <1>5 DEF Incr
  <2>2. idx' \in ReadReach(q)
    BY <1>3, <2>1, ReadFacts DEF Closed
  <2>3. QED BY <1>1, <1>2, <1>3, <2>1, <2>2 DEF ReadInv
<1>6. CASE VectorBody
  <2> DEFINE c == space.iter_cond[idx]
             n == out_vec_idx
  <2>1. /\ vectorize /\ pc = "body" /\ pc' = "incr" /\ UNCHANGED idx
        /\ out_vec' = Store(out_vec, n, Output)
        /\ bytemap' = Store(bytemap, n, c)
    BY <1>6 DEF VectorBody, WriteRow
  <2>2. c => RowRead(Output)
    BY <2>1, BodyRead
  <2> HIDE DEF c, n
  <2>3. /\ DOMAIN out_vec' = DOMAIN out_vec \union {n}
        /\ DOMAIN bytemap' = DOMAIN bytemap \union {n}
        /\ bytemap'[n] = c /\ out_vec'[n] = Output
    BY <2>1 DEF Store
  <2>4. ASSUME NEW k \in DOMAIN out_vec, k # n
        PROVE  /\ out_vec'[k] = out_vec[k]
               /\ bytemap'[k] = bytemap[k]
    <3>1. out_vec'[k] = out_vec[k]
      BY <2>1, <2>4 DEF Store
    <3>2. k \in DOMAIN bytemap
      BY <1>3, <2>1
    <3>3. bytemap'[k] = bytemap[k]
      BY <2>1, <2>4, <3>2 DEF Store
    <3>4. QED BY <3>1, <3>3
  <2>5. ASSUME NEW k \in DOMAIN out_vec', bytemap'[k]
        PROVE  RowRead(out_vec'[k])
    <3>1. CASE k = n
      BY <2>2, <2>3, <2>5, <3>1
    <3>2. CASE k # n
      <4>1. k \in DOMAIN out_vec
        BY <2>3, <3>2
      <4>2. QED BY <1>3, <2>4, <2>5, <3>2, <4>1
    <3>3. QED BY <3>1, <3>2
  <2>6. DOMAIN out_vec' \subseteq DOMAIN bytemap'
    BY <1>3, <2>1, <2>3
  <2>7. QED BY <1>1, <1>2, <1>3, <2>1, <2>5, <2>6 DEF ReadInv, Alive
<1>7. CASE ScalarBody /\ space.iter_cond[idx]
  <2>1. /\ ~vectorize /\ pc = "body" /\ pc' = "incr" /\ UNCHANGED <<idx, bytemap>>
        /\ out_vec' = Store(out_vec, out_vec_idx, Output)
    BY <1>7 DEF ScalarBody, WriteRow
  <2>2. RowRead(Output)
    BY <1>7, <2>1, BodyRead
  <2>3. \A k \in DOMAIN out_vec' : RowRead(out_vec'[k])
    BY <1>3, <2>1, <2>2 DEF Store
  <2>4. QED BY <1>1, <1>2, <1>3, <2>1, <2>3 DEF ReadInv, Alive
<1>8. CASE ScalarBody /\ ~space.iter_cond[idx]
  BY <1>3, <1>4, <1>8 DEF ScalarBody
<1>9. CASE Continue
  BY <1>4, <1>9 DEF Continue
<1>10. CASE Break \/ Post
  BY <1>4, <1>10 DEF Break, Post
<1>11. CASE UNCHANGED vars
  BY <1>3, <1>4, <1>11 DEF vars
<1>12. QED BY <1>5, <1>6, <1>7, <1>8, <1>9, <1>10, <1>11 DEF Next

LEMMA ReadInvariance ==
  ASSUME AllReadable
  PROVE  Spec => []ReadInv
<1>1. Init => ReadInv
  BY ReadInit
<1>2. ReadInv /\ [Next]_vars => ReadInv'
  BY ReadStep
<1>3. QED BY <1>1, <1>2, PTL DEF Spec

(* No iteration of the loop, in either path, reads outside the vectors,    *)
(* and its exit test at most the cell behind one.                          *)
THEOREM ReadsStayInside ==
  ASSUME AllReadable
  PROVE  Spec => []NoStrayRead
<1>1. ReadInv => NoStrayRead
  <2>1. SUFFICES ASSUME ReadInv, NEW e \in space.vec_iter_idxs[idx]
                 PROVE  \E w \in WalksOf(q) :
                          /\ e[1] = w.name
                          /\ pc = "exit_cond" => e[2] \in 0 .. w.vec.len
                          /\ pc \in {"body", "incr"} => e[2] \in Rows(w.vec)
    BY DEF NoStrayRead
  <2>2. /\ q \in Queries /\ idx \in ReadReach(q)
        /\ pc \in {"body", "incr"} => space.is_alive[idx]
    BY <2>1 DEF ReadInv, Alive
  <2>3. CASE pc \in {"body", "incr"}
    BY <2>1, <2>2, <2>3, ReadFacts DEF ReadLaw
  <2>4. CASE pc \notin {"body", "incr"}
    BY <2>1, <2>2, <2>4, ReadFacts DEF ReadLaw, EdgeLaw
  <2>5. QED BY <2>3, <2>4
<1>2. Spec => []ReadInv
  BY ReadInvariance
<1>3. QED BY <1>1, <1>2, PTL

(* In every row that counts the elements are those of the row's iterator,  *)
(* although they are read at the loop's index and not looked up.           *)
THEOREM ElementsAreTheIterators ==
  ASSUME AllReadable
  PROVE  Spec => []ElementsMatch
<1>1. ReadInv => ElementsMatch
  BY DEF ReadInv, ElementsMatch, Counted, RowRead
<1>2. Spec => []ReadInv
  BY ReadInvariance
<1>3. QED BY <1>1, <1>2, PTL

-----------------------------------------------------------------------------
(* Each space over vectors is, inside of them, on a value of one of their  *)
(* rows; and so is each row of the output.                                 *)
AllKeyed ==
  \A query \in Queries : WalksOf(query) # {} =>
    /\ IsFiniteSet(RowKeys(WalksOf(query)))
    /\ \E vec : /\ \A w \in WalksOf(query) : w.vec = vec[w.name]
                /\ Keyed(SpaceOf(query), WalksOf(query), vec)

KeyedInv ==
  /\ Books
  /\ ReadInv
  /\ WalksOf(q) # {} => \A k \in DOMAIN out_vec : out_vec[k].iter \in RowKeys(WalksOf(q))

LEMMA HereKeyed ==
  ASSUME AllReadable, AllKeyed, Books, ReadInv, pc = "body", WalksOf(q) # {}
  PROVE  Here \in RowKeys(WalksOf(q))
<1>1. q \in Queries /\ idx \in ReadReach(q) /\ space.is_alive[idx] /\ idx \in space.idx
  BY DEF ReadInv, Alive, Books, TypeOK
<1>2. PICK vec : /\ \A w \in WalksOf(q) : w.vec = vec[w.name]
                 /\ Keyed(space, WalksOf(q), vec)
  BY <1>1 DEF AllKeyed, space
<1>3. \A e \in space.vec_iter_idxs[idx] : \E w \in WalksOf(q) : e[1] = w.name /\ e[2] \in Rows(w.vec)
  BY <1>1, ReadFacts DEF ReadLaw
<1>4. \A e \in space.vec_iter_idxs[idx] : e[2] \in Rows(vec[e[1]])
  BY <1>2, <1>3
<1>5. QED BY <1>1, <1>2, <1>4 DEF Keyed, Here

LEMMA KeyedInit ==
  ASSUME AllSpaces, AllReadable, Init
  PROVE  KeyedInv
<1>1. DOMAIN out_vec = {}
  BY DEF Init, Empty
<1>2. QED BY <1>1, InitBooks, ReadInit DEF KeyedInv

LEMMA KeyedStep ==
  ASSUME AllSpaces, AllReadable, AllKeyed, KeyedInv, [Next]_vars
  PROVE  KeyedInv'
<1>1. Books' /\ ReadInv'
  BY StepBooks, ReadStep DEF KeyedInv
<1>2. UNCHANGED q
  BY DEF Next, vars, Continue, Break, ScalarBody, VectorBody, Incr, Post
<1>3. CASE UNCHANGED out_vec
  BY <1>1, <1>2, <1>3 DEF KeyedInv
<1>4. CASE ScalarBody \/ VectorBody
  <2>1. pc = "body"
    BY <1>4 DEF ScalarBody, VectorBody
  <2>2. CASE /\ DOMAIN out_vec' = 0 .. out_vec_idx
             /\ out_vec'[out_vec_idx].iter = Here
             /\ \A i \in 0 .. out_vec_idx - 1 : out_vec'[i] = out_vec[i]
    <3>1. ASSUME WalksOf(q) # {}, NEW k \in DOMAIN out_vec'
          PROVE  out_vec'[k].iter \in RowKeys(WalksOf(q))
      <4>1. out_vec_idx \in Nat /\ DOMAIN out_vec = 0 .. out_vec_idx - 1
        BY DEF KeyedInv, Books, TypeOK
      <4>2. CASE k = out_vec_idx
        BY <2>1, <2>2, <3>1, <4>2, HereKeyed DEF KeyedInv
      <4>3. CASE k \in DOMAIN out_vec
        BY <2>2, <3>1, <4>1, <4>3 DEF KeyedInv
      <4>4. QED BY <2>2, <4>1, <4>2, <4>3
    <3>2. QED BY <1>1, <1>2, <3>1 DEF KeyedInv
  <2>3. QED BY <1>3, <1>4, <2>2, BodyEmits DEF KeyedInv
<1>5. QED BY <1>3, <1>4 DEF Next, vars, Continue, Break, Incr, Post

LEMMA KeyedRowsFit ==
  ASSUME AllKeyed, KeyedInv, OutputSorted
  PROVE  RowsFit
<1>1. SUFFICES ASSUME WalksOf(q) # {}
               PROVE  out_vec_idx <= Cardinality(RowKeys(WalksOf(q)))
  BY DEF RowsFit
<1> DEFINE rows == DOMAIN out_vec
           keys == RowKeys(WalksOf(q))
           f == [k \in rows |-> out_vec[k].iter]
<1>2. /\ out_vec_idx \in Nat /\ rows = 0 .. out_vec_idx - 1
      /\ \A k \in rows : out_vec[k].iter \in Int /\ out_vec[k].iter \in keys
      /\ IsFiniteSet(keys)
  BY <1>1 DEF KeyedInv, Books, TypeOK, AllKeyed
<1>3. ASSUME NEW i \in rows, NEW k \in rows, f[i] = f[k]
      PROVE  i = k
  <2>1. ~(i < k) /\ ~(k < i)
    BY <1>2, <1>3 DEF OutputSorted
  <2>2. i \in Int /\ k \in Int
    BY <1>2
  <2>3. QED BY <2>1, <2>2
<1>4. f \in Injection(rows, keys)
  BY <1>2, <1>3 DEF Injection, IsInjective
<1> HIDE DEF f, keys
<1>5. Cardinality(rows) <= Cardinality(keys)
  BY <1>2, <1>4, FS_Injection
<1>6. Cardinality(rows) = out_vec_idx
  BY <1>2, FS_Interval
<1>7. QED BY <1>5, <1>6 DEF keys

(* No loop over vectors writes more rows than there are different values   *)
(* in the rows of its vectors, which bounds the output and the byte map.   *)
THEOREM LoopRowsFit ==
  ASSUME AllLawful, AllReadable, AllKeyed
  PROVE  Spec => []RowsFit
<1>1. Spec => []KeyedInv
  BY LawfulSpaces, KeyedInit, KeyedStep, PTL DEF Spec
<1>2. Spec => []OutputSorted
  BY LoopSorted
<1>3. KeyedInv /\ OutputSorted => RowsFit
  BY KeyedRowsFit
<1>4. QED BY <1>1, <1>2, <1>3, PTL

-----------------------------------------------------------------------------
(* What the tables say of a structure, kind by kind.                       *)
LEMMA StructureKinds ==
  ASSUME NEW T, NEW in, StructureTables(T, in), NEW s \in T.trees
  PROVE  s.kind \in {"universal", "vec"} \union SuperKinds \union JointKinds
BY DEF StructureTables, TreeTables, IsStructure, SuperKinds, JointKinds, Universal, Vec, Shifted, Filtered,
       LBound, UBound, Union, Inter

LEMMA UniversalTables ==
  ASSUME NEW T, NEW in, StructureTables(T, in), NEW s \in T.trees, s.kind = "universal"
  PROVE  /\ s = Universal
         /\ T.space[s] = UniversalSpace
         /\ T.stands[s] = Int
         /\ T.leaves[s] = {}
         /\ ~T.plain[s]
<1>1. s = Universal
  BY DEF StructureTables, TreeTables, IsStructure, Vec, Shifted, Filtered, LBound, UBound, Union, Inter
<1>2. QED BY <1>1 DEF StructureTables, TreeTables, ValueTables, SpaceOver, StandsOver, LeavesOver, PlainOver

LEMMA VecTables ==
  ASSUME NEW T, NEW in, StructureTables(T, in), NEW s \in T.trees, s.kind = "vec"
  PROVE  /\ s.vec \in DOMAIN in.vec
         /\ T.space[s] = VecSpace(s.vec, in.vec[s.vec])
         /\ T.stands[s] = Keys(in.vec[s.vec])
         /\ T.leaves[s] = {[vec |-> s.vec, shift |-> 0]}
         /\ T.plain[s] <=> \A i \in Rows(in.vec[s.vec]) : in.vec[s.vec].cells[i].valid
<1>1. s.vec \in DOMAIN in.vec
  BY DEF StructureTables, TreeTables, IsStructure, Universal, Shifted, Filtered, LBound, UBound, Union, Inter
<1>2. QED BY <1>1 DEF StructureTables, TreeTables, ValueTables, SpaceOver, StandsOver, LeavesOver, PlainOver

(* A structure of one part.                                                *)
LEMMA SuperTables ==
  ASSUME NEW T, NEW in, StructureTables(T, in), NEW s \in T.trees, s.kind \in SuperKinds
  PROVE  /\ Parts(s) = {s.ispace}
         /\ s.ispace \in T.trees
         /\ T.size[s.ispace] < T.size[s]
         /\ T.aligned[s] <=> T.aligned[s.ispace]
         /\ T.merges[s] <=> T.merges[s.ispace]
<1>1. Parts(s) = {s.ispace} /\ s.kind # "union"
  BY DEF Parts, SuperKinds
<1>2. QED BY <1>1 DEF StructureTables, TreeTables, AlignedOver, MergesOver

LEMMA ShiftedTables ==
  ASSUME NEW T, NEW in, StructureTables(T, in), NEW s \in T.trees, s.kind = "shifted"
  PROVE  /\ s.offset \in Int
         /\ T.space[s] = ShiftedSpace(T.space[s.ispace], s.offset)
         /\ T.stands[s] = Moved(T.stands[s.ispace], s.offset)
         /\ T.leaves[s] = {[vec |-> l.vec, shift |-> l.shift + s.offset] : l \in T.leaves[s.ispace]}
         /\ T.plain[s] <=> T.plain[s.ispace]
<1>1. s.offset \in Int
  BY DEF StructureTables, TreeTables, IsStructure, Universal, Vec, Filtered, LBound, UBound, Union, Inter
<1>2. QED BY <1>1 DEF StructureTables, TreeTables, ValueTables, SpaceOver, StandsOver, LeavesOver, PlainOver

LEMMA FilteredTables ==
  ASSUME NEW T, NEW in, StructureTables(T, in), NEW s \in T.trees, s.kind = "filtered"
  PROVE  /\ T.space[s] = FilteredSpace(T.space[s.ispace],
                           [i \in T.space[s.ispace].idx |-> T.space[s.ispace].idx_to_iter[i] \in s.keep])
         /\ T.stands[s] = T.stands[s.ispace] \intersect s.keep
         /\ T.leaves[s] = T.leaves[s.ispace]
         /\ ~T.plain[s]
<1>1. Parts(s) = {s.ispace}
  BY SuperTables DEF SuperKinds
<1>2. T.leaves[s] = UNION {T.leaves[c] : c \in {s.ispace}}
  BY <1>1 DEF StructureTables, TreeTables, LeavesOver
<1>a. T.leaves[s] = T.leaves[s.ispace]
  BY <1>2
<1>b. ~T.plain[s]
  BY DEF StructureTables, TreeTables, PlainOver
<1>3. T.space[s] = SpaceOver(s, in, T.space) /\ T.stands[s] = StandsOver(s, in, T.stands)
  BY DEF StructureTables, ValueTables
<1>4. QED BY <1>a, <1>b, <1>3 DEF SpaceOver, StandsOver

LEMMA LBoundTables ==
  ASSUME NEW T, NEW in, IsInput(in), StructureTables(T, in), NEW s \in T.trees, s.kind = "lbound"
  PROVE  /\ BoundOf(s.bound, in) \in Int
         /\ T.space[s] = LBoundSpace(T.space[s.ispace], BoundOf(s.bound, in))
         /\ T.stands[s] = AtLeast(T.stands[s.ispace], BoundOf(s.bound, in))
         /\ T.leaves[s] = T.leaves[s.ispace]
         /\ ~T.plain[s]
<1>1. Parts(s) = {s.ispace}
  BY SuperTables DEF SuperKinds
<1>2. T.leaves[s] = UNION {T.leaves[c] : c \in {s.ispace}}
  BY <1>1 DEF StructureTables, TreeTables, LeavesOver
<1>a. T.leaves[s] = T.leaves[s.ispace]
  BY <1>2
<1>b. ~T.plain[s]
  BY DEF StructureTables, TreeTables, PlainOver
<1>3. IsBound(s.bound)
  BY DEF StructureTables, TreeTables, IsStructure, Universal, Vec, Shifted, Filtered, Union, Inter, UBound
<1>4. BoundOf(s.bound, in) \in Int
  BY <1>3 DEF IsBound, BoundOf, IsInput
<1>5. T.space[s] = SpaceOver(s, in, T.space) /\ T.stands[s] = StandsOver(s, in, T.stands)
  BY DEF StructureTables, ValueTables
<1>6. QED BY <1>a, <1>b, <1>4, <1>5 DEF SpaceOver, StandsOver

LEMMA UBoundTables ==
  ASSUME NEW T, NEW in, IsInput(in), StructureTables(T, in), NEW s \in T.trees, s.kind = "ubound"
  PROVE  /\ BoundOf(s.bound, in) \in Int
         /\ T.space[s] = UBoundSpace(T.space[s.ispace], BoundOf(s.bound, in))
         /\ T.stands[s] = AtMost(T.stands[s.ispace], BoundOf(s.bound, in))
         /\ T.leaves[s] = T.leaves[s.ispace]
         /\ ~T.plain[s]
<1>1. Parts(s) = {s.ispace}
  BY SuperTables DEF SuperKinds
<1>2. T.leaves[s] = UNION {T.leaves[c] : c \in {s.ispace}}
  BY <1>1 DEF StructureTables, TreeTables, LeavesOver
<1>a. T.leaves[s] = T.leaves[s.ispace]
  BY <1>2
<1>b. ~T.plain[s]
  BY DEF StructureTables, TreeTables, PlainOver
<1>3. IsBound(s.bound)
  BY DEF StructureTables, TreeTables, IsStructure, Universal, Vec, Shifted, Filtered, Union, Inter, LBound
<1>4. BoundOf(s.bound, in) \in Int
  BY <1>3 DEF IsBound, BoundOf, IsInput
<1>5. T.space[s] = SpaceOver(s, in, T.space) /\ T.stands[s] = StandsOver(s, in, T.stands)
  BY DEF StructureTables, ValueTables
<1>6. QED BY <1>a, <1>b, <1>4, <1>5 DEF SpaceOver, StandsOver

(* A structure of two parts.                                               *)
LEMMA JointTables ==
  ASSUME NEW T, NEW in, StructureTables(T, in), NEW s \in T.trees, s.kind \in JointKinds
  PROVE  /\ Parts(s) = {s.left, s.right}
         /\ s.left \in T.trees /\ s.right \in T.trees
         /\ T.size[s.left] < T.size[s] /\ T.size[s.right] < T.size[s]
         /\ T.leaves[s] = T.leaves[s.left] \union T.leaves[s.right]
         /\ T.aligned[s] => /\ T.leaves[s.left] = T.leaves[s.right]
                            /\ T.aligned[s.left] /\ T.aligned[s.right]
         /\ T.merges[s] => T.merges[s.left] /\ T.merges[s.right]
<1>1. Parts(s) = {s.left, s.right}
  BY DEF Parts, SuperKinds, JointKinds
<1>2. T.leaves[s] = UNION {T.leaves[c] : c \in {s.left, s.right}}
  BY <1>1 DEF StructureTables, TreeTables, LeavesOver, JointKinds
<1>3. T.leaves[s] = T.leaves[s.left] \union T.leaves[s.right]
  BY <1>2
<1>4. QED BY <1>1, <1>3 DEF StructureTables, TreeTables, AlignedOver, MergesOver

LEMMA UnionTables ==
  ASSUME NEW T, NEW in, StructureTables(T, in), NEW s \in T.trees, s.kind = "union"
  PROVE  /\ T.space[s] = UnionSpace(T.space[s.left], T.space[s.right])
         /\ T.stands[s] = T.stands[s.left] \union T.stands[s.right]
         /\ T.plain[s] <=> T.plain[s.left] /\ T.plain[s.right]
         /\ T.merges[s] =>
              /\ T.space[s.left].lower_bound # {} /\ T.space[s.left].upper_bound # {}
              /\ T.space[s.right].lower_bound # {} /\ T.space[s.right].upper_bound # {}
              /\ \/ /\ \A l, m \in T.leaves[s] : LastKey(l, in) = LastKey(m, in)
                    /\ T.plain[s.left] /\ T.plain[s.right]
                 \/ /\ \A l, m \in T.leaves[s] : l = m
                    /\ T.aligned[s]
<1>1. Parts(s) = {s.left, s.right}
  BY DEF Parts, SuperKinds, JointKinds
<1>2. T.merges[s] => Mergeable(s, in, T.space, T.leaves, T.plain, T.aligned)
  BY DEF StructureTables, TreeTables, MergesOver
<1>3. QED BY <1>1, <1>2 DEF StructureTables, TreeTables, ValueTables, SpaceOver, StandsOver, PlainOver, Mergeable

LEMMA InterTables ==
  ASSUME NEW T, NEW in, StructureTables(T, in), NEW s \in T.trees, s.kind = "inter"
  PROVE  /\ T.space[s] = InterSpace(T.space[s.left], T.space[s.right])
         /\ T.stands[s] = T.stands[s.left] \intersect T.stands[s.right]
         /\ ~T.plain[s]
BY DEF StructureTables, TreeTables, ValueTables, SpaceOver, StandsOver, PlainOver

-----------------------------------------------------------------------------
(* Induction over the trees of a table, by their size.                     *)
LEMMA LeastNat ==
  ASSUME NEW S \in SUBSET Nat, S # {}
  PROVE  \E n \in S : \A m \in S : n <= m
<1>1. IsWellFoundedOn(OpToRel(<, Nat), Nat)
  BY NatLessThanWellFounded
<1>2. PICK x \in S : \A y \in S : ~(<<y, x>> \in OpToRel(<, Nat))
  BY <1>1, WFMin
<1>3. \A y \in S : ~(y < x)
  BY <1>2 DEF OpToRel
<1>4. QED BY <1>3

LEMMA SizeInduction ==
  ASSUME NEW Trees, NEW size \in [Trees -> Nat], NEW Good \in SUBSET Trees,
         \A s \in Trees : (\A c \in Trees : size[c] < size[s] => c \in Good) => s \in Good
  PROVE  Good = Trees
<1> SUFFICES ASSUME Trees \ Good # {} PROVE FALSE
  OBVIOUS
<1> DEFINE Bad == {size[s] : s \in Trees \ Good}
<1>1. Bad \in SUBSET Nat /\ Bad # {}
  OBVIOUS
<1>2. PICK n \in Bad : \A m \in Bad : n <= m
  BY <1>1, LeastNat
<1>3. PICK s \in Trees \ Good : size[s] = n
  BY <1>2
<1>4. ASSUME NEW c \in Trees, size[c] < size[s]
      PROVE  c \in Good
  <2>1. SUFFICES ASSUME c \notin Good PROVE FALSE
    OBVIOUS
  <2>2. size[c] \in Bad /\ size[c] \in Nat /\ n \in Nat
    BY <1>1, <2>1
  <2>3. n <= size[c]
    BY <1>2, <2>2
  <2>4. QED BY <1>3, <1>4, <2>2, <2>3
<1>5. QED BY <1>3, <1>4

-----------------------------------------------------------------------------
(* Every leaf of a structure is a vector of the inputs.                    *)
IsLeaf(l, in) ==
  /\ l = [vec |-> l.vec, shift |-> l.shift]
  /\ l.vec \in DOMAIN in.vec
  /\ l.shift \in Int

LEMMA LeavesAre ==
  ASSUME NEW T, NEW in, StructureTables(T, in)
  PROVE  \A s \in T.trees : \A l \in T.leaves[s] : IsLeaf(l, in)
<1> DEFINE Good == {s \in T.trees : \A l \in T.leaves[s] : IsLeaf(l, in)}
<1>1. ASSUME NEW s \in T.trees, \A c \in T.trees : T.size[c] < T.size[s] => c \in Good
      PROVE  \A l \in T.leaves[s] : IsLeaf(l, in)
  <2>1. CASE s.kind = "universal"
    BY <2>1, UniversalTables
  <2>2. CASE s.kind = "vec"
    BY <2>2, VecTables DEF IsLeaf
  <2>3. CASE s.kind \in SuperKinds
    <3>1. s.ispace \in Good
      BY <1>1, <2>3, SuperTables
    <3>2. CASE s.kind = "shifted"
      <4>1. TAKE l \in T.leaves[s]
      <4>2. PICK m \in T.leaves[s.ispace] : l = [vec |-> m.vec, shift |-> m.shift + s.offset]
        BY <3>2, ShiftedTables
      <4>3. s.offset \in Int /\ IsLeaf(m, in)
        BY <3>1, <3>2, ShiftedTables
      <4>4. QED BY <4>2, <4>3 DEF IsLeaf
    <3>3. CASE s.kind # "shifted"
      <4>1. Parts(s) = {s.ispace} /\ T.leaves[s] = UNION {T.leaves[c] : c \in Parts(s)}
        BY <2>3, <3>3, SuperTables DEF StructureTables, TreeTables, LeavesOver, SuperKinds
      <4>2. QED BY <3>1, <4>1
    <3>4. QED BY <3>2, <3>3
  <2>4. CASE s.kind \in JointKinds
    <3>1. s.left \in Good /\ s.right \in Good
      BY <1>1, <2>4, JointTables
    <3>2. QED BY <2>4, <3>1, JointTables
  <2>5. QED BY <2>1, <2>2, <2>3, <2>4, StructureKinds
<1>2. Good = T.trees
  <2>1. T.size \in [T.trees -> Nat]
    BY DEF StructureTables, TreeTables
  <2>2. Good \in SUBSET T.trees
    OBVIOUS
  <2>3. \A s \in T.trees : (\A c \in T.trees : T.size[c] < T.size[s] => c \in Good) => s \in Good
    BY <1>1
  <2> HIDE DEF Good
  <2>4. QED BY <2>1, <2>2, <2>3, SizeInduction
<1>3. QED BY <1>2

LEMMA WalksAre ==
  ASSUME NEW T, NEW in, IsInput(in), StructureTables(T, in), NEW s \in T.trees
  PROVE  /\ AreWalks(WalksOver(T.leaves[s], in))
         /\ \A w \in WalksOver(T.leaves[s], in) : Sorted(w.vec)
<1>1. \A l \in T.leaves[s] : IsLeaf(l, in)
  BY LeavesAre
<1>2. QED BY <1>1 DEF WalksOver, WalkOf, IsLeaf, AreWalks, IsInput

LEMMA ShiftedWalksAre ==
  ASSUME NEW T, NEW in, StructureTables(T, in), NEW s \in T.trees, s.kind = "shifted"
  PROVE  WalksOver(T.leaves[s], in) = ShiftedWalks(WalksOver(T.leaves[s.ispace], in), s.offset)
<1> DEFINE Moving(l) == [vec |-> l.vec, shift |-> l.shift + s.offset]
           Walking(l) == WalkOf(l, in)
           Shifting(w) == [name |-> w.name, vec |-> w.vec, shift |-> w.shift + s.offset]
<1>1. T.leaves[s] = {Moving(l) : l \in T.leaves[s.ispace]}
  BY ShiftedTables
<1>2. WalksOver(T.leaves[s], in) = {Walking(l) : l \in T.leaves[s]}
  BY DEF WalksOver
<1>3. ShiftedWalks(WalksOver(T.leaves[s.ispace], in), s.offset) =
        {Shifting(Walking(l)) : l \in T.leaves[s.ispace]}
  BY DEF WalksOver, ShiftedWalks
<1>4. \A l : Walking(Moving(l)) = Shifting(Walking(l))
  BY DEF WalkOf
<1> HIDE DEF Moving, Walking, Shifting
<1>5. QED BY <1>1, <1>2, <1>3, <1>4

-----------------------------------------------------------------------------
(* Every structure whose unions merge is a space within its bounds.        *)
LEMMA StructureBounded ==
  ASSUME NEW T, NEW in, IsInput(in), StructureTables(T, in)
  PROVE  \A s \in T.trees : T.merges[s] => /\ T.stands[s] \in SUBSET Int
                                           /\ Bounded(T.space[s], T.stands[s])
<1> DEFINE P(s) == T.stands[s] \in SUBSET Int /\ Bounded(T.space[s], T.stands[s])
           Good == {s \in T.trees : T.merges[s] => P(s)}
<1>1. ASSUME NEW s \in T.trees, \A c \in T.trees : T.size[c] < T.size[s] => c \in Good, T.merges[s]
      PROVE  P(s)
  <2>1. CASE s.kind = "universal"
    BY <2>1, UniversalTables, UniversalBounded
  <2>2. CASE s.kind = "vec"
    <3>1. IsVector(in.vec[s.vec]) /\ Sorted(in.vec[s.vec])
      BY <2>2, VecTables DEF IsInput
    <3>2. Keys(in.vec[s.vec]) \in SUBSET Int
      BY <3>1 DEF Keys, IsVector, Cell, Rows
    <3>3. QED BY <2>2, <3>1, <3>2, VecTables, VecBounded
  <2>3. ASSUME s.kind \in SuperKinds
        PROVE  P(s.ispace)
    BY <1>1, <2>3, SuperTables
  <2>4. ASSUME s.kind \in JointKinds
        PROVE  P(s.left) /\ P(s.right)
    BY <1>1, <2>4, JointTables
  <2>5. CASE s.kind = "shifted"
    <3>1. P(s.ispace) /\ s.offset \in Int
      BY <2>3, <2>5, ShiftedTables DEF SuperKinds
    <3>2. Moved(T.stands[s.ispace], s.offset) \in SUBSET Int
      BY DEF Moved
    <3>3. QED BY <2>5, <3>1, <3>2, ShiftedTables, ShiftedBounded
  <2>6. CASE s.kind = "filtered"
    <3>1. P(s.ispace)
      BY <2>3, <2>6 DEF SuperKinds
    <3> DEFINE c == T.space[s.ispace]
               f == FilteredSpace(c, [i \in c.idx |-> c.idx_to_iter[i] \in s.keep])
    <3>2. Bounded(f, T.stands[s.ispace] \intersect s.keep)
      BY <3>1, FilteredBounded
    <3>3. T.space[s] = f /\ T.stands[s] = T.stands[s.ispace] \intersect s.keep
      BY <2>6, FilteredTables
    <3> HIDE DEF f
    <3>4. T.stands[s.ispace] \intersect s.keep \in SUBSET Int
      BY <3>1
    <3>5. QED BY <3>2, <3>3, <3>4
  <2>7. CASE s.kind = "lbound"
    <3>1. P(s.ispace)
      BY <2>3, <2>7 DEF SuperKinds
    <3>2. AtLeast(T.stands[s.ispace], BoundOf(s.bound, in)) \in SUBSET Int
      BY <3>1 DEF AtLeast
    <3>3. QED BY <2>7, <3>1, <3>2, LBoundTables, LBoundBounded
  <2>8. CASE s.kind = "ubound"
    <3>1. P(s.ispace)
      BY <2>3, <2>8 DEF SuperKinds
    <3>2. AtMost(T.stands[s.ispace], BoundOf(s.bound, in)) \in SUBSET Int
      BY <3>1 DEF AtMost
    <3>3. QED BY <2>8, <3>1, <3>2, UBoundTables, UBoundBounded
  <2>9. CASE s.kind = "union"
    <3>1. P(s.left) /\ P(s.right)
      BY <2>4, <2>9 DEF JointKinds
    <3>2. QED BY <1>1, <2>9, <3>1, UnionTables, UnionBounded
  <2>10. CASE s.kind = "inter"
    <3>1. P(s.left) /\ P(s.right)
      BY <2>4, <2>10 DEF JointKinds
    <3>2. QED BY <2>10, <3>1, InterTables, InterBounded
  <2>11. QED BY <2>1, <2>2, <2>5, <2>6, <2>7, <2>8, <2>9, <2>10, StructureKinds DEF SuperKinds, JointKinds
<1>2. Good = T.trees
  <2>1. T.size \in [T.trees -> Nat]
    BY DEF StructureTables, TreeTables
  <2>2. Good \in SUBSET T.trees
    OBVIOUS
  <2>3. \A s \in T.trees : (\A c \in T.trees : T.size[c] < T.size[s] => c \in Good) => s \in Good
    BY <1>1
  <2> HIDE DEF Good
  <2>4. QED BY <2>1, <2>2, <2>3, SizeInduction
<1>3. QED BY <1>2

-----------------------------------------------------------------------------
(* A structure over one vector, or none, whose sides go over the same goes *)
(* in step with it.                                                        *)
BaseOf(leaves, in, base, names) ==
  \/ leaves = {} /\ base = FreeBase /\ names = {}
  \/ \E l \in leaves : /\ leaves = {l}
                       /\ base = WalkBase(WalkOf(l, in))
                       /\ names = {l.vec}

LEMMA BaseOfIs ==
  ASSUME NEW T, NEW in, IsInput(in), StructureTables(T, in), NEW s \in T.trees,
         NEW base, NEW names, BaseOf(T.leaves[s], in, base, names)
  PROVE  IsBase(base)
<1>1. CASE base = FreeBase
  BY <1>1, FreeBaseIs
<1>2. ASSUME NEW l \in T.leaves[s], base = WalkBase(WalkOf(l, in))
      PROVE  IsBase(base)
  <2>1. IsLeaf(l, in)
    BY LeavesAre
  <2>2. /\ IsVector(WalkOf(l, in).vec) /\ Sorted(WalkOf(l, in).vec)
        /\ WalkOf(l, in).shift \in Int
    BY <2>1 DEF IsLeaf, IsInput, WalkOf
  <2>3. QED BY <1>2, <2>2, WalkBaseIs
<1>3. QED BY <1>1, <1>2 DEF BaseOf

LEMMA ShiftedBase ==
  ASSUME NEW T, NEW in, IsInput(in), StructureTables(T, in), NEW s \in T.trees, s.kind = "shifted",
         NEW base, NEW names, BaseOf(T.leaves[s], in, base, names),
         NEW Sol \in SUBSET Int, NEW child, IsSpace(child),
         \A b, n : BaseOf(T.leaves[s.ispace], in, b, n) => InStep(child, Sol, b, n)
  PROVE  InStep(ShiftedSpace(child, s.offset), Moved(Sol, s.offset), base, names)
<1> DEFINE inner == T.leaves[s.ispace]
<1>1. /\ s.offset \in Int
      /\ T.leaves[s] = {[vec |-> l.vec, shift |-> l.shift + s.offset] : l \in inner}
      /\ \A l \in inner : IsLeaf(l, in)
  BY ShiftedTables, SuperTables, LeavesAre DEF SuperKinds
<1> HIDE DEF inner
<1>2. CASE inner = {}
  <2>1. T.leaves[s] = {}
    BY <1>1, <1>2
  <2>2. base = FreeBase /\ names = {}
    BY <2>1 DEF BaseOf
  <2>3. InStep(child, Sol, FreeBase, {})
    BY <1>2 DEF BaseOf, inner
  <2>4. QED BY <1>1, <2>2, <2>3, ShiftedInStepFree
<1>3. ASSUME NEW l \in inner
      PROVE  InStep(ShiftedSpace(child, s.offset), Moved(Sol, s.offset), base, names)
  <2> DEFINE m == [vec |-> l.vec, shift |-> l.shift + s.offset]
             w == WalkOf(l, in)
             n == WalkOf(m, in)
  <2>1. m \in T.leaves[s]
    BY <1>1
  <2>2. T.leaves[s] = {m} /\ base = WalkBase(n) /\ names = {m.vec}
    BY <2>1 DEF BaseOf
  <2>3. ASSUME NEW k \in inner
        PROVE  k = l
    <3>1. [vec |-> k.vec, shift |-> k.shift + s.offset] \in T.leaves[s]
      BY <1>1
    <3>2. [vec |-> k.vec, shift |-> k.shift + s.offset] = m
      BY <2>2, <3>1
    <3>3. k.vec = l.vec /\ k.shift + s.offset = l.shift + s.offset
      BY <3>2
    <3>4. k.shift \in Int /\ l.shift \in Int
      BY <1>1 DEF IsLeaf
    <3>5. k.shift = l.shift
      BY <1>1, <3>3, <3>4
    <3>6. QED BY <1>1, <3>3, <3>5 DEF IsLeaf
  <2>4. inner = {l}
    BY <2>3
  <2>5. InStep(child, Sol, WalkBase(w), {w.name})
    <3>1. BaseOf(inner, in, WalkBase(w), {l.vec})
      BY <2>4 DEF BaseOf
    <3>2. w.name = l.vec
      BY DEF WalkOf
    <3>3. QED BY <3>1, <3>2 DEF inner
  <2>6. /\ n.vec = w.vec /\ n.name = w.name /\ w.shift \in Int /\ IsVector(w.vec)
        /\ n.shift = w.shift + s.offset /\ n.name = m.vec
    BY <1>1 DEF WalkOf, IsLeaf, IsInput
  <2> HIDE DEF w, n, m
  <2>7. InStep(ShiftedSpace(child, s.offset), Moved(Sol, s.offset), WalkBase(n), {n.name})
    BY <1>1, <2>5, <2>6, ShiftedInStepWalk
  <2>8. QED BY <2>2, <2>6, <2>7
<1>4. QED BY <1>2, <1>3

LEMMA AlignedInStep ==
  ASSUME NEW T, NEW in, IsInput(in), StructureTables(T, in)
  PROVE  \A s \in T.trees : T.merges[s] /\ T.aligned[s] =>
           \A base, names : BaseOf(T.leaves[s], in, base, names) =>
             InStep(T.space[s], T.stands[s], base, names)
<1> DEFINE P(s) == \A base, names : BaseOf(T.leaves[s], in, base, names) =>
                     InStep(T.space[s], T.stands[s], base, names)
           Good == {s \in T.trees : T.merges[s] /\ T.aligned[s] => P(s)}
<1>1. ASSUME NEW s \in T.trees, \A c \in T.trees : T.size[c] < T.size[s] => c \in Good,
             T.merges[s], T.aligned[s],
             NEW base, NEW names, BaseOf(T.leaves[s], in, base, names)
      PROVE  InStep(T.space[s], T.stands[s], base, names)
  <2>0. IsBase(base)
    BY <1>1, BaseOfIs
  <2>1. CASE s.kind = "universal"
    <3>1. base = FreeBase /\ names = {}
      BY <1>1, <2>1, UniversalTables DEF BaseOf
    <3>2. QED BY <2>1, <3>1, UniversalTables, UniversalInStep
  <2>2. CASE s.kind = "vec"
    <3> DEFINE l == [vec |-> s.vec, shift |-> 0]
               w == WalkOf(l, in)
    <3>1. base = WalkBase(w) /\ names = {s.vec}
      BY <1>1, <2>2, VecTables DEF BaseOf
    <3>2. /\ w.vec = in.vec[s.vec] /\ w.name = s.vec /\ w.shift = 0
          /\ IsVector(w.vec) /\ Sorted(w.vec)
      BY <2>2, VecTables DEF WalkOf, IsInput
    <3> HIDE DEF w
    <3>3. InStep(VecSpace(w.name, w.vec), Keys(w.vec), WalkBase(w), {w.name})
      BY <3>2, VecInStep
    <3>4. QED BY <2>2, <3>1, <3>2, <3>3, VecTables
  <2>3. ASSUME s.kind \in SuperKinds
        PROVE  /\ T.stands[s.ispace] \in SUBSET Int /\ Bounded(T.space[s.ispace], T.stands[s.ispace])
               /\ IsSpace(T.space[s.ispace])
               /\ P(s.ispace)
    <3>1. s.ispace \in T.trees /\ T.merges[s.ispace] /\ s.ispace \in Good /\ T.aligned[s.ispace]
      BY <1>1, <2>3, SuperTables
    <3>2. QED BY <3>1, StructureBounded DEF Bounded
  <2>4. ASSUME s.kind \in JointKinds
        PROVE  /\ IsSpace(T.space[s.left]) /\ InStep(T.space[s.left], T.stands[s.left], base, names)
               /\ IsSpace(T.space[s.right]) /\ InStep(T.space[s.right], T.stands[s.right], base, names)
    <3>1. /\ s.left \in T.trees /\ T.merges[s.left] /\ T.aligned[s.left] /\ s.left \in Good
          /\ s.right \in T.trees /\ T.merges[s.right] /\ T.aligned[s.right] /\ s.right \in Good
      BY <1>1, <2>4, JointTables
    <3>2. T.leaves[s.left] = T.leaves[s] /\ T.leaves[s.right] = T.leaves[s]
      <4>1. T.leaves[s.left] = T.leaves[s.right]
        BY <1>1, <2>4, JointTables
      <4>2. T.leaves[s] = T.leaves[s.left] \union T.leaves[s.right]
        BY <1>1, <2>4, JointTables
      <4>3. QED BY <4>1, <4>2
    <3>3. IsSpace(T.space[s.left]) /\ IsSpace(T.space[s.right])
      BY <3>1, StructureBounded DEF Bounded
    <3>4. QED BY <1>1, <3>1, <3>2, <3>3
  <2>5. CASE s.kind = "shifted"
    <3>1. InStep(ShiftedSpace(T.space[s.ispace], s.offset), Moved(T.stands[s.ispace], s.offset), base, names)
      BY <1>1, <2>3, <2>5, ShiftedBase DEF SuperKinds
    <3>2. QED BY <2>5, <3>1, ShiftedTables
  <2>6. CASE s.kind = "filtered"
    <3> DEFINE c == T.space[s.ispace]
               f == FilteredSpace(c, [i \in c.idx |-> c.idx_to_iter[i] \in s.keep])
    <3>1. T.leaves[s] = T.leaves[s.ispace] /\ T.space[s] = f
          /\ T.stands[s] = T.stands[s.ispace] \intersect s.keep
      BY <2>6, FilteredTables
    <3>2. InStep(c, T.stands[s.ispace], base, names) /\ IsSpace(c)
      BY <1>1, <2>3, <2>6, <3>1 DEF SuperKinds
    <3>3. InStep(f, T.stands[s.ispace] \intersect s.keep, base, names)
      BY <2>0, <3>2, FilteredInStep
    <3> HIDE DEF f
    <3>4. QED BY <3>1, <3>3
  <2>7. CASE s.kind = "lbound"
    <3>1. InStep(T.space[s.ispace], T.stands[s.ispace], base, names)
      BY <1>1, <2>3, <2>7, LBoundTables DEF SuperKinds
    <3>2. QED BY <2>0, <2>3, <2>7, <3>1, LBoundTables, LBoundInStep DEF SuperKinds
  <2>8. CASE s.kind = "ubound"
    <3>1. InStep(T.space[s.ispace], T.stands[s.ispace], base, names)
      BY <1>1, <2>3, <2>8, UBoundTables DEF SuperKinds
    <3>2. QED BY <2>0, <2>3, <2>8, <3>1, UBoundTables, UBoundInStep DEF SuperKinds
  <2>9. CASE s.kind = "union"
    BY <2>0, <2>4, <2>9, UnionTables, UnionInStep DEF JointKinds
  <2>10. CASE s.kind = "inter"
    BY <2>0, <2>4, <2>10, InterTables, InterInStep DEF JointKinds
  <2>11. QED BY <2>1, <2>2, <2>5, <2>6, <2>7, <2>8, <2>9, <2>10, StructureKinds DEF SuperKinds, JointKinds
<1>2. Good = T.trees
  <2>1. T.size \in [T.trees -> Nat]
    BY DEF StructureTables, TreeTables
  <2>2. Good \in SUBSET T.trees
    OBVIOUS
  <2>3. \A s \in T.trees : (\A c \in T.trees : T.size[c] < T.size[s] => c \in Good) => s \in Good
    BY <1>1
  <2> HIDE DEF Good
  <2>4. QED BY <2>1, <2>2, <2>3, SizeInduction
<1>3. QED BY <1>2

-----------------------------------------------------------------------------
LEMMA LastKeys ==
  ASSUME NEW in, IsInput(in), NEW l, IsLeaf(l, in)
  PROVE  LastKey(l, in) \in Int
<1>1. IsVector(in.vec[l.vec]) /\ l.shift \in Int
  BY DEF IsLeaf, IsInput
<1>2. in.vec[l.vec].len - 1 \in Int
  BY <1>1 DEF IsVector
<1>3. ReadData(in.vec[l.vec], in.vec[l.vec].len - 1) \in Int
  BY <1>1, <1>2, ReadsAreIntegers
<1>4. QED BY <1>1, <1>3 DEF LastKey

LEMMA VecWalksAre ==
  ASSUME NEW T, NEW in, StructureTables(T, in), NEW s \in T.trees, s.kind = "vec"
  PROVE  WalksOver(T.leaves[s], in) = VecWalks(s.vec, in.vec[s.vec])
<1> DEFINE l == [vec |-> s.vec, shift |-> 0]
<1>1. T.leaves[s] = {l}
  BY VecTables
<1>2. WalksOver({l}, in) = {WalkOf(l, in)}
  BY DEF WalksOver
<1>3. WalkOf(l, in) = [name |-> s.vec, vec |-> in.vec[s.vec], shift |-> 0]
  BY DEF WalkOf
<1>4. QED BY <1>1, <1>2, <1>3 DEF VecWalks

(* A plain structure whose vectors end together may be a side of a union.  *)
LEMMA PlainStructure ==
  ASSUME NEW T, NEW in, IsInput(in), StructureTables(T, in)
  PROVE  \A s \in T.trees : T.merges[s] /\ T.plain[s] =>
           \A last \in Int : (\A l \in T.leaves[s] : LastKey(l, in) = last) =>
             PlainSide(T.space[s], T.stands[s], WalksOver(T.leaves[s], in), last)
<1> DEFINE P(s) == \A last \in Int : (\A l \in T.leaves[s] : LastKey(l, in) = last) =>
                     PlainSide(T.space[s], T.stands[s], WalksOver(T.leaves[s], in), last)
           Good == {s \in T.trees : T.merges[s] /\ T.plain[s] => P(s)}
<1>1. ASSUME NEW s \in T.trees, \A c \in T.trees : T.size[c] < T.size[s] => c \in Good,
             T.merges[s], T.plain[s],
             NEW last \in Int, \A l \in T.leaves[s] : LastKey(l, in) = last
      PROVE  PlainSide(T.space[s], T.stands[s], WalksOver(T.leaves[s], in), last)
  <2>1. CASE s.kind = "vec"
    <3> DEFINE v == in.vec[s.vec]
               l == [vec |-> s.vec, shift |-> 0]
    <3>1. IsVector(v) /\ Sorted(v) /\ \A i \in Rows(v) : v.cells[i].valid
      BY <1>1, <2>1, VecTables DEF IsInput
    <3>2. T.leaves[s] = {l} /\ WalksOver(T.leaves[s], in) = VecWalks(s.vec, v)
      BY <2>1, VecTables, VecWalksAre
    <3>3. ReadData(v, v.len - 1) \in Int
      <4>1. v.len - 1 \in Int
        BY <3>1 DEF IsVector
      <4>2. QED BY <3>1, <4>1, ReadsAreIntegers
    <3>4. last = ReadData(v, v.len - 1)
      <4>1. LastKey(l, in) = ReadData(v, v.len - 1) + 0
        BY DEF LastKey
      <4>2. QED BY <1>1, <3>2, <3>3, <4>1
    <3> HIDE DEF l
    <3>5. QED BY <2>1, <3>1, <3>2, <3>4, VecTables, PlainVec
  <2>2. CASE s.kind = "shifted"
    <3> DEFINE c == s.ispace
               before == last - s.offset
    <3>1. c \in T.trees /\ T.merges[c] /\ T.plain[c] /\ c \in Good /\ s.offset \in Int
      BY <1>1, <2>2, SuperTables, ShiftedTables DEF SuperKinds
    <3>2. before \in Int /\ before + s.offset = last
      BY <3>1
    <3>3. ASSUME NEW k \in T.leaves[c]
          PROVE  LastKey(k, in) = before
      <4> DEFINE m == [vec |-> k.vec, shift |-> k.shift + s.offset]
                 end == ReadData(in.vec[k.vec], in.vec[k.vec].len - 1)
      <4>1. m \in T.leaves[s]
        BY <2>2, ShiftedTables
      <4>2. IsLeaf(k, in)
        BY <3>1, LeavesAre
      <4>3. k.shift \in Int /\ end \in Int
        <5>1. k.shift \in Int /\ IsVector(in.vec[k.vec]) /\ in.vec[k.vec].len - 1 \in Int
          BY <4>2 DEF IsLeaf, IsInput, IsVector
        <5>2. QED BY <5>1, ReadsAreIntegers
      <4>4. LastKey(m, in) = end + (k.shift + s.offset) /\ LastKey(k, in) = end + k.shift
        BY DEF LastKey
      <4> HIDE DEF end, m
      <4>5. end + (k.shift + s.offset) = last
        BY <1>1, <4>1, <4>4
      <4>6. QED BY <3>1, <4>3, <4>4, <4>5
    <3>4. PlainSide(T.space[c], T.stands[c], WalksOver(T.leaves[c], in), before)
      BY <3>1, <3>2, <3>3
    <3>5. AreWalks(WalksOver(T.leaves[c], in))
      BY <3>1, WalksAre
    <3>6. T.stands[c] \in SUBSET Int
      BY <3>1, StructureBounded
    <3>7. PlainSide(ShiftedSpace(T.space[c], s.offset), Moved(T.stands[c], s.offset),
                    ShiftedWalks(WalksOver(T.leaves[c], in), s.offset), before + s.offset)
      BY <3>1, <3>2, <3>4, <3>5, PlainShifted
    <3>8. QED BY <2>2, <3>2, <3>7, ShiftedTables, ShiftedWalksAre
  <2>3. CASE s.kind = "union"
    <3>1. /\ s.left \in T.trees /\ T.merges[s.left] /\ T.plain[s.left] /\ s.left \in Good
          /\ s.right \in T.trees /\ T.merges[s.right] /\ T.plain[s.right] /\ s.right \in Good
          /\ T.leaves[s] = T.leaves[s.left] \union T.leaves[s.right]
      BY <1>1, <2>3, JointTables, UnionTables DEF JointKinds
    <3> DEFINE wl == WalksOver(T.leaves[s.left], in)
               wr == WalksOver(T.leaves[s.right], in)
    <3>2. PlainSide(T.space[s.left], T.stands[s.left], wl, last)
      BY <1>1, <3>1
    <3>3. PlainSide(T.space[s.right], T.stands[s.right], wr, last)
      BY <1>1, <3>1
    <3>4. AreWalks(wl) /\ AreWalks(wr)
      BY <3>1, WalksAre
    <3>5. WalksOver(T.leaves[s], in) = wl \union wr
      BY <3>1 DEF WalksOver
    <3> HIDE DEF wl, wr
    <3>6. /\ T.space[s.left].lower_bound # {} /\ T.space[s.left].upper_bound # {}
          /\ T.space[s.right].lower_bound # {} /\ T.space[s.right].upper_bound # {}
      BY <1>1, <2>3, UnionTables
    <3>7. PlainSide(UnionSpace(T.space[s.left], T.space[s.right]),
                    T.stands[s.left] \union T.stands[s.right], wl \union wr, last)
      BY <3>2, <3>3, <3>4, <3>6, PlainUnion
    <3>8. /\ T.space[s] = UnionSpace(T.space[s.left], T.space[s.right])
          /\ T.stands[s] = T.stands[s.left] \union T.stands[s.right]
      BY <2>3, UnionTables
    <3>9. QED BY <3>5, <3>7, <3>8
  <2>4. s.kind \notin {"universal", "filtered", "lbound", "ubound", "inter"}
    BY <1>1, UniversalTables, FilteredTables, LBoundTables, UBoundTables, InterTables
  <2>5. s.kind \in {"vec", "shifted", "union"}
    BY <2>4, StructureKinds DEF SuperKinds, JointKinds
  <2>6. QED BY <2>1, <2>2, <2>3, <2>5
<1>2. Good = T.trees
  <2>1. T.size \in [T.trees -> Nat]
    BY DEF StructureTables, TreeTables
  <2>2. Good \in SUBSET T.trees
    OBVIOUS
  <2>3. \A s \in T.trees : (\A c \in T.trees : T.size[c] < T.size[s] => c \in Good) => s \in Good
    BY <1>1
  <2> HIDE DEF Good
  <2>4. QED BY <2>1, <2>2, <2>3, SizeInduction
<1>3. QED BY <1>2

-----------------------------------------------------------------------------
(* The laws hold of every structure whose unions merge: it stands for what *)
(* it should, walked from any value its vectors all locate.                *)
LEMMA UnionSoundness ==
  ASSUME NEW T, NEW in, IsInput(in), StructureTables(T, in), NEW s \in T.trees,
         s.kind = "union", T.merges[s]
  PROVE  Sound(T.space[s], T.stands[s], WalksOver(T.leaves[s], in))
<1> DEFINE leaves == T.leaves[s]
           walks == WalksOver(leaves, in)
<1>1. T.stands[s] \in SUBSET Int /\ Bounded(T.space[s], T.stands[s])
  BY StructureBounded
<1>2. \A l \in leaves : IsLeaf(l, in)
  BY LeavesAre
<1>3. CASE leaves # {} /\ T.plain[s] /\ \A l, m \in leaves : LastKey(l, in) = LastKey(m, in)
  <2>1. PICK l \in leaves : TRUE
    BY <1>3
  <2>2. LastKey(l, in) \in Int
    BY <1>2, <2>1, LastKeys
  <2>3. \A m \in leaves : LastKey(m, in) = LastKey(l, in)
    BY <1>3, <2>1
  <2>4. PlainSide(T.space[s], T.stands[s], walks, LastKey(l, in))
    BY <1>3, <2>2, <2>3, PlainStructure
  <2>5. QED BY <2>4, PlainSound
<1>4. CASE leaves # {} /\ T.aligned[s] /\ \A l, m \in leaves : l = m
  <2>1. PICK l \in leaves : leaves = {l}
    BY <1>4
  <2> DEFINE w == WalkOf(l, in)
  <2>2. InStep(T.space[s], T.stands[s], WalkBase(w), {l.vec})
    BY <1>4, <2>1, AlignedInStep DEF BaseOf
  <2>3. IsVector(w.vec) /\ Sorted(w.vec) /\ w.shift \in Int /\ w.name = l.vec
    BY <1>2, <2>1 DEF IsLeaf, IsInput, WalkOf
  <2>4. walks = {w}
    BY <2>1 DEF WalksOver
  <2> HIDE DEF w, walks
  <2>5. Sound(T.space[s], T.stands[s], {w})
    BY <1>1, <2>2, <2>3, WalkSound
  <2>6. QED BY <2>4, <2>5 DEF walks
<1>5. CASE leaves = {} /\ T.aligned[s]
  <2>1. InStep(T.space[s], T.stands[s], FreeBase, {})
    BY <1>5, AlignedInStep DEF BaseOf
  <2>2. walks = {}
    BY <1>5 DEF WalksOver
  <2>3. QED BY <1>1, <2>1, <2>2, FreeSound
<1>6. CASE leaves = {} /\ T.plain[s]
  <2>1. \A l \in T.leaves[s] : LastKey(l, in) = 0
    BY <1>6
  <2>2. 0 \in Int /\ T.plain[s]
    BY <1>6
  <2>3. PlainSide(T.space[s], T.stands[s], walks, 0)
    BY <2>1, <2>2, PlainStructure
  <2>4. QED BY <2>3, PlainSound
<1>7. QED BY <1>3, <1>4, <1>5, <1>6, UnionTables

(* The space of every structure whose unions can be merged is sound: a     *)
(* loop over it meets the values the structure stands for, each once and   *)
(* in order, and stands on the rows of these values.                       *)
THEOREM StructureSound ==
  ASSUME NEW T, NEW in, IsInput(in), StructureTables(T, in)
  PROVE  \A s \in T.trees : T.merges[s] =>
           Sound(T.space[s], T.stands[s], WalksOver(T.leaves[s], in))
<1> DEFINE P(s) == Sound(T.space[s], T.stands[s], WalksOver(T.leaves[s], in))
           Good == {s \in T.trees : T.merges[s] => P(s)}
<1>1. ASSUME NEW s \in T.trees, \A c \in T.trees : T.size[c] < T.size[s] => c \in Good, T.merges[s]
      PROVE  P(s)
  <2>1. CASE s.kind = "universal"
    <3>1. WalksOver({}, in) = {}
      BY DEF WalksOver
    <3>2. QED BY <2>1, <3>1, UniversalTables, UniversalSound
  <2>2. CASE s.kind = "vec"
    <3>1. WalksOver(T.leaves[s], in) = VecWalks(s.vec, in.vec[s.vec])
      BY <2>2, VecWalksAre
    <3>2. IsVector(in.vec[s.vec]) /\ Sorted(in.vec[s.vec])
      BY <2>2, VecTables DEF IsInput
    <3>3. QED BY <2>2, <3>1, <3>2, VecTables, VecSound
  <2>3. ASSUME s.kind \in SuperKinds
        PROVE  P(s.ispace)
    BY <1>1, <2>3, SuperTables
  <2>4. CASE s.kind = "shifted"
    <3>1. P(s.ispace) /\ s.offset \in Int /\ AreWalks(WalksOver(T.leaves[s.ispace], in))
      BY <2>3, <2>4, ShiftedTables, SuperTables, WalksAre DEF SuperKinds
    <3>2. QED BY <2>4, <3>1, ShiftedTables, ShiftedWalksAre, ShiftedSound
  <2>5. CASE s.kind = "filtered"
    <3> DEFINE c == T.space[s.ispace]
               f == FilteredSpace(c, [i \in c.idx |-> c.idx_to_iter[i] \in s.keep])
    <3>1. P(s.ispace)
      BY <2>3, <2>5 DEF SuperKinds
    <3>2. Sound(f, T.stands[s.ispace] \intersect s.keep, WalksOver(T.leaves[s.ispace], in))
      BY <3>1, FilteredSound
    <3>3. /\ T.space[s] = f /\ T.stands[s] = T.stands[s.ispace] \intersect s.keep
          /\ T.leaves[s] = T.leaves[s.ispace]
      BY <2>5, FilteredTables
    <3> HIDE DEF f
    <3>4. QED BY <3>2, <3>3
  <2>6. CASE s.kind = "lbound"
    BY <2>3, <2>6, LBoundTables, LBoundSound DEF SuperKinds
  <2>7. CASE s.kind = "ubound"
    BY <2>3, <2>7, UBoundTables, UBoundSound DEF SuperKinds
  <2>8. CASE s.kind = "union"
    BY <1>1, <2>8, UnionSoundness
  <2>9. CASE s.kind = "inter"
    <3>1. P(s.left) /\ P(s.right) /\ T.leaves[s] = T.leaves[s.left] \union T.leaves[s.right]
      BY <1>1, <2>9, JointTables DEF JointKinds
    <3>2. WalksOver(T.leaves[s], in) = WalksOver(T.leaves[s.left], in) \union WalksOver(T.leaves[s.right], in)
      BY <3>1 DEF WalksOver
    <3>3. Sound(InterSpace(T.space[s.left], T.space[s.right]), T.stands[s.left] \intersect T.stands[s.right],
                WalksOver(T.leaves[s.left], in) \union WalksOver(T.leaves[s.right], in))
      BY <3>1, InterSound
    <3>4. QED BY <2>9, <3>2, <3>3, InterTables
  <2>10. QED BY <2>1, <2>2, <2>4, <2>5, <2>6, <2>7, <2>8, <2>9, StructureKinds DEF SuperKinds, JointKinds
<1>2. Good = T.trees
  <2>1. T.size \in [T.trees -> Nat]
    BY DEF StructureTables, TreeTables
  <2>2. Good \in SUBSET T.trees
    OBVIOUS
  <2>3. \A s \in T.trees : (\A c \in T.trees : T.size[c] < T.size[s] => c \in Good) => s \in Good
    BY <1>1
  <2> HIDE DEF Good
  <2>4. QED BY <2>1, <2>2, <2>3, SizeInduction
<1>3. QED BY <1>2

-----------------------------------------------------------------------------
(* IterSpace::intersect.                                                   *)
LEMMA PairTables ==
  ASSUME NEW T, IntersectTables(T), NEW s, NEW other, <<s, other>> \in T.pairs
  PROVE  /\ s \in T.trees /\ other \in T.trees
         /\ T.intersect[<<s, other>>] \subseteq T.trees
         /\ \A c \in Parts(s) : <<c, other>> \in T.pairs
         /\ T.intersect[<<s, other>>] =
              IntersectOver(s, other, [c \in Parts(s) |-> T.intersect[<<c, other>>]])
<1> DEFINE p == <<s, other>>
<1>1. p[1] = s /\ p[2] = other
  OBVIOUS
<1>2. /\ p[1] \in T.trees /\ p[2] \in T.trees
      /\ T.intersect[p] \subseteq T.trees
      /\ \A c \in Parts(p[1]) : <<c, p[2]>> \in T.pairs
      /\ T.intersect[p] = IntersectOver(p[1], p[2], [c \in Parts(p[1]) |-> T.intersect[<<c, p[2]>>]])
  BY DEF IntersectTables
<1>3. QED BY <1>1, <1>2

(* IterSpace::intersect, kind by kind.                                     *)
LEMMA IntersectKinds ==
  ASSUME NEW s, NEW other, NEW met
  PROVE  /\ s.kind = "universal" => IntersectOver(s, other, met) = {other}
         /\ s.kind = "vec" => IntersectOver(s, other, met) = {}
         /\ s.kind \in SuperKinds => \A m \in IntersectOver(s, other, met) :
              \E a \in met[s.ispace] : m = Around(s, a)
         /\ s.kind \in JointKinds => \A m \in IntersectOver(s, other, met) :
              \E l \in met[s.left], r \in met[s.right] : m = Joining(s, l, r)
<1>1. s.kind = "universal" => IntersectOver(s, other, met) = {other}
  BY DEF IntersectOver, SuperKinds, JointKinds
<1>2. s.kind = "vec" => IntersectOver(s, other, met) = {}
  BY DEF IntersectOver, SuperKinds, JointKinds
<1>3. ASSUME s.kind \in SuperKinds, NEW m \in IntersectOver(s, other, met) 
      PROVE \E a \in met[s.ispace] : m = Around(s, a)
  <2>1. s.kind \notin {"universal", "vec"} \union JointKinds
    BY <1>3 DEF SuperKinds, JointKinds
  <2>2. QED BY <1>3, <2>1 DEF IntersectOver
<1>4. ASSUME s.kind \in JointKinds, NEW m \in IntersectOver(s, other, met) 
      PROVE \E l \in met[s.left], r \in met[s.right] : m = Joining(s, l, r)
  <2>1. s.kind \notin {"universal", "vec"} \union SuperKinds
    BY <1>4 DEF SuperKinds, JointKinds
  <2>2. QED BY <1>4, <2>1 DEF IntersectOver
<1>5. QED BY <1>1, <1>2, <1>3, <1>4

(* A super space wraps what its child made of the other space.             *)
LEMMA SuperMet ==
  ASSUME NEW T, NEW in, StructureTables(T, in), IntersectTables(T),
         NEW s, NEW other, <<s, other>> \in T.pairs, s.kind \in SuperKinds,
         NEW m \in T.intersect[<<s, other>>]
  PROVE  \E a \in T.intersect[<<s.ispace, other>>] :
           /\ m.kind = s.kind
           /\ m.ispace = a
           /\ s.kind = "shifted" => m.offset = s.offset
           /\ s.kind = "filtered" => m.keep = s.keep
           /\ s.kind \in {"lbound", "ubound"} => m.bound = s.bound
<1>1. s \in T.trees /\ Parts(s) = {s.ispace}
  BY PairTables, SuperTables
<1>2. PICK a \in T.intersect[<<s.ispace, other>>] : m = Around(s, a)
  <2> DEFINE met == [c \in {s.ispace} |-> T.intersect[<<c, other>>]]
  <2>1. T.intersect[<<s, other>>] = IntersectOver(s, other, met)
    BY <1>1, PairTables
  <2>2. met[s.ispace] = T.intersect[<<s.ispace, other>>]
    OBVIOUS
  <2> HIDE DEF met
  <2>3. QED BY <2>1, <2>2, IntersectKinds
<1>3. \/ s = Shifted(s.ispace, s.offset)
      \/ s = Filtered(s.ispace, s.keep)
      \/ s = LBound(s.ispace, s.bound)
      \/ s = UBound(s.ispace, s.bound)
  BY <1>1 DEF StructureTables, TreeTables, IsStructure, SuperKinds, Universal, Vec, Union, Inter
<1>4. CASE s = Shifted(s.ispace, s.offset)
  BY <1>2, <1>4 DEF Shifted, Around
<1>5. CASE s = Filtered(s.ispace, s.keep)
  BY <1>2, <1>5 DEF Filtered, Around
<1>6. CASE s = LBound(s.ispace, s.bound)
  BY <1>2, <1>6 DEF LBound, Around
<1>7. CASE s = UBound(s.ispace, s.bound)
  BY <1>2, <1>7 DEF UBound, Around
<1>8. QED BY <1>3, <1>4, <1>5, <1>6, <1>7

LEMMA JointMet ==
  ASSUME NEW T, NEW in, StructureTables(T, in), IntersectTables(T),
         NEW s, NEW other, <<s, other>> \in T.pairs, s.kind \in JointKinds,
         NEW m \in T.intersect[<<s, other>>]
  PROVE  \E l \in T.intersect[<<s.left, other>>], r \in T.intersect[<<s.right, other>>] :
           m.kind = s.kind /\ m.left = l /\ m.right = r
<1>1. s \in T.trees /\ Parts(s) = {s.left, s.right}
  BY PairTables, JointTables
<1>2. PICK l \in T.intersect[<<s.left, other>>], r \in T.intersect[<<s.right, other>>] :
        m = Joining(s, l, r)
  <2> DEFINE met == [c \in {s.left, s.right} |-> T.intersect[<<c, other>>]]
  <2>1. T.intersect[<<s, other>>] = IntersectOver(s, other, met)
    BY <1>1, PairTables
  <2>2. /\ met[s.left] = T.intersect[<<s.left, other>>]
        /\ met[s.right] = T.intersect[<<s.right, other>>]
    OBVIOUS
  <2> HIDE DEF met
  <2>3. QED BY <2>1, <2>2, IntersectKinds
<1>3. s = Union(s.left, s.right) \/ s = Inter(s.left, s.right)
  BY <1>1 DEF StructureTables, TreeTables, IsStructure, JointKinds, Universal, Vec, Shifted, Filtered, LBound, UBound
<1>4. CASE s = Union(s.left, s.right)
  BY <1>2, <1>4 DEF Union, Joining
<1>5. CASE s = Inter(s.left, s.right)
  BY <1>2, <1>5 DEF Inter, Joining
<1>6. QED BY <1>3, <1>4, <1>5

(* What intersect makes of two steady structures is steady and stands for  *)
(* their common values; of a structure that is not open it makes nothing.  *)
LEMMA IntersectStands ==
  ASSUME NEW T, NEW in, IsInput(in), StructureTables(T, in), IntersectTables(T)
  PROVE  \A s \in T.trees : \A other : <<s, other>> \in T.pairs =>
           /\ T.intersect[<<s, other>>] # {} => T.open[s]
           /\ T.steady[s] /\ T.steady[other] /\ T.stands[other] \subseteq Int =>
                \A m \in T.intersect[<<s, other>>] :
                  T.steady[m] /\ T.stands[m] = T.stands[s] \intersect T.stands[other]
<1> DEFINE Met(s, other) ==
             /\ T.intersect[<<s, other>>] # {} => T.open[s]
             /\ T.steady[s] /\ T.steady[other] /\ T.stands[other] \subseteq Int =>
                  \A m \in T.intersect[<<s, other>>] :
                    T.steady[m] /\ T.stands[m] = T.stands[s] \intersect T.stands[other]
           Good == {s \in T.trees : \A other : <<s, other>> \in T.pairs => Met(s, other)}
<1>1. ASSUME NEW s \in T.trees, \A c \in T.trees : T.size[c] < T.size[s] => c \in Good,
             NEW other, <<s, other>> \in T.pairs
      PROVE  Met(s, other)
  <2> DEFINE all == T.intersect[<<s, other>>]
             O == T.stands[other]
  <2>1. /\ all \subseteq T.trees
        /\ \A c \in Parts(s) : <<c, other>> \in T.pairs
        /\ all = IntersectOver(s, other, [c \in Parts(s) |-> T.intersect[<<c, other>>]])
    BY <1>1, PairTables
  <2>2. CASE s.kind = "universal"
    <3>1. all = {other} /\ T.stands[s] = Int /\ Parts(s) = {}
      BY <2>1, <2>2, IntersectKinds, UniversalTables DEF Parts, SuperKinds, JointKinds
    <3>2. T.open[s]
      BY <2>2, <3>1 DEF IntersectTables, OpenOver
    <3>3. O \subseteq Int => Int \intersect O = O
      OBVIOUS
    <3>4. QED BY <3>1, <3>2, <3>3
  <2>3. CASE s.kind = "vec"
    <3>1. all = {}
      BY <2>1, <2>3, IntersectKinds
    <3>2. QED BY <3>1
  <2>4. CASE s.kind \in SuperKinds
    <3> DEFINE c == s.ispace
    <3>1. Parts(s) = {c} /\ c \in Good /\ <<c, other>> \in T.pairs
      BY <1>1, <2>1, <2>4, SuperTables
    <3>2. Met(c, other)
      BY <3>1
    <3>3. /\ T.open[s] <=> T.open[c]
          /\ T.steady[s] => T.steady[c] /\ (s.kind = "shifted" => ~T.open[c])
      BY <2>4, <3>1 DEF IntersectTables, OpenOver, SteadyOver, SuperKinds
    <3>4. all # {} => T.open[s]
      BY <1>1, <2>4, <3>2, <3>3, SuperMet
    <3>5. ASSUME T.steady[s], T.steady[other], O \subseteq Int, NEW m \in all
          PROVE  T.steady[m] /\ T.stands[m] = T.stands[s] \intersect O
      <4>1. PICK a \in T.intersect[<<c, other>>] :
              /\ m.kind = s.kind
              /\ m.ispace = a
              /\ s.kind = "filtered" => m.keep = s.keep
              /\ s.kind \in {"lbound", "ubound"} => m.bound = s.bound
        BY <1>1, <2>4, SuperMet
      <4>2. T.steady[a] /\ T.stands[a] = T.stands[c] \intersect O
        BY <3>2, <3>3, <3>5, <4>1
      <4>3. m \in T.trees
        BY <2>1
      <4>4. Parts(m) = {a} /\ s.kind # "shifted"
        BY <2>4, <3>2, <3>3, <3>5, <4>1, <4>3, SuperTables
      <4>5. T.steady[m]
        BY <4>1, <4>2, <4>3, <4>4 DEF IntersectTables, SteadyOver
      <4>6. CASE s.kind = "filtered"
        <5>1. /\ T.stands[m] = T.stands[m.ispace] \intersect m.keep
              /\ T.stands[s] = T.stands[c] \intersect s.keep
          BY <4>1, <4>3, <4>6 DEF StructureTables, ValueTables, StandsOver
        <5>2. QED BY <4>1, <4>2, <4>5, <4>6, <5>1
      <4>7. CASE s.kind = "lbound"
        <5>1. /\ T.stands[m] = AtLeast(T.stands[a], BoundOf(s.bound, in))
              /\ T.stands[s] = AtLeast(T.stands[c], BoundOf(s.bound, in))
          BY <4>1, <4>3, <4>7, LBoundTables
        <5>2. AtLeast(T.stands[c] \intersect O, BoundOf(s.bound, in)) =
                AtLeast(T.stands[c], BoundOf(s.bound, in)) \intersect O
          BY DEF AtLeast
        <5>3. QED BY <4>2, <4>5, <5>1, <5>2
      <4>8. CASE s.kind = "ubound"
        <5>1. /\ T.stands[m] = AtMost(T.stands[a], BoundOf(s.bound, in))
              /\ T.stands[s] = AtMost(T.stands[c], BoundOf(s.bound, in))
          BY <4>1, <4>3, <4>8, UBoundTables
        <5>2. AtMost(T.stands[c] \intersect O, BoundOf(s.bound, in)) =
                AtMost(T.stands[c], BoundOf(s.bound, in)) \intersect O
          BY DEF AtMost
        <5>3. QED BY <4>2, <4>5, <5>1, <5>2
      <4>9. QED BY <2>4, <4>4, <4>6, <4>7, <4>8 DEF SuperKinds
    <3>6. QED BY <3>4, <3>5
  <2>5. CASE s.kind \in JointKinds
    <3>1. /\ Parts(s) = {s.left, s.right}
          /\ s.left \in Good /\ <<s.left, other>> \in T.pairs
          /\ s.right \in Good /\ <<s.right, other>> \in T.pairs
      BY <1>1, <2>1, <2>5, JointTables
    <3>2. Met(s.left, other) /\ Met(s.right, other)
      BY <3>1
    <3>3. /\ T.open[s] <=> T.open[s.left] /\ T.open[s.right]
          /\ T.steady[s] => T.steady[s.left] /\ T.steady[s.right]
      BY <2>5, <3>1 DEF IntersectTables, OpenOver, SteadyOver, JointKinds
    <3>4. all # {} => T.open[s]
      BY <1>1, <2>5, <3>2, <3>3, JointMet
    <3>5. ASSUME T.steady[s], T.steady[other], O \subseteq Int, NEW m \in all
          PROVE  T.steady[m] /\ T.stands[m] = T.stands[s] \intersect O
      <4>1. PICK l \in T.intersect[<<s.left, other>>], r \in T.intersect[<<s.right, other>>] :
              m.kind = s.kind /\ m.left = l /\ m.right = r
        BY <1>1, <2>5, JointMet
      <4>2. /\ T.steady[l] /\ T.stands[l] = T.stands[s.left] \intersect O
            /\ T.steady[r] /\ T.stands[r] = T.stands[s.right] \intersect O
        BY <3>2, <3>3, <3>5, <4>1
      <4>3. m \in T.trees
        BY <2>1
      <4>4. Parts(m) = {l, r} /\ m.kind # "shifted"
        BY <2>5, <4>1, <4>3, JointTables DEF JointKinds
      <4>5. T.steady[m]
        BY <4>2, <4>3, <4>4 DEF IntersectTables, SteadyOver
      <4>6. CASE s.kind = "union"
        <5>1. /\ T.stands[m] = T.stands[l] \union T.stands[r]
              /\ T.stands[s] = T.stands[s.left] \union T.stands[s.right]
          BY <4>1, <4>3, <4>6, UnionTables
        <5>2. QED BY <4>2, <4>5, <5>1
      <4>7. CASE s.kind = "inter"
        <5>1. /\ T.stands[m] = T.stands[l] \intersect T.stands[r]
              /\ T.stands[s] = T.stands[s.left] \intersect T.stands[s.right]
          BY <4>1, <4>3, <4>7, InterTables
        <5>2. QED BY <4>2, <4>5, <5>1
      <4>8. QED BY <2>5, <4>6, <4>7 DEF JointKinds
    <3>6. QED BY <3>4, <3>5
  <2>6. QED BY <2>2, <2>3, <2>4, <2>5, StructureKinds
<1>2. Good = T.trees
  <2>1. T.size \in [T.trees -> Nat]
    BY DEF StructureTables, TreeTables
  <2>2. Good \in SUBSET T.trees
    OBVIOUS
  <2>3. \A s \in T.trees : (\A c \in T.trees : T.size[c] < T.size[s] => c \in Good) => s \in Good
    BY <1>1
  <2> HIDE DEF Good
  <2>4. QED BY <2>1, <2>2, <2>3, SizeInduction
<1>3. QED BY <1>2

-----------------------------------------------------------------------------
(* l & r of two steady structures: steady, and their common values.        *)
LEMMA MeetStands ==
  ASSUME NEW T, NEW in, IsInput(in), StructureTables(T, in), IntersectTables(T),
         NEW l, NEW r, <<l, r>> \in T.pairs, <<r, l>> \in T.pairs,
         T.steady[l], T.stands[l] \subseteq Int, T.steady[r], T.stands[r] \subseteq Int,
         NEW m \in T.trees, m = MeetIn(T, l, r)
  PROVE  T.steady[m] /\ T.stands[m] = T.stands[l] \intersect T.stands[r]
<1> DEFINE lr == T.intersect[<<l, r>>]
           rl == T.intersect[<<r, l>>]
<1>1. m \in (IF lr # {} THEN lr ELSE IF rl # {} THEN rl ELSE {Inter(l, r)})
  BY DEF MeetIn, MeetOver
<1>2. l \in T.trees /\ r \in T.trees
  BY PairTables
<1>3. CASE m \in lr
  BY <1>2, <1>3, IntersectStands
<1>4. CASE m \in rl
  <2>1. T.steady[m] /\ T.stands[m] = T.stands[r] \intersect T.stands[l]
    BY <1>2, <1>4, IntersectStands
  <2>2. QED BY <2>1
<1>5. CASE m = Inter(l, r)
  <2>1. m.kind = "inter" /\ m.left = l /\ m.right = r
    BY <1>5 DEF Inter
  <2>2. Parts(m) = {l, r} /\ T.stands[m] = T.stands[l] \intersect T.stands[r]
    BY <2>1, JointTables, InterTables DEF JointKinds
  <2>3. T.steady[m]
    BY <2>1, <2>2 DEF IntersectTables, SteadyOver
  <2>4. QED BY <2>2, <2>3
<1>6. QED BY <1>1, <1>3, <1>4, <1>5

(* The space of a membership: the vector's, moved.                         *)
LEMMA MembershipStands ==
  ASSUME NEW T, NEW in, IsInput(in), StructureTables(T, in), IntersectTables(T),
         NEW vec, NEW offset \in Int,
         <<Iterator(offset), Vec(vec)>> \in T.pairs,
         NEW m \in T.trees, m = MeetIn(T, Iterator(offset), Vec(vec))
  PROVE  /\ T.steady[m]
         /\ T.stands[m] = {t \in Int : t + (-offset) \in Keys(in.vec[vec])}
<1> DEFINE i == Iterator(offset)
           v == Vec(vec)
           K == Keys(in.vec[vec])
<1>1. /\ i \in T.trees /\ v \in T.trees
      /\ T.intersect[<<i, v>>] = IntersectOver(i, v, [c \in Parts(i) |-> T.intersect[<<c, v>>]])
      /\ \A c \in Parts(i) : <<c, v>> \in T.pairs
  BY PairTables
<1>2. v.kind = "vec" /\ v.vec = vec
  BY DEF Vec
<1>3. /\ T.stands[v] = K /\ Parts(v) = {} /\ ~T.open[v] /\ T.steady[v]
      /\ \A k \in K : k \in Int
  <2>1. T.stands[v] = K /\ vec \in DOMAIN in.vec
    BY <1>1, <1>2, VecTables
  <2>2. Parts(v) = {}
    BY <1>2 DEF Parts, SuperKinds, JointKinds
  <2>3. ~T.open[v] /\ T.steady[v]
    BY <1>1, <1>2, <2>2 DEF IntersectTables, OpenOver, SteadyOver
  <2>4. \A k \in K : k \in Int
    BY <2>1 DEF IsInput, Keys, IsVector, Cell, Rows
  <2>5. QED BY <2>1, <2>2, <2>3, <2>4
<1>4. ASSUME <<Universal, v>> \in T.pairs
      PROVE  T.intersect[<<Universal, v>>] = {v}
  <2>1. T.intersect[<<Universal, v>>] =
          IntersectOver(Universal, v, [c \in Parts(Universal) |-> T.intersect[<<c, v>>]])
    BY <1>4, PairTables
  <2>2. Universal.kind = "universal"
    BY DEF Universal
  <2>3. QED BY <2>1, <2>2, IntersectKinds
<1>5. CASE offset = 0
  <2>1. i = Universal
    BY <1>5 DEF Iterator
  <2>2. T.intersect[<<i, v>>] = {v}
    BY <1>1, <1>4, <2>1
  <2>3. m = v
    BY <2>2 DEF MeetIn, MeetOver
  <2>4. {t \in Int : t + (-offset) \in K} = K
    <3>1. \A t \in Int : t + (-offset) = t
      BY <1>5
    <3>2. QED BY <1>3, <3>1
  <2>5. QED BY <1>3, <2>3, <2>4
<1>6. CASE offset # 0
  <2>1. i = Shifted(Universal, offset)
    BY <1>6 DEF Iterator
  <2>2. i.kind = "shifted" /\ i.ispace = Universal /\ i.offset = offset
    BY <2>1 DEF Shifted
  <2>3. Parts(i) = {Universal} /\ Universal \in T.trees
    BY <1>1, <2>2, SuperTables DEF SuperKinds
  <2>4. T.intersect[<<Universal, v>>] = {v}
    BY <1>1, <1>4, <2>3
  <2>5. m \in T.intersect[<<i, v>>]
    <3>1. IntersectOver(i, v, [c \in {Universal} |-> T.intersect[<<c, v>>]]) =
            {Around(i, a) : a \in {v}}
      <4> DEFINE met == [c \in {Universal} |-> T.intersect[<<c, v>>]]
      <4>1. met[i.ispace] = {v}
        BY <2>2, <2>4
      <4> HIDE DEF met
      <4>2. IntersectOver(i, v, met) = {Around(i, a) : a \in met[i.ispace]}
        BY <2>2 DEF IntersectOver, SuperKinds, JointKinds
      <4>3. QED BY <4>1, <4>2 DEF met
    <3>2. T.intersect[<<i, v>>] # {}
      BY <1>1, <2>3, <3>1
    <3>3. QED BY <3>2 DEF MeetIn, MeetOver
  <2>6. m.kind = "shifted" /\ m.ispace = v /\ m.offset = offset
    BY <1>1, <2>2, <2>4, <2>5, SuperMet DEF SuperKinds
  <2>7. Parts(m) = {v} /\ T.stands[m] = Moved(K, offset)
    BY <1>3, <2>6, SuperTables, ShiftedTables DEF SuperKinds
  <2>8. T.steady[m]
    BY <1>3, <2>6, <2>7 DEF IntersectTables, SteadyOver
  <2>9. Moved(K, offset) = {t \in Int : t + (-offset) \in K}
    <3>1. \A t \in Int : t + (-offset) = t - offset
      OBVIOUS
    <3>2. QED BY <3>1 DEF Moved
  <2>10. QED BY <2>7, <2>8, <2>9
<1>7. QED BY <1>5, <1>6

(* The space of a comparison: bounded where the solver found a bound.      *)
LEMMA ComparisonStands ==
  ASSUME NEW T, NEW in, IsInput(in), StructureTables(T, in), IntersectTables(T),
         ZWindow = Int,
         NEW p, NEW s \in T.trees, s = ExtractBound(p)
  PROVE  /\ T.steady[s]
         /\ s # Universal => T.stands[s] = {t \in Int : CmpHolds(p, t, in.x)}
         /\ s = Universal => T.stands[s] = Int
<1> DEFINE C == {t \in Int : CmpHolds(p, t, in.x)}
<1>1. in.x \in Int
  BY DEF IsInput
<1>2. \A u \in T.trees : u = Universal => T.steady[u] /\ T.stands[u] = Int
  <2>1. Universal.kind = "universal" /\ Parts(Universal) = {}
    BY DEF Universal, Parts, SuperKinds, JointKinds
  <2>2. QED BY <2>1, UniversalTables DEF IntersectTables, SteadyOver
<1>3. CASE LowerBounds(p) # {}
  <2>1. PICK b \in LowerBounds(p) : s = LBound(Universal, b)
    BY <1>3 DEF ExtractBound
  <2>2. s.kind = "lbound" /\ s.ispace = Universal /\ s.bound = b /\ s # Universal
    BY <2>1 DEF LBound, Universal
  <2>3. Parts(s) = {Universal} /\ Universal \in T.trees
    BY <2>2, SuperTables DEF SuperKinds
  <2>4. T.stands[s] = AtLeast(Int, BoundOf(b, in))
    BY <1>2, <2>2, <2>3, LBoundTables
  <2>5. \A t \in Int : t >= BoundOf(b, in) <=> CmpHolds(p, t, in.x)
    BY <1>1 DEF LowerBounds, BoundOf
  <2>6. AtLeast(Int, BoundOf(b, in)) = C
    BY <2>5 DEF AtLeast
  <2>7. T.steady[s]
    BY <1>2, <2>2, <2>3 DEF IntersectTables, SteadyOver
  <2>8. QED BY <2>2, <2>4, <2>6, <2>7
<1>4. CASE LowerBounds(p) = {} /\ UpperBounds(p) # {}
  <2>1. PICK b \in UpperBounds(p) : s = UBound(Universal, b)
    BY <1>4 DEF ExtractBound
  <2>2. s.kind = "ubound" /\ s.ispace = Universal /\ s.bound = b /\ s # Universal
    BY <2>1 DEF UBound, Universal
  <2>3. Parts(s) = {Universal} /\ Universal \in T.trees
    BY <2>2, SuperTables DEF SuperKinds
  <2>4. T.stands[s] = AtMost(Int, BoundOf(b, in))
    BY <1>2, <2>2, <2>3, UBoundTables
  <2>5. \A t \in Int : t <= BoundOf(b, in) <=> CmpHolds(p, t, in.x)
    BY <1>1 DEF UpperBounds, BoundOf
  <2>6. AtMost(Int, BoundOf(b, in)) = C
    BY <2>5 DEF AtMost
  <2>7. T.steady[s]
    BY <1>2, <2>2, <2>3 DEF IntersectTables, SteadyOver
  <2>8. QED BY <2>2, <2>4, <2>6, <2>7
<1>5. CASE LowerBounds(p) = {} /\ UpperBounds(p) = {}
  <2>1. s = Universal
    BY <1>5 DEF ExtractBound
  <2>2. QED BY <1>2, <2>1
<1>6. QED BY <1>3, <1>4, <1>5

(* The Reffine pass: what it makes of a predicate stands for the values of *)
(* the predicate as the source reads it.                                   *)
LEMMA PredicateKinds ==
  ASSUME NEW p, NEW in, IsPredicate(p, in)
  PROVE  /\ p.op = "AND" => p = And(p.l, p.r)
         /\ p.op = "OR" => p = Or(p.l, p.r)
         /\ p.op = "IN" => p = In(p.vec, p.offset) /\ p.vec \in DOMAIN in.vec /\ p.offset \in Int
         /\ p.op = "SYM" => p = Flag(p.keep)
         /\ p.op \in {"AND", "OR", "IN", "SYM", "LT", "LTE", "GT", "GTE"}
         /\ Operands(p) = IF p.op \in {"AND", "OR"} THEN {p.l, p.r} ELSE {}
BY DEF IsPredicate, And, Or, In, Flag, Cmp, Operands

LEMMA MirrorKinds ==
  ASSUME NEW p, NEW in, IsPredicate(p, in), NEW mirror, NEW u, u = MirrorOver(p, mirror)
  PROVE  /\ p.op \in {"AND", "OR"} => u.op = p.op /\ u.l = mirror[p.l] /\ u.r = mirror[p.r]
         /\ p.op = "IN" => u.op = "IN" /\ u.vec = p.vec /\ u.offset = -p.offset
         /\ p.op = "SYM" => u = p
         /\ p.op \in {"LT", "LTE", "GT", "GTE"} =>
              u = IF ExtractBound(p) = Universal THEN True ELSE p
<1>1. ASSUME p.op = "AND"
      PROVE  u.op = p.op /\ u.l = mirror[p.l] /\ u.r = mirror[p.r]
  <2>1. u = [p EXCEPT !.l = mirror[p.l], !.r = mirror[p.r]]
    BY <1>1 DEF MirrorOver
  <2>2. p = And(p.l, p.r)
    BY <1>1, PredicateKinds
  <2>3. QED BY <2>1, <2>2 DEF And
<1>2. ASSUME p.op = "OR"
      PROVE  u.op = p.op /\ u.l = mirror[p.l] /\ u.r = mirror[p.r]
  <2>1. u = [p EXCEPT !.l = mirror[p.l], !.r = mirror[p.r]]
    BY <1>2 DEF MirrorOver
  <2>2. p = Or(p.l, p.r)
    BY <1>2, PredicateKinds
  <2>3. QED BY <2>1, <2>2 DEF Or
<1>3. ASSUME p.op = "IN"
      PROVE  u.op = "IN" /\ u.vec = p.vec /\ u.offset = -p.offset
  <2>1. u = [p EXCEPT !.offset = -p.offset]
    BY <1>3 DEF MirrorOver
  <2>2. p = In(p.vec, p.offset)
    BY <1>3, PredicateKinds
  <2>3. QED BY <2>1, <2>2 DEF In
<1>4. p.op = "SYM" => u = p
  BY DEF MirrorOver
<1>5. p.op \in {"LT", "LTE", "GT", "GTE"} =>
        u = IF ExtractBound(p) = Universal THEN True ELSE p
  BY DEF MirrorOver
<1>6. QED BY <1>1, <1>2, <1>3, <1>4, <1>5

(* The answer of a predicate, kind by kind.                                *)
LEMMA AnswerKinds ==
  ASSUME NEW T, NEW in, PassTablesFor(T, in), NEW p \in T.preds
  PROVE  /\ p.op = "AND" => T.answer[p] = T.answer[p.l] \intersect T.answer[p.r]
         /\ p.op = "OR" => T.answer[p] = T.answer[p.l] \union T.answer[p.r]
         /\ p.op = "IN" => T.answer[p] = {t \in Int : t + p.offset \in Keys(in.vec[p.vec])}
         /\ p.op = "SYM" => T.answer[p] = Int \intersect p.keep
         /\ p.op \in {"LT", "LTE", "GT", "GTE"} => T.answer[p] = {t \in Int : CmpHolds(p, t, in.x)}
         /\ T.answer[p] \subseteq Int
<1> DEFINE holds(t) == [o \in Operands(p) |-> t \in T.answer[o]]
<1>1. T.answer[p] = {t \in Int : HoldsOver(p, in, t, holds(t))}
  BY DEF PassTablesFor, AnswerTables
<1>2. IsPredicate(p, in) /\ \A o \in Operands(p) : o \in T.preds
  BY DEF PassTablesFor, MadeTables
<1>3. ASSUME p.op = "AND" \/ p.op = "OR"
      PROVE  /\ p.l \in T.preds /\ p.r \in T.preds
             /\ \A t : holds(t)[p.l] <=> t \in T.answer[p.l]
             /\ \A t : holds(t)[p.r] <=> t \in T.answer[p.r]
  <2>1. Operands(p) = {p.l, p.r}
    BY <1>3 DEF Operands
  <2>2. QED BY <1>2, <2>1
<1>4. \A o \in T.preds : T.answer[o] \subseteq Int
  BY DEF PassTablesFor, AnswerTables
<1> HIDE DEF holds
<1>5. ASSUME p.op = "AND"
      PROVE  T.answer[p] = T.answer[p.l] \intersect T.answer[p.r]
  <2>1. \A t : HoldsOver(p, in, t, holds(t)) <=> t \in T.answer[p.l] /\ t \in T.answer[p.r]
    BY <1>3, <1>5 DEF HoldsOver
  <2>2. QED BY <1>1, <1>3, <1>4, <1>5, <2>1
<1>6. ASSUME p.op = "OR"
      PROVE  T.answer[p] = T.answer[p.l] \union T.answer[p.r]
  <2>1. \A t : HoldsOver(p, in, t, holds(t)) <=> t \in T.answer[p.l] \/ t \in T.answer[p.r]
    BY <1>3, <1>6 DEF HoldsOver
  <2>2. QED BY <1>1, <1>3, <1>4, <1>6, <2>1
<1>7. ASSUME p.op = "IN"
      PROVE  T.answer[p] = {t \in Int : t + p.offset \in Keys(in.vec[p.vec])}
  <2>1. \A t : HoldsOver(p, in, t, holds(t)) <=> t + p.offset \in Keys(in.vec[p.vec])
    BY <1>7 DEF HoldsOver
  <2>2. QED BY <1>1, <2>1
<1>8. ASSUME p.op = "SYM"
      PROVE  T.answer[p] = Int \intersect p.keep
  <2>1. \A t : HoldsOver(p, in, t, holds(t)) <=> t \in p.keep
    BY <1>8 DEF HoldsOver
  <2>2. QED BY <1>1, <2>1
<1>9. ASSUME p.op \in {"LT", "LTE", "GT", "GTE"}
      PROVE  T.answer[p] = {t \in Int : CmpHolds(p, t, in.x)}
  <2>1. \A t : HoldsOver(p, in, t, holds(t)) <=> CmpHolds(p, t, in.x)
    BY <1>9 DEF HoldsOver
  <2>2. QED BY <1>1, <2>1
<1>10. QED BY <1>4, <1>5, <1>6, <1>7, <1>8, <1>9

(* What Reffine makes of a predicate, when its operands are made.          *)
Stands(T, p) == T.steady[T.made[p]] /\ T.stands[T.made[p]] = T.answer[T.mirror[p]]

LEMMA PredicateFacts ==
  ASSUME NEW T, NEW in, PassTablesFor(T, in), NEW p \in T.preds,
         NEW m, m = T.made[p], NEW u, u = T.mirror[p]
  PROVE  /\ IsPredicate(p, in)
         /\ \A o \in Operands(p) : o \in T.preds
         /\ m \in T.trees /\ u \in T.preds /\ T.answer[u] \subseteq Int
         /\ p.op = "AND" => /\ m = MeetIn(T, T.made[p.l], T.made[p.r])
                            /\ <<T.made[p.l], T.made[p.r]>> \in T.pairs
                            /\ <<T.made[p.r], T.made[p.l]>> \in T.pairs
         /\ p.op = "OR" => m = Union(T.made[p.l], T.made[p.r])
         /\ p.op = "IN" => /\ m = MeetIn(T, Iterator(p.offset), Vec(p.vec))
                           /\ <<Iterator(p.offset), Vec(p.vec)>> \in T.pairs
         /\ p.op = "SYM" => m = Filtered(Universal, p.keep)
         /\ p.op \in {"LT", "LTE", "GT", "GTE"} => m = ExtractBound(p)
         /\ u = MirrorOver(p, T.mirror)
<1>1. /\ IsPredicate(p, in)
      /\ \A o \in Operands(p) : o \in T.preds
      /\ m \in T.trees
      /\ m = ReffineOver(p, T.made, MeetsIn(T, p))
      /\ Asked(p, T.made) \subseteq T.pairs
      /\ u \in T.preds
      /\ u = MirrorOver(p, T.mirror)
  BY DEF PassTablesFor, MadeTables
<1>2. T.answer[u] \subseteq Int
  BY <1>1, AnswerKinds
<1>3. p.op = "AND" => /\ m = MeetIn(T, T.made[p.l], T.made[p.r])
                      /\ <<T.made[p.l], T.made[p.r]>> \in T.pairs
                      /\ <<T.made[p.r], T.made[p.l]>> \in T.pairs
  BY <1>1 DEF ReffineOver, Asked, MeetsIn, Conjuncts
<1>4. p.op = "OR" => m = Union(T.made[p.l], T.made[p.r])
  BY <1>1 DEF ReffineOver
<1>5. p.op = "IN" => /\ m = MeetIn(T, Iterator(p.offset), Vec(p.vec))
                     /\ <<Iterator(p.offset), Vec(p.vec)>> \in T.pairs
  BY <1>1 DEF ReffineOver, Asked, MeetsIn, Conjuncts
<1>6. p.op = "SYM" => m = Filtered(Universal, p.keep)
  BY <1>1 DEF ReffineOver
<1>7. p.op \in {"LT", "LTE", "GT", "GTE"} => m = ExtractBound(p)
  BY <1>1 DEF ReffineOver
<1>8. QED BY <1>1, <1>2, <1>3, <1>4, <1>5, <1>6, <1>7

LEMMA OperandsStand ==
  ASSUME NEW T, NEW in, PassTablesFor(T, in), NEW p \in T.preds, p.op \in {"AND", "OR"},
         \A o \in Operands(p) : Stands(T, o),
         NEW u, u = T.mirror[p]
  PROVE  /\ p.l \in T.preds /\ p.r \in T.preds
         /\ Stands(T, p.l) /\ Stands(T, p.r)
         /\ u \in T.preds /\ u.op = p.op
         /\ u.l = T.mirror[p.l] /\ u.r = T.mirror[p.r]
         /\ T.answer[u.l] \subseteq Int /\ T.answer[u.r] \subseteq Int
<1>1. /\ IsPredicate(p, in) /\ u \in T.preds /\ u = MirrorOver(p, T.mirror)
      /\ \A o \in Operands(p) : o \in T.preds
  BY PredicateFacts
<1>2. Operands(p) = {p.l, p.r}
  BY DEF Operands
<1>3. u.op = p.op /\ u.l = T.mirror[p.l] /\ u.r = T.mirror[p.r]
  BY <1>1, MirrorKinds
<1>4. T.answer[T.mirror[p.l]] \subseteq Int /\ T.answer[T.mirror[p.r]] \subseteq Int
  BY <1>1, <1>2, PredicateFacts
<1>5. QED BY <1>1, <1>2, <1>3, <1>4

LEMMA AndStands ==
  ASSUME NEW T, NEW in, IsInput(in), PassTablesFor(T, in), NEW p \in T.preds, p.op = "AND",
         \A o \in Operands(p) : Stands(T, o)
  PROVE  Stands(T, p)
<1>1. PICK m, u, l, r : m = T.made[p] /\ u = T.mirror[p] /\ l = T.made[p.l] /\ r = T.made[p.r]
  OBVIOUS
<1>2. /\ u \in T.preds /\ u.op = "AND"
      /\ T.steady[l] /\ T.stands[l] = T.answer[u.l]
      /\ T.steady[r] /\ T.stands[r] = T.answer[u.r]
      /\ T.stands[l] \subseteq Int /\ T.stands[r] \subseteq Int
  BY <1>1, OperandsStand DEF Stands
<1>3. m \in T.trees /\ m = MeetIn(T, l, r) /\ <<l, r>> \in T.pairs /\ <<r, l>> \in T.pairs
  BY <1>1, PredicateFacts
<1>4. StructureTables(T, in) /\ IntersectTables(T)
  BY DEF PassTablesFor
<1>5. T.steady[m] /\ T.stands[m] = T.stands[l] \intersect T.stands[r]
  BY <1>2, <1>3, <1>4, MeetStands
<1>6. T.answer[u] = T.answer[u.l] \intersect T.answer[u.r]
  BY <1>2, AnswerKinds
<1>7. QED BY <1>1, <1>2, <1>5, <1>6 DEF Stands

LEMMA OrStands ==
  ASSUME NEW T, NEW in, PassTablesFor(T, in), NEW p \in T.preds, p.op = "OR",
         \A o \in Operands(p) : Stands(T, o)
  PROVE  Stands(T, p)
<1>1. PICK m, u, l, r : m = T.made[p] /\ u = T.mirror[p] /\ l = T.made[p.l] /\ r = T.made[p.r]
  OBVIOUS
<1>2. /\ u \in T.preds /\ u.op = "OR"
      /\ T.steady[l] /\ T.stands[l] = T.answer[u.l]
      /\ T.steady[r] /\ T.stands[r] = T.answer[u.r]
  BY <1>1, OperandsStand DEF Stands
<1>3. m \in T.trees /\ m.kind = "union" /\ m.left = l /\ m.right = r
  <2>1. m \in T.trees /\ m = Union(l, r)
    BY <1>1, PredicateFacts
  <2>2. QED BY <2>1 DEF Union
<1>4. StructureTables(T, in) /\ IntersectTables(T)
  BY DEF PassTablesFor
<1>5. Parts(m) = {l, r} /\ T.stands[m] = T.stands[l] \union T.stands[r]
  BY <1>3, <1>4, JointTables, UnionTables DEF JointKinds
<1>6. T.steady[m]
  BY <1>2, <1>3, <1>4, <1>5 DEF IntersectTables, SteadyOver
<1>7. T.answer[u] = T.answer[u.l] \union T.answer[u.r]
  BY <1>2, AnswerKinds
<1>8. QED BY <1>1, <1>2, <1>5, <1>6, <1>7 DEF Stands

LEMMA InStands ==
  ASSUME NEW T, NEW in, IsInput(in), PassTablesFor(T, in), NEW p \in T.preds, p.op = "IN"
  PROVE  Stands(T, p)
<1>1. PICK m, u : m = T.made[p] /\ u = T.mirror[p]
  OBVIOUS
<1>2. /\ IsPredicate(p, in) /\ m \in T.trees /\ u \in T.preds /\ u = MirrorOver(p, T.mirror)
      /\ m = MeetIn(T, Iterator(p.offset), Vec(p.vec))
      /\ <<Iterator(p.offset), Vec(p.vec)>> \in T.pairs
  BY <1>1, PredicateFacts
<1>3. p.offset \in Int
  BY <1>2, PredicateKinds
<1>4. StructureTables(T, in) /\ IntersectTables(T)
  BY DEF PassTablesFor
<1>5. T.steady[m] /\ T.stands[m] = {t \in Int : t + (-p.offset) \in Keys(in.vec[p.vec])}
  BY <1>2, <1>3, <1>4, MembershipStands
<1>6. u.op = "IN" /\ u.vec = p.vec /\ u.offset = -p.offset
  BY <1>2, MirrorKinds
<1>7. T.answer[u] = {t \in Int : t + u.offset \in Keys(in.vec[u.vec])}
  BY <1>2, <1>6, AnswerKinds
<1>8. QED BY <1>1, <1>5, <1>6, <1>7 DEF Stands

LEMMA FlagStands ==
  ASSUME NEW T, NEW in, PassTablesFor(T, in), NEW p \in T.preds, p.op = "SYM"
  PROVE  Stands(T, p)
<1>1. PICK m, u : m = T.made[p] /\ u = T.mirror[p]
  OBVIOUS
<1>2. /\ IsPredicate(p, in) /\ m \in T.trees /\ u \in T.preds /\ u = MirrorOver(p, T.mirror)
      /\ m.kind = "filtered" /\ m.ispace = Universal /\ m.keep = p.keep
  <2>1. /\ IsPredicate(p, in) /\ m \in T.trees /\ u \in T.preds /\ u = MirrorOver(p, T.mirror)
        /\ m = Filtered(Universal, p.keep)
    BY <1>1, PredicateFacts
  <2>2. QED BY <2>1 DEF Filtered
<1>3. StructureTables(T, in) /\ IntersectTables(T)
  BY DEF PassTablesFor
<1>4. Parts(m) = {Universal} /\ Universal \in T.trees
  BY <1>2, <1>3, SuperTables DEF SuperKinds
<1>5. Universal.kind = "universal" /\ Parts(Universal) = {}
  BY DEF Universal, Parts, SuperKinds, JointKinds
<1>6. T.stands[Universal] = Int /\ T.steady[Universal]
  BY <1>3, <1>4, <1>5, UniversalTables DEF IntersectTables, SteadyOver
<1>7. T.stands[m] = Int \intersect p.keep
  BY <1>2, <1>3, <1>6 DEF StructureTables, ValueTables, StandsOver
<1>8. T.steady[m]
  BY <1>2, <1>3, <1>4, <1>6 DEF IntersectTables, SteadyOver
<1>9. u = p
  BY <1>2, MirrorKinds
<1>10. T.answer[u] = Int \intersect p.keep
  BY <1>9, AnswerKinds
<1>11. QED BY <1>1, <1>7, <1>8, <1>10 DEF Stands

LEMMA CmpStands ==
  ASSUME NEW T, NEW in, IsInput(in), PassTablesFor(T, in), ZWindow = Int,
         NEW p \in T.preds, p.op \in {"LT", "LTE", "GT", "GTE"}
  PROVE  Stands(T, p)
<1>1. PICK m, u : m = T.made[p] /\ u = T.mirror[p]
  OBVIOUS
<1>2. /\ IsPredicate(p, in) /\ m \in T.trees /\ u \in T.preds /\ u = MirrorOver(p, T.mirror)
      /\ m = ExtractBound(p)
  BY <1>1, PredicateFacts
<1>3. StructureTables(T, in) /\ IntersectTables(T)
  BY DEF PassTablesFor
<1>4. u = IF m = Universal THEN True ELSE p
  BY <1>2, MirrorKinds
<1>5. /\ T.steady[m]
      /\ m # Universal => T.stands[m] = {t \in Int : CmpHolds(p, t, in.x)}
      /\ m = Universal => T.stands[m] = Int
  BY <1>2, <1>3, ComparisonStands
<1>6. u.op \in {"LT", "LTE", "GT", "GTE"}
  BY <1>4 DEF True, Cmp
<1>7. T.answer[u] = {t \in Int : CmpHolds(u, t, in.x)}
  BY <1>2, <1>6, AnswerKinds
<1>8. \A t \in Int : CmpHolds(True, t, in.x)
  BY DEF True, Cmp, CmpHolds, IsInput
<1>9. T.stands[m] = T.answer[u]
  <2>1. CASE m = Universal
    BY <1>4, <1>5, <1>7, <1>8, <2>1
  <2>2. CASE m # Universal
    BY <1>4, <1>5, <1>7, <2>2
  <2>3. QED BY <2>1, <2>2
<1>10. QED BY <1>1, <1>5, <1>9 DEF Stands

(* What the Reffine pass makes of a predicate, with AND taken apart by     *)
(* intersect and comparisons by the solver, stands for exactly the values  *)
(* the predicate holds of as the source reads it.                          *)
THEOREM PassStands ==
  ASSUME NEW T, NEW in, IsInput(in), PassTablesFor(T, in), ZWindow = Int
  PROVE  \A p \in T.preds : Stands(T, p)
<1> DEFINE Good == {p \in T.preds : Stands(T, p)}
<1>1. ASSUME NEW p \in T.preds, \A o \in T.preds : T.length[o] < T.length[p] => o \in Good
      PROVE  p \in Good
  <2>1. \A o \in Operands(p) : Stands(T, o)
    BY <1>1 DEF PassTablesFor, MadeTables
  <2>2. p.op \in {"AND", "OR", "IN", "SYM", "LT", "LTE", "GT", "GTE"}
    BY PredicateKinds DEF PassTablesFor, MadeTables
  <2>3. Stands(T, p)
    BY <2>1, <2>2, AndStands, OrStands, InStands, FlagStands, CmpStands
  <2>4. QED BY <2>3
<1>2. T.length \in [T.preds -> Nat]
  BY DEF PassTablesFor, MadeTables
<1>3. Good \in SUBSET T.preds
  OBVIOUS
<1>4. \A p \in T.preds : (\A o \in T.preds : T.length[o] < T.length[p] => o \in Good) => p \in Good
  BY <1>1
<1> HIDE DEF Good
<1>5. Good = T.preds
  BY <1>2, <1>3, <1>4, SizeInduction
<1>6. QED BY <1>5 DEF Good

-----------------------------------------------------------------------------
(* Queries of one vector, filtered and bounded below, wherever they start. *)
StraightQuery(query, w) ==
  /\ IsVector(w.vec) /\ Sorted(w.vec) /\ w.shift \in Int
  /\ WalksOf(query) = {w}
  /\ Bounded(SpaceOf(query), AnswerOf(query))
  /\ AnswerOf(query) \in SUBSET Int
  /\ Straight(SpaceOf(query), AnswerOf(query), w)

AllStraight == \A query \in Queries : \E w : StraightQuery(query, w)

OnlyWalk == CHOOSE w : StraightQuery(q, w)
At(i) == ReadData(OnlyWalk.vec, i) + OnlyWalk.shift

(* The rows passed by the loop, of which none of the answer's is missing,  *)
(* and what it may have found before the first row.                        *)
Passed(i) ==
  CASE pc \in {"exit_cond", "body"} -> i < idx
    [] pc = "incr"                  -> i <= idx
    [] OTHER                        -> TRUE

StrayInv ==
  /\ Books
  /\ idx \in -1 .. OnlyWalk.vec.len
  /\ pc \in {"body", "incr"} => idx < OnlyWalk.vec.len
  /\ \A i \in Rows(OnlyWalk.vec) : Passed(i) /\ At(i) \in Answer => At(i) \in Emitted
  /\ Emitted \subseteq Answer \union {At(-1)}

LEMMA StraightSpaces == ASSUME AllStraight PROVE AllSpaces
BY DEF AllStraight, StraightQuery, Bounded, AllSpaces

LEMMA StraightFacts ==
  ASSUME AllStraight, q \in Queries
  PROVE  /\ IsVector(OnlyWalk.vec) /\ Sorted(OnlyWalk.vec) /\ OnlyWalk.shift \in Int
         /\ OnlyWalk.vec.len \in Nat
         /\ WalksOf(q) = {OnlyWalk}
         /\ Answer \in SUBSET Int
         /\ LowerLaw(space, Answer) /\ space.lower_bound \subseteq Int
         /\ \A i \in Int : At(i) \in Int
         /\ \A t \in Int : space.iter_to_idx[t] = Locate(OnlyWalk.vec, t - OnlyWalk.shift)
         /\ \A i \in Int : /\ space.idx_to_iter[i] = At(i)
                           /\ space.is_alive[i] <=> i < OnlyWalk.vec.len
                           /\ space.next[i] = i + 1
         /\ \A i \in Rows(OnlyWalk.vec) : space.iter_cond[i] <=> At(i) \in Answer
         /\ \A x \in Answer : \E i \in Rows(OnlyWalk.vec) : x = At(i)
<1>1. StraightQuery(q, OnlyWalk)
  BY DEF AllStraight, OnlyWalk
<1> DEFINE w == OnlyWalk
<1> HIDE DEF w
<1>2. /\ IsVector(w.vec) /\ Sorted(w.vec) /\ w.shift \in Int /\ WalksOf(q) = {w}
      /\ Answer \in SUBSET Int /\ Bounded(space, Answer)
      /\ Straight(space, Answer, w)
  BY <1>1 DEF StraightQuery, space, Answer, w
<1>3. LowerLaw(space, Answer) /\ space.lower_bound \subseteq Int
  BY <1>2 DEF Bounded, IsSpace, Optional
<1>4. \A i \in Int : At(i) = ReadData(w.vec, i) + w.shift /\ At(i) \in Int
  BY <1>2, ReadsAreIntegers DEF At, w
<1>5. \A i \in Rows(w.vec) : i \in Int
  BY <1>2 DEF Rows, IsVector
<1>6. w.vec.len \in Nat
  BY <1>2 DEF IsVector
<1>7. /\ \A t \in Int : space.iter_to_idx[t] = Locate(w.vec, t - w.shift)
      /\ \A i \in Int : /\ space.idx_to_iter[i] = At(i)
                        /\ space.is_alive[i] <=> i < w.vec.len
                        /\ space.next[i] = i + 1
  BY <1>2, <1>4 DEF Straight
<1>8. /\ \A i \in Rows(w.vec) : space.iter_cond[i] <=> At(i) \in Answer
      /\ \A x \in Answer : \E i \in Rows(w.vec) : x = At(i)
  BY <1>2, <1>5, <1>7 DEF Straight
<1>9. QED BY <1>2, <1>3, <1>4, <1>6, <1>7, <1>8 DEF w

(* The loop starts before the rows, or in the row of its lower bound, with *)
(* none of the answer's behind it.                                         *)
LEMMA StrayInit ==
  ASSUME AllStraight, Init
  PROVE  StrayInv
<1>1. PICK lb \in space.lower_bound : idx = space.iter_to_idx[lb]
  BY DEF Init
<1>2. q \in Queries /\ pc = "exit_cond" /\ out_vec = Empty
  BY DEF Init
<1> DEFINE v == OnlyWalk.vec
           x == lb - OnlyWalk.shift
<1>3. /\ IsVector(v) /\ Sorted(v) /\ OnlyWalk.shift \in Int /\ lb \in Int /\ x \in Int
      /\ idx = Locate(v, x)
  BY <1>1, <1>2, StraightFacts
<1>4. Emitted = {}
  BY <1>2 DEF Empty, Counted, Emitted
<1>5. idx = -1 \/ (idx \in Rows(v) /\ At(idx) = lb)
  <2>1. CASE Located(v, x)
    <3>1. Locate(v, x) \in Rows(v) /\ ReadData(v, Locate(v, x)) = x
      BY <1>3, <2>1, LocateRow
    <3>2. QED BY <1>3, <3>1 DEF At
  <2>2. CASE ~Located(v, x)
    BY <1>3, <2>2 DEF Located
  <2>3. QED BY <2>1, <2>2
<1>6. ASSUME NEW i \in Rows(v), i < idx
      PROVE  At(i) \notin Answer
  <2>1. idx \in Rows(v) /\ At(idx) = lb /\ i \in Int /\ i >= 0 /\ i < v.len
    BY <1>3, <1>5, <1>6 DEF Rows, IsVector
  <2>2. ReadData(v, i) < ReadData(v, idx)
    BY <1>3, <1>6, <2>1 DEF Sorted, ReadData, ReadCell, Rows, IsVector
  <2>3. ReadData(v, i) \in Int /\ ReadData(v, idx) \in Int
    BY <1>3, <2>1, ReadsAreIntegers DEF Rows, IsVector
  <2>4. At(i) < lb
    BY <1>3, <2>1, <2>2, <2>3 DEF At
  <2>5. \A y \in Answer : y >= lb /\ y \in Int
    BY <1>1, <1>2, StraightFacts DEF LowerLaw
  <2>6. QED BY <1>3, <2>4, <2>5
<1>7. idx \in -1 .. v.len
  BY <1>3, <1>5 DEF Rows, IsVector
<1>8. Books
  BY StraightSpaces, InitBooks
<1>9. \A i : Passed(i) <=> i < idx
  BY <1>2 DEF Passed
<1>10. QED BY <1>2, <1>4, <1>6, <1>7, <1>8, <1>9 DEF StrayInv

LEMMA StrayStep ==
  ASSUME AllStraight, StrayInv, [Next]_vars
  PROVE  StrayInv'
<1>1. UNCHANGED q
  BY DEF Next, vars, Continue, Break, ScalarBody, VectorBody, Incr, Post
<1>2. /\ space' = space /\ Answer' = Answer /\ OnlyWalk' = OnlyWalk
      /\ \A i : At(i)' = At(i)
  BY <1>1, SameQuery DEF OnlyWalk, At
<1>3. Books'
  BY StraightSpaces, StepBooks DEF StrayInv
<1> DEFINE len == OnlyWalk.vec.len
           rows == Rows(OnlyWalk.vec)
<1>4. /\ q \in Queries /\ len \in Nat /\ rows = 0 .. len - 1
      /\ idx \in -1 .. len
      /\ pc \in {"body", "incr"} => idx < len
      /\ \A i \in rows : Passed(i) /\ At(i) \in Answer => At(i) \in Emitted
      /\ Emitted \subseteq Answer \union {At(-1)}
      /\ space.is_alive[idx] <=> idx < len
      /\ space.next[idx] = idx + 1
      /\ Here = At(idx)
      /\ \A i \in rows : space.iter_cond[i] <=> At(i) \in Answer
  BY StraightFacts DEF StrayInv, Books, Rows, Here
<1> HIDE DEF len, rows
<1>5. ASSUME UNCHANGED <<vectorize, out_vec, bytemap>>,
             idx' \in -1 .. len, pc' \in {"body", "incr"} => idx' < len,
             \A i \in rows : Passed(i)' => Passed(i)
      PROVE  StrayInv'
  <2>1. Emitted' = Emitted
    BY <1>5, SameRows
  <2>2. QED BY <1>2, <1>3, <1>4, <1>5, <2>1 DEF StrayInv, len, rows
<1>6. CASE Continue \/ UNCHANGED vars
  <2>1. /\ UNCHANGED <<vectorize, idx, out_vec, bytemap>>
        /\ pc' = pc \/ (pc = "exit_cond" /\ pc' = "body" /\ idx < len)
    BY <1>4, <1>6 DEF Continue, vars
  <2>2. \A i \in rows : Passed(i)' => Passed(i)
    BY <2>1 DEF Passed
  <2>3. QED BY <1>4, <1>5, <2>1, <2>2
<1>7. CASE Break
  <2>1. /\ UNCHANGED <<vectorize, idx, out_vec, bytemap>>
        /\ pc = "exit_cond" /\ pc' = "post" /\ idx = len
    BY <1>4, <1>7 DEF Break
  <2>2. \A i \in rows : Passed(i)
    BY <1>4, <2>1 DEF Passed
  <2>3. QED BY <1>4, <1>5, <2>1, <2>2
<1>8. CASE ScalarBody \/ VectorBody
  <2>1. pc = "body" /\ pc' = "incr" /\ UNCHANGED idx
    BY <1>8 DEF ScalarBody, VectorBody
  <2>2. Emitted' = IF space.iter_cond[idx] THEN Emitted \union {At(idx)} ELSE Emitted
    BY <1>4, <1>8, StraightSpaces, BodyEmits DEF StrayInv
  <2>3. idx = -1 \/ idx \in rows
    BY <1>4, <2>1
  <2>4. Emitted' \subseteq Answer \union {At(-1)}
    BY <1>4, <2>2, <2>3
  <2>5. ASSUME NEW i \in rows, At(i) \in Answer, Passed(i)'
        PROVE  At(i) \in Emitted'
    <3>1. i < idx \/ i = idx
      BY <1>4, <2>1, <2>5 DEF Passed
    <3>2. CASE i < idx
      BY <1>4, <2>1, <2>2, <2>5, <3>2 DEF Passed
    <3>3. CASE i = idx
      BY <1>4, <2>2, <2>5, <3>3
    <3>4. QED BY <3>1, <3>2, <3>3
  <2>6. QED BY <1>2, <1>3, <1>4, <2>1, <2>4, <2>5 DEF StrayInv, len, rows
<1>9. CASE Incr
  <2>1. /\ UNCHANGED <<vectorize, out_vec, bytemap>>
        /\ pc = "incr" /\ pc' = "exit_cond" /\ idx' = idx + 1
    BY <1>4, <1>9 DEF Incr
  <2>2. idx' \in -1 .. len
    BY <1>4, <2>1
  <2>3. \A i \in rows : Passed(i)' => Passed(i)
    BY <1>4, <2>1 DEF Passed
  <2>4. QED BY <1>5, <2>1, <2>2, <2>3
<1>10. CASE Post
  <2>1. UNCHANGED <<vectorize, idx, out_vec, bytemap>> /\ pc = "post" /\ pc' = "done"
    BY <1>10 DEF Post
  <2>2. \A i \in rows : Passed(i)
    BY <2>1 DEF Passed
  <2>3. QED BY <1>4, <1>5, <2>1, <2>2
<1>11. QED BY <1>6, <1>7, <1>8, <1>9, <1>10 DEF Next

(* A loop over one vector without an upper bound finishes with its whole   *)
(* answer and at most the cell before the vector besides, wherever it      *)
(* starts: also at a bound no row of the vector has.                       *)
THEOREM StraightMissesNothing == ASSUME AllStraight PROVE Spec => []StrayRowAtMost
<1>1. StrayInv => StrayRowAtMost
  <2>1. ASSUME StrayInv, pc = "done"
        PROVE  /\ Answer \subseteq Result
               /\ Result \subseteq Answer \union {w.vec.before.key + w.shift : w \in WalksOf(q)}
    <3>1. Result = Emitted /\ q \in Queries
      BY <2>1, FinishedRows DEF StrayInv, Books
    <3>2. \A i \in Rows(OnlyWalk.vec) : Passed(i)
      BY <2>1 DEF Passed
    <3>3. Answer \subseteq Emitted
      BY <2>1, <3>1, <3>2, StraightFacts DEF StrayInv
    <3>4. At(-1) = OnlyWalk.vec.before.key + OnlyWalk.shift
      BY DEF At, ReadData, ReadCell
    <3>5. {w.vec.before.key + w.shift : w \in WalksOf(q)} = {At(-1)}
      BY <3>1, <3>4, StraightFacts
    <3>6. QED BY <2>1, <3>1, <3>3, <3>5 DEF StrayInv
  <2>2. QED BY <2>1 DEF StrayRowAtMost, Answer
<1>2. QED BY <1>1, StrayInit, StrayStep, PTL DEF Spec

-----------------------------------------------------------------------------
(* Queries: a space that is sound, started where all its walks can be.     *)
SoundQuery(query) ==
  /\ Sound(SpaceOf(query), AnswerOf(query), WalksOf(query))
  /\ \A lb \in SpaceOf(query).lower_bound : StartsAt(WalksOf(query), lb)

LEMMA SoundReach ==
  ASSUME NEW query, SoundQuery(query)
  PROVE  \E G \in SUBSET SpaceOf(query).idx :
           /\ Walked(SpaceOf(query), G, AnswerOf(query), WalksOf(query))
           /\ \A lb \in SpaceOf(query).lower_bound :
                \/ StartLaw(SpaceOf(query), G, lb)
                \/ DeadStart(SpaceOf(query), G, AnswerOf(query), lb)
<1>1. PICK G \in SUBSET SpaceOf(query).idx :
        Walked(SpaceOf(query), G, AnswerOf(query), WalksOf(query))
  BY DEF SoundQuery, Sound
<1>2. SpaceOf(query).lower_bound \subseteq Int
  BY DEF SoundQuery, Sound, Bounded, IsSpace, Optional
<1>3. QED BY <1>1, <1>2 DEF SoundQuery, Walked

LEMMA SoundLawful ==
  ASSUME NEW query, SoundQuery(query)
  PROVE  Lawful(SpaceOf(query), AnswerOf(query))
BY SoundReach DEF SoundQuery, Sound, Bounded, Walked, Lawful

LEMMA SoundReadable ==
  ASSUME NEW query, SoundQuery(query), OneEach(WalksOf(query))
  PROVE  \E G \in SUBSET SpaceOf(query).idx :
           Closed(SpaceOf(query), G) /\ ReadLaw(SpaceOf(query), G, WalksOf(query))
<1>1. PICK G \in SUBSET SpaceOf(query).idx :
        /\ Walked(SpaceOf(query), G, AnswerOf(query), WalksOf(query))
        /\ \A lb \in SpaceOf(query).lower_bound :
             \/ StartLaw(SpaceOf(query), G, lb)
             \/ DeadStart(SpaceOf(query), G, AnswerOf(query), lb)
  BY SoundReach
<1>2. Closed(SpaceOf(query), G)
  BY <1>1 DEF Closed, Walked, Laws, StepLaw, StartLaw, DeadStart
<1>3. QED BY <1>1, <1>2 DEF Walked

-----------------------------------------------------------------------------
(* A query as the pass compiles it.  Its predicate and everything the pass *)
(* makes on the way are in some tables; its answer is that of the          *)
(* predicate as the source reads it.                                       *)
Compiled(query, T) ==
  /\ IsInput(query.in)
  /\ PassTablesFor(T, query.in)
  /\ query.pred \in T.preds
  /\ query.tree = T.made[query.pred]
  /\ SpaceOf(query) = T.space[query.tree]
  /\ AnswerOf(query) = T.answer[T.mirror[query.pred]]
  /\ WalksOf(query) = WalksOver(T.leaves[query.tree], query.in)

(* And as its caller arranges it: the unions can be merged, and the value  *)
(* the loop starts from is a non-null key of every vector.                 *)
Arranged(query, T) ==
  /\ T.merges[query.tree]
  /\ \A lb \in SpaceOf(query).lower_bound : StartsAt(WalksOf(query), lb)

AllArranged == \A query \in Queries : \E T : Compiled(query, T) /\ Arranged(query, T)

LEMMA CompiledSound ==
  ASSUME NEW query, NEW T, Compiled(query, T), Arranged(query, T), ZWindow = Int
  PROVE  SoundQuery(query)
<1>1. /\ IsInput(query.in) /\ PassTablesFor(T, query.in) /\ StructureTables(T, query.in)
      /\ query.pred \in T.preds /\ query.tree \in T.trees
      /\ query.tree = T.made[query.pred] /\ T.merges[query.tree]
      /\ SpaceOf(query) = T.space[query.tree]
      /\ AnswerOf(query) = T.answer[T.mirror[query.pred]]
      /\ WalksOf(query) = WalksOver(T.leaves[query.tree], query.in)
  BY DEF Compiled, Arranged, PassTablesFor, MadeTables
<1>2. Sound(T.space[query.tree], T.stands[query.tree], WalksOver(T.leaves[query.tree], query.in))
  BY <1>1, StructureSound
<1>3. T.stands[query.tree] = T.answer[T.mirror[query.pred]]
  BY <1>1, PassStands DEF Stands
<1>4. Sound(SpaceOf(query), AnswerOf(query), WalksOf(query))
  BY <1>1, <1>2, <1>3
<1>5. QED BY <1>4 DEF SoundQuery, Arranged

LEMMA ArrangedLawful == ASSUME AllArranged, ZWindow = Int PROVE AllLawful
BY CompiledSound, SoundLawful DEF AllArranged, AllLawful

LEMMA ArrangedReadable ==
  ASSUME AllArranged, ZWindow = Int, \A query \in Queries : OneEach(WalksOf(query))
  PROVE  AllReadable
BY CompiledSound, SoundReadable DEF AllArranged, AllReadable

(* What the loop of a query finishes with is what its predicate says as    *)
(* the source reads it (MirrorOver: shifts its way, and comparisons it     *)
(* cannot solve as true), for predicates of any shape and vectors of any   *)
(* length, in both code paths.                                             *)
THEOREM QueryExact == ASSUME AllArranged, ZWindow = Int PROVE Spec => []ResultExact
BY ArrangedLawful, LoopExact

(* The output of a query is sorted by the iterator, null rows included.    *)
THEOREM QuerySorted == ASSUME AllArranged, ZWindow = Int PROVE Spec => []OutputSorted
BY ArrangedLawful, LoopSorted

(* The null count of the output of a query is that of its bitmap.          *)
THEOREM QueryNulls == ASSUME AllArranged, ZWindow = Int PROVE Spec => []NullsCounted
BY ArrangedLawful, LawfulSpaces, LoopNulls

(* The loop of a query is a scan of its answer, value by value.            *)
THEOREM QueryScans == ASSUME AllArranged, ZWindow = Int PROVE Spec => ScanSteps
BY ArrangedLawful, LoopScans

(* A query that walks each of its vectors under one shift reads nothing    *)
(* outside of them, also in the iterations whose rows are null.            *)
THEOREM QueryReads ==
  ASSUME AllArranged, ZWindow = Int, \A query \in Queries : OneEach(WalksOf(query))
  PROVE  Spec => []NoStrayRead
BY ArrangedReadable, ReadsStayInside

(* And in every row it counts, the elements are those of the row's         *)
(* iterator.                                                               *)
THEOREM QueryElements ==
  ASSUME AllArranged, ZWindow = Int, \A query \in Queries : OneEach(WalksOf(query))
  PROVE  Spec => []ElementsMatch
BY ArrangedReadable, ElementsAreTheIterators

-----------------------------------------------------------------------------
(* A structure that has a vector on every branch.                          *)
AllVectors(T, tree) ==
  \E part \in SUBSET T.trees :
    /\ tree \in part
    /\ \A s \in part : s.kind # "universal" /\ Parts(s) \subseteq part

IsKeyed(s, leaves, in) ==
  /\ Keyed(s, WalksOver(leaves, in), in.vec)
  /\ IsFiniteSet(RowKeys(WalksOver(leaves, in)))

LEMMA StructureKeyed ==
  ASSUME NEW T, NEW in, IsInput(in), StructureTables(T, in), NEW part \in SUBSET T.trees,
         \A s \in part : s.kind # "universal" /\ Parts(s) \subseteq part
  PROVE  \A s \in part : T.merges[s] => IsKeyed(T.space[s], T.leaves[s], in)
<1> DEFINE P(s) == IsKeyed(T.space[s], T.leaves[s], in)
           Good == {s \in T.trees : s \in part /\ T.merges[s] => P(s)}
<1>1. ASSUME NEW s \in T.trees, \A c \in T.trees : T.size[c] < T.size[s] => c \in Good,
             s \in part, T.merges[s]
      PROVE  P(s)
  <2>1. CASE s.kind = "vec"
    <3>1. IsVector(in.vec[s.vec]) /\ T.space[s] = VecSpace(s.vec, in.vec[s.vec])
      BY <2>1, VecTables DEF IsInput
    <3>2. WalksOver(T.leaves[s], in) = VecWalks(s.vec, in.vec[s.vec])
      BY <2>1, VecWalksAre
    <3>3. QED BY <3>1, <3>2, VecKeyed, VecRowKeys DEF IsKeyed
  <2>2. ASSUME s.kind \in SuperKinds
        PROVE  /\ P(s.ispace)
               /\ IsSpace(T.space[s.ispace])
               /\ AreWalks(WalksOver(T.leaves[s.ispace], in))
    <3>1. /\ s.ispace \in part /\ s.ispace \in T.trees
          /\ T.size[s.ispace] < T.size[s] /\ T.merges[s.ispace]
      BY <1>1, <2>2, SuperTables
    <3>2. P(s.ispace)
      BY <1>1, <3>1
    <3>3. QED BY <3>1, <3>2, StructureBounded, WalksAre DEF Bounded
  <2>3. CASE s.kind = "shifted"
    <3>1. /\ s.offset \in Int
          /\ T.space[s] = ShiftedSpace(T.space[s.ispace], s.offset)
          /\ WalksOver(T.leaves[s], in) = ShiftedWalks(WalksOver(T.leaves[s.ispace], in), s.offset)
      BY <2>3, ShiftedTables, ShiftedWalksAre
    <3>2. QED BY <2>2, <2>3, <3>1, ShiftedKeyed, ShiftedRowKeys DEF IsKeyed, SuperKinds
  <2>4. CASE s.kind = "filtered"
    <3>1. /\ T.leaves[s] = T.leaves[s.ispace]
          /\ T.space[s] = FilteredSpace(T.space[s.ispace],
                            [i \in T.space[s.ispace].idx |-> T.space[s.ispace].idx_to_iter[i] \in s.keep])
      BY <2>4, FilteredTables
    <3>2. QED BY <2>2, <2>4, <3>1, NarrowKeyed DEF IsKeyed, SuperKinds
  <2>5. CASE s.kind = "lbound"
    <3>1. /\ T.leaves[s] = T.leaves[s.ispace]
          /\ T.space[s] = LBoundSpace(T.space[s.ispace], BoundOf(s.bound, in))
      BY <2>5, LBoundTables
    <3>2. QED BY <2>2, <2>5, <3>1, NarrowKeyed DEF IsKeyed, SuperKinds
  <2>6. CASE s.kind = "ubound"
    <3>1. /\ T.leaves[s] = T.leaves[s.ispace]
          /\ T.space[s] = UBoundSpace(T.space[s.ispace], BoundOf(s.bound, in))
      BY <2>6, UBoundTables
    <3>2. QED BY <2>2, <2>6, <3>1, NarrowKeyed DEF IsKeyed, SuperKinds
  <2>7. CASE s.kind \in JointKinds
    <3>1. /\ s.left \in part /\ s.right \in part
          /\ s.left \in T.trees /\ s.right \in T.trees
          /\ T.size[s.left] < T.size[s] /\ T.size[s.right] < T.size[s]
          /\ T.merges[s.left] /\ T.merges[s.right]
          /\ T.leaves[s] = T.leaves[s.left] \union T.leaves[s.right]
      BY <1>1, <2>7, JointTables
    <3>2. P(s.left) /\ P(s.right)
      BY <1>1, <3>1
    <3>3. IsSpace(T.space[s.left]) /\ IsSpace(T.space[s.right])
      BY <3>1, StructureBounded DEF Bounded
    <3>4. WalksOver(T.leaves[s], in)
            = WalksOver(T.leaves[s.left], in) \union WalksOver(T.leaves[s.right], in)
      BY <3>1 DEF WalksOver
    <3>5. T.space[s] \in {InterSpace(T.space[s.left], T.space[s.right]),
                          UnionSpace(T.space[s.left], T.space[s.right])}
      BY <2>7, InterTables, UnionTables DEF JointKinds
    <3>6. Keyed(T.space[s], WalksOver(T.leaves[s], in), in.vec)
      BY <3>2, <3>3, <3>4, <3>5, JointKeyed DEF IsKeyed
    <3>7. IsFiniteSet(RowKeys(WalksOver(T.leaves[s], in)))
      BY <3>2, <3>4, BothRowKeys DEF IsKeyed
    <3>8. QED BY <3>6, <3>7 DEF IsKeyed
  <2>8. QED BY <1>1, <2>1, <2>3, <2>4, <2>5, <2>6, <2>7, StructureKinds DEF SuperKinds
<1>2. Good = T.trees
  <2>1. T.size \in [T.trees -> Nat]
    BY DEF StructureTables, TreeTables
  <2>2. Good \in SUBSET T.trees
    OBVIOUS
  <2>3. \A s \in T.trees : (\A c \in T.trees : T.size[c] < T.size[s] => c \in Good) => s \in Good
    BY <1>1
  <2> HIDE DEF Good
  <2>4. QED BY <2>1, <2>2, <2>3, SizeInduction
<1>3. QED BY <1>2

LEMMA VectorsKeyed ==
  ASSUME \A query \in Queries :
           \E T : /\ Compiled(query, T) /\ Arranged(query, T)
                  /\ WalksOf(query) # {} => AllVectors(T, query.tree)
  PROVE  AllKeyed
<1>1. ASSUME NEW query \in Queries, WalksOf(query) # {}
      PROVE  /\ IsFiniteSet(RowKeys(WalksOf(query)))
             /\ \E vec : /\ \A w \in WalksOf(query) : w.vec = vec[w.name]
                         /\ Keyed(SpaceOf(query), WalksOf(query), vec)
  <2>1. PICK T : Compiled(query, T) /\ Arranged(query, T) /\ AllVectors(T, query.tree)
    BY <1>1
  <2>2. /\ IsInput(query.in) /\ StructureTables(T, query.in)
        /\ T.merges[query.tree]
        /\ SpaceOf(query) = T.space[query.tree]
        /\ WalksOf(query) = WalksOver(T.leaves[query.tree], query.in)
    BY <2>1 DEF Compiled, Arranged, PassTablesFor
  <2>3. IsKeyed(T.space[query.tree], T.leaves[query.tree], query.in)
    BY <2>1, <2>2, StructureKeyed DEF AllVectors
  <2>4. \A w \in WalksOf(query) : w.vec = query.in.vec[w.name]
    BY <2>2 DEF WalksOver, WalkOf
  <2>5. QED BY <2>2, <2>3, <2>4 DEF IsKeyed
<1>2. QED BY <1>1 DEF AllKeyed

(* A query over vectors writes no more rows, null rows included, than      *)
(* there are different values in the rows of its vectors: whoever sizes    *)
(* the output for these sizes it for every run of the loop.                *)
THEOREM QueryRowsFit ==
  ASSUME ZWindow = Int,
         \A query \in Queries :
           /\ OneEach(WalksOf(query))
           /\ \E T : /\ Compiled(query, T) /\ Arranged(query, T)
                     /\ WalksOf(query) # {} => AllVectors(T, query.tree)
  PROVE  Spec => []RowsFit
<1>1. AllArranged
  BY DEF AllArranged
<1>2. QED BY <1>1, ArrangedLawful, ArrangedReadable, VectorsKeyed, LoopRowsFit

-----------------------------------------------------------------------------
(* Where a missed start does no harm: a vector under shifts, filters and   *)
(* lower bounds.                                                           *)
OneVector(T, tree) ==
  \E chain \in SUBSET T.trees :
    /\ tree \in chain
    /\ \A s \in chain : /\ s.kind \in {"vec", "shifted", "filtered", "lbound"}
                       /\ Parts(s) \subseteq chain

IsStraight(s, Sol, leaves, in) ==
  /\ Sol \in SUBSET Int
  /\ Bounded(s, Sol)
  /\ \E l \in leaves : /\ leaves = {l}
                       /\ IsLeaf(l, in)
                       /\ Straight(s, Sol, WalkOf(l, in))

LEMMA StructureStraight ==
  ASSUME NEW T, NEW in, IsInput(in), StructureTables(T, in), NEW chain \in SUBSET T.trees,
         \A s \in chain : /\ s.kind \in {"vec", "shifted", "filtered", "lbound"}
                         /\ Parts(s) \subseteq chain
  PROVE  \A s \in chain : IsStraight(T.space[s], T.stands[s], T.leaves[s], in)
<1> DEFINE P(s) == IsStraight(T.space[s], T.stands[s], T.leaves[s], in)
           Good == {s \in T.trees : s \in chain => P(s)}
<1>1. ASSUME NEW s \in T.trees, \A c \in T.trees : T.size[c] < T.size[s] => c \in Good, s \in chain
      PROVE  P(s)
  <2>1. CASE s.kind = "vec"
    <3> DEFINE v == in.vec[s.vec]
               l == [vec |-> s.vec, shift |-> 0]
    <3>1. IsVector(v) /\ Sorted(v) /\ T.leaves[s] = {l} /\ IsLeaf(l, in)
      BY <2>1, VecTables DEF IsInput, IsLeaf
    <3>2. T.space[s] = VecSpace(s.vec, v) /\ T.stands[s] = Keys(v)
      BY <2>1, VecTables
    <3>3. Keys(v) \in SUBSET Int
      BY <3>1 DEF Keys, IsVector, Cell, Rows
    <3>4. Bounded(VecSpace(s.vec, v), Keys(v))
      BY <3>1, VecBounded
    <3>5. WalkOf(l, in) = [name |-> s.vec, vec |-> v, shift |-> 0]
      BY DEF WalkOf
    <3>6. Straight(VecSpace(s.vec, v), Keys(v), WalkOf(l, in))
      BY <3>1, <3>5, VecStraight
    <3> HIDE DEF l, v
    <3>7. QED BY <3>1, <3>2, <3>3, <3>4, <3>6 DEF IsStraight
  <2>2. ASSUME s.kind \in SuperKinds
        PROVE  /\ T.stands[s.ispace] \in SUBSET Int
               /\ IsSpace(T.space[s.ispace]) /\ Bounded(T.space[s.ispace], T.stands[s.ispace])
               /\ \E l \in T.leaves[s.ispace] :
                    /\ T.leaves[s.ispace] = {l} /\ IsLeaf(l, in)
                    /\ IsVector(WalkOf(l, in).vec)
                    /\ WalkOf(l, in).shift \in Int
                    /\ Straight(T.space[s.ispace], T.stands[s.ispace], WalkOf(l, in))
    <3>1. s.ispace \in chain /\ s.ispace \in T.trees /\ T.size[s.ispace] < T.size[s]
      BY <1>1, <2>2, SuperTables
    <3>2. P(s.ispace)
      BY <1>1, <3>1
    <3>3. \A l : IsLeaf(l, in) => IsVector(WalkOf(l, in).vec) /\ WalkOf(l, in).shift \in Int
      BY DEF IsLeaf, IsInput, WalkOf
    <3>4. QED BY <3>2, <3>3 DEF IsStraight, Bounded
  <2>3. CASE s.kind = "shifted"
    <3>1. PICK l \in T.leaves[s.ispace] :
            /\ T.leaves[s.ispace] = {l} /\ IsLeaf(l, in)
            /\ IsVector(WalkOf(l, in).vec)
            /\ WalkOf(l, in).shift \in Int
            /\ Straight(T.space[s.ispace], T.stands[s.ispace], WalkOf(l, in))
      BY <2>2, <2>3 DEF SuperKinds
    <3> DEFINE m == [vec |-> l.vec, shift |-> l.shift + s.offset]
    <3>2. /\ T.stands[s.ispace] \in SUBSET Int
          /\ IsSpace(T.space[s.ispace]) /\ Bounded(T.space[s.ispace], T.stands[s.ispace])
      BY <2>2, <2>3 DEF SuperKinds
    <3>3. /\ s.offset \in Int
          /\ T.space[s] = ShiftedSpace(T.space[s.ispace], s.offset)
          /\ T.stands[s] = Moved(T.stands[s.ispace], s.offset)
          /\ T.leaves[s] = {m}
      BY <2>3, <3>1, ShiftedTables
    <3>4. IsLeaf(m, in)
      BY <3>1, <3>3 DEF IsLeaf
    <3>5. WalkOf(m, in).vec = WalkOf(l, in).vec /\ WalkOf(m, in).shift = WalkOf(l, in).shift + s.offset
      BY DEF WalkOf
    <3> HIDE DEF m
    <3>6. Straight(T.space[s], T.stands[s], WalkOf(m, in))
      BY <3>1, <3>2, <3>3, <3>5, ShiftedStraight
    <3>7. T.stands[s] \in SUBSET Int /\ Bounded(T.space[s], T.stands[s])
      BY <3>2, <3>3, ShiftedBounded DEF Moved
    <3>8. QED BY <3>3, <3>4, <3>6, <3>7 DEF IsStraight
  <2>4. CASE s.kind = "filtered"
    <3> DEFINE c == T.space[s.ispace]
               f == FilteredSpace(c, [i \in c.idx |-> c.idx_to_iter[i] \in s.keep])
               S == T.stands[s.ispace] \intersect s.keep
    <3>1. PICK l \in T.leaves[s.ispace] :
            /\ T.leaves[s.ispace] = {l} /\ IsLeaf(l, in)
            /\ IsVector(WalkOf(l, in).vec)
            /\ Straight(c, T.stands[s.ispace], WalkOf(l, in))
      BY <2>2, <2>4 DEF SuperKinds
    <3>2. T.stands[s.ispace] \in SUBSET Int /\ IsSpace(c) /\ Bounded(c, T.stands[s.ispace])
      BY <2>2, <2>4 DEF SuperKinds
    <3>3. T.space[s] = f /\ T.stands[s] = S /\ T.leaves[s] = {l}
      BY <2>4, <3>1, FilteredTables
    <3>4. Straight(f, S, WalkOf(l, in))
      BY <3>1, <3>2, FilteredStraight
    <3>5. S \in SUBSET Int /\ Bounded(f, S)
      BY <3>2, FilteredBounded
    <3> HIDE DEF f, S
    <3>6. QED BY <3>1, <3>3, <3>4, <3>5 DEF IsStraight
  <2>5. CASE s.kind = "lbound"
    <3> DEFINE b == BoundOf(s.bound, in)
    <3>1. PICK l \in T.leaves[s.ispace] :
            /\ T.leaves[s.ispace] = {l} /\ IsLeaf(l, in)
            /\ IsVector(WalkOf(l, in).vec)
            /\ Straight(T.space[s.ispace], T.stands[s.ispace], WalkOf(l, in))
      BY <2>2, <2>5 DEF SuperKinds
    <3>2. T.stands[s.ispace] \in SUBSET Int /\ Bounded(T.space[s.ispace], T.stands[s.ispace])
      BY <2>2, <2>5 DEF SuperKinds
    <3>3. /\ b \in Int
          /\ T.space[s] = LBoundSpace(T.space[s.ispace], b)
          /\ T.stands[s] = AtLeast(T.stands[s.ispace], b)
          /\ T.leaves[s] = {l}
      BY <2>5, <3>1, LBoundTables
    <3> HIDE DEF b
    <3>4. Straight(T.space[s], T.stands[s], WalkOf(l, in))
      BY <3>1, <3>2, <3>3, LBoundStraight
    <3>5. T.stands[s] \in SUBSET Int /\ Bounded(T.space[s], T.stands[s])
      BY <3>2, <3>3, LBoundBounded DEF AtLeast
    <3>6. QED BY <3>1, <3>3, <3>4, <3>5 DEF IsStraight
  <2>6. QED BY <1>1, <2>1, <2>3, <2>4, <2>5
<1>2. Good = T.trees
  <2>1. T.size \in [T.trees -> Nat]
    BY DEF StructureTables, TreeTables
  <2>2. Good \in SUBSET T.trees
    OBVIOUS
  <2>3. \A s \in T.trees : (\A c \in T.trees : T.size[c] < T.size[s] => c \in Good) => s \in Good
    BY <1>1
  <2> HIDE DEF Good
  <2>4. QED BY <2>1, <2>2, <2>3, SizeInduction
<1>3. QED BY <1>2

LEMMA OneVectorStraight ==
  ASSUME NEW query, NEW T, Compiled(query, T), OneVector(T, query.tree), ZWindow = Int
  PROVE  \E w : StraightQuery(query, w)
<1>1. /\ IsInput(query.in) /\ PassTablesFor(T, query.in) /\ StructureTables(T, query.in)
      /\ query.pred \in T.preds /\ query.tree = T.made[query.pred]
      /\ SpaceOf(query) = T.space[query.tree]
      /\ AnswerOf(query) = T.answer[T.mirror[query.pred]]
      /\ WalksOf(query) = WalksOver(T.leaves[query.tree], query.in)
  BY DEF Compiled, PassTablesFor
<1>2. IsStraight(T.space[query.tree], T.stands[query.tree], T.leaves[query.tree], query.in)
  BY <1>1, StructureStraight DEF OneVector
<1>3. T.stands[query.tree] = T.answer[T.mirror[query.pred]]
  BY <1>1, PassStands DEF Stands
<1>4. PICK l \in T.leaves[query.tree] :
        /\ T.leaves[query.tree] = {l}
        /\ IsLeaf(l, query.in)
        /\ Straight(SpaceOf(query), AnswerOf(query), WalkOf(l, query.in))
  BY <1>1, <1>2, <1>3 DEF IsStraight
<1>5. WalksOf(query) = {WalkOf(l, query.in)}
  BY <1>1, <1>4 DEF WalksOver
<1>6. /\ IsVector(WalkOf(l, query.in).vec) /\ Sorted(WalkOf(l, query.in).vec)
      /\ WalkOf(l, query.in).shift \in Int
  BY <1>1, <1>4 DEF IsLeaf, IsInput, WalkOf
<1>7. Bounded(SpaceOf(query), AnswerOf(query)) /\ AnswerOf(query) \in SUBSET Int
  BY <1>1, <1>2, <1>3 DEF IsStraight
<1>8. QED BY <1>4, <1>5, <1>6, <1>7 DEF StraightQuery

(* A query of one vector under shifts, filters and lower bounds loses no   *)
(* value of its answer, whatever value the loop starts from, and lists at  *)
(* most the cell before the vector besides.                                *)
THEOREM MissedStartLosesNothing ==
  ASSUME ZWindow = Int,
         \A query \in Queries : \E T : Compiled(query, T) /\ OneVector(T, query.tree)
  PROVE  Spec => []StrayRowAtMost
BY OneVectorStraight, StraightMissesNothing DEF AllStraight

-----------------------------------------------------------------------------
(* One family of queries without the tables, the join of two vectors on a  *)
(* range of keys (the query of transform_op and join_op):                  *)
(*                                                                         *)
(*     In(t, a) & In(t, b) & t >= lo & t <= hi                             *)
JoinSpace(query) == InterSpace(VecSpace("a", query.a), VecSpace("b", query.b))
RangeSpace(query) == UBoundSpace(LBoundSpace(JoinSpace(query), query.lo), query.hi)
RangeAnswer(query) ==
  {x \in Keys(query.a) \intersect Keys(query.b) : query.lo <= x /\ x <= query.hi}
JoinWalks(query) == VecWalks("a", query.a) \union VecWalks("b", query.b)

(* Vectors are sorted, and the key the loop starts from is in both.        *)
IsRangeJoin(query) ==
  /\ IsVector(query.a) /\ Sorted(query.a)
  /\ IsVector(query.b) /\ Sorted(query.b)
  /\ query.lo \in Int /\ query.hi \in Int
  /\ \A lb \in RangeSpace(query).lower_bound : Located(query.a, lb) /\ Located(query.b, lb)

LEMMA RangeJoinSound ==
  ASSUME NEW query, IsRangeJoin(query)
  PROVE  /\ Sound(RangeSpace(query), RangeAnswer(query), JoinWalks(query))
         /\ \A lb \in RangeSpace(query).lower_bound : StartsAt(JoinWalks(query), lb)
         /\ OneEach(JoinWalks(query))
<1> DEFINE both == Keys(query.a) \intersect Keys(query.b)
<1>1. Sound(JoinSpace(query), both, JoinWalks(query))
  BY VecSound, InterSound DEF IsRangeJoin, JoinSpace, JoinWalks
<1>2. Sound(RangeSpace(query), AtMost(AtLeast(both, query.lo), query.hi), JoinWalks(query))
  BY <1>1, LBoundSound, UBoundSound DEF IsRangeJoin, RangeSpace
<1>3. AtMost(AtLeast(both, query.lo), query.hi) = RangeAnswer(query)
  <2>1. both \subseteq Int
    BY DEF IsRangeJoin, IsVector, Keys, Cell, Rows
  <2>2. \A x \in both : x >= query.lo <=> query.lo <= x
    BY <2>1 DEF IsRangeJoin
  <2>3. QED BY <2>2 DEF AtMost, AtLeast, RangeAnswer
<1>4. ASSUME NEW lb \in RangeSpace(query).lower_bound
      PROVE  StartsAt(JoinWalks(query), lb)
  <2>1. lb - 0 = lb
    BY <1>2 DEF Sound, Bounded, IsSpace, Optional
  <2>2. QED BY <2>1 DEF IsRangeJoin, StartsAt, JoinWalks, VecWalks
<1>5. OneEach(JoinWalks(query))
  BY DEF OneEach, JoinWalks, VecWalks
<1>6. QED BY <1>2, <1>3, <1>4, <1>5

(* A range join of sorted vectors, started at a key of both, finishes with *)
(* exactly the keys of both that are in the range, in both code paths and  *)
(* for vectors of any length.                                              *)
THEOREM RangeJoinExact ==
  ASSUME \A query \in Queries : /\ IsRangeJoin(query)
                                /\ SpaceOf(query) = RangeSpace(query)
                                /\ AnswerOf(query) = RangeAnswer(query)
                                /\ WalksOf(query) = JoinWalks(query)
  PROVE  Spec => []ResultExact
<1>1. AllLawful
  BY RangeJoinSound, SoundLawful DEF AllLawful, SoundQuery
<1>2. QED BY <1>1, LoopExact

(* A range join reads no row outside its two vectors, and each row of its  *)
(* output has the elements of both at the row's key.                       *)
THEOREM RangeJoinElements ==
  ASSUME \A query \in Queries : /\ IsRangeJoin(query)
                                /\ SpaceOf(query) = RangeSpace(query)
                                /\ AnswerOf(query) = RangeAnswer(query)
                                /\ WalksOf(query) = JoinWalks(query)
  PROVE  Spec => [](ElementsMatch /\ NoStrayRead)
<1>1. AllReadable
  BY RangeJoinSound, SoundReadable DEF AllReadable, SoundQuery
<1>2. (Spec => []ElementsMatch) /\ (Spec => []NoStrayRead)
  BY <1>1, ElementsAreTheIterators, ReadsStayInside
<1>3. QED BY <1>2, PTL
=============================================================================
