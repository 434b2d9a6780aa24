--------------------------- MODULE SessionProofs ----------------------------
(***************************************************************************)
(* A process may compile, run, import and drop in any order: the code it   *)
(* gets is its query's, tables stand while they are shared, what has one   *)
(* owner is freed once and nothing is forgotten but some bitmaps.          *)
(***************************************************************************)
EXTENDS Session, SequenceTheorems, TLAPS

(* A block: its table, what it holds, and the column it is for.            *)
ArrayKinds == {"arrow", "private", "bits", "data"}
SchemaKinds == {"arrowschema", "schema"}
Block == Nat \X (ArrayKinds \union SchemaKinds \union {"index"}) \X Nat

Structures == [release : {"arrow", "reffine", "null"}, owns : SUBSET Block]
Tables == [array : Structures, schema : Structures,
           _index : Nat, index : Nat, op : Nat, filled : Nat]
ArrayBlocks(t) == {t} \X ArrayKinds \X Nat
SchemaBlocks(t) == {t} \X SchemaKinds \X Nat

-----------------------------------------------------------------------------
(* The inductive invariant.                                                *)

(* What the variables hold.  No table is the host's and memman's both.     *)
Typed ==
  /\ _builders \in Seq(Ops) /\ DOMAIN jd \subseteq Names
  /\ tables \in Seq(Tables)
  /\ \A t \in DOMAIN tables : tables[t].index = tables[t]._index
  /\ InUse \subseteq DOMAIN tables /\ host \intersect _tables = {}
  /\ DOMAIN batches \subseteq DOMAIN tables
  /\ status \in {"running", "aborted", "undefined", "exited"}

(* Code that was handed out has the id of its query's builder.             *)
Coded ==
  \A fn \in fns :
    /\ fn.code.op = fn.asked
    /\ fn.code.mem_id \in 0 .. Len(_builders) - 1
    /\ BuilderOf(fn.code.mem_id) = fn.code.op

(* Each table owns blocks of its own, the array others than the schema;    *)
(* one that was imported owns at most its index.                           *)
TablesApart ==
  \A t \in DOMAIN tables :
    /\ tables[t].array.owns \subseteq ArrayBlocks(t)
    /\ tables[t].schema.owns \subseteq SchemaBlocks(t)
    /\ Imported(t) => tables[t].array = Released /\ tables[t].schema = Released

(* A batch has the array of a table that has none any more.                *)
BatchesApart ==
  \A t \in DOMAIN batches :
    /\ Imported(t)
    /\ batches[t] \in Structures
    /\ batches[t].owns \subseteq ArrayBlocks(t)

(* While the process runs, everything with an owner is there.              *)
Standing ==
  Running =>
    /\ \A t \in InUse : Owned(t, tables[t]) \subseteq heap
    /\ \A t \in DOMAIN batches : batches[t].owns \subseteq heap

Inv ==
  /\ Typed
  /\ Coded
  /\ TablesFit
  /\ TablesApart
  /\ BatchesApart
  /\ Standing
  /\ NothingForgotten

-----------------------------------------------------------------------------
(* Facts about tables and blocks.                                          *)

(* To give a sequence a value at the place behind its last is to append.   *)
LEMMA PutNext ==
  ASSUME NEW S, NEW s \in Seq(S), NEW x \in S
  PROVE  With(s, Len(s) + 1, x) = Append(s, x)
<1> DEFINE n == Len(s) + 1
           a == Append(s, x)
<1>1. /\ n \in Nat /\ DOMAIN s = 1 .. n - 1 /\ DOMAIN s \union {n} = 1 .. n
  BY LenProperties
<1>2. /\ a \in Seq(S) /\ Len(a) = n
      /\ \A i \in 1 .. n - 1 : a[i] = s[i]
      /\ a[n] = x
  BY <1>1, AppendProperties
<1>3. a \in [1 .. n -> S]
  BY <1>2, LenProperties
<1>4. a = [i \in 1 .. n |-> IF i = n THEN x ELSE s[i]]
  <2>1. \A i \in 1 .. n : a[i] = IF i = n THEN x ELSE s[i]
    BY <1>1, <1>2
  <2>2. QED BY <1>3, <2>1
<1>5. QED BY <1>1, <1>4 DEF With

(* Every table has its type, the ones in use among them.                   *)
LEMMA TablesTyped ==
  ASSUME Typed
  PROVE  /\ \A t \in DOMAIN tables : tables[t] \in Tables
         /\ InUse \subseteq DOMAIN tables
BY ElementOfSeq, LenProperties DEF Typed

(* Blocks of the parts of a table, and of its batch, are told apart by     *)
(* what they hold.                                                         *)
LEMMA PartsApart ==
  ASSUME NEW t, NEW b
  PROVE  /\ b \in ArrayBlocks(t) => b[1] = t /\ b[2] \in ArrayKinds
         /\ b \in SchemaBlocks(t) => b[1] = t /\ b[2] \in SchemaKinds
         /\ \A k : b \in IndexBlock(t, k) => b[1] = t /\ b[2] = "index" /\ k # 0
BY DEF ArrayBlocks, SchemaBlocks, IndexBlock

(* What a table owns is told from what another, or a batch, owns.          *)
LEMMA OwnersApart ==
  ASSUME Typed, TablesApart, BatchesApart
  PROVE  /\ \A t \in DOMAIN tables : \A b \in Owned(t, tables[t]) : b[1] = t
         /\ \A t \in DOMAIN batches : \A b \in batches[t].owns : b[1] = t /\ b[2] \in ArrayKinds
         /\ \A t \in DOMAIN batches : \A b \in Owned(t, tables[t]) : b[2] = "index"
<1>1. ASSUME NEW t \in DOMAIN tables, NEW b \in Owned(t, tables[t])
      PROVE  b[1] = t
  BY <1>1, PartsApart DEF TablesApart, Owned
<1>2. ASSUME NEW t \in DOMAIN batches, NEW b \in batches[t].owns
      PROVE  b[1] = t /\ b[2] \in ArrayKinds
  BY <1>2, PartsApart DEF BatchesApart
<1>3. ASSUME NEW t \in DOMAIN batches, NEW b \in Owned(t, tables[t])
      PROVE  b[2] = "index"
  <2>1. t \in DOMAIN tables /\ tables[t].array.owns = {} /\ tables[t].schema.owns = {}
    BY <1>3 DEF Typed, BatchesApart, TablesApart, Released, Structure
  <2>2. QED BY <1>3, <2>1, PartsApart DEF Owned
<1>4. QED BY <1>1, <1>2, <1>3

(* While the process runs, whoever is in use can be destroyed: what it     *)
(* owns is there, and has a callback that is one.                          *)
LEMMA Destructible ==
  ASSUME Inv, Running
  PROVE  /\ \A s \in StructuresOf(InUse) : Destructs(s)
         /\ \A t \in DOMAIN batches : Destructs(batches[t])
<1>1. ASSUME NEW t \in InUse
      PROVE  Destructs(tables[t].array) /\ Destructs(tables[t].schema)
  <2>1. tables[t] \in Tables
    BY <1>1, TablesTyped DEF Inv
  <2>2. tables[t].array \in Structures /\ tables[t].schema \in Structures
    BY <2>1 DEF Tables
  <2>3. tables[t].array.owns \subseteq heap /\ tables[t].schema.owns \subseteq heap
    BY <1>1 DEF Inv, Standing, Owned
  <2>4. QED BY <2>2, <2>3 DEF Structures, Destructs
<1>2. ASSUME NEW t \in DOMAIN batches
      PROVE  Destructs(batches[t])
  BY <1>2 DEF Inv, Standing, BatchesApart, Structures, Destructs
<1>3. QED BY <1>1, <1>2 DEF StructuresOf

(* A destruction that goes well frees what the structures and the indexes  *)
(* are, and nothing else.                                                  *)
LEMMA Destroyed ==
  ASSUME NEW S, NEW indexes, NEW then, \A s \in S : Destructs(s), Destroy(S, indexes, then)
  PROVE  /\ heap' = (heap \ (UNION {s.owns : s \in S})) \ indexes
         /\ status' = then
BY DEF Destroy, FreedBy

(* What is in the heap of a process that goes on was forgotten for good or *)
(* has an owner.                                                           *)
LEMMA HeapOwned ==
  ASSUME Inv, Running, NEW b \in heap
  PROVE  \/ b[2] = "bits" /\ b[3] > 0
         \/ \E t \in InUse : b \in Owned(t, tables[t])
         \/ \E t \in DOMAIN batches : b \in batches[t].owns
BY DEF Inv, Running, NothingForgotten, Owners, Forgotten

(* The same after a step, to be shown.                                     *)
LEMMA HeapOwnedNext ==
  ASSUME \A b \in heap' : \/ b[2] = "bits" /\ b[3] > 0
                          \/ \E t \in InUse' : b \in Owned(t, tables'[t])
                          \/ \E t \in DOMAIN batches' : b \in batches'[t].owns
  PROVE  NothingForgotten'
<1>1. \A b \in heap' : \/ b \in Forgotten'
                       \/ b \in UNION {Owned(t, tables'[t]) : t \in InUse'}
                       \/ b \in UNION {batches'[t].owns : t \in DOMAIN batches'}
  BY DEF Forgotten
<1>2. Owners' = (UNION {Owned(t, tables'[t]) : t \in InUse'})
                \union (UNION {batches'[t].owns : t \in DOMAIN batches'})
  BY DEF Owners, Owned, IndexBlock
<1>3. heap' \subseteq Owners' \union Forgotten'
  BY <1>1, <1>2
<1>4. QED BY <1>3 DEF NothingForgotten

-----------------------------------------------------------------------------
(* The initial state and each step.                                        *)

LEMMA InitInv == Init => Inv
<1>1. SUFFICES ASSUME Init PROVE Inv
  OBVIOUS
<1>2. /\ _builders = <<>> /\ tables = <<>> /\ DOMAIN tables = {}
      /\ DOMAIN jd = {} /\ DOMAIN batches = {}
  BY <1>1 DEF Init
<1>3. Typed
  BY <1>1, <1>2, EmptySeq DEF Init, Typed, InUse
<1>4. Coded /\ TablesFit /\ TablesApart /\ BatchesApart
  BY <1>1, <1>2 DEF Init, Coded, TablesFit, TablesApart, BatchesApart
<1>5. Standing /\ NothingForgotten
  BY <1>1, <1>2 DEF Init, Standing, NothingForgotten, InUse
<1>6. QED BY <1>3, <1>4, <1>5 DEF Inv

(* A table is made, for the host or for memman, and its blocks with it.    *)
LEMMA NewTable ==
  ASSUME Inv, Running, NEW x \in Tables, NEW blocks, NEW t, t = Len(tables) + 1,
         tables' = Append(tables, x),
         x.index = x._index, x.op = x.filled, x.array.release # "null",
         x.array.owns \subseteq ArrayBlocks(t), x.schema.owns \subseteq SchemaBlocks(t),
         \/ host' = host \union {t} /\ _tables' = _tables
         \/ host' = host /\ _tables' = _tables \union {t},
         heap' = heap \union blocks, Owned(t, x) \subseteq blocks,
         \A b \in blocks \ Owned(t, x) : b[2] = "bits" /\ b[3] > 0,
         UNCHANGED <<_builders, jd, fns, batches, status>>
  PROVE  Inv'
<1>1. /\ Len(tables) \in Nat /\ DOMAIN tables = 1 .. Len(tables)
      /\ tables' \in Seq(Tables) /\ DOMAIN tables' = DOMAIN tables \union {t}
      /\ \A u \in DOMAIN tables : tables'[u] = tables[u]
      /\ tables'[t] = x /\ t \notin DOMAIN tables
  <2>1. Len(tables) \in Nat /\ DOMAIN tables = 1 .. Len(tables)
    BY LenProperties DEF Inv, Typed
  <2>2. /\ tables' \in Seq(Tables) /\ Len(tables') = Len(tables) + 1
        /\ \A u \in 1 .. Len(tables) : tables'[u] = tables[u]
        /\ tables'[Len(tables) + 1] = x
    BY AppendProperties DEF Inv, Typed
  <2>3. DOMAIN tables' = 1 .. Len(tables')
    BY <2>2, LenProperties
  <2>4. QED BY <2>1, <2>2, <2>3
<1>2. InUse' = InUse \union {t} /\ InUse \subseteq DOMAIN tables /\ DOMAIN batches \subseteq DOMAIN tables
  BY DEF InUse, Inv, Typed
<1>3. Typed'
  <2>1. host' \intersect _tables' = {}
    BY <1>1, <1>2 DEF InUse, Inv, Typed
  <2>2. \A u \in DOMAIN tables' : tables'[u].index = tables'[u]._index
    BY <1>1 DEF Inv, Typed
  <2>3. QED BY <1>1, <1>2, <2>1, <2>2 DEF Inv, Typed
<1>4. Coded'
  BY DEF Inv, Coded, BuilderOf
<1>5. TablesFit'
  BY <1>1 DEF Inv, TablesFit
<1>6. TablesApart'
  BY <1>1 DEF Inv, TablesApart, Imported
<1>7. BatchesApart'
  BY <1>1, <1>2 DEF Inv, BatchesApart, Imported
<1>8. Standing'
  <2>1. \A u \in InUse : Owned(u, tables'[u]) = Owned(u, tables[u])
    BY <1>1, <1>2
  <2>2. \A u \in InUse' : Owned(u, tables'[u]) \subseteq heap'
    BY <1>1, <1>2, <2>1 DEF Inv, Standing
  <2>3. \A u \in DOMAIN batches' : batches'[u].owns \subseteq heap'
    BY DEF Inv, Standing
  <2>4. QED BY <2>2, <2>3 DEF Standing, Owned, IndexBlock
<1>9. NothingForgotten'
  <2>1. ASSUME NEW b \in heap'
        PROVE  \/ b[2] = "bits" /\ b[3] > 0
               \/ \E u \in InUse' : b \in Owned(u, tables'[u])
               \/ \E u \in DOMAIN batches' : b \in batches'[u].owns
    <3>1. CASE b \in heap
      BY <3>1, <1>1, <1>2, HeapOwned
    <3>2. CASE b \in blocks
      BY <3>2, <1>1, <1>2
    <3>3. QED BY <2>1, <3>1, <3>2
  <2>2. QED BY <2>1, HeapOwnedNext
<1>10. QED BY <1>3, <1>4, <1>5, <1>6, <1>7, <1>8, <1>9 DEF Inv

(* load_arrow_file.                                                        *)
LEMMA LoadInv ==
  ASSUME Inv, Load
  PROVE  Inv'
<1> DEFINE t == Len(tables) + 1
           array == Structure("arrow", {<<t, "arrow", 0>>})
           schema == Structure("arrow", {<<t, "arrowschema", 0>>})
           x == ArrowTable2(array, schema, 0, 0)
<1>1. /\ Running /\ tables' = Append(tables, x)
      /\ host' = host \union {t}
      /\ heap' = heap \union (array.owns \union schema.owns)
      /\ UNCHANGED <<_builders, _tables, jd, fns, batches, status>>
  BY DEF Load
<1>2. t \in Nat
  BY LenProperties DEF Inv, Typed
<1>3. /\ {<<t, "arrow", 0>>} \subseteq ArrayBlocks(t)
      /\ {<<t, "arrowschema", 0>>} \subseteq SchemaBlocks(t)
      /\ <<t, "arrow", 0>> \in Block /\ <<t, "arrowschema", 0>> \in Block
  BY <1>2 DEF ArrayBlocks, SchemaBlocks, ArrayKinds, SchemaKinds, Block
<1>4. /\ array \in Structures /\ array.release # "null" /\ array.owns \subseteq ArrayBlocks(t)
      /\ schema \in Structures /\ schema.owns \subseteq SchemaBlocks(t)
  BY <1>3 DEF Structure, Structures
<1> HIDE DEF t, array, schema
<1>5. /\ x \in Tables /\ x.index = x._index /\ x.op = x.filled
      /\ x.array = array /\ x.schema = schema
      /\ Owned(t, x) = array.owns \union schema.owns
  BY <1>4 DEF ArrowTable2, Tables, Owned, IndexBlock
<1> HIDE DEF x
<1>6. t = Len(tables) + 1
  BY DEF t
<1>7. /\ Owned(t, x) \subseteq array.owns \union schema.owns
      /\ \A b \in (array.owns \union schema.owns) \ Owned(t, x) : b[2] = "bits" /\ b[3] > 0
  BY <1>5
<1>8. tables' = Append(tables, x)
  BY <1>1 DEF x
<1>9. QED BY <1>1, <1>4, <1>5, <1>6, <1>7, <1>8, NewTable

(* What has been made of a query's vector.                                 *)
LEMMA VectorTyped ==
  ASSUME NEW t \in Nat, NEW op \in Nat
  PROVE  /\ VectorArray(t, op) \in Structures /\ VectorSchema(t, op) \in Structures
         /\ VectorArray(t, op).owns \subseteq ArrayBlocks(t)
         /\ VectorSchema(t, op).owns \subseteq SchemaBlocks(t)
         /\ VectorArray(t, op).release = "reffine"
<1>1. /\ VectorArray(t, op).owns \subseteq ArrayBlocks(t)
      /\ VectorSchema(t, op).owns \subseteq SchemaBlocks(t)
  BY DEF VectorArray, VectorSchema, Structure, ArrayBlocks, SchemaBlocks, ArrayKinds, SchemaKinds
<1>2. ArrayBlocks(t) \subseteq Block /\ SchemaBlocks(t) \subseteq Block
  BY DEF ArrayBlocks, SchemaBlocks, Block
<1>3. /\ VectorArray(t, op) = [release |-> "reffine", owns |-> VectorArray(t, op).owns]
      /\ VectorSchema(t, op) = [release |-> "reffine", owns |-> VectorSchema(t, op).owns]
  BY DEF VectorArray, VectorSchema, Structure
<1>4. QED BY <1>1, <1>2, <1>3 DEF Structures

(* finalize_vector leaves the array its callback and forgets but bitmaps.  *)
LEMMA FinalizedBlocks ==
  ASSUME NEW t, NEW op \in Nat, NEW nulls \in BOOLEAN, NEW array \in Structures
  PROVE  LET done == Finalized(t, array, op, nulls)
         IN  /\ done \in Structures /\ done.release = array.release
             /\ done.owns \subseteq array.owns
             /\ \A b \in array.owns \ done.owns : b[2] = "bits" /\ b[3] > 0
<1> DEFINE bits == {<<t, "bits", col>> : col \in 1 .. op}
<1>1. \A b \in bits : b[2] = "bits" /\ b[3] > 0
  OBVIOUS
<1>2. CASE nulls
  BY <1>2 DEF Finalized
<1>3. CASE ~nulls
  <2>1. Finalized(t, array, op, nulls) = [array EXCEPT !.owns = array.owns \ bits]
    BY <1>3 DEF Finalized
  <2> HIDE DEF bits
  <2>2. QED BY <1>1, <2>1 DEF Structures
<1>4. QED BY <1>2, <1>3

(* make_vector and the run that fills what it made.                        *)
LEMMA RunInv ==
  ASSUME Inv, NEW fn \in fns, Run(fn)
  PROVE  Inv'
<1> DEFINE t == TableFor(fn.code.mem_id)
           op == BuilderOf(fn.code.mem_id)
           made == VectorArray(t, op)
           schema == VectorSchema(t, op)
<1>1. PICK nulls \in BOOLEAN :
        /\ Running
        /\ tables' = With(tables, t, ArrowTable2(Finalized(t, made, op, nulls), schema, op, fn.code.op))
        /\ _tables' = _tables \union {t}
        /\ heap' = Kept(made.owns \union schema.owns)
        /\ UNCHANGED <<_builders, jd, fns, host, batches, status>>
  BY DEF Run
<1> DEFINE done == Finalized(t, made, op, nulls)
           x == ArrowTable2(done, schema, op, fn.code.op)
<1>2. t = Len(tables) + 1 /\ t \in Nat
  BY LenProperties DEF Inv, Typed, TableFor
<1>3. op = fn.code.op /\ op \in Nat
  <2>1. fn.code.mem_id + 1 \in 1 .. Len(_builders) /\ op = fn.code.op
    BY LenProperties DEF Inv, Typed, Coded
  <2>2. _builders[fn.code.mem_id + 1] \in Ops
    BY <2>1, ElementOfSeq DEF Inv, Typed
  <2>3. QED BY <2>1, <2>2, OpsAssumption DEF BuilderOf
<1>4. /\ made \in Structures /\ schema \in Structures /\ made.release = "reffine"
      /\ made.owns \subseteq ArrayBlocks(t) /\ schema.owns \subseteq SchemaBlocks(t)
  BY <1>2, <1>3, VectorTyped
<1>5. /\ done \in Structures /\ done.release = "reffine" /\ done.owns \subseteq made.owns
      /\ \A b \in made.owns \ done.owns : b[2] = "bits" /\ b[3] > 0
  BY <1>3, <1>4, FinalizedBlocks
<1> HIDE DEF t, op, made, schema, done
<1>6. /\ x \in Tables /\ x.index = x._index /\ x.op = x.filled
      /\ x.array = done /\ x.schema = schema
      /\ Owned(t, x) = done.owns \union schema.owns
  BY <1>3, <1>4, <1>5 DEF ArrowTable2, Tables, Owned, IndexBlock
<1>7. tables' = Append(tables, x)
  BY <1>1, <1>2, <1>6, PutNext DEF Inv, Typed, t, op, made, schema, done
<1>8. heap' = heap \union (made.owns \union schema.owns)
  BY <1>1 DEF Kept, t, op, made, schema
<1>9. _tables' = _tables \union {t}
  BY <1>1 DEF t
<1> HIDE DEF x
<1>10. Owned(t, x) \subseteq made.owns \union schema.owns
  BY <1>5, <1>6
<1>11. \A b \in (made.owns \union schema.owns) \ Owned(t, x) : b[2] = "bits" /\ b[3] > 0
  BY <1>5, <1>6
<1>12. x.array.release # "null" /\ x.array.owns \subseteq ArrayBlocks(t) /\ x.schema.owns \subseteq SchemaBlocks(t)
  BY <1>4, <1>5, <1>6
<1>13. QED
  BY <1>1, <1>2, <1>6, <1>7, <1>8, <1>9, <1>10, <1>11, <1>12, NewTable

(* A table changes its index; what the host and memman share stays as is.  *)
LEMMA BuildIndexInv ==
  ASSUME Inv, NEW t \in InUse, ~Imported(t), BuildIndex(t)
  PROVE  Inv'
<1> DEFINE k == tables[t]._index + 1
           x == Indexed(tables[t], k)
<1>1. /\ Running /\ tables' = [tables EXCEPT ![t] = x]
      /\ heap' = (heap \ IndexBlock(t, tables[t]._index)) \union IndexBlock(t, k)
      /\ UNCHANGED <<_builders, _tables, jd, fns, host, batches, status>>
  BY DEF BuildIndex, Indexed
<1>2. /\ t \in DOMAIN tables /\ tables[t] \in Tables /\ k \in Nat /\ InUse' = InUse
      /\ InUse \subseteq DOMAIN tables
  <2>1. t \in DOMAIN tables /\ tables[t] \in Tables /\ InUse \subseteq DOMAIN tables
    BY TablesTyped DEF Inv
  <2>2. QED BY <2>1, <1>1 DEF Tables, InUse
<1>3. /\ x \in Tables /\ x._index = k /\ x.index = k /\ x.op = tables[t].op
      /\ x.filled = tables[t].filled /\ x.array = tables[t].array /\ x.schema = tables[t].schema
  BY <1>2 DEF Indexed, Tables
<1> HIDE DEF x, k
<1>4. /\ tables' \in Seq(Tables) /\ DOMAIN tables' = DOMAIN tables /\ tables'[t] = x
      /\ \A u \in DOMAIN tables : u # t => tables'[u] = tables[u]
  BY <1>1, <1>2, <1>3, ExceptSeq, LenProperties DEF Inv, Typed
<1>5. \A u \in DOMAIN tables :
        /\ tables'[u].array = tables[u].array /\ tables'[u].schema = tables[u].schema
        /\ tables'[u].op = tables[u].op /\ tables'[u].filled = tables[u].filled
        /\ Imported(u)' <=> Imported(u)
  BY <1>3, <1>4 DEF Imported
<1>6. Typed' /\ Coded' /\ TablesFit'
  <2>1. Typed'
    BY <1>1, <1>2, <1>3, <1>4 DEF Inv, Typed
  <2>2. Coded'
    BY <1>1 DEF Inv, Coded, BuilderOf
  <2>3. TablesFit'
    BY <1>4, <1>5 DEF Inv, TablesFit
  <2>4. QED BY <2>1, <2>2, <2>3
<1>7. TablesApart' /\ BatchesApart'
  <2>1. TablesApart'
    BY <1>4, <1>5 DEF Inv, TablesApart
  <2>2. DOMAIN batches \subseteq DOMAIN tables
    BY DEF Inv, Typed
  <2>3. BatchesApart'
    BY <1>1, <1>5, <2>2 DEF Inv, BatchesApart
  <2>4. QED BY <2>1, <2>3
<1>8. \A u \in InUse \ {t} : Owned(u, tables'[u]) = Owned(u, tables[u])
  BY <1>2, <1>4
<1>9. /\ Owned(t, tables'[t]) = tables[t].array.owns \union tables[t].schema.owns \union IndexBlock(t, k)
      /\ Owned(t, tables[t]) = tables[t].array.owns \union tables[t].schema.owns
                               \union IndexBlock(t, tables[t]._index)
  BY <1>3, <1>4 DEF Owned
<1>10. /\ \A b \in tables[t].array.owns \union tables[t].schema.owns : b[2] # "index"
       /\ \A b \in IndexBlock(t, tables[t]._index) : b[1] = t /\ b[2] = "index"
  BY <1>2, PartsApart DEF Inv, TablesApart, ArrayKinds, SchemaKinds
<1>11. Standing'
  <2>1. ASSUME NEW u \in InUse
        PROVE  Owned(u, tables'[u]) \subseteq heap'
    <3>1. Owned(u, tables[u]) \subseteq heap
      BY <1>1 DEF Inv, Standing
    <3>2. CASE u = t
      BY <3>1, <3>2, <1>1, <1>9, <1>10
    <3>3. CASE u # t
      BY <3>1, <3>3, <1>1, <1>2, <1>8, <1>10, OwnersApart DEF Inv
    <3>4. QED BY <3>2, <3>3
  <2>2. ASSUME NEW u \in DOMAIN batches
        PROVE  batches[u].owns \subseteq heap'
    BY <1>1, <1>10, OwnersApart DEF Inv, Standing, ArrayKinds
  <2>3. \A u \in InUse' : Owned(u, tables[u])' \subseteq heap'
    BY <2>1, <1>2 DEF Owned, IndexBlock
  <2>4. QED BY <2>2, <2>3, <1>1 DEF Standing
<1>12. NothingForgotten'
  <2>1. ASSUME NEW b \in heap'
        PROVE  \/ b[2] = "bits" /\ b[3] > 0
               \/ \E u \in InUse' : b \in Owned(u, tables'[u])
               \/ \E u \in DOMAIN batches' : b \in batches'[u].owns
    <3>1. CASE b \in IndexBlock(t, k)
      BY <3>1, <1>2, <1>9
    <3>2. CASE b \in heap /\ b \notin IndexBlock(t, tables[t]._index)
      <4>1. CASE b \in Owned(t, tables[t])
        BY <4>1, <3>2, <1>2, <1>9
      <4>2. CASE b \notin Owned(t, tables[t])
        BY <4>2, <3>2, <1>1, <1>2, <1>8, HeapOwned
      <4>3. QED BY <4>1, <4>2
    <3>3. QED BY <3>1, <3>2, <2>1, <1>1
  <2>2. QED BY <2>1, HeapOwnedNext
<1>13. QED BY <1>6, <1>7, <1>11, <1>12 DEF Inv

(* Arrow takes the array of a table over and is done with the schema.      *)
LEMMA ImportInv ==
  ASSUME Inv, NEW t \in InUse, ~Imported(t), Import(t)
  PROVE  Inv'
<1> DEFINE x == [tables[t] EXCEPT !.array = Released, !.schema = Released]
<1>1. /\ Running /\ tables' = [tables EXCEPT ![t] = x]
      /\ batches' = With(batches, t, tables[t].array)
      /\ heap' = heap \ tables[t].schema.owns
      /\ UNCHANGED <<_builders, _tables, jd, fns, host, status>>
  BY DEF Import, FreedBy
<1>2. /\ t \in DOMAIN tables /\ tables[t] \in Tables /\ InUse' = InUse
      /\ InUse \subseteq DOMAIN tables
  BY <1>1, TablesTyped DEF Inv, InUse
<1>3. /\ x \in Tables /\ x._index = tables[t]._index /\ x.index = tables[t].index
      /\ x.op = tables[t].op /\ x.filled = tables[t].filled
      /\ x.array = Released /\ x.schema = Released
  BY <1>2 DEF Tables, Structures, Released, Structure
<1> HIDE DEF x
<1>4. /\ tables' \in Seq(Tables) /\ DOMAIN tables' = DOMAIN tables /\ tables'[t] = x
      /\ \A u \in DOMAIN tables : u # t => tables'[u] = tables[u]
  BY <1>1, <1>2, <1>3, ExceptSeq, LenProperties DEF Inv, Typed
<1>5. /\ t \notin DOMAIN batches /\ DOMAIN batches \subseteq DOMAIN tables
      /\ DOMAIN batches' = DOMAIN batches \union {t}
      /\ batches'[t] = tables[t].array
      /\ \A u \in DOMAIN batches : batches'[u] = batches[u]
  BY <1>1 DEF Inv, Typed, BatchesApart, With
<1>6. Released.owns = {} /\ Released.release = "null"
  BY DEF Released, Structure
<1>7. Typed' /\ Coded' /\ TablesFit'
  <2>1. Typed'
    BY <1>1, <1>2, <1>3, <1>4, <1>5 DEF Inv, Typed
  <2>2. Coded'
    BY <1>1 DEF Inv, Coded, BuilderOf
  <2>3. TablesFit'
    BY <1>3, <1>4 DEF Inv, TablesFit
  <2>4. QED BY <2>1, <2>2, <2>3
<1>8. TablesApart'
  BY <1>3, <1>4, <1>6 DEF Inv, TablesApart, Imported
<1>9. BatchesApart'
  <2>1. tables[t].array \in Structures /\ tables[t].array.owns \subseteq ArrayBlocks(t)
    BY <1>2 DEF Tables, Inv, TablesApart
  <2>2. QED BY <1>3, <1>4, <1>5, <1>6, <2>1 DEF Inv, BatchesApart, Imported
<1>10. /\ Owned(t, tables'[t]) = IndexBlock(t, tables[t]._index)
       /\ Owned(t, tables[t]) = tables[t].array.owns \union tables[t].schema.owns
                                \union IndexBlock(t, tables[t]._index)
       /\ \A u \in InUse \ {t} : Owned(u, tables'[u]) = Owned(u, tables[u])
  BY <1>2, <1>3, <1>4, <1>6 DEF Owned
<1>11. /\ \A b \in tables[t].schema.owns : b[1] = t /\ b[2] \in SchemaKinds
       /\ \A b \in tables[t].array.owns : b[1] = t /\ b[2] \in ArrayKinds
       /\ \A b \in IndexBlock(t, tables[t]._index) : b[2] = "index"
  BY <1>2, PartsApart DEF Inv, TablesApart
<1>12. Standing'
  <2>1. \A u \in InUse : Owned(u, tables[u]) \subseteq heap
    BY <1>1 DEF Inv, Standing
  <2>2. ASSUME NEW u \in InUse
        PROVE  Owned(u, tables'[u]) \subseteq heap'
    <3>1. CASE u = t
      BY <2>1, <3>1, <1>1, <1>10, <1>11 DEF SchemaKinds
    <3>2. CASE u # t
      BY <2>1, <3>2, <1>1, <1>2, <1>10, <1>11, OwnersApart DEF Inv
    <3>3. QED BY <3>1, <3>2
  <2>3. ASSUME NEW u \in DOMAIN batches'
        PROVE  batches'[u].owns \subseteq heap'
    <3>1. CASE u = t
      BY <2>1, <3>1, <1>1, <1>5, <1>10, <1>11 DEF SchemaKinds, ArrayKinds
    <3>2. CASE u # t
      BY <2>3, <3>2, <1>1, <1>5, <1>11, OwnersApart DEF Inv, Standing
    <3>3. QED BY <3>1, <3>2
  <2>4. \A u \in InUse' : Owned(u, tables[u])' \subseteq heap'
    BY <2>2, <1>2 DEF Owned, IndexBlock
  <2>5. QED BY <2>3, <2>4 DEF Standing
<1>13. NothingForgotten'
  <2>1. ASSUME NEW b \in heap'
        PROVE  \/ b[2] = "bits" /\ b[3] > 0
               \/ \E u \in InUse' : b \in Owned(u, tables'[u])
               \/ \E u \in DOMAIN batches' : b \in batches'[u].owns
    <3>1. b \in heap /\ b \notin tables[t].schema.owns
      BY <2>1, <1>1
    <3>2. CASE b \in Owned(t, tables[t])
      BY <3>1, <3>2, <1>2, <1>5, <1>10
    <3>3. CASE b \notin Owned(t, tables[t])
      BY <3>1, <3>3, <1>1, <1>2, <1>5, <1>10, HeapOwned
    <3>4. QED BY <3>2, <3>3
  <2>2. QED BY <2>1, HeapOwnedNext
<1>14. QED BY <1>7, <1>8, <1>9, <1>12, <1>13 DEF Inv

(* The last reference to a batch is gone, and nobody else had its columns. *)
LEMMA DropBatchInv ==
  ASSUME Inv, NEW t \in DOMAIN batches, DropBatch(t)
  PROVE  Inv' /\ status' = status
<1>1. /\ Running /\ Destroy({batches[t]}, {}, status)
      /\ batches' = [u \in DOMAIN batches \ {t} |-> batches[u]]
      /\ UNCHANGED <<_builders, _tables, jd, fns, tables, host>>
  BY DEF DropBatch
<1>2. heap' = heap \ batches[t].owns /\ status' = status
  BY <1>1, Destructible, Destroyed
<1>3. /\ DOMAIN batches' = DOMAIN batches \ {t}
      /\ \A u \in DOMAIN batches' : batches'[u] = batches[u]
      /\ InUse' = InUse
      /\ \A u : Owned(u, tables'[u]) = Owned(u, tables[u])
  BY <1>1 DEF InUse
<1>4. Typed' /\ Coded' /\ TablesFit' /\ TablesApart'
  BY <1>1, <1>2, <1>3 DEF Inv, Typed, Coded, BuilderOf, TablesFit, TablesApart, Imported
<1>5. BatchesApart'
  BY <1>1, <1>3 DEF Inv, BatchesApart, Imported
<1>6. Standing'
  <2>1. ASSUME NEW u \in InUse
        PROVE  Owned(u, tables'[u]) \subseteq heap'
    <3>1. Owned(u, tables[u]) \subseteq heap
      BY <1>1 DEF Inv, Standing
    <3>2. \A b \in Owned(u, tables[u]) : b[1] = u /\ (u \in DOMAIN batches => b[2] = "index")
      BY OwnersApart, TablesTyped DEF Inv
    <3>3. \A b \in batches[t].owns : b[1] = t /\ b[2] # "index"
      BY OwnersApart DEF Inv, ArrayKinds
    <3>4. QED BY <3>1, <3>2, <3>3, <1>2, <1>3
  <2>2. ASSUME NEW u \in DOMAIN batches'
        PROVE  batches'[u].owns \subseteq heap'
    BY <1>1, <1>2, <1>3, OwnersApart DEF Inv, Standing
  <2>3. \A u \in InUse' : Owned(u, tables[u])' \subseteq heap'
    BY <2>1, <1>3 DEF Owned, IndexBlock
  <2>4. QED BY <2>2, <2>3 DEF Standing
<1>7. NothingForgotten'
  BY <1>1, <1>2, <1>3, HeapOwned, HeapOwnedNext
<1>8. QED BY <1>2, <1>4, <1>5, <1>6, <1>7 DEF Inv

(* The host lets go of a table: neither memman nor a batch has its blocks. *)
LEMMA DropTableInv ==
  ASSUME Inv, NEW t \in host, DropTable(t)
  PROVE  Inv' /\ status' = status
<1>1. /\ Running /\ Destroy(StructuresOf({t}), IndexesOf({t}), status)
      /\ host' = host \ {t}
      /\ UNCHANGED <<_builders, _tables, jd, fns, tables, batches>>
  BY DEF DropTable
<1>2. /\ t \in InUse /\ t \in DOMAIN tables /\ t \notin _tables
      /\ InUse' = InUse \ {t} /\ InUse \subseteq DOMAIN tables
  BY <1>1, TablesTyped DEF Inv, Typed, InUse
<1>3. /\ StructuresOf({t}) = {tables[t].array, tables[t].schema}
      /\ IndexesOf({t}) = IndexBlock(t, tables[t]._index)
  BY DEF StructuresOf, IndexesOf
<1>4. heap' = heap \ Owned(t, tables[t]) /\ status' = status
  <2>1. \A s \in StructuresOf({t}) : Destructs(s)
    BY <1>1, <1>2, Destructible DEF StructuresOf
  <2>2. /\ heap' = (heap \ (UNION {s.owns : s \in StructuresOf({t})})) \ IndexesOf({t})
        /\ status' = status
    BY <1>1, <2>1, Destroyed
  <2>3. UNION {s.owns : s \in {tables[t].array, tables[t].schema}}
          = tables[t].array.owns \union tables[t].schema.owns
    OBVIOUS
  <2>4. QED BY <1>3, <2>2, <2>3 DEF Owned
<1>5. /\ \A b \in Owned(t, tables[t]) : b[1] = t /\ (t \in DOMAIN batches => b[2] = "index")
      /\ \A u \in DOMAIN batches : \A b \in batches[u].owns : b[1] = u /\ b[2] # "index"
      /\ \A u \in InUse : \A b \in Owned(u, tables[u]) : b[1] = u
  BY <1>2, OwnersApart DEF Inv, ArrayKinds
<1>6. \A u : Owned(u, tables'[u]) = Owned(u, tables[u])
  BY <1>1
<1>7. Typed' /\ Coded' /\ TablesFit' /\ TablesApart' /\ BatchesApart'
  <2>1. Typed'
    BY <1>1, <1>2, <1>4 DEF Inv, Typed
  <2>2. QED
    BY <1>1, <2>1 DEF Inv, Coded, BuilderOf, TablesFit, TablesApart, BatchesApart, Imported
<1>8. Standing'
  <2>1. \A u \in InUse' : Owned(u, tables'[u]) \subseteq heap'
    BY <1>1, <1>2, <1>4, <1>5, <1>6 DEF Inv, Standing
  <2>2. \A u \in DOMAIN batches' : batches'[u].owns \subseteq heap'
    BY <1>1, <1>4, <1>5 DEF Inv, Standing
  <2>3. \A u \in InUse' : Owned(u, tables[u])' \subseteq heap'
    BY <2>1 DEF Owned, IndexBlock
  <2>4. QED BY <2>2, <2>3 DEF Standing
<1>9. NothingForgotten'
  BY <1>1, <1>2, <1>4, <1>6, HeapOwned, HeapOwnedNext
<1>10. QED BY <1>4, <1>7, <1>8, <1>9 DEF Inv

(* main returns, and every owner with it.                                  *)
LEMMA ExitInv ==
  ASSUME Inv, Exit
  PROVE  Inv' /\ status' = "exited"
<1> DEFINE S == StructuresOf(InUse) \union {batches[t] : t \in DOMAIN batches}
<1>1. /\ Running /\ Destroy(S, IndexesOf(InUse), "exited")
      /\ host' = {} /\ _tables' = {} /\ batches' = <<>>
      /\ UNCHANGED <<_builders, jd, fns, tables>>
  BY DEF Exit
<1>2. /\ heap' = (heap \ (UNION {s.owns : s \in S})) \ IndexesOf(InUse)
      /\ status' = "exited"
  <2>1. \A s \in S : Destructs(s)
    BY <1>1, Destructible
  <2> HIDE DEF S
  <2>2. QED BY <1>1, <2>1, Destroyed
<1>3. InUse' = {} /\ DOMAIN batches' = {}
  BY <1>1 DEF InUse
<1>4. Typed' /\ Coded' /\ TablesFit' /\ TablesApart' /\ BatchesApart'
  <2>1. Typed'
    BY <1>1, <1>2, <1>3 DEF Inv, Typed
  <2>2. QED
    BY <1>1, <1>3, <2>1 DEF Inv, Coded, BuilderOf, TablesFit, TablesApart, BatchesApart, Imported
<1>5. Standing'
  BY <1>2 DEF Standing, Running
<1>6. NothingForgotten'
  <2>1. ASSUME NEW b \in heap'
        PROVE  b[2] = "bits" /\ b[3] > 0
    <3>1. \A t \in InUse : b \notin Owned(t, tables[t])
      <4>1. ASSUME NEW t \in InUse
            PROVE  /\ tables[t].array \in S /\ tables[t].schema \in S
                   /\ IndexBlock(t, tables[t]._index) \subseteq IndexesOf(InUse)
        BY DEF StructuresOf, IndexesOf
      <4>2. QED BY <4>1, <2>1, <1>2 DEF Owned
    <3>2. \A t \in DOMAIN batches : b \notin batches[t].owns
      BY <2>1, <1>2
    <3>3. b \in heap
      BY <2>1, <1>2
    <3>4. QED BY <1>1, <3>1, <3>2, <3>3, HeapOwned
  <2>2. QED BY <2>1, HeapOwnedNext
<1>7. QED BY <1>2, <1>4, <1>5, <1>6 DEF Inv

(* A process that ends without freeing anything.                           *)
LEMMA EndsInv ==
  ASSUME Inv, status' \in {"aborted", "undefined"},
         UNCHANGED <<_builders, _tables, jd, fns, tables, host, batches>>
  PROVE  Inv'
<1>1. Typed'
  BY DEF Inv, Typed, InUse
<1>2. Coded' /\ TablesFit' /\ TablesApart' /\ BatchesApart'
  BY DEF Inv, Coded, BuilderOf, TablesFit, TablesApart, BatchesApart, Imported
<1>3. Standing' /\ NothingForgotten'
  BY DEF Standing, NothingForgotten, Running
<1>4. QED BY <1>1, <1>2, <1>3 DEF Inv

(* A builder more leaves every id in the code at the query it was for.     *)
LEMMA BuildersGrow ==
  ASSUME Inv, NEW op \in Ops, AddBuilder(op)
  PROVE  /\ _builders' \in Seq(Ops) /\ Len(_builders') = Len(_builders) + 1
         /\ Len(_builders) \in Nat
         /\ \A id \in 0 .. Len(_builders) - 1 : BuilderOf(id)' = BuilderOf(id)
         /\ _builders'[Len(_builders) + 1] = op
<1>1. _builders \in Seq(Ops) /\ _builders' = Append(_builders, op) /\ Len(_builders) \in Nat
  BY LenProperties DEF Inv, Typed, AddBuilder
<1>2. /\ _builders' \in Seq(Ops) /\ Len(_builders') = Len(_builders) + 1
      /\ \A i \in 1 .. Len(_builders) : _builders'[i] = _builders[i]
      /\ _builders'[Len(_builders) + 1] = op
  BY <1>1, AppendProperties
<1>3. QED BY <1>1, <1>2 DEF BuilderOf

(* A builder more and nothing else: tables and memory are as they were.    *)
LEMMA CompileKeeps ==
  ASSUME Inv, NEW op \in Ops, AddBuilder(op), status' \in {status, "aborted"}, Running,
         DOMAIN jd' \subseteq Names,
         \A fn \in fns' \ fns : fn.code.op = fn.asked /\ fn.code.op = op /\ fn.code.mem_id = mem_id,
         UNCHANGED <<_tables, tables, host, batches, heap>>
  PROVE  Inv'
<1>1. Typed'
  BY BuildersGrow DEF Inv, Typed, InUse
<1>2. Coded'
  <2>1. ASSUME NEW fn \in fns'
        PROVE  /\ fn.code.op = fn.asked
               /\ fn.code.mem_id \in 0 .. Len(_builders') - 1
               /\ BuilderOf(fn.code.mem_id)' = fn.code.op
    <3>1. CASE fn \in fns
      BY <3>1, BuildersGrow DEF Inv, Coded
    <3>2. CASE fn \notin fns
      BY <2>1, <3>2, BuildersGrow DEF mem_id, BuilderOf
    <3>3. QED BY <3>1, <3>2
  <2>2. QED BY <2>1 DEF Coded, BuilderOf
<1>3. TablesFit' /\ TablesApart' /\ BatchesApart'
  BY DEF Inv, TablesFit, TablesApart, BatchesApart, Imported
<1>4. \A t : Owned(t, tables[t])' = Owned(t, tables[t])
  BY DEF Owned, IndexBlock
<1>5. Standing'
  BY <1>4 DEF Inv, Standing, Running, InUse
<1>6. NothingForgotten'
  BY HeapOwned, HeapOwnedNext DEF InUse
<1>7. QED BY <1>1, <1>2, <1>3, <1>5, <1>6 DEF Inv

(* compile_op: the code Lookup finds is the code that was just added.      *)
LEMMA CompileInv ==
  ASSUME Inv, NEW name \in Names, NEW op \in Ops,
         Compile(name, op) \/ CompileTwice(name, op) \/ CompileFails(op)
  PROVE  Inv'
<1>1. CASE Compile(name, op)
  <2> DEFINE code == [op |-> op, mem_id |-> mem_id]
  <2>1. /\ Running /\ AddBuilder(op) /\ name \notin DOMAIN jd /\ jd' = With(jd, name, code)
        /\ fns' = fns \union {[asked |-> op, code |-> jd'[name]]}
        /\ UNCHANGED <<_tables, tables, host, batches, heap, status>>
    BY <1>1 DEF Compile, AddModule
  <2>2. DOMAIN jd' \subseteq Names /\ jd'[name] = code
    BY <2>1 DEF With, Inv, Typed
  <2>3. QED BY <2>1, <2>2, CompileKeeps
<1>2. CASE CompileTwice(name, op)
  BY <1>2, CompileKeeps DEF CompileTwice, Inv, Typed
<1>3. CASE CompileFails(op)
  BY <1>3, CompileKeeps DEF CompileFails, Inv, Typed, Running
<1>4. QED BY <1>1, <1>2, <1>3

(* Every step keeps the invariant, and what is in it.                      *)
LEMMA NextInv == Inv /\ [Next]_vars => Inv'
<1>1. SUFFICES ASSUME Inv, [Next]_vars PROVE Inv'
  OBVIOUS
<1>2. CASE Load
  BY <1>1, <1>2, LoadInv
<1>3. CASE LoadFails
  <2>1. status' \in {"aborted", "undefined"}
    BY <1>3 DEF LoadFails, Destroy
  <2>2. QED BY <1>1, <1>3, <2>1, EndsInv DEF LoadFails
<1>4. CASE Exit
  BY <1>1, <1>4, ExitInv
<1>5. ASSUME NEW t \in InUse, ~Imported(t), BuildIndex(t) \/ Import(t)
      PROVE  Inv'
  BY <1>1, <1>5, BuildIndexInv, ImportInv
<1>6. ASSUME NEW name \in Names, NEW op \in Ops, Compile(name, op) \/ CompileTwice(name, op)
      PROVE  Inv'
  BY <1>1, <1>6, CompileInv
<1>7. ASSUME NEW op \in Ops, CompileFails(op)
      PROVE  Inv'
  BY <1>1, <1>7, CompileKeeps DEF CompileFails, Inv, Typed, Running
<1>8. ASSUME NEW fn \in fns, Run(fn)
      PROVE  Inv'
  BY <1>1, <1>8, RunInv
<1>9. ASSUME NEW t \in DOMAIN batches, DropBatch(t)
      PROVE  Inv'
  BY <1>1, <1>9, DropBatchInv
<1>10. ASSUME NEW t \in host, DropTable(t)
       PROVE  Inv'
  BY <1>1, <1>10, DropTableInv
<1>11. CASE UNCHANGED vars
  <2>1. \A t : Owned(t, tables[t])' = Owned(t, tables[t])
    BY <1>11 DEF Owned, IndexBlock, vars
  <2>2. Typed' /\ Coded' /\ TablesFit' /\ TablesApart' /\ BatchesApart'
    BY <1>1, <1>11 DEF vars, Inv, Typed, Coded, TablesFit, TablesApart, BatchesApart,
       BuilderOf, Imported, InUse
  <2>3. Standing' /\ NothingForgotten'
    BY <1>1, <1>11, <2>1 DEF vars, Inv, Standing, NothingForgotten, Running, InUse, Owners, Forgotten
  <2>4. QED BY <2>2, <2>3 DEF Inv
<1>12. QED
  BY <1>1, <1>2, <1>3, <1>4, <1>5, <1>6, <1>7, <1>8, <1>9, <1>10, <1>11 DEF Next

-----------------------------------------------------------------------------
(* The theorems.                                                           *)

LEMMA Invariance == Spec => []Inv
BY InitInv, NextInv, PTL DEF Spec

(* In every order of calls the variables have their types, and a table's   *)
(* pointer to its index is the index it owns (ArrowTable2::init).          *)
THEOREM TypeCorrect == Spec => []TypeOK
<1>1. Inv => TypeOK
  <2>1. ASSUME Inv, NEW t \in DOMAIN tables
        PROVE  tables[t].array.release \in {"arrow", "reffine", "null"}
    BY <2>1, TablesTyped DEF Inv, Tables, Structures
  <2>2. QED BY <2>1 DEF Inv, Typed, TypeOK
<1>2. QED BY <1>1, Invariance, PTL

(* However many queries are compiled, under whatever names, and however    *)
(* many compilations fail between, compile_op returns the code of the      *)
(* query it was given.                                                     *)
THEOREM CodeIsForItsQuery == Spec => []CodeForQuery
<1>1. Inv => CodeForQuery
  BY DEF Inv, Coded, CodeForQuery
<1>2. QED BY <1>1, Invariance, PTL

(* Every table a query fills was built by that query's builder: the id in  *)
(* the code stays the index of it in MemoryManager::_builders.             *)
THEOREM TablesFitTheirCode == Spec => []TablesFit
<1>1. Inv => TablesFit
  BY DEF Inv
<1>2. QED BY <1>1, Invariance, PTL

(* What a table in use is made of is there as long as the process runs,    *)
(* whichever tables and batches were dropped or imported before.           *)
THEOREM SharedTablesStand == Spec => []TablesStand
<1>1. Inv => TablesStand
  BY DEF Inv, Standing, TablesStand
<1>2. QED BY <1>1, Invariance, PTL

(* Whatever is allocated has an owner who will free it, except for bitmaps *)
(* that finalize_vector dropped; a process that exits leaves those only.   *)
THEOREM MemoryHasOwners == Spec => []NothingForgotten
<1>1. Inv => NothingForgotten
  BY DEF Inv
<1>2. QED BY <1>1, Invariance, PTL

(* No destructor runs a callback that is none, or for the second time, but *)
(* that of the structures a load that fails never filled in.               *)
THEOREM StructuresFreedOnce == Spec => FreedOnce
<1>1. Inv /\ [Next]_vars => [status' = "undefined" => LoadFails]_vars
  <2>1. SUFFICES ASSUME Inv, Next, status' = "undefined" PROVE LoadFails
    BY DEF vars
  <2>2. status # "undefined"
    BY <2>1 DEF Next, Load, LoadFails, Exit, BuildIndex, Import, Compile, CompileTwice,
       CompileFails, Run, DropBatch, DropTable, Running
  <2>3. ~Exit
    BY <2>1, ExitInv
  <2>4. ASSUME NEW t \in DOMAIN batches PROVE ~DropBatch(t)
    BY <2>1, <2>2, DropBatchInv
  <2>5. ASSUME NEW t \in host PROVE ~DropTable(t)
    BY <2>1, <2>2, DropTableInv
  <2>6. QED
    BY <2>1, <2>2, <2>3, <2>4, <2>5 DEF Next, Load, BuildIndex, Import, Compile,
       CompileTwice, CompileFails, Run
<1>2. QED BY <1>1, Invariance, PTL DEF Spec, FreedOnce

(* The array of a table is written when the table is made and taken when   *)
(* it is imported, and memman keeps its share to the end: no compilation   *)
(* or run touches a result there is.                                       *)
THEOREM ResultsAreKept == Spec => ResultsKept
<1> DEFINE Left == \A t \in DOMAIN tables :
                     /\ tables'[t].array \in {tables[t].array, Released}
                     /\ t \in _tables => t \in _tables' \/ status' = "exited"
<1>1. ASSUME Inv, Next PROVE Left
  <2>1. Len(tables) \in Nat /\ DOMAIN tables = 1 .. Len(tables) /\ tables \in Seq(Tables)
    BY <1>1, LenProperties DEF Inv, Typed
  <2>2. CASE UNCHANGED tables /\ (UNCHANGED _tables \/ Exit)
    BY <2>2, <1>1, ExitInv
  <2>3. CASE Load
    BY <2>1, <2>3 DEF Load
  <2>4. ASSUME NEW fn \in fns, Run(fn) PROVE Left
    BY <2>1, <2>4 DEF Run, With, TableFor
  <2>5. ASSUME NEW t \in InUse, ~Imported(t), BuildIndex(t) \/ Import(t) PROVE Left
    <3>1. t \in DOMAIN tables /\ tables[t] \in Tables /\ _tables' = _tables
      BY <2>5, <1>1, TablesTyped DEF Inv, BuildIndex, Import
    <3>2. CASE BuildIndex(t)
      <4>1. tables' = [tables EXCEPT ![t] = Indexed(tables[t], tables[t]._index + 1)]
        BY <3>2 DEF BuildIndex
      <4>2. Indexed(tables[t], tables[t]._index + 1).array = tables[t].array
        BY <3>1 DEF Indexed, Tables
      <4>3. QED BY <3>1, <4>1, <4>2
    <3>3. CASE Import(t)
      <4> DEFINE x == [tables[t] EXCEPT !.array = Released, !.schema = Released]
      <4>1. tables' = [tables EXCEPT ![t] = x]
        BY <3>3 DEF Import
      <4>2. x.array = Released
        BY <3>1 DEF Tables
      <4>3. QED BY <3>1, <4>1, <4>2
    <3>4. QED BY <2>5, <3>2, <3>3
  <2>6. QED
    BY <1>1, <2>2, <2>3, <2>4, <2>5
    DEF Next, LoadFails, Exit, Compile, CompileTwice, CompileFails, DropBatch, DropTable
<1>2. QED BY <1>1, Invariance, PTL DEF Spec, ResultsKept
=============================================================================
