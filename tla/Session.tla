------------------------------ MODULE Session -------------------------------
(***************************************************************************)
(* A process that uses reffine: it loads tables, compiles queries, runs    *)
(* them on tables, hands results to Arrow and ends.  The host is free in   *)
(* the order of its calls, as long as it runs queries on indexed tables    *)
(* and leaves a table alone after it gave the columns away.                *)
(*                                                                         *)
(* A query is told by the number of its output columns, op.  An ArrowArray *)
(* or ArrowSchema is a structure [release, owns]: the callback that frees  *)
(* it and the blocks of memory the callback reaches.  "garbage" is what a  *)
(* default constructor leaves in the field, null is "null".                *)
(***************************************************************************)
EXTENDS Naturals, Sequences, FiniteSets

CONSTANTS
  Names,        (* The names functions are given.                          *)
  Ops,          (* The queries.                                            *)
  MaxCompiles,  (* Bounds on what a process does.                          *)
  MaxTables,
  MaxIndexes

(* A query is told by how many columns it puts out.                        *)
ASSUME OpsAssumption == Ops \subseteq Nat

VARIABLES
  _builders,  (* MemoryManager: a query for each mem_id.                    *)
  _tables,    (* MemoryManager: the tables it made, which it shares.        *)
  jd,         (* ExecEngine: the functions of the library, by name.         *)
  fns,        (* What the host compiled, and the code it got for it.        *)
  tables,     (* Every table there was, by number.                          *)
  host,       (* The loaded tables, which the host shares.                  *)
  batches,    (* The columns Arrow took over, by the table they come from.  *)
  heap,       (* The blocks of memory that are allocated.                   *)
  status      (* "running", "aborted", "undefined", "exited".               *)

vars == <<_builders, _tables, jd, fns, tables, host, batches, heap, status>>

Structure(release, owns) == [release |-> release, owns |-> owns]
Released == Structure("null", {})

(* The arrays of a table of reffine's own: the vector (0) and its columns, *)
(* each with its Private and its buffers, and the schemas.                 *)
VectorArray(t, op) ==
  Structure("reffine", {<<t, what, col>> : what \in {"private", "bits"}, col \in 0 .. op}
                       \union {<<t, "data", col>> : col \in 1 .. op})
VectorSchema(t, op) == Structure("reffine", {<<t, "schema", col>> : col \in 0 .. op})

(* A table: _index is its index, index the pointer init() set to it (0 is  *)
(* null); op is the query it was built for, filled the one that wrote it.  *)
ArrowTable2(array, schema, op, filled) ==
  [array |-> array, schema |-> schema, _index |-> 0, index |-> 0, op |-> op, filled |-> filled]

IndexBlock(t, k) == IF k = 0 THEN {} ELSE {<<t, "index", k>>}
Owned(t, tbl) == tbl.array.owns \union tbl.schema.owns \union IndexBlock(t, tbl._index)

(* A function with one more value, or another.                             *)
With(f, x, value) == [y \in DOMAIN f \union {x} |-> IF y = x THEN value ELSE f[y]]

Running == status = "running"
InUse == host \union _tables

-----------------------------------------------------------------------------
(* Slip: the columns of a structure are not deleted with it.               *)
FreedAlone(s) == {b \in s.owns : b[3] = 0}

(* arrow_release_array2 and arrow_release_schema2: a Private deletes its   *)
(* children and its buffers, and they theirs.                              *)
FreedBy(s) == s.owns

(* Slip: the callback is called whether there is one or not.               *)
DestructsAlways(s) == s.release \notin {"null", "garbage"} /\ s.owns \subseteq heap

(* A destructor calls the callback if there is one.                        *)
Destructs(s) == s.release = "null" \/ (s.release # "garbage" /\ s.owns \subseteq heap)

(* The last owner of some structures and of the blocks of indexes is gone. *)
Destroy(structures, indexes, then) ==
  IF \A s \in structures : Destructs(s)
  THEN heap' = (heap \ (UNION {FreedBy(s) : s \in structures})) \ indexes /\ status' = then
  ELSE status' = "undefined" /\ UNCHANGED heap

StructuresOf(set) == {tables[t].array : t \in set} \union {tables[t].schema : t \in set}
IndexesOf(set) == UNION {IndexBlock(t, tables[t]._index) : t \in set}

-----------------------------------------------------------------------------
Init ==
  /\ _builders = <<>> /\ _tables = {}
  /\ jd = <<>> /\ fns = {}
  /\ tables = <<>> /\ host = {} /\ batches = <<>>
  /\ heap = {}
  /\ status = "running"

(* load_arrow_file: Arrow fills in both structures and their callbacks.    *)
Load ==
  LET t == Len(tables) + 1
      array == Structure("arrow", {<<t, "arrow", 0>>})
      schema == Structure("arrow", {<<t, "arrowschema", 0>>})
  IN  /\ Running /\ t <= MaxTables
      /\ tables' = Append(tables, ArrowTable2(array, schema, 0, 0))
      /\ host' = host \union {t}
      /\ heap' = heap \union array.owns \union schema.owns
      /\ UNCHANGED <<_builders, _tables, jd, fns, batches, status>>

(* ExportRecordBatch fails and leaves the structures as it found them: the *)
(* table dies with what its constructor left in them, and ValueOrDie ends  *)
(* what is left of the process.                                            *)
LoadFails ==
  /\ Running
  /\ \E found \in {"garbage", "null"} : Destroy({Structure(found, {})}, {}, "aborted")
  /\ UNCHANGED <<_builders, _tables, jd, fns, tables, host, batches>>

(* Slip: init() is not called again.                                       *)
IndexedOnly(tbl, k) == [tbl EXCEPT !._index = k]

Indexed(tbl, k) == [tbl EXCEPT !._index = k, !.index = k]

(* build_index: a new map takes the place of the old one.                  *)
BuildIndex(t) ==
  LET k == tables[t]._index + 1
  IN  /\ Running /\ k <= MaxIndexes
      /\ tables' = [tables EXCEPT ![t] = Indexed(@, k)]
      /\ heap' = (heap \ IndexBlock(t, tables[t]._index)) \union IndexBlock(t, k)
      /\ UNCHANGED <<_builders, _tables, jd, fns, host, batches, status>>

-----------------------------------------------------------------------------
(* Slip: the id counts the functions the library has.                      *)
mem_idOfFunctions == Cardinality(DOMAIN jd)

(* add_builder, as LoopGen calls it, and the id it puts into the code;     *)
(* sequences count from one where vectors count from zero.                 *)
mem_id == Len(_builders)
AddBuilder(op) == Len(_builders) < MaxCompiles /\ _builders' = Append(_builders, op)
BuilderOf(id) == _builders[id + 1]

(* Slip: a name the library has is left as it is.                          *)
AddModuleUnchecked(name, code) ==
  jd' = IF name \in DOMAIN jd THEN jd ELSE With(jd, name, code)

(* AddModule: a name that is defined twice ends the process, as cantFail   *)
(* does where assertions are on.                                           *)
AddModule(name, code) == name \notin DOMAIN jd /\ jd' = With(jd, name, code)

(* compile_op, down to Lookup.                                             *)
Compile(name, op) ==
  /\ Running
  /\ AddBuilder(op)
  /\ AddModule(name, [op |-> op, mem_id |-> mem_id])
  /\ fns' = fns \union {[asked |-> op, code |-> jd'[name]]}
  /\ UNCHANGED <<_tables, tables, host, batches, heap, status>>

CompileTwice(name, op) ==
  /\ Running
  /\ AddBuilder(op)
  /\ name \in DOMAIN jd
  /\ status' = "aborted"
  /\ UNCHANGED <<_tables, jd, fns, tables, host, batches, heap>>

(* The builder is registered and then an emitter, the C compiler, the      *)
(* parser of its output or verification throws; or the linker fails, which *)
(* nobody asks, and Lookup does not find the function.                     *)
CompileFails(op) ==
  /\ Running
  /\ AddBuilder(op)
  /\ status' \in {"running", "aborted"}
  /\ UNCHANGED <<_tables, jd, fns, tables, host, batches, heap>>

-----------------------------------------------------------------------------
(* What finalize_vector makes of the columns: with no nulls the pointer to *)
(* the bitmap is cleared, which is the one its owner has.                  *)
Finalized(t, array, op, nulls) ==
  IF nulls THEN array ELSE [array EXCEPT !.owns = @ \ {<<t, "bits", col>> : col \in 1 .. op}]

(* Slip: nobody keeps the table, which dies as get_table returns.          *)
KeptByNobody(blocks) == heap

(* get_table keeps a share of the table.                                   *)
Kept(blocks) == heap \union blocks

(* Slip: a table that was made for the id is used again.                   *)
TableReused(id) ==
  IF \E t \in _tables : tables[t].op = BuilderOf(id)
  THEN CHOOSE t \in _tables : tables[t].op = BuilderOf(id) ELSE Len(tables) + 1

TableFor(id) == Len(tables) + 1

(* A query runs on an indexed table, or on none: make_vector has the table *)
(* built for the mem_id in the code, which then fills and finalizes it.    *)
Run(fn) ==
  \E nulls \in BOOLEAN :
    LET t == TableFor(fn.code.mem_id)
        op == BuilderOf(fn.code.mem_id)
        made == VectorArray(t, op)
        schema == VectorSchema(t, op)
    IN  /\ Running /\ t <= MaxTables
        /\ tables' = With(tables, t, ArrowTable2(Finalized(t, made, op, nulls), schema, op, fn.code.op))
        /\ _tables' = _tables \union {t}
        /\ heap' = Kept(made.owns \union schema.owns)
        /\ UNCHANGED <<_builders, jd, fns, host, batches, status>>

(* ImportRecordBatch: Arrow takes the array over, and has done with the    *)
(* schema when it returns.                                                 *)
Import(t) ==
  /\ Running
  /\ batches' = With(batches, t, tables[t].array)
  /\ tables' = [tables EXCEPT ![t].array = Released, ![t].schema = Released]
  /\ heap' = heap \ FreedBy(tables[t].schema)
  /\ UNCHANGED <<_builders, _tables, jd, fns, host, status>>

(* The last reference to a record batch is gone.                           *)
DropBatch(t) ==
  /\ Running
  /\ Destroy({batches[t]}, {}, status)
  /\ batches' = [b \in DOMAIN batches \ {t} |-> batches[b]]
  /\ UNCHANGED <<_builders, _tables, jd, fns, tables, host>>

(* The host lets go of a table it loaded.                                  *)
DropTable(t) ==
  /\ Running
  /\ Destroy(StructuresOf({t}), IndexesOf({t}), status)
  /\ host' = host \ {t}
  /\ UNCHANGED <<_builders, _tables, jd, fns, tables, batches>>

(* main returns: its own tables and batches go, then memman.               *)
Exit ==
  /\ Running
  /\ Destroy(StructuresOf(InUse) \union {batches[t] : t \in DOMAIN batches}, IndexesOf(InUse), "exited")
  /\ host' = {} /\ _tables' = {} /\ batches' = <<>>
  /\ UNCHANGED <<_builders, jd, fns, tables>>

(* The host has given the columns away.                                    *)
Imported(t) == tables[t].array.release = "null"

Next ==
  \/ Load \/ LoadFails \/ Exit
  \/ \E t \in InUse : ~Imported(t) /\ (BuildIndex(t) \/ Import(t))
  \/ \E name \in Names, op \in Ops : Compile(name, op) \/ CompileTwice(name, op)
  \/ \E op \in Ops : CompileFails(op)
  \/ \E fn \in fns : Run(fn)
  \/ \E t \in DOMAIN batches : DropBatch(t)
  \/ \E t \in host : DropTable(t)

Spec == Init /\ [][Next]_vars

-----------------------------------------------------------------------------
TypeOK ==
  /\ _builders \in Seq(Ops) /\ DOMAIN jd \subseteq Names
  /\ InUse \subseteq DOMAIN tables /\ DOMAIN batches \subseteq DOMAIN tables
  /\ \A t \in DOMAIN tables : /\ tables[t].array.release \in {"arrow", "reffine", "null"}
                              /\ tables[t].index = tables[t]._index
  /\ status \in {"running", "aborted", "undefined", "exited"}

(* What compile_op returned is the code of the query it was given, however *)
(* many queries were compiled before and after under whatever names.       *)
CodeForQuery == \A fn \in fns : fn.code.op = fn.asked

(* The table make_vector makes has the columns its code writes: the id in  *)
(* the code is its query's builder, whatever compilations failed between.  *)
TablesFit == \A t \in DOMAIN tables : tables[t].op = tables[t].filled

(* A table stands as long as the process and those who share it do: while  *)
(* its columns were not given away, everything reached from it - array,    *)
(* schema and the index it points to - is there.                           *)
TablesStand ==
  Running => \A t \in InUse :
    ~Imported(t) => Owned(t, tables[t]) \subseteq heap

(* What has one owner is freed once, over imports, moves and the end of    *)
(* the process.  A load that fails is excepted: its structures hold a      *)
(* release nobody filled in, and what that does is undefined.              *)
FreedOnce == [][status' = "undefined" => LoadFails]_vars

(* All memory has an owner left who will free it, or a process would grow  *)
(* by what it forgets: except for the bitmaps finalize_vector dropped.     *)
Owners == (UNION {Owned(t, tables[t]) : t \in InUse}) \union (UNION {batches[t].owns : t \in DOMAIN batches})
Forgotten == {b \in heap : b[2] = "bits" /\ b[3] > 0}
NothingForgotten == status \in {"running", "exited"} => heap \subseteq Owners \union Forgotten

(* A result is the host's for good: no later compilation or run, of the    *)
(* same query or another, writes or frees the table a run returned.        *)
ResultsKept ==
  [][\A t \in DOMAIN tables :
       /\ tables'[t].array \in {tables[t].array, Released}
       /\ t \in _tables => t \in _tables' \/ status' = "exited"]_vars
=============================================================================
