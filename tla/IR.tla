--------------------------------- MODULE IR ---------------------------------
(***************************************************************************)
(* The expressions every pass of the compiler reads and makes.             *)
(*                                                                         *)
(* A node is a record: its kind, its type, a name s and a number n (what   *)
(* they mean depends on the kind) and its operands.  A symbol is an object *)
(* in C++, told apart by its address; here by its name and `at`, the place *)
(* it was made, of which only the name reaches the C code.  Builders have  *)
(* the names of the source (reffine::reffiner).  Columns count from 0.     *)
(***************************************************************************)
EXTENDS Integers, Sequences, TLC

(* Types.  operator== compares all but the encodings, which are left out.  *)
DataType(btype, dtypes, dim) == [btype |-> btype, dtypes |-> dtypes, dim |-> dim]
Basic(btype) == DataType(btype, <<>>, 0)

VOID == Basic("VOID")
BOOL == Basic("BOOL")
INT64 == Basic("INT64")
INT32 == Basic("INT32")
UINT32 == Basic("UINT32")
UINT16 == Basic("UINT16")
IDX == Basic("IDX")

ptr(t) == DataType("PTR", <<t>>, 0)
struct(ts) == DataType("STRUCT", ts, 0)
vector(ts, dim) == DataType("VECTOR", ts, dim)

is_ptr(t) == t.btype = "PTR"
is_struct(t) == t.btype = "STRUCT"
is_vector(t) == t.btype = "VECTOR"
is_primitive(t) == t.btype \in {"BOOL", "INT64", "INT32", "UINT32", "UINT16", "IDX"}

(* What lies behind a pointer; VOID stands for the failed assertion.       *)
deref(t) == IF is_ptr(t) THEN t.dtypes[1] ELSE VOID
iterty(t) == t.dtypes[1]
rowty(t) == struct(t.dtypes)
valty(t) == IF t.dim = 1 THEN struct(Tail(t.dtypes)) ELSE vector(Tail(t.dtypes), t.dim - 1)

(* The constructor's assertions.                                           *)
RECURSIVE ValidType(_)
ValidType(t) ==
  /\ CASE is_struct(t) -> t.dim = 0 /\ Len(t.dtypes) > 0
       [] is_ptr(t)    -> t.dim = 0 /\ Len(t.dtypes) = 1
       [] is_vector(t) -> t.dim > 0 /\ Len(t.dtypes) >= t.dim
       [] OTHER        -> t.dim = 0 /\ t.dtypes = <<>>
  /\ \A i \in 1 .. Len(t.dtypes) : ValidType(t.dtypes[i])

-----------------------------------------------------------------------------
NodeAt(kind, type, s, at, args) ==
  [kind |-> kind, type |-> type, s |-> s, n |-> 0, at |-> at, args |-> args]
Node(kind, type, s, n, args) ==
  [kind |-> kind, type |-> type, s |-> s, n |-> n, at |-> "", args |-> args]

(* The visits of operands.                                                 *)
Each(Visit(_), args) == <<>> \o [i \in 1 .. Len(args) |-> Visit(args[i])]
Types(args) == Each(LAMBDA a : a.type, args)

NULL == Node("null", VOID, "", 0, <<>>)
Throw(what) == Node("throw", VOID, what, 0, <<>>)

(* symify: a symbol whose name ends in the address of what it stands for.  *)
_sym(name, at, type) == NodeAt("sym", type, name, at, <<>>)
symify(prefix, at, type) == _sym(prefix \o "_" \o at, at, type)

_const(type, n) == Node("const", type, "", n, <<>>)
_idx(n) == _const(IDX, n)
_u32(n) == _const(UINT32, n)

Relations == {"EQ", "LT", "LTE", "GT", "GTE", "AND", "OR", "NOT"}
_nary(op, args) == Node("nary", IF op \in Relations THEN BOOL ELSE args[1].type, op, 0, args)
_binary(op, a, b) == _nary(op, <<a, b>>)
_not(a) == _nary("NOT", <<a>>)
_and(a, b) == _binary("AND", a, b)
_or(a, b) == _binary("OR", a, b)
_add(a, b) == _binary("ADD", a, b)
_sub(a, b) == _binary("SUB", a, b)
_lt(a, b) == _binary("LT", a, b)
_lte(a, b) == _binary("LTE", a, b)
_eq(a, b) == _binary("EQ", a, b)

_sel(c, t, f) == Node("select", t.type, "", 0, <<c, t, f>>)
_cast(type, a) == Node("cast", type, "", 0, <<a>>)
_new(vals) == Node("new", struct(Types(vals)), "", 0, vals)
_get(val, col) ==
  Node("get", IF is_struct(val.type) THEN val.type.dtypes[col + 1] ELSE val.type, "", col, <<val>>)
_define(sym, val) == Node("define", sym.type, "", 0, <<sym, val>>)
_initval(inits, val) == Node("initval", val.type, "", 0, <<val>> \o inits)
_call(name, type, args) == Node("call", type, name, 0, args)

_alloc(type, size, at) == NodeAt("alloc", ptr(type), "", at, <<size>>)
_loadat(addr, offset) == Node("load", deref(addr.type), "", 0, <<addr, offset>>)
_load(addr) == _loadat(addr, _idx(0))
_storeat(addr, val, offset) == Node("store", addr.type, "", 0, <<addr, val, offset>>)
_store(addr, val) == _storeat(addr, val, _idx(0))
_structgep(addr, col) ==
  Node("structgep", ptr(deref(addr.type).dtypes[col + 1]), "", col, <<addr>>)
_fetch(vec, col) == Node("fetch", ptr(vec.type.dtypes[col + 1]), "", col, <<vec>>)

_stmts(stmts) == Node("stmts", VOID, "", 0, stmts)
_ifelse(c, t, f) == Node("ifelse", VOID, "", 0, <<c, t, f>>)
_noop == Node("noop", VOID, "", 0, <<>>)

(* No code of its own: the name of the block of a loop that starts here.   *)
Label(block, at) == NodeAt("label", VOID, block, at, <<>>)

(* The parts of a loop, NULL where it has none; `at` is its operator.      *)
_loop(at, init, incr, exit_cond, body_cond, body, post, output) ==
  NodeAt("loop", output.type, "", at, <<output, init, incr, exit_cond, body_cond, body, post>>)
Output(loop) == loop.args[1]
LoopInit(loop) == loop.args[2]
LoopIncr(loop) == loop.args[3]
ExitCond(loop) == loop.args[4]
BodyCond(loop) == loop.args[5]
Body(loop) == loop.args[6]
LoopPost(loop) == loop.args[7]

(* From operators to loops: vectors are read and written by position.      *)
_op(at, iters, outputs) ==
  NodeAt("op", vector(Types(iters) \o Types(outputs), Len(iters)), "", at, iters \o outputs)
_red(at, init, acc) == NodeAt("reduce", init.type, "", at, <<init, acc>>)
_elem(vec, iter) == Node("elem", valty(vec.type), "", 0, <<vec, iter>>)
_readdata(vec, idx, col) == Node("readdata", vec.type.dtypes[col + 1], "", col, <<vec, idx>>)
_readbit(vec, idx, col) == Node("readbit", BOOL, "", col, <<vec, idx>>)
_writedata(vec, idx, col, val) == Node("writedata", VOID, "", col, <<vec, idx, val>>)
_len(vec, col) == Node("len", IDX, "", col, <<vec>>)
_locate(vec, iter) == _call("vector_locate", IDX, <<vec, iter>>)
_make(type, len, mem_id) == _call("make_vector", type, <<len, _u32(mem_id)>>)

(* Slip: the counts in the other order.                                    *)
_finalizeSwapped(vec, bytemap, len, nulls) ==
  _call("finalize_vector", VOID, <<vec, bytemap, nulls, len>>)

_finalize(vec, bytemap, len, nulls) == _call("finalize_vector", VOID, <<vec, bytemap, len, nulls>>)
_vecarr(vec) == _call("get_vector_array", ptr(VOID), <<vec>>)
_arrchild(arr, col) == _call("get_array_child", ptr(VOID), <<arr, _u32(col)>>)
_arrbuf(arr, col) == _call("get_array_buf", ptr(VOID), <<arr, _u32(col)>>)
_arrlen(arr) == _call("get_array_len", IDX, <<arr>>)
_isval(buf, idx) == _call("get_null_bit", BOOL, <<buf, idx>>)

-----------------------------------------------------------------------------
(* The assertions of the calls.                                            *)
CallAsserts(name, a) ==
  CASE name = "vector_locate"    -> is_vector(a[1]) /\ a[1].dim <= 2 /\ iterty(a[1]) = a[2]
    [] name = "get_null_bit"     -> a[1] = ptr(UINT16) /\ a[2] = IDX
    [] name = "make_vector"      -> a[1] = IDX
    [] name = "finalize_vector"  -> is_vector(a[1]) /\ deref(a[2]) = BOOL /\ a[3] = IDX /\ a[4] = IDX
    [] name = "get_vector_array" -> is_vector(a[1])
    [] name \in {"get_array_child", "get_array_buf", "get_array_len"} -> a[1] = ptr(VOID)
    [] OTHER -> TRUE

(* The assertions of a node's constructor: false where building it aborts. *)
Asserts(e) ==
  LET a == Types(e.args)
      Col(t) == e.n < Len(t.dtypes)
  IN  CASE e.kind = "nary"      -> /\ ~is_ptr(a[1]) /\ ~is_struct(a[1])
                                   /\ \A i \in 1 .. Len(a) : a[i] = a[1]
                                   /\ e.s \in {"AND", "OR", "NOT"} => a[1] = BOOL
        [] e.kind = "const"     -> is_primitive(e.type)
        [] e.kind = "select"    -> a[1] = BOOL /\ a[2] = a[3]
        [] e.kind = "cast"      -> ~is_struct(a[1]) /\ ~is_struct(e.type)
        [] e.kind = "get"       -> is_struct(a[1]) \/ (is_primitive(a[1]) /\ e.n = 0)
        [] e.kind = "define"    -> a[1] = a[2] /\ a[1] # VOID
        [] e.kind = "call"      -> CallAsserts(e.s, a) /\ (e.s = "make_vector" => is_vector(e.type))
        [] e.kind = "alloc"     -> a[1] = IDX
        [] e.kind = "load"      -> is_ptr(a[1]) /\ a[2] = IDX
        [] e.kind = "store"     -> is_ptr(a[1]) /\ a[1] = ptr(a[2]) /\ a[3] = IDX
        [] e.kind = "structgep" -> is_struct(deref(a[1]))
        [] e.kind \in {"fetch", "readdata", "readbit", "len"} -> is_vector(a[1]) /\ Col(a[1])
        [] e.kind = "writedata" -> is_vector(a[1]) /\ Col(a[1]) /\ a[3] = a[1].dtypes[e.n + 1]
        [] e.kind = "elem"      -> is_vector(a[1]) /\ a[2] = iterty(a[1])
        [] e.kind = "ifelse"    -> a[1] = BOOL
        [] OTHER                -> TRUE

RECURSIVE WellTyped(_)
WellTyped(e) ==
  /\ Asserts(e)
  /\ ValidType(e.type)
  /\ \A i \in 1 .. Len(e.args) : WellTyped(e.args[i])

(* All nodes of a tree, the symbols among them named and not looked up.    *)
RECURSIVE Nodes(_)
Nodes(e) == {e} \union UNION {Nodes(e.args[i]) : i \in 1 .. Len(e.args)}

(* A function's table, from the symbols to what they stand for.            *)
Key(sym) == <<sym.s, sym.at>>
Entry(sym, e) == Key(sym) :> e
InTable(tbl, sym) == Key(sym) \in DOMAIN tbl
=============================================================================
