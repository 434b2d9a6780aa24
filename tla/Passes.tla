------------------------------- MODULE Passes -------------------------------
(***************************************************************************)
(* What compile_op does to the function LoopGen made before it is emitted: *)
(* CanonPass, ReadWritePass and ScalarPass, each an IRClone that replaces  *)
(* some nodes.  A pass that throws leaves a Throw node where it did.       *)
(***************************************************************************)
EXTENDS Lowering

(* IRClone: the copy of a node whose operands have been visited.           *)
Clone(e, args) == [e EXCEPT !.args = args]

(* A pass over a function: its output and every entry of its table.        *)
OnFunc(Visit(_), f) ==
  [f EXCEPT !.output = Visit(@), !.tbl = [key \in DOMAIN @ |-> Visit(@[key])]]

FuncNodes(f) == Nodes(f.output) \union UNION {Nodes(f.tbl[key]) : key \in DOMAIN f.tbl}

-----------------------------------------------------------------------------
(* Slip: the step of the loop is under its guard too.                      *)
CanonLoopGuarded(loop, at) ==
  LET step == IF LoopIncr(loop) = NULL THEN Body(loop) ELSE _stmts(<<Body(loop), Label("incr", at), LoopIncr(loop)>>)
      body == IF BodyCond(loop) = NULL THEN step ELSE _ifelse(BodyCond(loop), step, _noop)
  IN  _loop(at, LoopInit(loop), NULL, ExitCond(loop), NULL, body, LoopPost(loop), Output(loop))

(* CanonPass: no Define, no Get of a primitive, and loops of an init, an   *)
(* exit_cond, a body and a post.                                           *)
CanonLoop(loop, at) ==
  LET guarded == IF BodyCond(loop) = NULL THEN Body(loop)
                 ELSE _ifelse(BodyCond(loop), Body(loop), _noop)
      body == IF LoopIncr(loop) = NULL THEN guarded
              ELSE _stmts(<<guarded, Label("incr", at), LoopIncr(loop)>>)
  IN  _loop(at, LoopInit(loop), NULL, ExitCond(loop), NULL, body, LoopPost(loop), Output(loop))

RECURSIVE Canon(_)
Canon(e) ==
  LET args == Each(Canon, e.args)
  IN  CASE e.kind = "define" -> args[1]
        [] e.kind = "get" /\ is_primitive(e.args[1].type) -> args[1]
        [] e.kind = "loop"   -> CanonLoop(Clone(e, args), e.at)
        [] OTHER             -> Clone(e, args)

(* visit(Func): a function with a value stores it where the caller says.   *)
output_addr(type) == _sym("output_addr", "", ptr(type))

CanonPass(f) ==
  LET defines == {n \in FuncNodes(f) : n.kind = "define"}
      g == OnFunc(Canon, f)
      addr == output_addr(g.output.type)
  IN  [output |-> IF g.output.type = VOID THEN g.output ELSE _stmts(<<_store(addr, g.output)>>),
       inputs |-> IF g.output.type = VOID THEN g.inputs ELSE <<addr>> \o g.inputs,
       tbl    |-> Tables({Entry(d.args[1], Canon(d.args[2])) : d \in defines}) @@ g.tbl]

-----------------------------------------------------------------------------
(* ReadWritePass: columns become the buffers of the Arrow array: 0 is the  *)
(* validity bitmap of a column, 1 its data.                                *)
Child(vec, col) == _arrchild(_vecarr(vec), col)

(* Slip: the buffer is left untyped.                                       *)
DataBufUntyped(vec, col, type) == _arrbuf(Child(vec, col), 1)

DataBuf(vec, col, type) == _cast(ptr(type), _arrbuf(Child(vec, col), 1))

RECURSIVE ReadWrite(_)
ReadWrite(e) ==
  LET args == Each(ReadWrite, e.args)
  IN  CASE e.kind = "readdata"  -> _loadat(DataBuf(args[1], e.n, e.type), args[2])
        [] e.kind = "writedata" -> _storeat(DataBuf(args[1], e.n, e.args[3].type), args[3], args[2])
        [] e.kind = "readbit"   -> _isval(_cast(ptr(UINT16), _arrbuf(Child(args[1], e.n), 0)), args[2])
        [] e.kind = "len"       -> _arrlen(Child(args[1], e.n))
        [] OTHER                -> Clone(e, args)

ReadWritePass(f) == OnFunc(ReadWrite, f)

-----------------------------------------------------------------------------
(* ScalarPass: no expression of a struct type is left where it is used.    *)
(* A visit returns the new expression e and its entry in scalar(): the     *)
(* visits of its fields, none if it has no entry.                          *)
Visited(e, fields) == [e |-> e, fields |-> fields]
Exprs(visits) == Each(LAMBDA v : v.e, visits)
Width(type) == Len(type.dtypes)

(* assign: the symbol of an entry has a symbol for each field.             *)
FieldSym(sym, i) == _sym(sym.s \o "_" \o ToString(i - 1), sym.at, sym.type.dtypes[i])

RECURSIVE SymVisit(_, _)
SymVisit(sym, value) ==
  Visited(sym, <<>> \o [i \in DOMAIN value.fields |-> SymVisit(FieldSym(sym, i), value.fields[i])])

(* The stores and loads a store or load of a struct is split into.         *)
FieldStore(addr, val, offset, i) == _storeat(_structgep(addr, i - 1), _get(val, i - 1), offset)
FieldLoad(addr, offset, i) == _loadat(_structgep(addr, i - 1), offset)

RECURSIVE Scalar(_, _)
Scalar(e, tbl) ==
  LET v == Each(LAMBDA arg : Scalar(arg, tbl), e.args)
      a == Exprs(v)
      Plain1(node) == Visited(node, <<>>)
      Fields(type, Field(_)) == <<>> \o [i \in 1 .. Width(type) |-> Field(i)]
  IN  CASE e.kind = "sym" ->
             IF is_struct(e.type) /\ InTable(tbl, e) THEN SymVisit(e, Scalar(tbl[Key(e)], tbl)) ELSE Plain1(e)
        [] e.kind = "new" -> Visited(_new(a), v)
        [] e.kind = "get" ->
             IF v[1].fields = <<>> THEN Plain1(Throw("Unable to eliminate Get expression"))
             ELSE v[1].fields[e.n + 1]
        [] e.kind = "load" /\ is_struct(e.type) ->
             Scalar(_new(Fields(e.type, LAMBDA i : Scalar(FieldLoad(a[1], a[2], i), tbl).e)), tbl)
        [] e.kind = "store" /\ is_struct(e.args[2].type) ->
             Plain1(_stmts(Fields(e.args[2].type, LAMBDA i : Scalar(FieldStore(a[1], a[2], a[3], i), tbl).e)))
        [] e.kind = "select" /\ is_struct(e.type) ->
             Plain1(IF v[2].fields = <<>> \/ v[3].fields = <<>> THEN Throw("out_of_range")
                    ELSE _new(Fields(e.type, LAMBDA i :
                                Scalar(_sel(a[1], v[2].fields[i].e, v[3].fields[i].e), tbl).e)))
        [] e.kind = "initval" ->
             Visited(_initval(Tail(a), a[1]),
                     Each(LAMBDA field : Plain1(_initval(Tail(a), field.e)), v[1].fields))
        [] OTHER -> Plain1(Clone(e, a))

(* assign: the entries of a symbol and of the symbols of its fields.       *)
RECURSIVE SymEntries(_, _)
SymEntries(key, value) ==
  (key :> value.e)
  @@ Tables({SymEntries(<<key[1] \o "_" \o ToString(i - 1), key[2]>>, value.fields[i]) : i \in DOMAIN value.fields})

ScalarPass(f) ==
  [f EXCEPT !.output = Scalar(@, f.tbl).e,
            !.tbl = Tables({SymEntries(key, Scalar(f.tbl[key], f.tbl)) : key \in DOMAIN f.tbl})]
=============================================================================
