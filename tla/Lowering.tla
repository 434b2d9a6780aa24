------------------------------ MODULE Lowering ------------------------------
(***************************************************************************)
(* LoopGen as the source has it: from operators to the expressions of      *)
(* loops.  A program P is a function of the user: its inputs, its output,  *)
(* its table, and ops, its operators by their id (the place of an op or    *)
(* reduce node): a record of the iterators, the outputs, the structure     *)
(* Reffine made of the predicate and what SpaceExprs wants to know.        *)
(*                                                                         *)
(* C++ makes a new symbol for every old one and enters it when it first    *)
(* comes across it; here a symbol stays itself and the tables are mapped   *)
(* entry by entry.  The order only matters for symbols that are defined in *)
(* mid-expression (Define), and those are looked up after their definition.*)
(***************************************************************************)
EXTENDS SpaceExprs

(* The symbols build_loop makes for an operator.  _idx_addr and the loop   *)
(* iterator are named by the operator's iterators, the others by address.  *)
RECURSIVE Underscored(_)
Underscored(iters) == IF iters = <<>> THEN "" ELSE "_" \o Head(iters).s \o Underscored(Tail(iters))

_lb(op) == _lower_bound(op, op.tree)[1]
lb_sym(op) == symify("lb", op.at, _lb(op).type)
idx_init(op) == _iter_to_idx(op, op.tree, lb_sym(op))
idx_alloc(op) == _alloc(idx_init(op).type, _idx(1), "idx_" \o op.at)
idx_addr(op) == _sym(Underscored(op.iters) \o "_idx_addr", op.at, idx_alloc(op).type)
loop_iter_expr(op) == _idx_to_iter(op, op.tree, _load(idx_addr(op)))
loop_iter(op) == _sym(Underscored(op.iters), op.at, loop_iter_expr(op).type)

(* The entries of those symbols.                                           *)
OpTable(op) ==
  LET extra == _extra_syms(op, op.tree)
  IN  Entry(lb_sym(op), _lb(op))
      @@ Entry(idx_addr(op), idx_alloc(op))
      @@ Entry(loop_iter(op), loop_iter_expr(op))
      @@ [key \in {Key(op.iters[i]) : i \in 1 .. Len(op.iters)} |->
            _get(loop_iter(op), (CHOOSE i \in 1 .. Len(op.iters) : Key(op.iters[i]) = key) - 1)]
      @@ [key \in {Key(extra[i].sym) : i \in 1 .. Len(extra)} |->
            extra[CHOOSE i \in 1 .. Len(extra) : Key(extra[i].sym) = key].expr]
      @@ FlagTable(op.tree, op.iters[1])

(* visit(Element): the index its loop has for the vector, or a search.     *)
_vec_iter_idx_map(P) ==
  UNION {_vec_iter_idxs(P.ops[at], P.ops[at].tree, _load(idx_addr(P.ops[at])), P.ops[at].iters[1]) :
           at \in DOMAIN P.ops}

ElementIdx(P, vec, iter) ==
  LET here == {m \in _vec_iter_idx_map(P) : m.vec = vec}
  IN  IF here = {} THEN _locate(vec, iter)
      ELSE IF \E m \in here : m.iter = iter THEN (CHOOSE m \in here : m.iter = iter).idx
      ELSE Throw("out_of_range")

Element(P, vec, iter) ==
  _new(<<>> \o [i \in 1 .. Len(vec.type.dtypes) - 1 |-> _readdata(vec, ElementIdx(P, vec, iter), i)])

(* red.acc applied to a state and a value: acc is an expression with two   *)
(* parameters.                                                             *)
Param(i, type) == Node("param", type, "", i, <<>>)

RECURSIVE Apply(_, _)
Apply(acc, actuals) ==
  IF acc.kind = "param" THEN actuals[acc.n]
  ELSE [acc EXCEPT !.args = Each(LAMBDA a : Apply(a, actuals), @)]

_loop_sym(op, type) == symify("_loop", op.at, type)
_red_loop(at, type) == symify("_red_loop", at, type)

(* eval of a user's expression.                                            *)
RECURSIVE Lower(_, _)
Lower(P, e) ==
  CASE e.kind = "elem"   -> Element(P, Lower(P, e.args[1]), Lower(P, e.args[2]))
    [] e.kind = "op"     -> _loop_sym(P.ops[e.at], e.type)
    [] e.kind = "reduce" -> _load(_red_loop(e.at, ptr(e.type)))
    [] OTHER             -> [e EXCEPT !.args = Each(LAMBDA a : Lower(P, a), @)]

-----------------------------------------------------------------------------
(* build_loop, without a body.                                             *)
BuildLoop(P, op, output) ==
  LET idx == _load(idx_addr(op))
      extra == _extra_syms(op, op.tree)
  IN  [init      |-> <<_store(idx_addr(op), idx_init(op))>> \o Each(LAMBDA x : x.sym, extra),
       incr      |-> _stmts(<<_store(idx_addr(op), _next(op, op.tree, idx))>>),
       exit_cond |-> _not(_is_alive(op, op.tree, idx)),
       body_cond |-> _iter_cond(op, op.tree, idx),
       outputs   |-> op.iters \o Each(LAMBDA o : Lower(P, o), op.outputs),
       output    |-> output]

(* visit(Op): the rows go to a new vector, a byte for each to the byte map.*)
OpLoop(P, op) ==
  LET type == vector(Types(op.iters) \o Types(op.outputs), Len(op.iters))
      out_vec == symify("_out_vec", op.at, type)
      out_vec_idx == symify("_out_vec_idx_addr", op.at, ptr(IDX))
      null_count == symify("_null_count", op.at, ptr(IDX))
      body_cond == symify("_body_cond", op.at, BOOL)
      bytemap == symify("_bytemap", op.at, ptr(BOOL))
      len == _idx(P.capacity)
      loop == BuildLoop(P, op, out_vec)
      Here == _load(out_vec_idx)
      rows == <<>> \o [i \in 1 .. Len(loop.outputs) |->
                 _writedata(out_vec, Here, i - 1, _get(_new(loop.outputs), i - 1))]
      nulls == << _storeat(bytemap, body_cond, Here),
                  _store(null_count, _add(_load(null_count), _sel(body_cond, _idx(0), _idx(1)))) >>
      body == rows \o (IF P.vectorize THEN nulls ELSE <<>>) \o <<_store(out_vec_idx, _add(Here, _idx(1)))>>
      init == loop.init \o <<_store(out_vec_idx, _idx(0)), _store(null_count, _idx(0)), out_vec, bytemap>>
  IN  Entry(out_vec, _make(type, len, 0))
      @@ Entry(out_vec_idx, _alloc(IDX, _idx(1), "out_vec_idx_" \o op.at))
      @@ Entry(null_count, _alloc(IDX, _idx(1), "null_count_" \o op.at))
      @@ Entry(body_cond, loop.body_cond)
      @@ Entry(bytemap, _alloc(BOOL, len, "bytemap_" \o op.at))
      @@ Entry(_loop_sym(op, type),
               _loop(op.at, _stmts(init), loop.incr, loop.exit_cond,
                     IF P.vectorize THEN NULL ELSE body_cond, _stmts(body),
                     _finalize(out_vec, bytemap, Here, _load(null_count)), out_vec))

(* Slip: every row is accumulated.                                         *)
AcceptedAlways(P, cond, next, state) == next

Accepted(P, cond, next, state) == IF P.vectorize THEN _sel(cond, next, state) ELSE next

(* visit(Reduce) over an operator: the rows go to the accumulator.         *)
ReduceLoop(P, red, op) ==
  LET state_addr == symify("state_addr", op.at, ptr(red.type))
      state == _load(state_addr)
      loop == BuildLoop(P, op, state_addr)
      next == Lower(P, Apply(red.args[2], <<state, _new(loop.outputs)>>))
      init == loop.init \o <<_store(state_addr, Lower(P, red.args[1]))>>
  IN  Entry(state_addr, _alloc(red.type, _idx(1), "state_" \o op.at))
      @@ Entry(_red_loop(op.at, ptr(red.type)),
               _loop(op.at, _stmts(init), loop.incr, loop.exit_cond,
                     IF P.vectorize THEN NULL ELSE loop.body_cond,
                     _stmts(<<_store(state_addr, Accepted(P, loop.body_cond, next, state))>>), NULL, state_addr))

(* The function LoopGen makes of P.                                        *)
UserNodes(P) ==
  Nodes(P.output) \union UNION {Nodes(P.tbl[key]) : key \in DOMAIN P.tbl}
  \union UNION {UNION {Nodes(P.ops[at].outputs[i]) : i \in DOMAIN P.ops[at].outputs} : at \in DOMAIN P.ops}

RECURSIVE Tables(_)
Tables(set) == IF set = {} THEN <<>> ELSE LET t == CHOOSE t \in set : TRUE IN t @@ Tables(set \ {t})

LoopGenFunc(P) ==
  LET loops == {OpLoop(P, P.ops[e.at]) : e \in {n \in UserNodes(P) : n.kind = "op"}}
               \union {ReduceLoop(P, e, P.ops[e.at]) : e \in {n \in UserNodes(P) : n.kind = "reduce"}}
  IN  [output |-> P.output,
       inputs |-> P.inputs,
       tbl    |-> Tables({OpTable(P.ops[at]) : at \in DOMAIN P.ops} \union loops)
                  @@ [key \in DOMAIN P.tbl |-> Lower(P, P.tbl[key])]]
=============================================================================
