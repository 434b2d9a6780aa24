----------------------------- MODULE MCEmitted ------------------------------
(***************************************************************************)
(* Instances of EmittedLoop for TLC: user functions over up to three       *)
(* vectors, each compiled once by the passes, in both code paths.          *)
(***************************************************************************)
EXTENDS EmittedLoop

CONSTANTS
  MaxKey,    (* The largest key of a vector.                               *)
  FoldAccs   (* The accumulators of the reductions.                        *)

Window == -6 .. 6
Biases == -4 .. 4
Weights == -1 .. 1

A == In("a", 0)
B == In("b", 0)
C == In("c", 0)
From == Cmp("GTE", 1, -1, 0)      (* t >= x        *)
UpTo == Cmp("LT", 1, 0, -3)       (* t < 3         *)

(* The predicates, with the vectors in the order of the output columns.    *)
Predicates ==
  { <<A, <<"a">>>>, <<And(And(From, A), UpTo), <<"a">>>>, <<And(A, Flag({1, 3})), <<"a">>>>,
    <<And(A, B), <<"a", "b">>>>, <<And(Or(A, B), UpTo), <<"a", "b">>>>,
    <<And(And(A, UpTo), And(B, Flag({2, 3}))), <<"a", "b">>>> }

ThreeWay == { <<And(And(A, B), C), <<"a", "b", "c">>>>, <<And(A, Or(B, C)), <<"a", "b", "c">>>> }

(* Those with a reduction inside.                                          *)
Inside == { <<A, <<"a">>>>, <<And(A, Flag({1, 3})), <<"a">>>> }

(* Two iterators: a rectangle, and a triangle whose inner bound moves.     *)
Pairs == INSTANCE NestedQuery
PairCmp(op, a, b, c) == [op |-> op, a |-> a, b |-> b, c |-> c]
OuterRange == And(PairCmp("GTE", 1, 0, -1), PairCmp("LT", 1, 0, -3))
InnerFrom == PairCmp("GTE", 0, 1, -1)
PairPreds == { And(OuterRange, And(InnerFrom, PairCmp("LT", 0, 1, -3))),
               And(And(OuterRange, InnerFrom), PairCmp("LTE", -1, 1, 0)) }

-----------------------------------------------------------------------------
(* The function a user writes for a predicate.                             *)
t == _sym("t", "", INT64)
x == _sym("x", "", INT64)
Vector(name) == _sym(name, "", vector(<<INT64, INT64>>, 1))

Operator(id, iters, tree, names, outputs) ==
  [at |-> id, iters |-> iters, outputs |-> outputs, tree |-> Placed(tree, id),
   vecs |-> [name \in names |-> Vector(name).type], x |-> IF Len(iters) = 1 THEN x ELSE iters[1]]

(* A column for each vector; with a reduction in the outputs, two more.    *)
Elements(elems) == Each(LAMBDA name : _get(_elem(Vector(name), t), 0), elems)

(* Accumulators of two fields: of their own field, of a later field, of an *)
(* earlier one, and of the iterator of the operator around the reduction.  *)
(* The state starts from (0, 1), the value is the iterator.                *)
StateField(i) == _get(Param(1, struct(<<INT64, INT64>>)), i)
RowIter(width) == _get(Param(2, struct(<<>> \o [j \in 1 .. width |-> INT64])), 0)
AccExpr(acc, v) ==
  CASE acc = "own"     -> _new(<<_add(StateField(0), v), _add(StateField(1), _const(INT64, 1))>>)
    [] acc = "later"   -> _new(<<_add(StateField(0), StateField(1)), _add(StateField(1), v)>>)
    [] acc = "earlier" -> _new(<<_add(StateField(0), v), _add(StateField(1), StateField(0))>>)
    [] acc = "outer"   -> _new(<<_add(StateField(0), _binary("MUL", v, t)), _add(StateField(1), t)>>)
StateInit == _new(<<_const(INT64, 0), _const(INT64, 1)>>)

(* What the same accumulator is as a function; o is the outer iterator.    *)
AccState(acc, s, v, o) ==
  CASE acc = "own"     -> <<s[1] + v, s[2] + 1>>
    [] acc = "later"   -> <<s[1] + s[2], s[2] + v>>
    [] acc = "earlier" -> <<s[1] + v, s[2] + s[1]>>
    [] acc = "outer"   -> <<s[1] + v * o, s[2] + o>>

(* The operator inside: u walks a vector of its own.                       *)
u == _sym("u", "", INT64)
InnerPred == And(In("d", 0), UpTo)
InnerOperator == Operator("U", <<u>>, Reffine(InnerPred), {"d"}, <<>>)

(* The structure Reffine makes of a predicate: for two iterators one of    *)
(* the outer spaces the solver may come up with, around the inner one.     *)
TreeOf(p) ==
  IF p.form # "pairs" THEN Reffine(p.pred)
  ELSE [kind  |-> "nested",
        outer |-> CHOOSE o \in Pairs!OuterReffine(p.pred) : TRUE,
        inner |-> Pairs!InnerReffine(p.pred)]

OpProgram(p) ==
  LET op == Operator("T", IF p.form = "pairs" THEN <<t, u>> ELSE <<t>>, TreeOf(p), Range(p.elems),
                     Elements(p.elems))
      sym == _sym("out", "", vector(Types(op.iters) \o Types(op.outputs), Len(op.iters)))
  IN  [output |-> sym, tbl |-> Entry(sym, _op("T", op.iters, op.outputs)), ops |-> [id \in {"T"} |-> op]]

ReduceProgram(p) ==
  LET op == Operator("T", <<t>>, Reffine(p.pred), Range(p.elems), Elements(p.elems))
      sym == _sym("out", "", StateInit.type)
  IN  [output |-> sym, ops |-> [id \in {"T"} |-> op],
       tbl |-> Entry(sym, _red("T", StateInit, AccExpr(p.acc, RowIter(1 + Len(p.elems)))))]

NestedProgram(p) ==
  LET red == _sym("red", "", StateInit.type)
      op == Operator("T", <<t>>, Reffine(p.pred), Range(p.elems),
                     Elements(p.elems) \o <<_get(red, 0), _get(red, 1)>>)
      sym == _sym("out", "", vector(Types(op.iters) \o Types(op.outputs), 1))
  IN  [output |-> sym, ops |-> [id \in {"T", "U"} |-> IF id = "T" THEN op ELSE InnerOperator],
       tbl |-> Entry(sym, _op("T", op.iters, op.outputs))
               @@ Entry(red, _red("U", StateInit, AccExpr(p.acc, RowIter(1))))]

VectorsOf(p) == IF p.form = "nested" THEN Append(p.elems, "d") ELSE p.elems
Program(p) ==
  (CASE p.form \in {"op", "pairs"} -> OpProgram(p) [] p.form = "reduce" -> ReduceProgram(p) [] p.form = "nested" -> NestedProgram(p))
  @@ [inputs |-> Each(Vector, VectorsOf(p)) \o <<x>>, vectorize |-> p.vectorize, capacity |-> 100]

-----------------------------------------------------------------------------
(* The programs, and the functions after each pass.                        *)
Programs ==
  {[form |-> "op", pred |-> p[1], elems |-> p[2], acc |-> "none", vectorize |-> v] :
     p \in Predicates \union ThreeWay, v \in BOOLEAN}
  \union {[form |-> "pairs", pred |-> p, elems |-> <<>>, acc |-> "none", vectorize |-> v] :
            p \in PairPreds, v \in BOOLEAN}
  \union {[form |-> "reduce", pred |-> p[1], elems |-> p[2], acc |-> acc, vectorize |-> v] :
            p \in Predicates, acc \in FoldAccs, v \in BOOLEAN}
  \union {[form |-> "nested", pred |-> p[1], elems |-> p[2], acc |-> acc, vectorize |-> v] :
            p \in Inside, acc \in FoldAccs \union {"outer"}, v \in BOOLEAN}

WellTypedFunc(f) ==
  /\ \A e \in {f.output} \union {f.tbl[key] : key \in DOMAIN f.tbl} : WellTyped(e)
  /\ \A e \in FuncNodes(f) : e.kind # "throw"

(* compile_op, a pass over all programs after the other.                   *)
Lowered == Tables({p :> LoopGenFunc(Program(p)) : p \in Programs})
Canonical == Tables({p :> CanonPass(Lowered[p]) : p \in Programs})
Buffered == Tables({p :> ReadWritePass(Canonical[p]) : p \in Programs})
Scalars == Tables({p :> ScalarPass(Buffered[p]) : p \in Programs})
Functions == Tables({p :> EmitFunc(Scalars[p]) : p \in Programs})
CompiledPrograms ==
  Tables({p :> [code     |-> Functions[p],
                typed    |-> \A f \in {Lowered[p], Canonical[p], Buffered[p], Scalars[p]} : WellTypedFunc(f),
                resolved |-> CompilesAsMeant(Functions[p])] : p \in Programs})
MCCompiled(p) == LET compiled == CompiledPrograms IN compiled[p]

MCSpace(query) ==
  IF query.form # "pairs" THEN Space(query.tree, query.in)
  ELSE NestedSpace(Space(query.tree.outer, [x |-> 0]), [o \in Int |-> Space(query.tree.inner, [x |-> o])])

(* Sorted vectors: a set of keys, and which of them are null.              *)
VectorOf(present, null) ==
  LET ks == SetToSortSeq(present, LAMBDA i, j : i < j)
      Stray(key) == [key |-> key, valid |-> TRUE]
  IN  [len |-> Len(ks), cells |-> [i \in 0 .. Len(ks) - 1 |-> [key |-> ks[i + 1], valid |-> ks[i + 1] \notin null]],
       before |-> Stray(0), after |-> Stray(9)]
VectorsOver(n) ==
  UNION {{VectorOf(p, null) : null \in SUBSET (p \intersect {1, 2})} : p \in (SUBSET (1 .. n)) \ {{}}}

QueriesOf(p) ==
  LET names == Range(VectorsOf(p))
      n == IF Cardinality(names) <= 1 THEN MaxKey ELSE 2
      Some == IF Cardinality(names) = 3 THEN {v \in VectorsOver(n) : v.len = n} ELSE VectorsOver(n)
  IN  {p @@ [tree |-> TreeOf(p), in |-> [vec |-> vs, x |-> 2]] : vs \in [names -> Some]}

MCQueries == UNION {QueriesOf(p) : p \in Programs}

-----------------------------------------------------------------------------
(* No pass meets an expression it asserts or throws on, and what each of   *)
(* them makes passes the assertions of the constructors.                   *)
AtStart == pos = <<1>>
PassesTyped == AtStart => Compiled(ProgramOf(q)).typed

(* The emitted names resolve to the symbols they are of.                   *)
NamesResolve == AtStart => Compiled(ProgramOf(q)).resolved

-----------------------------------------------------------------------------
(* The iterator values of the walk over a space from index i that count.   *)
RECURSIVE Walk(_, _)
Walk(space, i) ==
  IF ~space.is_alive[i] THEN <<>>
  ELSE (IF space.iter_cond[i] THEN <<space.idx_to_iter[i]>> ELSE <<>>) \o Walk(space, space.next[i])
IterWalk(space) == Walk(space, space.iter_to_idx[CHOOSE lb \in space.lower_bound : TRUE])

Folded(space, outer) == FoldLeft(LAMBDA s, v : AccState(q.acc, s, v, outer), <<0, 1>>, IterWalk(space))

(* A reduction returns what its accumulator makes of the rows one after    *)
(* the other, each time from the whole of the state before: also where it  *)
(* is computed for every row of an operator around it.                     *)
FoldExact ==
  Returned =>
    /\ q.form = "reduce" =>
         <<mem[<<"output_addr", 0, 0>>], mem[<<"output_addr", 0, 1>>]>> = Folded(MCSpace(q), 0)
    /\ q.form = "nested" => \A i \in DOMAIN view.out_vec :
         <<mem[<<"out", 2, 1, i>>], mem[<<"out", 3, 1, i>>]>>
           = Folded(Space(Reffine(InnerPred), q.in), view.out_vec[i].iter)
=============================================================================
