------------------------------- MODULE CEmit --------------------------------
(***************************************************************************)
(* CEmitter: from the function the passes made to C code.  A visit returns *)
(* the code of the expression; what it emits before that goes to the block *)
(* that is open.  C code here is a sequence of statements                  *)
(*                                                                         *)
(*   decl   s = args[1]        array   s[args[1]]     expr   args[1]       *)
(*   store  (args[1])[args[3]] = args[2]              break  if args[1]    *)
(*   if     args[1] then blocks[1] else blocks[2]     loop   blocks[1]     *)
(*   label  no code: the block s of the loop of operator `at` starts       *)
(*                                                                         *)
(* whose expressions have the kinds of IR.  Names are text: `at`, which    *)
(* tells the symbols of one name apart, is not in the code.                *)
(***************************************************************************)
EXTENDS Passes, SequencesExt

Stmt(k, s, at, args, blocks) == [k |-> k, s |-> s, at |-> at, args |-> args, blocks |-> blocks]
Decl(sym, code) == Stmt("decl", sym.s, sym.at, <<code>>, <<>>)
LabelStmt(block, at) == <<Stmt("label", block, at, <<>>, <<>>)>>

(* An expression for its effect; one that has none is left out.            *)
ExprStmt(code) == IF code.kind = "call" THEN <<Stmt("expr", "", "", <<code>>, <<>>)>> ELSE <<>>

(* What a visit leaves: the code, what it emitted and the symbols declared *)
(* so far, which are those out_sym_tbl has.                                *)
Emitted(code, out, done) == [code |-> code, out |-> out, done |-> done]
After(r, out) == r.out \o out \o ExprStmt(r.code)

RECURSIVE Emit(_, _, _), EmitAll(_, _, _)

(* visit(Sym), visited at its first use only.                              *)
EmitSym(sym, done, tbl) ==
  IF Key(sym) \in done \/ ~InTable(tbl, sym) THEN Emitted(sym, <<>>, done)
  ELSE LET value == Emit(tbl[Key(sym)], done, tbl)
       IN  Emitted(sym, Append(value.out, Decl(sym, value.code)), value.done \union {Key(sym)})

(* Slip: the branches are visited before the condition.                    *)
EmitIfElseCondLast(e, done, tbl) ==
  LET then == Emit(e.args[2], done, tbl)
      else == Emit(e.args[3], then.done, tbl)
      cond == Emit(e.args[1], else.done, tbl)
  IN  Emitted(NULL,
              Append(cond.out, Stmt("if", "", "", <<cond.code>>, <<After(then, <<>>), After(else, <<>>)>>)),
              cond.done)

EmitIfElse(e, done, tbl) ==
  LET cond == Emit(e.args[1], done, tbl)
      then == Emit(e.args[2], cond.done, tbl)
      else == Emit(e.args[3], then.done, tbl)
  IN  Emitted(NULL,
              Append(cond.out, Stmt("if", "", "", <<cond.code>>, <<After(then, <<>>), After(else, <<>>)>>)),
              else.done)

EmitStore(e, done, tbl) ==
  LET r == EmitAll(e.args, done, tbl)
  IN  Emitted(r.code[1], Append(r.out, Stmt("store", "", "", r.code, <<>>)), r.done)

EmitLoop(e, done, tbl) ==
  LET init == Emit(LoopInit(e), done, tbl)
      exit == Emit(ExitCond(e), init.done, tbl)
      body == Emit(Body(e), exit.done, tbl)
      post == Emit(LoopPost(e), body.done, tbl)
      output == Emit(Output(e), post.done, tbl)
      block == LabelStmt("exit_cond", e.at) \o exit.out \o <<Stmt("break", "", "", <<exit.code>>, <<>>)>>
               \o LabelStmt("body", e.at) \o After(body, <<>>)
  IN  Emitted(output.code,
              After(init, <<>>) \o <<Stmt("loop", "", e.at, <<>>, <<block>>)>>
                \o LabelStmt("post", e.at) \o After(post, <<>>) \o LabelStmt("done", e.at) \o output.out,
              output.done)

(* Operands one after the other; code is the sequence of theirs.           *)
EmitAll(args, done, tbl) ==
  IF args = <<>> THEN Emitted(<<>>, <<>>, done)
  ELSE LET first == Emit(Head(args), done, tbl)
           rest == EmitAll(Tail(args), first.done, tbl)
       IN  Emitted(<<first.code>> \o rest.code, first.out \o rest.out, rest.done)

(* visit(Stmts): the code of each is a statement after what it emitted.    *)
RECURSIVE EmitStmts(_, _, _)
EmitStmts(stmts, done, tbl) ==
  IF stmts = <<>> THEN Emitted(NULL, <<>>, done)
  ELSE LET first == Emit(Head(stmts), done, tbl)
           rest == EmitStmts(Tail(stmts), first.done, tbl)
       IN  Emitted(NULL, After(first, <<>>) \o rest.out, rest.done)

(* Slip: the inits are declared where the value comes to use them.         *)
EmitInitValLazily(e, done, tbl) == Emit(e.args[1], done, tbl)

(* visit(InitVal): the inits are declared, then the value is evaluated.    *)
EmitInitVal(e, done, tbl) ==
  LET r == EmitAll(Append(Tail(e.args), Head(e.args)), done, tbl)
  IN  Emitted(Last(r.code), r.out, r.done)

Emit(e, done, tbl) ==
  CASE e.kind = "sym"     -> EmitSym(e, done, tbl)
    [] e.kind = "stmts"   -> EmitStmts(e.args, done, tbl)
    [] e.kind = "ifelse"  -> EmitIfElse(e, done, tbl)
    [] e.kind = "store"   -> EmitStore(e, done, tbl)
    [] e.kind = "loop"    -> EmitLoop(e, done, tbl)
    [] e.kind = "initval" -> EmitInitVal(e, done, tbl)
    [] e.kind = "alloc"   -> LET size == Emit(e.args[1], done, tbl)
                                 var == _sym(e.at, e.at, e.type)
                             IN  Emitted(var, Append(size.out, Stmt("array", var.s, var.at, <<size.code>>, <<>>)),
                                         size.done)
    [] e.kind = "label"   -> Emitted(NULL, LabelStmt(e.s, e.at), done)
    [] e.kind \in {"noop", "null"} -> Emitted(NULL, <<>>, done)
    [] e.kind \in {"get", "new", "define", "throw"} ->
         Emitted(Throw(e.kind), <<Stmt("expr", "", "", <<Throw(e.kind)>>, <<>>)>>, done)
    [] OTHER -> LET r == EmitAll(e.args, done, tbl) IN Emitted(Clone(e, r.code), r.out, r.done)

(* visit(Func): the body, and the parameters it is called with.            *)
EmitFunc(f) ==
  LET r == Emit(f.output, {}, f.tbl) IN [params |-> f.inputs, body |-> After(r, <<>>)]

-----------------------------------------------------------------------------
(* All statements of a block, and what one of them declares and uses.      *)
RECURSIVE Statements(_)
Statements(block) ==
  UNION {{block[i]} \union UNION {Statements(block[i].blocks[j]) : j \in DOMAIN block[i].blocks} :
           i \in DOMAIN block}

Uses(stmt) == {n \in UNION {Nodes(stmt.args[i]) : i \in DOMAIN stmt.args} : n.kind = "sym"}

(* A C compiler takes the block and reads it as it was meant: where a      *)
(* symbol is used, the nearest declaration of its name is its own, and no  *)
(* block declares a name twice.  `seen` is, innermost first, what the      *)
(* enclosing blocks have declared so far: functions from names to `at`.    *)
Means(seen, sym) ==
  LET frames == {i \in DOMAIN seen : sym.s \in DOMAIN seen[i]}
  IN  frames # {} /\ LET i == CHOOSE i \in frames : \A j \in frames : i <= j
                     IN  seen[i][sym.s] = sym.at

RECURSIVE ScopesResolve(_, _)
ScopesResolve(block, seen) ==
  block = <<>> \/
  LET stmt == Head(block)
      declares == stmt.k \in {"decl", "array"}
      here == IF declares THEN (stmt.s :> stmt.at) @@ Head(seen) ELSE Head(seen)
  IN  /\ \A sym \in Uses(stmt) : Means(seen, sym)
      /\ declares => stmt.s \notin DOMAIN Head(seen)
      /\ \A i \in DOMAIN stmt.blocks : ScopesResolve(stmt.blocks[i], <<<<>>>> \o seen)
      /\ ScopesResolve(Tail(block), <<here>> \o Tail(seen))

CompilesAsMeant(fn) ==
  ScopesResolve(fn.body, <<[s \in {fn.params[i].s : i \in DOMAIN fn.params} |->
                              fn.params[CHOOSE i \in DOMAIN fn.params : fn.params[i].s = s].at]>>)
=============================================================================
