---------------------------- MODULE EmittedLoop -----------------------------
(***************************************************************************)
(* The C code of a compiled query runs, statement by statement, on the     *)
(* vectors of the query; module LoopGen is what it should amount to.       *)
(*                                                                         *)
(* A query is that of module Query and some fields more: vectorize, and    *)
(* elems, the vectors whose Elements are output columns 1, 2, ...  Its top *)
(* operator has the id "T".  Column 1 of every vector holds the number of  *)
(* the row, so that an Element tells which row was read.                   *)
(*                                                                         *)
(* A pointer is a sequence: the object, then fields and offsets; p[k]      *)
(* moves the last.  A vector is <<name>>, its column c <<name, c>> and its *)
(* buffer b <<name, c, b, 0>>.                                             *)
(***************************************************************************)
EXTENDS CEmit

CONSTANTS
  EmittedQueries,   (* The queries.                                         *)
  Compiled(_),      (* What the passes made of a program: its code.         *)
  QuerySpace(_)     (* The iteration space of its top operator.             *)

VARIABLES
  q,         (* The query that runs.                                        *)
  pos,       (* The statement that runs next: its position in the body, then *)
            (* the block in it and the position there, and so on.           *)
  scopes,   (* What the open blocks declared, innermost first.              *)
  mem,      (* What is stored where, by pointer.                            *)
  result,   (* What finalize_vector set of the output vector.               *)
  view      (* The loop of the top operator as LoopGen sees it, taken when  *)
            (* a block of it starts.                                        *)

vars == <<q, pos, scopes, mem, result, view>>

Empty == [i \in {} |-> 0]

(* What of a query decides on its code.                                    *)
ProgramOf(query) ==
  [form |-> query.form, pred |-> query.pred, elems |-> query.elems, acc |-> query.acc, vectorize |-> query.vectorize]
Code(query) == Compiled(ProgramOf(query)).code

-----------------------------------------------------------------------------
(* Evaluation of an expression.  The casts of the emitted code give a      *)
(* pointer its type and leave it what it is.                               *)
Moved(p, k) == [p EXCEPT ![Len(p)] = @ + k]

(* The nearest declaration of a name.                                      *)
Value(s) == LET i == CHOOSE i \in DOMAIN scopes : /\ s \in DOMAIN scopes[i]
                                                  /\ \A j \in 1 .. i - 1 : s \notin DOMAIN scopes[j]
            IN  scopes[i][s]

Read(p) ==
  IF p[1] \notin DOMAIN q.in.vec THEN mem[p]
  ELSE IF p[2] = 0 THEN ReadData(q.in.vec[p[1]], Last(p)) ELSE Last(p)

Arith(op, a) ==
  CASE op = "ADD" -> a[1] + a[2]
    [] op = "SUB" -> a[1] - a[2]
    [] op = "MUL" -> a[1] * a[2]
    [] op = "MIN" -> Min({a[1], a[2]})
    [] op = "MAX" -> Max({a[1], a[2]})
    [] op = "LT"  -> a[1] < a[2]
    [] op = "LTE" -> a[1] <= a[2]
    [] op = "GT"  -> a[1] > a[2]
    [] op = "GTE" -> a[1] >= a[2]
    [] op = "EQ"  -> a[1] = a[2]
    [] op = "AND" -> a[1] /\ a[2]
    [] op = "OR"  -> a[1] \/ a[2]
    [] op = "NOT" -> ~a[1]

(* The functions of the runtime.                                           *)
CallValue(name, a) ==
  CASE name = "get_vector_array" -> a[1]
    [] name = "get_array_child"  -> Append(a[1], a[2])
    [] name = "get_array_buf"    -> a[1] \o <<a[2], 0>>
    [] name = "get_array_len"    -> q.in.vec[a[1][1]].len
    [] name = "get_null_bit"     -> ReadBit(q.in.vec[a[1][1]], a[2])
    [] name = "vector_locate"    -> Locate(q.in.vec[a[1][1]], a[2])
    [] name = "make_vector"      -> <<"out">>

RECURSIVE Eval(_)
Eval(e) ==
  LET a == [i \in DOMAIN e.args |-> Eval(e.args[i])]
  IN  CASE e.kind = "sym"       -> Value(e.s)
        [] e.kind = "const"     -> IF e.type = BOOL THEN e.n = 1 ELSE e.n
        [] e.kind = "nary"      -> Arith(e.s, a)
        [] e.kind = "select"    -> IF a[1] THEN a[2] ELSE a[3]
        [] e.kind = "cast"      -> a[1]
        [] e.kind = "load"      -> Read(Moved(a[1], a[2]))
        [] e.kind = "structgep" -> Append(a[1], e.n)
        [] e.kind = "call"      -> CallValue(e.s, a)

-----------------------------------------------------------------------------
(* The loop of the top operator as LoopGen has it.                         *)
RECURSIVE IdxAt(_, _, _)
IdxAt(s, p, m) ==
  CASE s.kind \in SuperKinds -> IdxAt(s.ispace, p, m)
    [] s.kind \in JointKinds -> <<IdxAt(s.left, Append(p, 0), m), IdxAt(s.right, Append(p, 1), m)>>
    [] s.kind = "nested"     -> <<IdxAt(s.outer, Append(p, 0), m), IdxAt(s.inner, Append(p, 1), m)>>
    [] OTHER                 -> m[p]

OutputRow(m, i) ==
  [iter  |-> IF q.form = "pairs" THEN <<m[<<"out", 0, 1, i>>], m[<<"out", 1, 1, i>>]>>
             ELSE m[<<"out", 0, 1, i>>],
   elems |-> {<<q.elems[c], m[<<"out", c, 1, i>>]>> : c \in DOMAIN q.elems}]

View(block, m, res) ==
  LET rows == {p[4] : p \in {p \in DOMAIN m : p[1] = "out" /\ p[2] = 0}}
      bytes == {p[2] : p \in {p \in DOMAIN m : p[1] = "bytemap_T"}}
  IN  [pc          |-> block,
       idx         |-> IdxAt(q.tree, <<"idx_T", 0>>, m),
       out_vec_idx |-> m[<<"out_vec_idx_T", 0>>],
       null_count  |-> m[<<"null_count_T", 0>>],
       out_vec     |-> [i \in rows |-> OutputRow(m, i)],
       bytemap     |-> [i \in bytes |-> m[<<"bytemap_T", i>>]],
       out_len     |-> res.len,
       out_bits    |-> res.bits]

(* Before the loop is reached: where LoopGen starts it.                    *)
StartView ==
  LET space == QuerySpace(q)
  IN  [pc |-> "exit_cond", idx |-> space.iter_to_idx[CHOOSE lb \in space.lower_bound : TRUE],
       out_vec_idx |-> 0, null_count |-> 0, out_vec |-> Empty, bytemap |-> Empty,
       out_len |-> 0, out_bits |-> Empty]

-----------------------------------------------------------------------------
RECURSIVE BlockAt(_, _)
BlockAt(block, path) ==
  IF path = <<>> THEN block
  ELSE BlockAt(block[path[1]].blocks[path[2]], SubSeq(path, 3, Len(path)))

Here == BlockAt(Code(q).body, Front(pos))
InBlock == Last(pos) <= Len(Here)
Statement == Here[Last(pos)]
Is(k) == InBlock /\ Statement.k = k

(* Where control goes.                                                     *)
NextStatement == pos' = Moved(pos, 1)
EnterBlock(i) == pos' = pos \o <<i, 1>> /\ scopes' = <<Empty>> \o scopes

Init ==
  /\ q \in EmittedQueries
  /\ pos = <<1>>
  /\ scopes = <<("output_addr" :> <<"output_addr", 0>>) @@ ("x" :> q.in.x)
                @@ [name \in DOMAIN q.in.vec |-> <<name>>]>>
  /\ mem = Empty
  /\ result = [len |-> 0, bits |-> Empty]
  /\ view = StartView

Declared(s, value) == scopes' = [scopes EXCEPT ![1] = (s :> value) @@ @]

Declare ==
  /\ Is("decl")
  /\ Declared(Statement.s, Eval(Statement.args[1]))
  /\ NextStatement
  /\ UNCHANGED <<q, mem, result, view>>

(* An array that is declared again is a new one.                           *)
DeclareArray ==
  /\ Is("array")
  /\ Declared(Statement.s, <<Statement.s, 0>>)
  /\ mem' = [p \in {p \in DOMAIN mem : p[1] # Statement.s} |-> mem[p]]
  /\ NextStatement
  /\ UNCHANGED <<q, result, view>>

StoreTo ==
  /\ Is("store")
  /\ LET addr == Moved(Eval(Statement.args[1]), Eval(Statement.args[3]))
     IN  mem' = (addr :> Eval(Statement.args[2])) @@ mem
  /\ NextStatement
  /\ UNCHANGED <<q, scopes, result, view>>

(* finalize_vector is the one function called for its effect.              *)
CallFinalize ==
  /\ Is("expr")
  /\ LET a == [i \in 1 .. 4 |-> Eval(Statement.args[1].args[i])]
     IN  result' = [len |-> a[3], bits |-> IF a[4] = 0 THEN Empty
                                           ELSE [i \in 0 .. a[3] - 1 |-> mem[Moved(a[2], i)]]]
  /\ NextStatement
  /\ UNCHANGED <<q, scopes, mem, view>>

Branch ==
  /\ Is("if")
  /\ EnterBlock(IF Eval(Statement.args[1]) THEN 1 ELSE 2)
  /\ UNCHANGED <<q, mem, result, view>>

EnterLoop ==
  /\ Is("loop")
  /\ EnterBlock(1)
  /\ UNCHANGED <<q, mem, result, view>>

(* Slip: the block's names stay.                                           *)
LeaveBlockOpen == UNCHANGED scopes

LeaveBlock == scopes' = Tail(scopes)

(* Out of the block of the loop, past the loop.                            *)
Break ==
  /\ Is("break")
  /\ IF Eval(Statement.args[1])
     THEN LeaveBlock /\ pos' = Moved(Front(Front(pos)), 1)
     ELSE NextStatement /\ UNCHANGED scopes
  /\ UNCHANGED <<q, mem, result, view>>

StartBlock ==
  /\ Is("label")
  /\ view' = IF Statement.at = "T" /\ q.form # "reduce" THEN View(Statement.s, mem, result) ELSE view
  /\ NextStatement
  /\ UNCHANGED <<q, scopes, mem, result>>

(* The block ends: a loop starts it again, an if goes on after itself.     *)
EndBlock ==
  /\ ~InBlock
  /\ Len(pos) > 1
  /\ LET parent == Front(Front(pos))
     IN  pos' = IF BlockAt(Code(q).body, Front(parent))[Last(parent)].k = "loop" THEN parent ELSE Moved(parent, 1)
  /\ LeaveBlock
  /\ UNCHANGED <<q, mem, result, view>>

(* The function has returned; nothing else stops it.                       *)
Returned == ~InBlock /\ Len(pos) = 1
Done == Returned /\ UNCHANGED vars

Next == \/ Declare \/ DeclareArray \/ StoreTo \/ CallFinalize \/ Branch
        \/ EnterLoop \/ Break \/ StartBlock \/ EndBlock \/ Done

Spec == Init /\ [][Next]_vars

-----------------------------------------------------------------------------
TypeOK ==
  /\ pos \in Seq(Nat \ {0})
  /\ Len(pos) % 2 = 1 /\ Len(scopes) = (Len(pos) + 1) \div 2
  /\ result.len \in Nat
  /\ view.pc \in {"exit_cond", "body", "incr", "post", "done"}

(* The code is the loop LoopGen describes: each block of the C loop does   *)
(* to the memory what the action of that block does, whatever the passes   *)
(* split it into (a pair of indices is stored one field at a time) and     *)
(* whatever temporaries the emitter makes, and nothing happens besides.    *)
Loop == INSTANCE LoopGen
          WITH Queries <- EmittedQueries, SpaceOf <- QuerySpace, AnswerOf <- QuerySpace,
               vectorize <- q.vectorize, pc <- view.pc, idx <- view.idx,
               out_vec_idx <- view.out_vec_idx, null_count <- view.null_count,
               out_vec <- view.out_vec, bytemap <- view.bytemap,
               out_len <- view.out_len, out_bits <- view.out_bits
ImplementsLoop == [][Loop!Next]_(Loop!vars)

(* What a function returns is the vector it filled, after the loop and     *)
(* finalize_vector are done with it, and every column of it has a value in *)
(* every row the vector is said to have.                                   *)
ReturnsFinished ==
  Returned /\ q.form # "reduce" =>
    /\ view.pc = "done"
    /\ mem[<<"output_addr", 0>>] = <<"out">>
    /\ \A c \in {p[2] : p \in {p \in DOMAIN mem : p[1] = "out"}} :
         {p[4] : p \in {p \in DOMAIN mem : p[1] = "out" /\ p[2] = c}} = 0 .. result.len - 1

(* No function runs for ever: whatever the passes did to the steps of the  *)
(* loops and of those inside them, each walk reaches its exit.  It speaks  *)
(* of functions that keep on running and needs no fairness; that they stop *)
(* only where they return is what checking for deadlock shows.             *)
Returns == <>[][FALSE]_pos
=============================================================================
