-------------------------- MODULE KernelPartition ---------------------------
(***************************************************************************)
(* How the threads of a GPU kernel share the elements of an array: each    *)
(* computes the range it is to process from the sizes of the grid, and     *)
(* walks it on its own (basic_transform_kernel, out[i] = in[i] + 1).       *)
(*                                                                         *)
(* Indices are of type IDX, which LLVMGen takes for unsigned: arithmetic   *)
(* is modulo the size of a word.                                           *)
(***************************************************************************)
EXTENDS Integers

CONSTANTS
  Word,       (* One more than the largest index: 2^64.                    *)
  Launches    (* Records n (elements), gdim (blocks), bdim (threads of a   *)
              (* block).                                                   *)

(* Grids are never so large that the index of a block does not fit.        *)
IsLaunch(l) ==
  /\ l.n \in Nat
  /\ l.gdim \in Nat \ {0}
  /\ l.bdim \in Nat \ {0}
  /\ (l.n + l.gdim) * (l.bdim + 1) + l.bdim * l.bdim < Word

ASSUME WordAssumption == Word \in Nat \ {0}
ASSUME LaunchAssumption == \A l \in Launches : IsLaunch(l)

Plus(a, b) == (a + b) % Word
Minus(a, b) == (a - b) % Word
Times(a, b) == (a * b) % Word
Least(a, b) == IF a <= b THEN a ELSE b

(* The smallest number of parts of size `parts` that hold n, as computed.  *)
CeilDiv(n, parts) == Minus(Plus(n, parts), 1) \div parts

VARIABLES
  launch,    (* The launch that runs.                                      *)
  pc,        (* "init", "loop" or "exit", by thread.                       *)
  idx,       (* *idx_addr, which each thread has its own of.               *)
  writers    (* The threads that wrote an element of out, by element.      *)

vars == <<launch, pc, idx, writers>>

(* A thread is the pair of its block and its place in it.                  *)
Threads == (0 .. launch.gdim - 1) \X (0 .. launch.bdim - 1)
Bid(th) == th[1]
Tid(th) == th[2]

ElemPerBlock == CeilDiv(launch.n, launch.gdim)
BlockStart(th) == Times(Bid(th), ElemPerBlock)

(* Slip: the last block is as long as the others.                          *)
BlockEndUnclipped(th) == Plus(BlockStart(th), ElemPerBlock)

BlockEnd(th) == Least(Plus(BlockStart(th), ElemPerBlock), launch.n)

(* Slip: rounded down.                                                     *)
ElemPerThreadFloor(th) == Minus(BlockEnd(th), BlockStart(th)) \div launch.bdim

ElemPerThread(th) == CeilDiv(Minus(BlockEnd(th), BlockStart(th)), launch.bdim)

(* get_start_idx and get_end_idx.                                          *)
StartIdx(th) == Plus(BlockStart(th), Times(Tid(th), ElemPerThread(th)))

(* Slip: the last thread runs over into the next block.                    *)
EndIdxUnclipped(th) == Least(Plus(StartIdx(th), ElemPerThread(th)), launch.n)

EndIdx(th) == Least(Plus(StartIdx(th), ElemPerThread(th)), BlockEnd(th))

-----------------------------------------------------------------------------
Init ==
  /\ launch \in Launches
  /\ pc = [th \in Threads |-> "init"]
  /\ idx = [th \in Threads |-> 0]
  /\ writers = [i \in 0 .. launch.n - 1 |-> {}]

(* loop->init.                                                             *)
Begin(th) ==
  /\ pc[th] = "init"
  /\ idx' = [idx EXCEPT ![th] = StartIdx(th)]
  /\ pc' = [pc EXCEPT ![th] = "loop"]
  /\ UNCHANGED <<launch, writers>>

(* One iteration: out[idx] is written and idx moves on.  A write beyond    *)
(* the array changes no element of it.                                     *)
Body(th) ==
  /\ pc[th] = "loop"
  /\ idx[th] < EndIdx(th)
  /\ writers' = [i \in DOMAIN writers |->
                  IF i = idx[th] THEN writers[i] \union {th} ELSE writers[i]]
  /\ idx' = [idx EXCEPT ![th] = Plus(@, 1)]
  /\ UNCHANGED <<launch, pc>>

(* exit_cond.                                                              *)
Exit(th) ==
  /\ pc[th] = "loop"
  /\ idx[th] >= EndIdx(th)
  /\ pc' = [pc EXCEPT ![th] = "exit"]
  /\ UNCHANGED <<launch, idx, writers>>

Next == \E th \in Threads : Begin(th) \/ Body(th) \/ Exit(th)
Spec == Init /\ [][Next]_vars

-----------------------------------------------------------------------------
(* No two threads write, or are about to write, the same element.          *)
Claims(th, i) ==
  th \in writers[i] \/ (pc[th] = "loop" /\ idx[th] = i /\ i < EndIdx(th))

OneWriter ==
  \A i \in DOMAIN writers : \A s, t \in Threads : Claims(s, i) /\ Claims(t, i) => s = t

(* No thread reads or writes beyond the arrays.                            *)
WithinArrays ==
  \A th \in Threads : pc[th] = "loop" /\ idx[th] < EndIdx(th) => idx[th] \in DOMAIN writers

(* When the kernel returns every element has been written.                 *)
AllWritten ==
  (\A th \in Threads : pc[th] = "exit") => \A i \in DOMAIN writers : writers[i] # {}
=============================================================================
