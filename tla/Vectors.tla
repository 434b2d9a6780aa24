------------------------------ MODULE Vectors -------------------------------
(***************************************************************************)
(* The one-dimensional Arrow vectors the generated code reads.             *)
(*                                                                         *)
(* A vector has a length, the data buffer of its key column (column 0) and *)
(* the validity bitmap of that column, both indexed from 0 as in C.  The   *)
(* generated code never checks an index: a read outside 0..len-1 returns   *)
(* whatever lies there.  `before` and `after` are the cells such a read    *)
(* sees on either side of the buffers; they are part of the input and may  *)
(* hold anything.                                                          *)
(***************************************************************************)
EXTENDS Integers

(* A cell of a vector: the key and its validity bit.                       *)
Cell == [key : Int, valid : BOOLEAN]

IsVector(v) ==
  /\ v.len \in Nat
  /\ v.cells \in [0 .. v.len - 1 -> Cell]
  /\ v.before \in Cell
  /\ v.after \in Cell

Rows(v) == 0 .. v.len - 1

ReadCell(v, i) ==
  IF i < 0 THEN v.before ELSE IF i < v.len THEN v.cells[i] ELSE v.after

(* ReadData, column 0.                                                     *)
ReadData(v, i) == ReadCell(v, i).key

(* get_vector_null_bit, column 0: TRUE is "valid".                         *)
ReadBit(v, i) == ReadCell(v, i).valid

(* The positions build_index enters under a key: nulls are skipped.        *)
IndexedAt(v, x) == {i \in Rows(v) : v.cells[i].valid /\ v.cells[i].key = x}

(* vector_locate on the index build_index made: emplace keeps the first    *)
(* position of a key, and a key the index has not is located at -1.        *)
Locate(v, x) ==
  IF IndexedAt(v, x) = {}
  THEN -1
  ELSE CHOOSE i \in IndexedAt(v, x) : \A j \in IndexedAt(v, x) : i <= j

(* What a query means by "x is in v": some row holds x and is not null.    *)
Keys(v) == {v.cells[i].key : i \in {j \in Rows(v) : v.cells[j].valid}}

(* Vectors are kept sorted by their key, nulls included (the iterator      *)
(* value of a null row is written too, see LoopGen).                       *)
Sorted(v) == \A i, j \in Rows(v) : i < j => v.cells[i].key < v.cells[j].key

(* The index has the key: a loop that starts at x finds its row.           *)
Located(v, x) == Locate(v, x) # -1
=============================================================================
