--------------------------- MODULE FinalizeVector ---------------------------
(***************************************************************************)
(* finalize_vector, the last call of a query's loop: the byte map of the   *)
(* loop becomes the validity bitmap of every column of the output, or the  *)
(* bitmaps are dropped when no row is null.  LoopGen has it as the one     *)
(* step Post.                                                              *)
(*                                                                         *)
(* The bitmaps come from NullableArray, which allocates Capacity / 8 + 1   *)
(* bytes and initializes none; they are read and written by words of 16    *)
(* bits, a whole word at a time.                                           *)
(***************************************************************************)
EXTENDS Integers, FiniteSets

CONSTANTS
  Capacity,   (* The rows the output was built for: 100000000 in LoopGen.  *)
  NCols,      (* n_children                                                *)
  Bytemaps,   (* The byte maps to finalize, functions on 0 .. len - 1.     *)
  Junk        (* What a fresh bitmap may hold: functions from words to the *)
              (* set of their bits that are 1.                             *)

(* LoopGen's capacity fills its last byte.                                 *)
ASSUME CapacityAssumption == Capacity \in Nat /\ Capacity % 8 = 0
ASSUME ColumnsAssumption == NCols \in Nat

Bit == 0 .. 15
(* Slip: no byte for what the division loses.                              *)
AllocBytesExact == Capacity \div 8

AllocBytes == Capacity \div 8 + 1
WordsOf(n) == 0 .. n \div 16

(* A byte for each row the loop put out, which the output has room for.    *)
ASSUME BytemapsAssumption ==
  \A m \in Bytemaps : \E n \in 0 .. Capacity : m \in [0 .. n - 1 -> BOOLEAN]
ASSUME JunkAssumption == Junk \subseteq [WordsOf(Capacity) -> SUBSET Bit]

VARIABLES
  bytemap, len, null_count,    (* The arguments.                           *)
  col, i,                      (* The two loops.                           *)
  bitmap,                      (* buffers[0] of each column.               *)
  has_bitmap,                  (* Is it still there, not nullptr?          *)
  stats,                       (* length and null_count of each column.    *)
  arr_len                      (* The length of the table, -1 before.      *)

vars == <<bytemap, len, null_count, col, i, bitmap, has_bitmap, stats, arr_len>>

Columns == 0 .. NCols - 1

Init ==
  /\ bytemap \in Bytemaps
  /\ len = Cardinality(DOMAIN bytemap)
  /\ null_count = Cardinality({k \in DOMAIN bytemap : ~bytemap[k]})
  /\ col = 0
  /\ i = 0
  /\ bitmap \in [Columns -> Junk]
  /\ has_bitmap = [c \in Columns |-> TRUE]
  /\ stats = [c \in Columns |-> [length |-> 0, null_count |-> 0]]
  /\ arr_len = -1

(* Slip: bits are set, never cleared.                                      *)
SetNullBitOnly(bm, k, validity) ==
  [bm EXCEPT ![k \div 16] = IF validity THEN @ \union {k % 16} ELSE @]

(* get_null_bit and set_null_bit of vinstr.h.                              *)
GetNullBit(bm, k) == k % 16 \in bm[k \div 16]
SetNullBit(bm, k, validity) ==
  [bm EXCEPT ![k \div 16] = IF validity THEN @ \union {k % 16} ELSE @ \ {k % 16}]

(* One turn of the inner loop.                                             *)
SetBit ==
  /\ col < NCols
  /\ null_count > 0
  /\ i < len
  /\ bitmap' = [bitmap EXCEPT ![col] = SetNullBit(@, i, bytemap[i])]
  /\ i' = i + 1
  /\ UNCHANGED <<bytemap, len, null_count, col, has_bitmap, stats, arr_len>>

(* The rest of the outer loop's turn.                                      *)
EndColumn ==
  /\ col < NCols
  /\ null_count > 0 => i >= len
  /\ has_bitmap' = [has_bitmap EXCEPT ![col] = null_count > 0]
  /\ stats' = [stats EXCEPT ![col] = [length |-> len, null_count |-> null_count]]
  /\ col' = col + 1
  /\ i' = 0
  /\ UNCHANGED <<bytemap, len, null_count, bitmap, arr_len>>

EndTable ==
  /\ col = NCols
  /\ arr_len = -1
  /\ arr_len' = len
  /\ UNCHANGED <<bytemap, len, null_count, col, i, bitmap, has_bitmap, stats>>

Next == SetBit \/ EndColumn \/ EndTable
Spec == Init /\ [][Next]_vars

-----------------------------------------------------------------------------
(* get_vector_null_bit of a finished column.                               *)
RowValid(c, k) == has_bitmap[c] => GetNullBit(bitmap[c], k)

(* Every column of the finished table has exactly the rows the loop said   *)
(* are valid, whatever its bitmap held before.                             *)
Faithful ==
  arr_len # -1 => \A c \in Columns, k \in 0 .. len - 1 : RowValid(c, k) <=> bytemap[k]

(* The word that is read and written next lies in the bitmap: its 2 bytes  *)
(* are among those allocated.                                              *)
WithinBitmap ==
  col < NCols /\ null_count > 0 /\ i < len => 2 * (i \div 16) + 2 <= AllocBytes
=============================================================================
