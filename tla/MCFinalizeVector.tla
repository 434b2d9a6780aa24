-------------------------- MODULE MCFinalizeVector --------------------------
(***************************************************************************)
(* Instances of FinalizeVector for TLC: lengths around the boundaries of   *)
(* bytes and words; all rows valid, none, or all but one, or one only.     *)
(***************************************************************************)
EXTENDS FinalizeVector

CONSTANT Lengths

MCBytemaps ==
  UNION {UNION {{[k \in 0 .. n - 1 |-> b], [k \in 0 .. n - 1 |-> (k = j) <=> b]} :
                j \in 0 .. n - 1, b \in BOOLEAN} : n \in Lengths}

(* Fresh memory: all zeros, all ones, or one bit in two.                   *)
MCJunk == {[w \in WordsOf(Capacity) |-> pattern] : pattern \in {{}, Bit, {b \in Bit : b % 2 = 0}}}
=============================================================================
