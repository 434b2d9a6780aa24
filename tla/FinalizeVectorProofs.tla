----------------------- MODULE FinalizeVectorProofs -------------------------
(***************************************************************************)
(* finalize_vector makes faithful bitmaps of a byte map of any length, in  *)
(* any number of columns, and stays within them, whatever memory held.     *)
(***************************************************************************)
EXTENDS FinalizeVector, FiniteSetTheorems, TLAPS

Bitmaps == [WordsOf(Capacity) -> SUBSET Bit]
Rows == 0 .. len - 1

-----------------------------------------------------------------------------
(* The inductive invariant.                                                *)

Typed ==
  /\ len \in 0 .. Capacity /\ bytemap \in [Rows -> BOOLEAN]
  /\ null_count \in Nat
  /\ col \in 0 .. NCols /\ i \in 0 .. len
  /\ bitmap \in [Columns -> Bitmaps]
  /\ has_bitmap \in [Columns -> BOOLEAN]

(* null_count is zero only where no row is null.                           *)
NoneNull == null_count = 0 => \A k \in Rows : bytemap[k]

(* The bits of the columns that are done, and of the one under way.        *)
Copied(c, n) == \A k \in 0 .. n - 1 : GetNullBit(bitmap[c], k) <=> bytemap[k]

ColumnsDone ==
  \A c \in 0 .. col - 1 :
    /\ has_bitmap[c] <=> null_count > 0
    /\ null_count > 0 => Copied(c, len)

ColumnUnderWay == col < NCols => Copied(col, i)

TableDone == arr_len # -1 => col = NCols

Inv ==
  /\ Typed
  /\ NoneNull
  /\ ColumnsDone
  /\ ColumnUnderWay
  /\ TableDone

-----------------------------------------------------------------------------
(* A row has a word and a bit of its own, and the word is in the bitmap.   *)
LEMMA RowBits ==
  ASSUME NEW k \in 0 .. Capacity - 1
  PROVE  /\ k \div 16 \in WordsOf(Capacity) /\ k % 16 \in Bit
         /\ 2 * (k \div 16) + 2 <= AllocBytes
         /\ \A j \in 0 .. Capacity - 1 : j \div 16 = k \div 16 /\ j % 16 = k % 16 => j = k
<1>1. Capacity \in Nat /\ Capacity % 8 = 0
  BY CapacityAssumption
<1>2. k \div 16 \in WordsOf(Capacity) /\ k % 16 \in Bit
  BY <1>1 DEF WordsOf, Bit
<1>3. 2 * (k \div 16) + 2 <= AllocBytes
  BY <1>1 DEF AllocBytes
<1>4. \A j \in 0 .. Capacity - 1 : j \div 16 = k \div 16 /\ j % 16 = k % 16 => j = k
  BY <1>1
<1>5. QED BY <1>2, <1>3, <1>4

(* set_null_bit sets the bit of its row and no other: what get_null_bit    *)
(* reads of every other row is what it read before.                        *)
LEMMA SetNullBitOne ==
  ASSUME NEW bm \in Bitmaps, NEW k \in 0 .. Capacity - 1, NEW v \in BOOLEAN
  PROVE  /\ SetNullBit(bm, k, v) \in Bitmaps
         /\ GetNullBit(SetNullBit(bm, k, v), k) <=> v
         /\ \A j \in (0 .. Capacity - 1) \ {k} :
              GetNullBit(SetNullBit(bm, k, v), j) <=> GetNullBit(bm, j)
<1> DEFINE word == k \div 16
           bit == k % 16
           after == IF v THEN bm[word] \union {bit} ELSE bm[word] \ {bit}
<1>1. word \in WordsOf(Capacity) /\ bit \in Bit
  BY RowBits
<1>2. SetNullBit(bm, k, v) = [bm EXCEPT ![word] = after]
  BY DEF SetNullBit
<1>3. after \in SUBSET Bit /\ (bit \in after <=> v) /\ \A b : b # bit => (b \in after <=> b \in bm[word])
  BY <1>1 DEF Bitmaps
<1>4. \A j \in 0 .. Capacity - 1 : j \div 16 \in WordsOf(Capacity)
  BY RowBits
<1>5. \A j \in (0 .. Capacity - 1) \ {k} : j \div 16 # word \/ j % 16 # bit
  BY RowBits
<1> HIDE DEF word, bit, after
<1>6. SetNullBit(bm, k, v) \in Bitmaps
  BY <1>1, <1>2, <1>3 DEF Bitmaps
<1>7. GetNullBit(SetNullBit(bm, k, v), k) <=> v
  BY <1>1, <1>2, <1>3 DEF Bitmaps, GetNullBit, word, bit
<1>8. ASSUME NEW j \in (0 .. Capacity - 1) \ {k}
      PROVE  GetNullBit(SetNullBit(bm, k, v), j) <=> GetNullBit(bm, j)
  BY <1>1, <1>2, <1>3, <1>4, <1>5 DEF Bitmaps, GetNullBit
<1>9. QED BY <1>6, <1>7, <1>8

-----------------------------------------------------------------------------
(* The initial state and each step.                                        *)

LEMMA InitInv == Init => Inv
<1>1. SUFFICES ASSUME Init PROVE Inv
  OBVIOUS
<1>2. PICK n \in 0 .. Capacity : bytemap \in [0 .. n - 1 -> BOOLEAN]
  BY <1>1, BytemapsAssumption DEF Init
<1>3. n \in Nat /\ len = n
  <2>1. n \in Nat /\ DOMAIN bytemap = 0 .. n - 1
    BY <1>2, CapacityAssumption
  <2>2. Cardinality(0 .. n - 1) = IF 0 > n - 1 THEN 0 ELSE (n - 1) - 0 + 1
    BY <2>1, FS_Interval
  <2>3. QED BY <1>1, <2>1, <2>2 DEF Init
<1> DEFINE nulls == {k \in Rows : ~bytemap[k]}
<1>4. IsFiniteSet(nulls) /\ null_count = Cardinality(nulls)
  <2>1. DOMAIN bytemap = Rows
    BY <1>2, <1>3 DEF Rows
  <2>2. IsFiniteSet(Rows)
    BY <1>3, FS_Interval DEF Rows
  <2>3. QED BY <1>1, <2>1, <2>2, FS_Subset DEF Init
<1>5. null_count \in Nat /\ (null_count = 0 => nulls = {})
  BY <1>4, FS_CardinalityType, FS_EmptySet
<1>6. Typed
  <2>1. bitmap \in [Columns -> Bitmaps] /\ has_bitmap \in [Columns -> BOOLEAN]
    BY <1>1, JunkAssumption DEF Init, Bitmaps
  <2>2. QED BY <1>1, <1>2, <1>3, <1>5, <2>1, ColumnsAssumption DEF Init, Typed, Rows
<1>7. NoneNull
  BY <1>5 DEF NoneNull
<1>8. ColumnsDone /\ ColumnUnderWay /\ TableDone
  BY <1>1 DEF Init, ColumnsDone, ColumnUnderWay, Copied, TableDone
<1>9. QED BY <1>6, <1>7, <1>8 DEF Inv

(* One more bit of the column under way, none of another column.           *)
LEMMA SetBitInv ==
  ASSUME Inv, SetBit
  PROVE  Inv'
<1>1. /\ col < NCols /\ null_count > 0 /\ i < len
      /\ bitmap' = [bitmap EXCEPT ![col] = SetNullBit(bitmap[col], i, bytemap[i])]
      /\ i' = i + 1
      /\ UNCHANGED <<bytemap, len, null_count, col, has_bitmap, arr_len>>
  BY DEF SetBit
<1>2. /\ col \in Columns /\ bitmap[col] \in Bitmaps /\ i \in Rows
      /\ i \in 0 .. Capacity - 1 /\ bytemap[i] \in BOOLEAN
      /\ Rows \subseteq 0 .. Capacity - 1
  BY <1>1, CapacityAssumption, ColumnsAssumption DEF Inv, Typed, Columns, Rows
<1> DEFINE bm == SetNullBit(bitmap[col], i, bytemap[i])
<1>3. /\ bm \in Bitmaps
      /\ GetNullBit(bm, i) <=> bytemap[i]
      /\ \A j \in (0 .. Capacity - 1) \ {i} : GetNullBit(bm, j) <=> GetNullBit(bitmap[col], j)
  BY <1>2, SetNullBitOne
<1> HIDE DEF bm
<1>4. bitmap'[col] = bm /\ \A c \in Columns \ {col} : bitmap'[c] = bitmap[c]
  BY <1>1, <1>2 DEF Inv, Typed, bm
<1>5. Typed'
  <2>1. bitmap' \in [Columns -> Bitmaps]
    BY <1>1, <1>2, <1>3 DEF Inv, Typed, bm
  <2>2. QED BY <1>1, <2>1, CapacityAssumption DEF Inv, Typed, Rows, Columns, Bitmaps
<1>6. ColumnsDone'
  <2>1. ASSUME NEW c \in 0 .. col - 1
        PROVE  bitmap'[c] = bitmap[c]
    BY <1>1, <1>4, ColumnsAssumption DEF Inv, Typed, Columns
  <2>2. \A c \in 0 .. col - 1 : Copied(c, len)' <=> Copied(c, len)
    BY <1>1, <2>1 DEF Copied, GetNullBit
  <2>3. ASSUME NEW c \in 0 .. col' - 1
        PROVE  (has_bitmap'[c] <=> null_count' > 0) /\ (null_count' > 0 => Copied(c, len)')
    BY <1>1, <2>2 DEF Inv, ColumnsDone
  <2>4. QED BY <2>3 DEF ColumnsDone
<1>7. ColumnUnderWay'
  <2>1. ASSUME NEW k \in 0 .. i
        PROVE  GetNullBit(bm, k) <=> bytemap[k]
    <3>1. CASE k = i
      BY <1>3, <3>1
    <3>2. CASE k # i
      <4>1. k \in 0 .. i - 1 /\ k \in (0 .. Capacity - 1) \ {i}
        BY <1>2, <3>2, CapacityAssumption
      <4>2. GetNullBit(bitmap[col], k) <=> bytemap[k]
        BY <1>1, <4>1 DEF Inv, ColumnUnderWay, Copied
      <4>3. QED BY <1>3, <4>1, <4>2
    <3>3. QED BY <3>1, <3>2
  <2>2. i' - 1 = i
    BY <1>1, <1>2
  <2>3. \A k \in 0 .. i' - 1 : GetNullBit(bitmap'[col'], k) <=> bytemap'[k]
    BY <1>1, <1>4, <2>1, <2>2
  <2>4. QED BY <2>3 DEF ColumnUnderWay, Copied, GetNullBit
<1>8. NoneNull' /\ TableDone'
  BY <1>1 DEF Inv, NoneNull, TableDone, Rows
<1>9. QED BY <1>5, <1>6, <1>7, <1>8 DEF Inv

(* A column is done when all its bits are, or needs none.                  *)
LEMMA EndColumnInv ==
  ASSUME Inv, EndColumn
  PROVE  Inv'
<1>1. /\ col < NCols /\ (null_count > 0 => i >= len)
      /\ has_bitmap' = [has_bitmap EXCEPT ![col] = null_count > 0]
      /\ col' = col + 1 /\ i' = 0
      /\ UNCHANGED <<bytemap, len, null_count, bitmap, arr_len>>
  BY DEF EndColumn
<1>2. /\ col \in Columns /\ col \in Nat /\ i \in 0 .. len /\ len \in Nat
      /\ has_bitmap \in [Columns -> BOOLEAN]
  BY <1>1, CapacityAssumption, ColumnsAssumption DEF Inv, Typed, Columns
<1>3. /\ has_bitmap' \in [Columns -> BOOLEAN]
      /\ has_bitmap'[col] <=> null_count > 0
      /\ \A c \in Columns \ {col} : has_bitmap'[c] = has_bitmap[c]
  <2> DEFINE kept == null_count > 0
  <2>1. kept \in BOOLEAN /\ has_bitmap' = [has_bitmap EXCEPT ![col] = kept]
    BY <1>1
  <2> HIDE DEF kept
  <2>2. /\ has_bitmap' \in [Columns -> BOOLEAN] /\ has_bitmap'[col] = kept
        /\ \A c \in Columns \ {col} : has_bitmap'[c] = has_bitmap[c]
    BY <1>2, <2>1, Zenon
  <2>3. QED BY <2>2 DEF kept
<1>4. Typed'
  BY <1>1, <1>2, <1>3, ColumnsAssumption DEF Inv, Typed, Rows, Columns, Bitmaps
<1>5. ColumnsDone'
  <2>1. ASSUME NEW c \in 0 .. col
        PROVE  /\ has_bitmap'[c] <=> null_count > 0
               /\ null_count > 0 => Copied(c, len)
    <3>1. CASE c = col
      <4>1. null_count > 0 => i = len
        BY <1>1, <1>2
      <4>2. QED BY <1>1, <1>3, <3>1, <4>1 DEF Inv, ColumnUnderWay
    <3>2. CASE c # col
      <4>1. c \in 0 .. col - 1 /\ c \in Columns \ {col}
        BY <1>1, <1>2, <3>2, ColumnsAssumption DEF Columns
      <4>2. QED BY <1>3, <4>1 DEF Inv, ColumnsDone
    <3>3. QED BY <3>1, <3>2
  <2>2. col' - 1 = col
    BY <1>1, <1>2
  <2>3. \A c \in 0 .. col : Copied(c, len)' <=> Copied(c, len)
    BY <1>1 DEF Copied, GetNullBit
  <2>4. QED BY <1>1, <2>1, <2>2, <2>3 DEF ColumnsDone, Copied, GetNullBit
<1>6. ColumnUnderWay'
  BY <1>1 DEF ColumnUnderWay, Copied
<1>7. NoneNull'
  BY <1>1 DEF Inv, NoneNull, Rows
<1>8. TableDone'
  BY <1>1, <1>2, ColumnsAssumption DEF Inv, TableDone
<1>9. QED BY <1>4, <1>5, <1>6, <1>7, <1>8 DEF Inv

LEMMA NextInv == Inv /\ [Next]_vars => Inv'
<1>1. ASSUME Inv, EndTable PROVE Inv'
  BY <1>1 DEF EndTable, Inv, Typed, NoneNull, ColumnsDone, ColumnUnderWay, TableDone, Copied,
     GetNullBit, Rows, Columns, Bitmaps
<1>2. ASSUME Inv, UNCHANGED vars PROVE Inv'
  BY <1>2 DEF vars, Inv, Typed, NoneNull, ColumnsDone, ColumnUnderWay, TableDone, Copied,
     GetNullBit, Rows, Columns, Bitmaps
<1>3. QED BY <1>1, <1>2, SetBitInv, EndColumnInv DEF Next

LEMMA Invariance == Spec => []Inv
BY InitInv, NextInv, PTL DEF Spec

-----------------------------------------------------------------------------
(* The theorems.                                                           *)

(* Every column of the finished table has exactly the rows the loop said   *)
(* are valid: for any rows, columns, and bits in fresh memory, and a       *)
(* capacity that is a multiple of 8.                                       *)
THEOREM BitmapsFaithful == Spec => []Faithful
<1>1. ASSUME Inv, arr_len # -1, NEW c \in Columns, NEW k \in 0 .. len - 1
      PROVE  RowValid(c, k) <=> bytemap[k]
  <2>1. c \in 0 .. col - 1
    BY <1>1, ColumnsAssumption DEF Inv, TableDone, Columns
  <2>2. CASE null_count > 0
    BY <1>1, <2>1, <2>2 DEF Inv, ColumnsDone, Copied, RowValid
  <2>3. CASE null_count = 0
    <3>1. bytemap[k] /\ ~has_bitmap[c]
      BY <1>1, <2>1, <2>3 DEF Inv, NoneNull, ColumnsDone, Rows
    <3>2. QED BY <3>1 DEF RowValid
  <2>4. null_count > 0 \/ null_count = 0
    BY <1>1 DEF Inv, Typed
  <2>5. QED BY <2>2, <2>3, <2>4
<1>2. Inv => Faithful
  BY <1>1 DEF Faithful
<1>3. QED BY <1>2, Invariance, PTL

(* The words that are read and written lie in the bitmap, as the capacity  *)
(* is a multiple of 8 and a byte more is allocated.                        *)
THEOREM AccessWithinBitmap == Spec => []WithinBitmap
<1>1. ASSUME Inv, col < NCols, i < len
      PROVE  2 * (i \div 16) + 2 <= AllocBytes
  <2>1. i \in 0 .. Capacity - 1
    BY <1>1, CapacityAssumption DEF Inv, Typed
  <2>2. QED BY <2>1, RowBits
<1>2. Inv => WithinBitmap
  BY <1>1 DEF WithinBitmap
<1>3. QED BY <1>2, Invariance, PTL
=============================================================================
