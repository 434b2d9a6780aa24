----------------------- MODULE KernelPartitionProofs ------------------------
(***************************************************************************)
(* The threads of every launch share its elements exactly, whatever the    *)
(* sizes, as long as the products of the sizes fit a word.                 *)
(***************************************************************************)
EXTENDS KernelPartition, TLAPS

-----------------------------------------------------------------------------
(* Products and quotients of naturals.                                     *)

LEMMA ProductNat == ASSUME NEW a \in Nat, NEW b \in Nat PROVE a * b \in Nat
  BY SMT

LEMMA ProductMono ==
  ASSUME NEW a \in Nat, NEW b \in Nat, NEW c \in Nat, a <= b
  PROVE  a * c <= b * c
<1>1. b = a + (b - a) /\ b - a \in Nat
  OBVIOUS
<1>2. b * c = a * c + (b - a) * c
  BY <1>1
<1>3. (b - a) * c \in Nat
  BY <1>1, ProductNat
<1>4. QED BY <1>2, <1>3, ProductNat

LEMMA Quotient ==
  ASSUME NEW m \in Nat, NEW p \in Nat, p > 0
  PROVE  /\ m \div p \in Nat
         /\ p * (m \div p) <= m
         /\ m < p * (m \div p) + p
  BY SMT

(* A sum or a product that fits is not changed by the word.                *)
LEMMA NoWrap == ASSUME NEW m \in Nat, m < Word PROVE m % Word = m
  BY WordAssumption

(* One that has just passed either end of the word is moved by the word.   *)
LEMMA Wrap ==
  ASSUME NEW m \in Nat, Word <= m, m < 2 * Word
  PROVE  m % Word = m - Word
  BY WordAssumption

LEMMA Borrow ==
  ASSUME NEW m \in Int, m < 0, 0 <= m + Word
  PROVE  m % Word = m + Word
  BY WordAssumption

LEMMA WordNat == Word \in Nat /\ Word > 0
  BY WordAssumption

LEMMA CeilDivBounds ==
  ASSUME NEW a \in Nat, NEW p \in Nat, p > 0, a + p < Word
  PROVE  /\ CeilDiv(a, p) \in Nat
         /\ a <= p * CeilDiv(a, p)
         /\ p * CeilDiv(a, p) <= a + p - 1
<1>1. Plus(a, p) = a + p
  BY NoWrap DEF Plus
<1>2. Minus(a + p, 1) = a + p - 1
  BY NoWrap, WordNat DEF Minus
<1>3. CeilDiv(a, p) = (a + p - 1) \div p
  BY <1>1, <1>2 DEF CeilDiv
<1>4. a + p - 1 \in Nat
  OBVIOUS
<1>5. /\ (a + p - 1) \div p \in Nat
      /\ p * ((a + p - 1) \div p) <= a + p - 1
      /\ a + p - 1 < p * ((a + p - 1) \div p) + p
  BY <1>4, Quotient
<1>6. p * ((a + p - 1) \div p) \in Nat
  BY <1>5, ProductNat
<1>7. QED BY <1>3, <1>5, <1>6

-----------------------------------------------------------------------------
(* The sizes of a launch, and its blocks.                                  *)

LEMMA Sizes ==
  ASSUME IsLaunch(launch)
  PROVE  /\ launch.n \in Nat
         /\ launch.gdim \in Nat /\ launch.gdim > 0
         /\ launch.bdim \in Nat /\ launch.bdim > 0
         /\ (launch.n + launch.bdim) * launch.bdim \in Nat
         /\ (launch.n + launch.bdim) * launch.bdim + launch.n + launch.gdim < Word
         /\ launch.n + launch.gdim < Word
         /\ launch.n + launch.bdim < Word
<1> DEFINE n == launch.n  g == launch.gdim  d == launch.bdim
<1>1. n \in Nat /\ g \in Nat /\ d \in Nat /\ g > 0 /\ d > 0
  BY DEF IsLaunch
<1>2. (n + g) * (d + 1) + d * d < Word
  BY DEF IsLaunch
<1>3. n * d \in Nat /\ g * d \in Nat /\ d * d \in Nat
  BY <1>1, ProductNat
<1>4. (n + g) * (d + 1) = n * d + g * d + n + g
  BY <1>1
<1>5. (n + d) * d = n * d + d * d
  BY <1>1
<1>6. d <= d * d
  <2>1. 1 * d <= d * d
    BY <1>1, ProductMono
  <2>2. QED BY <1>1, <2>1
<1>7. QED BY <1>1, <1>2, <1>3, <1>4, <1>5, <1>6, WordNat

LEMMA PerBlock ==
  ASSUME IsLaunch(launch)
  PROVE  /\ ElemPerBlock \in Nat
         /\ launch.gdim * ElemPerBlock \in Nat
         /\ launch.n <= launch.gdim * ElemPerBlock
         /\ launch.gdim * ElemPerBlock < launch.n + launch.gdim
<1>1. /\ ElemPerBlock \in Nat
      /\ launch.n <= launch.gdim * ElemPerBlock
      /\ launch.gdim * ElemPerBlock <= launch.n + launch.gdim - 1
  BY Sizes, CeilDivBounds DEF ElemPerBlock
<1>2. launch.gdim * ElemPerBlock \in Nat
  BY <1>1, Sizes, ProductNat
<1>3. QED BY <1>1, <1>2, Sizes

(* Where the block of a thread starts and ends.                            *)
LEMMA Blocks ==
  ASSUME IsLaunch(launch), NEW th \in Threads
  PROVE  /\ Bid(th) \in 0 .. launch.gdim - 1
         /\ Tid(th) \in 0 .. launch.bdim - 1
         /\ Bid(th) * ElemPerBlock \in Nat
         /\ Bid(th) * ElemPerBlock + ElemPerBlock <= launch.gdim * ElemPerBlock
         /\ BlockStart(th) = Bid(th) * ElemPerBlock
         /\ BlockEnd(th) = Least(BlockStart(th) + ElemPerBlock, launch.n)
<1> DEFINE E == ElemPerBlock
<1>1. Bid(th) \in 0 .. launch.gdim - 1 /\ Tid(th) \in 0 .. launch.bdim - 1
  BY DEF Threads, Bid, Tid
<1>2. Bid(th) \in Nat /\ Bid(th) + 1 \in Nat /\ Bid(th) + 1 <= launch.gdim
  BY <1>1, Sizes
<1>3. (Bid(th) + 1) * E <= launch.gdim * E
  BY <1>2, PerBlock, Sizes, ProductMono
<1>4. (Bid(th) + 1) * E = Bid(th) * E + E
  BY <1>2, PerBlock
<1>5. Bid(th) * E \in Nat
  BY <1>2, PerBlock, ProductNat
<1>6. Bid(th) * E + E < Word
  BY <1>3, <1>4, <1>5, PerBlock, Sizes, WordNat
<1>7. BlockStart(th) = Bid(th) * E
  BY <1>5, <1>6, PerBlock, NoWrap, WordNat DEF BlockStart, Times
<1>8. Plus(BlockStart(th), E) = BlockStart(th) + E
  BY <1>5, <1>6, <1>7, PerBlock, NoWrap DEF Plus
<1>9. QED BY <1>1, <1>3, <1>4, <1>5, <1>7, <1>8 DEF BlockEnd

(* A block that starts among the elements: its threads follow each other   *)
(* in steps of ElemPerThread and the last ends where the block does.       *)
LEMMA LiveBlock ==
  ASSUME IsLaunch(launch), NEW th \in Threads, BlockStart(th) <= launch.n
  PROVE  /\ ElemPerThread(th) \in Nat
         /\ BlockEnd(th) - BlockStart(th) \in Nat
         /\ launch.bdim * ElemPerThread(th) \in Nat
         /\ BlockEnd(th) - BlockStart(th) <= launch.bdim * ElemPerThread(th)
         /\ Tid(th) * ElemPerThread(th) \in Nat
         /\ StartIdx(th) = BlockStart(th) + Tid(th) * ElemPerThread(th)
         /\ EndIdx(th) = Least(StartIdx(th) + ElemPerThread(th), BlockEnd(th))
<1> DEFINE d == launch.bdim  P == ElemPerThread(th)  span == BlockEnd(th) - BlockStart(th)
<1>1. /\ BlockStart(th) \in Nat /\ BlockEnd(th) \in Nat
      /\ span \in Nat /\ BlockEnd(th) <= launch.n
  BY Blocks, PerBlock, Sizes DEF Least
<1>2. Minus(BlockEnd(th), BlockStart(th)) = span
  BY <1>1, Sizes, NoWrap, WordNat DEF Minus
<1>3. P \in Nat /\ span <= d * P /\ d * P <= span + d - 1
  <2>1. /\ d \in Nat /\ d > 0 /\ launch.n \in Nat /\ launch.n + d < Word
    BY Sizes
  <2>2. span + d < Word
    BY <2>1, <1>1, WordNat
  <2>3. P = CeilDiv(span, d)
    BY <1>2 DEF ElemPerThread
  <2> HIDE DEF span, P, d
  <2>4. QED BY <1>1, <2>1, <2>2, <2>3, CeilDivBounds
<1>4. Tid(th) \in Nat /\ Tid(th) + 1 \in Nat /\ Tid(th) + 1 <= d
  BY Blocks, Sizes
<1>5. (Tid(th) + 1) * P <= d * P
  BY <1>3, <1>4, Sizes, ProductMono
<1>6. (Tid(th) + 1) * P = Tid(th) * P + P
  BY <1>3, <1>4
<1>7. Tid(th) * P \in Nat /\ d * P \in Nat
  BY <1>3, <1>4, Sizes, ProductNat
<1>8. BlockStart(th) + Tid(th) * P + P < Word
  <2>1. BlockStart(th) + Tid(th) * P + P <= BlockStart(th) + span + d - 1
    BY <1>1, <1>3, <1>5, <1>6, <1>7, Sizes
  <2>2. QED BY <2>1, <1>1, <1>3, <1>7, Sizes, WordNat
<1>9. Times(Tid(th), P) = Tid(th) * P
  BY <1>1, <1>3, <1>7, <1>8, NoWrap, WordNat DEF Times
<1>10. StartIdx(th) = BlockStart(th) + Tid(th) * P
  BY <1>1, <1>3, <1>7, <1>8, <1>9, NoWrap, WordNat DEF StartIdx, Plus
<1>11. Plus(StartIdx(th), P) = StartIdx(th) + P
  BY <1>1, <1>3, <1>7, <1>8, <1>10, NoWrap DEF Plus
<1>12. QED BY <1>1, <1>3, <1>7, <1>10, <1>11 DEF EndIdx

(* A block beyond the elements: the differences wrap, and no thread finds  *)
(* anything to do.                                                         *)
LEMMA DeadBlock ==
  ASSUME IsLaunch(launch), NEW th \in Threads, BlockStart(th) > launch.n
  PROVE  /\ StartIdx(th) \in Nat /\ EndIdx(th) \in Nat
         /\ EndIdx(th) <= launch.n
         /\ launch.n <= StartIdx(th)
<1> DEFINE n == launch.n  g == launch.gdim  d == launch.bdim
           over == BlockStart(th) - n
           P == ElemPerThread(th)
<1>0. /\ n \in Nat /\ g \in Nat /\ d \in Nat /\ Word \in Nat
      /\ g > 0 /\ d > 0 /\ n + g < Word /\ n + d < Word
  BY Sizes, WordNat
<1>1. /\ BlockStart(th) \in Nat /\ BlockEnd(th) = n
      /\ over \in Nat /\ 0 < over /\ over < g
      /\ Tid(th) \in Nat /\ Tid(th) < d
  BY Blocks, PerBlock, Sizes DEF Least
<1>2. Minus(BlockEnd(th), BlockStart(th)) = Word - over
  <2>1. BlockEnd(th) - BlockStart(th) \in Int /\ BlockEnd(th) - BlockStart(th) = 0 - over
    BY <1>0, <1>1
  <2>2. QED BY <2>1, <1>0, <1>1, Borrow DEF Minus
<1>3. StartIdx(th) \in Nat /\ n <= StartIdx(th)
  <2>1. CASE over < d
    <3>1. Plus(Word - over, d) = d - over
      BY <1>0, <1>1, <2>1, Wrap DEF Plus
    <3>2. Minus(d - over, 1) = d - over - 1
      BY <1>0, <1>1, <2>1, NoWrap DEF Minus
    <3>3. (d - over - 1) \div d = 0
      BY <1>0, <1>1, <2>1, Quotient
    <3>4. P = 0
      BY <1>2, <3>1, <3>2, <3>3 DEF ElemPerThread, CeilDiv
    <3>5. Times(Tid(th), P) = 0
      BY <3>4, <1>1, WordNat DEF Times
    <3>6. BlockStart(th) < Word
      BY <1>0, <1>1
    <3>7. StartIdx(th) = BlockStart(th)
      BY <1>1, <3>5, <3>6, NoWrap DEF StartIdx, Plus
    <3>8. QED BY <1>0, <1>1, <3>7
  <2>2. CASE d <= over
    <3> DEFINE X == Word - over + d - 1
    <3>1. /\ X \in Nat /\ X < Word
          /\ (n + d) * d + n + d <= X
      BY <1>1, <2>2, Sizes, WordNat
    <3>2. Minus(Plus(Word - over, d), 1) = X
      <4>1. CASE over = d
        <5>1. Plus(Word - over, d) = 0
          BY <4>1, <1>0, <1>1, Wrap DEF Plus
        <5>2. Minus(0, 1) = Word - 1
          BY <1>0, Borrow DEF Minus
        <5>3. QED BY <4>1, <5>1, <5>2, <1>0
      <4>2. CASE d < over
        <5>0. Word - over + d \in Nat /\ Word - over + d < Word
          BY <4>2, <1>0, <1>1, <3>1
        <5>1. Plus(Word - over, d) = Word - over + d
          BY <5>0, NoWrap DEF Plus
        <5>2. Minus(Word - over + d, 1) = X
          BY <4>2, <1>0, <1>1, <3>1, NoWrap DEF Minus
        <5>3. QED BY <5>1, <5>2
      <4>3. QED BY <2>2, <4>1, <4>2, <1>0, <1>1
    <3>3. P = X \div d
      BY <1>2, <3>2 DEF ElemPerThread, CeilDiv
    <3>4. P \in Nat /\ d * P <= X /\ X < d * P + d
      BY <3>1, <3>3, Sizes, Quotient
    <3>5. n + d <= P
      <4>1. CASE P < n + d
        <5>1. P * d <= (n + d) * d
          BY <4>1, <3>4, Sizes, ProductMono
        <5>2. P * d = d * P /\ P * d \in Nat
          BY <3>4, Sizes, ProductNat
        <5>3. QED BY <5>1, <5>2, <3>1, <3>4, Sizes
      <4>2. QED BY <4>1, <3>4, Sizes
    <3>6. Tid(th) * P \in Nat /\ Tid(th) * P + P <= X
      <4>1. (Tid(th) + 1) * P <= d * P
        BY <1>1, <3>4, Sizes, ProductMono
      <4>2. (Tid(th) + 1) * P = Tid(th) * P + P
        BY <1>1, <3>4
      <4>3. QED BY <4>1, <4>2, <1>1, <3>4, <3>1, ProductNat, Sizes
    <3>7. BlockStart(th) + Tid(th) * P < Word
      BY <1>1, <3>1, <3>5, <3>6, <3>4, Sizes, WordNat
    <3>8. StartIdx(th) = BlockStart(th) + Tid(th) * P
      BY <1>1, <3>6, <3>7, NoWrap, WordNat DEF StartIdx, Plus, Times
    <3>9. QED BY <1>1, <3>6, <3>8, Sizes
  <2>3. QED BY <2>1, <2>2, <1>1, Sizes
<1>4. P \in Nat
  <2>1. /\ Minus(BlockEnd(th), BlockStart(th)) \in Nat
        /\ \A a \in Nat : Minus(Plus(a, d), 1) \in Nat
    BY <1>0, <1>1, WordAssumption DEF Minus, Plus
  <2>2. QED BY <2>1, <1>0, Quotient DEF ElemPerThread, CeilDiv
<1>5. Plus(StartIdx(th), P) \in Nat
  BY <1>3, <1>4, WordNat DEF Plus
<1>6. QED BY <1>1, <1>3, <1>5, Sizes DEF EndIdx, Least

-----------------------------------------------------------------------------
(* The share of a thread, which is what it is to process.                  *)
InShare(th, i) == StartIdx(th) <= i /\ i < EndIdx(th)

LEMMA Shares ==
  ASSUME IsLaunch(launch), NEW th \in Threads
  PROVE  /\ StartIdx(th) \in Nat /\ EndIdx(th) \in Nat
         /\ EndIdx(th) <= launch.n
<1>0. launch.n \in Nat /\ BlockStart(th) \in Nat /\ ElemPerBlock \in Nat
  BY Sizes, Blocks, PerBlock
<1>1. CASE BlockStart(th) <= launch.n
  <2>1. BlockEnd(th) \in Nat /\ BlockEnd(th) <= launch.n
    <3>1. BlockEnd(th) = Least(BlockStart(th) + ElemPerBlock, launch.n)
      BY Blocks
    <3>2. QED BY <1>0, <3>1 DEF Least
  <2>2. /\ ElemPerThread(th) \in Nat
        /\ Tid(th) * ElemPerThread(th) \in Nat
        /\ StartIdx(th) = BlockStart(th) + Tid(th) * ElemPerThread(th)
        /\ EndIdx(th) = Least(StartIdx(th) + ElemPerThread(th), BlockEnd(th))
    BY <1>1, LiveBlock
  <2>3. StartIdx(th) \in Nat
    BY <1>0, <2>2
  <2>4. /\ StartIdx(th) + ElemPerThread(th) \in Nat
        /\ EndIdx(th) = StartIdx(th) + ElemPerThread(th) \/ EndIdx(th) = BlockEnd(th)
        /\ EndIdx(th) <= BlockEnd(th)
    BY <2>1, <2>2, <2>3 DEF Least
  <2>5. QED BY <1>0, <2>1, <2>2, <2>3, <2>4
<1>2. CASE BlockStart(th) > launch.n
  BY <1>2, DeadBlock
<1>3. QED BY <1>0, <1>1, <1>2

(* An element in the share of a thread is in the thread's block, and in    *)
(* the thread's slice of it.                                               *)
LEMMA InBlock ==
  ASSUME IsLaunch(launch), NEW th \in Threads, NEW i \in Nat, InShare(th, i)
  PROVE  /\ BlockStart(th) <= launch.n
         /\ Bid(th) * ElemPerBlock <= i
         /\ i < Bid(th) * ElemPerBlock + ElemPerBlock
         /\ Tid(th) * ElemPerThread(th) <= i - BlockStart(th)
         /\ i - BlockStart(th) < Tid(th) * ElemPerThread(th) + ElemPerThread(th)
<1>0. /\ launch.n \in Nat /\ ElemPerBlock \in Nat
      /\ Bid(th) * ElemPerBlock \in Nat
      /\ BlockStart(th) = Bid(th) * ElemPerBlock
  BY Sizes, Blocks, PerBlock
<1>1. BlockStart(th) <= launch.n
  <2>1. CASE BlockStart(th) > launch.n
    BY <2>1, <1>0, DeadBlock DEF InShare
  <2>2. QED BY <2>1, <1>0
<1>2. BlockEnd(th) = Least(BlockStart(th) + ElemPerBlock, launch.n)
  BY Blocks
<1>3. /\ ElemPerThread(th) \in Nat
      /\ Tid(th) * ElemPerThread(th) \in Nat
      /\ StartIdx(th) = BlockStart(th) + Tid(th) * ElemPerThread(th)
      /\ EndIdx(th) = Least(StartIdx(th) + ElemPerThread(th), BlockEnd(th))
  BY <1>1, LiveBlock
<1>4. QED BY <1>0, <1>1, <1>2, <1>3 DEF InShare, Least

(* Intervals of one length that start at its multiples do not meet.        *)
LEMMA Slot ==
  ASSUME NEW a \in Nat, NEW b \in Nat, NEW e \in Nat, NEW i \in Nat,
         a * e <= i, i < a * e + e, b * e <= i, i < b * e + e
  PROVE  a = b
<1>1. a * e \in Nat /\ b * e \in Nat
  BY ProductNat
<1>2. (a + 1) * e = a * e + e /\ (b + 1) * e = b * e + e
  OBVIOUS
<1>3. ~(a < b)
  <2>1. CASE a < b
    <3>1. (a + 1) * e <= b * e
      BY <2>1, ProductMono
    <3>2. QED BY <3>1, <1>1, <1>2
  <2>2. QED BY <2>1
<1>4. ~(b < a)
  <2>1. CASE b < a
    <3>1. (b + 1) * e <= a * e
      BY <2>1, ProductMono
    <3>2. QED BY <3>1, <1>1, <1>2
  <2>2. QED BY <2>1
<1>5. QED BY <1>3, <1>4

(* Every multiple of e up to d * e starts such an interval.                *)
LEMMA Slots ==
  ASSUME NEW d \in Nat, NEW e \in Nat, NEW i \in Nat, i < d * e
  PROVE  \E a \in 0 .. d - 1 : a * e \in Nat /\ a * e <= i /\ i < a * e + e
<1>1. e > 0
  <2>1. CASE e = 0
    BY <2>1
  <2>2. QED BY <2>1
<1> DEFINE a == i \div e
<1>2. a \in Nat /\ e * a <= i /\ i < e * a + e
  BY <1>1, Quotient
<1> HIDE DEF a
<1>3. a * e = e * a /\ a * e \in Nat
  BY <1>2, ProductNat
<1>4. a < d
  <2>1. CASE d <= a
    <3>1. d * e <= a * e
      BY <2>1, <1>2, ProductMono
    <3>2. d * e \in Nat
      BY ProductNat
    <3>3. QED BY <3>1, <3>2, <1>2, <1>3
  <2>2. QED BY <2>1, <1>2
<1>5. a \in 0 .. d - 1
  BY <1>2, <1>4
<1>6. a * e <= i /\ i < a * e + e
  BY <1>2, <1>3
<1>7. QED BY <1>3, <1>5, <1>6, Zenon

LEMMA Disjoint ==
  ASSUME IsLaunch(launch), NEW s \in Threads, NEW t \in Threads, NEW i \in Nat,
         InShare(s, i), InShare(t, i)
  PROVE  s = t
<1>1. /\ Bid(s) \in Nat /\ Tid(s) \in Nat /\ Bid(t) \in Nat /\ Tid(t) \in Nat
      /\ ElemPerBlock \in Nat
  BY Blocks, PerBlock, Sizes
<1>2. Bid(s) = Bid(t)
  BY <1>1, InBlock, Slot
<1>3. BlockStart(s) = BlockStart(t) /\ ElemPerThread(s) = ElemPerThread(t)
  BY <1>2 DEF ElemPerThread, BlockEnd, BlockStart
<1>4. /\ ElemPerThread(s) \in Nat /\ i - BlockStart(s) \in Nat
  <2>1. BlockStart(s) = Bid(s) * ElemPerBlock /\ Bid(s) * ElemPerBlock \in Nat
    BY Blocks
  <2>2. BlockStart(s) <= launch.n /\ Bid(s) * ElemPerBlock <= i
    BY InBlock
  <2>3. QED BY <2>1, <2>2, LiveBlock
<1>5. Tid(s) = Tid(t)
  <2> DEFINE P == ElemPerThread(s)  j == i - BlockStart(s)
  <2>1. /\ Tid(s) * P <= j /\ j < Tid(s) * P + P
        /\ Tid(t) * P <= j /\ j < Tid(t) * P + P
    BY <1>3, InBlock
  <2> HIDE DEF P, j
  <2>2. P \in Nat /\ j \in Nat
    BY <1>4 DEF P, j
  <2>3. QED BY <1>1, <2>1, <2>2, Slot
<1>6. QED BY <1>2, <1>5 DEF Threads, Bid, Tid

LEMMA Cover ==
  ASSUME IsLaunch(launch), NEW i \in 0 .. launch.n - 1
  PROVE  \E th \in Threads : InShare(th, i)
<1> DEFINE E == ElemPerBlock  n == launch.n  d == launch.bdim
<1>1. /\ E \in Nat /\ n \in Nat /\ i \in Nat /\ i < n
      /\ launch.gdim \in Nat /\ launch.gdim * E \in Nat
      /\ d \in Nat /\ d > 0 /\ i < launch.gdim * E
  BY Sizes, PerBlock
<1>2. PICK b \in 0 .. launch.gdim - 1 : b * E \in Nat /\ b * E <= i /\ i < b * E + E
  BY <1>1, Slots
<1> DEFINE first == <<b, 0>>  P == ElemPerThread(first)  span == BlockEnd(first) - BlockStart(first)
<1>3. first \in Threads /\ Bid(first) = b
  BY <1>1 DEF Threads, Bid
<1>4. /\ BlockStart(first) = b * E /\ BlockEnd(first) = Least(b * E + E, n)
  BY <1>3, Blocks
<1>5. BlockStart(first) <= n /\ i - BlockStart(first) \in Nat /\ i - BlockStart(first) < span
  BY <1>1, <1>2, <1>4 DEF Least
<1>6. P \in Nat /\ d * P \in Nat /\ span \in Nat /\ span <= d * P
  BY <1>3, <1>5, LiveBlock
<1>7. i - BlockStart(first) < d * P
  BY <1>5, <1>6
<1>8. PICK t \in 0 .. d - 1 :
         t * P \in Nat /\ t * P <= i - BlockStart(first) /\ i - BlockStart(first) < t * P + P
  <2> HIDE DEF P, first
  <2>1. QED BY <1>1, <1>5, <1>6, <1>7, Slots
<1> DEFINE th == <<b, t>>
<1>9. th \in Threads /\ Bid(th) = b /\ Tid(th) = t
  BY DEF Threads, Bid, Tid
<1>10. /\ BlockStart(th) = BlockStart(first) /\ BlockEnd(th) = BlockEnd(first)
       /\ ElemPerThread(th) = P
  BY <1>3, <1>9 DEF ElemPerThread, BlockEnd, BlockStart
<1>11. /\ StartIdx(th) = BlockStart(first) + t * P
       /\ EndIdx(th) = Least(StartIdx(th) + P, BlockEnd(first))
  BY <1>5, <1>9, <1>10, LiveBlock
<1>12. InShare(th, i)
  BY <1>1, <1>2, <1>4, <1>5, <1>6, <1>8, <1>11 DEF InShare, Least
<1>13. QED BY <1>9, <1>12

-----------------------------------------------------------------------------
(* The invariant: a thread walks its share from its start to its end, and  *)
(* has written exactly what it has walked.                                 *)
TypeOK ==
  /\ launch \in Launches
  /\ pc \in [Threads -> {"init", "loop", "exit"}]
  /\ idx \in [Threads -> Nat]
  /\ DOMAIN writers = 0 .. launch.n - 1

Walked(th) ==
  /\ pc[th] = "loop" => /\ StartIdx(th) <= idx[th]
                        /\ idx[th] <= EndIdx(th) \/ idx[th] = StartIdx(th)
  /\ pc[th] = "exit" => idx[th] >= EndIdx(th)

Wrote(th, i) ==
  th \in writers[i] <=> pc[th] # "init" /\ InShare(th, i) /\ i < idx[th]

Inv ==
  /\ TypeOK
  /\ \A th \in Threads : Walked(th)
  /\ \A th \in Threads : \A i \in 0 .. launch.n - 1 : Wrote(th, i)

LEMMA Launched == ASSUME Inv PROVE IsLaunch(launch)
  BY LaunchAssumption DEF Inv, TypeOK

(* The shares depend on nothing but the launch.                            *)
LEMMA Fixed ==
  ASSUME launch' = launch
  PROVE  /\ Threads' = Threads
         /\ \A th : StartIdx(th)' = StartIdx(th) /\ EndIdx(th)' = EndIdx(th)
  BY DEF Threads, StartIdx, EndIdx, ElemPerThread, BlockEnd, BlockStart, ElemPerBlock, Bid, Tid

LEMMA InitInv == Init => Inv
<1> SUFFICES ASSUME Init PROVE Inv
  OBVIOUS
<1>1. TypeOK
  BY DEF Init, TypeOK
<1>2. \A th \in Threads : Walked(th)
  BY DEF Init, Walked
<1>3. \A th \in Threads : \A i \in 0 .. launch.n - 1 : Wrote(th, i)
  BY DEF Init, Wrote
<1>4. QED BY <1>1, <1>2, <1>3 DEF Inv

LEMMA BeginInv ==
  ASSUME Inv, NEW s \in Threads, Begin(s)
  PROVE  Inv'
<1>0. /\ TypeOK /\ IsLaunch(launch) /\ launch' = launch
      /\ Threads' = Threads
      /\ \A th : StartIdx(th)' = StartIdx(th) /\ EndIdx(th)' = EndIdx(th)
  BY Launched, Fixed DEF Begin, Inv
<1>1. /\ pc[s] = "init" /\ pc' = [pc EXCEPT ![s] = "loop"]
      /\ idx' = [idx EXCEPT ![s] = StartIdx(s)] /\ writers' = writers
  BY DEF Begin
<1>2. StartIdx(s) \in Nat
  BY <1>0, Shares
<1>3. TypeOK'
  BY <1>0, <1>1, <1>2 DEF TypeOK
<1>4. ASSUME NEW th \in Threads PROVE Walked(th)'
  <2>1. CASE th = s
    BY <2>1, <1>0, <1>1, <1>2 DEF Walked, TypeOK
  <2>2. CASE th # s
    BY <2>2, <1>0, <1>1 DEF Walked, TypeOK, Inv
  <2>3. QED BY <2>1, <2>2
<1>5. ASSUME NEW th \in Threads, NEW i \in 0 .. launch.n - 1 PROVE Wrote(th, i)'
  <2>1. CASE th = s
    <3>1. th \notin writers[i]
      BY <2>1, <1>1 DEF Inv, Wrote
    <3>2. idx'[th] = StartIdx(th)
      BY <2>1, <1>0, <1>1 DEF TypeOK
    <3>3. ~(StartIdx(th) <= i /\ i < StartIdx(th))
      BY <2>1, <1>2
    <3>4. QED BY <3>1, <3>2, <3>3, <1>0, <1>1 DEF Wrote, InShare
  <2>2. CASE th # s
    BY <2>2, <1>0, <1>1 DEF Wrote, InShare, TypeOK, Inv
  <2>3. QED BY <2>1, <2>2
<1>6. QED BY <1>0, <1>3, <1>4, <1>5 DEF Inv

LEMMA BodyInv ==
  ASSUME Inv, NEW s \in Threads, Body(s)
  PROVE  Inv'
<1>0. /\ TypeOK /\ IsLaunch(launch) /\ launch' = launch
      /\ Threads' = Threads
      /\ \A th : StartIdx(th)' = StartIdx(th) /\ EndIdx(th)' = EndIdx(th)
  BY Launched, Fixed DEF Body, Inv
<1>1. /\ pc[s] = "loop" /\ idx[s] < EndIdx(s) /\ pc' = pc
      /\ idx' = [idx EXCEPT ![s] = Plus(idx[s], 1)]
      /\ writers' = [i \in DOMAIN writers |->
                       IF i = idx[s] THEN writers[i] \union {s} ELSE writers[i]]
  BY DEF Body
<1>2. /\ StartIdx(s) \in Nat /\ EndIdx(s) \in Nat /\ EndIdx(s) <= launch.n
      /\ idx[s] \in Nat /\ launch.n \in Nat /\ launch.n < Word
  BY <1>0, Shares, Sizes, WordNat DEF TypeOK
<1>3. Plus(idx[s], 1) = idx[s] + 1
  <2>1. idx[s] + 1 \in Nat /\ idx[s] + 1 < Word
    BY <1>1, <1>2, WordNat
  <2>2. QED BY <2>1, NoWrap DEF Plus
<1>4. StartIdx(s) <= idx[s]
  BY <1>1 DEF Inv, Walked
<1>5. TypeOK'
  BY <1>0, <1>1, <1>2, <1>3 DEF TypeOK
<1>6. ASSUME NEW th \in Threads PROVE Walked(th)'
  <2>1. CASE th = s
    BY <2>1, <1>0, <1>1, <1>2, <1>3, <1>4 DEF Walked, TypeOK
  <2>2. CASE th # s
    BY <2>2, <1>0, <1>1 DEF Walked, TypeOK, Inv
  <2>3. QED BY <2>1, <2>2
<1>7. ASSUME NEW th \in Threads, NEW i \in 0 .. launch.n - 1 PROVE Wrote(th, i)'
  <2>0. /\ th \in writers[i] <=> pc[th] # "init" /\ InShare(th, i) /\ i < idx[th]
        /\ writers'[i] = IF i = idx[s] THEN writers[i] \union {s} ELSE writers[i]
        /\ i \in Int
    BY <1>0, <1>1 DEF Inv, Wrote, TypeOK
  <2>1. CASE th = s
    <3>1. idx'[s] = idx[s] + 1
      BY <1>0, <1>1, <1>3 DEF TypeOK
    <3>2. i = idx[s] => InShare(s, i)
      BY <1>1, <1>4 DEF InShare
    <3>3. i < idx[s] + 1 <=> i < idx[s] \/ i = idx[s]
      BY <2>0, <1>2
    <3>4. s \in writers'[i] <=> s \in writers[i] \/ i = idx[s]
      BY <2>0
    <3>5. QED BY <2>0, <2>1, <3>1, <3>2, <3>3, <3>4, <1>0, <1>1 DEF Wrote, InShare
  <2>2. CASE th # s
    BY <2>0, <2>2, <1>0, <1>1 DEF Wrote, InShare, TypeOK
  <2>3. QED BY <2>1, <2>2
<1>8. QED BY <1>0, <1>5, <1>6, <1>7 DEF Inv

LEMMA ExitInv ==
  ASSUME Inv, NEW s \in Threads, Exit(s)
  PROVE  Inv'
<1>0. /\ TypeOK /\ launch' = launch
      /\ Threads' = Threads
      /\ \A th : StartIdx(th)' = StartIdx(th) /\ EndIdx(th)' = EndIdx(th)
  BY Fixed DEF Exit, Inv
<1>1. /\ pc[s] = "loop" /\ idx[s] >= EndIdx(s) /\ pc' = [pc EXCEPT ![s] = "exit"]
      /\ idx' = idx /\ writers' = writers
  BY DEF Exit
<1>2. TypeOK'
  BY <1>0, <1>1 DEF TypeOK
<1>3. ASSUME NEW th \in Threads PROVE Walked(th)'
  BY <1>0, <1>1 DEF Walked, TypeOK, Inv
<1>4. ASSUME NEW th \in Threads, NEW i \in 0 .. launch.n - 1 PROVE Wrote(th, i)'
  BY <1>0, <1>1 DEF Wrote, InShare, TypeOK, Inv
<1>5. QED BY <1>0, <1>2, <1>3, <1>4 DEF Inv

LEMMA StepInv == Inv /\ [Next]_vars => Inv'
<1> SUFFICES ASSUME Inv, [Next]_vars PROVE Inv'
  OBVIOUS
<1>1. CASE Next
  BY <1>1, BeginInv, BodyInv, ExitInv DEF Next
<1>2. CASE UNCHANGED vars
  <2>1. /\ launch' = launch /\ pc' = pc /\ idx' = idx /\ writers' = writers
        /\ Threads' = Threads
        /\ \A th : StartIdx(th)' = StartIdx(th) /\ EndIdx(th)' = EndIdx(th)
    BY <1>2, Fixed DEF vars
  <2>2. QED BY <2>1 DEF Inv, TypeOK, Walked, Wrote, InShare
<1>3. QED BY <1>1, <1>2

-----------------------------------------------------------------------------
(* Every launch keeps the invariant: the type of the state, where each     *)
(* thread is on its walk, and which elements it has written.               *)
THEOREM KernelInvariant == Spec => []Inv
  BY InitInv, StepInv, PTL DEF Spec

(* The element a thread claims is in its share.                            *)
LEMMA ClaimInShare ==
  ASSUME Inv, NEW th \in Threads, NEW i \in 0 .. launch.n - 1, Claims(th, i)
  PROVE  InShare(th, i)
<1>1. CASE th \in writers[i]
  BY <1>1 DEF Inv, Wrote
<1>2. CASE pc[th] = "loop" /\ idx[th] = i /\ i < EndIdx(th)
  BY <1>2 DEF Inv, Walked, InShare
<1>3. QED BY <1>1, <1>2 DEF Claims

(* No two threads of a kernel write, or are about to write, one element of *)
(* the output, for any number of elements, blocks and threads.             *)
THEOREM OneWriterAlways == Spec => []OneWriter
<1>1. Inv => OneWriter
  <2> SUFFICES ASSUME Inv, NEW i \in DOMAIN writers,
                      NEW s \in Threads, NEW t \in Threads, Claims(s, i), Claims(t, i)
               PROVE  s = t
    BY DEF OneWriter
  <2>1. i \in 0 .. launch.n - 1 /\ i \in Nat /\ IsLaunch(launch)
    BY Launched, Sizes DEF Inv, TypeOK
  <2>2. InShare(s, i) /\ InShare(t, i)
    BY <2>1, ClaimInShare
  <2>3. QED BY <2>1, <2>2, Disjoint
<1>2. QED BY <1>1, KernelInvariant, PTL

(* No thread reads or writes beyond the arrays, the threads of the blocks  *)
(* past the last element, whose sizes wrap, included.                      *)
THEOREM WithinArraysAlways == Spec => []WithinArrays
<1>1. Inv => WithinArrays
  <2> SUFFICES ASSUME Inv, NEW th \in Threads, pc[th] = "loop", idx[th] < EndIdx(th)
               PROVE  idx[th] \in DOMAIN writers
    BY DEF WithinArrays
  <2>1. EndIdx(th) \in Nat /\ EndIdx(th) <= launch.n /\ launch.n \in Nat
    BY Launched, Shares, Sizes
  <2>2. idx[th] \in Nat /\ DOMAIN writers = 0 .. launch.n - 1
    BY DEF Inv, TypeOK
  <2>3. QED BY <2>1, <2>2
<1>2. QED BY <1>1, KernelInvariant, PTL

(* When every thread has returned every element has been written: the      *)
(* shares leave no gap.                                                    *)
THEOREM AllWrittenAlways == Spec => []AllWritten
<1>1. Inv => AllWritten
  <2> SUFFICES ASSUME Inv, \A th \in Threads : pc[th] = "exit", NEW i \in DOMAIN writers
               PROVE  writers[i] # {}
    BY DEF AllWritten
  <2>1. i \in 0 .. launch.n - 1 /\ i \in Nat /\ IsLaunch(launch)
    BY Launched, Sizes DEF Inv, TypeOK
  <2>2. PICK th \in Threads : InShare(th, i)
    BY <2>1, Cover
  <2>3. idx[th] >= EndIdx(th) /\ pc[th] = "exit" /\ idx[th] \in Nat /\ EndIdx(th) \in Nat
    BY <2>1, Shares DEF Inv, Walked, TypeOK
  <2>4. i < idx[th]
    BY <2>1, <2>2, <2>3 DEF InShare
  <2>5. th \in writers[i]
    BY <2>1, <2>2, <2>3, <2>4 DEF Inv, Wrote
  <2>6. QED BY <2>5
<1>2. QED BY <1>1, KernelInvariant, PTL
=============================================================================
