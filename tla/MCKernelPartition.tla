------------------------- MODULE MCKernelPartition --------------------------
(***************************************************************************)
(* Instances of KernelPartition for TLC: every small launch, those with    *)
(* more blocks or threads than elements included.                          *)
(***************************************************************************)
EXTENDS KernelPartition

CONSTANTS MaxLen, MaxThreads

MCLaunches ==
  {l \in [n : 0 .. MaxLen, gdim : 1 .. MaxThreads, bdim : 1 .. MaxThreads] :
     l.gdim * l.bdim <= MaxThreads}
=============================================================================
