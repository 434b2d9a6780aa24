---------------------------- MODULE RelationScan ----------------------------
(***************************************************************************)
(* What a query promises: it lists the values of its answer one by one in  *)
(* ascending order, leaves none out, and ends.                             *)
(***************************************************************************)
EXTENDS Integers

CONSTANT AnswerOf(_)    (* The answer of a query: a set of integers.       *)

VARIABLES
  q,        (* The query.                                                  *)
  listed,   (* The values listed so far.                                   *)
  done      (* Has the query ended.                                        *)

Init ==
  /\ listed = {}
  /\ done = FALSE

List ==
  /\ ~done
  /\ LET left == AnswerOf(q) \ listed
     IN  \E t \in left :
           /\ \A u \in left : t <= u
           /\ listed' = listed \union {t}
  /\ UNCHANGED <<q, done>>

End ==
  /\ ~done
  /\ AnswerOf(q) \subseteq listed
  /\ done' = TRUE
  /\ UNCHANGED <<q, listed>>

Next == List \/ End

(* The steps a query may take, and that it takes them.                     *)
Steps == Init /\ [][Next]_<<q, listed, done>>
Spec == Steps /\ WF_<<q, listed, done>>(Next)
=============================================================================
