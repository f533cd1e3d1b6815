---------------------------- MODULE MCReplySend ----------------------------
(* Instances of ReplySend for TLC.                                         *)
EXTENDS ReplySend, TLC

CONSTANTS r1, r2, read, none

OneReply   == {r1}
TwoReplies == {r1, r2}
Symmetry   == Permutations(TwoReplies)
TaskLoop   == {"task"}
BothLoops  == {"task", "c2"}
=============================================================================
