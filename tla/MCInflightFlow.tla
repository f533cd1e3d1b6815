--------------------------- MODULE MCInflightFlow ---------------------------
(* Instances of InflightFlow for TLC.                                      *)
EXTENDS InflightFlow

CONSTANTS t1, t2, r1, none

OneTask  == {t1}
TwoTasks == {t1, t2}
OneRead  == {r1}
NoReads  == {}
=============================================================================
