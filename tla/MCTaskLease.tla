---------------------------- MODULE MCTaskLease ----------------------------
(* TaskLease on small sets.                                                *)
EXTENDS TaskLease

CONSTANTS t1, w1, c1, c2, r1, r2

MCOneTask == {t1}
MCOneWorker == {w1}
MCClients == {c1, c2}
MCRequests == {r1, r2}
=============================================================================
