---------------------------- MODULE OneShotTasks ----------------------------
(***************************************************************************)
(* What the task centre promises about one task, whatever the number of   *)
(* workers, client instances and HTTP requests in flight: the task waits,  *)
(* is handed to at most one client, and once it is over it is never handed *)
(* out again.  Which terminal status it carries is not part of the promise: *)
(* a late cancellation may overwrite it.                                   *)
(***************************************************************************)
CONSTANTS Tasks, Clients

VARIABLES
    phase,      \* phase[t]: "waiting", "handed" (a client runs it) or "over"
    runners     \* runners[t]: the clients t was ever handed to

vars == <<phase, runners>>

Init == /\ phase \in [Tasks -> {"waiting"}]
        /\ runners = [t \in Tasks |-> {}]

\* The only way to a client: from "waiting", so at most once per task.
Hand(t, c) ==
    /\ phase[t] = "waiting"
    /\ phase' = [phase EXCEPT ![t] = "handed"]
    /\ runners' = [runners EXCEPT ![t] = {c}]

\* Completed, failed or cancelled, with or without having been handed out.
Close(t) ==
    /\ phase[t] # "over"
    /\ phase' = [phase EXCEPT ![t] = "over"]
    /\ UNCHANGED runners

Next == \E t \in Tasks : Close(t) \/ \E c \in Clients : Hand(t, c)

Spec == Init /\ [][Next]_vars
=============================================================================
