------------------------------ MODULE OneFlow ------------------------------
(***************************************************************************)
(* What a worker promises about its flows, whatever is lost and whenever   *)
(* its client is killed.  The server knows of one flow at a time and       *)
(* forgets it only when that flow is over and nobody drives WeChat.  A     *)
(* task is granted once, under its own registration; it is carried out at  *)
(* most once, by a client that has it in hand, and never while a customer  *)
(* is read; a flow that is over stays over.                                *)
(***************************************************************************)
CONSTANTS Tasks, Reads, None

VARIABLES
    registered, \* the flow the server knows of, or None
    row,        \* row[f]: "pending", "running" or "over"
    current,    \* the task the client has in hand, or None
    ready,      \* the tasks that are granted and not begun
    driver      \* who drives WeChat: "task", "c2" or None

vars == <<registered, row, current, ready, driver>>

Flows == Tasks \cup Reads

Init ==
    /\ registered = None
    /\ row = [f \in Flows |-> "pending"]
    /\ current = None /\ ready = {} /\ driver = None

\* A read is under way from the call that registers it, accepted or not.
Register(f) ==
    /\ registered \in {None, f} /\ registered' = f
    /\ \/ UNCHANGED row
       \/ f \in Reads /\ row[f] = "pending" /\ row' = [row EXCEPT ![f] = "running"]
    /\ UNCHANGED <<current, ready, driver>>

Open(f) ==
    /\ f \in Reads /\ row[f] = "pending"
    /\ row' = [row EXCEPT ![f] = "running"]
    /\ UNCHANGED <<registered, current, ready, driver>>

Release ==
    /\ registered # None /\ row[registered] = "over"
    /\ driver = None
    /\ registered' = None
    /\ UNCHANGED <<row, current, ready, driver>>

TakeUp(t) ==
    /\ current = None /\ driver # "c2"
    /\ registered = t \/ row[t] = "over"
    /\ current' = t
    /\ UNCHANGED <<registered, row, ready, driver>>

\* The answer may be lost; then nobody carries the task out.
Grant(t) ==
    /\ current = t /\ registered = t /\ row[t] = "pending"
    /\ row' = [row EXCEPT ![t] = "running"]
    /\ ready' \in {{}, {t}}
    /\ UNCHANGED <<registered, current, driver>>

CarryOut(t) ==
    /\ ready = {t} /\ current = t /\ driver = None
    /\ ready' = {} /\ driver' = "task"
    /\ UNCHANGED <<registered, row, current>>

Refrain ==
    /\ ready' = {}
    /\ UNCHANGED <<registered, row, current, driver>>

LayDown ==
    /\ driver # "task"
    /\ current' = None
    /\ UNCHANGED <<registered, row, ready, driver>>

ReadChat ==
    /\ current = None /\ driver = None
    /\ driver' = "c2"
    /\ UNCHANGED <<registered, row, current, ready>>

LetGo ==
    /\ driver' = None
    /\ UNCHANGED <<registered, row, current, ready>>

End(f) ==
    /\ row' = [row EXCEPT ![f] = "over"]
    /\ UNCHANGED <<registered, current, ready, driver>>

\* The client is killed: what the server knows stays.
Forget ==
    /\ current' = None /\ ready' = {} /\ driver' = None
    /\ UNCHANGED <<registered, row>>

Next ==
    \/ \E f \in Flows : Register(f) \/ Open(f) \/ End(f)
    \/ \E t \in Tasks : TakeUp(t) \/ Grant(t) \/ CarryOut(t)
    \/ Release \/ Refrain \/ LayDown \/ ReadChat \/ LetGo \/ Forget

Spec == Init /\ [][Next]_vars
=============================================================================
