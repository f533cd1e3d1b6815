--------------------------- MODULE DeliveredOnce ---------------------------
(***************************************************************************)
(* What the system promises about one thing that is delivered to a person  *)
(* outside it and can never be taken back: a reply in WeChat, a message of *)
(* Feishu.  It waits, may be dropped while it waits, is taken once, reaches *)
(* the person at most once and only when it was taken, and what is         *)
(* recorded in the end is never denied by what happened: "sent" only of    *)
(* what arrived, "failed" only of what never does.  What nobody knows is   *)
(* "unknown", a verdict a late arrival may follow.  Two ways to break the  *)
(* promise have a name: who began to remove an item while it waited may    *)
(* end it after it was taken ("denied", whatever had been recorded), and   *)
(* an item of Again may arrive a second time, but not before its verdict.  *)
(***************************************************************************)
EXTENDS Naturals

CONSTANTS Items, Again

VARIABLES
    stage,      \* stage[i]: "absent", "waiting", "dropped", "taken" or a verdict
    arrived,    \* arrived[i]: how often the person has got it
    leaving     \* the items whose removal began while they waited

vars == <<stage, arrived, leaving>>

In(s) == {i \in Items : stage[i] = s}

Init ==
    /\ stage = [i \in Items |-> "absent"]
    /\ arrived = [i \in Items |-> 0]
    /\ leaving = {}

Removed(gone, from) ==
    [i \in Items |-> IF i \notin gone THEN from[i]
                     ELSE IF from[i] \in {"waiting", "dropped"} THEN "dropped"
                     ELSE "denied"]

\* A new item may take the place of those that still wait.
Accept(i, gone) ==
    /\ i \in In("absent") /\ gone \subseteq In("waiting") \cup leaving
    /\ stage' = Removed(gone, [stage EXCEPT ![i] = "waiting"])
    /\ UNCHANGED <<arrived, leaving>>

Leave(i) ==
    /\ i \in In("waiting")
    /\ leaving' = leaving \cup {i}
    /\ UNCHANGED <<stage, arrived>>

Drop(i) ==
    /\ i \in In("waiting") \cup leaving
    /\ stage' = Removed({i}, stage)
    /\ leaving' \in {leaving, leaving \cup {i}}
    /\ UNCHANGED arrived

Take(i) ==
    /\ i \in In("waiting")
    /\ stage' = [stage EXCEPT ![i] = "taken"]
    /\ UNCHANGED <<arrived, leaving>>

Arrive(i) ==
    /\ \/ arrived[i] = 0 /\ stage[i] \in {"taken", "unknown", "denied"}
       \/ arrived[i] = 1 /\ stage[i] \in {"sent", "unknown", "denied"} /\ i \in Again
    /\ arrived' = [arrived EXCEPT ![i] = @ + 1]
    /\ UNCHANGED <<stage, leaving>>

Record(i, verdict) ==
    /\ i \in In("taken")
    /\ verdict = (IF arrived[i] = 0 THEN "failed" ELSE "sent")
    /\ stage' = [stage EXCEPT ![i] = verdict]
    /\ UNCHANGED <<arrived, leaving>>

\* Nobody knows any more what became of what was taken.
GiveUp(lost) ==
    /\ lost \subseteq In("taken")
    /\ stage' = [i \in Items |-> IF i \in lost THEN "unknown" ELSE stage[i]]
    /\ UNCHANGED <<arrived, leaving>>

Next ==
    \/ \E i \in Items, gone \in SUBSET Items : Accept(i, gone)
    \/ \E i \in Items : Leave(i) \/ Drop(i) \/ Take(i) \/ Arrive(i)
    \/ \E i \in Items, verdict \in {"sent", "failed"} : Record(i, verdict)
    \/ \E lost \in SUBSET Items : GiveUp(lost)

Spec == Init /\ [][Next]_vars
=============================================================================
