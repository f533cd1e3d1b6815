----------------------------- MODULE TurnTaking -----------------------------
(***************************************************************************)
(* What the system promises about the turns of one conversation: they come *)
(* one after the other, only the last one may still be answered, a turn    *)
(* loses its chance only to a later one or to an end of its own, one reply *)
(* at most waits to be sent, and it is the reply to the turn that was the  *)
(* last when the answer came.  A reply is sent once if at all; a customer  *)
(* who does not want to be written to gets none that was not under way.    *)
(***************************************************************************)
EXTENDS Naturals

CONSTANT Turns

VARIABLES
    opened,     \* the turns there have been
    active,     \* the turn that is to be answered, if there is one
    waiting,    \* the turn whose reply waits to be sent, if there is one
    underway,   \* the turns whose reply is being sent
    quiet       \* whether the customer wants nothing more

vars == <<opened, active, waiting, underway, quiet>>

Init ==
    /\ opened = {} /\ active = {} /\ waiting = {} /\ underway = {}
    /\ quiet = FALSE

Last(t) == \A s \in opened : s <= t

\* Replies are given up, and those under way come to their end.
Fewer == waiting' \subseteq waiting /\ underway' \subseteq underway

\* A turn that is for the sales from the start is opened and not active.
Open(t) ==
    /\ \A s \in opened : s < t
    /\ opened' = opened \cup {t} /\ active' \in {{}, {t}}
    /\ Fewer /\ UNCHANGED quiet

Answer(t) ==
    /\ active = {t} /\ Last(t) /\ ~quiet
    /\ active' = {} /\ waiting' = {t} /\ underway' \subseteq underway
    /\ UNCHANGED <<opened, quiet>>

End(t) ==
    /\ active = {t}
    /\ active' = {}
    /\ Fewer /\ UNCHANGED <<opened, quiet>>

OptOut(t) ==
    /\ active = {t} /\ ~quiet
    /\ active' = {} /\ waiting' = {} /\ quiet' = TRUE
    /\ underway' \subseteq underway /\ UNCHANGED opened

Clear == Fewer /\ UNCHANGED <<opened, active, quiet>>

Send(t) ==
    /\ waiting = {t} /\ ~quiet
    /\ waiting' = {} /\ underway' = underway \cup {t}
    /\ UNCHANGED <<opened, active, quiet>>

Next ==
    \/ \E t \in Turns : Open(t) \/ Answer(t) \/ End(t) \/ OptOut(t) \/ Send(t)
    \/ Clear

Spec == Init /\ [][Next]_vars
=============================================================================
