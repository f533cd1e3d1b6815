------------------------ MODULE ConversationReading ------------------------
(***************************************************************************)
(* How one chat of the WeChat window gets into the database: the client    *)
(* scans the list of chats, asks which of them it may read, opens one,     *)
(* keeps what it read in the outbox on its disk and posts it               *)
(* (task_runner.py); the server binds the chat to its lead, raises a       *)
(* generation when a scan shows an unread badge that is news, lends the    *)
(* right to read, stores what is new, moves the conversation and opens the *)
(* turn the AI has to answer (wechat_service.py, c3_service.py).           *)
(*                                                                         *)
(* Every read and every scan of the client happens in one loop of one      *)
(* thread, and none starts while the outbox holds a row.  The customer and *)
(* the sales write meanwhile; a recall falls due; an answer of the server  *)
(* is lost, a request arrives when the client has given it up; a read ends *)
(* after it opened the chat; a scan misses the code of the chat, or the    *)
(* scan of another worker sets the chat aside at any moment.               *)
(*                                                                         *)
(* Abstracted: what a message says; what is stored is a prefix of the      *)
(* chat, because a read scrolls back to what is known; times (a read or a  *)
(* recall falls due when it does; a late request is not 72 hours late);    *)
(* the 90 seconds of an acceptance, which a round does not outlast;        *)
(* partitions, gates of media and closed conversations; how the turn is    *)
(* answered, which is ConversationTurn and ReplySend, and that a turn      *)
(* still takes messages for a few seconds; a preview that reads anew       *)
(* without a message.  The messages of the sales show where they stand in  *)
(* the chat.  A row the client holds is refused from the moment the chat   *)
(* is set aside: only a scan of its own could bind the chat again, and     *)
(* none starts before the row is confirmed, so that the revision it would  *)
(* be renewed for never comes.  The chat of a new friend is authorized in  *)
(* two requests, before and after it is opened; the second checks what the *)
(* first does, so that the two are one step, and one that is refused in    *)
(* between is a read that fails.                                           *)
(*                                                                         *)
(* A definition whose name ends in Bug is the next one with a plausible    *)
(* slip in it; none of them is part of the specification.                  *)
(***************************************************************************)
EXTENDS Integers, Sequences, FiniteSets

CONSTANTS
    MaxWritten,     \* bound on what the customer and the sales write
    MaxCycles,      \* bound on the recall turns
    RecallMax,      \* c3_recall_max_cycles
    MaxFaults       \* bound on misses, losses and failures

ASSUME ConversationReadingAssumption ==
    /\ MaxWritten \in Nat /\ MaxCycles \in Nat /\ RecallMax \in Nat
    /\ MaxFaults \in Nat

VARIABLES
    chat,       \* who wrote the messages of the chat
    badge,      \* whether the list of chats shows it unread
    shown,      \* how much of the chat it has shown unread since the sales
                \* last wrote
    stored,     \* how many messages of the chat the database has
    binding,    \* [bound, revision, unread, gen, consumed, key, due, status,
                \*  run]: the row of the session binding
    conv,       \* [status, recall, origin, cycle, recalls, replied]
    turn,       \* [kind, upto, reason, origin, revision]: the active batch
    handoff,    \* [open, trigger]: the open handoff
    made,       \* the keys of the control batches, 0 for the welcome
    client,     \* [at, badge, len, reason, gen, revision, goes, run]: the
                \* round of the client and the row of its outbox
    late,       \* a request of the client that is still on its way
    faults,     \* how many misses, losses and failures are left
    reach,      \* reach[g]: the length of the chat at the scan of generation g
    broken      \* whether a read ended between opening the chat and the outbox

vars == <<chat, badge, shown, stored, binding, conv, turn, handoff, made, client,
          late, faults, reach, broken>>

-----------------------------------------------------------------------------
Writers   == {"customer", "ai", "sales"}
Waiting   == {"waiting_user", "sales_replied", "recalled"}
Statuses  == Waiting \cup {"invite_sent", "activating", "ai_active",
                           "waiting_sales", "precheck"}
Reasons   == {"acceptance", "precheck", "visible_unread", "recent_ai_sent",
              "waiting_user", "waiting_sales"}
Runs      == 0 .. 2
NoKey     == 0
Welcome   == 0
NoCycle   == 0

NoTurn    == [kind |-> "none", upto |-> 0, reason |-> "none",
              origin |-> "none", revision |-> 0]
NoHandoff == [open |-> FALSE, trigger |-> 0]
Idle      == [at |-> "idle", badge |-> FALSE, len |-> 0, reason |-> "none",
              gen |-> 0, revision |-> 0, goes |-> FALSE, run |-> 0]

(* The invitation is sent; no scan has shown the chat yet. *)
Init ==
    /\ chat = << >> /\ badge = FALSE /\ shown = 0 /\ stored = 0
    /\ binding = [bound |-> FALSE, revision |-> 1, unread |-> FALSE, gen |-> 0,
                  consumed |-> 0, key |-> NoKey, due |-> TRUE,
                  status |-> "none", run |-> 0]
    /\ conv = [status |-> "invite_sent", recall |-> "unset", origin |-> "none",
               cycle |-> NoCycle, recalls |-> 0, replied |-> FALSE]
    /\ turn = NoTurn /\ handoff = NoHandoff /\ made = {}
    /\ client = Idle /\ late = {}
    /\ faults = MaxFaults /\ reach = << >> /\ broken = FALSE

-----------------------------------------------------------------------------
(* What the people do *)

Written == {i \in DOMAIN chat : chat[i] # "ai"}

(* A message to a chat that is open on the screen raises no badge. *)
CustomerWrites ==
    /\ Cardinality(Written) < MaxWritten
    /\ chat' = Append(chat, "customer")
    /\ badge' \in {badge, TRUE}
    /\ shown' = IF badge' THEN Len(chat') ELSE shown
    /\ UNCHANGED <<stored, binding, conv, turn, handoff, made, client, late,
                   faults, reach, broken>>

SalesWrites ==
    /\ Cardinality(Written) < MaxWritten
    /\ chat' = Append(chat, "sales")
    /\ badge' = FALSE /\ shown' = 0
    /\ UNCHANGED <<stored, binding, conv, turn, handoff, made, client, late,
                   faults, reach, broken>>

ReadFallsDue ==
    /\ binding.bound /\ ~binding.due
    /\ binding' = [binding EXCEPT !.due = TRUE]
    /\ UNCHANGED <<chat, badge, shown, stored, conv, turn, handoff, made, client, late,
                   faults, reach, broken>>

RecallFallsDue ==
    /\ conv.recall = "later" /\ late = {}
    /\ Cardinality(made \ {Welcome}) < MaxCycles
    /\ conv' = [conv EXCEPT !.recall = "now"]
    /\ UNCHANGED <<chat, badge, shown, stored, binding, turn, handoff, made, client,
                   late, faults, reach, broken>>

-----------------------------------------------------------------------------
(* What the server works out before it lends the right to read *)

(* Only the rows of the handoffs count, not the status of the conversation. *)
HandoffOpen(c) == handoff.open

Gated(c) ==
    IF HandoffOpen(c) THEN [c EXCEPT !.status = "waiting_sales"] ELSE c

FreshCycle == 1 + Cardinality(made \ {Welcome})

Prepared(c) ==
    IF c.status \in Waiting /\ c.recall = "now" /\ c.recalls < RecallMax
    THEN [c EXCEPT !.origin = c.status, !.status = "precheck",
                   !.cycle = IF @ = NoCycle THEN FreshCycle ELSE @]
    ELSE c

Current == Prepared(Gated(conv))

(* A row that has not been read since the status changed is due again; under *)
(* an open handoff it waits for the next round of the monitoring.            *)
Synced(b, status) ==
    IF b.status = status THEN b
    ELSE [b EXCEPT !.status = status,
                   !.due = status # "waiting_sales" /\ (@ \/ b.status # "none")]

ReadReason(b, c) ==
    CASE c.status \in {"invite_sent", "activating"} -> "acceptance"
      [] c.status = "precheck" -> "precheck"
      [] c.status = "ai_active" -> IF b.unread THEN "visible_unread" ELSE "none"
      [] c.status = "waiting_user" ->
             IF c.replied THEN "recent_ai_sent" ELSE "waiting_user"
      [] c.status \in {"recalled", "sales_replied"} -> "waiting_user"
      [] c.status = "waiting_sales" -> "waiting_sales"

ReadIsDueBug(b, reason) ==
    b.gen > b.consumed \/ reason \in {"acceptance", "precheck"}

ReadIsDue(b, reason) ==
    /\ reason = "waiting_sales" => b.due
    /\ b.gen > b.consumed \/ reason \in {"acceptance", "precheck"} \/ b.due

-----------------------------------------------------------------------------
(* A scan *)

SeeScreen ==
    /\ client.at = "idle"
    /\ client' = [Idle EXCEPT !.at = "seen", !.badge = badge, !.len = Len(chat)]
    /\ UNCHANGED <<chat, badge, shown, stored, binding, conv, turn, handoff, made,
                   late, faults, reach, broken>>

(* The row shows the last message; two messages may look the same, or the *)
(* row may not be legible.                                                *)
NewGeneration(unread, key) ==
    /\ unread
    /\ \/ binding.gen = 0 \/ ~binding.unread
       \/ key # NoKey /\ binding.key # NoKey /\ key # binding.key

Scanned(unread, key) ==
    IF NewGeneration(unread, key)
    THEN [binding EXCEPT !.gen = @ + 1, !.key = key, !.due = TRUE,
                         !.unread = TRUE]
    ELSE [binding EXCEPT !.key = IF unread /\ @ = NoKey THEN key ELSE @,
                         !.unread = unread]

Rebound(b, bound) ==
    IF b.bound = bound THEN b
    ELSE [b EXCEPT !.bound = bound, !.revision = @ + 1, !.due = TRUE]

(* A row with its code is bound to the lead of the code; one whose code the *)
(* scan misses loses its lead, and starts from the invitation when a later  *)
(* scan shows the code again.                                               *)
PostScan(code, key) ==
    /\ client.at = "seen"
    /\ code \/ faults > 0
    /\ binding' = Rebound(Scanned(client.badge, key), code)
    /\ conv' = IF code /\ ~binding.bound
               THEN [conv EXCEPT !.status = "invite_sent"] ELSE conv
    /\ reach' = IF NewGeneration(client.badge, key)
                THEN Append(reach, client.len) ELSE reach
    /\ client' = [Idle EXCEPT !.at = "scanned"]
    /\ faults' = IF code THEN faults ELSE faults - 1
    /\ UNCHANGED <<chat, badge, shown, stored, turn, handoff, made, late, broken>>

(* Another worker has a chat with the same code in its list: the row is put *)
(* aside for a review and may not be read, wherever the client is with it.  *)
OtherWorkerScans ==
    /\ binding.bound /\ faults > 0
    /\ binding' = Rebound([binding EXCEPT !.unread = FALSE], FALSE)
    /\ faults' = faults - 1
    /\ UNCHANGED <<chat, badge, shown, stored, conv, turn, handoff, made, client, late,
                   reach, broken>>

-----------------------------------------------------------------------------
(* The right to read, and the read *)

(* The client does not open a chat whose next read is not due. *)
ReadTargets ==
    /\ client.at = "scanned"
    /\ IF binding.bound
       THEN LET c == Current
                b == Synced(binding, c.status)
                reason == ReadReason(b, c)
            IN  /\ conv' = c /\ binding' = b
                /\ client' = IF reason # "none" /\ ReadIsDue(b, reason) /\ b.due
                             THEN [Idle EXCEPT !.at = "ticket", !.gen = b.gen,
                                               !.reason = reason,
                                               !.revision = b.revision]
                             ELSE Idle
       ELSE client' = Idle /\ UNCHANGED <<conv, binding>>
    /\ UNCHANGED <<chat, badge, shown, stored, turn, handoff, made, late, faults,
                   reach, broken>>

(* The chat is opened.  The first time, that confirms the new friend. *)
Authorize ==
    /\ client.at = "ticket"
    /\ LET c == Current
           b == Synced(binding, c.status)
           allowed == /\ b.bound /\ b.revision = client.revision
                      /\ ReadReason(b, c) = client.reason
                      /\ ReadIsDue(b, client.reason)
       IN  /\ binding' = b
           /\ conv' = IF allowed /\ client.reason = "acceptance"
                      THEN [c EXCEPT !.status = "activating"] ELSE c
           /\ client' = IF allowed THEN [client EXCEPT !.at = "reading"] ELSE Idle
           /\ badge' = (badge /\ ~allowed)
    /\ UNCHANGED <<chat, shown, stored, turn, handoff, made, late, faults, reach,
                   broken>>

(* Before a reply is sent the chat is read once more, with the right that   *)
(* the turn carries: by the flow that opened the turn and has waited for    *)
(* the answer, or by a task of its own if that flow is over.                *)
PreSend ==
    /\ client.at \in {"idle", "waiting"} /\ turn.kind # "none"
    /\ binding.bound /\ turn.revision = binding.revision
    /\ conv.status = "ai_active"
    /\ client' = [client EXCEPT
                     !.at = IF @ = "idle" THEN "reading" ELSE "rereading",
                     !.reason = turn.reason, !.revision = turn.revision,
                     !.goes = TRUE]
    /\ badge' = FALSE
    /\ UNCHANGED <<chat, shown, stored, binding, conv, turn, handoff, made, late,
                   faults, reach, broken>>

(* A read has a name of its own.  A name no request under way bears is free *)
(* again, and forgotten.                                                    *)
FreshRun == CHOOSE run \in Runs \ {0} : run \notin {r.run : r \in late}

ReadChat ==
    /\ client.at = "reading"
    /\ client' = [client EXCEPT !.at = "outbox", !.len = Len(chat),
                                !.run = FreshRun]
    /\ binding' = [binding EXCEPT !.run = IF @ = FreshRun THEN 0 ELSE @]
    /\ UNCHANGED <<chat, badge, shown, stored, conv, turn, handoff, made, late,
                   faults, reach, broken>>

Sending(len) == [Idle EXCEPT !.at = "sending", !.len = len, !.goes = TRUE]

(* The row of the outbox is named for the flow.  The flow that waited has had *)
(* its row confirmed, so that what it reads now is taken for delivered: the   *)
(* reply is sent next, and the server does not learn what is new.             *)
ReadAgain ==
    /\ client.at = "rereading"
    /\ client' = Sending(Len(chat))
    /\ UNCHANGED <<chat, badge, shown, stored, binding, conv, turn, handoff, made,
                   late, faults, reach, broken>>

ReadFails ==
    /\ client.at \in {"reading", "rereading"} /\ faults > 0
    /\ client' = Idle /\ broken' = TRUE /\ faults' = faults - 1
    /\ UNCHANGED <<chat, badge, shown, stored, binding, conv, turn, handoff, made,
                   late, reach>>

-----------------------------------------------------------------------------
(* What the server makes of a read r = [len, reason, gen, revision, goes, run] *)

New(r)  == (stored + 1) .. r.len
Own     == {i \in DOMAIN chat : chat[i] # "customer"}
FromCustomer(r) == {i \in New(r) : chat[i] = "customer"}
FromSales(r)    == {i \in New(r) : chat[i] = "sales"}

Accepts(r) == binding.bound /\ r.revision = binding.revision

(* The reason the chat was read for still stands, or the turn it was read  *)
(* for does.  Otherwise the facts are kept and the conversation stays.     *)
Applies(r, b, c) ==
    \/ ReadReason(b, c) = r.reason
    \/ /\ r.goes /\ turn.kind # "none"
       /\ turn.revision = b.revision /\ turn.reason = r.reason
       /\ c.status = "ai_active"

(* Only a message of the sales below the one that was handed over closes the *)
(* handoff.                                                                  *)
StillOpen(r) ==
    handoff.open /\ \A i \in FromSales(r) : i <= handoff.trigger

UnansweredBug(r) == FromCustomer(r)

(* Every message the customer sent below the last of ours. *)
Unanswered(r) == {i \in FromCustomer(r) : \A j \in Own \cap New(r) : j < i}

Moved(r, c) ==
    LET people == FromCustomer(r) \cup FromSales(r)
        last   == chat[CHOOSE i \in people : \A j \in people : j <= i]
    IN  IF people = {} THEN c
        ELSE [c EXCEPT
                !.status = IF StillOpen(r) THEN "waiting_sales"
                           ELSE IF last = "customer" THEN "ai_active"
                           ELSE "sales_replied",
                !.recall = IF ~StillOpen(r) /\ last = "sales" THEN "later"
                           ELSE IF FromCustomer(r) # {} THEN "unset" ELSE @,
                !.cycle  = IF FromCustomer(r) # {} THEN NoCycle ELSE @,
                !.origin = IF FromCustomer(r) # {} \/ ~StillOpen(r)
                           THEN "none" ELSE @]

(* The status the turn gives the conversation back when it needs no answer. *)
Origin ==
    LET c == Gated(conv)
    IN  IF c.status = "precheck" /\ c.origin # "none" THEN c.origin ELSE c.status

TurnOf(kind, upto, r) ==
    [kind |-> kind, upto |-> upto, reason |-> r.reason, origin |-> Origin,
     revision |-> r.revision]

(* A friend who has not written is welcomed, one who is silent is recalled. *)
Welcomes(r, c) ==
    /\ Own \cap New(r) = {}
    /\ c.status = "activating" /\ r.reason = "acceptance"
Recalls(r, c) ==
    /\ Own \cap New(r) = {}
    /\ c.status = "precheck" /\ r.reason = "precheck" /\ c.cycle # NoCycle

(* The key of the control batch such a read makes, unless it was made once. *)
Control(r, c) ==
    {key \in {Welcome, c.cycle} \ made :
        IF key = Welcome THEN Welcomes(r, c) /\ stored = 0 ELSE Recalls(r, c)}

NextTurnBug(r, moved) ==
    IF Unanswered(r) # {} THEN TurnOf("customer", r.len, r) ELSE turn

NextTurn(r, moved) ==
    IF Unanswered(r) # {} /\ ~StillOpen(r)
    THEN TurnOf("customer", r.len, r)
    ELSE IF FromSales(r) # {} /\ ~StillOpen(r) THEN NoTurn
    ELSE IF Control(r, moved) = {} THEN turn
    ELSE TurnOf(IF Welcome \in Control(r, moved) THEN "welcome" ELSE "recall",
                r.len, r)

Released(r, c) ==
    CASE Welcomes(r, c) -> [c EXCEPT !.status = "ai_active"]
      [] Recalls(r, c)  -> [c EXCEPT !.status = "ai_active", !.recall = "unset"]
      [] OTHER          -> c

SettledBug(b, r, status) ==
    IF b.run = r.run THEN b
    ELSE [b EXCEPT !.run = r.run, !.status = status, !.due = FALSE,
                   !.consumed = b.gen]

(* The read consumes the generation it was sent for, not a later one. *)
Settled(b, r, status) ==
    IF b.run = r.run THEN b
    ELSE [b EXCEPT !.run = r.run, !.status = status, !.due = FALSE,
                   !.consumed = IF r.gen > @ THEN r.gen ELSE @]

Ingest(r) ==
    LET c     == Current
        b     == Synced(binding, c.status)
        moved == Moved(r, c)
        final == Released(r, moved)
    IN  /\ stored' = IF r.len > stored THEN r.len ELSE stored
        /\ IF Applies(r, b, c)
           THEN /\ conv' = final
                /\ turn' = NextTurn(r, moved)
                /\ made' = made \cup Control(r, moved)
                /\ handoff' = IF StillOpen(r) THEN handoff ELSE NoHandoff
                /\ binding' = Settled(b, r, final.status)
           ELSE conv' = c /\ binding' = b /\ UNCHANGED <<turn, made, handoff>>

(* The row of the outbox is posted until it is confirmed; a row the server *)
(* refuses stays.  The flow waits for the answer to the turn it opened.  A *)
(* reply goes out if the read before it changed nothing.                   *)
Waits(at) == at \in {"outbox", "retry"}

DeliverBug == \* confirmed only if the conversation has moved
    /\ Waits(client.at) /\ Accepts(client)
    /\ Ingest(client)
    /\ client' = IF Applies(client, binding, Current) THEN Idle
                 ELSE [client EXCEPT !.at = "retry"]
    /\ UNCHANGED <<chat, badge, shown, late, faults, reach, broken>>

Deliver ==
    /\ Waits(client.at) /\ Accepts(client)
    /\ Ingest(client)
    /\ LET opens == turn' # turn /\ turn'.kind # "none"
           sends == client.goes /\ turn' = turn /\ conv'.status = "ai_active"
       IN  client' = CASE client.at = "outbox" /\ opens ->
                              [Idle EXCEPT !.at = "waiting"]
                       [] client.at = "outbox" /\ sends ->
                              Sending(client.len)
                       [] OTHER -> Idle
    /\ UNCHANGED <<chat, badge, shown, late, faults, reach, broken>>

AnswerLost ==
    /\ Waits(client.at) /\ Accepts(client) /\ faults > 0
    /\ Ingest(client)
    /\ client' = [client EXCEPT !.at = "retry"]
    /\ faults' = faults - 1
    /\ UNCHANGED <<chat, badge, shown, late, reach, broken>>

RequestLate ==
    /\ Waits(client.at) /\ faults > 0
    /\ client' = [client EXCEPT !.at = "retry"]
    /\ late' = {[client EXCEPT !.at = "late"]}
    /\ faults' = faults - 1
    /\ UNCHANGED <<chat, badge, shown, stored, binding, conv, turn, handoff, made,
                   reach, broken>>

(* While a flow is registered, a request of another flow is refused.  A *)
(* request that never arrives stays under way.                          *)
LateIngest ==
    \E r \in late :
        /\ \/ client.at \in {"idle", "seen", "scanned", "ticket"}
           \/ Waits(client.at) /\ client.run = r.run
        /\ Accepts(r)
        /\ Ingest(r)
        /\ late' = {}
        /\ UNCHANGED <<chat, badge, shown, client, faults, reach, broken>>

(* The flow does not wait for ever, nor for a turn that is over. *)
WaitEnds ==
    /\ client.at = "waiting"
    /\ client' = Idle
    /\ UNCHANGED <<chat, badge, shown, stored, binding, conv, turn, handoff, made,
                   late, faults, reach, broken>>

-----------------------------------------------------------------------------
(* The turn is answered *)

SendReply ==
    /\ client.at = "sending"
    /\ chat' = Append(chat, "ai")
    /\ conv' = IF turn.kind = "recall"
               THEN [conv EXCEPT !.status = "recalled", !.origin = "none",
                                 !.cycle = NoCycle, !.recalls = @ + 1,
                                 !.recall = "later", !.replied = TRUE]
               ELSE [conv EXCEPT !.status = "waiting_user", !.recall = "later",
                                 !.replied = TRUE]
    /\ turn' = NoTurn
    /\ client' = Idle
    /\ UNCHANGED <<badge, shown, stored, binding, handoff, made, late, faults, reach,
                   broken>>

(* The AI decides before the client starts to send what it has decided. *)
Decides ==
    /\ turn.kind # "none"
    /\ ~(client.goes /\ client.at # "idle")

NoAction ==
    /\ Decides
    /\ LET c == [conv EXCEPT !.status =
                    IF turn.origin \in Waiting \cup {"waiting_sales"}
                    THEN turn.origin
                    ELSE IF turn.reason = "precheck" THEN "sales_replied"
                    ELSE "waiting_user"]
       IN  conv' = IF turn.kind = "recall"
                   THEN [c EXCEPT !.origin = "none", !.cycle = NoCycle,
                                  !.recall = "later"]
                   ELSE c
    /\ turn' = NoTurn
    /\ UNCHANGED <<chat, badge, shown, stored, binding, handoff, made, client, late,
                   faults, reach, broken>>

(* The sales are asked to answer the customer, or everything before. *)
HandOff ==
    /\ Decides
    /\ handoff' = [open |-> TRUE,
                   trigger |-> IF turn.kind = "customer" THEN turn.upto
                               ELSE Len(chat)]
    /\ conv' = [conv EXCEPT !.status = "waiting_sales", !.origin = "none",
                            !.cycle = NoCycle]
    /\ turn' = NoTurn
    /\ UNCHANGED <<chat, badge, shown, stored, binding, made, client, late, faults,
                   reach, broken>>

-----------------------------------------------------------------------------
Scan == \E code \in BOOLEAN, key \in {NoKey, client.len} :
            PostScan(code, key)

People == CustomerWrites \/ SalesWrites
Time   == ReadFallsDue \/ RecallFallsDue
Network == AnswerLost \/ RequestLate \/ LateIngest
Answer == SendReply \/ NoAction \/ HandOff

Next ==
    \/ People \/ Time \/ Network \/ Answer
    \/ SeeScreen \/ Scan \/ OtherWorkerScans
    \/ ReadTargets \/ Authorize \/ PreSend \/ ReadChat \/ ReadAgain \/ ReadFails
    \/ Deliver \/ WaitEnds

Spec == Init /\ [][Next]_vars

(* The loop of the client runs, the server answers it, and time passes.  The *)
(* customer, the sales and the AI owe nothing; no fault has to happen.       *)
Fairness ==
    /\ WF_vars(SeeScreen) /\ WF_vars(Scan) /\ WF_vars(ReadTargets)
    /\ WF_vars(Authorize) /\ WF_vars(ReadChat) /\ WF_vars(Deliver)
    /\ WF_vars(ReadAgain) /\ WF_vars(WaitEnds) /\ WF_vars(SendReply) /\ WF_vars(ReadFallsDue)

FairSpec == Spec /\ Fairness

-----------------------------------------------------------------------------
(* What the reading promises *)

(* Every variable has its type, and the database is no longer than the chat. *)
TypeOK ==
    /\ chat \in Seq(Writers) /\ badge \in BOOLEAN /\ shown \in 0 .. Len(chat)
    /\ stored \in 0 .. Len(chat)
    /\ binding \in [bound : BOOLEAN, revision : Nat, unread : BOOLEAN,
                    gen : Nat, consumed : Nat, key : Nat, due : BOOLEAN,
                    status : Statuses \cup {"none"}, run : Runs]
    /\ conv \in [status : Statuses, recall : {"unset", "later", "now"},
                 origin : Waiting \cup {"none"}, cycle : Nat, recalls : Nat,
                 replied : BOOLEAN]
    /\ turn \in [kind : {"none", "customer", "welcome", "recall"}, upto : Nat,
                 reason : Reasons \cup {"none"}, origin : Statuses \cup {"none"},
                 revision : Nat]
    /\ handoff \in [open : BOOLEAN, trigger : Nat]
    /\ made \subseteq Nat
    /\ client \in [at : {"idle", "seen", "scanned", "ticket", "reading",
                         "outbox", "retry", "waiting", "rereading", "sending"},
                   badge : BOOLEAN, len : 0 .. Len(chat),
                   reason : Reasons \cup {"none"}, gen : 0 .. binding.gen,
                   revision : Nat, goes : BOOLEAN, run : Runs]
    /\ \A r \in late : r.len \in 0 .. Len(chat) /\ r.gen \in 0 .. binding.gen
    /\ faults \in 0 .. MaxFaults
    /\ reach \in Seq(Nat) /\ Len(reach) = binding.gen
    /\ broken \in BOOLEAN

(* A generation is consumed only when everything the scan that raised it    *)
(* could see is stored: a read of an earlier one that arrives late must not *)
(* count for it, or the customer would wait for an answer nobody owes.      *)
ConsumedIsStored == \A g \in 1 .. binding.consumed : stored >= reach[g]

(* While a handoff is open, the AI has no turn in the conversation, whatever *)
(* the status was reset to by a new binding.                                 *)
HandoffSilencesAI == handoff.open => turn.kind = "none"

(* The turn of a customer stands for a message of the customer that neither *)
(* the AI nor the sales, as far as the database knows, have answered.       *)
AnswersUnanswered ==
    turn.kind = "customer" =>
        \E i \in 1 .. stored :
            chat[i] = "customer" /\ \A j \in i .. stored : chat[j] = "customer"

(* What the list of chats shows unread gets stored, even if the server takes *)
(* the badge for one it has consumed; unless the sales, who then have it     *)
(* before them, write, a read that opened the chat failed, or the chat was   *)
(* set aside with the read in the outbox.                                    *)
SetAside == Waits(client.at) /\ ~binding.bound

BadgedIsStored == stored < shown ~> (stored >= shown \/ broken \/ SetAside)

(* What was read is confirmed by the server in the end, so that the client  *)
(* may scan again, unless another worker sets the chat aside: nothing else, *)
(* a lost answer, a late request or a new status, makes a row stay.         *)
OutboxIsConfirmed == Waits(client.at) ~> (~Waits(client.at) \/ SetAside)

(* The reply is sent only if the server has what the read before it showed, *)
(* so that a newer message of the customer or of the sales withdraws it.    *)
NewsIsStoredFirst ==
    client.at = "sending" =>
        \A i \in (stored + 1) .. client.len : chat[i] = "ai"
=============================================================================
