-------------------------- MODULE ConversationTurn --------------------------
(***************************************************************************)
(* The turns of one conversation on the server: the message batches, the   *)
(* reply actions, the open handoff and the status of the conversation row, *)
(* and the transactions that write them at the same time: the ingest of a  *)
(* read of WeChat (wechat_service.py), the generation of a reply with the  *)
(* call of the AI between its two transactions, the claim of a reply and   *)
(* the answer of its sending (c3_service.py), and the recovery loop        *)
(* (c3_recovery.py).                                                       *)
(*                                                                         *)
(* An ingest of a customer message reads the conversation, locks its row, *)
(* then writes; one of a sales message locks only what it writes; a        *)
(* generator locks its batch with its decision, then writes.  The session  *)
(* does not read a row again that it has loaded, and writes only the       *)
(* attributes it changed.  The database aborts one of two transactions     *)
(* that wait for each other; the server may be killed at any time.         *)
(*                                                                         *)
(* Abstracted: clocks (a generation or a sending may be past its time, a   *)
(* retry due, whenever the code looks; a reply past its time is refused    *)
(* and the refusal rolls its status back, so it only stays queued); texts, *)
(* tasks and the lease, which are ReplySend and TaskLease; one ingest at a *)
(* time, because two reads of one window insert the same message; recall   *)
(* and welcome turns; partitions; a sales message whose place after the    *)
(* open handoff is not proved, which changes nothing here.                 *)
(*                                                                         *)
(* A definition whose name ends in Bug is the next one with a plausible    *)
(* slip in it; none of them is part of the specification.                  *)
(***************************************************************************)
EXTENDS Integers, FiniteSets

CONSTANTS
    MaxTurns,       \* bound on the batches of the conversation
    MaxMessages,    \* bound on the customer messages of one batch
    MaxAttempts     \* c3_batch_recovery_max_attempts

ASSUME ConversationTurnAssumption ==
    /\ MaxTurns \in Nat \ {0} /\ MaxMessages \in Nat \ {0}
    /\ MaxAttempts \in Nat \ {0}

VARIABLES
    conv,       \* [status, ai]: the conversation row
    batch,      \* batch[t]: [status, attempt, messages, origin]
    reply,      \* reply[t]: [status, boundary], the action of batch t
    handoff,    \* [turn, soft, pause]: the open handoff, turn 0 if none is open
    handed,     \* the turns that have a handoff event, open or closed
    request,    \* the ingest in progress with what it has read
    generators, \* [turn, attempt, called]: claimed generations
    writing,    \* the generator that holds the lock of its batch
    optedOut    \* whether the customer has asked never to be contacted

vars == <<conv, batch, reply, handoff, handed, request, generators, writing,
          optedOut>>

-----------------------------------------------------------------------------
Turns    == 1 .. MaxTurns
Attempts == 1 .. MaxAttempts
NoTurn   == 0

ActiveStatuses  == {"collecting", "generating", "retry_wait"}
BatchStatuses   == ActiveStatuses \cup
    {"absent", "reply_action_created", "handoff_created", "paused", "no_action",
     "rejected", "superseded", "cancelled"}
ReplyStatuses   == {"none", "queued", "sending", "sent", "not_sent",
                    "withdrawn"}
ConvStatuses    == {"ai_active", "waiting_user_reply", "waiting_sales_reply",
                    "sales_replied_waiting_user", "rejected"}
Kinds           == {"customer", "gated", "control", "sales", "recovered"}
Decisions       == {"send_reply", "reply_then_handoff", "handoff", "pause",
                    "no_action", "retry_later", "hard_opt_out"}
Replying        == {"send_reply", "reply_then_handoff"}

NoRequest == [at |-> "idle", kind |-> "none", status |-> "none", ai |-> FALSE,
              open |-> FALSE, resume |-> FALSE, replies |-> {}, batches |-> {},
              onto |-> NoTurn]
NoWriter  == [turn |-> NoTurn, decision |-> "none", status |-> "none",
              ai |-> FALSE, replies |-> {}, batches |-> {}]

NoHandoff == [turn |-> NoTurn, soft |-> FALSE, pause |-> FALSE]

Init ==
    /\ conv = [status |-> "waiting_user_reply", ai |-> TRUE]
    /\ batch = [t \in Turns |-> [status |-> "absent", attempt |-> 0,
                                 messages |-> 0, origin |-> "none"]]
    /\ reply = [t \in Turns |-> [status |-> "none", boundary |-> FALSE]]
    /\ handoff = NoHandoff
    /\ handed = {}
    /\ request = NoRequest
    /\ generators = {}
    /\ writing = NoWriter
    /\ optedOut = FALSE

-----------------------------------------------------------------------------
Present == {t \in Turns : batch[t].status # "absent"}
Absent  == Turns \ Present
Active  == {t \in Turns : batch[t].status \in ActiveStatuses}
Queued  == {t \in Turns : reply[t].status = "queued"}
Newest(t) == \A s \in Present : s <= t
Fresh   == CHOOSE t \in Absent : \A s \in Absent : t <= s
HandoffOpen == handoff.turn # NoTurn

(* The batches an unsent reply drags along when it is withdrawn. *)
Dragged(replies) ==
    {t \in replies :
        batch[t].status \notin {"superseded", "cancelled", "handoff_created"}}

Eligible(status, ai) ==
    ai /\ status \notin {"waiting_sales_reply", "sales_replied_waiting_user",
                         "rejected"}

(* The row locks other transactions hold. *)
ConversationFree == request.at # "locked"
HandoffFree      == request.at = "idle" \/ ~request.open
BatchFree(t)     == writing.turn # t

(* What the row holds after a session that loaded `loaded` assigns `new`. *)
Written(stored, loaded, new) == IF new = loaded THEN stored ELSE new

Withdrawn(replies) ==
    [t \in Turns |-> IF t \in replies
                     THEN [reply[t] EXCEPT !.status = "withdrawn"]
                     ELSE reply[t]]

Rewritten(batches, status) ==
    [t \in Turns |-> IF t \in batches THEN [batch[t] EXCEPT !.status = status]
                     ELSE batch[t]]

-----------------------------------------------------------------------------
(* The ingest of a read *)

(* The handoff projection as read_targets and the authorization of a read  *)
(* repair it, also for a customer message under an open handoff.           *)
EnforceGate ==
    /\ HandoffOpen /\ conv.status \notin {"waiting_sales_reply", "rejected"}
    /\ ConversationFree
    /\ conv' = [conv EXCEPT !.status = "waiting_sales_reply"]
    /\ UNCHANGED <<batch, reply, handoff, handed, request, generators, writing,
                   optedOut>>

(* The status an ingest works with; "none" marks one it changed itself. *)
LoadedStatus ==
    IF HandoffOpen /\ conv.status # "waiting_sales_reply" THEN "none"
    ELSE conv.status

Read(kind, resume, replies, batches) ==
    /\ request.at = "idle"
    /\ conv.status # "rejected"
    /\ request' = [NoRequest EXCEPT
                      !.at = "read", !.kind = kind, !.status = LoadedStatus,
                      !.ai = conv.ai, !.open = HandoffOpen, !.resume = resume,
                      !.replies = replies, !.batches = batches]
    /\ UNCHANGED <<conv, batch, reply, handoff, handed, generators, writing,
                   optedOut>>

RoomForTurn ==
    /\ Absent # {}
    /\ \A t \in Turns : batch[t].status = "collecting"
                          => batch[t].messages < MaxMessages

ReadMessage(kind) ==
    /\ ~HandoffOpen /\ RoomForTurn
    /\ Read(kind, FALSE, Queued, Dragged(Queued))

ReadGateOnly ==
    /\ ~HandoffOpen /\ Absent # {}
    /\ Read("control", FALSE, {}, {})

(* A sales message that comes after the open handoff, or under none. *)
ReadSales ==
    Read("sales", handoff.pause, Queued, Active \cup Dragged(Queued))

ReadRecovered ==
    /\ HandoffOpen /\ handoff.soft /\ conv.ai /\ Absent # {}
    /\ Read("recovered", FALSE, {}, {})

LockForMessageBug == \* a batch waiting for its retry is not looked at
    /\ request.at = "read" /\ request.kind \in {"customer", "gated", "recovered"}
    /\ LET replaced == {t \in Active : batch[t].status = "generating"}
           joined   == {t \in Active : batch[t].status = "collecting"}
       IN  request' = [request EXCEPT
               !.at = "locked", !.batches = @ \cup replaced,
               !.onto = IF joined = {} THEN NoTurn
                        ELSE CHOOSE t \in joined : TRUE]
    /\ UNCHANGED <<conv, batch, reply, handoff, handed, generators, writing,
                   optedOut>>

(* collect locks the conversation, then looks for the active batch. *)
LockForMessage ==
    /\ request.at = "read" /\ request.kind \in {"customer", "gated", "recovered"}
    /\ IF request.ai
       THEN LET replaced == {t \in Active : \/ request.kind = "recovered"
                                            \/ batch[t].status # "collecting"}
                joined   == Active \ replaced
                again    == IF replaced = {} THEN {} ELSE Queued
            IN  request' = [request EXCEPT
                    !.at = "locked",
                    !.replies = @ \cup again,
                    !.batches = @ \cup replaced \cup Dragged(again),
                    !.onto = IF joined = {} THEN NoTurn
                             ELSE CHOOSE t \in joined : TRUE]
       ELSE request' = NoRequest
    /\ UNCHANGED <<conv, batch, reply, handoff, handed, generators, writing,
                   optedOut>>

LockForControl ==
    /\ request.at = "read" /\ request.kind = "control"
    /\ request' = [request EXCEPT !.at = "locked", !.batches = Active]
    /\ UNCHANGED <<conv, batch, reply, handoff, handed, generators, writing,
                   optedOut>>

(* The flush waits for the batches other transactions have locked. *)
RowsFree == writing.turn \notin request.batches \cup ({request.onto} \ {NoTurn})

(* The batch that takes the message, and the table with it. *)
Filled == IF request.onto # NoTurn THEN request.onto ELSE Fresh
WithMessage(status, messages) ==
    LET old == Rewritten(request.batches \ {Filled}, "superseded")
        row == batch[Filled]
    IN  [old EXCEPT ![Filled] =
            IF request.onto # NoTurn
            THEN [row EXCEPT !.messages = row.messages + 1,
                             !.status = IF status = "collecting" THEN row.status
                                        ELSE status]
            ELSE [status |-> status, attempt |-> 0, messages |-> messages,
                  origin |-> IF status # "collecting" THEN "none"
                             ELSE IF request.status = "none"
                             THEN "waiting_sales_reply" ELSE request.status]]

CommitMessage ==
    /\ request.at = "locked" /\ request.kind \in {"customer", "recovered"}
    /\ RowsFree
    /\ batch' = WithMessage("collecting", 1)
    /\ reply' = Withdrawn(request.replies)
    /\ IF request.kind = "customer"
       THEN /\ conv' = [conv EXCEPT !.status =
                            Written(@, request.status, "ai_active")]
            /\ UNCHANGED handoff
       ELSE /\ \E new \in {"ai_active", "waiting_user_reply"} :
                  conv' = [conv EXCEPT !.status = Written(@, request.status, new)]
            /\ handoff' = NoHandoff
    /\ request' = NoRequest
    /\ UNCHANGED <<handed, generators, writing, optedOut>>

(* Opens a handoff of turn t, or leaves the event that is already open. *)
OpenHandoff(t, soft, pause) ==
    IF HandoffOpen
    THEN /\ handoff' = [handoff EXCEPT !.soft = @ /\ soft]
         /\ UNCHANGED handed
    ELSE /\ handoff' = [turn |-> t, soft |-> soft, pause |-> pause]
         /\ handed' = handed \cup {t}

CommitGate ==
    /\ request.at = "locked" /\ request.kind \in {"gated", "control"}
    /\ RowsFree
    /\ batch' = WithMessage("handoff_created",
                            IF request.kind = "gated" THEN 1 ELSE 0)
    /\ reply' = Withdrawn(request.replies)
    /\ \E soft \in BOOLEAN : OpenHandoff(Filled, soft, FALSE)
    /\ conv' = [conv EXCEPT !.status =
                    IF request.kind = "gated" THEN "waiting_sales_reply"
                    ELSE Written(@, request.status, "waiting_sales_reply")]
    /\ request' = NoRequest
    /\ UNCHANGED <<generators, writing, optedOut>>

CommitTakeover ==
    /\ request.at = "read" /\ request.kind = "sales"
    /\ RowsFree
    /\ batch' = Rewritten(request.batches, "cancelled")
    /\ reply' = Withdrawn(request.replies)
    /\ handoff' = IF request.open THEN NoHandoff ELSE handoff
    /\ conv' = [status |-> Written(conv.status, request.status,
                                   "sales_replied_waiting_user"),
                ai |-> IF request.resume
                       THEN Written(conv.ai, request.ai, TRUE) ELSE conv.ai]
    /\ request' = NoRequest
    /\ UNCHANGED <<handed, generators, writing, optedOut>>

-----------------------------------------------------------------------------
(* The generation of a reply *)

Generating(t, attempt) ==
    batch[t].status = "generating" /\ batch[t].attempt = attempt

LockBatch(t, decision, replies, batches) ==
    writing' = [turn |-> t, decision |-> decision, status |-> conv.status,
                ai |-> conv.ai, replies |-> replies, batches |-> batches]

ClaimGenerationStuckBug(t) == \* a stale generation is not claimed again
    /\ BatchFree(t) /\ batch[t].status \in {"collecting", "retry_wait"}
    /\ batch' = [batch EXCEPT ![t].status = "generating", ![t].attempt = @ + 1]
    /\ generators' = generators \cup
          {[turn |-> t, attempt |-> batch[t].attempt + 1, called |-> FALSE]}
    /\ UNCHANGED <<conv, reply, handoff, handed, request, writing, optedOut>>

(* A retry is due or a generation is stale whenever the claim looks. *)
ClaimGeneration(t) ==
    /\ BatchFree(t) /\ t \in Active
    /\ IF batch[t].status = "generating" /\ batch[t].attempt >= MaxAttempts
       THEN /\ writing.turn = NoTurn
            /\ t \notin handed
            /\ LockBatch(t, "exhausted", {}, {})
            /\ UNCHANGED <<batch, generators>>
       ELSE /\ batch' = [batch EXCEPT ![t].status = "generating",
                                      ![t].attempt = @ + 1]
            /\ generators' = generators \cup
                  {[turn |-> t, attempt |-> batch[t].attempt + 1,
                    called |-> FALSE]}
            /\ UNCHANGED writing
    /\ UNCHANGED <<conv, reply, handoff, handed, request, optedOut>>

(* The first transaction: it reads the messages and gives up its locks. *)
StartGeneration(g) ==
    /\ g \in generators /\ ~g.called /\ BatchFree(g.turn)
    /\ IF ~Generating(g.turn, g.attempt)
       THEN generators' = generators \ {g} /\ UNCHANGED writing
       ELSE IF Eligible(conv.status, conv.ai)
       THEN /\ generators' = (generators \ {g}) \cup
                  {[g EXCEPT !.called = TRUE]}
            /\ UNCHANGED writing
       ELSE /\ writing.turn = NoTurn
            /\ generators' = generators \ {g}
            /\ LockBatch(g.turn, "ineligible", {}, {})
    /\ UNCHANGED <<conv, batch, reply, handoff, handed, request, optedOut>>

(* What a decision comes to: one that fails is tried again until the       *)
(* attempts are used up; a reply whose vehicle facts are stale fails, or   *)
(* is only handed off.                                                     *)
Outcome(decision, stale, attempt) ==
    IF decision = "reply_then_handoff" /\ stale THEN "handoff"
    ELSE IF decision = "retry_later" \/ (decision = "send_reply" /\ stale)
    THEN IF attempt >= MaxAttempts THEN "exhausted" ELSE "retry_later"
    ELSE decision

FinishCallBug(g, decision, stale) == \* the batch is not looked at again
    /\ g \in generators /\ g.called /\ BatchFree(g.turn)
    /\ stale => decision \in Replying
    /\ generators' = generators \ {g}
    /\ writing.turn = NoTurn
    /\ LockBatch(g.turn, Outcome(decision, stale, g.attempt), {}, {})
    /\ UNCHANGED <<conv, batch, reply, handoff, handed, request, optedOut>>

(* The AI has answered: the second transaction locks the batch and looks   *)
(* whether it is still its generation.                                     *)
FinishCall(g, decision, stale) ==
    /\ g \in generators /\ g.called /\ BatchFree(g.turn)
    /\ stale => decision \in Replying
    /\ generators' = generators \ {g}
    /\ LET outcome == Outcome(decision, stale, g.attempt)
           open == IF decision \in Replying \cup {"hard_opt_out"} THEN Queued
                   ELSE {}
       IN  IF ~Generating(g.turn, g.attempt)
              \/ (outcome = "exhausted" /\ g.turn \in handed)
           THEN UNCHANGED writing
           ELSE /\ writing.turn = NoTurn
                /\ LockBatch(g.turn, outcome, open, Dragged(open))
    /\ UNCHANGED <<conv, batch, reply, handoff, handed, request, optedOut>>

Settled(status) ==
    [Rewritten(writing.batches, "superseded")
        EXCEPT ![writing.turn].status = status]

CommitReplyBug == \* the reply that waits is not withdrawn
    /\ writing.decision = "send_reply"
    /\ batch' = Settled("reply_action_created")
    /\ reply' = [reply EXCEPT ![writing.turn].status = "queued"]
    /\ writing' = NoWriter
    /\ UNCHANGED <<conv, handoff, handed, request, generators, optedOut>>

CommitReply ==
    /\ writing.decision \in Replying
    /\ batch' = Settled("reply_action_created")
    /\ reply' = [Withdrawn(writing.replies) EXCEPT
                    ![writing.turn] =
                        [status |-> "queued",
                         boundary |-> writing.decision = "reply_then_handoff"]]
    /\ IF writing.decision = "reply_then_handoff"
       THEN /\ ConversationFree /\ HandoffFree
            /\ OpenHandoff(writing.turn, FALSE, FALSE)
            /\ conv' = [conv EXCEPT !.status =
                            Written(@, writing.status, "waiting_sales_reply")]
       ELSE UNCHANGED <<conv, handoff, handed>>
    /\ writing' = NoWriter
    /\ UNCHANGED <<request, generators, optedOut>>

CommitHandoff ==
    /\ writing.decision \in {"handoff", "exhausted", "pause"}
    /\ ConversationFree /\ HandoffFree
    /\ batch' = Settled(IF writing.decision = "pause" THEN "paused"
                        ELSE "handoff_created")
    /\ reply' = Withdrawn(writing.replies)
    /\ OpenHandoff(writing.turn, FALSE, writing.decision = "pause")
    /\ conv' = [status |-> Written(conv.status, writing.status,
                                   "waiting_sales_reply"),
                ai |-> IF writing.decision = "pause"
                       THEN Written(conv.ai, writing.ai, FALSE) ELSE conv.ai]
    /\ writing' = NoWriter
    /\ UNCHANGED <<request, generators, optedOut>>

CommitRetry ==
    /\ writing.decision = "retry_later"
    /\ batch' = Settled("retry_wait")
    /\ reply' = Withdrawn(writing.replies)
    /\ writing' = NoWriter
    /\ UNCHANGED <<conv, handoff, handed, request, generators, optedOut>>

(* No reply: the conversation goes back to the status the turn began in. *)
Restored(t) ==
    IF batch[t].origin \in {"waiting_user_reply", "waiting_sales_reply",
                            "sales_replied_waiting_user"}
    THEN batch[t].origin ELSE "waiting_user_reply"

CommitNoAction ==
    /\ writing.decision \in {"no_action", "ineligible"}
    /\ ConversationFree \/ Restored(writing.turn) = writing.status
    /\ batch' = Settled("no_action")
    /\ conv' = [conv EXCEPT !.status =
                    Written(@, writing.status, Restored(writing.turn))]
    /\ writing' = NoWriter
    /\ UNCHANGED <<reply, handoff, handed, request, generators, optedOut>>

CommitOptOutBug == \* only the status of the conversation ends it
    /\ writing.decision = "hard_opt_out"
    /\ ConversationFree
    /\ batch' = [Rewritten(writing.batches, "cancelled")
                    EXCEPT ![writing.turn].status = "rejected"]
    /\ reply' = Withdrawn(writing.replies)
    /\ conv' = [conv EXCEPT !.status = "rejected"]
    /\ optedOut' = TRUE
    /\ writing' = NoWriter
    /\ UNCHANGED <<handoff, handed, request, generators>>

CommitOptOut ==
    /\ writing.decision = "hard_opt_out"
    /\ ConversationFree
    /\ batch' = [Rewritten(writing.batches, "cancelled")
                    EXCEPT ![writing.turn].status = "rejected"]
    /\ reply' = Withdrawn(writing.replies)
    /\ conv' = [status |-> Written(conv.status, writing.status, "rejected"),
                ai |-> Written(conv.ai, writing.ai, FALSE)]
    /\ optedOut' = TRUE
    /\ writing' = NoWriter
    /\ UNCHANGED <<handoff, handed, request, generators>>

-----------------------------------------------------------------------------
(* The sending of a reply *)

ClaimSend(t) ==
    /\ reply[t].status = "queued"
    /\ IF reply[t].boundary
       THEN /\ conv.ai /\ conv.status = "waiting_sales_reply"
            /\ handoff.turn = t
       ELSE Eligible(conv.status, conv.ai)
    /\ reply' = [reply EXCEPT ![t].status = "sending"]
    /\ UNCHANGED <<conv, batch, handoff, handed, request, generators, writing,
                   optedOut>>

(* A customer or sales message later than the claim of the reply. *)
LaterMessage(t) ==
    \/ \E s \in Present : s > t /\ batch[s].messages > 0
    \/ conv.status = "sales_replied_waiting_user"

AckSent(t, later) ==
    /\ reply[t].status = "sending"
    /\ later => LaterMessage(t)
    /\ ConversationFree
    /\ reply' = [reply EXCEPT ![t].status = "sent"]
    /\ conv' = [conv EXCEPT !.status =
                    IF reply[t].boundary
                    THEN IF HandoffOpen THEN "waiting_sales_reply" ELSE @
                    ELSE IF later THEN @ ELSE "waiting_user_reply"]
    /\ UNCHANGED <<batch, handoff, handed, request, generators, writing,
                   optedOut>>

(* A refused or unclear sending, reported or timed out, goes to the sales. *)
NotSent(t) ==
    /\ reply[t].status = "sending"
    /\ ConversationFree /\ HandoffFree /\ BatchFree(t)
    /\ reply' = [reply EXCEPT ![t].status = "not_sent"]
    /\ batch' = [batch EXCEPT ![t].status = "handoff_created"]
    /\ OpenHandoff(t, FALSE, FALSE)
    /\ conv' = [conv EXCEPT !.status = "waiting_sales_reply"]
    /\ UNCHANGED <<request, generators, writing, optedOut>>

(* The client could not find the place of the reply again. *)
HandOffUnsent(t) ==
    /\ reply[t].status = "queued" /\ t \notin handed
    /\ ConversationFree /\ HandoffFree /\ BatchFree(t)
    /\ reply' = [reply EXCEPT ![t].status = "withdrawn"]
    /\ batch' = [batch EXCEPT ![t].status = "handoff_created"]
    /\ OpenHandoff(t, FALSE, FALSE)
    /\ conv' = [conv EXCEPT !.status = "waiting_sales_reply"]
    /\ UNCHANGED <<request, generators, writing, optedOut>>

(* The client gave up the task of the reply for another reason. *)
CancelUnsent(t) ==
    /\ reply[t].status = "queued" /\ BatchFree(t)
    /\ reply' = [reply EXCEPT ![t].status = "withdrawn"]
    /\ batch' = [batch EXCEPT ![t].status = "cancelled"]
    /\ UNCHANGED <<conv, handoff, handed, request, generators, writing,
                   optedOut>>

VehicleChangedBug(t) == \* the active batch goes with the reply
    /\ reply[t].status = "queued" /\ BatchFree(t)
    /\ reply' = [reply EXCEPT ![t].status = "withdrawn"]
    /\ batch' = Rewritten(Active, "superseded")
    /\ UNCHANGED <<conv, handoff, handed, request, generators, writing,
                   optedOut>>

(* A vehicle the reply quotes has changed. *)
VehicleChanged(t) ==
    /\ reply[t].status = "queued" /\ BatchFree(t)
    /\ reply' = [reply EXCEPT ![t].status = "withdrawn"]
    /\ batch' = Rewritten(Dragged({t}), "superseded")
    /\ UNCHANGED <<conv, handoff, handed, request, generators, writing,
                   optedOut>>

-----------------------------------------------------------------------------
(* Failures *)

(* An ingest that has the conversation and waits for a batch, against a    *)
(* generator that has the batch and waits for the conversation: the        *)
(* database aborts one of them.                                            *)
NeedsConversation ==
    \/ writing.decision \in {"reply_then_handoff", "handoff", "exhausted",
                            "pause", "hard_opt_out"}
    \/ /\ writing.decision \in {"no_action", "ineligible"}
       /\ Restored(writing.turn) # writing.status

AbortDeadlocked ==
    /\ request.at = "locked" /\ ~RowsFree /\ NeedsConversation
    /\ \/ request' = NoRequest /\ UNCHANGED writing
       \/ writing' = NoWriter /\ UNCHANGED request
    /\ UNCHANGED <<conv, batch, reply, handoff, handed, generators, optedOut>>

Crash ==
    /\ request' = NoRequest /\ writing' = NoWriter /\ generators' = {}
    /\ UNCHANGED <<conv, batch, reply, handoff, handed, optedOut>>

-----------------------------------------------------------------------------
ReadNext == \/ \E kind \in {"customer", "gated"} : ReadMessage(kind)
            \/ ReadGateOnly \/ ReadSales \/ ReadRecovered
IngestNext == \/ LockForMessage \/ LockForControl
              \/ CommitMessage \/ CommitGate \/ CommitTakeover
GenerateNext == \/ \E g \in generators : StartGeneration(g)
                \/ \E g \in generators, decision \in Decisions,
                      stale \in BOOLEAN : FinishCall(g, decision, stale)
WriteNext == \/ CommitReply \/ CommitHandoff \/ CommitRetry
             \/ CommitNoAction \/ CommitOptOut
ClaimNext == \E t \in Turns : ClaimGeneration(t)
SendNext ==
    \E t \in Turns :
        \/ ClaimSend(t) \/ NotSent(t) \/ HandOffUnsent(t)
        \/ CancelUnsent(t) \/ VehicleChanged(t) \/ \E later \in BOOLEAN : AckSent(t, later)

Next == \/ EnforceGate \/ ReadNext \/ IngestNext \/ GenerateNext \/ WriteNext
        \/ ClaimNext \/ SendNext \/ AbortDeadlocked \/ Crash

Spec == Init /\ [][Next]_vars

FairSpec ==
    /\ Spec
    /\ WF_vars(IngestNext) /\ WF_vars(GenerateNext) /\ WF_vars(WriteNext)
    /\ WF_vars(ClaimNext) /\ WF_vars(AbortDeadlocked)

-----------------------------------------------------------------------------
TypeOK ==
    /\ conv \in [status : ConvStatuses, ai : BOOLEAN]
    /\ batch \in [Turns -> [status : BatchStatuses, attempt : 0 .. MaxAttempts,
                            messages : 0 .. MaxMessages,
                            origin : ConvStatuses \cup {"none"}]]
    /\ reply \in [Turns -> [status : ReplyStatuses, boundary : BOOLEAN]]
    /\ handoff \in [turn : 0 .. MaxTurns, soft : BOOLEAN, pause : BOOLEAN]
    /\ handed \in SUBSET Turns
    /\ request \in [at : {"idle", "read", "locked"}, kind : Kinds \cup {"none"},
                    status : ConvStatuses \cup {"none"}, ai : BOOLEAN,
                    open : BOOLEAN, resume : BOOLEAN, replies : SUBSET Turns,
                    batches : SUBSET Turns, onto : 0 .. MaxTurns]
    /\ generators \in SUBSET [turn : Turns, attempt : Attempts, called : BOOLEAN]
    /\ writing \in [turn : 0 .. MaxTurns,
                    decision : Decisions \cup {"none", "exhausted", "ineligible"},
                    status : ConvStatuses \cup {"none"}, ai : BOOLEAN,
                    replies : SUBSET Turns, batches : SUBSET Turns]
    /\ optedOut \in BOOLEAN

(* One turn is answered at a time: the conversation never has two batches  *)
(* being collected, generated or waiting for a retry, although ingests and *)
(* the gates create them and each looks for the active one itself.         *)
OneActiveBatch == Cardinality(Active) <= 1

(* The client can be given only one reply: of all the replies generated,   *)
(* withdrawn and sent, at most one waits to be claimed.                    *)
OneQueuedReply == Cardinality(Queued) <= 1

(* When the AI answers, its reply is queued only for the newest turn: an   *)
(* answer that comes after a newer turn was opened is thrown away by the   *)
(* second transaction of generate_for_batch.                               *)
ReplyIsForLatestTurn ==
    [][\A t \in Turns : reply[t].status = "none" /\ reply'[t].status # "none"
            => Newest(t)]_vars

(* A customer who asked never to be contacted is not written to again: no  *)
(* reply is claimed after the opt-out, whatever ingest or generation was   *)
(* under way and writes the status of the conversation later.              *)
OptedOutStaysSilent ==
    [][optedOut => \A t \in Turns : reply'[t].status = "sending"
            => reply[t].status = "sending"]_vars

(* A turn nobody has answered is superseded only by a newer one that takes *)
(* its place, so that withdrawing replies drops no turn of the customer.   *)
UnansweredTurnIsReplaced ==
    [][\A t \in Turns : t \in Active /\ batch'[t].status = "superseded"
            => ~Newest(t)']_vars

(* What the tables mean to the people of the conversation: the turns of the  *)
(* customer are taken one by one, whatever transactions overlap, deadlock or *)
(* die, as TurnTaking says.                                                  *)
Sending == {t \in Turns : reply[t].status = "sending"}

Taken == INSTANCE TurnTaking
             WITH opened <- Present, active <- Active, waiting <- Queued,
                  underway <- Sending, quiet <- optedOut

TurnsAreTaken == Taken!Spec

(* When no more messages come in and the server is killed no more, every   *)
(* turn gets its answer, its handoff or its end: retries, lost generators, *)
(* deadlocks and the kills before do not leave a batch active for ever.    *)
TurnSettles ==
    <>[][~Crash]_vars => []<>(Active = {} \/ request.at # "idle")
=============================================================================
