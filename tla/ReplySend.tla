----------------------------- MODULE ReplySend -----------------------------
(***************************************************************************)
(* One reply from its queueing to its settled result: the reply actions    *)
(* and chat_reply tasks of a worker on the server (c3_service.py), the     *)
(* thread of the client that reads a customer and sends (task_runner.py),  *)
(* the sidecar process that presses Enter in WeChat and journals it, the   *)
(* outbox in which the client keeps the result until the server confirms   *)
(* it (storage.py), and the transaction barrier that replays the outbox.   *)
(*                                                                         *)
(* A withdrawal reads the queued replies without a lock and writes them    *)
(* later, whatever became of them (FindQueued, Withdraw, Generate); the    *)
(* other requests of the server lock the rows they decide on and are       *)
(* single steps.  The network loses a request or an answer Losses times;   *)
(* the client is killed Crashes times and is at once started again.  The   *)
(* sidecar is a process of its own: it survives its client and ends before *)
(* the UI lock file of the dead client expires.                            *)
(*                                                                         *)
(* Abstracted: clocks (a lease, a reply or an unanswered send may be past  *)
(* its time whenever the code looks); texts, hashes, vehicles, alignment   *)
(* and voice; pauses and the registration of the flow on the server, which *)
(* are InflightFlow; how a task that is over ended, which is TaskLease; a  *)
(* pass of the barrier handles one record.                                 *)
(*                                                                         *)
(* A definition whose name ends in Bug is the next one with a plausible    *)
(* slip in the code; it is used only to show that a property can fail.     *)
(***************************************************************************)
EXTENDS Integers, FiniteSets

CONSTANTS
    Replies,        \* reply actions, each with its chat_reply task
    Read,           \* the flow of a C2 read
    None,           \* no flow, no reply
    Stale,          \* threads that may list the outbox long after they looked at
                    \* the UI lock: the task loop probes WeChat and sends a
                    \* heartbeat in between, the C2 loop goes straight on
    Losses,         \* how many calls the network may lose
    Crashes         \* how often the client may be killed

ASSUME ReplySendAssumption ==
    /\ Read \notin Replies /\ None \notin Replies \cup {Read}
    /\ Stale \subseteq {"task", "c2"}
    /\ Losses \in Nat /\ Crashes \in Nat

VARIABLES
    action,     \* action[r]: status of the ReplyAction row
    task,       \* task[r]: status of its chat_reply task
    leased,     \* the tasks that run under a lease that is not past
    acked,      \* the replies with a SentAck row
    found,      \* the replies a withdrawal has read as queued
    outbox,     \* outbox[r]: [at, result], the row of reply_send_ack_outbox
    journal,    \* journal[r]: phase in the journal of the send
    shown,      \* shown[r]: how often the reply was sent in WeChat
    flow,       \* [of, receipt, restarted]: the flow the client has registered
    sender,     \* the thread that reads and sends, under the UI lock
    sidecar,    \* [at, reply]: the process that operates WeChat
    looked,     \* the threads that found the UI free and have not listed yet
    replay,     \* the pass of the barrier over the outbox, under its lock
    budget      \* [losses, crashes] still to come

server == <<action, task, leased, acked, found>>
client == <<outbox, flow, sender, looked, replay>>
wechat == <<journal, shown, sidecar>>
vars   == <<server, client, wechat, budget>>

-----------------------------------------------------------------------------
NoRow    == [at |-> "none", result |-> "none"]
NoFlow   == [of |-> None, receipt |-> FALSE, restarted |-> FALSE]
AtHome   == [at |-> "home", reply |-> None, running |-> FALSE, dup |-> FALSE,
             result |-> "none"]
Stopped  == [at |-> "idle", reply |-> None]
NoReplay == [at |-> "idle", by |-> "none", reply |-> None, result |-> "none"]

Init ==
    /\ action = [r \in Replies |-> "none"]
    /\ task = [r \in Replies |-> "none"]
    /\ leased = {} /\ acked = {} /\ found = {}
    /\ outbox = [r \in Replies |-> NoRow]
    /\ journal = [r \in Replies |-> "not_attempted"]
    /\ shown = [r \in Replies |-> 0]
    /\ flow = NoFlow
    /\ sender = AtHome
    /\ sidecar = Stopped
    /\ looked = {} /\ replay = NoReplay
    /\ budget = [losses |-> Losses, crashes |-> Crashes]

\* A call is answered, lost on the way or lost on the way back.
Fates == {"answered", "requestLost", "answerLost"}

Spend(fate) ==
    /\ fate # "answered" => budget.losses > 0
    /\ budget' = IF fate = "answered" THEN budget
                 ELSE [budget EXCEPT !.losses = @ - 1]

Arrives(fate) == fate # "requestLost"

\* The rows that list_reply_send_ack_outbox lists and finalize may change.
Open == {r \in Replies : outbox[r].at \in {"intent", "waiting"}}

PendingBug == {r \in Replies : outbox[r].at = "waiting"}

\* has_pending_reply_send_ack_outbox, the gate, for any reply.
Pending == {r \in Replies : outbox[r].at \in {"intent", "waiting"}}

\* Neither this client nor a sidecar it left behind operates WeChat.
UiFree == sender.at \in {"home", "finish"} /\ sidecar.at = "idle"

\* The two loops: the C2 listener reads, the task loop is given replies.
Threads == {"task", "c2"}

Busy(th) ==
    \/ th \in looked \/ replay.by = th
    \/ sender.at # "home" /\ th = IF flow.of = Read THEN "c2" ELSE "task"

-----------------------------------------------------------------------------
(* The server on its own.                                                  *)

Queued == {r \in Replies : action[r] = "queued"}

\* The rows R are written superseded or cancelled and their open tasks end.
\* The write is by primary key: a reply that was claimed since it was read
\* keeps the columns of its claim and loses its status ("undone").
Void(R, status, tasks) ==
    /\ action' = [r \in Replies |->
                     IF r \notin R THEN status[r]
                     ELSE IF status[r] \in {"queued", "void"} THEN "void" ELSE "undone"]
    /\ task' = [r \in Replies |-> IF r \in R THEN "over" ELSE tasks[r]]
    /\ leased' = leased \ R

\* A changed vehicle: its row is locked first, here and by a claim of a send.
\* (A reply of before the vehicle snapshots is read as in FindQueued.)
Invalidate(r) ==
    /\ r \in Queued
    /\ Void({r}, action, task)
    /\ found' = found \cup {r}
    /\ UNCHANGED <<acked, client, wechat, budget>>

\* _supersede_open_actions and cancel_open_reply_actions...: the read.  The
\* reads of fail_task and of a generation are no better.
FindQueued(r) ==
    /\ r \in Queued
    /\ found' = found \cup {r}
    /\ UNCHANGED <<action, task, leased, acked, client, wechat, budget>>

\* The flush, for a customer who writes or a conversation that changes.
Withdraw(r) ==
    /\ r \in found
    /\ Void({r}, action, task)
    /\ UNCHANGED <<acked, found, client, wechat, budget>>

\* A new reply is generated; it takes the place of those found waiting.
Generate(r, R) ==
    /\ action[r] = "none" /\ R \subseteq found
    /\ Void(R, [action EXCEPT ![r] = "queued"], [task EXCEPT ![r] = "pending"])
    /\ UNCHANGED <<acked, found, client, wechat, budget>>

\* cancel_task of the back office looks at the task alone.
CancelTask(r) ==
    /\ task[r] \in {"pending", "running"}
    /\ task' = [task EXCEPT ![r] = "over"]
    /\ leased' = leased \ {r}
    /\ UNCHANGED <<action, acked, found, client, wechat, budget>>

LeaseRunsOut(r) ==
    /\ r \in leased
    /\ leased' = leased \ {r}
    /\ UNCHANGED <<action, task, acked, found, client, wechat, budget>>

\* recover_stale_sending_reply_action: no answer came in time.
StaleTask(r) == IF task[r] = "running" THEN "over" ELSE task[r]

RecoverStaleBug(r) ==
    /\ task[r] = "running"
    /\ action[r] = "sending" /\ r \notin acked
    /\ action' = [action EXCEPT ![r] = "unknown"]
    /\ task' = [task EXCEPT ![r] = StaleTask(r)]
    /\ leased' = leased \ {r}
    /\ UNCHANGED <<acked, found, client, wechat, budget>>

RecoverStale(r) ==
    /\ action[r] = "sending" /\ r \notin acked
    /\ action' = [action EXCEPT ![r] = "unknown"]
    /\ task' = [task EXCEPT ![r] = StaleTask(r)]
    /\ leased' = leased \ {r}
    /\ UNCHANGED <<acked, found, client, wechat, budget>>

-----------------------------------------------------------------------------
(* Starting: the C2 listener reads a customer, or the task loop is given a *)
(* chat_reply task.  Either needs the UI, no flow and a settled outbox.    *)

MayStart(th) ==
    sender.at = "home" /\ UiFree /\ ~Busy(th) /\ flow.of = None /\ Pending = {}

Begin(of, label, r, running) ==
    /\ MayStart(IF of = Read THEN "c2" ELSE "task")
    /\ flow' = [NoFlow EXCEPT !.of = of]
    /\ sender' = [AtHome EXCEPT !.at = label, !.reply = r, !.running = running]

StartRead ==
    /\ Begin(Read, "read", None, FALSE)
    /\ UNCHANGED <<server, wechat, outbox, looked, replay, budget>>

\* The read is over and Brain asks for no reply, or stays silent too long.
ReadNothing ==
    /\ sender.at = "read"
    /\ sender' = [sender EXCEPT !.at = "finish"]
    /\ UNCHANGED <<server, wechat, outbox, flow, looked, replay, budget>>

ReplyReady(r) ==
    /\ sender.at = "read"
    /\ action[r] = "queued" /\ task[r] = "pending"
    /\ sender' = [sender EXCEPT !.at = "refresh", !.reply = r]
    /\ UNCHANGED <<server, wechat, outbox, flow, looked, replay, budget>>

FailBug(r) ==
    /\ task' = [task EXCEPT ![r] = "over"]
    /\ leased' = leased \ {r}
    /\ action' = [action EXCEPT ![r] = IF @ \in {"queued", "sending"} THEN "void" ELSE @]

\* fail_task: a reply that was not sent yet is void with its task.
Fail(r) ==
    /\ task' = [task EXCEPT ![r] = "over"]
    /\ leased' = leased \ {r}
    /\ action' = [action EXCEPT ![r] = IF @ = "queued" THEN "void" ELSE @]

\* pull first looks for a running task, and ends it when its lease is past.
PullExpired(r) ==
    /\ MayStart("task")
    /\ task[r] = "running" /\ r \notin leased
    /\ Fail(r)
    /\ UNCHANGED <<acked, found, client, wechat, budget>>

PullRunning(r) ==
    /\ task[r] = "running" /\ r \in leased
    /\ Begin(r, "refresh", r, TRUE)
    /\ UNCHANGED <<server, wechat, outbox, looked, replay, budget>>

PullPending(r) ==
    /\ task[r] = "pending" /\ \A q \in Replies : task[q] # "running"
    /\ Begin(r, "refresh", r, FALSE)
    /\ UNCHANGED <<server, wechat, outbox, looked, replay, budget>>

-----------------------------------------------------------------------------
(* The refresh before a send, the claim of the task and of the send.       *)

\* The chat changed: the reply to send is another one.
Replaced(r) ==
    /\ sender.at = "refresh" /\ r # sender.reply
    /\ action[r] = "queued" /\ task[r] = "pending"
    /\ sender' = [sender EXCEPT !.reply = r, !.running = FALSE]
    /\ UNCHANGED <<server, wechat, outbox, flow, looked, replay, budget>>

RefreshFails ==
    /\ sender.at = "refresh"
    /\ sender' = [sender EXCEPT !.at = "fail"]
    /\ UNCHANGED <<server, wechat, outbox, flow, looked, replay, budget>>

Refreshed ==
    /\ sender.at = "refresh"
    /\ sender' = [sender EXCEPT !.at = IF sender.running THEN "claimSend" ELSE "claim"]
    /\ UNCHANGED <<server, wechat, outbox, flow, looked, replay, budget>>

\* A human answered, the authorization or the task lease is gone.
Stops ==
    /\ sender.at \in {"refresh", "claimSend"}
    /\ sender' = [sender EXCEPT !.at = "finish"]
    /\ UNCHANGED <<server, wechat, outbox, flow, looked, replay, budget>>

FailCall(fate) ==
    LET r == sender.reply
        may == task[r] = "pending" \/ (task[r] = "running" /\ r \in leased)
    IN  /\ sender.at = "fail"
        /\ Spend(fate)
        /\ IF Arrives(fate) /\ may THEN Fail(r) ELSE UNCHANGED <<action, task, leased>>
        /\ sender' = [sender EXCEPT !.at = "finish"]
        /\ UNCHANGED <<acked, found, wechat, outbox, flow, looked, replay>>

\* claim_task; a transport error leaves the flow like a refusal does.
ClaimTask(fate, granted) ==
    LET r == sender.reply
        may == action[r] = "queued" /\ task[r] = "pending"
    IN  /\ sender.at = "claim"
        /\ granted => may
        /\ Spend(fate)
        /\ IF Arrives(fate) /\ granted
           THEN task' = [task EXCEPT ![r] = "running"] /\ leased' = leased \cup {r}
           ELSE UNCHANGED <<task, leased>>
        /\ sender' = [sender EXCEPT !.at = IF fate = "answered" /\ granted
                                           THEN "claimSend" ELSE "finish"]
        /\ UNCHANGED <<action, acked, found, wechat, outbox, flow, looked, replay>>

\* claim_send; the task that already holds the send is given its token again.
ClaimSend(fate, granted) ==
    LET r == sender.reply
        may == r \in leased /\ action[r] \in {"queued", "sending"}
    IN  /\ sender.at = "claimSend"
        /\ granted => may
        /\ Spend(fate)
        /\ action' = IF Arrives(fate) /\ granted THEN [action EXCEPT ![r] = "sending"]
                     ELSE action
        /\ sender' = [sender EXCEPT
                        !.at = IF fate # "answered" THEN "finish"
                               ELSE IF granted THEN "intent" ELSE "fail",
                        !.dup = action[r] = "sending"]
        /\ UNCHANGED <<task, leased, acked, found, wechat, outbox, flow, looked, replay>>

-----------------------------------------------------------------------------
(* The send.                                                               *)

ResultOfSentBug(phase) == IF phase = "not_attempted" THEN "failed" ELSE "sent"

ResultOf(phase) ==
    CASE phase = "not_attempted" -> "failed"
      [] phase = "attempted"     -> "unknown"
      [] phase = "confirmed"     -> "sent"

\* save_reply_send_intent keeps the status of a row that exists.
SaveIntent ==
    /\ sender.at = "intent"
    /\ outbox' = [outbox EXCEPT ![sender.reply].at = IF @ = "none" THEN "intent" ELSE @]
    /\ sender' = [sender EXCEPT !.at = "check"]
    /\ UNCHANGED <<server, wechat, flow, looked, replay, budget>>

\* finalize_reply_send_ack, which fails unless a row waits for its result.
Finalize(r, result) ==
    outbox' = IF r \in Open THEN [outbox EXCEPT ![r] = [at |-> "waiting", result |-> result]]
              ELSE outbox

Settle(result) ==
    /\ Finalize(sender.reply, result)
    /\ sender' = [sender EXCEPT !.at = IF sender.reply \in Open THEN "ack" ELSE "finish",
                                !.result = result]

SuppressedBug == sender.dup /\ journal[sender.reply] = "confirmed"

\* A send that was claimed before may have happened: it is not repeated.
Suppressed == sender.dup /\ journal[sender.reply] # "not_attempted"

Reconcile ==
    LET row == outbox[sender.reply] IN
    /\ sender.at = "check" /\ Suppressed
    /\ IF row.at = "intent" THEN Settle(ResultOf(journal[sender.reply]))
       ELSE /\ sender' = [sender EXCEPT !.at = IF row.at = "none" THEN "finish" ELSE "ack",
                                        !.result = row.result]
            /\ UNCHANGED outbox
    /\ UNCHANGED <<server, wechat, flow, looked, replay, budget>>

\* The identity, the text or the authorization forbids the send.
CheckFails ==
    /\ sender.at = "check" /\ ~Suppressed
    /\ Settle("failed")
    /\ UNCHANGED <<server, wechat, flow, looked, replay, budget>>

StartSidecar ==
    /\ sender.at = "check" /\ ~Suppressed
    /\ sidecar' = [at |-> "ready", reply |-> sender.reply]
    /\ sender' = [sender EXCEPT !.at = "sending"]
    /\ UNCHANGED <<server, outbox, flow, looked, replay, journal, shown, budget>>

\* The sidecar: the phase is on disk before the key is pressed.
GiveUp ==
    /\ sidecar.at = "ready"
    /\ sidecar' = [sidecar EXCEPT !.at = "done"]
    /\ UNCHANGED <<server, client, journal, shown, budget>>

Mark ==
    /\ sidecar.at = "ready"
    /\ sidecar' = [sidecar EXCEPT !.at = "marked"]
    /\ journal' = [journal EXCEPT ![sidecar.reply] = "attempted"]
    /\ UNCHANGED <<server, client, shown, budget>>

Press(shows) ==
    /\ sidecar.at = "marked"
    /\ sidecar' = [sidecar EXCEPT !.at = IF shows THEN "pressed" ELSE "done"]
    /\ shown' = [shown EXCEPT ![sidecar.reply] = IF shows THEN @ + 1 ELSE @]
    /\ UNCHANGED <<server, client, journal, budget>>

Confirm(seen) ==
    /\ sidecar.at = "pressed"
    /\ sidecar' = [sidecar EXCEPT !.at = "done"]
    /\ journal' = IF seen THEN [journal EXCEPT ![sidecar.reply] = "confirmed"] ELSE journal
    /\ UNCHANGED <<server, client, shown, budget>>

\* Nobody is left to take the answer of the sidecar of a dead client.
OrphanEnds ==
    /\ sidecar.at = "done" /\ sender.at # "sending"
    /\ sidecar' = Stopped
    /\ UNCHANGED <<server, client, journal, shown, budget>>

SidecarAnswers ==
    /\ sender.at = "sending" /\ sidecar.at = "done"
    /\ sidecar' = Stopped
    /\ Settle(ResultOf(journal[sender.reply]))
    /\ UNCHANGED <<server, flow, looked, replay, journal, shown, budget>>

\* It is cancelled, too slow or dies: an answer without a phase is "unknown".
SidecarCut ==
    /\ sender.at = "sending"
    /\ sidecar' = Stopped
    /\ Settle("unknown")
    /\ UNCHANGED <<server, flow, looked, replay, journal, shown, budget>>

-----------------------------------------------------------------------------
(* The result reaches the server.                                          *)

AckAcceptedBug(r) == r \in acked \/ action[r] = "sending"

\* sent_ack: what the server does, and whether it answers without an error.
AckAccepted(r) == r \in acked \/ action[r] \in {"sending", "unknown"}

RecordBug(r, result) == \* a late result replaces "unknown"
    IF r \in acked \/ ~AckAccepted(r) THEN UNCHANGED server
    ELSE /\ acked' = acked \cup {r}
         /\ action' = [action EXCEPT ![r] = result]
         /\ task' = [task EXCEPT ![r] = "over"]
         /\ leased' = leased \ {r}
         /\ UNCHANGED found

Record(r, result) ==
    IF r \in acked \/ ~AckAccepted(r) THEN UNCHANGED server
    ELSE /\ acked' = acked \cup {r}
         /\ IF action[r] = "unknown" THEN UNCHANGED <<action, task, leased>>
            ELSE /\ action' = [action EXCEPT ![r] = result]
                 /\ task' = [task EXCEPT ![r] = "over"]
                 /\ leased' = leased \ {r}
         /\ UNCHANGED found

AttemptBug(r, result, fate) ==
    /\ Spend(fate)
    /\ IF Arrives(fate) THEN Record(r, result) ELSE UNCHANGED server
    /\ outbox' = IF outbox[r].at = "none" THEN outbox
                 ELSE [outbox EXCEPT ![r].at = "confirmed"]
    /\ journal' = [journal EXCEPT ![r] = "not_attempted"]

\* _attempt_reply_send_ack: a confirmed row needs its journal no more.
Attempt(r, result, fate) ==
    /\ Spend(fate)
    /\ IF Arrives(fate) THEN Record(r, result) ELSE UNCHANGED server
    /\ IF fate = "answered" /\ AckAccepted(r)
       THEN /\ outbox' = IF outbox[r].at = "none" THEN outbox
                         ELSE [outbox EXCEPT ![r].at = "confirmed"]
            /\ journal' = [journal EXCEPT ![r] = "not_attempted"]
       ELSE UNCHANGED <<outbox, journal>>

SenderAck(fate) ==
    /\ sender.at = "ack"
    /\ Attempt(sender.reply, sender.result, fate)
    /\ sender' = [sender EXCEPT !.at = "finish"]
    /\ UNCHANGED <<flow, looked, replay, shown, sidecar>>

\* _finish_inflight_flow and the server's own condition on the task.
Finishable ==
    \/ flow.of = Read /\ Pending = {}
    \/ flow.of \in Replies /\ flow.of \notin Pending /\ task[flow.of] = "over"

\* The receipt is saved first; nothing asks again until the next restart.
Finish ==
    /\ sender.at = "finish"
    /\ sender' = AtHome
    /\ flow' = IF Finishable THEN NoFlow ELSE [flow EXCEPT !.receipt = flow.of = Read]
    /\ UNCHANGED <<server, wechat, outbox, looked, replay, budget>>

RestartRecovery ==
    /\ flow.restarted /\ sender.at = "home" /\ UiFree
    /\ flow.of = Read => flow.receipt
    /\ Finishable
    /\ flow' = NoFlow
    /\ UNCHANGED <<server, wechat, outbox, sender, looked, replay, budget>>

-----------------------------------------------------------------------------
(* The barrier: a loop looks at the UI lock, and replays the outbox.       *)

Look(th) ==
    /\ th \in Stale /\ UiFree /\ ~Busy(th)
    /\ looked' = looked \cup {th}
    /\ UNCHANGED <<server, wechat, outbox, flow, sender, replay, budget>>

Lists(th) ==
    /\ replay.at = "idle"
    /\ IF th \in Stale THEN th \in looked ELSE UiFree /\ ~Busy(th)
    /\ looked' = looked \ {th}

ReplayNothing(th) ==
    /\ th \in looked /\ Lists(th)
    /\ Open = {}
    /\ UNCHANGED <<server, wechat, outbox, flow, sender, replay, budget>>

ReplayRow(th, r) ==
    /\ Lists(th)
    /\ r \in Open
    /\ replay' = [at |-> IF outbox[r].at = "intent" THEN "phase" ELSE "ack",
                  by |-> th, reply |-> r, result |-> outbox[r].result]
    /\ UNCHANGED <<server, wechat, outbox, flow, sender, budget>>

ReplayPhase ==
    LET phase == journal[replay.reply] IN
    /\ replay.at = "phase"
    /\ replay' = IF phase = "not_attempted" THEN [replay EXCEPT !.at = "discard"]
                 ELSE [replay EXCEPT !.at = "finalize", !.result = ResultOf(phase)]
    /\ UNCHANGED <<server, wechat, outbox, flow, sender, looked, budget>>

ReplayDiscard ==
    /\ replay.at = "discard"
    /\ outbox' = IF outbox[replay.reply].at = "intent"
                 THEN [outbox EXCEPT ![replay.reply] = NoRow] ELSE outbox
    /\ replay' = NoReplay
    /\ UNCHANGED <<server, wechat, flow, sender, looked, budget>>

ReplayFinalize ==
    /\ replay.at = "finalize"
    /\ Finalize(replay.reply, replay.result)
    /\ replay' = IF replay.reply \in Open THEN [replay EXCEPT !.at = "ack"] ELSE NoReplay
    /\ UNCHANGED <<server, wechat, flow, sender, looked, budget>>

ReplayAck(fate) ==
    /\ replay.at = "ack"
    /\ Attempt(replay.reply, replay.result, fate)
    /\ replay' = NoReplay
    /\ UNCHANGED <<flow, sender, looked, shown, sidecar>>

\* The client is killed and started; its sidecar may go on.
Crash(sidecarDies) ==
    /\ budget.crashes > 0
    /\ budget' = [budget EXCEPT !.crashes = @ - 1]
    /\ sender' = AtHome
    /\ looked' = {} /\ replay' = NoReplay
    /\ sidecar' = IF sidecarDies THEN Stopped ELSE sidecar
    /\ flow' = [flow EXCEPT !.restarted = flow.of # None]
    /\ UNCHANGED <<server, outbox, journal, shown>>

-----------------------------------------------------------------------------
ServerNext == \E r \in Replies :
    \/ Invalidate(r) \/ FindQueued(r) \/ Withdraw(r)
    \/ \E R \in SUBSET found : Generate(r, R)
    \/ CancelTask(r) \/ LeaseRunsOut(r) \/ RecoverStale(r)

StartNext ==
    \/ StartRead
    \/ \E r \in Replies : PullExpired(r) \/ PullRunning(r) \/ PullPending(r)

SenderNext ==
    \/ ReadNothing \/ RefreshFails \/ Refreshed \/ Stops
    \/ \E r \in Replies : ReplyReady(r) \/ Replaced(r)
    \/ \E fate \in Fates : FailCall(fate) \/ SenderAck(fate)
    \/ \E fate \in Fates, granted \in BOOLEAN :
          ClaimTask(fate, granted) \/ ClaimSend(fate, granted)
    \/ SaveIntent \/ Reconcile \/ CheckFails \/ StartSidecar
    \/ SidecarAnswers \/ SidecarCut \/ Finish

SidecarNext ==
    \/ GiveUp \/ Mark \/ OrphanEnds
    \/ \E bit \in BOOLEAN : Press(bit) \/ Confirm(bit)

ReplayNext ==
    \/ \E th \in Threads : Look(th) \/ ReplayNothing(th)
    \/ \E th \in Threads, r \in Replies : ReplayRow(th, r)
    \/ ReplayPhase \/ ReplayDiscard \/ ReplayFinalize
    \/ \E fate \in Fates : ReplayAck(fate)

Next ==
    \/ ServerNext \/ StartNext \/ SenderNext \/ SidecarNext \/ ReplayNext
    \/ RestartRecovery
    \/ \E sidecarDies \in BOOLEAN : Crash(sidecarDies)

Spec == Init /\ [][Next]_vars

\* The thread that sends, the sidecar and the barrier are scheduled, the
\* server looks for stale sends and the loop for a flow left by a restart.
Fairness ==
    /\ WF_vars(SenderNext) /\ WF_vars(SidecarNext) /\ WF_vars(ReplayNext)
    /\ WF_vars(RestartRecovery)
    /\ \A r \in Replies : WF_vars(RecoverStale(r))

FairSpec == Spec /\ Fairness

-----------------------------------------------------------------------------
(* Properties.                                                             *)

Statuses == {"none", "queued", "void", "sending", "sent", "failed", "unknown",
             "undone"}
Results  == {"none", "sent", "failed", "unknown"}
Rows     == [at : {"none", "intent", "waiting", "confirmed"}, result : Results]
Phases   == {"not_attempted", "attempted", "confirmed"}
Flows    == [of : Replies \cup {Read, None}, receipt : BOOLEAN, restarted : BOOLEAN]
Senders  == [at : {"home", "read", "refresh", "fail", "claim", "claimSend", "intent",
                   "check", "sending", "ack", "finish"},
             reply : Replies \cup {None}, running : BOOLEAN, dup : BOOLEAN,
             result : Results]
Sidecars == [at : {"idle", "ready", "marked", "pressed", "done"},
             reply : Replies \cup {None}]
Passes   == [at : {"idle", "phase", "discard", "finalize", "ack"},
             by : Threads \cup {"none"}, reply : Replies \cup {None}, result : Results]
Budgets  == [losses : 0..Losses, crashes : 0..Crashes]

\* The type invariant of the rows, the files and the processes
\* (models/c3.py, storage.py, action_journal.py).
TypeOK ==
    /\ action \in [Replies -> Statuses]
    /\ task \in [Replies -> {"none", "pending", "running", "over"}]
    /\ leased \in SUBSET Replies /\ acked \in SUBSET Replies /\ found \in SUBSET Replies
    /\ outbox \in [Replies -> Rows]
    /\ journal \in [Replies -> Phases]
    /\ shown \in [Replies -> Nat]
    /\ flow \in Flows
    /\ sender \in Senders
    /\ sidecar \in Sidecars
    /\ looked \in SUBSET Stale
    /\ replay \in Passes
    /\ budget \in Budgets

\* No reply reaches the customer twice, though its claim may be answered
\* twice, its client killed and its record replayed (task_runner.py:10574).
SentAtMostOnce == \A r \in Replies : shown[r] <= 1

\* The manual: once a send is claimed, a new customer message closes only
\* what is not claimed (c3_service.py:703).  Violated, see reply_withdrawn.
SentIsNotDenied ==
    \A r \in Replies : shown[r] > 0 => action[r] \in {"sending", "sent", "unknown"}

\* Only a withdrawal that read it before it was claimed denies what the
\* customer saw: no refused claim, failed check, lost answer, timeout or
\* replayed record takes it for failed or void (c3_service.py:2710, 2895).
OnlyWithdrawalDenies ==
    \A r \in Replies : shown[r] > 0 =>
        \/ action[r] \in {"sending", "sent", "unknown"}
        \/ action[r] = "undone" /\ r \in found

\* What is recorded as sent the customer saw.
RecordedSentIsShown == \A r \in Replies : action[r] = "sent" => shown[r] > 0

\* The client forgets a result only when the server has it
\* (task_runner.py:2997).
ConfirmedIsAcked == \A r \in Replies : outbox[r].at = "confirmed" => r \in acked

\* While the result of one send is not settled no other send begins
\* (task_runner.py:3174).
OneUnsettledSend == Cardinality(Open) <= 1

\* The queue, the send and the record of the replies keep the promise of
\* DeliveredOnce: a reply leaves the queue once, is in the chat at most once
\* and only after its claim, and a verdict, once recorded, is true, and
\* final unless the reply was being withdrawn when it was claimed
\* (c3_service.py:2606, 2710, 2895).
Stage(r) ==
    CASE action[r] = "none"    -> "absent"
      [] action[r] = "queued"  -> "waiting"
      [] action[r] = "void"    -> "dropped"
      [] action[r] = "sending" -> "taken"
      [] action[r] = "undone"  -> "denied"
      [] OTHER                 -> action[r]

Delivered == INSTANCE DeliveredOnce WITH
    Items <- Replies, Again <- IF "c2" \in Stale THEN Replies ELSE {},
    stage <- [r \in Replies |-> Stage(r)], arrived <- shown, leaving <- found

RepliesAreDeliveredOnce == Delivered!Spec

\* A reply the customer saw is settled on the server, whatever becomes of
\* its task, its client and the network (c3_service.py:2895), or withdrawn
\* while it was sent.
SentIsSettled ==
    \A r \in Replies : shown[r] > 0 ~> action[r] \in {"sent", "unknown", "undone"}

\* A result on disk is confirmed in the end, and the barrier opens again
\* (task_runner.py:3105), unless the reply was withdrawn before the server
\* had the result: that row is refused for ever.
OutboxDrains ==
    \A r \in Replies : outbox[r].at = "waiting" ~>
        outbox[r].at = "confirmed" \/ (action[r] = "undone" /\ r \notin acked)
=============================================================================
