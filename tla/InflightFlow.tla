---------------------------- MODULE InflightFlow ----------------------------
(***************************************************************************)
(* The in-flight flow of a worker: the registration on the server          *)
(* (worker_service.py: run_status and inflight_flow_state), the copy the   *)
(* client keeps on disk (storage.py: pause_requested and inflight_flow_id) *)
(* and in memory, and the threads of worker-client/.../task_runner.py that *)
(* use them: the task loop, the C2 listener, the thread monitor and the    *)
(* user's clicks.                                                          *)
(*                                                                         *)
(* A call to the server is two steps of its thread, the handler (...Call)  *)
(* and what the client does with the answer (...Return, or the label the   *)
(* thread is at), so that any other thread may run in between.  The        *)
(* network may lose a request or an answer, Losses times in all, and the   *)
(* client may be killed and started again Crashes times.                   *)
(*                                                                         *)
(* What a flow has found or sent and the server has not yet confirmed (C2  *)
(* outbox, action journals, ledger, sent acknowledgements) is the set of    *)
(* flows that still owe such facts.  They are written at any point of the  *)
(* work and settled by the transaction barrier, if the server takes them.  *)
(*                                                                         *)
(* Abstracted: RPA and WeChat readiness, cooldowns and every other reason  *)
(* not to start; chat replies, which run like the other tasks; the scan of *)
(* the session list, which has no flow; pause_requested and the run status *)
(* of the binding, which are written together, are one bit; the facts of a *)
(* C2 read, which the server accepts as its end; the task that pull        *)
(* answers as already running, which RunningIsRegistered shows this client *)
(* is never given.                                                         *)
(*                                                                         *)
(* A definition whose name ends in Bug is the next one with a plausible    *)
(* slip in the code; it is used only to show that a property can fail.     *)
(***************************************************************************)
EXTENDS Integers

CONSTANTS
    Tasks,          \* add_friend tasks of this worker; the task id is the flow id
    Reads,          \* read_run_ids the C2 listener may draw, each at most once
    None,           \* no flow, or no holder of a lock
    Losses,         \* how many calls the network may lose
    Crashes         \* how often the client may be killed

ASSUME InflightFlowAssumption ==
    /\ Tasks \cap Reads = {}
    /\ None \notin Tasks \cup Reads \cup {"task", "c2"}
    /\ Losses \in Nat
    /\ Crashes \in Nat

VARIABLES
    server,     \* [running, flow]: run_status and inflight_flow_state of the worker
    status,     \* status[f]: the task's row, or how far the read is
    disk,       \* [paused, flow, receipts, owed]: what the client finds after a restart
    mem,        \* the fields of TaskRunner the threads share
    taskLock,   \* the thread that holds task_lock
    uiLock,     \* the thread that holds the WeChat UI lock
    pc,         \* pc[th]: where a thread is and the flow it is about
    beat,       \* the heartbeat answer the task loop is about to use
    click,      \* the user's last click on start or pause
    budget      \* [losses, crashes] still to come

vars == <<server, status, disk, mem, taskLock, uiLock, pc, beat, click, budget>>

-----------------------------------------------------------------------------
Flows   == Tasks \cup Reads
Threads == {"task", "c2"}
Home    == [task |-> "tick", c2 |-> "scan"]

Labels == {"tick", "sync", "synced", "beat", "beatDone", "barrier", "recover", "gate",
           "lock", "pull", "pulled", "scan", "read", "start", "startCall", "record",
           "crash", "dead", "claim", "claimCall", "claimed", "enter", "await", "work",
           "report", "finish", "leave", "finishCall", "finishLocal", "finishForget"}

Started == [backend |-> None, api |-> None, recover |-> None, sync |-> FALSE,
            current |-> None, stopped |-> FALSE]

AtHome == [th \in Threads |-> [at |-> Home[th], flow |-> None, own |-> FALSE]]

NoBeat == [running |-> FALSE, flow |-> None]

Init ==
    /\ server = [running |-> FALSE, flow |-> None]
    /\ status = [f \in Flows |-> "pending"]
    /\ disk = [paused |-> TRUE, flow |-> None, receipts |-> {}, owed |-> {}]
    /\ mem = Started
    /\ taskLock = None /\ uiLock = None
    /\ pc = AtHome
    /\ beat = NoBeat
    /\ click = [at |-> "idle", wish |-> "paused", flow |-> None]
    /\ budget = [losses |-> Losses, crashes |-> Crashes]

-----------------------------------------------------------------------------
(* The gates.                                                              *)

CanStart == ~mem.stopped /\ ~disk.paused /\ disk.flow = None

CanContinue(f) ==
    /\ ~mem.stopped
    /\ f # None /\ f = disk.flow /\ f = mem.api /\ f = mem.backend

\* On the server, validate_inflight_continuation for a caller that presents f.
Presents(f) == server.flow = f \/ (server.running /\ server.flow = None)

Go(th, label) == pc' = [pc EXCEPT ![th].at = label]

\* Back to the thread's loop, out of the section guarded by task_lock.
GoHome(th) ==
    /\ pc' = [pc EXCEPT ![th] = AtHome[th]]
    /\ taskLock' = IF taskLock = th THEN None ELSE taskLock

\* The transaction barrier (_worker_transaction_barrier_ready) replays what is
\* owed and lets a thread pass when no outbox row, acknowledgement or image is
\* left.  What it passes over is a voice journal, which a read has to settle.
Replay(passes) ==
    \E left \in SUBSET disk.owed :
        /\ left = {} => passes
        /\ disk' = [disk EXCEPT !.owed = left]

\* The fate of one call: answered, lost on the way or lost on the way back.
Fates == {"answered", "requestLost", "answerLost"}

Spend(fate) ==
    /\ fate # "answered" => budget.losses > 0
    /\ budget' = IF fate = "answered" THEN budget
                 ELSE [budget EXCEPT !.losses = @ - 1]

-----------------------------------------------------------------------------
(* The user: set_run_status, called from the thread of the window.         *)

ClickPause ==
    /\ click.at = "idle"
    /\ click' = [click EXCEPT !.at = "call", !.wish = "paused"]
    /\ disk' = [disk EXCEPT !.paused = TRUE]
    /\ UNCHANGED <<server, status, mem, taskLock, uiLock, pc, beat, budget>>

ClickStart ==
    /\ click.at = "idle" /\ ~mem.stopped
    /\ click' = [click EXCEPT !.at = "call", !.wish = "running"]
    /\ UNCHANGED <<server, status, disk, mem, taskLock, uiLock, pc, beat, budget>>

ClickCall(fate) ==
    /\ click.at = "call"
    /\ Spend(fate)
    /\ server' = IF fate = "requestLost" THEN server
                 ELSE [server EXCEPT !.running = click.wish = "running"]
    /\ click' = [click EXCEPT !.at = IF fate = "answered" THEN "answer" ELSE "error",
                              !.flow = server.flow]
    /\ UNCHANGED <<status, disk, mem, taskLock, uiLock, pc, beat>>

ClickAnswered ==
    /\ click.at = "answer"
    /\ click' = [click EXCEPT !.at = "idle"]
    /\ mem' = [mem EXCEPT !.sync = FALSE, !.backend = click.flow]
    /\ disk' = [disk EXCEPT !.paused = click.wish = "paused"]
    /\ UNCHANGED <<server, status, taskLock, uiLock, pc, beat, budget>>

\* A pause that failed is left to the task loop to repeat.
ClickFailed ==
    /\ click.at = "error"
    /\ click' = [click EXCEPT !.at = "idle"]
    /\ mem' = [mem EXCEPT !.sync = @ \/ click.wish = "paused"]
    /\ disk' = [disk EXCEPT !.paused = TRUE]
    /\ UNCHANGED <<server, status, taskLock, uiLock, pc, beat, budget>>

-----------------------------------------------------------------------------
(* The task loop: repeat a pause, heartbeat, finish what a restart left,   *)
(* pull.  A tick that fails on the way begins again.                       *)

Tick ==
    /\ pc["task"].at = "tick" /\ ~mem.stopped
    /\ Go("task", "beat")
    /\ UNCHANGED <<server, status, disk, mem, taskLock, uiLock, beat, click, budget>>

\* At most every five seconds.
TickSync ==
    /\ pc["task"].at = "tick" /\ ~mem.stopped
    /\ mem.sync
    /\ Go("task", "sync")
    /\ UNCHANGED <<server, status, disk, mem, taskLock, uiLock, beat, click, budget>>

SyncCall(fate) ==
    /\ pc["task"].at = "sync"
    /\ Spend(fate)
    /\ server' = IF fate = "requestLost" THEN server ELSE [server EXCEPT !.running = FALSE]
    /\ Go("task", IF fate = "answered" THEN "synced" ELSE "beat")
    /\ UNCHANGED <<status, disk, mem, taskLock, uiLock, beat, click>>

SyncAnswered ==
    /\ pc["task"].at = "synced"
    /\ mem' = [mem EXCEPT !.sync = FALSE]
    /\ disk' = [disk EXCEPT !.paused = TRUE]
    /\ Go("task", "beat")
    /\ UNCHANGED <<server, status, taskLock, uiLock, beat, click, budget>>

BeatCall(fate) ==
    /\ pc["task"].at = "beat"
    /\ fate # "requestLost"
    /\ Spend(fate)
    /\ beat' = IF fate = "answered" THEN server ELSE beat
    /\ Go("task", IF fate = "answered" THEN "beatDone" ELSE "tick")
    /\ UNCHANGED <<server, status, disk, mem, taskLock, uiLock, click>>

BeatAnsweredSyncBug ==
    /\ pc["task"].at = "beatDone"
    /\ mem' = [mem EXCEPT !.sync = FALSE, !.backend = beat.flow,
                          !.api = IF disk.flow = beat.flow /\ beat.flow # None
                                  THEN beat.flow ELSE @]
    /\ disk' = IF mem.sync THEN disk ELSE [disk EXCEPT !.paused = ~beat.running]
    /\ beat' = NoBeat
    /\ Go("task", "barrier")
    /\ UNCHANGED <<server, status, taskLock, uiLock, click, budget>>

\* The answer decides the run status, unless a pause waits to be repeated.
BeatAnswered ==
    /\ pc["task"].at = "beatDone"
    /\ mem' = [mem EXCEPT !.sync = @ /\ beat.running,
                          !.backend = beat.flow,
                          !.api = IF disk.flow = beat.flow /\ beat.flow # None
                                  THEN beat.flow ELSE @]
    /\ disk' = IF mem.sync THEN disk ELSE [disk EXCEPT !.paused = ~beat.running]
    /\ beat' = NoBeat
    /\ Go("task", "barrier")
    /\ UNCHANGED <<server, status, taskLock, uiLock, click, budget>>

\* A tick that found WeChat being driven skips the barrier: it passes over all.
Barrier ==
    /\ pc["task"].at = "barrier"
    /\ \E passes \in BOOLEAN :
          Replay(passes) /\ Go("task", IF passes THEN "recover" ELSE "tick")
    /\ UNCHANGED <<server, status, mem, taskLock, uiLock, beat, click, budget>>

SettleableBug ==
    /\ mem.recover # None /\ mem.current = None /\ uiLock = None
    /\ CanContinue(mem.recover)
    /\ mem.recover \in disk.receipts

\* _finish_restart_recovery_flow_if_settled, called by both threads.
Settleable ==
    /\ mem.recover # None /\ mem.current = None /\ uiLock = None
    /\ CanContinue(mem.recover)
    /\ mem.recover \in Tasks \cup disk.receipts

Recover(th) ==
    /\ \/ th = "task" /\ pc[th].at = "recover"
       \/ th = "c2" /\ pc[th].at = "scan" /\ uiLock = None
    /\ Settleable
    /\ pc' = [pc EXCEPT ![th] = [at |-> "finishCall", flow |-> mem.recover, own |-> FALSE]]
    /\ UNCHANGED <<server, status, disk, mem, taskLock, uiLock, beat, click, budget>>

NothingToRecover ==
    /\ pc["task"].at = "recover"
    /\ ~Settleable
    /\ Go("task", "gate")
    /\ UNCHANGED <<server, status, disk, mem, taskLock, uiLock, beat, click, budget>>

Gate ==
    /\ pc["task"].at = "gate"
    /\ Go("task", IF CanStart /\ uiLock = None THEN "lock" ELSE "tick")
    /\ UNCHANGED <<server, status, disk, mem, taskLock, uiLock, beat, click, budget>>

\* _pull_and_execute: the gates and the barrier again, under task_lock.
Lock ==
    /\ pc["task"].at = "lock" /\ taskLock = None
    /\ CanStart /\ uiLock = None
    /\ Replay(TRUE)
    /\ taskLock' = "task" /\ Go("task", "pull")
    /\ UNCHANGED <<server, status, mem, uiLock, beat, click, budget>>

LockRefused ==
    /\ pc["task"].at = "lock" /\ taskLock = None
    /\ IF CanStart /\ uiLock = None THEN Replay(FALSE) ELSE UNCHANGED disk
    /\ Go("task", "tick")
    /\ UNCHANGED <<server, status, mem, taskLock, uiLock, beat, click, budget>>

PullCall(t) ==
    /\ pc["task"].at = "pull"
    /\ server.running /\ server.flow = None
    /\ status[t] = "pending"
    /\ pc' = [pc EXCEPT !["task"] = [at |-> "pulled", flow |-> t, own |-> FALSE]]
    /\ UNCHANGED <<server, status, disk, mem, taskLock, uiLock, beat, click, budget>>

\* Nothing to do, refused or lost: the same to the client.
PullFailed(fate) ==
    /\ pc["task"].at = "pull"
    /\ fate # "requestLost"
    /\ Spend(fate)
    /\ fate = "answered" =>
          ~server.running \/ server.flow # None \/ \A t \in Tasks : status[t] # "pending"
    /\ GoHome("task")
    /\ UNCHANGED <<server, status, disk, mem, uiLock, beat, click>>

Pulled ==
    /\ pc["task"].at = "pulled"
    /\ IF CanStart THEN Go("task", "start") /\ UNCHANGED taskLock ELSE GoHome("task")
    /\ UNCHANGED <<server, status, disk, mem, uiLock, beat, click, budget>>

-----------------------------------------------------------------------------
(* _start_inflight_flow, in either thread, for a flow the disk does not     *)
(* hold: Pulled and Read have looked.  Nothing catches its exceptions: a    *)
(* start that is refused or lost ends the thread.                           *)

Start(th) ==
    /\ pc[th].at = "start"
    /\ IF CanStart THEN Go(th, "startCall") /\ UNCHANGED taskLock ELSE GoHome(th)
    /\ UNCHANGED <<server, status, disk, mem, uiLock, beat, click, budget>>

StartCall(th, fate) ==
    LET f == pc[th].flow
        accepted == server.running /\ server.flow \in {None, f}
    IN  /\ pc[th].at = "startCall"
        /\ Spend(fate)
        /\ server' = IF accepted /\ fate # "requestLost"
                     THEN [server EXCEPT !.flow = f] ELSE server
        /\ status' = IF f \in Reads THEN [status EXCEPT ![f] = "running"] ELSE status
        /\ Go(th, IF accepted /\ fate = "answered" THEN "record" ELSE "crash")
        /\ UNCHANGED <<disk, mem, taskLock, uiLock, beat, click>>

\* Memory first, then the disk, which refuses a second flow.
Record(th) ==
    LET f == pc[th].flow  free == disk.flow \in {None, f} IN
    /\ pc[th].at = "record"
    /\ mem' = [mem EXCEPT !.api = f, !.backend = f,
                          !.current = IF th = "task" /\ free THEN f ELSE @]
    /\ disk' = IF free THEN [disk EXCEPT !.flow = f] ELSE disk
    /\ Go(th, IF ~free THEN "crash" ELSE IF th = "task" THEN "claim" ELSE "enter")
    /\ UNCHANGED <<server, status, taskLock, uiLock, beat, click, budget>>

\* _handle_background_thread_failure: the emergency stop and an automatic pause.
Crash(th) ==
    /\ pc[th].at = "crash"
    /\ mem' = [mem EXCEPT !.stopped = TRUE, !.sync = TRUE]
    /\ disk' = [disk EXCEPT !.paused = TRUE]
    /\ taskLock' = IF taskLock = th THEN None ELSE taskLock
    /\ Go(th, "dead")
    /\ UNCHANGED <<server, status, uiLock, beat, click, budget>>

\* The thread monitor takes over the pause of a dead task loop.
MonitorSync(fate) ==
    /\ pc["task"].at = "dead" /\ mem.sync
    /\ Spend(fate)
    /\ server' = IF fate = "requestLost" THEN server ELSE [server EXCEPT !.running = FALSE]
    /\ mem' = [mem EXCEPT !.sync = fate # "answered"]
    /\ disk' = [disk EXCEPT !.paused = TRUE]
    /\ UNCHANGED <<status, taskLock, uiLock, pc, beat, click>>

-----------------------------------------------------------------------------
(* _execute_task, with task_lock held.                                     *)

Claim ==
    /\ pc["task"].at = "claim"
    /\ Go("task", IF CanContinue(pc["task"].flow) THEN "claimCall" ELSE "finish")
    /\ UNCHANGED <<server, status, disk, mem, taskLock, uiLock, beat, click, budget>>

ClaimCall(fate) ==
    LET t == pc["task"].flow  accepted == Presents(t) /\ status[t] = "pending" IN
    /\ pc["task"].at = "claimCall"
    /\ Spend(fate)
    /\ status' = IF accepted /\ fate # "requestLost"
                 THEN [status EXCEPT ![t] = "running"] ELSE status
    /\ Go("task", IF accepted /\ fate = "answered" THEN "claimed" ELSE "finish")
    /\ UNCHANGED <<server, disk, mem, taskLock, uiLock, beat, click>>

\* A task that does not get the UI lock is reported as failed.
Claimed ==
    /\ pc["task"].at = "claimed"
    /\ IF ~CanContinue(pc["task"].flow) THEN Go("task", "finish") /\ UNCHANGED uiLock
       ELSE IF uiLock # None THEN Go("task", "report") /\ UNCHANGED uiLock
       ELSE Go("task", "work") /\ uiLock' = "task"
    /\ UNCHANGED <<server, status, disk, mem, taskLock, beat, click, budget>>

WorkBug(fate) == \* work whose step report is lost is done again
    /\ pc["task"].at = "work"
    /\ fate # "requestLost"
    /\ Spend(fate)
    /\ uiLock' = None
    /\ Go("task", IF fate = "answered" THEN "report" ELSE "claimed")
    /\ UNCHANGED <<server, status, disk, mem, taskLock, beat, click>>

\* A step report that is lost ends the work with nothing reported.
Work(fate) ==
    /\ pc["task"].at = "work"
    /\ fate # "requestLost"
    /\ Spend(fate)
    /\ uiLock' = None
    /\ Go("task", IF fate = "answered" THEN "report" ELSE "finish")
    /\ UNCHANGED <<server, status, disk, mem, taskLock, beat, click>>

Report(fate) ==
    LET t == pc["task"].flow IN
    /\ pc["task"].at = "report"
    /\ Spend(fate)
    /\ status' = IF Presents(t) /\ status[t] = "running" /\ fate # "requestLost"
                 THEN [status EXCEPT ![t] = "over"] ELSE status
    /\ Go("task", "finish")
    /\ UNCHANGED <<server, disk, mem, taskLock, uiLock, beat, click>>

Finish ==
    /\ pc["task"].at = "finish"
    /\ mem' = [mem EXCEPT !.current = None]
    /\ Go("task", "finishCall")
    /\ UNCHANGED <<server, status, disk, taskLock, uiLock, beat, click, budget>>

-----------------------------------------------------------------------------
(* _finish_inflight_flow, in either thread.  It is not repeated: one that  *)
(* fails leaves the flow where it is.                                      *)

\* Where a finish returns to: the tick goes on after a recovery.
Finished(th) ==
    IF th = "task" /\ taskLock # "task"
    THEN pc' = [pc EXCEPT ![th] = [AtHome[th] EXCEPT !.at = "gate"]] /\ UNCHANGED taskLock
    ELSE GoHome(th)

SettledAnyBug(f) == server.flow = f

Settled(f) == server.flow = f /\ status[f] = "over"

\* The looks and the call are one step: while the server would still end the
\* flow, neither the UI lock nor a fact of it can come between them.
FinishCall(th, fate) ==
    LET f == pc[th].flow IN
    /\ pc[th].at = "finishCall"
    /\ uiLock = None /\ f \notin disk.owed
    /\ Spend(fate)
    /\ server' = IF Settled(f) /\ fate # "requestLost"
                 THEN [server EXCEPT !.flow = None] ELSE server
    /\ IF Settled(f) /\ fate = "answered"
       THEN Go(th, "finishLocal") /\ UNCHANGED taskLock
       ELSE Finished(th)
    /\ UNCHANGED <<status, disk, mem, uiLock, beat, click>>

\* A flow that owes facts is not given back; a read waits for any
\* acknowledgement, even one another flow owes.
FinishBlocked(th) ==
    LET f == pc[th].flow IN
    /\ pc[th].at = "finishCall"
    /\ uiLock # None \/ f \in disk.owed \/ (f \in Reads /\ disk.owed # {})
    /\ Finished(th)
    /\ UNCHANGED <<server, status, disk, mem, uiLock, beat, click, budget>>

FinishLocal(th) ==
    LET f == pc[th].flow IN
    /\ pc[th].at = "finishLocal"
    /\ mem' = [mem EXCEPT !.api = IF @ = f THEN None ELSE @]
    /\ IF disk.flow = f
       THEN /\ disk' = [disk EXCEPT !.flow = None]
            /\ Go(th, "finishForget") /\ UNCHANGED taskLock
       ELSE Finished(th) /\ UNCHANGED disk
    /\ UNCHANGED <<server, status, uiLock, beat, click, budget>>

\* Whatever flow the other thread has registered meanwhile.
FinishForget(th) ==
    LET f == pc[th].flow IN
    /\ pc[th].at = "finishForget"
    /\ mem' = [mem EXCEPT !.backend = None,
                          !.recover = IF @ = f THEN None ELSE @]
    /\ disk' = [disk EXCEPT !.receipts = @ \ {f}]
    /\ Finished(th)
    /\ UNCHANGED <<server, status, uiLock, beat, click, budget>>

-----------------------------------------------------------------------------
(* The C2 listener.                                                        *)

Scan ==
    /\ pc["c2"].at = "scan"
    /\ uiLock = None
    /\ CanStart
    /\ \E f \in Reads : status[f] = "pending"
    /\ \E passes \in BOOLEAN :
          Replay(passes) /\ Go("c2", IF passes THEN "read" ELSE "scan")
    /\ UNCHANGED <<server, status, mem, taskLock, uiLock, beat, click, budget>>

\* With a flow on disk the listener replays, and waits.
Settle ==
    /\ pc["c2"].at = "scan"
    /\ uiLock = None
    /\ CanContinue(disk.flow)
    /\ \E passes \in BOOLEAN : Replay(passes)
    /\ UNCHANGED <<server, status, mem, taskLock, uiLock, pc, beat, click, budget>>

\* _read_one_wechat_target: a flow on disk is taken for the flow of the
\* customer this read belongs to, whoever registered it.
Adopt ==
    /\ pc["c2"].at = "read" /\ disk.flow # None
    /\ pc' = [pc EXCEPT !["c2"] = [at |-> "enter", flow |-> disk.flow, own |-> FALSE]]
    /\ mem' = [mem EXCEPT !.api = disk.flow]
    /\ UNCHANGED <<server, status, disk, taskLock, uiLock, beat, click, budget>>

Read(f) ==
    /\ pc["c2"].at = "read" /\ disk.flow = None
    /\ status[f] = "pending"
    /\ pc' = [pc EXCEPT !["c2"] = [at |-> "start", flow |-> f, own |-> TRUE]]
    /\ UNCHANGED <<server, status, disk, mem, taskLock, uiLock, beat, click, budget>>

\* _high_priority_active
Enter ==
    /\ pc["c2"].at = "enter"
    /\ Go("c2", IF mem.current # None \/ taskLock # None THEN "leave" ELSE "await")
    /\ UNCHANGED <<server, status, disk, mem, taskLock, uiLock, beat, click, budget>>

AwaitBug ==
    /\ pc["c2"].at = "await"
    /\ IF uiLock # None
       THEN Go("c2", "leave") /\ UNCHANGED uiLock
       ELSE Go("c2", "work") /\ uiLock' = "c2"
    /\ UNCHANGED <<server, status, disk, mem, taskLock, beat, click, budget>>

\* The UI lock is taken under task_lock, which is given back at once.
Await ==
    /\ pc["c2"].at = "await" /\ taskLock = None
    /\ \E passes \in BOOLEAN :
          /\ Replay(passes)
          /\ IF ~passes \/ mem.current # None \/ uiLock # None
             THEN Go("c2", "leave") /\ UNCHANGED uiLock
             ELSE Go("c2", "work") /\ uiLock' = "c2"
    /\ UNCHANGED <<server, status, mem, taskLock, beat, click, budget>>

\* What is seen in WeChat or done there is on disk before the server has it.
KeepFact(th) ==
    /\ pc[th].at = "work"
    /\ disk' = [disk EXCEPT !.owed = @ \cup {pc[th].flow}]
    /\ UNCHANGED <<server, status, mem, taskLock, uiLock, pc, beat, click, budget>>

ReadWork ==
    /\ pc["c2"].at = "work"
    /\ uiLock' = None
    /\ Go("c2", "leave")
    /\ UNCHANGED <<server, status, disk, mem, taskLock, beat, click, budget>>

\* A read of its own flow keeps a receipt of its outcome and ends the flow.
Leave ==
    /\ pc["c2"].at = "leave"
    /\ IF pc["c2"].own
       THEN /\ status' = [status EXCEPT ![pc["c2"].flow] = "over"]
            /\ disk' = [disk EXCEPT !.receipts = @ \cup {pc["c2"].flow}]
            /\ Go("c2", "finishCall") /\ UNCHANGED taskLock
       ELSE GoHome("c2") /\ UNCHANGED <<status, disk>>
    /\ UNCHANGED <<server, mem, uiLock, beat, click, budget>>

-----------------------------------------------------------------------------
(* The back office, and the end of the client's process.                   *)

AdminCancel(t) ==
    /\ status[t] \in {"pending", "running"}
    /\ status' = [status EXCEPT ![t] = "over"]
    /\ UNCHANGED <<server, disk, mem, taskLock, uiLock, pc, beat, click, budget>>

\* Everything but the disk is gone; start() remembers the flow it finds there.
Restart ==
    /\ budget.crashes > 0
    /\ budget' = [budget EXCEPT !.crashes = @ - 1]
    /\ mem' = [Started EXCEPT !.recover = disk.flow]
    /\ taskLock' = None /\ uiLock' = None
    /\ pc' = AtHome
    /\ beat' = NoBeat
    /\ click' = [click EXCEPT !.at = "idle", !.flow = None]
    /\ UNCHANGED <<server, status, disk>>

-----------------------------------------------------------------------------
\* What both threads do.
FlowStep(th) ==
    \/ Recover(th) \/ Start(th) \/ Record(th) \/ Crash(th)
    \/ FinishBlocked(th) \/ FinishLocal(th) \/ FinishForget(th)
    \/ \E fate \in Fates : StartCall(th, fate) \/ FinishCall(th, fate)

TaskStep ==
    \/ FlowStep("task")
    \/ Tick \/ TickSync \/ SyncAnswered \/ BeatAnswered \/ Barrier \/ NothingToRecover
    \/ Gate \/ Lock \/ LockRefused \/ Pulled \/ Claim \/ Claimed \/ Finish
    \/ \E t \in Tasks : PullCall(t)
    \/ \E fate \in Fates :
          \/ SyncCall(fate) \/ BeatCall(fate) \/ PullFailed(fate) \/ ClaimCall(fate)
          \/ Work(fate) \/ Report(fate)

C2Step ==
    \/ FlowStep("c2")
    \/ Scan \/ Settle \/ Adopt \/ Enter \/ Await \/ ReadWork \/ Leave
    \/ \E f \in Reads : Read(f)

Monitor == \E fate \in Fates : MonitorSync(fate)

ClickReturns == ClickAnswered \/ ClickFailed \/ \E fate \in Fates : ClickCall(fate)

Next == \/ ClickPause \/ ClickStart \/ ClickReturns
        \/ TaskStep \/ C2Step \/ Monitor
        \/ \E th \in Threads : KeepFact(th)
        \/ Restart
        \/ \E t \in Tasks : AdminCancel(t)

Spec == Init /\ [][Next]_vars

(* Every thread that runs is scheduled, and the five seconds between two    *)
(* repetitions of a pause pass; nobody has to click, to cancel a task or   *)
(* to restart the client, and no work has to write a fact.                 *)
Fairness == /\ WF_vars(TaskStep) /\ SF_vars(TickSync)
            /\ WF_vars(C2Step) /\ WF_vars(Monitor) /\ WF_vars(ClickReturns)

FairSpec == Spec /\ Fairness

-----------------------------------------------------------------------------
FlowOrNone == Flows \cup {None}

Registration == [running : BOOLEAN, flow : FlowOrNone]
OnDisk       == [paused : BOOLEAN, flow : FlowOrNone, receipts : SUBSET Reads,
                 owed : SUBSET Flows]
InMemory     == [backend : FlowOrNone, api : FlowOrNone, recover : FlowOrNone,
                 sync : BOOLEAN, current : Tasks \cup {None}, stopped : BOOLEAN]
Place        == [at : Labels, flow : FlowOrNone, own : BOOLEAN]
LastClick    == [at : {"idle", "call", "answer", "error"},
                 wish : {"running", "paused"}, flow : FlowOrNone]
Allowance    == [losses : 0..Losses, crashes : 0..Crashes]

TypeOK ==
    /\ server \in Registration
    /\ status \in [Flows -> {"pending", "running", "over"}]
    /\ disk \in OnDisk
    /\ mem \in InMemory
    /\ taskLock \in {"task", None} /\ uiLock \in Threads \cup {None}
    /\ pc \in [Threads -> Place]
    /\ beat \in Registration
    /\ click \in LastClick
    /\ budget \in Allowance

(* The C2 listener never drives WeChat while the task loop executes a task, *)
(* though it may have begun its read under a flow that ended since.        *)
TaskAndReadNeverOverlap == pc["c2"].at = "work" => mem.current = None

(* A task runs on the server only while its own flow is registered, across *)
(* lost answers, cancellations and restarts: a registered flow never ends  *)
(* before its task, and a pull is never answered with a running task.      *)
RunningIsRegistered ==
    \A t \in Tasks : status[t] = "running" => server.flow = t

(* The threads, the disk and the server together keep the promise of        *)
(* OneFlow: a task is carried out at most once, under its own registration *)
(* and apart from every read (task_runner.py:1908, 2004, 13494).           *)
Granted == {t \in Tasks : pc["task"].at = "claimed" /\ pc["task"].flow = t}

Duty == INSTANCE OneFlow
             WITH registered <- server.flow, row <- status, current <- mem.current,
                  ready <- Granted, driver <- uiLock

KeepsOneFlow == Duty!Spec

(* A flow that was over when the client was restarted is unregistered by   *)
(* the recovery, though no thread of the new process owns it, once nothing *)
(* on disk holds it back: no fact it owes, and for a read no              *)
(* acknowledgement another flow owes.  Such facts may hold it for good     *)
(* (task_runner.py:2006).                                                  *)
RestartSettles ==
    \A f \in Flows :
        (/\ mem.recover = f /\ disk.flow = f /\ server.flow = f
         /\ f \in Tasks \cup disk.receipts /\ status[f] = "over"
         /\ f \notin disk.owed /\ (f \in Reads => disk.owed = {}))
            ~> (server.flow # f \/ mem.stopped)

(* A pause that has to be repeated reaches the server, whatever is lost and *)
(* whichever thread dies, unless the user starts again first.  Left out:   *)
(* the answer of an older heartbeat or repetition, which forgets the pause *)
(* whatever was clicked since (task_runner.py:2151, 2319), the C2          *)
(* listener's death and a restart, after which nothing on disk says that   *)
(* it has to be repeated.                                                  *)
PauseIsRepeated ==
    (mem.sync /\ click.at = "idle" /\ click.wish = "paused"
       /\ pc["task"].at \notin {"beatDone", "synced"})
        ~> (\/ ~server.running \/ click.wish = "running"
            \/ pc["c2"].at = "dead" \/ budget.crashes < Crashes)

(* task_runner.py: a pause is not overwritten by a heartbeat that carries a *)
(* stale run status; only a click on start ends it.                        *)
PauseSurvives ==
    [][click.wish = "paused" /\ click.at = "idle" /\ disk.paused => disk'.paused]_vars
=============================================================================
