------------------------------ MODULE TaskLease ------------------------------
(***************************************************************************)
(* The server-side task lease: backend/app/services/task_service.py, the   *)
(* routes of backend/app/api/routes/tasks.py and the worker gates of       *)
(* worker_service.py they call.                                            *)
(*                                                                         *)
(* Every HTTP request is a database transaction at READ COMMITTED.  A      *)
(* handler that reads the task with a plain SELECT and later flushes its   *)
(* decision is two actions, ...Begin (the read, with every check made on   *)
(* it) and ...Commit (the UPDATE, made from the snapshot); whatever other  *)
(* transactions commit in between is not seen again.  claim_task holds the *)
(* task row (SELECT ... FOR UPDATE) from ClaimLock to ClaimCommit.         *)
(*                                                                         *)
(* Abstracted: step, remark, event and audit columns; the worker's status  *)
(* display columns, which no gate reads; enabled, online status and RPA    *)
(* readiness, which can only refuse a request that no client is obliged to *)
(* make; time is the number of ticks a lease has left.                     *)
(* lease_owner_worker_id always equals worker_id while it is set.          *)
(*                                                                         *)
(* A definition whose name ends in Bug is the next one with a plausible    *)
(* slip in the code; it is used only to show that a property can fail.     *)
(***************************************************************************)
EXTENDS Integers, Sequences

CONSTANTS
    Tasks,          \* rows of the tasks table
    Workers,        \* rows of the workers table
    Clients,        \* client_instance_ids
    Requests,       \* transactions that may be open at once
    NoWorker,       \* worker_id IS NULL
    NoClient,       \* lease owner or client_instance_id IS NULL
    NoFlow,         \* inflight_flow_state is empty
    ReadFlow,       \* a flow_id of kind c2_read; the other kinds use the task id
    LeaseTicks      \* task_lease_seconds, in ticks

ASSUME TaskLeaseAssumption ==
    /\ NoWorker \notin Workers
    /\ NoClient \notin Clients
    /\ NoFlow \notin Tasks \cup {ReadFlow}
    /\ LeaseTicks \in Nat \ {0}

VARIABLES
    task,       \* task[t]: the committed row
    worker,     \* worker[w]: the committed row
    req,        \* req[r]: the open transaction in slot r, or Idle
    claims      \* history: the claims committed so far, oldest first

vars == <<task, worker, req, claims>>

-----------------------------------------------------------------------------
Cancellable == {"blocked", "pending", "running"}
Terminal    == {"completed", "failed", "cancelled"}
Status      == Cancellable \cup Terminal

TaskType    == {"add_friend", "chat_reply"}

TaskRow == [type   : TaskType,
            status : Status,
            worker : Workers \cup {NoWorker},
            owner  : Clients \cup {NoClient},
            fence  : Nat,
            left   : 0..LeaseTicks]

WorkerRow == [client        : Clients \cup {NoClient},
              resetRequired : BOOLEAN,
              running       : BOOLEAN,      \* run_status, else paused
              flow          : Tasks \cup {ReadFlow, NoFlow},
              draining      : BOOLEAN]      \* else the flow is active

Claim == [client : Clients, task : Tasks, fence : Nat]

Idle == [kind |-> "idle"]

\* A claim carries no task snapshot before it holds the row lock.
ClaimRequest == [kind : {"claim", "claimLocked"},
                 client : Clients, worker : Workers, task : Tasks]

\* The others hold the row they read, and the fencing token they presented.
SnapRequest == [kind : {"renew", "complete", "fail", "cancel"},
                client : Clients \cup {NoClient},
                task : Tasks, token : Nat, snap : TaskRow]

Request == {Idle} \cup ClaimRequest \cup SnapRequest

NewRow(type, status, w) == [type |-> type, status |-> status, worker |-> w,
                            owner |-> NoClient, fence |-> 0, left |-> 0]

Init ==
    /\ task \in [Tasks -> {NewRow("add_friend", "blocked", NoWorker)}
                     \cup {NewRow(type, "pending", w) : type \in TaskType, w \in Workers}]
    /\ worker = [w \in Workers |-> [client |-> NoClient, resetRequired |-> FALSE,
                                    running |-> FALSE, flow |-> NoFlow,
                                    draining |-> FALSE]]
    /\ req = [r \in Requests |-> Idle]
    /\ claims = <<>>

-----------------------------------------------------------------------------
(* Guards shared by the handlers.                                          *)

\* authenticate_worker_client: a worker that was never bound accepts any
\* client instance, one whose binding was reset accepts none.
Authenticates(w, c) ==
    \/ worker[w].client = c
    \/ worker[w].client = NoClient /\ ~worker[w].resetRequired

\* The handlers that lock the worker row authenticate on a read made before the
\* lock: the binding may be reset in between.
Admitted(w, c) == Authenticates(w, c) \/ worker[w].resetRequired

\* validate_inflight_continuation, for a client that presents the registered
\* flow, and for one that asks for new work.
Continues(w)  == worker[w].running \/ worker[w].flow # NoFlow
OpenToNew(w)  == worker[w].running /\ worker[w].flow = NoFlow

\* The claim route: a paused worker may still claim for the flow it drains.
MayClaim(w, t) ==
    \/ worker[w].running
    \/ /\ worker[w].draining
       /\ worker[w].flow = t \/ (worker[w].flow = ReadFlow /\ task[t].type = "chat_reply")

HoldsLeaseOwnerBug(row, c, token) ==
    row.status = "running" /\ row.fence = token /\ row.left > 0

HoldsLeaseExpiryBug(row, c, token) ==
    row.status = "running" /\ row.owner = c /\ row.fence = token

\* validate_task_lease, on the row the caller holds in its session.
HoldsLease(row, c, token) ==
    /\ row.status = "running"
    /\ row.owner = c
    /\ row.fence = token
    /\ row.left > 0

LockedBug(t) == FALSE

\* Row locks outlive an action only between ClaimLock and ClaimCommit.
Locked(t) == \E r \in Requests : req[r].kind = "claimLocked" /\ req[r].task = t

RunningOf(w) == {t \in Tasks : task[t].status = "running" /\ task[t].worker = w}

\* The fencing tokens issued for t, which any client may have on disk.
TokensOf(t) == {claims[i].fence : i \in {j \in DOMAIN claims : claims[j].task = t}}

\* finish_task_and_release_worker and the status assignment before it.  The
\* UPDATE names only columns whose value differs from the snapshot, so a lease
\* the snapshot did not have is not cleared.
Finished(row, snap, status) ==
    IF snap.owner = NoClient
    THEN [row EXCEPT !.status = status]
    ELSE [row EXCEPT !.status = status, !.owner = NoClient, !.left = 0]

Begin(r, request) ==
    /\ req[r] = Idle
    /\ req' = [req EXCEPT ![r] = request]
    /\ UNCHANGED <<task, worker, claims>>

End(r) == req' = [req EXCEPT ![r] = Idle]

-----------------------------------------------------------------------------
(* claim_task: authenticate and check the worker, lock the task row and    *)
(* check it, look for another running task, write.                         *)

ClaimBegin(r, c, w, t) ==
    /\ Authenticates(w, c)
    /\ MayClaim(w, t)
    /\ Begin(r, [kind |-> "claim", client |-> c, worker |-> w, task |-> t])

Claimable(t, w) ==
    /\ task[t].status = "pending"
    /\ task[t].worker \in {w, NoWorker}
    /\ RunningOf(w) \subseteq {t}

ClaimLock(r) ==
    /\ req[r].kind = "claim"
    /\ ~Locked(req[r].task)
    /\ Claimable(req[r].task, req[r].worker)
    /\ req' = [req EXCEPT ![r].kind = "claimLocked"]
    /\ UNCHANGED <<task, worker, claims>>

ClaimRefused(r) ==
    /\ req[r].kind = "claim"
    /\ ~Locked(req[r].task)
    /\ ~Claimable(req[r].task, req[r].worker)
    /\ End(r)
    /\ UNCHANGED <<task, worker, claims>>

ClaimCommitOwnerBug(r) ==
    LET q == req[r]  fence == task[q.task].fence + 1 IN
    /\ q.kind = "claimLocked"
    /\ task' = [task EXCEPT ![q.task] =
                   [type |-> task[q.task].type, status |-> "running", worker |-> q.worker,
                    owner |-> worker[q.worker].client,
                    fence |-> fence, left |-> LeaseTicks]]
    /\ claims' = Append(claims, [client |-> q.client, task |-> q.task, fence |-> fence])
    /\ End(r)
    /\ UNCHANGED worker

ClaimCommit(r) ==
    LET q == req[r]  fence == task[q.task].fence + 1 IN
    /\ q.kind = "claimLocked"
    /\ task' = [task EXCEPT ![q.task] =
                   [type |-> task[q.task].type, status |-> "running", worker |-> q.worker,
                    owner |-> q.client, fence |-> fence, left |-> LeaseTicks]]
    /\ claims' = Append(claims, [client |-> q.client, task |-> q.task, fence |-> fence])
    /\ End(r)
    /\ UNCHANGED worker

-----------------------------------------------------------------------------
(* The handlers that decide on a row read without a lock.                  *)

Snapshot(kind, c, t, token) ==
    [kind |-> kind, client |-> c, task |-> t, token |-> token, snap |-> task[t]]

Reachable(c, t) ==
    LET w == task[t].worker IN w # NoWorker /\ Authenticates(w, c) /\ Continues(w)

\* The route's get_task_or_404; the lease is validated after the row lock.
RenewBegin(r, c, t) ==
    /\ Reachable(c, t)
    /\ \E token \in TokensOf(t) : Begin(r, Snapshot("renew", c, t, token))

RenewCommitWholeRowBug(r) ==
    /\ req[r].kind = "renew"
    /\ ~Locked(req[r].task)
    /\ HoldsLease(req[r].snap, req[r].client, req[r].token)
    /\ task' = [task EXCEPT ![req[r].task] = [req[r].snap EXCEPT !.left = LeaseTicks]]
    /\ End(r)
    /\ UNCHANGED <<worker, claims>>

\* The FOR UPDATE read does not refresh the row already in the session, so the
\* lease is validated on the snapshot.
RenewCommit(r) ==
    /\ req[r].kind = "renew"
    /\ ~Locked(req[r].task)
    /\ HoldsLease(req[r].snap, req[r].client, req[r].token)
    /\ task' = [task EXCEPT ![req[r].task].left = LeaseTicks]
    /\ End(r)
    /\ UNCHANGED <<worker, claims>>

RenewRefused(r) ==
    /\ req[r].kind = "renew"
    /\ ~Locked(req[r].task)
    /\ ~HoldsLease(req[r].snap, req[r].client, req[r].token)
    /\ End(r)
    /\ UNCHANGED <<task, worker, claims>>

\* invite-sent and already-friend.
CompleteBegin(r, c, t) ==
    /\ task[t].type = "add_friend"
    /\ Reachable(c, t)
    /\ \E token \in TokensOf(t) :
          /\ HoldsLease(task[t], c, token)
          /\ Begin(r, Snapshot("complete", c, t, token))

\* A chat reply may also be failed before it was ever claimed, without a lease.
FailBegin(r, c, t) ==
    /\ Reachable(c, t)
    /\ \/ \E token \in TokensOf(t) :
             /\ HoldsLease(task[t], c, token)
             /\ Begin(r, Snapshot("fail", c, t, token))
       \/ /\ task[t].type = "chat_reply" /\ task[t].status = "pending"
          /\ Begin(r, Snapshot("fail", c, t, 0))

ExpireBeginOwnerFirstBug(r, c, w) ==
    /\ Authenticates(w, c)
    /\ OpenToNew(w)
    /\ \E t \in RunningOf(w) :
          /\ task[t].owner = c
          /\ task[t].left = 0
          /\ Begin(r, Snapshot("fail", c, t, 0))

\* The pull route on an expired lease: the running task claimed last.
ExpireBegin(r, c, w) ==
    /\ Authenticates(w, c)
    /\ OpenToNew(w)
    /\ \E i \in DOMAIN claims :
          LET t == claims[i].task IN
          /\ t \in RunningOf(w)
          /\ \A j \in DOMAIN claims : claims[j].task \in RunningOf(w) => j <= i
          /\ task[t].left = 0
          /\ Begin(r, Snapshot("fail", c, t, 0))

CancelBegin(r, t) ==
    /\ task[t].status \in Cancellable
    /\ Begin(r, Snapshot("cancel", NoClient, t, 0))

Outcome(kind) == CASE kind = "complete" -> "completed"
                   [] kind = "fail"     -> "failed"
                   [] kind = "cancel"   -> "cancelled"

FinishCommit(r) ==
    /\ req[r].kind \in {"complete", "fail", "cancel"}
    /\ ~Locked(req[r].task)
    /\ task' = [task EXCEPT ![req[r].task] =
                   Finished(@, req[r].snap, Outcome(req[r].kind))]
    /\ End(r)
    /\ UNCHANGED <<worker, claims>>

\* An exception, a lost connection or a restart of the backend.
Rollback(r) ==
    /\ req[r] # Idle
    /\ End(r)
    /\ UNCHANGED <<task, worker, claims>>

-----------------------------------------------------------------------------
(* Handlers that are one step: they lock every row they decide on.         *)

\* unblock_sales_worker_tasks, for the blocked tasks of one sales.
Unblock(w, S) ==
    /\ S # {}
    /\ \A t \in S : task[t].status = "blocked" /\ ~Locked(t)
    /\ task' = [t \in Tasks |-> IF t \in S
                                THEN [task[t] EXCEPT !.status = "pending", !.worker = w]
                                ELSE task[t]]
    /\ UNCHANGED <<worker, req, claims>>

\* sent_ack and recover_stale_sending_reply_action, as the row of the claimed
\* reply sees them: neither looks at a lease, the first not at the status.
SettleReply(t) ==
    /\ task[t].type = "chat_reply"
    /\ TokensOf(t) # {} /\ ~Locked(t)
    /\ \E status \in {"completed", "failed"} :
          task' = [task EXCEPT ![t] = Finished(@, @, status)]
    /\ UNCHANGED <<worker, req, claims>>

\* heartbeat_worker: the client declares itself bound.
Heartbeat(w, c) ==
    /\ Admitted(w, c)
    /\ worker' = [worker EXCEPT ![w].resetRequired = FALSE]
    /\ UNCHANGED <<task, req, claims>>

\* set_worker_run_status: pausing turns an active flow into a draining one.
SetRunStatus(w, c, running) ==
    /\ Admitted(w, c)
    /\ worker' = [worker EXCEPT ![w] =
                     [@ EXCEPT !.running = running,
                               !.draining = @ \/ (~running /\ worker[w].flow # NoFlow)]]
    /\ UNCHANGED <<task, req, claims>>

\* A second start of the registered flow changes nothing, one of another flow
\* is a conflict.
StartFlow(w, c, f) ==
    /\ Admitted(w, c)
    /\ OpenToNew(w)
    /\ worker' = [worker EXCEPT ![w].flow = f]
    /\ UNCHANGED <<task, req, claims>>

\* A task's flow ends with the task.  A read's flow ends on facts of the
\* conversation that are not modelled here.
FinishFlow(w, c) ==
    /\ Admitted(w, c)
    /\ worker[w].flow # NoFlow
    /\ worker[w].flow \in Tasks => task[worker[w].flow].status \in Terminal
    /\ worker' = [worker EXCEPT ![w] = [@ EXCEPT !.flow = NoFlow, !.draining = FALSE]]
    /\ UNCHANGED <<task, req, claims>>

\* Two binds that overlap leave what a bind, a reset and a bind leave.
Bind(w, c) ==
    /\ worker[w].client \in {NoClient, c}
    /\ worker' = [worker EXCEPT ![w] = [@ EXCEPT !.client = c, !.resetRequired = FALSE,
                                                 !.running = FALSE]]
    /\ UNCHANGED <<task, req, claims>>

\* The registered flow and the leases of the former client stay.
ResetBinding(w) ==
    /\ worker' = [worker EXCEPT ![w] = [@ EXCEPT !.client = NoClient, !.resetRequired = TRUE,
                                                 !.running = FALSE]]
    /\ UNCHANGED <<task, req, claims>>

AgedBug(row) == [row EXCEPT !.left = @ - 1]

\* Time: every lease loses a tick, in the table and in the open sessions.
Aged(row) == [row EXCEPT !.left = IF @ > 0 THEN @ - 1 ELSE 0]

Tick ==
    /\ task' = [t \in Tasks |-> Aged(task[t])]
    /\ req' = [r \in Requests |-> IF req[r].kind \in {"renew", "complete", "fail", "cancel"}
                                  THEN [req[r] EXCEPT !.snap = Aged(@)]
                                  ELSE req[r]]
    /\ UNCHANGED <<worker, claims>>

-----------------------------------------------------------------------------
RequestStep(r) ==
    \/ \E t \in Tasks : CancelBegin(r, t)
    \/ \E c \in Clients, t \in Tasks :
          \/ RenewBegin(r, c, t) \/ CompleteBegin(r, c, t) \/ FailBegin(r, c, t)
          \/ \E w \in Workers : ClaimBegin(r, c, w, t)
    \/ \E c \in Clients, w \in Workers : ExpireBegin(r, c, w)
    \/ ClaimLock(r) \/ ClaimRefused(r) \/ ClaimCommit(r)
    \/ RenewCommit(r) \/ RenewRefused(r) \/ FinishCommit(r) \/ Rollback(r)

WorkerStep(w) ==
    \/ \E S \in SUBSET Tasks : Unblock(w, S)
    \/ \E c \in Clients :
          \/ Bind(w, c) \/ Heartbeat(w, c) \/ FinishFlow(w, c)
          \/ \E running \in BOOLEAN : SetRunStatus(w, c, running)
          \/ \E f \in Tasks \cup {ReadFlow} : StartFlow(w, c, f)
    \/ ResetBinding(w)

Next == \/ \E r \in Requests : RequestStep(r)
        \/ \E w \in Workers : WorkerStep(w)
        \/ \E t \in Tasks : SettleReply(t)
        \/ Tick

Spec == Init /\ [][Next]_vars

(* Fairness.  A client polls pull every few seconds, and the backend is not *)
(* interrupted at the same commit for ever.                                *)
Fairness ==
    /\ \A w \in Workers : SF_vars(\E r \in Requests, c \in Clients : ExpireBegin(r, c, w))
    /\ \A r \in Requests : /\ SF_vars(FinishCommit(r))
                           /\ WF_vars(ClaimLock(r) \/ ClaimRefused(r) \/ ClaimCommit(r))
                           /\ WF_vars(RenewCommit(r) \/ RenewRefused(r))

FairSpec == Spec /\ Fairness

-----------------------------------------------------------------------------
TypeOK ==
    /\ task \in [Tasks -> TaskRow]
    /\ worker \in [Workers -> WorkerRow]
    /\ req \in [Requests -> Request]
    /\ claims \in Seq(Claim)

(* A task is claimed at most once, ever: its fencing token is issued to one *)
(* client and an expired or failed task is never replayed.                 *)
ClaimedAtMostOnce ==
    \A i, j \in DOMAIN claims : claims[i].task = claims[j].task => i = j

(* A running task is leased to the client whose claim it was, with the     *)
(* token of that claim, whatever requests were open while it was claimed.  *)
RunningHasClaimant ==
    \A t \in Tasks : task[t].status = "running" =>
        \E i \in DOMAIN claims :
            claims[i] = [client |-> task[t].owner, task |-> t, fence |-> task[t].fence]

(* A completion in flight comes from the client the task was claimed by,   *)
(* also after the worker was reset and bound to another client.            *)
OnlyClaimantCompletes ==
    \A r \in Requests : req[r].kind = "complete" =>
        \E i \in DOMAIN claims :
            claims[i] = [client |-> req[r].client, task |-> req[r].task,
                         fence |-> req[r].token]

(* No request revives a lease once it has run out, not even a renewal that *)
(* validated a row it read before: the client that stopped on expiry and   *)
(* the server agree for good.                                              *)
ExpiredLeaseStaysExpired ==
    [][\A t \in Tasks :
          task[t].status = "running" /\ task[t].left = 0
          /\ task'[t].status = "running" => task'[t].left = 0]_vars

(* A finished task is never offered or run again, even when a request that *)
(* read it as pending or running commits after it finished.                *)
TerminalNeverRunsAgain ==
    [][\A t \in Tasks : task[t].status \in Terminal => task'[t].status \in Terminal]_vars

(* The table refines the one-shot task: at most one client per task.       *)
Phase(row) == IF row.status \in Terminal THEN "over"
              ELSE IF row.status = "running" THEN "handed" ELSE "waiting"

OneShot == INSTANCE OneShotTasks WITH
    phase <- [t \in Tasks |-> Phase(task[t])],
    runners <- [t \in Tasks |-> {c \in Clients : \E i \in DOMAIN claims :
                                    claims[i].task = t /\ claims[i].client = c}]

ImplementsOneShot == OneShot!Spec

(* A lease that ran out is taken from its task, provided the worker keeps  *)
(* coming back to a state in which a pull gets through.                    *)
ExpiredLeaseIsReaped ==
    \A t \in Tasks, w \in Workers :
        ([]<>(/\ OpenToNew(w) /\ \E c \in Clients : Authenticates(w, c)
              /\ \E r \in Requests : req[r] = Idle)) =>
            ((t \in RunningOf(w) /\ task[t].left = 0) ~> task[t].status \in Terminal)
=============================================================================
