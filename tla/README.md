# Formal models of the CheJin sales follow-up system

TLA+ models, TLC runs and TLAPS proofs for the parts of the system in which
several parties decide about the same piece of state: the server's task lease,
the in-flight flow of a worker client, the one reply that is sent to a
customer and can never be taken back, the turns of a conversation that lead to
it, how its chat is read into the database, the notification of a handoff, and
the assignment of leads. `PROJECT.json` lists the components,
the runs, the mutants, the lines every definition models, the findings, the
hazards and the theorems.

## 1. The system

A customer lead enters the FastAPI back end (`src/backend`), is assigned to a
sales and becomes a *task*: `add_friend`, later `chat_reply`. Each sales has a
*worker*, a Windows client (`src/worker-client`) that drives the WeChat window.
The client polls the server; the server never calls the client. PostgreSQL is
the only state the server's processes share; every HTTP handler is one
transaction at READ COMMITTED.

| Component | State it keeps | Operations | What is hard |
|---|---|---|---|
| Task centre (`task_service.py`, `routes/tasks.py`) | `tasks`: status, worker, lease owner, fencing token, lease expiry | create, unblock, pull, claim, renew, complete, fail, cancel | handlers that decide on a row read without a lock and flush later; expiry seen only by pull |
| Worker registry (`worker_service.py`) | `workers`: bound client instance, `run_status`, `inflight_flow_state` | bind, reset, heartbeat, run status, start and finish a flow, the gates of the other handlers | two clients of one worker over a reset; a flow that outlives its task |
| Conversation and reply (`c3_service.py`, `c3_recovery.py`) | message batches, reply actions, send tokens, acks | generate, guard, claim-send, sent-ack, supersede, recover | a send that cannot be undone, a lost ack, a new message during the send |
| WeChat messages and bindings (`wechat_service.py`) | bindings with their generations and due times, message facts | scan, bind, lend the right to read, ingest, settle a read | a badge seen and a read made at different times; retries and late requests; a binding that is lost |
| Lead intake, assignment (`lead_service.py`, `assignment_service.py`, `sales_service.py`) | leads, round-robin cursor, sales and their worker | create, assign, retry, mark invalid, restore, bind | concurrent leads, looks without a lock, duplicate phones |
| Handoff notification (`feishu_service.py`) | `notify_status` of a handoff, identity of the sales | dispatch after the commit, claim, send, settle, recover, look up an identity | several dispatchers, one that dies after the send, an identity that is out of date |
| Client loop and listener (`task_runner.py`) | current task, flow ids, gates in memory; several threads | pull, claim, execute, report, finish; read a session; monitor threads | threads interleaving, calls lost, the process killed |
| Client storage (`storage.py`) | `pause_requested`, `inflight_flow_id`, receipts, outbox, ledger (SQLite) | save and clear | what is on disk against what the server holds |
| UI lock, action journal (`ui_lock.py`, `action_journal.py`) | lock file with lease and fencing token; phases of a physical action | acquire, renew, recover; record | a slow holder, a crash between action and record |
| Back office, AI, telemetry, website, `omniauto-rpa` | presentation, external services, vendored engine | | not part of a protocol |

How they interact. The client *heartbeats* (the answer carries `run_status` and
the registered flow), *pulls* a task, *starts* a flow on the server under the
task's id, records it on disk, *claims* the task (row lock, fencing token + 1,
lease), takes the UI lock, executes, *renews* while it does, *completes* or
*fails* the task, and *finishes* the flow. The C2 listener thread of the same
client registers a flow of its own to read a session. Pausing turns an active
flow into a draining one: the client may finish what it began and starts nothing.

On the server an *ingest* of a read opens or fills the *batch* (turn) of a
conversation and withdraws the replies that wait; a background thread
*generates* the reply, calling the AI between two transactions; the reply is
queued, *claimed* by the client, sent and *acked*. A failed or refused turn
opens a *handoff*: the sales is notified over Feishu after the commit, and when
it answers in the chat the next ingest closes the handoff. One *recovery loop*
dispatches what is pending, claims batches whose generation is due or lost, and
settles stale sends.

### What makes each component correct

| Component | Properties that matter (written ones in code font) |
|---|---|
| Task centre | one client per task, ever (`ClaimedAtMostOnce`, `ImplementsOneShot`); a finished task stays finished (`TerminalNeverRunsAgain`, part of `ImplementsOneShot`); a lease that ran out is never revived and is taken away (`ExpiredLeaseStaysExpired`, `ExpiredLeaseIsReaped`); only the claimant completes (`OnlyClaimantCompletes`) |
| Worker registry, client threads | a running task has its flow registered (`RunningIsRegistered`); a read and a task never drive WeChat together (`TaskAndReadNeverOverlap`); a pause arrives and survives (`PauseIsRepeated`, `PauseSurvives`); a restart settles what was over and owes nothing (`RestartSettles`); one flow at a time, each task carried out once at most (`KeepsOneFlow`) |
| Conversation and reply | at most one physical send (`SentAtMostOnce`); the record never contradicts the chat (`RecordedSentIsShown`; `SentIsNotDenied` is broken by a withdrawal, section 7, and by nothing else, `OnlyWithdrawalDenies`); a send is settled whatever is lost (`SentIsSettled`, `OutboxDrains`); no result is forgotten (`ConfirmedIsAcked`); a reply is one delivery, recorded as what happened (`RepliesAreDeliveredOnce`) |
| Message batches | one turn and one reply at a time, in order (`OneActiveBatch`, `TurnsAreTaken`, which has `OneQueuedReply` as a part); the answer is to the newest turn (`ReplyIsForLatestTurn`); no turn is dropped or stuck (`UnansweredTurnIsReplaced`, `TurnSettles`); an opt-out is final (`OptedOutStaysSilent`); a claimed reply is not withdrawn (it can be, section 7) |
| WeChat messages and bindings | a generation is consumed only with what raised it (`ConsumedIsStored`); a handoff silences the AI (`HandoffSilencesAI`); a turn is about something unanswered (`AnswersUnanswered`); what was shown unread is stored (`BadgedIsStored`); what was read is confirmed unless another worker takes the chat (`OutboxIsConfirmed`); what the read before a send found is stored first (`NewsIsStoredFirst`) |
| UI lock | one live holder; a recovered holder notices before it acts |
| Lead intake and assignment | the cursor visits every enabled sales (`RoundRobinIsEven`); an assigned lead is worked on (`AssignedHasTask`), by one task at a time (not kept, section 7) |
| Handoff notification | one message at most, recorded as what happened (`HandoffsAreDeliveredOnce`, which has `AtMostOneMessage` as a part); none forgotten (`SendingIsOwned`, `NotifiedOrClosed`); an identity is of the phone it was looked up for (`MatchIsForPhone`) |

## 2. Plan

In order of what a mistake costs. All modules but the last are written, checked
and proved about (section 3 on).

| Module | Models | Composes / refines |
|---|---|---|
| `OneShotTasks` | the promise of the task centre: waiting, handed to one client, over | abstract specification |
| `TaskLease` | the task table, worker gates, overlapping transactions | refines `OneShotTasks` |
| `OneFlow` | the promise of a worker: one flow registered until it is over, each task granted and carried out once, reads apart | abstract specification |
| `InflightFlow` | server registration, disk, memory, the two threads, monitor, clicks, losses, restarts | refines `OneFlow`; the environment of `TaskLease`'s flow gate |
| `DeliveredOnce` | the promise of a thing sent to a person: taken once, arrived once at most, the verdict true | abstract specification, of two components |
| `ReplySend` | one reply from the queue to the ack: reply action, task, outbox, journal, sidecar, barrier | refines `DeliveredOnce`; uses the lease as one bit, the flow as one record |
| `TurnTaking` | the promise of a conversation: turns in order, the last one answered, one reply waiting, silence after an opt-out | abstract specification |
| `ConversationTurn` | the batches, replies, handoff and status of one conversation, the transactions of ingests, generators and the recovery loop | refines `TurnTaking`; produces the actions of `ReplySend`, whose sending is one state here |
| `HandoffNotification` | the dispatch of a handoff and the identity of its sales | refines `DeliveredOnce`; begins where `ConversationTurn` opens a handoff |
| `LeadAssignment` | round-robin cursor, leads, creation of tasks, binding of workers | produces the tasks of `TaskLease` |
| `ConversationReading` | the round of the client that scans, reads and delivers one chat, against the binding, the conversation and the turn on the server | its read is one step of `InflightFlow`; opens the turns of `ConversationTurn`, whose answer is three actions here |
| *left:* `ActionJournal` | journals and outbox of reading images and voice, over a kill | durable record of at most one physical action |

The theorems worth proving next: an abstract specification for
`ConversationReading` (what is announced is stored, once) and for `LeadAssignment`
(leads dealt in turn), and that both hold of their modules.

## 3. The modules and the code

### `OneShotTasks`, `TaskLease` (`MCTaskLease`, `TaskLease_proofs`)

| In the model | In the code |
|---|---|
| `task[t]` | row of `tasks` (`models/task.py`): status, worker, lease owner, fencing token, lease expiry in ticks (`left`) |
| `worker[w]` | row of `workers`: binding, `run_status`, `inflight_flow_state` |
| `req[r]` | an open transaction: what a handler read and has not flushed yet |
| `claims` | history of committed claims (no code reads it) |
| `ClaimBegin` / `ClaimLock` / `ClaimCommit` / `ClaimRefused` | `claim_task`: gates, `SELECT ... FOR UPDATE`, the unlocked look for another running task, the commit |
| `RenewBegin` / `RenewCommit`, `CompleteBegin`, `FailBegin`, `CancelBegin`, `ExpireBegin` / `FinishCommit` | `renew_task_lease`, `complete_task`, `fail_task`, `cancel_task`, the expiry in `pull_task_for_worker` |
| `Bind`, `Heartbeat`, `ResetBinding`, `SetRunStatus`, `StartFlow`, `FinishFlow`, `Unblock` | the handlers of `worker_service.py` that decide who may call and what may start |
| `SettleReply` | `sent_ack` and the other ends of a reply, as they touch its task |

A handler that reads without a lock is two actions; the flush writes the columns
SQLAlchemy writes, which are those the handler assigned. The refinement maps a
row to `waiting`, `handed` or `over`, and the clients in `claims` to the runners.

### `OneFlow`, `InflightFlow` (`MCInflightFlow`, `InflightFlow_proofs`)

| In the model | In the code |
|---|---|
| `server` | `run_status` and `inflight_flow_state` of the worker |
| `disk` | `runtime_control` and the finish receipts in SQLite (`storage.py`); `disk.owed`: the flows with facts the server has not confirmed (C2 outbox, journals, ledger, sent acknowledgements) |
| `mem` | the fields of `TaskRunner` that the threads share: backend flow, API flow, recovery flow, pending pause sync, current task, emergency stop |
| `taskLock`, `uiLock` | `task_lock`, and the WeChat UI lock as held by a thread |
| `pc[th]` | the line at which the task loop or the C2 listener is |
| `beat`, `click` | an answer of a heartbeat, and of a click, on its way |
| `Tick` ... `Gate`, `Lock`, `Pull...`, `Claim...`, `Work`, `Report`, `Finish` | `tick_once`, `_sync_pending_run_status`, `_pull_and_execute`, `_execute_task`, `_run_add_friend_with_ui_lock` |
| `Start`, `StartCall`, `Record`, `FinishCall`, `FinishLocal`, `FinishForget`, `Recover` | `_start_inflight_flow`, `_finish_inflight_flow`, `_finish_restart_recovery_flow_if_settled`, and the handlers they call |
| `KeepFact`, `Barrier`, `Settle` | a fact a flow leaves on disk; `_worker_transaction_barrier_ready` before the recovery and the next pull, and with a flow on disk, as far as they replay facts |
| `FinishCall`, `FinishBlocked` | the guards of `_finish_inflight_flow` (`task_runner.py:2004`: the UI lock, facts of the flow, any fact for a read), and the call if all of them pass |
| `Scan`, `Read`, `Adopt`, `Await`, `Enter`, `ReadWork`, `Leave` | `_c2_loop`, `_read_state_target_queue`, `_read_one_wechat_target` |
| `MonitorSync`, `Crash(th)`, `Restart` | `_monitor_background_threads`, an exception that leaves a thread, a kill of the process and `start` |
| `ClickPause`, `ClickStart`, `ClickCall`, `ClickAnswered`, `ClickFailed` | `set_run_status`, which runs on a thread of its own |

A pass of the barrier replays what is owed; the server may refuse any part of it, for
ever. The guards of a finish and its call are one step: between them no other thread
takes the UI lock or leaves a fact for this flow while the server would still end it.

Every call is two steps, so that another thread may run between the handler and
the use of its answer. The refinement takes the registration and the rows as they
are, the task in hand from `mem.current`, who drives WeChat from `uiLock`, and as
granted the task of a loop that was just told that its claim succeeded.

### `DeliveredOnce`, `ReplySend` (`MCReplySend`, `ReplySend_proofs`, `ReplySettle_proofs`)

| In the model | In the code |
|---|---|
| `action`, `acked` | `ReplyAction.status` (`void` is superseded, expired, stale or cancelled, `undone` the same written over a claim) and the `SentAck` rows |
| `found` | the replies a withdrawal has read as queued, and may write at any later time |
| `task`, `leased` | the chat_reply task and whether its lease is current |
| `outbox` | `reply_send_ack_outbox` in SQLite: `intent`, `waiting` (also `capability_paused`), `confirmed` |
| `journal` | the phase in the journal file of the send; a removed file reads `not_attempted` |
| `shown` | how often the key press put the reply into the chat (no code reads it) |
| `sender` | the thread under the UI lock that reads a customer or runs a chat_reply task, from the refresh to the end of its flow |
| `sidecar` | the process that operates WeChat: journal, Enter, confirmation |
| `looked`, `replay` | a thread that found the UI lock free (`tick_once`) and has not listed the outbox yet; the pass over it under `reply_send_ack_lock` |
| `FindQueued`, `Withdraw`, `Generate` | `_supersede_open_actions` and `cancel_open_reply_actions_for_conversation_change` (`c3_service.py:703`, `732`): the unlocked read, and the flush by primary key; `generate_for_batch` |
| `Invalidate`, `CancelTask`, `RecoverStale` | the invalidation by a changed vehicle, which locks the row, `cancel_task`, `recover_stale_sending_reply_action` |
| `StartRead`, `Pull...`, `ReplyReady`, `Replaced`, `Refreshed`, `Stops`, `ClaimTask`, `ClaimSend` | `_wait_and_send_current_c3_batch_impl` up to the token, and the handlers it calls |
| `SaveIntent`, `Reconcile`, `CheckFails`, `StartSidecar`, `SidecarAnswers`, `SidecarCut`, `SenderAck` | the send of the same function, `save_reply_send_intent`, `send_reply` of the bridge, `_queue_and_submit_reply_send_ack` |
| `GiveUp`, `Mark`, `Press`, `Confirm` | `execute_send_transaction`, `safe_send_trigger`, `send_payload` of the sidecar |
| `Look`, `Replay...` | `_worker_transaction_barrier_ready`, `_replay_reply_send_ack_outbox` |
| `Finish`, `RestartRecovery` | the end of `_read_one_wechat_target` and of a task; the recovery after a restart |

The refinement of `DeliveredOnce` (`Stage`): a queued reply waits, a void one was
dropped, a claimed one is taken, a failed, sent or unknown one has its verdict, one
that a withdrawal wrote over after its claim is denied; `shown` is what arrived and
`found` what is leaving. `DeliveredOnce` names the two ways in which the code breaks
the plain promise and allows nothing else: what began to leave while it waited may
be denied after it was taken, and an item of `Again` may arrive twice, after a
verdict. `Again` is empty unless the C2 listener may list the outbox late. In `HandoffNotification` a pending
notification waits, or is dropped once its handoff is closed, one that is being
sent is taken, a succeeded one is sent and a failed one unknown, because it may
have arrived; what arrived is `messages`. There `Again` and `leaving` are empty.

A withdrawn row is answered 409 for good: it stays `waiting`, so that `Pending` is
never empty again and the client starts nothing (`MayStart`). This is the code's
behaviour, and section 7 has it.

`Stale` names the threads that may list the outbox long after they looked at the
UI lock. The task loop probes WeChat and sends a heartbeat in between
(`task_runner.py:2264` to `2361`), so it is in `Stale` in every run. The C2 loop goes
straight on; nothing but the scheduler makes it late, and nothing forbids it. With
`"c2"` in `Stale` TLC finds a second physical send: two stale passes discard an
intent that is being sent and remove its journal between the duplicated claim and
the look at the journal, for which the listener has to stall between two lines for
as long as a whole recovery. The theorems hold for every `Stale`; they say that this
is the only way to a second send, and that there is no third.

Assumptions of this module that the code does not enforce:

- A sidecar that outlives its client ends before the lease of the dead client's
  UI lock file (90 s) does; until then `UiFree` is false.
- A pass of the barrier handles one record; the code loops over 20, releasing
  nothing in between, and two unsettled rows never coexist (`OneUnsettledSend`).
- A call to finish a flow is not lost here (it is in `InflightFlow`).

### `TurnTaking`, `ConversationTurn` (`ConversationTurn_proofs`)

| In the model | In the code |
|---|---|
| `conv` | `Conversation.status` and `ai_enabled` |
| `batch[t]`, `reply[t]` | the t-th row of `message_batches` and its reply action |
| `handoff`, `handed` | the open `HandoffEvent` of the conversation, and which batches ever had one |
| `request` | an ingest between its first read and its commit, with what its session has loaded |
| `generators`, `writing` | the background threads of `generate_for_batch`: before and during the call of the AI, and in the second transaction |
| `ReadMessage` ... `ReadRecovered`, `LockForMessage`, `LockForControl`, `Commit...` | `ingest_messages` by kind of message: the reads, the lock on the conversation, the writes of `collect_message_batch`, `create_deterministic_handoff_for_ingest` and the takeover by the sales |
| `EnforceGate` | `enforce_open_handoff_gate` |
| `ClaimGeneration`, `StartGeneration`, `FinishCall`, `CommitReply`, `CommitHandoff`, `CommitRetry`, `CommitNoAction`, `CommitOptOut` | `claim_message_batch_generation`, the two transactions of `generate_for_batch` and the outcomes of its decision |
| `ClaimSend`, `AckSent`, `NotSent`, `HandOffUnsent`, `CancelUnsent`, `VehicleChanged` | `claim_send`, `sent_ack`, the ends of a reply that was not sent, the invalidation by a changed vehicle |
| `AbortDeadlocked`, `Crash` | the database aborts one of two transactions that wait for each other; the server is killed |

What a session has loaded is part of the state, because it does not read a row
again and writes only the attributes that differ from what it loaded
(`Written`): this is where an update is lost. A refused claim of an expired
reply rolls the expiry back with the rest of its transaction
(`c3_service.py:437`, the routes), so that no reply is ever stored as expired.

In `TurnTaking` the turns that were opened are the batches that exist, the active
one is the batch in an active status, the waiting one is that of the queued reply,
and under way are the replies being sent. A withdrawal that takes a reply under
way with it, the disagreement of section 7, is allowed there: it promises that a
reply is not begun after it was given up, not that it is not given up once begun.

### `HandoffNotification` (`HandoffNotification_proofs`)

| In the model | In the code |
|---|---|
| `status`, `closed` | `notify_status` and `closed_at` of a handoff event |
| `thread[d]` | a thread in `dispatch_handoff_notification`, with the handoffs it still has to look at |
| `messages` | what Feishu has delivered (no code reads it) |
| `unsettled` | handoffs whose last transaction the database refused (no code reads it) |
| `sales`, `edits`, `lookups` | phone and `feishu_user_id`; an `update_sales` before its commit; a `sync_sales_open_id` after it |
| `CommitHandoff`, `ReadPending`, `Startup` | the post-commit hook of `database.py`, a pass of the recovery loop, `recover_handoff_notifications` |
| `Claim`, `FindRecipient`, `Send`, `Settle`, `SettleFails` | `_claim_notification`, `_notification_context`, the call, `_settle_notification` |
| `BeginEdit`, `CommitEdit`, `BeginLookup`, `Match`, `LookupFails`, `ClearIdentity` | `update_sales` and `sync_sales_open_id` |

### `LeadAssignment` (`MCLeadAssignment`, `LeadAssignment_proofs`)

| In the model | In the code |
|---|---|
| `enabled`, `bound` | the sales of `_available_sales`; the sales with an enabled worker |
| `lead`, `tasks`, `cursor` | rows of `leads`, of the `add_friend` tasks, and of `assignment_round_robin_state` |
| `request[r]` | an open transaction: what it has read, where its cursor is and what it will write |
| `given` | how many leads each sales got since the sales changed last (no code reads it) |
| `BeginCreate`, `BeginRetry`, `Lock`, `Insert`, `Assign`, `Commit`, `Rollback` | `create_lead`, `retry_auto_assign`, `_get_state_for_update`, `assign_lead_round_robin` with the task it creates |
| `BeginTask`, `CommitTask`, `EndTask` | `POST /tasks`; the end of a task, which is `TaskLease` |
| `MarkInvalid`, `Restore`, `SetEnabled`, `BindWorker`, `UnbindWorker` | the back office |

### `ConversationReading` (`ConversationReading_proofs`)

| In the model | In the code |
|---|---|
| `chat`, `badge`, `shown` | the chat in WeChat, its badge in the list of chats, and how much the badge announced (no code reads `shown`) |
| `stored` | the `message_events` of the conversation: a prefix of the chat, since a read scrolls back to what is known |
| `binding` | row of `wechat_session_bindings`: bound or not, authorization revision, `unread_hint`, the two unread generations, evidence key, `next_read_due_at`, `last_read_conversation_status`, `last_read_run_id` |
| `conv` | `Conversation.status`, `next_recall_at`, `recall_origin_status`, `recall_cycle_id`, `recall_count`, `last_ai_reply_at` |
| `turn`, `handoff`, `made` | the active batch with the right it carries, the open handoff with its trigger, the keys of the control batches |
| `client`, `late` | the round of the listener with the row of its outbox, and a request that is still on its way |
| `SeeScreen`, `PostScan`, `OtherWorkerScans` | the scan and `ingest_scan_result`, with `_apply_scan_fields` and `_bind_one_session` |
| `ReadTargets`, `Authorize`, `ReadChat`, `ReadFails` | `read_targets`, `read_authorization_for_worker` with `confirm_friend_activation`, `_read_one_wechat_target` up to `enqueue_c2_outbox` |
| `Deliver`, `AnswerLost`, `RequestLate`, `LateIngest` | `_submit_c2_outbox_payload`, the replay, and `ingest_messages` with `_settle_completed_read` |
| `PreSend`, `ReadAgain`, `WaitEnds` | `_wait_and_send_current_c3_batch_impl`: the refresh in the flow that waited, or in a chat_reply task of its own |
| `SendReply`, `NoAction`, `HandOff` | the ends of a turn, in one step each |

The scan of another worker may come at any moment, also while the chat is read or
its row waits; the row is then refused for good (`SetAside`, section 7). The right
to read the chat of a new friend is asked for in two requests, before the chat is opened
and after (`confirm_friend_activation`). The second checks the same binding, revision
and status as the first, under the lock; only another worker's scan can come between,
and the read then fails as in `ReadFails`, so the two are one step, `Authorize`.

## 4. The runs

| Run | Bounds | Shows |
|---|---|---|
| `task_lease` | 1 task of either type, 1 worker, 2 clients, 2 open requests, lease of 2 ticks, fair | safety and the refinement of `OneShotTasks` under overlapping transactions; an expired lease is reaped |
| `flow_safety` | 2 tasks, 1 read, 1 loss, 1 kill | read and task never overlap; running implies registered; the refinement of `OneFlow` |
| `flow_settle` | 1 task, 1 read, 1 loss, 1 kill, fair | a restart settles what owes nothing; a pause is repeated |
| `reply_send` | 2 replies (symmetric), 1 loss, 1 kill, withdrawals at any time | the safety of the send; the refinement of `DeliveredOnce` |
| `reply_settles` | 1 reply, 2 losses, 2 kills, withdrawals at any time, fair | every send is settled, every result confirmed, unless the reply was withdrawn after its claim |
| `turns` | 2 turns of 2 messages, 2 attempts, kills at any step, fair | one turn at a time, the newest answered, opt-out final, no turn dropped or stuck; the refinement of `TurnTaking` |
| `notify` | 2 handoffs, 2 threads, a pass of 1, 2 phones, 2 edits, kills at any step, fair | the refinement of `DeliveredOnce`, hence one message at most; none forgotten, no stale identity written |
| `lead` | 3 sales, 2 leads, 3 requests of which 2 overlap, 2 changes of the sales | the round is even, assigned leads have tasks |
| `reading` | 2 messages of people, 1 recall turn, 1 fault of any kind at any moment, fair | badges, generations, turns and handoffs agree with the chat; what is read is delivered, unless another worker sets the chat aside |
| `flow_pause_beat`, `reply_withdrawn`, `reading_refresh` | the smallest instance that shows it | one disagreement each, section 7 |

Why the bounds are enough. A race of the task table is between two transactions
on one row, or on two rows of one worker, hence two requests or two tasks; two
clients are needed for a reset and a rebinding; two ticks separate a renewed
lease, a lease about to end and an expired one. In `InflightFlow` a second task
shows a flow that is left over when the next begins; a second read adds
nothing, since a listener handles one at a time; one loss is a begin, a finish or a pause
whose request or answer is gone and has to be repeated. The facts a flow owes are
not bounded: any flow may owe at any step of its work. In `ReplySend` a second reply
is needed for a replacement during the refresh, for a second unsettled row and for
a withdrawal of the one while the other is sent. One loss and one kill there give
every pair of a repeated claim or report with a restart; two of each are taken with one
reply, in `reply_settles`. With three losses, three kills and one reply TLC has confirmed the
refinement and that a reply is shown twice at most for a late listener too. Losses and kills are bounds of the model,
constants `Losses` and `Crashes`; the theorems hold for any number. In
`ConversationTurn` two turns are the newest and the one it replaces, the second
message tells a filled batch from a new one, and the second attempt a retry from
the last one; kills are not bounded. In `HandoffNotification` the second handoff
and a pass of one show whether a closed or failed handoff can starve another; the
two threads are the loop and a request. In `LeadAssignment` three sales tell a
round from a swap and the third request can begin on what the first two left. In
`ConversationReading` the second message is the one that arrives while the first
is scanned, read, delivered, handed over or answered; one recall needs its own
turn; the one fault may be a scan that misses the code, a scan of another worker,
a failed read, a lost answer or a late request, each at every place.

`CHECK_DEADLOCK FALSE` stands in the configurations of all modules but `ReplySend`, and
in `reading.cfg`: all tasks may be over and no request open, the client may have
stopped for good after an emergency stop, all turns may be answered, all handoffs
closed or all requests made, and nothing need happen. In `ConversationReading` a
client whose row is refused for good, after another worker has taken the chat,
really stops, with nothing left to do for anybody (section 7). The others are checked
for deadlock: the barrier can always look again, and so can the scan.

`TaskLease` states nothing that needs requests to come one at a time, since nothing in
the server makes them. So three things a reader may miss are not among its
properties, because two overlapping requests break them: one running task per worker, a
lease on running tasks only, and that what is finished is never marked as cancelled
(section 7).

## 5. Fairness

- `TaskLease`: a pull that finds an expired lease happens if it is possible
  again and again (the client polls every few seconds), and an open request
  commits in the end. Nobody has to claim, to finish a flow, to bind or to cancel.
- `InflightFlow`: each thread that runs is scheduled, the monitor and a click's
  own thread too. `SF(TickSync)`: the five seconds between two repetitions of a
  pause pass although the loop keeps doing other things. No fairness on clicks,
  the back office or restarts.
- `ReplySend`: the thread that sends, the sidecar (it has a timeout), the barrier
  of the two loops and the restart recovery (each second) are scheduled, and the
  server's recovery loop (`c3_recovery.py`) reaches every stale send. No
  fairness on generating, pulling or starting a read: nobody has to begin.

- `ConversationTurn`: an ingest that has begun runs to its end, and so do the
  thread of a generation and its second transaction; the recovery loop polls; the
  database finds a deadlock. Nothing else is fair: no customer writes, no reply
  is claimed or sent. `TurnSettles` assumes that the kills end, nothing more.
- `HandoffNotification`: a dispatch that has begun goes on, the loop polls, and
  the server is started again after a kill (`restart: unless-stopped` in
  `backend/docker-compose.yml:56`). `NotifiedOrClosed` assumes that the kills and
  the refused records end. No fairness on edits or on closing a handoff.
- `ConversationReading`: the loop of the client runs, the server answers what is
  posted, a reply that is about to be sent is sent, a wait ends, and a read falls
  due in the end. No fairness on the customer, the sales, the AI, a recall, a late
  request or a fault.
- `LeadAssignment` has no liveness property: a request that never commits is
  rolled back, and nobody tries again.

Losses are finite, so that a call that is repeated for ever arrives: the network
is not down for good.

## 6. What is proved

All theorems hold for any sets of tasks, workers, clients, reads and replies and
any number of losses, kills, open requests and lease ticks. The only assumptions
are those on the constants (`TaskLeaseAssumption`, `InflightFlowAssumption`,
`ReplySendAssumption`, `ConversationTurnAssumption`,
`HandoffNotificationAssumption`, `LeadAssignmentAssumption`,
`ConversationReadingAssumption`): that the special values are no members of the
sets and the bounds are naturals. No theorem assumes more than these: none is about
one request at a time, a listener that is never late or a scan that never meets
another.

| Module | Theorems | Argument |
|---|---|---|
| `TaskLease_proofs` | `TypeCorrect`, `ClaimOnce`, `RunningClaimed`, `ClaimantCompletes`, `TerminalForGood`, `ExpiredForGood`, `Refines` (`TaskLease` implements `OneShotTasks`) | `LeaseInv` = `TypeOK` and `Core`: a claim in the history is of a task no longer waiting (`ClaimedIsPast`), a locked row is still pending and locked by one request (`LockedIsPending`, `OneLock`), and a snapshot is no newer than its row (`SnapIsOlder`), so that a late flush of a stale snapshot can only end a task. |
| `InflightFlow_proofs` | `TypeCorrect`, `TaskRegistered`, `NeverOverlap`, `WorkerKeepsOneFlow` (`InflightFlow` implements `OneFlow`) | `FlowInv` = `TypeOK` and `Core`: where a thread may be and what it then holds (`Places`, `Locks`), and that the flow of a task under way is registered or the task is over (`Registered`). For the refinement `DutyInv` adds that the loop executes the task in hand, that a read is started once and that the UI lock is the task's only while it works; most steps only move threads (`Moves`) and are no step of `OneFlow` |
| `ReplySend_proofs` | `TypeCorrect`, `SentIsShown`, `ForgottenIsAcked` | `ReplyInv`: which reply a process has in hand (`InHand`), and that wherever `sent` or `confirmed` is written between the key press and the server (journal, outbox, thread, pass of the barrier) the customer saw the reply (`Evidence`); the proof does not use `Stale` |
| `ReplySettle_proofs` | `OnlyWithdrawnIsDenied`, `UnsettledIsOne`, `OnlyWithdrawnIsRefused`, `PressedOnce`, `RepliesImplementDeliveredOnce` (`ReplySend` implements `DeliveredOnce`) | `SettleInv` = `ReplyInv` and: a send goes on only from a settled outbox and one thread has the sidecar (`Session`), a result is in the row before it is reported (`Written`), the mark is on disk before the key (`Journaled`), an acked reply is over and one that was written over was found by a withdrawal (`AckedIsOver`, `UndoneIsFound`), and a key still to be pressed and a `failed` still to be reported exclude each other (`Claimed`, `DeniedIsUnsent`). For `PressedOnce` `OnceInv` adds that only the task loop takes up a running task and then neither looks nor lists (`Runs`), that only such a task repeats a claim (`Repeated`), that a send claimed again is neither acked nor in the hands of the barrier, so that its journal can be trusted, unless the listener is late (`RepeatedAlone`), and that a key is pressed only for a reply nobody has seen, or one that is acked while the listener is late (`Unpressed`, `Forgotten`). `RepliesImplementDeliveredOnce` maps every step to one of `DeliveredOnce` under `OnceInv`: the key is pressed only for a reply that is taken, given up or denied, and a verdict is recorded only of a taken one and is what `Evidence` and `DeniedIsUnsent` say happened. All of it for every `Stale` |
| `ConversationTurn_proofs` | `TypeCorrect`, `OneTurnAtATime`, `OneReplyAtATime`, `RepliesAreForTheLatestTurn`, `OptOutIsFinal`, `NoTurnIsDropped`, `ServerTakesTurns` (`ConversationTurn` implements `TurnTaking`), `WithdrawalIsComplete`, `ExhaustedCanBeHandedOff` | `Inv`: an active turn is the newest (`TurnOrder`), the writer's batch is still generating (`WriterHoldsBatch`), what an ingest has read covers every active batch and leaves room for its own (`IngestCoversActive`, `IngestHasRoom`), every queued reply is among those a generator withdraws (`RepliesFollow`), a retry is within its attempts (`AttemptsLast`), and wherever a transaction decides, the AI switch it has loaded is still the one stored (`AISwitch`). For the refinement: an opt-out that is about to commit has every waiting reply among those it withdraws (`OptOutWithdraws`). `ExhaustedCanBeHandedOff` rests on a handoff ending its turn in the same transaction (`HandedSettle`) |
| `HandoffNotification_proofs` | `TypeCorrect`, `DeliveredAtMostOnce`, `InterruptedIsSettled`, `StaleMatchIsDiscarded`, `HandoffsImplementDeliveredOnce` | `Inv`: a thread before its call holds a handoff that is marked and was never delivered (`Held`), no two threads hold one (`Apart`), a pending one was never delivered (`Untouched`), a server that is down has no threads (`DownIsIdle`) |
| `LeadAssignment_proofs` | `TypeCorrect`, `LeadsGoRound`, `AssignedIsWorkedOn` | `RoundInv`: with the turn at c, all sales that take part have got the same, or those from some p on to the one before c one more (`Round`); this holds of what is committed, and of what the one request that assigns would make of it (`Fair`, `OneAssigns`, the lock of the cursor). `Inv`: a row to be written without a task of its own is of a lead that has one (`Promised`), and a lead with a sales has one (`WorkedOn`), which is what a restored lead falls back on |
| `ConversationReading_proofs` | `TypeCorrect`, `ConsumedIsCovered`, `HandoffSilences`, `TurnsAreUnanswered`, `RowsAreAccepted`, `UnreadNeverForgotten` | `ReadInv`: a read in the outbox or on its way covers what raised the generation it was lent for (`Covered`), since no scan has seen more than there is (`Reached`). `AnswerInv`: with an active turn of the customer the last stored message is the customer's, the AI has written nothing that is not stored, and the next read that is taken still has its reason, so that it moves the conversation (`Asks`); a late request has news only while its row is in the outbox (`Carried`). `RowIsAccepted` (a row has the revision of the chat as long as it is bound) is inductive with `ReadInv`: only the scan of another worker changes the binding under a row, and that unbinds it. `UnreadIsNoticed` (a message shown unread has its badge, is being read, is in the outbox, or is read without a badge) needs that with such a gap no late request or recall is left that makes the conversation the AI's again (`GapIsRead`) and that a waiting row has all that was shown (`RowHasShown`) |

The type invariants of all these modules are proved; a run checks that of
`TaskLease`. `AtMostOneMessage`, `OneQueuedReply` and `TerminalNeverRunsAgain` are
proved too and are no properties of a run of their own: the refinements that runs
check imply them.

The strengthenings are needed because the properties alone are not inductive: a
running task is claimed once only if no open request holds its row as pending,
a pull is never answered with a running task only if the thread's label says
what it holds, a recorded `sent` is true only if every copy of it on the way is,
and a reply the customer saw is denied by a withdrawal only if no `failed` is on its way.

Only model-checked: the liveness properties (`ExpiredLeaseIsReaped`,
`RestartSettles`, `PauseIsRepeated`, `SentIsSettled`, `OutboxDrains`,
`TurnSettles`, `NotifiedOrClosed`, `BadgedIsStored`, `OutboxIsConfirmed`), which are
out of the prover's reach like everything about fairness and `ENABLED`. What they
rest on besides fairness is proved where it is a matter of safety, so that the
step that has to come is never refused when it does: `OnlyWithdrawnIsRefused` for
`SentIsSettled` and `OutboxDrains` (the result a client reports is one the server
takes unless a withdrawal wrote over the claim, a send in progress is one the recovery
loop finds), `RowsAreAccepted` for `OutboxIsConfirmed` (the row of a chat that is bound is
taken), `UnreadNeverForgotten` for `BadgedIsStored`,
`ExhaustedCanBeHandedOff` for `TurnSettles`. Induction over data is out of reach too; no
module here needs it.

## 7. Where code and documents disagree

| Run | Disagreement |
|---|---|
| `flow_pause_beat` | a heartbeat answered before a pause and processed after it lifts the pause |
| `reply_withdrawn` | a new customer message reads the queued reply without a lock (`c3_service.py:703`, and 732 for a conversation that changes), the worker claims and sends it, and the flush writes `superseded` over `sending`, against the manual (line 3524), by which a claimed reply is not withdrawn any more. The customer has a reply the record denies; its `sent_ack` is answered 409 for good (`c3_service.py:2759`), the row stays in the client's outbox and the client starts nothing any more (`task_runner.py:3024`) |
| `reading_refresh` | the read before a send runs in the flow that opened the turn and takes its run id (`task_runner.py:13019`). The outbox row of that name is confirmed, so that `enqueue_c2_outbox` keeps the old payload (`storage.py:1155`) and nothing is delivered (`task_runner.py:7480`): a message the customer wrote while the AI was thinking is not stored, counts as none, and the outdated reply is sent, against the PRD (line 52). The next read stores the message, but above the reply, so that no turn answers it. A refresh by a chat_reply task has a run id of its own and is right |

The models show more, for which no run is kept; each was seen with TLC or follows
from one action:

*Tasks and flows.*
- Two requests that look for an unfinished task of a lead at the same time create
  one each (`task_service.py:786`, against the PRD's line 1781).
- A cancellation that read the task before a completion committed overwrites
  `completed` with `cancelled` (`task_service.py:877`), although the message at line 878 and
  `tests/test_tasks_api.py:200` say that a finished task cannot be cancelled. It never
  runs again (`TerminalForGood`).
- Two claims of two tasks of one worker both pass the unlocked look for a running one
  (`task_service.py:940`), although the manual (line 399) promises one running task per
  worker. A client does not send two (`OneFlow`), the server would not notice.
- A cancellation that read the task as pending leaves the lease columns of a claim that
  committed in between (`task_service.py:570`); every gate asks for the status first.
- A finish that the client's own guards refuse, because facts of the flow are still owed,
  is not tried again when they are settled: the flow stays registered until the next
  restart, or a cancellation in the back office (`task_runner.py:2004`).
- An expired lease is looked at by pull only, and pull first refuses a worker
  with a registered flow, so a task whose client died in mid-flow stays `running`
  (`routes/workers.py:210`, against the manual's line 797).
- A pause that fails while the answer of an older repetition, or of an older
  heartbeat, is on its way is forgotten: the answer clears the memory that a pause
  has to be repeated, whatever was clicked since, and the next heartbeat lifts the
  pause on disk (`task_runner.py:2151`, `2319`).
- A pause that did not reach the server before a kill is overwritten by the
  server's `running` after the restart (manual, line 525).
- The late answer of a click on start clears the flow the task loop has just
  recorded; that flow can neither go on nor end, until a cancellation in the back
  office and a restart of the client (`task_runner.py:2185`).
- A start that a faster pause makes the server refuse is not caught and ends the
  thread, which stops the client for good; a listener that dies alone never
  brings a pause to the server.
- `_release_current_ui_lock` (`task_runner.py:4856`) releases whatever lease is
  current, not the one of the flow that calls it; the cancellation check of a
  scan does not look at the lease (manual, line 710); the fencing token of the
  lock file starts again when the file is removed (manual, line 646), which does
  no harm, since renewing and releasing compare the id of the lock.

*Replies.*
- A read whose `sent_ack` was lost asks once for the end of its flow, is refused
  while the ack is pending, and asks again only after a restart (manual, line 889).
- The barrier may discard, as never attempted, the intent of a send that is under
  way (`storage.py:1813`), after which only the server's stale recovery settles
  it, as `unknown`.

*Conversations.*
- A reply past its time is never stored as `expired` (manual, lines 3523, 3529):
  the refusal rolls the status back.
- A reply withdrawn by `_supersede_open_actions` may have been generated from a
  batch that still takes messages: a message appended after the generator read
  the batch is not part of what it answers (`c3_service.py:963`).
- A pause that reuses the handoff of an earlier failed send leaves the AI off:
  the sales message that closes the handoff looks at the batch of that handoff,
  which was not paused, and does not switch the AI on again (`c3_service.py:1556`,
  against the manual's line 3814).

*Reading.*
- Another worker whose list shows the same code takes the binding for a review
  (`wechat_service.py:1162`). A read that waits in the outbox is then refused for
  good, its row blocks every scan (`task_runner.py:3205`), and only a scan could
  bind the chat again: the worker does not touch WeChat any more
  (`task_runner.py:7185`, against the manual's lines 1006 and 2057).
- A read for a conversation that waits for the customer, delivered after the recall
  fell due, is stored but opens no turn (`wechat_service.py:4118`); the recall then
  finds nothing new and reminds a customer who has written.
- A message between the last check and the click stands above the reply: it is
  stored, the conversation is `ai_active`, and no turn answers it
  (`wechat_service.py:3950`).
- One scan that misses the code of a bound chat loses the binding
  (`wechat_service.py:1115`, against the manual's line 1012), and the next one
  starts the conversation from the invitation.
- A takeover by the sales keeps the recall cycle; the next recall of that cycle
  finds its batch made and leaves the conversation `ai_active` without a turn.
- A read that fails after it opened the chat has cleared the badge; a conversation
  that is `ai_active` is then not read before the customer writes again.

*Handoffs and leads.*
- An edit of a sales's phone clears the identity only if it has read one, so that
  of two overlapping edits the first one's lookup may leave an identity of a phone
  the sales no longer has (`sales_service.py:222`); a lookup that fails clears
  what a later one has matched (`feishu_service.py:112`).
- A notification whose last record is refused stays `sending` until the next
  start of the server.
- A retry reads the unassigned leads before it has the lock of the cursor: a lead
  that another retry assigned meanwhile is assigned again, its task stays with the
  first sales, and one that was marked invalid meanwhile is active again
  (`assignment_service.py:121`).
- A task created while a worker is being bound may have read the sales before and
  stays `blocked` (`task_service.py:762`, manual, line 1050).
- When the sales the cursor points at is disabled, the round begins again with
  the first one (`assignment_service.py:76`).
- The look for a lead with the same phone is without a lock (`lead_service.py:198`).

## 8. Not modelled

The components with status `not_modelled` in `PROJECT.json` and why: presentation and
telemetry, external services, single-row forms. Of the components that are
`partly` modelled: the identity of read messages (computations over one screen),
the validation of an ingest, its partitions and media gates
(`wechat_service.py`), the follow-up schedule and the text guard
(`c3_service.py`), the C2 ledger and the image and voice recovery of the client,
the backfill of identities, and the vendored engine `omniauto-rpa` beyond its
send transaction: it is two thirds of the code and an application of
its own, of which this system calls a few entry points.

The UI lock file (`ui_lock.py`) has no module. Within one client `task_lock` and
the test of the current UI lock (`task_runner.py:2384`, `5925`, `13495`) exclude
the task loop and the listener already, and `InflightFlow` models those. The lease,
the forced recovery and the token of the file only matter to a sidecar that
outlives its killed client for longer than the lease, which is a race of seconds
against seconds; `ReplySend` names its absence as an assumption.

Within the modelled parts: texts, hashes, alignment, voice
and images are data the properties do not tell apart; clocks are ticks or "may
be late"; the handlers that lock the row of a reply action before they decide are
single steps in `ReplySend`, those that read it without a lock are two.
