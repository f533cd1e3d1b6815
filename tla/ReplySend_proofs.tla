-------------------------- MODULE ReplySend_proofs --------------------------
(***************************************************************************)
(* Proofs about ReplySend for any set of replies, any number of losses and *)
(* kills and either choice of Stale.                                       *)
(*                                                                         *)
(* ReplyInv strengthens TypeOK: which reply a process has in hand (InHand),*)
(* and that wherever "sent" is written on its way from the key press to    *)
(* the server, the customer saw the reply (Evidence).                      *)
(***************************************************************************)
EXTENDS ReplySend, TLAPS

InHand ==
    /\ sender.at \notin {"home", "read", "finish"} => sender.reply \in Replies
    /\ sidecar.at # "idle" => sidecar.reply \in Replies
    /\ replay.at # "idle" => replay.reply \in Replies

Seen(r) == r \in Replies /\ shown[r] > 0

Evidence ==
    /\ \A r \in Replies : journal[r] = "confirmed" => shown[r] > 0
    /\ \A r \in Replies : outbox[r].result = "sent" => shown[r] > 0
    /\ sidecar.at = "pressed" => Seen(sidecar.reply)
    /\ sender.at = "ack" /\ sender.result = "sent" => Seen(sender.reply)
    /\ replay.result = "sent" => Seen(replay.reply)

ReplyInv == TypeOK /\ InHand /\ Evidence /\ RecordedSentIsShown /\ ConfirmedIsAcked

(* A call that may be lost keeps the allowance within its bounds.          *)
LEMMA SpendType ==
  ASSUME budget \in Budgets, NEW fate, Spend(fate) PROVE budget' \in Budgets
  BY ReplySendAssumption DEF Spend, Budgets

(* Every phase of the journal gives a result.                              *)
LEMMA ResultType ==
  ASSUME NEW phase \in Phases PROVE ResultOf(phase) \in Results
  BY DEF ResultOf, Phases, Results

(* Only a confirmed phase gives "sent".                                    *)
LEMMA ResultSent ==
  ASSUME NEW phase \in Phases, ResultOf(phase) = "sent" PROVE phase = "confirmed"
  BY DEF ResultOf, Phases

(* fail_task keeps the rows typed.                                         *)
LEMMA FailType ==
  ASSUME TypeOK, NEW r \in Replies, Fail(r)
  PROVE /\ action' \in [Replies -> Statuses]
        /\ task' \in [Replies -> {"none", "pending", "running", "over"}]
        /\ leased' \in SUBSET Replies
  BY DEF Fail, TypeOK, Statuses

(* So does the end of replies that are withdrawn.                          *)
LEMMA VoidType ==
  ASSUME NEW R, NEW status \in [Replies -> Statuses],
         NEW tasks \in [Replies -> {"none", "pending", "running", "over"}],
         leased \in SUBSET Replies, Void(R, status, tasks)
  PROVE /\ action' \in [Replies -> Statuses]
        /\ task' \in [Replies -> {"none", "pending", "running", "over"}]
        /\ leased' \in SUBSET Replies
  BY DEF Void, Statuses

(* A result written to the outbox keeps its rows typed.                    *)
LEMMA FinalizeType ==
  ASSUME TypeOK, NEW r \in Replies, NEW result \in Results, Finalize(r, result)
  PROVE outbox' \in [Replies -> Rows]
  BY DEF Finalize, TypeOK, Rows

(* So does the end of a send, for the outbox and the thread.               *)
LEMMA SettleType ==
  ASSUME TypeOK, NEW result \in Results, sender.reply \in Replies, Settle(result)
  PROVE outbox' \in [Replies -> Rows] /\ sender' \in Senders
  <1>1. outbox' \in [Replies -> Rows]
    BY FinalizeType DEF Settle
  <1>2. sender' \in Senders
    BY DEF Settle, TypeOK, Senders
  <1> QED
    BY <1>1, <1>2

(* sent_ack keeps the rows of the server typed.                            *)
LEMMA RecordType ==
  ASSUME TypeOK, NEW r \in Replies, NEW result \in Results, Record(r, result)
  PROVE /\ action' \in [Replies -> Statuses]
        /\ task' \in [Replies -> {"none", "pending", "running", "over"}]
        /\ leased' \in SUBSET Replies /\ acked' \in SUBSET Replies
        /\ found' \in SUBSET Replies
  BY DEF Record, TypeOK, Statuses, Results, server

(* An attempt to bring a result to the server keeps what it writes typed.  *)
LEMMA AttemptType ==
  ASSUME TypeOK, NEW r \in Replies, NEW result \in Results, NEW fate,
         Attempt(r, result, fate)
  PROVE /\ action' \in [Replies -> Statuses]
        /\ task' \in [Replies -> {"none", "pending", "running", "over"}]
        /\ leased' \in SUBSET Replies /\ acked' \in SUBSET Replies
        /\ found' \in SUBSET Replies
        /\ outbox' \in [Replies -> Rows]
        /\ journal' \in [Replies -> Phases]
        /\ budget' \in Budgets
  <1>1. budget' \in Budgets
    BY SpendType DEF Attempt, TypeOK
  <1>2. outbox' \in [Replies -> Rows]
    BY DEF Attempt, TypeOK, Rows
  <1>3. journal' \in [Replies -> Phases]
    BY DEF Attempt, TypeOK, Phases
  <1>4. CASE Arrives(fate)
    <2>1. Record(r, result)
      BY <1>4 DEF Attempt
    <2> QED
      BY <1>1, <1>2, <1>3, <2>1, RecordType
  <1>5. CASE ~Arrives(fate)
    BY <1>1, <1>2, <1>3, <1>5 DEF Attempt, server, TypeOK
  <1> QED
    BY <1>4, <1>5

(* Every step keeps the types.                                             *)
LEMMA TypeStep ==
  ASSUME TypeOK, InHand, [Next]_vars PROVE TypeOK'
  <1> USE ReplySendAssumption DEF server, client, wechat
  <1>1. ASSUME NEW r \in Replies, Invalidate(r) \/ Withdraw(r) PROVE TypeOK'
    <2>1. /\ action' \in [Replies -> Statuses]
          /\ task' \in [Replies -> {"none", "pending", "running", "over"}]
          /\ leased' \in SUBSET Replies
      BY <1>1, VoidType DEF Invalidate, Withdraw, TypeOK
    <2>2. found' \in SUBSET Replies
      BY <1>1 DEF Invalidate, Withdraw, TypeOK
    <2> QED
      BY <1>1, <2>1, <2>2 DEF Invalidate, Withdraw, TypeOK
  <1>1a. ASSUME NEW r \in Replies, FindQueued(r) PROVE TypeOK'
    <2>1. found' \in SUBSET Replies
      BY <1>1a DEF FindQueued, TypeOK
    <2> QED
      BY <1>1a, <2>1 DEF FindQueued, TypeOK
  <1>2. ASSUME NEW r \in Replies, NEW R \in SUBSET found, Generate(r, R) PROVE TypeOK'
    <2>1. /\ [action EXCEPT ![r] = "queued"] \in [Replies -> Statuses]
          /\ [task EXCEPT ![r] = "pending"]
                \in [Replies -> {"none", "pending", "running", "over"}]
      BY DEF TypeOK, Statuses
    <2>2. /\ action' \in [Replies -> Statuses]
          /\ task' \in [Replies -> {"none", "pending", "running", "over"}]
          /\ leased' \in SUBSET Replies
      BY <1>2, <2>1, VoidType DEF Generate, TypeOK
    <2> QED
      BY <1>2, <2>2 DEF Generate, TypeOK
  <1>3. ASSUME NEW r \in Replies, CancelTask(r) PROVE TypeOK'
    <2>1. task' \in [Replies -> {"none", "pending", "running", "over"}]
      BY <1>3 DEF CancelTask, TypeOK
    <2>2. leased' \in SUBSET Replies
      BY <1>3 DEF CancelTask, TypeOK
    <2> QED
      BY <1>3, <2>1, <2>2 DEF CancelTask, TypeOK
  <1>4. ASSUME NEW r \in Replies, LeaseRunsOut(r) PROVE TypeOK'
    <2>1. leased' \in SUBSET Replies
      BY <1>4 DEF LeaseRunsOut, TypeOK
    <2> QED
      BY <1>4, <2>1 DEF LeaseRunsOut, TypeOK
  <1>5. ASSUME NEW r \in Replies, RecoverStale(r) PROVE TypeOK'
    <2>1. action' \in [Replies -> Statuses]
      BY <1>5 DEF RecoverStale, TypeOK, Statuses, StaleTask
    <2>2. task' \in [Replies -> {"none", "pending", "running", "over"}]
      BY <1>5 DEF RecoverStale, TypeOK, StaleTask
    <2>3. leased' \in SUBSET Replies
      BY <1>5 DEF RecoverStale, TypeOK, StaleTask
    <2> QED
      BY <1>5, <2>1, <2>2, <2>3 DEF RecoverStale, TypeOK
  <1>6. ASSUME StartRead PROVE TypeOK'
    <2>1. flow' \in Flows
      BY <1>6 DEF StartRead, TypeOK, Flows, NoFlow, Begin
    <2>2. sender' \in Senders
      BY <1>6 DEF StartRead, TypeOK, Senders, AtHome, Results, Begin
    <2> QED
      BY <1>6, <2>1, <2>2 DEF StartRead, TypeOK, Begin
  <1>7. ASSUME ReadNothing PROVE TypeOK'
    <2>1. sender' \in Senders
      BY <1>7 DEF ReadNothing, TypeOK, Senders, AtHome, Results
    <2> QED
      BY <1>7, <2>1 DEF ReadNothing, TypeOK
  <1>8. ASSUME NEW r \in Replies, ReplyReady(r) PROVE TypeOK'
    <2>1. sender' \in Senders
      BY <1>8 DEF ReplyReady, TypeOK, Senders, AtHome, Results
    <2> QED
      BY <1>8, <2>1 DEF ReplyReady, TypeOK
  <1>9. ASSUME NEW r \in Replies, PullExpired(r) PROVE TypeOK'
    BY <1>9, FailType DEF PullExpired, TypeOK
  <1>10. ASSUME NEW r \in Replies, PullRunning(r) PROVE TypeOK'
    <2>1. flow' \in Flows
      BY <1>10 DEF PullRunning, TypeOK, Flows, NoFlow, Begin
    <2>2. sender' \in Senders
      BY <1>10 DEF PullRunning, TypeOK, Senders, AtHome, Results, Begin
    <2> QED
      BY <1>10, <2>1, <2>2 DEF PullRunning, TypeOK, Begin
  <1>11. ASSUME NEW r \in Replies, PullPending(r) PROVE TypeOK'
    <2>1. flow' \in Flows
      BY <1>11 DEF PullPending, TypeOK, Flows, NoFlow, Begin
    <2>2. sender' \in Senders
      BY <1>11 DEF PullPending, TypeOK, Senders, AtHome, Results, Begin
    <2> QED
      BY <1>11, <2>1, <2>2 DEF PullPending, TypeOK, Begin
  <1>12. ASSUME NEW r \in Replies, Replaced(r) PROVE TypeOK'
    <2>1. sender' \in Senders
      BY <1>12 DEF Replaced, TypeOK, Senders, AtHome, Results
    <2> QED
      BY <1>12, <2>1 DEF Replaced, TypeOK
  <1>13. ASSUME RefreshFails PROVE TypeOK'
    <2>1. sender' \in Senders
      BY <1>13 DEF RefreshFails, TypeOK, Senders, AtHome, Results
    <2> QED
      BY <1>13, <2>1 DEF RefreshFails, TypeOK
  <1>14. ASSUME Refreshed PROVE TypeOK'
    <2>1. sender' \in Senders
      BY <1>14 DEF Refreshed, TypeOK, Senders, AtHome, Results
    <2> QED
      BY <1>14, <2>1 DEF Refreshed, TypeOK
  <1>15. ASSUME Stops PROVE TypeOK'
    <2>1. sender' \in Senders
      BY <1>15 DEF Stops, TypeOK, Senders, AtHome, Results
    <2> QED
      BY <1>15, <2>1 DEF Stops, TypeOK
  <1>16. ASSUME NEW fate \in Fates, FailCall(fate) PROVE TypeOK'
    <2> DEFINE q == sender.reply
    <2>1. sender' \in Senders
      BY <1>16 DEF FailCall, TypeOK, Senders
    <2>2. budget' \in Budgets
      BY <1>16, SpendType DEF FailCall, TypeOK
    <2>3. q \in Replies
      BY <1>16 DEF FailCall, InHand
    <2>4. CASE Fail(q)
      BY <1>16, <2>1, <2>2, <2>3, <2>4, FailType DEF FailCall, TypeOK
    <2>5. CASE UNCHANGED <<action, task, leased>>
      BY <1>16, <2>1, <2>2, <2>5 DEF FailCall, TypeOK
    <2> QED
      BY <1>16, <2>4, <2>5 DEF FailCall
  <1>17. ASSUME NEW fate \in Fates, NEW granted \in BOOLEAN, ClaimTask(fate, granted) PROVE TypeOK'
    <2>1. task' \in [Replies -> {"none", "pending", "running", "over"}]
      BY <1>17 DEF ClaimTask, TypeOK
    <2>2. leased' \in SUBSET Replies
      BY <1>17 DEF ClaimTask, TypeOK, InHand
    <2>3. sender' \in Senders
      BY <1>17 DEF ClaimTask, TypeOK, Senders
    <2>4. budget' \in Budgets
      BY <1>17, SpendType DEF ClaimTask, TypeOK
    <2> QED
      BY <1>17, <2>1, <2>2, <2>3, <2>4 DEF ClaimTask, TypeOK
  <1>18. ASSUME NEW fate \in Fates, NEW granted \in BOOLEAN, ClaimSend(fate, granted) PROVE TypeOK'
    <2>1. action' \in [Replies -> Statuses]
      BY <1>18 DEF ClaimSend, TypeOK, Statuses
    <2>2. sender' \in Senders
      BY <1>18 DEF ClaimSend, TypeOK, Senders, AtHome, Results
    <2>3. budget' \in Budgets
      BY <1>18, SpendType DEF ClaimSend, TypeOK
    <2> QED
      BY <1>18, <2>1, <2>2, <2>3 DEF ClaimSend, TypeOK
  <1>19. ASSUME SaveIntent PROVE TypeOK'
    <2>1. outbox' \in [Replies -> Rows]
      BY <1>19 DEF SaveIntent, TypeOK, Rows
    <2>2. sender' \in Senders
      BY <1>19 DEF SaveIntent, TypeOK, Senders, AtHome, Results
    <2> QED
      BY <1>19, <2>1, <2>2 DEF SaveIntent, TypeOK
  <1>20. ASSUME Reconcile PROVE TypeOK'
    <2> DEFINE q == sender.reply
    <2>1. q \in Replies /\ journal[q] \in Phases /\ outbox[q] \in Rows
      BY <1>20 DEF Reconcile, InHand, TypeOK
    <2>2. CASE Settle(ResultOf(journal[q]))
      BY <1>20, <2>1, <2>2, ResultType, SettleType DEF Reconcile, TypeOK
    <2>3. CASE outbox[q].at # "intent"
      <3>1. outbox[q].result \in Results
        BY <2>1 DEF Rows
      <3>2. PICK at \in {"finish", "ack"} :
               sender' = [sender EXCEPT !.at = at, !.result = outbox[q].result]
        BY <1>20, <2>3 DEF Reconcile
      <3>3. sender' \in Senders
        BY <3>1, <3>2 DEF TypeOK, Senders
      <3> QED
        BY <1>20, <2>3, <3>3 DEF Reconcile, TypeOK
    <2> QED
      BY <1>20, <2>2, <2>3 DEF Reconcile
  <1>21. ASSUME CheckFails PROVE TypeOK'
    <2>1. sender.reply \in Replies /\ "failed" \in Results
      BY <1>21 DEF CheckFails, InHand, Results
    <2> QED
      BY <1>21, <2>1, SettleType DEF CheckFails, TypeOK
  <1>22. ASSUME StartSidecar PROVE TypeOK'
    <2>1. sender' \in Senders
      BY <1>22 DEF StartSidecar, TypeOK, Senders
    <2>2. sidecar' \in Sidecars
      BY <1>22 DEF StartSidecar, TypeOK, Sidecars, Senders
    <2> QED
      BY <1>22, <2>1, <2>2 DEF StartSidecar, TypeOK
  <1>23. ASSUME GiveUp PROVE TypeOK'
    <2>1. sidecar' \in Sidecars
      BY <1>23 DEF GiveUp, TypeOK, Sidecars, Stopped
    <2> QED
      BY <1>23, <2>1 DEF GiveUp, TypeOK
  <1>24. ASSUME Mark PROVE TypeOK'
    <2>1. sidecar' \in Sidecars
      BY <1>24 DEF Mark, TypeOK, Sidecars, Stopped
    <2>2. journal' \in [Replies -> Phases]
      BY <1>24 DEF Mark, TypeOK, Phases
    <2> QED
      BY <1>24, <2>1, <2>2 DEF Mark, TypeOK
  <1>25. ASSUME NEW bit \in BOOLEAN, Press(bit) PROVE TypeOK'
    <2>1. sidecar' \in Sidecars
      BY <1>25 DEF Press, TypeOK, Sidecars
    <2> DEFINE q == sidecar.reply
    <2>2. q \in Replies /\ shown \in [Replies -> Nat]
      BY <1>25 DEF Press, TypeOK, InHand
    <2>3. CASE bit
      <3>1. shown' = [shown EXCEPT ![q] = shown[q] + 1]
        BY <1>25, <2>3 DEF Press
      <3> QED
        BY <1>25, <2>1, <2>2, <3>1 DEF Press, TypeOK
    <2>4. CASE ~bit
      <3>1. shown' = [shown EXCEPT ![q] = shown[q]]
        BY <1>25, <2>4 DEF Press
      <3> QED
        BY <1>25, <2>1, <2>2, <3>1 DEF Press, TypeOK
    <2> QED
      BY <2>3, <2>4
  <1>26. ASSUME NEW bit \in BOOLEAN, Confirm(bit) PROVE TypeOK'
    <2>1. sidecar' \in Sidecars
      BY <1>26 DEF Confirm, TypeOK, Sidecars, Stopped
    <2>2. journal' \in [Replies -> Phases]
      BY <1>26 DEF Confirm, TypeOK, Phases
    <2> QED
      BY <1>26, <2>1, <2>2 DEF Confirm, TypeOK
  <1>27. ASSUME OrphanEnds PROVE TypeOK'
    <2>1. sidecar' \in Sidecars
      BY <1>27 DEF OrphanEnds, TypeOK, Sidecars, Stopped
    <2> QED
      BY <1>27, <2>1 DEF OrphanEnds, TypeOK
  <1>28. ASSUME SidecarAnswers PROVE TypeOK'
    <2>1. sidecar' \in Sidecars
      BY <1>28 DEF SidecarAnswers, TypeOK, Sidecars, Stopped
    <2>2. sender.reply \in Replies
      BY <1>28 DEF SidecarAnswers, InHand
    <2>3. ResultOf(journal[sender.reply]) \in Results
      BY <2>2, ResultType DEF TypeOK, Results
    <2> QED
      BY <1>28, <2>1, <2>2, <2>3, SettleType DEF SidecarAnswers, TypeOK
  <1>29. ASSUME SidecarCut PROVE TypeOK'
    <2>1. sidecar' \in Sidecars
      BY <1>29 DEF SidecarCut, TypeOK, Sidecars, Stopped
    <2>2. sender.reply \in Replies
      BY <1>29 DEF SidecarCut, InHand
    <2>3. "unknown" \in Results
      BY <2>2, ResultType DEF TypeOK, Results
    <2> QED
      BY <1>29, <2>1, <2>2, <2>3, SettleType DEF SidecarCut, TypeOK
  <1>30. ASSUME NEW fate \in Fates, SenderAck(fate) PROVE TypeOK'
    <2>1. sender' \in Senders
      BY <1>30 DEF SenderAck, TypeOK, Senders
    <2>2. sender.reply \in Replies /\ sender.result \in Results
      BY <1>30 DEF SenderAck, InHand, TypeOK, Senders
    <2> QED
      BY <1>30, <2>1, <2>2, AttemptType DEF SenderAck, TypeOK
  <1>31. ASSUME Finish PROVE TypeOK'
    <2>1. sender' \in Senders
      BY <1>31 DEF Finish, TypeOK, Senders, AtHome, Results
    <2>2. flow' \in Flows
      BY <1>31 DEF Finish, TypeOK, Flows, NoFlow
    <2> QED
      BY <1>31, <2>1, <2>2 DEF Finish, TypeOK
  <1>32. ASSUME RestartRecovery PROVE TypeOK'
    <2>1. flow' \in Flows
      BY <1>32 DEF RestartRecovery, TypeOK, Flows, NoFlow
    <2> QED
      BY <1>32, <2>1 DEF RestartRecovery, TypeOK
  <1>33. ASSUME NEW th \in Threads, Look(th) PROVE TypeOK'
    <2>1. looked' \in SUBSET Stale
      BY <1>33 DEF Look, TypeOK
    <2> QED
      BY <1>33, <2>1 DEF Look, TypeOK
  <1>34. ASSUME NEW th \in Threads, ReplayNothing(th) PROVE TypeOK'
    <2>1. looked' \in SUBSET Stale
      BY <1>34 DEF ReplayNothing, TypeOK, Lists
    <2> QED
      BY <1>34, <2>1 DEF ReplayNothing, TypeOK
  <1>35. ASSUME NEW th \in Threads, NEW r \in Replies, ReplayRow(th, r) PROVE TypeOK'
    <2>1. looked' \in SUBSET Stale
      BY <1>35 DEF ReplayRow, TypeOK, Lists, Rows
    <2>2. replay' \in Passes
      BY <1>35 DEF ReplayRow, TypeOK, Passes, NoReplay, Results, Threads, Lists, Rows
    <2> QED
      BY <1>35, <2>1, <2>2 DEF ReplayRow, TypeOK
  <1>36. ASSUME ReplayPhase PROVE TypeOK'
    <2> DEFINE q == replay.reply
    <2>1. q \in Replies /\ ResultOf(journal[q]) \in Results
      BY <1>36, ResultType DEF ReplayPhase, InHand, TypeOK
    <2>2. replay' \in Passes
      BY <1>36, <2>1 DEF ReplayPhase, TypeOK, Passes
    <2> QED
      BY <1>36, <2>2 DEF ReplayPhase, TypeOK
  <1>37. ASSUME ReplayDiscard PROVE TypeOK'
    <2>1. outbox' \in [Replies -> Rows]
      BY <1>37 DEF ReplayDiscard, TypeOK, Rows, NoRow, Results
    <2>2. replay' \in Passes
      BY <1>37 DEF ReplayDiscard, TypeOK, Passes, NoReplay, Results, Threads, NoRow, Results
    <2> QED
      BY <1>37, <2>1, <2>2 DEF ReplayDiscard, TypeOK
  <1>38. ASSUME ReplayFinalize PROVE TypeOK'
    <2>1. replay' \in Passes
      BY <1>38 DEF ReplayFinalize, TypeOK, Passes, NoReplay, Results, Threads
    <2>2. replay.reply \in Replies /\ replay.result \in Results
      BY <1>38 DEF ReplayFinalize, InHand, TypeOK, Passes
    <2> QED
      BY <1>38, <2>1, <2>2, FinalizeType DEF ReplayFinalize, TypeOK
  <1>39. ASSUME NEW fate \in Fates, ReplayAck(fate) PROVE TypeOK'
    <2>1. replay' \in Passes
      BY <1>39 DEF ReplayAck, TypeOK, Passes, NoReplay, Results, Threads
    <2>2. replay.reply \in Replies /\ replay.result \in Results
      BY <1>39 DEF ReplayAck, InHand, TypeOK, Passes
    <2> QED
      BY <1>39, <2>1, <2>2, AttemptType DEF ReplayAck, TypeOK
  <1>40. ASSUME NEW bit \in BOOLEAN, Crash(bit) PROVE TypeOK'
    <2>1. flow' \in Flows
      BY <1>40 DEF Crash, TypeOK, Flows, NoFlow
    <2>2. sender' \in Senders
      BY <1>40 DEF Crash, TypeOK, Senders, AtHome, Results
    <2>3. sidecar' \in Sidecars
      BY <1>40 DEF Crash, TypeOK, Sidecars, Stopped
    <2>4. looked' \in SUBSET Stale
      BY <1>40 DEF Crash, TypeOK
    <2>5. replay' \in Passes
      BY <1>40 DEF Crash, TypeOK, Passes, NoReplay, Results, Threads
    <2>6. budget' \in Budgets
      BY <1>40 DEF Crash, TypeOK, Budgets
    <2> QED
      BY <1>40, <2>1, <2>2, <2>3, <2>4, <2>5, <2>6 DEF Crash, TypeOK
  <1>41. CASE UNCHANGED vars
    BY <1>41 DEF vars, TypeOK
  <1>42. CASE ServerNext
    BY <1>42, <1>1, <1>1a, <1>2, <1>3, <1>4, <1>5
    DEF ServerNext
  <1>43. CASE StartNext
    BY <1>43, <1>6, <1>9, <1>10, <1>11
    DEF StartNext
  <1>44. CASE SenderNext
    BY <1>44, <1>7, <1>8, <1>12, <1>13, <1>14, <1>15, <1>16, <1>17, <1>18, <1>19, <1>20, <1>21, <1>22, <1>28, <1>29, <1>30, <1>31
    DEF SenderNext
  <1>45. CASE SidecarNext
    BY <1>45, <1>23, <1>24, <1>25, <1>26, <1>27
    DEF SidecarNext
  <1>46. CASE ReplayNext
    BY <1>46, <1>33, <1>34, <1>35, <1>36, <1>37, <1>38, <1>39
    DEF ReplayNext
  <1> QED
    BY <1>32, <1>40, <1>41, <1>42, <1>43, <1>44, <1>45, <1>46
    DEF Next

(* A process that operates has a reply in hand.                            *)
LEMMA InHandStep ==
  ASSUME TypeOK, InHand, [Next]_vars PROVE InHand'
  <1> USE DEF server, client, wechat
  <1>1. ASSUME NEW r \in Replies, Invalidate(r) \/ Withdraw(r) PROVE InHand'
    BY <1>1 DEF Invalidate, Withdraw, InHand, TypeOK, Senders, Sidecars, Passes
  <1>1a. ASSUME NEW r \in Replies, FindQueued(r) PROVE InHand'
    BY <1>1a DEF FindQueued, InHand, TypeOK, Senders, Sidecars, Passes
  <1>2. ASSUME NEW r \in Replies, NEW R \in SUBSET found, Generate(r, R) PROVE InHand'
    BY <1>2 DEF Generate, InHand, TypeOK, Senders, Sidecars, Passes
  <1>3. ASSUME NEW r \in Replies, CancelTask(r) PROVE InHand'
    BY <1>3 DEF CancelTask, InHand, TypeOK, Senders, Sidecars, Passes
  <1>4. ASSUME NEW r \in Replies, LeaseRunsOut(r) PROVE InHand'
    BY <1>4 DEF LeaseRunsOut, InHand, TypeOK, Senders, Sidecars, Passes
  <1>5. ASSUME NEW r \in Replies, RecoverStale(r) PROVE InHand'
    BY <1>5 DEF RecoverStale, InHand, TypeOK, Senders, Sidecars, Passes
  <1>6. ASSUME StartRead PROVE InHand'
    BY <1>6 DEF StartRead, InHand, TypeOK, Senders, Sidecars, Passes, Begin, AtHome
  <1>7. ASSUME ReadNothing PROVE InHand'
    BY <1>7 DEF ReadNothing, InHand, TypeOK, Senders, Sidecars, Passes
  <1>8. ASSUME NEW r \in Replies, ReplyReady(r) PROVE InHand'
    BY <1>8 DEF ReplyReady, InHand, TypeOK, Senders, Sidecars, Passes
  <1>9. ASSUME NEW r \in Replies, PullExpired(r) PROVE InHand'
    BY <1>9 DEF PullExpired, InHand, TypeOK, Senders, Sidecars, Passes
  <1>10. ASSUME NEW r \in Replies, PullRunning(r) PROVE InHand'
    BY <1>10 DEF PullRunning, InHand, TypeOK, Senders, Sidecars, Passes, Begin, AtHome
  <1>11. ASSUME NEW r \in Replies, PullPending(r) PROVE InHand'
    BY <1>11 DEF PullPending, InHand, TypeOK, Senders, Sidecars, Passes, Begin, AtHome
  <1>12. ASSUME NEW r \in Replies, Replaced(r) PROVE InHand'
    BY <1>12 DEF Replaced, InHand, TypeOK, Senders, Sidecars, Passes
  <1>13. ASSUME RefreshFails PROVE InHand'
    BY <1>13 DEF RefreshFails, InHand, TypeOK, Senders, Sidecars, Passes
  <1>14. ASSUME Refreshed PROVE InHand'
    BY <1>14 DEF Refreshed, InHand, TypeOK, Senders, Sidecars, Passes
  <1>15. ASSUME Stops PROVE InHand'
    BY <1>15 DEF Stops, InHand, TypeOK, Senders, Sidecars, Passes
  <1>16. ASSUME NEW fate \in Fates, FailCall(fate) PROVE InHand'
    BY <1>16 DEF FailCall, InHand, TypeOK, Senders, Sidecars, Passes
  <1>17. ASSUME NEW fate \in Fates, NEW granted \in BOOLEAN, ClaimTask(fate, granted) PROVE InHand'
    BY <1>17 DEF ClaimTask, InHand, TypeOK, Senders, Sidecars, Passes
  <1>18. ASSUME NEW fate \in Fates, NEW granted \in BOOLEAN, ClaimSend(fate, granted) PROVE InHand'
    BY <1>18 DEF ClaimSend, InHand, TypeOK, Senders, Sidecars, Passes
  <1>19. ASSUME SaveIntent PROVE InHand'
    BY <1>19 DEF SaveIntent, InHand, TypeOK, Senders, Sidecars, Passes
  <1>20. ASSUME Reconcile PROVE InHand'
    BY <1>20 DEF Reconcile, InHand, TypeOK, Senders, Sidecars, Passes, Settle
  <1>21. ASSUME CheckFails PROVE InHand'
    BY <1>21 DEF CheckFails, InHand, TypeOK, Senders, Sidecars, Passes, Settle
  <1>22. ASSUME StartSidecar PROVE InHand'
    BY <1>22 DEF StartSidecar, InHand, TypeOK, Senders, Sidecars, Passes
  <1>23. ASSUME GiveUp PROVE InHand'
    BY <1>23 DEF GiveUp, InHand, TypeOK, Senders, Sidecars, Passes
  <1>24. ASSUME Mark PROVE InHand'
    BY <1>24 DEF Mark, InHand, TypeOK, Senders, Sidecars, Passes
  <1>25. ASSUME NEW bit \in BOOLEAN, Press(bit) PROVE InHand'
    BY <1>25 DEF Press, InHand, TypeOK, Senders, Sidecars, Passes
  <1>26. ASSUME NEW bit \in BOOLEAN, Confirm(bit) PROVE InHand'
    BY <1>26 DEF Confirm, InHand, TypeOK, Senders, Sidecars, Passes
  <1>27. ASSUME OrphanEnds PROVE InHand'
    BY <1>27 DEF OrphanEnds, InHand, TypeOK, Senders, Sidecars, Passes, Stopped
  <1>28. ASSUME SidecarAnswers PROVE InHand'
    BY <1>28 DEF SidecarAnswers, InHand, TypeOK, Senders, Sidecars, Passes, Settle, Stopped
  <1>29. ASSUME SidecarCut PROVE InHand'
    BY <1>29 DEF SidecarCut, InHand, TypeOK, Senders, Sidecars, Passes, Settle, Stopped
  <1>30. ASSUME NEW fate \in Fates, SenderAck(fate) PROVE InHand'
    BY <1>30 DEF SenderAck, InHand, TypeOK, Senders, Sidecars, Passes, Attempt
  <1>31. ASSUME Finish PROVE InHand'
    BY <1>31 DEF Finish, InHand, TypeOK, Senders, Sidecars, Passes, AtHome
  <1>32. ASSUME RestartRecovery PROVE InHand'
    BY <1>32 DEF RestartRecovery, InHand, TypeOK, Senders, Sidecars, Passes
  <1>33. ASSUME NEW th \in Threads, Look(th) PROVE InHand'
    BY <1>33 DEF Look, InHand, TypeOK, Senders, Sidecars, Passes
  <1>34. ASSUME NEW th \in Threads, ReplayNothing(th) PROVE InHand'
    BY <1>34 DEF ReplayNothing, InHand, TypeOK, Senders, Sidecars, Passes, Lists
  <1>35. ASSUME NEW th \in Threads, NEW r \in Replies, ReplayRow(th, r) PROVE InHand'
    BY <1>35 DEF ReplayRow, InHand, TypeOK, Senders, Sidecars, Passes, Lists
  <1>36. ASSUME ReplayPhase PROVE InHand'
    BY <1>36 DEF ReplayPhase, InHand, TypeOK, Senders, Sidecars, Passes
  <1>37. ASSUME ReplayDiscard PROVE InHand'
    BY <1>37 DEF ReplayDiscard, InHand, TypeOK, Senders, Sidecars, Passes, NoReplay
  <1>38. ASSUME ReplayFinalize PROVE InHand'
    BY <1>38 DEF ReplayFinalize, InHand, TypeOK, Senders, Sidecars, Passes, NoReplay
  <1>39. ASSUME NEW fate \in Fates, ReplayAck(fate) PROVE InHand'
    BY <1>39 DEF ReplayAck, InHand, TypeOK, Senders, Sidecars, Passes, NoReplay, Attempt
  <1>40. ASSUME NEW bit \in BOOLEAN, Crash(bit) PROVE InHand'
    BY <1>40 DEF Crash, InHand, TypeOK, Senders, Sidecars, Passes, AtHome, NoReplay, Stopped
  <1>41. CASE UNCHANGED vars
    BY <1>41 DEF vars, InHand, TypeOK, Senders, Sidecars, Passes
  <1>42. CASE ServerNext
    BY <1>42, <1>1, <1>1a, <1>2, <1>3, <1>4, <1>5
    DEF ServerNext
  <1>43. CASE StartNext
    BY <1>43, <1>6, <1>9, <1>10, <1>11
    DEF StartNext
  <1>44. CASE SenderNext
    BY <1>44, <1>7, <1>8, <1>12, <1>13, <1>14, <1>15, <1>16, <1>17, <1>18, <1>19, <1>20, <1>21, <1>22, <1>28, <1>29, <1>30, <1>31
    DEF SenderNext
  <1>45. CASE SidecarNext
    BY <1>45, <1>23, <1>24, <1>25, <1>26, <1>27
    DEF SidecarNext
  <1>46. CASE ReplayNext
    BY <1>46, <1>33, <1>34, <1>35, <1>36, <1>37, <1>38, <1>39
    DEF ReplayNext
  <1> QED
    BY <1>32, <1>40, <1>41, <1>42, <1>43, <1>44, <1>45, <1>46
    DEF Next

(* What the customer saw stays seen: only the key press changes it.        *)
LEMMA SeenStays ==
  ASSUME TypeOK, InHand, [Next]_vars, NEW r \in Replies, Seen(r) PROVE Seen(r)'
  <1> USE DEF server, client, wechat
  <1>1. CASE UNCHANGED shown
    BY <1>1 DEF Seen
  <1>2. ASSUME NEW bit \in BOOLEAN, Press(bit) PROVE Seen(r)'
    <2>1. sidecar.reply \in Replies /\ shown[r] \in Nat
      BY <1>2 DEF Press, InHand, TypeOK
    <2>2. CASE bit
      <3>1. shown' = [shown EXCEPT ![sidecar.reply] = shown[sidecar.reply] + 1]
        BY <1>2, <2>2 DEF Press
      <3> QED
        BY <2>1, <3>1 DEF Seen, TypeOK
    <2>3. CASE ~bit
      BY <1>2, <2>1, <2>3 DEF Press, Seen, TypeOK
    <2> QED
      BY <2>2, <2>3
  <1>3. ServerNext => UNCHANGED shown
    BY DEF ServerNext, Invalidate, FindQueued, Withdraw,
       Generate, CancelTask, LeaseRunsOut, RecoverStale
  <1>4. StartNext => UNCHANGED shown
    BY DEF StartNext, StartRead, PullExpired, PullRunning, PullPending
  <1>5. SenderNext => UNCHANGED shown
    BY DEF SenderNext, ReadNothing, ReplyReady, Replaced, RefreshFails, Refreshed, Stops,
       FailCall, ClaimTask, ClaimSend, SaveIntent, Reconcile, CheckFails, StartSidecar,
       SidecarAnswers, SidecarCut, SenderAck, Finish
  <1>6. SidecarNext => UNCHANGED shown \/ \E bit \in BOOLEAN : Press(bit)
    BY DEF SidecarNext, GiveUp, Mark, Confirm, OrphanEnds
  <1>7. ReplayNext => UNCHANGED shown
    BY DEF ReplayNext, Look, ReplayNothing, ReplayRow, ReplayPhase, ReplayDiscard,
       ReplayFinalize, ReplayAck
  <1>8. RestartRecovery \/ (\E sidecarDies \in BOOLEAN : Crash(sidecarDies))
          => UNCHANGED shown
    BY DEF RestartRecovery, Crash
  <1>9. UNCHANGED vars => UNCHANGED shown
    BY DEF vars
  <1> QED
    BY <1>1, <1>2, <1>3, <1>4, <1>5, <1>6, <1>7, <1>8, <1>9 DEF Next

(* An attempt changes no result and confirms no phase.                     *)
LEMMA AttemptKeeps ==
  ASSUME TypeOK, NEW q \in Replies, NEW result, NEW fate, Attempt(q, result, fate),
         NEW r \in Replies
  PROVE /\ outbox'[r].result = outbox[r].result
        /\ journal'[r] = "confirmed" => journal[r] = "confirmed"
  BY DEF Attempt, TypeOK, Rows, Phases

(* The end of a send writes "sent" only of a reply that was seen.          *)
LEMMA SettleEvidence ==
  ASSUME TypeOK, Evidence, NEW result \in Results, sender.reply \in Replies,
         Settle(result), result = "sent" => Seen(sender.reply)
  PROVE /\ \A r \in Replies : outbox'[r].result = "sent" => shown[r] > 0
        /\ sender'.at = "ack" /\ sender'.result = "sent" => Seen(sender'.reply)
  <1>1. sender'.reply = sender.reply /\ sender'.result = result
    BY DEF Settle, TypeOK, Senders
  <1>2. ASSUME NEW r \in Replies, outbox'[r].result = "sent" PROVE shown[r] > 0
    BY <1>2 DEF Settle, Finalize, TypeOK, Evidence, Seen, Rows
  <1> QED
    BY <1>1, <1>2

(* Every step keeps the evidence of a "sent".                              *)
LEMMA EvidenceStep ==
  ASSUME TypeOK, TypeOK', InHand, Evidence, [Next]_vars PROVE Evidence'
  <1> USE SeenStays DEF server, client, wechat
  <1>1. ASSUME NEW r \in Replies, Invalidate(r) \/ Withdraw(r) PROVE Evidence'
    BY <1>1 DEF Invalidate, Withdraw, Evidence, TypeOK, InHand, Seen
  <1>1a. ASSUME NEW r \in Replies, FindQueued(r) PROVE Evidence'
    BY <1>1a DEF FindQueued, Evidence, TypeOK, InHand, Seen
  <1>2. ASSUME NEW r \in Replies, NEW R \in SUBSET found, Generate(r, R) PROVE Evidence'
    BY <1>2 DEF Generate, Evidence, TypeOK, InHand, Seen
  <1>3. ASSUME NEW r \in Replies, CancelTask(r) PROVE Evidence'
    BY <1>3 DEF CancelTask, Evidence, TypeOK, InHand, Seen
  <1>4. ASSUME NEW r \in Replies, LeaseRunsOut(r) PROVE Evidence'
    BY <1>4 DEF LeaseRunsOut, Evidence, TypeOK, InHand, Seen
  <1>5. ASSUME NEW r \in Replies, RecoverStale(r) PROVE Evidence'
    BY <1>5 DEF RecoverStale, Evidence, TypeOK, InHand, Seen
  <1>6. ASSUME StartRead PROVE Evidence'
    BY <1>6 DEF StartRead, Evidence, TypeOK, InHand, Seen, Begin, AtHome
  <1>7. ASSUME ReadNothing PROVE Evidence'
    BY <1>7 DEF ReadNothing, Evidence, TypeOK, InHand, Seen
  <1>8. ASSUME NEW r \in Replies, ReplyReady(r) PROVE Evidence'
    BY <1>8 DEF ReplyReady, Evidence, TypeOK, InHand, Seen
  <1>9. ASSUME NEW r \in Replies, PullExpired(r) PROVE Evidence'
    BY <1>9 DEF PullExpired, Evidence, TypeOK, InHand, Seen
  <1>10. ASSUME NEW r \in Replies, PullRunning(r) PROVE Evidence'
    BY <1>10 DEF PullRunning, Evidence, TypeOK, InHand, Seen, Begin, AtHome
  <1>11. ASSUME NEW r \in Replies, PullPending(r) PROVE Evidence'
    BY <1>11 DEF PullPending, Evidence, TypeOK, InHand, Seen, Begin, AtHome
  <1>12. ASSUME NEW r \in Replies, Replaced(r) PROVE Evidence'
    BY <1>12 DEF Replaced, Evidence, TypeOK, InHand, Seen
  <1>13. ASSUME RefreshFails PROVE Evidence'
    BY <1>13 DEF RefreshFails, Evidence, TypeOK, InHand, Seen
  <1>14. ASSUME Refreshed PROVE Evidence'
    BY <1>14 DEF Refreshed, Evidence, TypeOK, InHand, Seen
  <1>15. ASSUME Stops PROVE Evidence'
    BY <1>15 DEF Stops, Evidence, TypeOK, InHand, Seen
  <1>16. ASSUME NEW fate \in Fates, FailCall(fate) PROVE Evidence'
    BY <1>16 DEF FailCall, Evidence, TypeOK, InHand, Seen
  <1>17. ASSUME NEW fate \in Fates, NEW granted \in BOOLEAN, ClaimTask(fate, granted) PROVE Evidence'
    BY <1>17 DEF ClaimTask, Evidence, TypeOK, InHand, Seen
  <1>18. ASSUME NEW fate \in Fates, NEW granted \in BOOLEAN, ClaimSend(fate, granted) PROVE Evidence'
    BY <1>18 DEF ClaimSend, Evidence, TypeOK, InHand, Seen
  <1>19. ASSUME SaveIntent PROVE Evidence'
    BY <1>19 DEF SaveIntent, Evidence, TypeOK, InHand, Seen
  <1>20. ASSUME Reconcile PROVE Evidence'
    <2> DEFINE q == sender.reply
    <2>1. q \in Replies /\ journal[q] \in Phases /\ outbox[q] \in Rows
      BY <1>20 DEF Reconcile, InHand, TypeOK
    <2>2. CASE Settle(ResultOf(journal[q]))
      BY <1>20, <2>1, <2>2, ResultType, ResultSent, SettleEvidence
      DEF Reconcile, Evidence, Seen
    <2>3. CASE outbox[q].at # "intent"
      <3>1. sender'.reply = q /\ sender'.result = outbox[q].result /\ UNCHANGED outbox
        BY <1>20, <2>3 DEF Reconcile, TypeOK, Senders
      <3> QED
        BY <1>20, <2>1, <3>1 DEF Reconcile, Evidence, Seen
    <2> QED
      BY <1>20, <2>2, <2>3 DEF Reconcile
  <1>21. ASSUME CheckFails PROVE Evidence'
    BY <1>21 DEF CheckFails, Evidence, TypeOK, InHand, Seen, Settle, Finalize
  <1>22. ASSUME StartSidecar PROVE Evidence'
    BY <1>22 DEF StartSidecar, Evidence, TypeOK, InHand, Seen
  <1>23. ASSUME GiveUp PROVE Evidence'
    BY <1>23 DEF GiveUp, Evidence, TypeOK, InHand, Seen
  <1>24. ASSUME Mark PROVE Evidence'
    BY <1>24 DEF Mark, Evidence, TypeOK, InHand, Seen
  <1>25. ASSUME NEW bit \in BOOLEAN, Press(bit) PROVE Evidence'
    BY <1>25 DEF Press, Evidence, TypeOK, InHand, Seen
  <1>26. ASSUME NEW bit \in BOOLEAN, Confirm(bit) PROVE Evidence'
    BY <1>26 DEF Confirm, Evidence, TypeOK, InHand, Seen
  <1>27. ASSUME OrphanEnds PROVE Evidence'
    BY <1>27 DEF OrphanEnds, Evidence, TypeOK, InHand, Seen, Stopped
  <1>28. ASSUME SidecarAnswers PROVE Evidence'
    <2> DEFINE q == sender.reply
    <2>1. q \in Replies /\ journal[q] \in Phases
      BY <1>28 DEF SidecarAnswers, InHand, TypeOK
    <2>2. ResultOf(journal[q]) = "sent" => Seen(q)
      BY <2>1, ResultSent DEF Evidence, Seen
    <2> QED
      BY <1>28, <2>1, <2>2, ResultType, SettleEvidence
      DEF SidecarAnswers, Stopped, Evidence, Seen
  <1>29. ASSUME SidecarCut PROVE Evidence'
    BY <1>29 DEF SidecarCut, Evidence, TypeOK, InHand, Seen, Settle, Finalize, Stopped
  <1>30. ASSUME NEW fate \in Fates, SenderAck(fate) PROVE Evidence'
    <2>1. sender.reply \in Replies
      BY <1>30 DEF SenderAck, InHand
    <2>2. \A r \in Replies : outbox'[r].result = outbox[r].result
                           /\ (journal'[r] = "confirmed" => journal[r] = "confirmed")
      BY <1>30, <2>1, AttemptKeeps DEF SenderAck
    <2> QED
      BY <1>30, <2>2 DEF SenderAck, Evidence, TypeOK, Seen, Senders
  <1>31. ASSUME Finish PROVE Evidence'
    BY <1>31 DEF Finish, Evidence, TypeOK, InHand, Seen, AtHome
  <1>32. ASSUME RestartRecovery PROVE Evidence'
    BY <1>32 DEF RestartRecovery, Evidence, TypeOK, InHand, Seen
  <1>33. ASSUME NEW th \in Threads, Look(th) PROVE Evidence'
    BY <1>33 DEF Look, Evidence, TypeOK, InHand, Seen
  <1>34. ASSUME NEW th \in Threads, ReplayNothing(th) PROVE Evidence'
    BY <1>34 DEF ReplayNothing, Evidence, TypeOK, InHand, Seen, Lists
  <1>35. ASSUME NEW th \in Threads, NEW r \in Replies, ReplayRow(th, r) PROVE Evidence'
    BY <1>35 DEF ReplayRow, Evidence, TypeOK, InHand, Seen, Lists
  <1>36. ASSUME ReplayPhase PROVE Evidence'
    <2> DEFINE q == replay.reply
    <2>1. q \in Replies /\ journal[q] \in Phases
      BY <1>36 DEF ReplayPhase, InHand, TypeOK
    <2>2. ResultOf(journal[q]) = "sent" => Seen(q)
      BY <2>1, ResultSent DEF Evidence, Seen
    <2>3. replay'.result = "sent" => Seen(replay'.reply)
      BY <1>36, <2>2 DEF ReplayPhase, TypeOK, Passes, Evidence
    <2> QED
      BY <1>36, <2>3 DEF ReplayPhase, Evidence, Seen
  <1>37. ASSUME ReplayDiscard PROVE Evidence'
    <2>1. \A r \in Replies : outbox'[r].result = "sent" => outbox[r].result = "sent"
      BY <1>37 DEF ReplayDiscard, NoRow, TypeOK
    <2> QED
      BY <1>37, <2>1 DEF ReplayDiscard, NoReplay, Evidence, Seen
  <1>38. ASSUME ReplayFinalize PROVE Evidence'
    BY <1>38 DEF ReplayFinalize, Evidence, TypeOK, InHand, Seen, NoReplay, Finalize
  <1>39. ASSUME NEW fate \in Fates, ReplayAck(fate) PROVE Evidence'
    <2>1. replay.reply \in Replies
      BY <1>39 DEF ReplayAck, InHand
    <2>2. \A r \in Replies : outbox'[r].result = outbox[r].result
                           /\ (journal'[r] = "confirmed" => journal[r] = "confirmed")
      BY <1>39, <2>1, AttemptKeeps DEF ReplayAck
    <2> QED
      BY <1>39, <2>2 DEF ReplayAck, Evidence, TypeOK, Seen, NoReplay
  <1>40. ASSUME NEW bit \in BOOLEAN, Crash(bit) PROVE Evidence'
    BY <1>40 DEF Crash, Evidence, TypeOK, InHand, Seen, AtHome, NoReplay, Stopped
  <1>41. CASE UNCHANGED vars
    BY <1>41 DEF vars, Evidence, TypeOK, InHand, Seen
  <1>42. CASE ServerNext
    BY <1>42, <1>1, <1>1a, <1>2, <1>3, <1>4, <1>5
    DEF ServerNext
  <1>43. CASE StartNext
    BY <1>43, <1>6, <1>9, <1>10, <1>11
    DEF StartNext
  <1>44. CASE SenderNext
    BY <1>44, <1>7, <1>8, <1>12, <1>13, <1>14, <1>15, <1>16, <1>17, <1>18, <1>19, <1>20, <1>21, <1>22, <1>28, <1>29, <1>30, <1>31
    DEF SenderNext
  <1>45. CASE SidecarNext
    BY <1>45, <1>23, <1>24, <1>25, <1>26, <1>27
    DEF SidecarNext
  <1>46. CASE ReplayNext
    BY <1>46, <1>33, <1>34, <1>35, <1>36, <1>37, <1>38, <1>39
    DEF ReplayNext
  <1> QED
    BY <1>32, <1>40, <1>41, <1>42, <1>43, <1>44, <1>45, <1>46
    DEF Next

(* What the server holds it keeps: only sent_ack adds a row.               *)
LEMMA AckedStays ==
  ASSUME [Next]_vars PROVE acked \subseteq acked'
  <1> USE DEF server, client, wechat
  <1>1. ASSUME NEW r, NEW result, NEW fate, Attempt(r, result, fate)
        PROVE acked \subseteq acked'
    BY <1>1 DEF Attempt, Record
  <1>2. CASE ServerNext
    BY <1>2 DEF ServerNext, Invalidate, FindQueued, Withdraw,
       Generate, CancelTask, LeaseRunsOut, RecoverStale
  <1>3. CASE StartNext
    BY <1>3 DEF StartNext, StartRead, PullExpired, PullRunning, PullPending
  <1>4. CASE SenderNext
    BY <1>1, <1>4 DEF SenderNext, ReadNothing, ReplyReady, Replaced, RefreshFails, Refreshed,
       Stops, FailCall, ClaimTask, ClaimSend, SaveIntent, Reconcile, CheckFails, StartSidecar,
       SidecarAnswers, SidecarCut, SenderAck, Finish
  <1>5. CASE SidecarNext
    BY <1>5 DEF SidecarNext, GiveUp, Mark, Press, Confirm, OrphanEnds
  <1>6. CASE ReplayNext
    BY <1>1, <1>6 DEF ReplayNext, Look, ReplayNothing, ReplayRow, ReplayPhase, ReplayDiscard,
       ReplayFinalize, ReplayAck
  <1> QED
    BY <1>2, <1>3, <1>4, <1>5, <1>6 DEF Next, RestartRecovery, Crash, vars

(* "sent" is recorded only of a reply that was seen.                       *)
LEMMA RecordEvidence ==
  ASSUME TypeOK, RecordedSentIsShown, NEW q \in Replies, NEW result, NEW fate,
         Attempt(q, result, fate), result = "sent" => Seen(q), NEW r \in Replies,
         action'[r] = "sent"
  PROVE Seen(r)
  <1>1. CASE UNCHANGED action
    BY <1>1 DEF RecordedSentIsShown, Seen
  <1>2. CASE action' = [action EXCEPT ![q] = result]
    BY <1>2 DEF RecordedSentIsShown, Seen, TypeOK
  <1> QED
    BY <1>1, <1>2 DEF Attempt, Record, server

(* Every step keeps RecordedSentIsShown.                                   *)
LEMMA RecordedStep ==
  ASSUME TypeOK, InHand, Evidence, RecordedSentIsShown, [Next]_vars
  PROVE RecordedSentIsShown'
  <1> USE DEF server, client, wechat
  <1> SUFFICES ASSUME NEW r \in Replies, action'[r] = "sent" PROVE Seen(r)
    BY SeenStays DEF RecordedSentIsShown, Seen
  <1>1. CASE action[r] = "sent"
    BY <1>1 DEF RecordedSentIsShown, Seen
  <1>2. ASSUME NEW fate \in Fates, SenderAck(fate) PROVE Seen(r)
    <2>1. sender.reply \in Replies
      BY <1>2 DEF SenderAck, InHand
    <2> QED
      BY <1>2, <2>1, RecordEvidence DEF SenderAck, Evidence
  <1>3. ASSUME NEW fate \in Fates, ReplayAck(fate) PROVE Seen(r)
    <2>1. replay.reply \in Replies
      BY <1>3 DEF ReplayAck, InHand
    <2> QED
      BY <1>3, <2>1, RecordEvidence DEF ReplayAck, Evidence
  <1>4. CASE ServerNext
    BY <1>1, <1>4 DEF ServerNext, Invalidate, FindQueued, Withdraw,
       Generate, CancelTask, LeaseRunsOut, RecoverStale,
       Void, TypeOK
  <1>5. CASE StartNext
    BY <1>1, <1>5 DEF StartNext, StartRead, PullExpired, PullRunning, PullPending, Fail, TypeOK
  <1>6. CASE SenderNext
    <2>1. CASE \E fate \in Fates : FailCall(fate)
      BY <1>1, <2>1 DEF FailCall, Fail, TypeOK
    <2>2. CASE \E fate \in Fates, granted \in BOOLEAN : ClaimSend(fate, granted)
      BY <1>1, <2>2 DEF ClaimSend, TypeOK
    <2> QED
      BY <1>1, <1>2, <1>6, <2>1, <2>2
      DEF SenderNext, ReadNothing, ReplyReady, Replaced, RefreshFails, Refreshed, Stops,
          ClaimTask, SaveIntent, Reconcile, CheckFails, StartSidecar, SidecarAnswers,
          SidecarCut, Finish
  <1>7. CASE SidecarNext
    BY <1>1, <1>7 DEF SidecarNext, GiveUp, Mark, Press, Confirm, OrphanEnds
  <1>8. CASE ReplayNext
    BY <1>1, <1>3, <1>8 DEF ReplayNext, Look, ReplayNothing, ReplayRow, ReplayPhase,
       ReplayDiscard, ReplayFinalize
  <1> QED
    BY <1>1, <1>4, <1>5, <1>6, <1>7, <1>8 DEF Next, RestartRecovery, Crash, vars

(* A result is confirmed only when the server has it.                      *)
LEMMA AttemptConfirms ==
  ASSUME TypeOK, ConfirmedIsAcked, NEW q \in Replies, NEW result, NEW fate,
         Attempt(q, result, fate), NEW r \in Replies, outbox'[r].at = "confirmed"
  PROVE r \in acked'
  <1>1. acked \subseteq acked'
    BY DEF Attempt, Record, server
  <1>2. CASE fate = "answered" /\ AckAccepted(q)
    <2>1. q \in acked'
      BY <1>2 DEF Attempt, Arrives, Record, server
    <2> QED
      BY <1>1, <1>2, <2>1 DEF Attempt, ConfirmedIsAcked, TypeOK, Rows
  <1>3. CASE ~(fate = "answered" /\ AckAccepted(q))
    BY <1>1, <1>3 DEF Attempt, ConfirmedIsAcked
  <1> QED
    BY <1>2, <1>3

(* Every step keeps ConfirmedIsAcked.                                      *)
LEMMA ConfirmedStep ==
  ASSUME TypeOK, InHand, ConfirmedIsAcked, [Next]_vars PROVE ConfirmedIsAcked'
  <1> USE DEF server, client, wechat
  <1> SUFFICES ASSUME NEW r \in Replies, outbox'[r].at = "confirmed" PROVE r \in acked'
    BY DEF ConfirmedIsAcked
  <1>1. CASE outbox[r].at = "confirmed"
    BY <1>1, AckedStays DEF ConfirmedIsAcked
  <1>2. ASSUME NEW fate \in Fates, SenderAck(fate) PROVE r \in acked'
    <2>1. sender.reply \in Replies
      BY <1>2 DEF SenderAck, InHand
    <2> QED
      BY <1>2, <2>1, AttemptConfirms DEF SenderAck
  <1>3. ASSUME NEW fate \in Fates, ReplayAck(fate) PROVE r \in acked'
    <2>1. replay.reply \in Replies
      BY <1>3 DEF ReplayAck, InHand
    <2> QED
      BY <1>3, <2>1, AttemptConfirms DEF ReplayAck
  <1>4. ASSUME NEW q \in Replies, NEW result, Finalize(q, result)
        PROVE outbox[r].at = "confirmed"
    BY <1>4 DEF Finalize, TypeOK, Rows
  <1>5. CASE ServerNext
    BY <1>1, <1>5 DEF ServerNext, Invalidate, FindQueued, Withdraw,
       Generate, CancelTask, LeaseRunsOut, RecoverStale
  <1>6. CASE StartNext
    BY <1>1, <1>6 DEF StartNext, StartRead, PullExpired, PullRunning, PullPending
  <1>7. CASE SenderNext
    <2>1. CASE SaveIntent
      BY <1>1, <2>1 DEF SaveIntent, TypeOK, Rows
    <2>2. ASSUME NEW result, sender.reply \in Replies, Settle(result) PROVE r \in acked'
      BY <1>1, <1>4, <2>2 DEF Settle
    <2>3. CASE Reconcile \/ CheckFails \/ SidecarAnswers \/ SidecarCut
      BY <1>1, <2>2, <2>3 DEF Reconcile, CheckFails, SidecarAnswers, SidecarCut, InHand
    <2> QED
      BY <1>1, <1>2, <1>7, <2>1, <2>3
      DEF SenderNext, ReadNothing, ReplyReady, Replaced, RefreshFails, Refreshed, Stops,
          FailCall, ClaimTask, ClaimSend, StartSidecar, Finish
  <1>8. CASE SidecarNext
    BY <1>1, <1>8 DEF SidecarNext, GiveUp, Mark, Press, Confirm, OrphanEnds
  <1>9. CASE ReplayNext
    <2>1. CASE ReplayDiscard
      BY <1>1, <2>1 DEF ReplayDiscard, NoRow, TypeOK, Rows
    <2>2. CASE ReplayFinalize
      BY <1>1, <1>4, <2>2 DEF ReplayFinalize, InHand
    <2> QED
      BY <1>1, <1>3, <1>9, <2>1, <2>2 DEF ReplayNext, Look, ReplayNothing, ReplayRow, ReplayPhase
  <1> QED
    BY <1>1, <1>5, <1>6, <1>7, <1>8, <1>9 DEF Next, RestartRecovery, Crash, vars

(* ReplyInv holds before any reply is queued.                              *)
LEMMA InvInit ==
  ASSUME Init PROVE ReplyInv
  <1> USE ReplySendAssumption
  <1>1. TypeOK
    BY DEF Init, TypeOK, Statuses, Rows, NoRow, Results, Phases, Flows, NoFlow,
           Senders, AtHome, Sidecars, Stopped, Passes, NoReplay, Budgets
  <1> QED
    BY <1>1 DEF Init, ReplyInv, InHand, Evidence, RecordedSentIsShown, ConfirmedIsAcked,
           NoRow, AtHome, Stopped, NoReplay

(* The inductive invariant holds in every reachable state.                 *)
LEMMA ReplyInvariant == Spec => []ReplyInv
  <1>1. ReplyInv /\ [Next]_vars => ReplyInv'
    BY TypeStep, InHandStep, EvidenceStep, RecordedStep, ConfirmedStep DEF ReplyInv
  <1> QED
    BY <1>1, InvInit, PTL DEF Spec

(* Every row, file and process keeps its type: what is reported is a       *)
(* result, never a phase of the journal.                                   *)
THEOREM TypeCorrect == Spec => []TypeOK
  <1>1. ReplyInv => TypeOK
    BY DEF ReplyInv
  <1> QED
    BY <1>1, ReplyInvariant, PTL

(* RecordedSentIsShown for any number of replies, losses and kills: on no  *)
(* path, with or without the barrier, is a reply the customer never saw    *)
(* recorded as sent.                                                       *)
THEOREM SentIsShown == Spec => []RecordedSentIsShown
  <1>1. ReplyInv => RecordedSentIsShown
    BY DEF ReplyInv
  <1> QED
    BY <1>1, ReplyInvariant, PTL

(* ConfirmedIsAcked: the client never forgets a result that the server     *)
(* does not have, whatever calls are lost.                                 *)
THEOREM ForgottenIsAcked == Spec => []ConfirmedIsAcked
  <1>1. ReplyInv => ConfirmedIsAcked
    BY DEF ReplyInv
  <1> QED
    BY <1>1, ReplyInvariant, PTL
=============================================================================
