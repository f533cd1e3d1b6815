------------------------- MODULE ReplySettle_proofs -------------------------
(***************************************************************************)
(* Proofs about ReplySend, continued: at most one send is not settled,     *)
(* nothing the customer saw is recorded as failed, or as void but by a     *)
(* withdrawal that had read it before its claim, and no reply reaches the  *)
(* customer twice, but when the C2 loop lists late.                        *)
(*                                                                         *)
(* SettleInv adds to ReplyInv who may run beside whom (Session), what is   *)
(* written before what (Written, Journaled, AckedIsOver, UndoneIsFound),   *)
(* and that a "failed" on its way to the server and a key still to be      *)
(* pressed exclude each other (Claimed, DeniedIsUnsent).  OnceInv adds     *)
(* that only the task loop repeats a claim and lists nothing meanwhile     *)
(* (Runs, Repeated), that a send claimed again is out of reach of the      *)
(* barrier (RepeatedAlone) if the C2 loop does not list late, and that the *)
(* key is pressed for a reply nobody has seen, or whose result is on the   *)
(* server (Unpressed).                                                     *)
(***************************************************************************)
EXTENDS ReplySend_proofs, FiniteSetTheorems

\* A read or a task goes on only from a settled outbox, and one thread has
\* the sidecar.
Session ==
    /\ sender.at \in {"read", "refresh", "claim", "claimSend", "intent"} => Open = {}
    /\ sidecar.at # "idle" => sender.at \in {"home", "sending"}
    /\ sender.at = "sending" => sidecar.at # "idle" /\ sidecar.reply = sender.reply

OneOpen == \A p, q \in Open : p = q

Settled == {"waiting", "confirmed"}

Written ==
    /\ \A r \in Replies : outbox[r].result # "none" <=> outbox[r].at \in Settled
    /\ sender.at = "ack" =>
          sender.result # "none" /\ outbox[sender.reply].at \in Settled
    /\ replay.at = "ack" =>
          replay.result # "none" /\ outbox[replay.reply].at \in Settled
    /\ replay.at = "finalize" => replay.result \in {"sent", "unknown"}
    /\ replay.at \in {"idle", "phase", "discard"} => replay.result = "none"

Over == {"sent", "failed", "unknown"}

Ended == Over \cup {"undone"}

AckedIsOver == \A r \in acked : action[r] \in Ended

\* A withdrawal has read what it ends.
UndoneIsFound == \A r \in Replies : action[r] = "undone" => r \in found

Journaled ==
    /\ \A r \in Replies : shown[r] > 0 => journal[r] # "not_attempted" \/ r \in acked
    /\ sidecar.at \in {"marked", "pressed"} =>
          journal[sidecar.reply] # "not_attempted" \/ sidecar.reply \in acked

\* A "failed" for this reply is on its way to the server.
Denied(r) ==
    \/ outbox[r].result = "failed"
    \/ sender.at = "ack" /\ sender.reply = r /\ sender.result = "failed"
    \/ replay.reply = r /\ replay.result = "failed"

\* Its send was claimed, and nothing refused the claim but a withdrawal.
Claimable(r) ==
    /\ action[r] \in {"sending", "sent", "unknown", "undone"}
    /\ Denied(r) => r \in acked

Claimed ==
    /\ sidecar.at \in {"ready", "marked"} => Claimable(sidecar.reply)
    /\ sender.at \in {"intent", "check"} =>
          Claimable(sender.reply) /\ (~sender.dup => shown[sender.reply] = 0)

DeniedIsUnsent == \A r \in Replies : Denied(r) => r \in acked \/ shown[r] = 0

(* How a row of the outbox moves.                                          *)
Settles == Reconcile \/ CheckFails \/ SidecarAnswers \/ SidecarCut

Attempts(q, result) ==
    \/ /\ \E fate \in Fates : SenderAck(fate)
       /\ q = sender.reply /\ result = sender.result
    \/ /\ \E fate \in Fates : ReplayAck(fate)
       /\ q = replay.reply /\ result = replay.result

RowMoves(r) ==
    \/ outbox'[r] = outbox[r]
    \/ /\ SaveIntent /\ r = sender.reply
       /\ outbox[r].at = "none" /\ outbox'[r].at = "intent"
       /\ outbox'[r].result = outbox[r].result
    \/ /\ Settles /\ r = sender.reply /\ r \in Open
       /\ outbox'[r] = [at |-> "waiting", result |-> sender'.result]
       /\ sender'.result # "none"
    \/ /\ ReplayFinalize /\ r = replay.reply /\ r \in Open
       /\ outbox'[r] = [at |-> "waiting", result |-> replay.result]
    \/ /\ \E result : Attempts(r, result)
       /\ outbox[r].at # "none" /\ outbox'[r].at = "confirmed"
       /\ outbox'[r].result = outbox[r].result
    \/ ReplayDiscard /\ outbox[r].at = "intent" /\ outbox'[r] = NoRow

(* The end of a send: a new result, which is "failed" only when no key was  *)
(* pressed, or the result that is already in the row.                      *)
LEMMA SettleMoves ==
  ASSUME TypeOK, InHand, Settles
  PROVE /\ sender.reply \in Replies /\ sender'.reply = sender.reply
        /\ sender'.at \in {"ack", "finish"}
        /\ \/ /\ sender.reply \in Open
              /\ outbox'[sender.reply] = [at |-> "waiting", result |-> sender'.result]
              /\ sender'.result \in Results \ {"none"}
              /\ sender'.result = "failed" =>
                    CheckFails \/ journal[sender.reply] = "not_attempted"
           \/ /\ outbox' = outbox /\ sender'.result = outbox[sender.reply].result
              /\ sender'.at = "ack" => outbox[sender.reply].at \in Settled
           \/ outbox' = outbox /\ sender'.at = "finish"
  <1>1. /\ sender.reply \in Replies
        /\ outbox[sender.reply] \in Rows /\ journal[sender.reply] \in Phases
    BY DEF Settles, Reconcile, CheckFails, SidecarAnswers, SidecarCut, InHand, TypeOK
  <1>2. ASSUME NEW result \in Results \ {"none"}, Settle(result),
               result = "failed" => CheckFails \/ journal[sender.reply] = "not_attempted"
        PROVE /\ sender'.reply = sender.reply /\ sender'.at \in {"ack", "finish"}
              /\ \/ /\ sender.reply \in Open
                    /\ outbox'[sender.reply] = [at |-> "waiting", result |-> sender'.result]
                    /\ sender'.result \in Results \ {"none"}
                    /\ sender'.result = "failed" =>
                          CheckFails \/ journal[sender.reply] = "not_attempted"
                 \/ outbox' = outbox /\ sender'.at = "finish"
    <2>1. CASE sender.reply \in Open
      BY <1>1, <1>2, <2>1 DEF Settle, Finalize, TypeOK, Senders
    <2>2. CASE sender.reply \notin Open
      BY <1>1, <1>2, <2>2 DEF Settle, Finalize, TypeOK, Senders
    <2> QED
      BY <2>1, <2>2
  <1>3. CASE CheckFails
    <2>1. Settle("failed") /\ "failed" \in Results \ {"none"}
      BY <1>3 DEF CheckFails, Results
    <2> QED
      BY <1>1, <1>2, <1>3, <2>1
  <1>4. CASE SidecarCut
    <2>1. Settle("unknown") /\ "unknown" \in Results \ {"none"}
      BY <1>4 DEF SidecarCut, Results
    <2> QED
      BY <1>1, <1>2, <2>1
  <1>5. CASE Settle(ResultOf(journal[sender.reply]))
    <2>1. ResultOf(journal[sender.reply]) \in Results \ {"none"}
      BY <1>1 DEF ResultOf, Phases, Results
    <2>2. ResultOf(journal[sender.reply]) = "failed" => journal[sender.reply] = "not_attempted"
      BY <1>1 DEF ResultOf, Phases
    <2> QED
      BY <1>1, <1>2, <1>5, <2>1, <2>2
  <1>6. CASE Reconcile /\ outbox[sender.reply].at # "intent"
    <2>1. outbox' = outbox /\ sender'.result = outbox[sender.reply].result
      BY <1>6 DEF Reconcile, TypeOK, Senders
    <2>2. /\ sender'.reply = sender.reply
          /\ sender'.at = IF outbox[sender.reply].at = "none" THEN "finish" ELSE "ack"
      BY <1>6 DEF Reconcile, TypeOK, Senders
    <2> QED
      BY <1>1, <1>6, <2>1, <2>2 DEF Rows, Settled
  <1> QED
    BY <1>3, <1>4, <1>5, <1>6 DEF Settles, Reconcile, SidecarAnswers

(* A row changes only in the ways listed in RowMoves.                      *)
LEMMA RowStep ==
  ASSUME TypeOK, InHand, [Next]_vars, NEW r \in Replies PROVE RowMoves(r)
  <1> USE DEF server, client, wechat
  <1>1. CASE UNCHANGED outbox
    BY <1>1 DEF RowMoves
  <1>2. ASSUME Settles PROVE RowMoves(r)
    <2>1. CASE r = sender.reply
      BY <1>1, <1>2, <2>1, SettleMoves DEF RowMoves
    <2>2. CASE r # sender.reply
      <3>1. sender.reply \in Replies
        BY <1>2, SettleMoves
      <3>2. ASSUME NEW result, Finalize(sender.reply, result) PROVE RowMoves(r)
        BY <2>2, <3>1, <3>2 DEF Finalize, TypeOK, RowMoves
      <3> QED
        BY <1>1, <1>2, <3>2 DEF Settle, Settles, Reconcile, CheckFails, SidecarAnswers, SidecarCut
    <2> QED
      BY <2>1, <2>2
  <1>3. ASSUME NEW fate \in Fates, SenderAck(fate) PROVE RowMoves(r)
    <2>1. sender.reply \in Replies /\ Attempts(sender.reply, sender.result)
      BY <1>3 DEF SenderAck, InHand, Attempts
    <2> QED
      BY <1>1, <1>3, <2>1 DEF SenderAck, Attempt, RowMoves, TypeOK, Rows
  <1>4. ASSUME NEW fate \in Fates, ReplayAck(fate) PROVE RowMoves(r)
    <2>1. replay.reply \in Replies /\ Attempts(replay.reply, replay.result)
      BY <1>4 DEF ReplayAck, InHand, Attempts
    <2> QED
      BY <1>1, <1>4, <2>1 DEF ReplayAck, Attempt, RowMoves, TypeOK, Rows
  <1>5. CASE SaveIntent
    BY <1>5 DEF SaveIntent, RowMoves, TypeOK, InHand, Rows
  <1>6. CASE ReplayDiscard
    BY <1>6 DEF ReplayDiscard, RowMoves, TypeOK, InHand
  <1>7. CASE ReplayFinalize
    BY <1>7 DEF ReplayFinalize, Finalize, RowMoves, TypeOK, InHand
  <1>8. CASE ServerNext
    BY <1>1, <1>8 DEF ServerNext, Invalidate, FindQueued, Withdraw,
       Generate, CancelTask, LeaseRunsOut, RecoverStale
  <1>9. CASE StartNext
    BY <1>1, <1>9 DEF StartNext, StartRead, PullExpired, PullRunning, PullPending
  <1>10. CASE SenderNext
    BY <1>1, <1>2, <1>3, <1>5, <1>10
    DEF SenderNext, ReadNothing, ReplyReady, Replaced, RefreshFails, Refreshed, Stops,
        FailCall, ClaimTask, ClaimSend, StartSidecar, Finish, Settles
  <1>11. CASE SidecarNext
    BY <1>1, <1>11 DEF SidecarNext, GiveUp, Mark, Press, Confirm, OrphanEnds
  <1>12. CASE ReplayNext
    BY <1>1, <1>4, <1>6, <1>7, <1>12 DEF ReplayNext, Look, ReplayNothing, ReplayRow, ReplayPhase
  <1> QED
    BY <1>1, <1>8, <1>9, <1>10, <1>11, <1>12 DEF Next, RestartRecovery, Crash, vars

(* Only the intent of a send opens a row.                                  *)
LEMMA OpenStep ==
  ASSUME TypeOK, InHand, [Next]_vars, NEW r \in Open'
  PROVE r \in Open \/ (SaveIntent /\ r = sender.reply)
  <1>1. r \in Replies /\ RowMoves(r)
    BY RowStep DEF Open
  <1> QED
    BY <1>1 DEF RowMoves, Open, TypeOK, Rows, NoRow

(* Every step keeps Session.                                               *)
LEMMA SessionStep ==
  ASSUME TypeOK, InHand, Session, [Next]_vars PROVE Session'
  <1> USE DEF server, client, wechat
  <1>1. ASSUME ~SaveIntent, Open = {} PROVE Open' = {}
    BY <1>1, OpenStep
  <1>2. CASE UNCHANGED <<sender, sidecar>>
    BY <1>1, <1>2 DEF Session, SaveIntent, TypeOK, Senders
  <1>3. CASE ServerNext
    BY <1>2, <1>3 DEF ServerNext, Invalidate, FindQueued, Withdraw,
       Generate, CancelTask, LeaseRunsOut, RecoverStale
  <1>4. CASE StartNext
    <2>1. CASE \E r \in Replies : PullExpired(r)
      BY <1>2, <2>1 DEF PullExpired
    <2>2. ASSUME NEW of, NEW label \in {"read", "refresh"}, NEW r, NEW running,
                 Begin(of, label, r, running), UNCHANGED <<wechat, outbox>>
          PROVE Session'
      BY <2>2 DEF Begin, MayStart, UiFree, Pending, Open, Session, AtHome
    <2> QED
      BY <1>4, <2>1, <2>2 DEF StartNext, StartRead, PullRunning, PullPending
  <1>5. CASE SenderNext
    <2>1. ASSUME sender.at \in {"read", "refresh", "claim", "claimSend"},
                 UNCHANGED <<outbox, sidecar>>, sender'.at # "sending"
          PROVE Session'
      BY <2>1 DEF Session, Open
    <2>2. ASSUME sidecar'.at = "idle", sender'.at \in {"home", "check", "ack", "finish"}
          PROVE Session'
      BY <2>2 DEF Session
    <2>3. CASE ReadNothing \/ RefreshFails \/ Refreshed \/ Stops
      BY <2>1, <2>3 DEF ReadNothing, RefreshFails, Refreshed, Stops, TypeOK, Senders
    <2>4. CASE \E r \in Replies : ReplyReady(r) \/ Replaced(r)
      BY <2>1, <2>4 DEF ReplyReady, Replaced, TypeOK, Senders
    <2>5. CASE \E fate \in Fates, granted \in BOOLEAN :
                  ClaimTask(fate, granted) \/ ClaimSend(fate, granted)
      BY <2>1, <2>5 DEF ClaimTask, ClaimSend, TypeOK, Senders
    <2>6. CASE \E fate \in Fates : FailCall(fate) \/ SenderAck(fate)
      BY <2>2, <2>6 DEF FailCall, SenderAck, Session, TypeOK, Senders
    <2>7. CASE SaveIntent \/ Finish
      BY <2>2, <2>7 DEF SaveIntent, Finish, AtHome, Session, TypeOK, Senders
    <2>8. CASE Settles
      <3>1. sidecar'.at = "idle"
        BY <2>8 DEF Settles, Reconcile, CheckFails, SidecarAnswers, SidecarCut, Stopped, Session
      <3> QED
        BY <2>2, <2>8, <3>1, SettleMoves
    <2>9. CASE StartSidecar
      BY <2>9 DEF StartSidecar, Session, TypeOK, Senders
    <2> QED
      BY <1>5, <2>3, <2>4, <2>5, <2>6, <2>7, <2>8, <2>9 DEF SenderNext, Settles
  <1>6. CASE SidecarNext
    BY <1>6 DEF SidecarNext, GiveUp, Mark, Press, Confirm, OrphanEnds, Session, TypeOK, Senders,
       Sidecars, Stopped, Open
  <1>7. CASE ReplayNext
    BY <1>2, <1>7 DEF ReplayNext, Look, ReplayNothing, ReplayRow, ReplayPhase, ReplayDiscard,
       ReplayFinalize, ReplayAck, Attempt
  <1>8. ASSUME NEW bit \in BOOLEAN, Crash(bit) PROVE Session'
    BY <1>8 DEF Crash, Session, AtHome, Stopped
  <1> QED
    BY <1>2, <1>3, <1>4, <1>5, <1>6, <1>7, <1>8 DEF Next, RestartRecovery, vars

(* Every step keeps OneOpen: a row is opened beside no other.              *)
LEMMA OneOpenStep ==
  ASSUME TypeOK, InHand, Session, OneOpen, [Next]_vars PROVE OneOpen'
  <1>1. SaveIntent => Open = {}
    BY DEF SaveIntent, Session
  <1> QED
    BY <1>1, OpenStep DEF OneOpen

(* A row, once settled, stays settled with a result.                       *)
LEMMA SettledStays ==
  ASSUME TypeOK, InHand, [Next]_vars, NEW r \in Replies, outbox[r].at \in Settled
  PROVE outbox'[r].at \in Settled
  BY RowStep DEF RowMoves, Settled, TypeOK, Rows

(* The thread has a result to report only at the end of a send.            *)
LEMMA SenderAcks ==
  ASSUME TypeOK, [Next]_vars, sender'.at = "ack" PROVE UNCHANGED sender \/ Settles
  <1> USE DEF server, client, wechat
  <1>1. CASE ServerNext
    BY <1>1 DEF ServerNext, Invalidate, FindQueued, Withdraw,
       Generate, CancelTask, LeaseRunsOut, RecoverStale
  <1>2. CASE StartNext
    BY <1>2 DEF StartNext, StartRead, PullExpired, PullRunning, PullPending, Begin, AtHome
  <1>3. CASE SenderNext
    <2>1. CASE \E fate \in Fates, granted \in BOOLEAN : ClaimTask(fate, granted)
      BY <2>1 DEF ClaimTask, TypeOK, Senders
    <2>2. CASE \E fate \in Fates, granted \in BOOLEAN : ClaimSend(fate, granted)
      BY <2>2 DEF ClaimSend, TypeOK, Senders
    <2>3. CASE \E fate \in Fates : FailCall(fate) \/ SenderAck(fate)
      BY <2>3 DEF FailCall, SenderAck, TypeOK, Senders
    <2>4. CASE \E r \in Replies : ReplyReady(r) \/ Replaced(r)
      BY <2>4 DEF ReplyReady, Replaced, TypeOK, Senders
    <2> QED
      BY <1>3, <2>1, <2>2, <2>3, <2>4
      DEF SenderNext, ReadNothing, RefreshFails, Refreshed, Stops, SaveIntent,
          StartSidecar, Finish, AtHome, Settles, TypeOK, Senders
  <1>4. CASE SidecarNext
    BY <1>4 DEF SidecarNext, GiveUp, Mark, Press, Confirm, OrphanEnds
  <1>5. CASE ReplayNext
    BY <1>5 DEF ReplayNext, Look, ReplayNothing, ReplayRow, ReplayPhase, ReplayDiscard,
       ReplayFinalize, ReplayAck
  <1> QED
    BY <1>1, <1>2, <1>3, <1>4, <1>5 DEF Next, RestartRecovery, Crash, AtHome, vars

(* A pass of the barrier goes from one step to the next, or ends.          *)
LEMMA ReplayStep ==
  ASSUME [Next]_vars
  PROVE \/ UNCHANGED replay \/ replay' = NoReplay \/ ReplayPhase \/ ReplayFinalize
        \/ \E th \in Threads, r \in Replies : ReplayRow(th, r)
  <1> USE DEF server, client, wechat
  <1>1. CASE ServerNext
    BY <1>1 DEF ServerNext, Invalidate, FindQueued, Withdraw,
       Generate, CancelTask, LeaseRunsOut, RecoverStale
  <1>2. CASE StartNext
    BY <1>2 DEF StartNext, StartRead, PullExpired, PullRunning, PullPending
  <1>3. CASE SenderNext
    BY <1>3 DEF SenderNext, ReadNothing, ReplyReady, Replaced, RefreshFails, Refreshed,
       Stops, FailCall, ClaimTask, ClaimSend, SaveIntent, Reconcile, CheckFails,
       StartSidecar, SidecarAnswers, SidecarCut, SenderAck, Finish
  <1>4. CASE SidecarNext
    BY <1>4 DEF SidecarNext, GiveUp, Mark, Press, Confirm, OrphanEnds
  <1>5. CASE ReplayNext
    BY <1>5 DEF ReplayNext, Look, ReplayNothing, ReplayDiscard, ReplayAck
  <1> QED
    BY <1>1, <1>2, <1>3, <1>4, <1>5 DEF Next, RestartRecovery, Crash, vars

(* Every step keeps Written.                                               *)
LEMMA WrittenStep ==
  ASSUME TypeOK, InHand, Written, [Next]_vars PROVE Written'
  <1> USE DEF server, client, wechat
  <1>1. ASSUME NEW r \in Replies
        PROVE outbox'[r].result # "none" <=> outbox'[r].at \in Settled
    <2>1. RowMoves(r)
      BY RowStep
    <2>2. ReplayFinalize => replay.result # "none"
      BY DEF ReplayFinalize, Written
    <2>3. (\E result : Attempts(r, result)) => outbox[r].at \in Settled
      BY DEF Attempts, SenderAck, ReplayAck, Written
    <2>4. outbox[r].result # "none" <=> outbox[r].at \in Settled
      BY DEF Written
    <2> QED
      BY <2>1, <2>2, <2>3, <2>4 DEF RowMoves, Settled, NoRow
  <1>2. ASSUME sender'.at = "ack"
        PROVE sender'.result # "none" /\ outbox'[sender'.reply].at \in Settled
    <2>1. CASE UNCHANGED sender
      BY <1>2, <2>1, SettledStays DEF Written, InHand
    <2>2. CASE Settles
      <3>1. /\ sender.reply \in Replies /\ sender'.reply = sender.reply
            /\ outbox[sender.reply].at \in Settled => outbox[sender.reply].result # "none"
        BY <2>2, SettleMoves DEF Written
      <3>2. CASE outbox'[sender.reply] = [at |-> "waiting", result |-> sender'.result]
                 /\ sender'.result \in Results \ {"none"}
        BY <3>1, <3>2 DEF Settled
      <3>3. CASE outbox' = outbox /\ sender'.result = outbox[sender.reply].result
                 /\ outbox[sender.reply].at \in Settled
        BY <3>1, <3>3
      <3> QED
        BY <1>2, <2>2, <3>2, <3>3, SettleMoves
    <2> QED
      BY <1>2, <2>1, <2>2, SenderAcks
  <1>3. /\ replay'.at = "ack" =>
              replay'.result # "none" /\ outbox'[replay'.reply].at \in Settled
        /\ replay'.at = "finalize" => replay'.result \in {"sent", "unknown"}
        /\ replay'.at \in {"idle", "phase", "discard"} => replay'.result = "none"
    <2>1. CASE UNCHANGED replay
      BY <2>1, SettledStays DEF Written, InHand
    <2>2. CASE replay' = NoReplay
      BY <2>2 DEF NoReplay
    <2>3. CASE \E th \in Threads, r \in Replies : ReplayRow(th, r)
      BY <2>3, <1>1 DEF ReplayRow, Open, Written, Settled
    <2>4. CASE ReplayPhase
      <3>1. replay.reply \in Replies /\ journal[replay.reply] \in Phases
        BY <2>4 DEF ReplayPhase, InHand, TypeOK
      <3> QED
        BY <2>4, <3>1 DEF ReplayPhase, ResultOf, Phases, Written, TypeOK, Passes
    <2>5. CASE ReplayFinalize
      <3>1. replay.reply \in Replies /\ replay.result # "none"
        BY <2>5 DEF ReplayFinalize, InHand, Written
      <3> QED
        BY <2>5, <3>1 DEF ReplayFinalize, Finalize, NoReplay, TypeOK, Passes, Settled
    <2> QED
      BY <2>1, <2>2, <2>3, <2>4, <2>5, ReplayStep
  <1> QED
    BY <1>1, <1>2, <1>3 DEF Written

(* How the status of a reply moves: the server's own steps void or give up *)
(* on it, a claim takes it, a first result ends it, and a withdrawal       *)
(* writes over whatever became of what it has read.                        *)
ActionMoves(r) ==
    \/ action'[r] = action[r]
    \/ action[r] \in {"none", "queued"} /\ action'[r] \in {"queued", "void", "sending"}
    \/ action[r] = "sending" /\ action'[r] = "unknown"
    \/ /\ r \in found
       /\ action'[r] = IF action[r] \in {"queued", "void"} THEN "void" ELSE "undone"
    \/ /\ action[r] = "sending" /\ r \notin acked /\ r \in acked'
       /\ \E result : Attempts(r, result) /\ action'[r] = result

(* A status changes only in the ways listed in ActionMoves.                *)
LEMMA ActionStep ==
  ASSUME TypeOK, InHand, [Next]_vars, NEW r \in Replies PROVE ActionMoves(r)
  <1> USE DEF server, client, wechat
  <1>1. CASE UNCHANGED action
    BY <1>1 DEF ActionMoves
  <1>2. ASSUME NEW q \in Replies, NEW result, Attempts(q, result), Record(q, result)
        PROVE ActionMoves(r)
    <2>1. CASE q = r
      BY <1>1, <1>2, <2>1 DEF Record, AckAccepted, ActionMoves, TypeOK
    <2>2. CASE q # r
      BY <1>1, <1>2, <2>2 DEF Record, ActionMoves, TypeOK
    <2> QED
      BY <2>1, <2>2
  <1>3. ASSUME NEW fate \in Fates, SenderAck(fate) PROVE ActionMoves(r)
    <2>1. sender.reply \in Replies /\ Attempts(sender.reply, sender.result)
      BY <1>3 DEF SenderAck, InHand, Attempts
    <2> QED
      BY <1>1, <1>2, <1>3, <2>1 DEF SenderAck, Attempt
  <1>4. ASSUME NEW fate \in Fates, ReplayAck(fate) PROVE ActionMoves(r)
    <2>1. replay.reply \in Replies /\ Attempts(replay.reply, replay.result)
      BY <1>4 DEF ReplayAck, InHand, Attempts
    <2> QED
      BY <1>1, <1>2, <1>4, <2>1 DEF ReplayAck, Attempt
  <1>5. ASSUME NEW q \in Replies, Fail(q) PROVE ActionMoves(r)
    BY <1>5 DEF Fail, ActionMoves, TypeOK
  <1>6. CASE ServerNext
    <2>1. CASE \E q \in Replies : Invalidate(q) \/ Withdraw(q)
      BY <2>1 DEF Invalidate, Withdraw, Void, Queued, ActionMoves, TypeOK
    <2>2. CASE \E q \in Replies, R \in SUBSET found : Generate(q, R)
      BY <2>2 DEF Generate, Void, ActionMoves, TypeOK
    <2>3. CASE \E q \in Replies : RecoverStale(q)
      BY <2>3 DEF RecoverStale, ActionMoves, TypeOK
    <2> QED
      BY <1>1, <1>6, <2>1, <2>2, <2>3 DEF ServerNext, FindQueued, CancelTask, LeaseRunsOut
  <1>7. CASE StartNext
    BY <1>1, <1>5, <1>7 DEF StartNext, StartRead, PullExpired, PullRunning, PullPending
  <1>8. CASE SenderNext
    <2>1. CASE \E fate \in Fates : FailCall(fate)
      BY <1>1, <1>5, <2>1 DEF FailCall, InHand
    <2>2. CASE \E fate \in Fates, granted \in BOOLEAN : ClaimSend(fate, granted)
      BY <1>1, <2>2 DEF ClaimSend, ActionMoves, TypeOK, InHand
    <2> QED
      BY <1>1, <1>3, <1>8, <2>1, <2>2
      DEF SenderNext, ReadNothing, ReplyReady, Replaced, RefreshFails, Refreshed, Stops,
          ClaimTask, SaveIntent, Reconcile, CheckFails, StartSidecar, SidecarAnswers,
          SidecarCut, Finish
  <1>9. CASE SidecarNext
    BY <1>1, <1>9 DEF SidecarNext, GiveUp, Mark, Press, Confirm, OrphanEnds
  <1>10. CASE ReplayNext
    BY <1>1, <1>4, <1>10 DEF ReplayNext, Look, ReplayNothing, ReplayRow, ReplayPhase,
       ReplayDiscard, ReplayFinalize
  <1> QED
    BY <1>1, <1>6, <1>7, <1>8, <1>9, <1>10 DEF Next, RestartRecovery, Crash, vars

(* A row joins the acked ones in one attempt, on a reply that is sending   *)
(* or unknown.                                                             *)
LEMMA AckedStep ==
  ASSUME TypeOK, InHand, [Next]_vars, NEW r \in acked', r \notin acked
  PROVE \E result : Attempts(r, result) /\ (action[r] = "unknown" \/ action'[r] = result)
  <1> USE DEF server, client, wechat
  <1>1. ASSUME NEW q \in Replies, NEW result, Attempts(q, result), Record(q, result)
        PROVE \E res : Attempts(r, res) /\ (action[r] = "unknown" \/ action'[r] = res)
    <2>1. q = r
      BY <1>1 DEF Record, TypeOK
    <2> QED
      BY <1>1, <2>1 DEF Record, AckAccepted, TypeOK
  <1>2. ASSUME NEW fate \in Fates, SenderAck(fate)
        PROVE \E res : Attempts(r, res) /\ (action[r] = "unknown" \/ action'[r] = res)
    <2>1. sender.reply \in Replies /\ Attempts(sender.reply, sender.result)
      BY <1>2 DEF SenderAck, InHand, Attempts
    <2> QED
      BY <1>1, <1>2, <2>1 DEF SenderAck, Attempt
  <1>3. ASSUME NEW fate \in Fates, ReplayAck(fate)
        PROVE \E res : Attempts(r, res) /\ (action[r] = "unknown" \/ action'[r] = res)
    <2>1. replay.reply \in Replies /\ Attempts(replay.reply, replay.result)
      BY <1>3 DEF ReplayAck, InHand, Attempts
    <2> QED
      BY <1>1, <1>3, <2>1 DEF ReplayAck, Attempt
  <1>4. CASE ServerNext
    BY <1>4 DEF ServerNext, Invalidate, FindQueued, Withdraw,
       Generate, CancelTask, LeaseRunsOut, RecoverStale
  <1>5. CASE StartNext
    BY <1>5 DEF StartNext, StartRead, PullExpired, PullRunning, PullPending
  <1>6. CASE SenderNext
    BY <1>2, <1>6
    DEF SenderNext, ReadNothing, ReplyReady, Replaced, RefreshFails, Refreshed, Stops,
        FailCall, ClaimTask, ClaimSend, SaveIntent, Reconcile, CheckFails, StartSidecar,
        SidecarAnswers, SidecarCut, Finish
  <1>7. CASE SidecarNext
    BY <1>7 DEF SidecarNext, GiveUp, Mark, Press, Confirm, OrphanEnds
  <1>8. CASE ReplayNext
    BY <1>3, <1>8 DEF ReplayNext, Look, ReplayNothing, ReplayRow, ReplayPhase, ReplayDiscard,
       ReplayFinalize
  <1> QED
    BY <1>4, <1>5, <1>6, <1>7, <1>8 DEF Next, RestartRecovery, Crash, vars

(* A withdrawal never forgets what it has read.                            *)
LEMMA FoundStays ==
  ASSUME [Next]_vars PROVE found \subseteq found'
  <1> USE DEF server, client, wechat
  <1>1. ASSUME NEW r, NEW result, NEW fate, Attempt(r, result, fate)
        PROVE found \subseteq found'
    BY <1>1 DEF Attempt, Record
  <1>2. CASE ServerNext
    BY <1>2 DEF ServerNext, Invalidate, FindQueued, Withdraw,
       Generate, CancelTask, LeaseRunsOut, RecoverStale
  <1>3. CASE StartNext
    BY <1>3 DEF StartNext, StartRead, PullExpired, PullRunning, PullPending
  <1>4. CASE SenderNext
    BY <1>1, <1>4 DEF SenderNext, ReadNothing, ReplyReady, Replaced, RefreshFails, Refreshed,
       Stops, FailCall, ClaimTask, ClaimSend, SaveIntent, Reconcile, CheckFails, StartSidecar,
       SidecarAnswers, SidecarCut, SenderAck, Finish
  <1>5. CASE SidecarNext
    BY <1>5 DEF SidecarNext, GiveUp, Mark, Press, Confirm, OrphanEnds
  <1>6. CASE ReplayNext
    BY <1>1, <1>6 DEF ReplayNext, Look, ReplayNothing, ReplayRow, ReplayPhase, ReplayDiscard,
       ReplayFinalize, ReplayAck
  <1> QED
    BY <1>2, <1>3, <1>4, <1>5, <1>6 DEF Next, RestartRecovery, Crash, vars

(* What is reported is a result.                                           *)
LEMMA AttemptsResult ==
  ASSUME TypeOK, InHand, Written, NEW r, NEW result, Attempts(r, result)
  PROVE /\ r \in Replies /\ result \in Over
        /\ result = "failed" => Denied(r)
  BY DEF Attempts, SenderAck, ReplayAck, Written, InHand, TypeOK, Senders, Passes, Results,
     Over, Denied

(* Every step keeps AckedIsOver.                                           *)
LEMMA AckedIsOverStep ==
  ASSUME TypeOK, InHand, Written, AckedIsOver, [Next]_vars PROVE AckedIsOver'
  <1> SUFFICES ASSUME NEW r \in acked' PROVE action'[r] \in Ended
    BY DEF AckedIsOver
  <1>1. CASE r \in acked
    <2>1. r \in Replies /\ action[r] \in Ended
      BY <1>1 DEF AckedIsOver, TypeOK
    <2> QED
      BY <2>1, ActionStep DEF ActionMoves, Ended, Over
  <1>2. CASE r \notin acked
    <2>1. CASE action[r] = "unknown"
      <3>1. r \in Replies
        BY TypeStep DEF TypeOK
      <3> QED
        BY <2>1, <3>1, ActionStep DEF ActionMoves, Ended, Over
    <2> QED
      BY <1>2, <2>1, AckedStep, AttemptsResult DEF Ended
  <1> QED
    BY <1>1, <1>2

(* What a withdrawal has read it may end, and nothing else ends so.        *)
LEMMA UndoneIsFoundStep ==
  ASSUME TypeOK, InHand, Written, UndoneIsFound, [Next]_vars PROVE UndoneIsFound'
  <1> SUFFICES ASSUME NEW r \in Replies, action'[r] = "undone" PROVE r \in found'
    BY DEF UndoneIsFound
  <1>1. \A result : Attempts(r, result) => result # "undone"
    BY AttemptsResult DEF Over
  <1>2. action[r] = "undone" \/ r \in found
    BY <1>1, ActionStep DEF ActionMoves
  <1> QED
    BY <1>2, FoundStays DEF UndoneIsFound

(* A journal goes back to "not_attempted" only when the result is acked.   *)
LEMMA JournalStep ==
  ASSUME TypeOK, InHand, [Next]_vars, NEW r \in Replies
  PROVE journal'[r] = journal[r] \/ journal'[r] # "not_attempted" \/ r \in acked'
  <1> USE DEF server, client, wechat
  <1>1. CASE UNCHANGED journal
    BY <1>1
  <1>2. ASSUME NEW q \in Replies, NEW result, NEW fate, Attempt(q, result, fate)
        PROVE journal'[r] = journal[r] \/ r \in acked'
    BY <1>2 DEF Attempt, Arrives, Record, TypeOK
  <1>3. CASE \E fate \in Fates : SenderAck(fate)
    BY <1>2, <1>3 DEF SenderAck, InHand
  <1>4. CASE \E fate \in Fates : ReplayAck(fate)
    BY <1>2, <1>4 DEF ReplayAck, InHand
  <1>5. CASE ServerNext
    BY <1>1, <1>5 DEF ServerNext, Invalidate, FindQueued, Withdraw,
       Generate, CancelTask, LeaseRunsOut, RecoverStale
  <1>6. CASE StartNext
    BY <1>1, <1>6 DEF StartNext, StartRead, PullExpired, PullRunning, PullPending
  <1>7. CASE SenderNext
    BY <1>1, <1>3, <1>7
    DEF SenderNext, ReadNothing, ReplyReady, Replaced, RefreshFails, Refreshed, Stops,
        FailCall, ClaimTask, ClaimSend, SaveIntent, Reconcile, CheckFails, StartSidecar,
        SidecarAnswers, SidecarCut, Finish
  <1>8. CASE SidecarNext
    BY <1>1, <1>8 DEF SidecarNext, GiveUp, Mark, Press, Confirm, OrphanEnds, TypeOK, InHand
  <1>9. CASE ReplayNext
    BY <1>1, <1>4, <1>9 DEF ReplayNext, Look, ReplayNothing, ReplayRow, ReplayPhase,
       ReplayDiscard, ReplayFinalize
  <1> QED
    BY <1>1, <1>5, <1>6, <1>7, <1>8, <1>9 DEF Next, RestartRecovery, Crash, vars

Presses == \E shows \in BOOLEAN : Press(shows)

(* Only the key press shows a reply to the customer.                       *)
LEMMA ShownStep ==
  ASSUME TypeOK, InHand, [Next]_vars, NEW r \in Replies
  PROVE shown'[r] = shown[r] \/ (Presses /\ r = sidecar.reply)
  <1> USE DEF server, client, wechat
  <1>1. CASE UNCHANGED shown
    BY <1>1
  <1>2. CASE Presses
    BY <1>2 DEF Presses, Press, TypeOK, InHand
  <1>3. CASE ServerNext
    BY <1>1, <1>3 DEF ServerNext, Invalidate, FindQueued, Withdraw,
       Generate, CancelTask, LeaseRunsOut, RecoverStale
  <1>4. CASE StartNext
    BY <1>1, <1>4 DEF StartNext, StartRead, PullExpired, PullRunning, PullPending
  <1>5. CASE SenderNext
    BY <1>1, <1>5
    DEF SenderNext, ReadNothing, ReplyReady, Replaced, RefreshFails, Refreshed, Stops,
        FailCall, ClaimTask, ClaimSend, SaveIntent, Reconcile, CheckFails, StartSidecar,
        SidecarAnswers, SidecarCut, SenderAck, Finish
  <1>6. CASE SidecarNext
    BY <1>1, <1>2, <1>6 DEF SidecarNext, GiveUp, Mark, Confirm, OrphanEnds, Presses
  <1>7. CASE ReplayNext
    BY <1>1, <1>7 DEF ReplayNext, Look, ReplayNothing, ReplayRow, ReplayPhase, ReplayDiscard,
       ReplayFinalize, ReplayAck
  <1> QED
    BY <1>1, <1>3, <1>4, <1>5, <1>6, <1>7 DEF Next, RestartRecovery, Crash, vars

(* The sidecar passes from one phase of a send to the next.                *)
LEMMA SidecarStep ==
  ASSUME TypeOK, InHand, [Next]_vars
  PROVE \/ UNCHANGED sidecar \/ StartSidecar
        \/ Mark /\ sidecar'.at = "marked" /\ sidecar'.reply = sidecar.reply
        \/ Presses /\ sidecar'.at \in {"pressed", "done"} /\ sidecar'.reply = sidecar.reply
        \/ sidecar'.at \in {"idle", "done"}
  <1> USE DEF server, client, wechat
  <1>1. CASE ServerNext
    BY <1>1 DEF ServerNext, Invalidate, FindQueued, Withdraw,
       Generate, CancelTask, LeaseRunsOut, RecoverStale
  <1>2. CASE StartNext
    BY <1>2 DEF StartNext, StartRead, PullExpired, PullRunning, PullPending
  <1>3. CASE SenderNext
    <2>1. CASE SidecarAnswers \/ SidecarCut
      BY <2>1 DEF SidecarAnswers, SidecarCut, Stopped
    <2> QED
      BY <1>3, <2>1
      DEF SenderNext, ReadNothing, ReplyReady, Replaced, RefreshFails, Refreshed, Stops,
          FailCall, ClaimTask, ClaimSend, SaveIntent, Reconcile, CheckFails, SenderAck, Finish
  <1>4. CASE Mark
    BY <1>4 DEF Mark, TypeOK, Sidecars
  <1>5. CASE Presses
    BY <1>5 DEF Presses, Press, TypeOK, Sidecars
  <1>6. CASE SidecarNext
    BY <1>4, <1>5, <1>6 DEF SidecarNext, GiveUp, Confirm, OrphanEnds, Presses, Stopped,
       TypeOK, Sidecars
  <1>7. CASE ReplayNext
    BY <1>7 DEF ReplayNext, Look, ReplayNothing, ReplayRow, ReplayPhase, ReplayDiscard,
       ReplayFinalize, ReplayAck
  <1> QED
    BY <1>1, <1>2, <1>3, <1>6, <1>7 DEF Next, RestartRecovery, Crash, Stopped, vars

(* Every step keeps Journaled.                                             *)
LEMMA JournaledStep ==
  ASSUME TypeOK, InHand, Session, Journaled, [Next]_vars PROVE Journaled'
  <1>1. ASSUME NEW r \in Replies, journal[r] # "not_attempted" \/ r \in acked
        PROVE journal'[r] # "not_attempted" \/ r \in acked'
    BY <1>1, JournalStep, AckedStays
  <1>2. ASSUME NEW r \in Replies, shown'[r] > 0
        PROVE journal'[r] # "not_attempted" \/ r \in acked'
    BY <1>1, <1>2, ShownStep DEF Journaled, Presses, Press
  <1>3. ASSUME sidecar'.at \in {"marked", "pressed"}
        PROVE journal'[sidecar'.reply] # "not_attempted" \/ sidecar'.reply \in acked'
    <2>1. CASE UNCHANGED sidecar
      BY <1>1, <1>3, <2>1 DEF Journaled, InHand
    <2>2. CASE Mark /\ sidecar'.reply = sidecar.reply
      BY <2>2 DEF Mark, TypeOK, InHand
    <2>3. CASE Presses /\ sidecar'.reply = sidecar.reply
      BY <1>1, <2>3 DEF Presses, Press, Journaled, InHand
    <2>4. CASE StartSidecar
      BY <1>3, <2>4 DEF StartSidecar
    <2> QED
      BY <1>3, <2>1, <2>2, <2>3, <2>4, SidecarStep
  <1> QED
    BY <1>2, <1>3 DEF Journaled

(* A reply becomes denied only at the end of a send without a key press.   *)
LEMMA DeniedStep ==
  ASSUME TypeOK, InHand, Written, [Next]_vars, NEW r \in Replies, Denied(r)', ~Denied(r)
  PROVE /\ Settles /\ r = sender.reply
        /\ CheckFails \/ journal[r] = "not_attempted"
  <1> USE DEF server, client, wechat
  <1>1. CASE outbox'[r].result = "failed"
    <2>1. RowMoves(r)
      BY RowStep
    <2>2. ~(ReplayFinalize /\ r = replay.reply /\ replay.result = "failed")
      BY DEF Denied
    <2> QED
      BY <1>1, <2>1, <2>2, SettleMoves DEF RowMoves, Denied, NoRow, Open
  <1>2. CASE sender'.at = "ack" /\ sender'.reply = r /\ sender'.result = "failed"
    <2>1. CASE UNCHANGED sender
      BY <1>2, <2>1 DEF Denied
    <2>2. CASE Settles
      BY <1>2, <2>2, SettleMoves DEF Denied
    <2> QED
      BY <1>2, <2>1, <2>2, SenderAcks
  <1>3. CASE replay'.reply = r /\ replay'.result = "failed"
    <2>1. CASE UNCHANGED replay
      BY <1>3, <2>1 DEF Denied
    <2>2. CASE replay' = NoReplay
      BY <1>3, <2>2 DEF NoReplay
    <2>3. CASE \E th \in Threads, q \in Replies : ReplayRow(th, q)
      BY <1>3, <2>3 DEF ReplayRow, Denied
    <2>4. CASE ReplayPhase
      <3>1. replay.reply \in Replies /\ journal[replay.reply] \in Phases
        BY <2>4 DEF ReplayPhase, InHand, TypeOK
      <3> QED
        BY <1>3, <2>4, <3>1 DEF ReplayPhase, ResultOf, Phases, Written, TypeOK, Passes
    <2>5. CASE ReplayFinalize
      BY <1>3, <2>5 DEF ReplayFinalize, NoReplay, Denied, TypeOK, Passes
    <2> QED
      BY <2>1, <2>2, <2>3, <2>4, <2>5, ReplayStep
  <1> QED
    BY <1>1, <1>2, <1>3 DEF Denied

(* A thread at the intent or the check of a send has just claimed it, or   *)
(* was there before.                                                       *)
LEMMA SenderClaims ==
  ASSUME TypeOK, InHand, [Next]_vars, sender'.at \in {"intent", "check"}
  PROVE \/ UNCHANGED sender
        \/ /\ SaveIntent /\ sender'.reply = sender.reply /\ sender'.dup = sender.dup
           /\ sender'.running = sender.running
        \/ /\ sender.at = "claimSend" /\ sender'.reply = sender.reply
           /\ sender'.running = sender.running
           /\ action[sender.reply] \in {"queued", "sending"}
           /\ sender'.dup <=> action[sender.reply] = "sending"
           /\ action' = [action EXCEPT ![sender.reply] = "sending"]
           /\ UNCHANGED <<acked, shown, outbox, replay>>
  <1> USE DEF server, client, wechat
  <1>1. CASE ServerNext
    BY <1>1 DEF ServerNext, Invalidate, FindQueued, Withdraw,
       Generate, CancelTask, LeaseRunsOut, RecoverStale
  <1>2. CASE StartNext
    BY <1>2 DEF StartNext, StartRead, PullExpired, PullRunning, PullPending, Begin, AtHome
  <1>3. CASE SenderNext
    <2>1. CASE \E fate \in Fates, granted \in BOOLEAN : ClaimTask(fate, granted)
      BY <2>1 DEF ClaimTask, TypeOK, Senders
    <2>2. ASSUME NEW fate \in Fates, NEW granted \in BOOLEAN, ClaimSend(fate, granted)
          PROVE /\ sender.at = "claimSend" /\ sender'.reply = sender.reply
                /\ sender'.running = sender.running
                /\ action[sender.reply] \in {"queued", "sending"}
                /\ sender'.dup <=> action[sender.reply] = "sending"
                /\ action' = [action EXCEPT ![sender.reply] = "sending"]
                /\ UNCHANGED <<acked, shown, outbox, replay>>
      <3>1. fate = "answered" /\ granted
        BY <2>2 DEF ClaimSend, TypeOK, Senders
      <3>2. /\ sender'.reply = sender.reply /\ sender'.running = sender.running
            /\ sender'.dup <=> action[sender.reply] = "sending"
        BY <2>2 DEF ClaimSend, TypeOK, Senders
      <3> QED
        BY <2>2, <3>1, <3>2 DEF ClaimSend, Arrives
    <2>3. CASE \E fate \in Fates : FailCall(fate) \/ SenderAck(fate)
      BY <2>3 DEF FailCall, SenderAck, TypeOK, Senders
    <2>4. CASE \E r \in Replies : ReplyReady(r) \/ Replaced(r)
      BY <2>4 DEF ReplyReady, Replaced, TypeOK, Senders
    <2>5. CASE Reconcile \/ CheckFails \/ SidecarAnswers \/ SidecarCut
      BY <2>5, SettleMoves DEF Settles
    <2>6. CASE SaveIntent
      BY <2>6 DEF SaveIntent, TypeOK, Senders
    <2> QED
      BY <1>3, <2>1, <2>2, <2>3, <2>4, <2>5, <2>6
      DEF SenderNext, ReadNothing, RefreshFails, Refreshed, Stops, StartSidecar, Finish,
          AtHome, TypeOK, Senders
  <1>4. CASE SidecarNext
    BY <1>4 DEF SidecarNext, GiveUp, Mark, Press, Confirm, OrphanEnds
  <1>5. CASE ReplayNext
    BY <1>5 DEF ReplayNext, Look, ReplayNothing, ReplayRow, ReplayPhase, ReplayDiscard,
       ReplayFinalize, ReplayAck
  <1> QED
    BY <1>1, <1>2, <1>3, <1>4, <1>5 DEF Next, RestartRecovery, Crash, AtHome, vars

SettleInv ==
    /\ ReplyInv /\ Session /\ OneOpen /\ Written /\ AckedIsOver /\ UndoneIsFound
    /\ Journaled /\ Claimed /\ DeniedIsUnsent /\ OnlyWithdrawalDenies

(* What may be sent may be sent on, unless its send just ended unsent.     *)
LEMMA ClaimableStep ==
  ASSUME SettleInv, [Next]_vars, NEW r \in Replies, Claimable(r),
         ~(Settles /\ r = sender.reply)
  PROVE Claimable(r)'
  <1>1. Denied(r)' => r \in acked'
    BY DeniedStep, AckedStays DEF SettleInv, ReplyInv, Claimable
  <1>2. action'[r] \in {"sending", "sent", "unknown", "undone"}
    <2>1. ASSUME NEW result, Attempts(r, result), r \notin acked
          PROVE result \in {"sent", "unknown"}
      BY <2>1, AttemptsResult DEF SettleInv, ReplyInv, Claimable, Over
    <2> QED
      BY <2>1, ActionStep DEF ActionMoves, SettleInv, ReplyInv, Claimable
  <1> QED
    BY <1>1, <1>2 DEF Claimable

(* Every step keeps Claimed.                                               *)
LEMMA ClaimedStep ==
  ASSUME SettleInv, [Next]_vars PROVE Claimed'
  <1> USE DEF SettleInv, ReplyInv
  <1>1. ASSUME sidecar'.at \in {"ready", "marked"} PROVE Claimable(sidecar.reply)'
    <2>1. CASE (UNCHANGED sidecar \/ Mark) /\ sidecar'.reply = sidecar.reply
      <3>1. Claimable(sidecar.reply) /\ sidecar.reply \in Replies
        BY <1>1, <2>1 DEF Mark, Claimed, InHand
      <3>2. ~Settles
        BY <1>1, <2>1 DEF Settles, Reconcile, CheckFails, SidecarAnswers, SidecarCut, Mark,
           Session, Stopped
      <3> QED
        BY <2>1, <3>1, <3>2, ClaimableStep
    <2>2. CASE StartSidecar
      <3>1. sidecar'.reply = sender.reply /\ Claimable(sender.reply) /\ sender.reply \in Replies
        BY <2>2 DEF StartSidecar, Claimed, InHand
      <3>2. ~Settles
        BY <1>1, <2>2 DEF StartSidecar, Settles, Reconcile, CheckFails, SidecarAnswers,
           SidecarCut, wechat, Session
      <3> QED
        BY <3>1, <3>2, ClaimableStep
    <2> QED
      BY <1>1, <2>1, <2>2, SidecarStep
  <1>2. ASSUME sender'.at \in {"intent", "check"}
        PROVE /\ Claimable(sender.reply)'
              /\ ~sender'.dup => shown'[sender'.reply] = 0
    <2> DEFINE q == sender.reply
    <2>1. ~Settles
      BY <1>2, SettleMoves
    <2>2. CASE /\ sender.at \in {"intent", "check"}
               /\ sender'.reply = q /\ sender'.dup = sender.dup
      <3>1. q \in Replies /\ Claimable(q) /\ (~sender.dup => shown[q] = 0)
        BY <2>2 DEF Claimed, InHand
      <3>2. ~Presses
        BY <2>2 DEF Presses, Press, Session
      <3> QED
        BY <2>1, <2>2, <3>1, <3>2, ClaimableStep, ShownStep
    <2>3. CASE /\ sender.at = "claimSend" /\ sender'.reply = q
               /\ action[q] \in {"queued", "sending"}
               /\ sender'.dup <=> action[q] = "sending"
               /\ action' = [action EXCEPT ![q] = "sending"]
               /\ UNCHANGED <<acked, shown, outbox, replay>>
      <3>1. q \in Replies /\ q \notin acked
        BY <2>3 DEF InHand, AckedIsOver, Ended, Over
      <3>2. outbox[q].at \notin Settled
        BY <2>3, <3>1 DEF Session, Open, Settled, ConfirmedIsAcked
      <3>3. ~Denied(q)
        <4>1. outbox[q].result = "none"
          BY <3>1, <3>2 DEF Written
        <4>2. replay.at \in {"idle", "phase", "discard", "finalize", "ack"}
          BY DEF TypeOK, Passes
        <4>3. replay.reply = q => replay.result # "failed"
          BY <3>2, <4>2 DEF Written
        <4> QED
          BY <2>3, <4>1, <4>3 DEF Denied
      <3>4. ~Denied(q)'
        BY <2>1, <2>3, <3>1, <3>3, DeniedStep
      <3>5. action[q] = "queued" => shown[q] = 0
        BY <3>1 DEF OnlyWithdrawalDenies, TypeOK
      <3> QED
        BY <2>3, <3>1, <3>4, <3>5 DEF Claimable, TypeOK
    <2> QED
      BY <1>2, <2>2, <2>3, SenderClaims DEF SaveIntent
  <1> QED
    BY <1>1, <1>2 DEF Claimed

(* Every step keeps DeniedIsUnsent: a send that ends in "failed" pressed   *)
(* no key, and no key is pressed for a reply that is denied.               *)
LEMMA DeniedIsUnsentStep ==
  ASSUME SettleInv, [Next]_vars PROVE DeniedIsUnsent'
  <1> USE DEF SettleInv, ReplyInv
  <1> SUFFICES ASSUME NEW r \in Replies, Denied(r)', r \notin acked' PROVE shown'[r] = 0
    BY DEF DeniedIsUnsent
  <1>1. r \notin acked
    BY AckedStays
  <1>2. CASE Denied(r)
    <2>1. shown[r] = 0
      BY <1>1, <1>2 DEF DeniedIsUnsent
    <2>2. ~(Presses /\ r = sidecar.reply)
      BY <1>1, <1>2 DEF Presses, Press, Claimed, Claimable
    <2> QED
      BY <2>1, <2>2, ShownStep
  <1>3. CASE ~Denied(r)
    <2>1. Settles /\ r = sender.reply /\ (CheckFails \/ journal[r] = "not_attempted")
      BY <1>3, DeniedStep
    <2>2. ~Presses
      BY <2>1 DEF Settles, Reconcile, CheckFails, SidecarAnswers, SidecarCut, Presses, Press,
         Session, wechat, Stopped
    <2>3. CASE journal[r] = "not_attempted"
      BY <1>1, <2>2, <2>3, ShownStep DEF Journaled, TypeOK
    <2>4. CASE CheckFails /\ journal[r] # "not_attempted"
      <3>1. ~sender.dup
        BY <2>1, <2>4 DEF CheckFails, Suppressed, TypeOK, Senders
      <3>2. shown[r] = 0
        BY <2>1, <2>4, <3>1 DEF CheckFails, Claimed
      <3> QED
        BY <2>2, <3>2, ShownStep
    <2> QED
      BY <2>1, <2>3, <2>4
  <1> QED
    BY <1>2, <1>3

(* Every step keeps OnlyWithdrawalDenies.                                  *)
LEMMA NotDeniedStep ==
  ASSUME SettleInv, UndoneIsFound', [Next]_vars PROVE OnlyWithdrawalDenies'
  <1> USE DEF SettleInv, ReplyInv
  <1> SUFFICES ASSUME NEW r \in Replies, shown'[r] > 0
               PROVE action'[r] \in {"sending", "sent", "unknown", "undone"}
    BY DEF OnlyWithdrawalDenies, UndoneIsFound
  <1>1. CASE shown[r] > 0
    <2>1. action[r] \in {"sending", "sent", "unknown", "undone"}
      BY <1>1 DEF OnlyWithdrawalDenies
    <2>2. ASSUME NEW result, Attempts(r, result), r \notin acked
          PROVE result \in {"sent", "unknown"}
      BY <1>1, <2>2, AttemptsResult DEF DeniedIsUnsent, Over
    <2> QED
      BY <2>1, <2>2, ActionStep DEF ActionMoves
  <1>2. CASE shown[r] = 0
    <2>1. Presses /\ r = sidecar.reply
      BY <1>2, ShownStep
    <2> QED
      BY <2>1 DEF Presses, Press, Claimed, Claimable, server
  <1> QED
    BY <1>1, <1>2 DEF TypeOK

(* SettleInv holds before any reply is queued.                             *)
LEMMA SettleInit ==
  ASSUME Init PROVE SettleInv
  <1>1. ReplyInv
    BY InvInit
  <1>2. Session /\ OneOpen /\ Written
    BY DEF Init, Session, OneOpen, Open, Written, Settled, NoRow, AtHome, Stopped, NoReplay
  <1>3. /\ AckedIsOver /\ UndoneIsFound /\ Journaled /\ Claimed /\ DeniedIsUnsent
        /\ OnlyWithdrawalDenies
    BY DEF Init, AckedIsOver, UndoneIsFound, Journaled, Claimed, DeniedIsUnsent,
       OnlyWithdrawalDenies, AtHome, Stopped
  <1> QED
    BY <1>1, <1>2, <1>3 DEF SettleInv

(* Every step keeps SettleInv.                                             *)
LEMMA SettleStep ==
  ASSUME SettleInv, [Next]_vars PROVE SettleInv'
  <1> USE DEF SettleInv, ReplyInv
  <1>1. ReplyInv'
    BY TypeStep, InHandStep, EvidenceStep, RecordedStep, ConfirmedStep
  <1>2. Session' /\ OneOpen' /\ Written' /\ AckedIsOver' /\ UndoneIsFound'
    BY SessionStep, OneOpenStep, WrittenStep, AckedIsOverStep, UndoneIsFoundStep
  <1>3. Journaled' /\ Claimed' /\ DeniedIsUnsent' /\ OnlyWithdrawalDenies'
    BY <1>2, JournaledStep, ClaimedStep, DeniedIsUnsentStep, NotDeniedStep
  <1> QED
    BY <1>1, <1>2, <1>3

(* The inductive invariant holds in every reachable state.                 *)
LEMMA SettleInvariant == Spec => []SettleInv
  BY SettleInit, SettleStep, PTL DEF Spec

(* OnlyWithdrawalDenies for any number of replies, losses and kills, and   *)
(* whichever threads list late: once the customer saw a reply, no refused  *)
(* claim, no failed check, no failed task, no timeout and no replayed      *)
(* record closes it as failed or void; the one that may is a withdrawal    *)
(* that had read it as queued.                                             *)
THEOREM OnlyWithdrawnIsDenied == Spec => []OnlyWithdrawalDenies
  <1>1. SettleInv => OnlyWithdrawalDenies
    BY DEF SettleInv
  <1> QED
    BY <1>1, SettleInvariant, PTL

(* OneUnsettledSend: the gate admits no second send whatever the barrier   *)
(* does meanwhile.                                                         *)
THEOREM UnsettledIsOne == Spec => []OneUnsettledSend
  <1>1. OneOpen => OneUnsettledSend
    <2> SUFFICES ASSUME OneOpen PROVE Cardinality(Open) <= 1
      BY DEF OneUnsettledSend
    <2>1. CASE Open = {}
      BY <2>1, FS_EmptySet
    <2>2. ASSUME NEW p \in Open PROVE Cardinality(Open) <= 1
      <3>1. Open = {p}
        BY <2>2 DEF OneOpen
      <3>2. Cardinality({p}) = 1
        BY FS_Singleton
      <3> QED
        BY <3>1, <3>2
    <2> QED
      BY <2>1, <2>2
  <1>2. SettleInv => OneOpen
    BY DEF SettleInv
  <1> QED
    BY <1>1, <1>2, SettleInvariant, PTL

-----------------------------------------------------------------------------
(* What may stop the settling: the safety half of SentIsSettled and        *)
(* OutboxDrains.                                                           *)

\* The server takes the result of every row that the barrier lists, or the
\* reply was withdrawn over its claim; its own recovery finds every send
\* that has no result yet.
ResultIsTaken ==
    \A r \in Replies : r \in Open =>
        AckAccepted(r) \/ (action[r] = "undone" /\ r \in found)
SendIsFound   == \A r \in Replies : action[r] = "sending" => r \notin acked

\* A row is of a reply whose send was claimed, and a verdict other than
\* "unknown" was reported.
RowIsClaimed  == \A r \in Replies : outbox[r].at # "none" => action[r] \in Ended \cup {"sending"}
VerdictIsAcked == \A r \in Replies : action[r] \in {"sent", "failed"} => r \in acked

(* Every step keeps RowIsClaimed and VerdictIsAcked.                       *)
LEMMA RowIsClaimedStep ==
  ASSUME SettleInv, RowIsClaimed, VerdictIsAcked, [Next]_vars
  PROVE RowIsClaimed' /\ VerdictIsAcked'
  <1> USE DEF SettleInv, ReplyInv
  <1>1. ASSUME NEW r \in Replies, action[r] \in Ended \cup {"sending"}
        PROVE action'[r] \in Ended \cup {"sending"}
    <2>1. \A result : Attempts(r, result) => result \in Over
      BY AttemptsResult
    <2> QED
      BY <1>1, <2>1, ActionStep DEF ActionMoves, Ended, Over
  <1>2. ASSUME NEW r \in Replies, outbox'[r].at # "none"
        PROVE action'[r] \in Ended \cup {"sending"}
    <2>1. CASE outbox[r].at # "none"
      BY <1>1, <2>1 DEF RowIsClaimed
    <2>2. CASE outbox[r].at = "none"
      <3>1. SaveIntent /\ r = sender.reply
        BY <1>2, <2>2, RowStep DEF RowMoves, Open
      <3>2. action[r] \in Ended \cup {"sending"}
        BY <3>1 DEF SaveIntent, Claimed, Claimable, Ended, Over
      <3> QED
        BY <1>1, <3>2
    <2> QED
      BY <2>1, <2>2
  <1>3. ASSUME NEW r \in Replies, action'[r] \in {"sent", "failed"} PROVE r \in acked'
    <2>1. CASE action'[r] = action[r]
      BY <1>3, <2>1, AckedStays DEF VerdictIsAcked
    <2>2. CASE action'[r] # action[r]
      BY <1>3, <2>2, ActionStep DEF ActionMoves
    <2> QED
      BY <2>1, <2>2
  <1> QED
    BY <1>2, <1>3 DEF RowIsClaimed, VerdictIsAcked

(* A result on disk is refused only of a reply that a withdrawal wrote     *)
(* over after it was claimed, and no send is passed over by the recovery   *)
(* of the server: else the barrier, which asks again and again, and the    *)
(* recovery loop can always end what they began (sent_ack,                 *)
(* recover_stale_sending_reply_action).  That they do is fairness.         *)
THEOREM OnlyWithdrawnIsRefused == Spec => [](ResultIsTaken /\ SendIsFound)
  <1>1. Init => RowIsClaimed /\ VerdictIsAcked
    BY DEF Init, RowIsClaimed, VerdictIsAcked, NoRow
  <1>2. SettleInv /\ RowIsClaimed /\ VerdictIsAcked /\ [Next]_vars
          => RowIsClaimed' /\ VerdictIsAcked'
    BY RowIsClaimedStep
  <1>3. SettleInv /\ RowIsClaimed /\ VerdictIsAcked => ResultIsTaken
    BY DEF SettleInv, UndoneIsFound, RowIsClaimed, VerdictIsAcked, ResultIsTaken, Open,
           AckAccepted, Ended, Over
  <1>4. SettleInv => SendIsFound
    BY DEF SettleInv, ReplyInv, TypeOK, AckedIsOver, Ended, Over, SendIsFound
  <1> QED
    BY SettleInvariant, <1>1, <1>2, <1>3, <1>4, PTL DEF Spec

-----------------------------------------------------------------------------
(* No reply reaches the customer twice.                                    *)

\* Only the task loop goes on with a task that already runs, and while it
\* does it neither looks at the UI nor lists the outbox.
Runs ==
    sender.running => /\ sender.at # "home" /\ flow.of # Read
                      /\ "task" \notin looked /\ replay.by # "task"

\* Only such a task can have claimed its send before.
ClaimedBefore ==
    \/ sender.at = "claimSend" /\ action[sender.reply] = "sending"
    \/ sender.at \in {"intent", "check"} /\ sender.dup

Repeated == ClaimedBefore => sender.running

PassHasRow == replay.at # "idle" => outbox[replay.reply].at # "none"

\* A send that may be a repetition is neither acked nor in the hands of the
\* barrier, so that its journal says whether the key was pressed; a C2 loop
\* that lists late may take its record away.
RepeatedAlone ==
    "c2" \notin Stale /\ sender.at \in {"intent", "check"} /\ sender.dup =>
        /\ sender.reply \notin acked
        /\ replay.at # "idle" => replay.reply # sender.reply

\* The customer has seen this reply once, and the record of that was settled
\* behind the back of the thread that repeats the send.
Forgotten(r) == shown[r] = 1 /\ r \in acked /\ "c2" \in Stale

Unpressed ==
    /\ sidecar.at \in {"ready", "marked"} =>
          shown[sidecar.reply] = 0 \/ Forgotten(sidecar.reply)
    /\ sender.at \in {"intent", "check"} => shown[sender.reply] <= 1

\* A reply is sent twice only after its result is on the server, never a
\* third time, and not at all if the C2 loop lists when it looks.
PressedAgainWhenAcked ==
    \A r \in Replies :
        shown[r] <= 1 \/ (shown[r] = 2 /\ r \in acked /\ "c2" \in Stale)

OnceInv ==
    /\ SettleInv /\ Runs /\ Repeated /\ PassHasRow /\ RepeatedAlone /\ Unpressed
    /\ PressedAgainWhenAcked

(* A pass that goes on is of the same thread and the same reply.           *)
LEMMA PassGoesOn ==
  ASSUME TypeOK, ReplayPhase \/ ReplayFinalize
  PROVE replay' = NoReplay \/ /\ replay.at # "idle" /\ replay'.reply = replay.reply
                              /\ replay'.by = replay.by
  <1>1. replay = [at |-> replay.at, by |-> replay.by, reply |-> replay.reply,
                  result |-> replay.result]
    BY DEF TypeOK, Passes
  <1>2. CASE ReplayPhase
    <2>1. replay.at = "phase"
      BY <1>2 DEF ReplayPhase
    <2>2. \E result :
             \/ replay' = [replay EXCEPT !.at = "discard"]
             \/ replay' = [replay EXCEPT !.at = "finalize", !.result = result]
      BY <1>2, Zenon DEF ReplayPhase
    <2> QED
      BY <1>1, <2>1, <2>2
  <1>3. CASE ReplayFinalize
    <2>1. /\ replay.at = "finalize"
          /\ replay' = NoReplay \/ replay' = [replay EXCEPT !.at = "ack"]
      BY <1>3, Zenon DEF ReplayFinalize
    <2> QED
      BY <1>1, <2>1
  <1> QED
    BY <1>2, <1>3

(* Every step keeps Runs.                                                  *)
LEMMA RunsStep ==
  ASSUME TypeOK, InHand, Runs, [Next]_vars PROVE Runs'
  <1> USE DEF server, client, wechat
  <1>1. CASE ~sender'.running
    BY <1>1 DEF Runs
  <1>2. CASE UNCHANGED <<sender, flow, looked, replay>>
    BY <1>2 DEF Runs
  <1>3. ASSUME UNCHANGED <<flow, looked, replay>>, sender'.running => sender.running,
               sender'.at # "home"
        PROVE Runs'
    BY <1>3 DEF Runs
  <1>4. CASE ServerNext
    BY <1>2, <1>4 DEF ServerNext, Invalidate, FindQueued, Withdraw,
       Generate, CancelTask, LeaseRunsOut, RecoverStale
  <1>5. CASE StartNext
    <2>1. CASE \E r \in Replies : PullExpired(r)
      BY <1>2, <2>1 DEF PullExpired
    <2>2. CASE StartRead \/ \E r \in Replies : PullPending(r)
      <3>1. ~sender'.running
        BY <2>2 DEF StartRead, PullPending, Begin, AtHome
      <3> QED
        BY <1>1, <3>1
    <2>3. ASSUME NEW r \in Replies, PullRunning(r) PROVE Runs'
      <3>1. r # Read
        BY ReplySendAssumption
      <3>2. "task" \notin looked /\ replay.by # "task"
        BY <2>3, <3>1 DEF PullRunning, Begin, MayStart, Busy
      <3>3. flow'.of = r /\ sender'.at = "refresh" /\ UNCHANGED <<looked, replay>>
        BY <2>3 DEF PullRunning, Begin, NoFlow, AtHome
      <3> QED
        BY <3>1, <3>2, <3>3 DEF Runs
    <2> QED
      BY <1>5, <2>1, <2>2, <2>3 DEF StartNext
  <1>6. CASE SenderNext
    <2>1. CASE Finish
      BY <1>1, <2>1 DEF Finish, AtHome
    <2>2. CASE Settles
      <3>1. sender'.at # "home"
        BY <2>2, SettleMoves
      <3>2. UNCHANGED <<flow, looked, replay>> /\ sender'.running = sender.running
        BY <2>2 DEF Settles, Reconcile, CheckFails, SidecarAnswers, SidecarCut, Settle,
           TypeOK, Senders
      <3> QED
        BY <1>3, <3>1, <3>2
    <2>3. CASE \E r \in Replies : ReplyReady(r) \/ Replaced(r)
      BY <1>3, <2>3 DEF ReplyReady, Replaced, TypeOK, Senders
    <2>4. CASE \E fate \in Fates : FailCall(fate) \/ SenderAck(fate)
      BY <1>3, <2>4 DEF FailCall, SenderAck, TypeOK, Senders
    <2>5. CASE \E fate \in Fates, granted \in BOOLEAN :
                  ClaimTask(fate, granted) \/ ClaimSend(fate, granted)
      BY <1>3, <2>5 DEF ClaimTask, ClaimSend, TypeOK, Senders
    <2>6. CASE ReadNothing \/ RefreshFails \/ Refreshed \/ Stops
      BY <1>3, <2>6 DEF ReadNothing, RefreshFails, Refreshed, Stops, TypeOK, Senders
    <2>7. CASE SaveIntent \/ StartSidecar
      BY <1>3, <2>7 DEF SaveIntent, StartSidecar, TypeOK, Senders
    <2> QED
      BY <1>6, <2>1, <2>2, <2>3, <2>4, <2>5, <2>6, <2>7 DEF SenderNext, Settles
  <1>7. CASE SidecarNext
    BY <1>2, <1>7 DEF SidecarNext, GiveUp, Mark, Press, Confirm, OrphanEnds
  <1>8. CASE ReplayNext
    <2>1. sender.running => Busy("task")
      BY DEF Runs, Busy
    <2>2. UNCHANGED <<sender, flow>>
      BY <1>8 DEF ReplayNext, Look, ReplayNothing, ReplayRow, ReplayPhase, ReplayDiscard,
         ReplayFinalize, ReplayAck
    <2>3. sender.running => "task" \notin looked'
      BY <1>8, <2>1 DEF ReplayNext, Look, ReplayNothing, ReplayRow, Lists, ReplayPhase,
         ReplayDiscard, ReplayFinalize, ReplayAck, Runs
    <2>4. sender.running => replay'.by # "task"
      <3>1. CASE \E th \in Threads, r \in Replies : ReplayRow(th, r)
        BY <2>1, <3>1 DEF ReplayRow, Lists, Runs
      <3>2. CASE UNCHANGED replay \/ replay' = NoReplay
        BY <3>2 DEF Runs, NoReplay
      <3>3. CASE ReplayPhase \/ ReplayFinalize
        BY <3>3, PassGoesOn DEF Runs, NoReplay
      <3> QED
        BY <3>1, <3>2, <3>3, ReplayStep
    <2> QED
      BY <2>2, <2>3, <2>4 DEF Runs
  <1>9. CASE RestartRecovery
    BY <1>1, <1>9 DEF RestartRecovery, Runs
  <1>10. ASSUME NEW bit \in BOOLEAN, Crash(bit) PROVE Runs'
    BY <1>1, <1>10 DEF Crash, AtHome
  <1> QED
    BY <1>2, <1>4, <1>5, <1>6, <1>7, <1>8, <1>9, <1>10 DEF Next, vars

(* A send is claimed for the first time unless its task already ran.       *)
LEMMA FirstClaimStep ==
  ASSUME TypeOK, InHand, Repeated, [Next]_vars, sender'.at = "claimSend",
         action'[sender'.reply] = "sending"
  PROVE sender'.running
  <1> USE DEF server, client, wechat
  <1>1. ASSUME UNCHANGED sender, action[sender.reply] = "sending" PROVE sender'.running
    BY <1>1 DEF Repeated, ClaimedBefore
  <1>2. UNCHANGED sender => sender.reply \in Replies
    BY DEF InHand
  <1>3. CASE UNCHANGED <<sender, action>>
    BY <1>1, <1>3
  <1>4. CASE ServerNext
    BY <1>1, <1>2, <1>4 DEF ServerNext, Invalidate, FindQueued, Withdraw,
       Generate, CancelTask, LeaseRunsOut,
       RecoverStale, Void, TypeOK
  <1>5. CASE StartNext
    BY <1>5 DEF StartNext, StartRead, PullExpired, PullRunning, PullPending, Begin, MayStart,
       AtHome
  <1>6. CASE SenderNext
    <2>1. CASE Refreshed
      BY <2>1 DEF Refreshed, TypeOK, Senders
    <2>2. ASSUME NEW fate \in Fates, NEW granted \in BOOLEAN, ClaimTask(fate, granted)
          PROVE FALSE
      <3>1. granted /\ sender'.reply = sender.reply /\ action' = action
        BY <2>2 DEF ClaimTask, TypeOK, Senders
      <3> QED
        BY <2>2, <3>1 DEF ClaimTask
    <2>3. CASE \E fate \in Fates, granted \in BOOLEAN : ClaimSend(fate, granted)
      BY <2>3 DEF ClaimSend, TypeOK, Senders
    <2>4. CASE \E fate \in Fates : FailCall(fate) \/ SenderAck(fate)
      BY <2>4 DEF FailCall, SenderAck, TypeOK, Senders
    <2>5. CASE \E r \in Replies : ReplyReady(r) \/ Replaced(r)
      BY <2>5 DEF ReplyReady, Replaced, TypeOK, Senders
    <2>6. CASE Settles
      BY <2>6, SettleMoves
    <2> QED
      BY <1>6, <2>1, <2>2, <2>3, <2>4, <2>5, <2>6
      DEF SenderNext, ReadNothing, RefreshFails, Stops, SaveIntent, StartSidecar, Finish,
          AtHome, Settles, TypeOK, Senders
  <1>7. CASE SidecarNext
    BY <1>3, <1>7 DEF SidecarNext, GiveUp, Mark, Press, Confirm, OrphanEnds
  <1>8. CASE ReplayNext
    <2>1. ASSUME NEW fate \in Fates, ReplayAck(fate) PROVE sender'.running
      <3>1. replay.reply \in Replies /\ replay.result \in Results /\ UNCHANGED sender
        BY <2>1 DEF ReplayAck, InHand, TypeOK, Passes
      <3>2. action'[sender.reply] = "sending" => action[sender.reply] = "sending"
        BY <1>2, <2>1, <3>1 DEF ReplayAck, Attempt, Record, TypeOK, Results
      <3> QED
        BY <1>1, <3>1, <3>2
    <2> QED
      BY <1>3, <1>8, <2>1 DEF ReplayNext, Look, ReplayNothing, ReplayRow, ReplayPhase,
         ReplayDiscard, ReplayFinalize
  <1> QED
    BY <1>3, <1>4, <1>5, <1>6, <1>7, <1>8 DEF Next, RestartRecovery, Crash, AtHome, vars

(* Every step keeps Repeated.                                              *)
LEMMA RepeatedStep ==
  ASSUME TypeOK, InHand, Repeated, [Next]_vars PROVE Repeated'
  <1>1. ASSUME sender'.at \in {"intent", "check"}, sender'.dup PROVE sender'.running
    BY <1>1, SenderClaims DEF Repeated, ClaimedBefore, SaveIntent
  <1> QED
    BY <1>1, FirstClaimStep DEF Repeated, ClaimedBefore

(* Every step keeps PassHasRow: a row goes only with the pass on it.       *)
LEMMA PassHasRowStep ==
  ASSUME TypeOK, InHand, PassHasRow, [Next]_vars PROVE PassHasRow'
  <1> SUFFICES ASSUME replay'.at # "idle" PROVE outbox'[replay'.reply].at # "none"
    BY DEF PassHasRow
  <1>1. CASE UNCHANGED replay
    <2>1. replay.reply \in Replies /\ outbox[replay.reply].at # "none"
      BY <1>1 DEF InHand, PassHasRow
    <2>2. ~ReplayDiscard
      BY <1>1 DEF ReplayDiscard, NoReplay
    <2> QED
      BY <1>1, <2>1, <2>2, RowStep DEF RowMoves
  <1>2. CASE \E th \in Threads, r \in Replies : ReplayRow(th, r)
    BY <1>2 DEF ReplayRow, Open
  <1>3. CASE ReplayPhase
    BY <1>3 DEF ReplayPhase, PassHasRow, TypeOK, Passes
  <1>4. CASE ReplayFinalize
    BY <1>4 DEF ReplayFinalize, Finalize, PassHasRow, InHand, NoReplay, TypeOK, Passes
  <1> QED
    BY <1>1, <1>2, <1>3, <1>4, ReplayStep DEF NoReplay

(* Every step keeps RepeatedAlone.                                         *)
LEMMA RepeatedAloneStep ==
  ASSUME OnceInv, [Next]_vars PROVE RepeatedAlone'
  <1> USE DEF OnceInv, SettleInv, ReplyInv
  <1> DEFINE q == sender.reply
  <1> SUFFICES ASSUME "c2" \notin Stale, sender'.at \in {"intent", "check"}, sender'.dup
               PROVE /\ sender'.reply \notin acked'
                     /\ replay'.at # "idle" => replay'.reply # sender'.reply
    BY DEF RepeatedAlone
  <1>1. CASE /\ sender.at \in {"intent", "check"} /\ sender.dup /\ sender'.reply = q
    <2>1. /\ q \in Replies /\ q \notin acked /\ sender.running
          /\ replay.at # "idle" => replay.reply # q
      BY <1>1 DEF InHand, RepeatedAlone, Repeated, ClaimedBefore
    <2>2. \A result : ~Attempts(q, result)
      BY <1>1, <2>1 DEF Attempts, SenderAck, ReplayAck
    <2>3. q \notin acked'
      BY <2>1, <2>2, AckedStep
    <2>4. ASSUME NEW th \in Threads, NEW r \in Replies, ReplayRow(th, r) PROVE FALSE
      BY <1>1, <2>1, <2>4 DEF ReplayRow, Lists, UiFree, Runs, Threads
    <2>5. replay'.at # "idle" => replay'.reply # q
      <3>1. CASE UNCHANGED replay \/ replay' = NoReplay
        BY <2>1, <3>1 DEF NoReplay
      <3>2. CASE ReplayPhase \/ ReplayFinalize
        BY <2>1, <3>2, PassGoesOn DEF NoReplay
      <3> QED
        BY <2>4, <3>1, <3>2, ReplayStep
    <2> QED
      BY <1>1, <2>3, <2>5
  <1>2. CASE /\ sender.at = "claimSend" /\ sender'.reply = q
             /\ action[q] = "sending" /\ UNCHANGED <<acked, outbox, replay>>
    <2>1. q \in Replies /\ q \notin acked
      BY <1>2 DEF InHand, AckedIsOver, Ended, Over
    <2>2. outbox[q].at = "none"
      BY <1>2, <2>1 DEF Session, Open, ConfirmedIsAcked, TypeOK, Rows
    <2> QED
      BY <1>2, <2>1, <2>2 DEF PassHasRow
  <1> QED
    BY <1>1, <1>2, SenderClaims DEF SaveIntent

(* Every step keeps Unpressed: the key is pressed for a reply the customer *)
(* has not seen, or whose journal went with its settled record.            *)
LEMMA UnpressedStep ==
  ASSUME OnceInv, [Next]_vars PROVE Unpressed'
  <1> USE DEF OnceInv, SettleInv, ReplyInv
  <1>1. ASSUME sidecar'.at \in {"ready", "marked"}
        PROVE (shown[sidecar.reply] = 0 \/ Forgotten(sidecar.reply))'
    <2>1. ASSUME NEW r \in Replies, shown[r] = 0 \/ Forgotten(r), shown'[r] = shown[r]
          PROVE (shown[r] = 0 \/ Forgotten(r))'
      BY <2>1, AckedStays DEF Forgotten
    <2>2. CASE UNCHANGED sidecar
      <3>1. ~Presses
        BY <2>2 DEF Presses, Press, TypeOK, Sidecars
      <3> QED
        BY <1>1, <2>1, <2>2, <3>1, ShownStep DEF Unpressed, InHand
    <2>3. CASE Mark /\ sidecar'.reply = sidecar.reply
      <3>1. sidecar.at = "ready" /\ UNCHANGED shown
        BY <2>3 DEF Mark
      <3> QED
        BY <2>1, <2>3, <3>1 DEF Unpressed, InHand
    <2>4. CASE StartSidecar
      <3>1. /\ sender.at = "check" /\ ~Suppressed /\ sidecar'.reply = sender.reply
            /\ sender.reply \in Replies /\ UNCHANGED shown
        BY <2>4 DEF StartSidecar, InHand
      <3>2. CASE ~sender.dup
        BY <2>1, <3>1, <3>2 DEF Claimed
      <3>3. CASE sender.dup /\ shown[sender.reply] = 0
        BY <2>1, <3>1, <3>3
      <3>4. CASE sender.dup /\ shown[sender.reply] # 0
        <4>1. shown[sender.reply] = 1
          BY <3>1, <3>4 DEF Unpressed, TypeOK
        <4>2. journal[sender.reply] = "not_attempted"
          BY <3>1, <3>4 DEF Suppressed
        <4>3. sender.reply \in acked
          BY <3>1, <4>1, <4>2 DEF Journaled
        <4>4. "c2" \in Stale
          BY <3>1, <3>4, <4>3 DEF RepeatedAlone
        <4> QED
          BY <2>1, <3>1, <4>1, <4>3, <4>4 DEF Forgotten
      <3> QED
        BY <3>2, <3>3, <3>4 DEF TypeOK, Senders
    <2> QED
      BY <1>1, <2>2, <2>3, <2>4, SidecarStep
  <1>2. ASSUME sender'.at \in {"intent", "check"} PROVE shown'[sender'.reply] <= 1
    <2> DEFINE q == sender.reply
    <2>1. CASE sender.at \in {"intent", "check"} /\ sender'.reply = q
      <3>1. q \in Replies /\ shown[q] <= 1 /\ ~Presses
        BY <2>1 DEF Unpressed, InHand, Presses, Press, Session
      <3> QED
        BY <2>1, <3>1, ShownStep
    <2>2. CASE /\ sender.at = "claimSend" /\ sender'.reply = q
               /\ action[q] \in {"queued", "sending"} /\ UNCHANGED shown
      <3>1. q \in Replies /\ q \notin acked
        BY <2>2 DEF InHand, AckedIsOver, Ended, Over
      <3> QED
        BY <2>2, <3>1 DEF PressedAgainWhenAcked
    <2> QED
      BY <1>2, <2>1, <2>2, SenderClaims DEF SaveIntent
  <1> QED
    BY <1>1, <1>2 DEF Unpressed

(* Every step keeps PressedAgainWhenAcked.                                 *)
LEMMA OnceStep ==
  ASSUME OnceInv, [Next]_vars PROVE PressedAgainWhenAcked'
  <1> USE DEF OnceInv, SettleInv, ReplyInv
  <1> SUFFICES ASSUME NEW r \in Replies
               PROVE shown'[r] <= 1 \/ (shown'[r] = 2 /\ r \in acked' /\ "c2" \in Stale)
    BY DEF PressedAgainWhenAcked
  <1>1. CASE shown'[r] = shown[r]
    BY <1>1, AckedStays DEF PressedAgainWhenAcked
  <1>2. CASE Presses /\ r = sidecar.reply
    <2>1. shown[r] = 0 \/ Forgotten(r)
      BY <1>2 DEF Presses, Press, Unpressed
    <2>2. shown'[r] \in {shown[r], shown[r] + 1} /\ r \in Replies
      BY <1>2 DEF Presses, Press, TypeOK
    <2> QED
      BY <2>1, <2>2, AckedStays DEF Forgotten
  <1> QED
    BY <1>1, <1>2, ShownStep

(* OnceInv holds in every reachable state.                                 *)
LEMMA OnceInvariant == Spec => []OnceInv
  <1>1. Init => OnceInv
    <2> SUFFICES ASSUME Init PROVE OnceInv
      OBVIOUS
    <2>1. SettleInv
      BY SettleInit
    <2>2. /\ Runs /\ Repeated /\ PassHasRow /\ RepeatedAlone /\ Unpressed
          /\ PressedAgainWhenAcked
      BY DEF Init, Runs, Repeated, ClaimedBefore, PassHasRow, RepeatedAlone, Unpressed,
         PressedAgainWhenAcked, AtHome, Stopped, NoReplay
    <2> QED
      BY <2>1, <2>2 DEF OnceInv
  <1>2. OnceInv /\ [Next]_vars => OnceInv'
    BY SettleStep, RunsStep, RepeatedStep, PassHasRowStep, RepeatedAloneStep, UnpressedStep,
       OnceStep DEF OnceInv, SettleInv, ReplyInv
  <1> QED
    BY <1>1, <1>2, PTL DEF Spec

(* No reply is pressed a third time; a second press needs a C2 loop that   *)
(* lists the outbox long after it looked at the UI lock, and comes only    *)
(* when the server already has a result of the first.  So SentAtMostOnce   *)
(* holds for any number of replies, losses and kills of a client whose C2  *)
(* loop lists at once: a claim that is answered twice, a kill or a         *)
(* replayed record alone never press the key again (task_runner.py:10574). *)
THEOREM PressedOnce ==
    Spec => [](PressedAgainWhenAcked /\ ("c2" \notin Stale => SentAtMostOnce))
  <1>1. OnceInv => PressedAgainWhenAcked /\ ("c2" \notin Stale => SentAtMostOnce)
    BY DEF OnceInv, PressedAgainWhenAcked, SentAtMostOnce
  <1> QED
    BY <1>1, OnceInvariant, PTL

-----------------------------------------------------------------------------
(* ReplySend implements DeliveredOnce.                                     *)

\* The steps that change what is promised.
Voided(R, status) ==
    [r \in Replies |-> IF r \notin R THEN status[r]
                       ELSE IF status[r] \in {"queued", "void"} THEN "void" ELSE "undone"]

Replaces(r, R) ==
    /\ action[r] = "none" /\ R \subseteq found
    /\ action' = Voided(R, [action EXCEPT ![r] = "queued"])
    /\ UNCHANGED <<shown, found>>

Finds(r) ==
    /\ action[r] = "queued" /\ found' = found \cup {r}
    /\ UNCHANGED <<action, shown>>

Ends(r) ==
    /\ action[r] = "queued" \/ r \in found
    /\ action' = Voided({r}, action) /\ found' \in {found, found \cup {r}}
    /\ UNCHANGED shown

Turns(r, from, to) ==
    /\ action[r] = from /\ action' = [action EXCEPT ![r] = to]
    /\ UNCHANGED <<shown, found>>

Reports(r, result) ==
    Attempts(r, result) /\ Turns(r, "sending", result)

Shows ==
    /\ sidecar.at = "marked"
    /\ shown' = [shown EXCEPT ![sidecar.reply] = @ + 1]
    /\ UNCHANGED <<action, found>>

PromiseMoves ==
    \/ UNCHANGED <<action, shown, found>>
    \/ \E r \in Replies :
          \/ \E R \in SUBSET found : Replaces(r, R)
          \/ Finds(r) \/ Ends(r)
          \/ Turns(r, "queued", "sending") \/ Turns(r, "sending", "unknown")
          \/ \E result \in Over : Reports(r, result)
    \/ Shows

(* Nothing else changes a status, finds a reply or puts it into the chat.  *)
LEMMA PromiseMoved ==
  ASSUME TypeOK, InHand, Written, [Next]_vars PROVE PromiseMoves
  <1> USE DEF server, client, wechat
  <1>1. CASE UNCHANGED <<action, shown, found>>
    BY <1>1 DEF PromiseMoves
  <1>2. ASSUME NEW r \in Replies, NEW result \in Over, Attempts(r, result),
               Record(r, result), UNCHANGED shown
        PROVE PromiseMoves
    BY <1>2 DEF Record, AckAccepted, Reports, Turns, PromiseMoves
  <1>3. ASSUME NEW r \in Replies, Fail(r), UNCHANGED <<shown, found>> PROVE PromiseMoves
    <2>1. CASE action[r] = "queued"
      <3>1. action' = Voided({r}, action)
        BY <1>3, <2>1 DEF Fail, Voided, TypeOK
      <3> QED
        BY <1>3, <2>1, <3>1 DEF Ends, PromiseMoves
    <2>2. CASE action[r] # "queued"
      BY <1>3, <2>2 DEF Fail, PromiseMoves, TypeOK
    <2> QED
      BY <2>1, <2>2
  <1>4. ASSUME NEW fate \in Fates, SenderAck(fate) PROVE PromiseMoves
    <2>1. Attempts(sender.reply, sender.result)
      BY <1>4 DEF SenderAck, Attempts
    <2>2. sender.reply \in Replies /\ sender.result \in Over
      BY <2>1, AttemptsResult
    <2> QED
      BY <1>1, <1>2, <1>4, <2>1, <2>2 DEF SenderAck, Attempt
  <1>5. ASSUME NEW fate \in Fates, ReplayAck(fate) PROVE PromiseMoves
    <2>1. Attempts(replay.reply, replay.result)
      BY <1>5 DEF ReplayAck, Attempts
    <2>2. replay.reply \in Replies /\ replay.result \in Over
      BY <2>1, AttemptsResult
    <2> QED
      BY <1>1, <1>2, <1>5, <2>1, <2>2 DEF ReplayAck, Attempt
  <1>6. ASSUME NEW fate \in Fates, NEW granted \in BOOLEAN, ClaimSend(fate, granted)
        PROVE PromiseMoves
    <2>1. sender.reply \in Replies
      BY <1>6 DEF ClaimSend, InHand
    <2>2. CASE Arrives(fate) /\ granted /\ action[sender.reply] = "queued"
      BY <1>6, <2>1, <2>2 DEF ClaimSend, Turns, PromiseMoves
    <2>3. CASE ~(Arrives(fate) /\ granted /\ action[sender.reply] = "queued")
      BY <1>6, <2>1, <2>3 DEF ClaimSend, PromiseMoves, TypeOK
    <2> QED
      BY <2>2, <2>3
  <1>7. CASE Presses
    BY <1>7 DEF Presses, Press, Shows, PromiseMoves, TypeOK
  <1>8. CASE ServerNext
    <2>1. ASSUME NEW r \in Replies, Invalidate(r) \/ Withdraw(r) PROVE PromiseMoves
      <3>1. action' = Voided({r}, action)
        BY <2>1 DEF Invalidate, Withdraw, Void, Voided
      <3>2. Ends(r)
        BY <2>1, <3>1 DEF Invalidate, Withdraw, Queued, Ends
      <3> QED
        BY <3>2 DEF PromiseMoves
    <2>2. ASSUME NEW r \in Replies, NEW R \in SUBSET found, Generate(r, R)
          PROVE PromiseMoves
      <3>1. Replaces(r, R)
        BY <2>2 DEF Generate, Void, Voided, Replaces
      <3> QED
        BY <3>1 DEF PromiseMoves
    <2>3. ASSUME NEW r \in Replies, FindQueued(r) PROVE PromiseMoves
      BY <2>3 DEF FindQueued, Queued, Finds, PromiseMoves
    <2>4. ASSUME NEW r \in Replies, RecoverStale(r) PROVE PromiseMoves
      BY <2>4 DEF RecoverStale, Turns, PromiseMoves
    <2> QED
      BY <1>1, <1>8, <2>1, <2>2, <2>3, <2>4 DEF ServerNext, CancelTask, LeaseRunsOut
  <1>9. CASE StartNext
    BY <1>1, <1>3, <1>9 DEF StartNext, StartRead, PullExpired, PullRunning, PullPending
  <1>10. CASE SenderNext
    <2>1. CASE \E fate \in Fates : FailCall(fate)
      BY <1>1, <1>3, <2>1 DEF FailCall, InHand
    <2> QED
      BY <1>1, <1>4, <1>6, <1>10, <2>1
      DEF SenderNext, ReadNothing, ReplyReady, Replaced, RefreshFails, Refreshed, Stops,
          ClaimTask, SaveIntent, Reconcile, CheckFails, StartSidecar, SidecarAnswers,
          SidecarCut, Finish
  <1>11. CASE SidecarNext
    BY <1>1, <1>7, <1>11 DEF SidecarNext, GiveUp, Mark, Confirm, OrphanEnds, Presses
  <1>12. CASE ReplayNext
    BY <1>1, <1>5, <1>12 DEF ReplayNext, Look, ReplayNothing, ReplayRow, ReplayPhase,
       ReplayDiscard, ReplayFinalize
  <1> QED
    BY <1>1, <1>8, <1>9, <1>10, <1>11, <1>12 DEF Next, RestartRecovery, Crash, vars

(* A step of the replies is one step of the promise, or none: what is      *)
(* recorded agrees with the chat, only what a withdrawal has read is       *)
(* denied, and the key is pressed for a reply that was claimed and that    *)
(* nobody has seen or, if the C2 loop lists late, whose verdict is in.     *)
LEMMA PromiseStep ==
  ASSUME OnceInv, OnceInv', [Next]_vars PROVE [Delivered!Next]_(Delivered!vars)
  <1> USE DEF OnceInv, SettleInv, ReplyInv
  <1> DEFINE stage == [r \in Replies |-> Stage(r)]
  <1> SUFFICES Delivered!Next \/ UNCHANGED <<stage, shown, found>>
    BY DEF Delivered!vars
  <1>types. /\ action \in [Replies -> Statuses] /\ action' \in [Replies -> Statuses]
            /\ shown \in [Replies -> Nat] /\ found \in SUBSET Replies
    BY DEF TypeOK
  <1>1. CASE UNCHANGED <<action, shown, found>>
    BY <1>1 DEF Stage
  <1>2. ASSUME NEW r \in Replies, NEW R \in SUBSET found, Replaces(r, R) PROVE Delivered!Next
    <2>1. r \in Delivered!In("absent") /\ R \subseteq Delivered!In("waiting") \cup found
      BY <1>2 DEF Replaces, Delivered!In, Stage
    <2>2. stage' = Delivered!Removed(R, [stage EXCEPT ![r] = "waiting"])
      <3>1. ASSUME NEW q \in Replies
            PROVE stage'[q] = Delivered!Removed(R, [stage EXCEPT ![r] = "waiting"])[q]
        BY <1>2, <1>types DEF Replaces, Voided, Stage, Statuses, Delivered!Removed
      <3> QED
        BY <3>1 DEF Delivered!Removed
    <2>3. Delivered!Accept(r, R)
      BY <1>2, <2>1, <2>2 DEF Replaces, Delivered!Accept
    <2> QED
      BY <1>types, <2>3 DEF Delivered!Next
  <1>3. ASSUME NEW r \in Replies, Ends(r) PROVE Delivered!Next
    <2>1. r \in Delivered!In("waiting") \cup found
      BY <1>3 DEF Ends, Delivered!In, Stage
    <2>2. stage' = Delivered!Removed({r}, stage)
      <3>1. ASSUME NEW q \in Replies PROVE stage'[q] = Delivered!Removed({r}, stage)[q]
        BY <1>3, <1>types DEF Ends, Voided, Stage, Statuses, Delivered!Removed
      <3> QED
        BY <3>1 DEF Delivered!Removed
    <2>3. Delivered!Drop(r)
      BY <1>3, <2>1, <2>2 DEF Ends, Delivered!Drop
    <2> QED
      BY <2>3 DEF Delivered!Next
  <1>4. ASSUME NEW r \in Replies, Finds(r) PROVE Delivered!Next
    <2>1. r \in Delivered!In("waiting") /\ UNCHANGED stage
      BY <1>4 DEF Finds, Delivered!In, Stage
    <2>2. Delivered!Leave(r)
      BY <1>4, <2>1 DEF Finds, Delivered!Leave
    <2> QED
      BY <2>2 DEF Delivered!Next
  <1>5. ASSUME NEW r \in Replies, Turns(r, "queued", "sending") PROVE Delivered!Next
    <2>1. r \in Delivered!In("waiting") /\ stage' = [stage EXCEPT ![r] = "taken"]
      BY <1>5, <1>types DEF Turns, Delivered!In, Stage
    <2>2. Delivered!Take(r)
      BY <1>5, <2>1 DEF Turns, Delivered!Take
    <2> QED
      BY <2>2 DEF Delivered!Next
  <1>6. ASSUME NEW r \in Replies, Turns(r, "sending", "unknown") PROVE Delivered!Next
    <2>1. {r} \subseteq Delivered!In("taken") /\ {r} \in SUBSET Replies
      BY <1>6 DEF Turns, Delivered!In, Stage
    <2>2. stage' = [q \in Replies |-> IF q \in {r} THEN "unknown" ELSE stage[q]]
      BY <1>6, <1>types DEF Turns, Stage
    <2>3. Delivered!GiveUp({r})
      BY <1>6, <2>1, <2>2 DEF Turns, Delivered!GiveUp
    <2> QED
      BY <2>1, <2>3 DEF Delivered!Next
  <1>7. ASSUME NEW r \in Replies, NEW result \in {"sent", "failed"}, Reports(r, result)
        PROVE Delivered!Next
    <2>1. r \in Delivered!In("taken") /\ stage' = [stage EXCEPT ![r] = result]
      BY <1>7, <1>types DEF Reports, Turns, Delivered!In, Stage
    <2>2. action'[r] = result /\ UNCHANGED <<shown, found>>
      BY <1>7, <1>types DEF Reports, Turns
    <2>3. result = IF shown[r] = 0 THEN "failed" ELSE "sent"
      BY <2>2, <1>types DEF RecordedSentIsShown, OnlyWithdrawalDenies
    <2>4. Delivered!Record(r, result)
      BY <2>1, <2>2, <2>3 DEF Delivered!Record
    <2> QED
      BY <2>4 DEF Delivered!Next
  <1>8. CASE Shows
    <2> DEFINE r == sidecar.reply
    <2>1. /\ r \in Replies /\ Claimable(r) /\ shown' = [shown EXCEPT ![r] = @ + 1]
          /\ shown[r] = 0 \/ Forgotten(r)
      BY <1>8 DEF Shows, InHand, Unpressed, Claimed
    <2>2. UNCHANGED <<stage, found>>
      BY <1>8 DEF Shows, Stage
    <2>3. CASE shown[r] = 0
      <3>1. action[r] \in {"sending", "unknown", "undone"}
        BY <2>1, <2>3 DEF Claimable, RecordedSentIsShown
      <3>2. stage[r] \in {"taken", "unknown", "denied"}
        BY <2>1, <3>1 DEF Stage
      <3>3. Delivered!Arrive(r)
        BY <2>1, <2>2, <2>3, <3>2 DEF Delivered!Arrive
      <3> QED
        BY <2>1, <3>3 DEF Delivered!Next
    <2>4. CASE Forgotten(r)
      <3>1. action[r] \in {"sent", "unknown", "undone"}
        BY <2>1, <2>4 DEF Forgotten, AckedIsOver, Ended, Over, OnlyWithdrawalDenies
      <3>2. stage[r] \in {"sent", "unknown", "denied"}
        BY <2>1, <3>1 DEF Stage
      <3>3. Delivered!Arrive(r)
        BY <2>1, <2>2, <2>4, <3>2 DEF Forgotten, Delivered!Arrive
      <3> QED
        BY <2>1, <3>3 DEF Delivered!Next
    <2> QED
      BY <2>1, <2>3, <2>4
  <1>9. PromiseMoves
    BY PromiseMoved
  <1>10. \A r, result : Reports(r, result) => Turns(r, "sending", result)
    BY DEF Reports
  <1> QED
    BY <1>1, <1>2, <1>3, <1>4, <1>5, <1>6, <1>7, <1>8, <1>9, <1>10 DEF PromiseMoves, Over

(* The replies keep the promise of DeliveredOnce for any number of         *)
(* replies, losses and kills and either choice of Stale: a reply is        *)
(* claimed once, in the chat only after its claim, a second time only      *)
(* after its verdict and only if the C2 loop lists late, and a verdict of  *)
(* sent_ack is true, and final unless a withdrawal had read the reply as   *)
(* queued (c3_service.py:2606, 703, 2710, 2895).                           *)
THEOREM RepliesImplementDeliveredOnce == Spec => RepliesAreDeliveredOnce
  <1>1. Init => Delivered!Init
    BY DEF Init, Delivered!Init, Stage
  <1>2. OnceInv /\ OnceInv' /\ [Next]_vars => [Delivered!Next]_(Delivered!vars)
    BY PromiseStep
  <1> QED
    BY OnceInvariant, <1>1, <1>2, PTL DEF Spec, RepliesAreDeliveredOnce, Delivered!Spec
=============================================================================
