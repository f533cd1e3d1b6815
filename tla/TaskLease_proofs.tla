-------------------------- MODULE TaskLease_proofs --------------------------
(***************************************************************************)
(* Theorems about TaskLease, for any sets of tasks, workers, clients and   *)
(* request slots and any lease length.                                     *)
(***************************************************************************)
EXTENDS TaskLease, TLAPS

-----------------------------------------------------------------------------
(* Type correctness.                                                       *)

(* The bounds of a lease are values a row may hold.                        *)
LEMMA LeaseBounds == /\ 0 \in 0..LeaseTicks
                     /\ LeaseTicks \in 0..LeaseTicks
                     /\ \A n \in 0..LeaseTicks : n > 0 => n - 1 \in 0..LeaseTicks
  BY TaskLeaseAssumption DEF TaskLeaseAssumption

(* The tables a fresh installation may hold have the declared types.        *)
LEMMA TypeInit == Init => TypeOK
  BY LeaseBounds DEF Init, NewRow, TypeOK, TaskType, TaskRow, WorkerRow, Request, Idle, Status, Cancellable

(* The tokens the handlers accept are fencing tokens of committed claims.  *)
LEMMA TokensType == TypeOK => \A t \in Tasks : TokensOf(t) \subseteq Nat
<1> SUFFICES ASSUME TypeOK, NEW t \in Tasks, NEW k \in TokensOf(t)
             PROVE  k \in Nat
  OBVIOUS
<1>1. PICK i \in DOMAIN claims : k = claims[i].fence
  BY DEF TokensOf
<1>2. claims[i] \in Claim
  BY DEF TypeOK
<1>3. QED BY <1>1, <1>2 DEF Claim

(* Opening a request keeps the types if the request has one.               *)
LEMMA BeginType ==
  ASSUME TypeOK, NEW r \in Requests, NEW q \in Request, Begin(r, q)
  PROVE  TypeOK'
  BY DEF TypeOK, Begin

(* A snapshot of a row, with a token, is a request.                        *)
LEMMA SnapshotType ==
  ASSUME TypeOK, NEW t \in Tasks, NEW c \in Clients \cup {NoClient}, NEW token \in Nat,
         NEW kind \in {"renew", "complete", "fail", "cancel"}
  PROVE  Snapshot(kind, c, t, token) \in Request
  BY DEF TypeOK, Snapshot, Request, SnapRequest

(* Ending a request keeps the types when nothing else changes.             *)
LEMMA EndType ==
  ASSUME TypeOK, NEW r \in Requests, End(r), UNCHANGED <<task, worker, claims>>
  PROVE  TypeOK'
  BY DEF TypeOK, End, Request

(* Finishing a row and ageing it give rows.                                *)
LEMMA FinishedType ==
  ASSUME NEW row \in TaskRow, NEW snap, NEW status \in Terminal
  PROVE  Finished(row, snap, status) \in TaskRow
<1>1. status \in Status
  BY DEF Status
<1>2. CASE snap.owner = NoClient
  BY <1>1, <1>2 DEF Finished, TaskRow
<1>3. CASE snap.owner # NoClient
  BY <1>1, <1>3, LeaseBounds DEF Finished, TaskRow
<1>4. QED BY <1>2, <1>3

(* Ageing a row gives a row.                                                *)
LEMMA AgedType == \A row \in TaskRow : Aged(row) \in TaskRow
  BY LeaseBounds DEF Aged, TaskRow

(* Every step keeps the types.                                             *)
LEMMA TypeStep == TypeOK /\ [Next]_vars => TypeOK'
<1> SUFFICES ASSUME TypeOK, [Next]_vars
             PROVE  TypeOK'
  OBVIOUS
<1>cancel. ASSUME NEW r \in Requests, NEW t \in Tasks, CancelBegin(r, t)
           PROVE  TypeOK'
  BY <1>cancel, SnapshotType, BeginType DEF CancelBegin
<1>renewBegin. ASSUME NEW r \in Requests, NEW c \in Clients, NEW t \in Tasks,
                      RenewBegin(r, c, t)
               PROVE  TypeOK'
  BY <1>renewBegin, TokensType, SnapshotType, BeginType DEF RenewBegin
<1>complete. ASSUME NEW r \in Requests, NEW c \in Clients, NEW t \in Tasks,
                    CompleteBegin(r, c, t)
             PROVE  TypeOK'
  BY <1>complete, TokensType, SnapshotType, BeginType DEF CompleteBegin
<1>fail. ASSUME NEW r \in Requests, NEW c \in Clients, NEW t \in Tasks,
                FailBegin(r, c, t)
         PROVE  TypeOK'
  BY <1>fail, TokensType, SnapshotType, BeginType DEF FailBegin
<1>expire. ASSUME NEW r \in Requests, NEW c \in Clients, NEW w \in Workers,
                  ExpireBegin(r, c, w)
           PROVE  TypeOK'
  <2>1. PICK i \in DOMAIN claims :
               Begin(r, Snapshot("fail", c, claims[i].task, 0))
    BY <1>expire DEF ExpireBegin
  <2>2. claims[i] \in Claim
    BY DEF TypeOK
  <2>3. QED BY <2>1, <2>2, SnapshotType, BeginType DEF Claim
<1>claimBegin. ASSUME NEW r \in Requests, NEW c \in Clients, NEW t \in Tasks,
                      NEW w \in Workers, ClaimBegin(r, c, w, t)
               PROVE  TypeOK'
  <2>1. [kind |-> "claim", client |-> c, worker |-> w, task |-> t] \in Request
    BY DEF Request, ClaimRequest
  <2>2. QED BY <1>claimBegin, <2>1, BeginType DEF ClaimBegin
<1>claimLock. ASSUME NEW r \in Requests, ClaimLock(r)
              PROVE  TypeOK'
  BY <1>claimLock DEF ClaimLock, TypeOK, Request, Idle, ClaimRequest, SnapRequest
<1>claimCommit. ASSUME NEW r \in Requests, ClaimCommit(r)
                PROVE  TypeOK'
  <2>1. /\ req[r] \in ClaimRequest
        /\ task[req[r].task].fence \in Nat /\ task[req[r].task].type \in TaskType
    <3>1. req[r] \in ClaimRequest
      <4>1. req[r].kind = "claimLocked"
        BY <1>claimCommit DEF ClaimCommit
      <4> QED BY <4>1 DEF TypeOK, Request, Idle, SnapRequest
    <3>2. task[req[r].task] \in TaskRow
      BY <3>1 DEF ClaimRequest, TypeOK
    <3>3. QED BY <3>1, <3>2 DEF TaskRow
  <2>2. task' \in [Tasks -> TaskRow]
    BY <1>claimCommit, <2>1, LeaseBounds
       DEF ClaimCommit, TypeOK, ClaimRequest, TaskRow, Status, Cancellable
  <2>3. claims' \in Seq(Claim)
    <3>1. [client |-> req[r].client, task |-> req[r].task,
           fence |-> task[req[r].task].fence + 1] \in Claim
      BY <2>1 DEF ClaimRequest, Claim
    <3>2. QED BY <1>claimCommit, <3>1 DEF ClaimCommit, TypeOK
  <2>4. QED BY <1>claimCommit, <2>2, <2>3 DEF ClaimCommit, End, TypeOK, Request
<1>end. ASSUME NEW r \in Requests,
               ClaimRefused(r) \/ RenewRefused(r) \/ Rollback(r)
        PROVE  TypeOK'
  BY <1>end, EndType DEF ClaimRefused, RenewRefused, Rollback
<1>renew. ASSUME NEW r \in Requests, RenewCommit(r)
          PROVE  TypeOK'
  BY <1>renew, LeaseBounds DEF RenewCommit, End, TypeOK, Request, TaskRow
<1>finish. ASSUME NEW r \in Requests, FinishCommit(r)
           PROVE  TypeOK'
  <2>1. Outcome(req[r].kind) \in Terminal
    BY <1>finish DEF FinishCommit, Outcome, Terminal
  <2>2. task' \in [Tasks -> TaskRow]
    BY <1>finish, <2>1, FinishedType DEF FinishCommit, TypeOK
  <2>3. QED BY <1>finish, <2>2 DEF FinishCommit, End, TypeOK, Request
<1>unblock. ASSUME NEW w \in Workers, NEW S \in SUBSET Tasks, Unblock(w, S)
            PROVE  TypeOK'
  BY <1>unblock DEF Unblock, TypeOK, TaskRow, Status, Cancellable
<1>settle. ASSUME NEW t \in Tasks, SettleReply(t)
           PROVE  TypeOK'
  <2>1. task' \in [Tasks -> TaskRow]
    BY <1>settle, FinishedType DEF SettleReply, TypeOK, Terminal
  <2>2. QED BY <1>settle, <2>1 DEF SettleReply, TypeOK
<1>worker. ASSUME NEW w \in Workers, NEW c \in Clients,
                  NEW running \in BOOLEAN, NEW f \in Tasks \cup {ReadFlow},
                  \/ SetRunStatus(w, c, running) \/ StartFlow(w, c, f)
                  \/ FinishFlow(w, c) \/ Bind(w, c) \/ Heartbeat(w, c)
           PROVE  TypeOK'
  <2>1. CASE SetRunStatus(w, c, running)
    BY <2>1 DEF SetRunStatus, TypeOK, WorkerRow
  <2>2. CASE StartFlow(w, c, f)
    BY <2>2 DEF StartFlow, TypeOK, WorkerRow
  <2>3. CASE FinishFlow(w, c)
    BY <2>3 DEF FinishFlow, TypeOK, WorkerRow
  <2>4. CASE Bind(w, c)
    BY <2>4 DEF Bind, TypeOK, WorkerRow
  <2>5. CASE Heartbeat(w, c)
    BY <2>5 DEF Heartbeat, TypeOK, WorkerRow
  <2>6. QED BY <1>worker, <2>1, <2>2, <2>3, <2>4, <2>5
<1>reset. ASSUME NEW w \in Workers, ResetBinding(w)
          PROVE  TypeOK'
  BY <1>reset DEF ResetBinding, TypeOK, WorkerRow
<1>tick. CASE Tick
  BY <1>tick, AgedType DEF Tick, TypeOK, Request, Idle, ClaimRequest, SnapRequest
<1>stutter. CASE UNCHANGED vars
  BY <1>stutter DEF vars, TypeOK
<1> QED
  BY <1>cancel, <1>renewBegin, <1>complete, <1>fail, <1>expire, <1>claimBegin,
     <1>claimLock, <1>claimCommit, <1>end, <1>renew, <1>finish, <1>unblock,
     <1>settle, <1>worker, <1>reset, <1>tick, <1>stutter
     DEF Next, RequestStep, WorkerStep

(* Every reachable state has the declared types.                           *)
THEOREM TypeCorrect == Spec => []TypeOK
  BY TypeInit, TypeStep, PTL DEF Spec

-----------------------------------------------------------------------------
(* The inductive invariant.  ClaimedAtMostOnce is not inductive: it needs   *)
(* that a row locked by a claim is still pending, that no two claims lock   *)
(* it, and that a task that was claimed never waits again.                  *)

Waiting   == {"blocked", "pending"}
SnapKinds == {"renew", "complete", "fail", "cancel"}

ClaimedIsPast  == \A i \in DOMAIN claims : task[claims[i].task].status \notin Waiting

LockedIsPending ==
    \A r \in Requests : req[r].kind = "claimLocked" => task[req[r].task].status = "pending"

OneLock ==
    \A r, s \in Requests :
        /\ req[r].kind = "claimLocked" /\ req[s].kind = "claimLocked"
        /\ req[r].task = req[s].task
        => r = s

\* A running snapshot is no younger than the row: renewals only lengthen it.
SnapIsOlder ==
    \A r \in Requests :
        req[r].kind \in SnapKinds /\ req[r].snap.status = "running" =>
            LET row == task[req[r].task] IN
            /\ row.status \notin Waiting
            /\ row.status = "running" => req[r].snap.left <= row.left

Core == /\ ClaimedIsPast /\ LockedIsPending /\ OneLock /\ SnapIsOlder
        /\ ClaimedAtMostOnce /\ RunningHasClaimant /\ OnlyClaimantCompletes

LeaseInv == TypeOK /\ Core

(* Nothing is claimed at the start.                                         *)
LEMMA CoreInit == Init => Core
  BY DEF Init, NewRow, Core, ClaimedIsPast, LockedIsPending, OneLock, SnapIsOlder,
         ClaimedAtMostOnce, RunningHasClaimant, OnlyClaimantCompletes, Idle, SnapKinds

(* Opening a request keeps the invariant, if a snapshot is the row as it is *)
(* and a completion comes from the claimant.                               *)
LEMMA BeginCore ==
  ASSUME LeaseInv, NEW r \in Requests, NEW q, Begin(r, q),
         q.kind # "claimLocked",
         q.kind \in SnapKinds => q.task \in Tasks /\ q.snap = task[q.task],
         q.kind = "complete" =>
            \E i \in DOMAIN claims :
               claims[i] = [client |-> q.client, task |-> q.task, fence |-> q.token]
  PROVE  Core'
<1> USE DEF Begin, LeaseInv, Core
<1>1. ClaimedIsPast'
  BY DEF ClaimedIsPast
<1>2. LockedIsPending' /\ OneLock'
  BY DEF LockedIsPending, OneLock, TypeOK
<1>3. SnapIsOlder'
  <2>1. q.kind \in SnapKinds => task[q.task].left \in Nat
    BY LeaseBounds DEF TypeOK, TaskRow
  <2>2. QED BY <2>1 DEF SnapIsOlder, TypeOK, Waiting
<1>4. ClaimedAtMostOnce' /\ RunningHasClaimant'
  BY DEF ClaimedAtMostOnce, RunningHasClaimant
<1>5. OnlyClaimantCompletes'
  BY DEF OnlyClaimantCompletes, TypeOK
<1> QED BY <1>1, <1>2, <1>3, <1>4, <1>5

(* A request that ends without a write keeps it.                           *)
LEMMA EndCore ==
  ASSUME LeaseInv, NEW r \in Requests, End(r), UNCHANGED <<task, worker, claims>>
  PROVE  Core'
<1> USE DEF End, LeaseInv, Core
<1>1. ClaimedIsPast' /\ ClaimedAtMostOnce' /\ RunningHasClaimant'
  BY DEF ClaimedIsPast, ClaimedAtMostOnce, RunningHasClaimant
<1>2. LockedIsPending' /\ OneLock'
  BY DEF LockedIsPending, OneLock, TypeOK, Idle
<1>3. SnapIsOlder'
  BY DEF SnapIsOlder, TypeOK, Idle, SnapKinds
<1>4. OnlyClaimantCompletes'
  BY DEF OnlyClaimantCompletes, TypeOK, Idle
<1> QED BY <1>1, <1>2, <1>3, <1>4

(* A step on the workers alone keeps it.                                   *)
LEMMA FrameCore ==
  ASSUME LeaseInv, UNCHANGED <<task, req, claims>>
  PROVE  Core'
  BY DEF LeaseInv, Core, ClaimedIsPast, LockedIsPending, OneLock, SnapIsOlder,
         ClaimedAtMostOnce, RunningHasClaimant, OnlyClaimantCompletes

(* A claim locks a pending row nobody else has locked.                     *)
LEMMA ClaimLockCore ==
  ASSUME LeaseInv, NEW r \in Requests, ClaimLock(r)
  PROVE  Core'
<1> USE DEF ClaimLock, LeaseInv, Core
<1>1. ClaimedIsPast' /\ ClaimedAtMostOnce' /\ RunningHasClaimant'
  BY DEF ClaimedIsPast, ClaimedAtMostOnce, RunningHasClaimant
<1>2. /\ req' = [req EXCEPT ![r] = [req[r] EXCEPT !.kind = "claimLocked"]]
      /\ \A s \in Requests : s # r => req'[s] = req[s]
      /\ req'[r].kind = "claimLocked" /\ req'[r].task = req[r].task
  <2>1. req[r] \in ClaimRequest
    BY DEF TypeOK, Request, Idle, SnapRequest
  <2>2. QED BY <2>1 DEF TypeOK, ClaimRequest
<1>3. LockedIsPending' /\ OneLock'
  BY <1>2 DEF LockedIsPending, OneLock, Locked, Claimable
<1>4. SnapIsOlder' /\ OnlyClaimantCompletes'
  BY <1>2 DEF SnapIsOlder, OnlyClaimantCompletes, SnapKinds
<1> QED BY <1>1, <1>3, <1>4

(* A claim is committed on a pending row, so it is the first of its task.  *)
LEMMA ClaimCommitCore ==
  ASSUME LeaseInv, NEW r \in Requests, ClaimCommit(r)
  PROVE  Core'
<1> DEFINE q     == req[r]
           fence == task[q.task].fence + 1
           new   == [client |-> q.client, task |-> q.task, fence |-> fence]
<1>1. /\ q.kind = "claimLocked" /\ q.task \in Tasks
      /\ task[q.task].status = "pending"
      /\ task' = [task EXCEPT ![q.task] =
                    [type |-> task[q.task].type, status |-> "running", worker |-> q.worker,
                     owner |-> q.client, fence |-> fence, left |-> LeaseTicks]]
      /\ claims' = Append(claims, new)
      /\ req' = [req EXCEPT ![r] = Idle]
  <2>1. q \in Request /\ q.kind = "claimLocked"
    BY DEF ClaimCommit, LeaseInv, TypeOK
  <2>2. q.kind = "claimLocked" /\ q.task \in Tasks
    BY <2>1 DEF Request, Idle, ClaimRequest, SnapRequest
  <2>3. task[q.task].status = "pending"
    BY <2>2 DEF LeaseInv, Core, LockedIsPending
  <2>4. QED BY <2>2, <2>3 DEF ClaimCommit, End
<1>2. /\ DOMAIN claims = 1..Len(claims) /\ DOMAIN claims' = 1..(Len(claims) + 1)
      /\ Len(claims) \in Nat
      /\ claims'[Len(claims) + 1] = new
      /\ \A i \in DOMAIN claims : claims'[i] = claims[i]
  BY <1>1 DEF LeaseInv, TypeOK
<1>3. \A i \in DOMAIN claims : claims[i].task # q.task
  BY <1>1 DEF LeaseInv, Core, ClaimedIsPast, Waiting
<1>4. ClaimedAtMostOnce'
  BY <1>2, <1>3 DEF LeaseInv, Core, ClaimedAtMostOnce
<1>5. task'[q.task].status = "running" /\ \A t \in Tasks : t # q.task => task'[t] = task[t]
  BY <1>1 DEF LeaseInv, TypeOK
<1>6. \A i \in DOMAIN claims : claims[i].task \in Tasks
  <2>1. \A i \in DOMAIN claims : claims[i] \in Claim
    BY DEF LeaseInv, TypeOK
  <2>2. QED BY <2>1 DEF Claim
<1>7. ClaimedIsPast'
  BY <1>2, <1>3, <1>5, <1>6 DEF LeaseInv, Core, ClaimedIsPast, Waiting
<1>8. RunningHasClaimant'
  <2> SUFFICES ASSUME NEW t \in Tasks, task'[t].status = "running"
               PROVE  \E i \in DOMAIN claims' :
                         claims'[i] = [client |-> task'[t].owner, task |-> t,
                                       fence |-> task'[t].fence]
    BY DEF RunningHasClaimant
  <2>1. CASE t = q.task
    <3>1. task'[q.task].owner = q.client /\ task'[q.task].fence = fence
      BY <1>1 DEF LeaseInv, TypeOK
    <3>2. Len(claims) + 1 \in DOMAIN claims'
      BY <1>2
    <3> HIDE DEF q, fence
    <3> QED BY <2>1, <3>1, <3>2, <1>2
  <2>2. CASE t # q.task
    BY <2>2, <1>2, <1>5 DEF LeaseInv, Core, RunningHasClaimant
  <2> QED BY <2>1, <2>2
<1>9. \A s \in Requests : /\ s # r => req'[s] = req[s]
                          /\ req'[r] = Idle
  BY <1>1 DEF LeaseInv, TypeOK
<1>10. \A s \in Requests : req[s].kind \in SnapKinds \cup {"claimLocked"} => req[s].task \in Tasks
  BY DEF LeaseInv, TypeOK, Request, Idle, ClaimRequest, SnapRequest, SnapKinds
<1>11. LockedIsPending' /\ OneLock'
  BY <1>1, <1>5, <1>9, <1>10 DEF LeaseInv, Core, LockedIsPending, OneLock, Idle
<1>12. SnapIsOlder'
  BY <1>1, <1>5, <1>9, <1>10 DEF LeaseInv, Core, SnapIsOlder, Idle, SnapKinds, Waiting
<1>13. OnlyClaimantCompletes'
  BY <1>2, <1>9 DEF LeaseInv, Core, OnlyClaimantCompletes, Idle
<1> QED BY <1>4, <1>7, <1>8, <1>11, <1>12, <1>13 DEF Core

(* A renewal changes only how long the lease of one row lasts.             *)
LEMMA RenewCore ==
  ASSUME LeaseInv, NEW r \in Requests, RenewCommit(r)
  PROVE  Core'
<1> DEFINE q == req[r]
<1>1. /\ q.kind = "renew" /\ q.task \in Tasks
      /\ ~Locked(q.task)
      /\ task' = [task EXCEPT ![q.task] = [task[q.task] EXCEPT !.left = LeaseTicks]]
      /\ claims' = claims
      /\ req' = [req EXCEPT ![r] = Idle]
  <2>1. q \in Request /\ q.kind = "renew"
    BY DEF RenewCommit, LeaseInv, TypeOK
  <2>2. q.task \in Tasks
    BY <2>1 DEF Request, Idle, ClaimRequest, SnapRequest
  <2>3. QED BY <2>1, <2>2 DEF RenewCommit, End
<1>2. \A t \in Tasks : /\ task'[t].status = task[t].status
                       /\ task'[t].owner = task[t].owner
                       /\ task'[t].fence = task[t].fence
                       /\ task[t].left \in Nat /\ task'[t].left \in Nat
                       /\ task'[t].left >= task[t].left
  <2> SUFFICES ASSUME NEW t \in Tasks
               PROVE  /\ task'[t].status = task[t].status
                      /\ task'[t].owner = task[t].owner
                      /\ task'[t].fence = task[t].fence
                      /\ task[t].left \in Nat /\ task'[t].left \in Nat
                       /\ task'[t].left >= task[t].left
    OBVIOUS
  <2>1. task[t] \in TaskRow /\ task[t].left \in 0..LeaseTicks /\ LeaseTicks \in Nat
    BY TaskLeaseAssumption DEF LeaseInv, TypeOK, TaskRow, TaskLeaseAssumption
  <2>2. CASE t = q.task
    BY <2>1, <2>2, <1>1 DEF LeaseInv, TypeOK, TaskRow
  <2>3. CASE t # q.task
    BY <2>1, <2>3, <1>1 DEF LeaseInv, TypeOK
  <2> QED BY <2>2, <2>3
<1>3. /\ \A s \in Requests : s # r => req'[s] = req[s]
      /\ req'[r] = Idle
  BY <1>1 DEF LeaseInv, TypeOK
<1>4. \A s \in Requests : req[s].kind \in SnapKinds \cup {"claimLocked"} => req[s].task \in Tasks
  BY DEF LeaseInv, TypeOK, Request, Idle, ClaimRequest, SnapRequest, SnapKinds
<1>5. ClaimedIsPast'
  <2>1. \A i \in DOMAIN claims : claims[i] \in Claim
    BY DEF LeaseInv, TypeOK
  <2>2. QED BY <1>1, <1>2, <2>1 DEF LeaseInv, Core, ClaimedIsPast, Claim
<1>6. ClaimedAtMostOnce' /\ RunningHasClaimant'
  BY <1>1, <1>2 DEF LeaseInv, Core, ClaimedAtMostOnce, RunningHasClaimant
<1>7. LockedIsPending' /\ OneLock'
  BY <1>2, <1>3, <1>4 DEF LeaseInv, Core, LockedIsPending, OneLock, Idle
<1>8. SnapIsOlder'
  <2>1. \A s \in Requests : req[s].kind \in SnapKinds => req[s].snap.left \in Nat
    BY LeaseBounds DEF LeaseInv, TypeOK, Request, Idle, ClaimRequest, SnapRequest, SnapKinds, TaskRow
  <2> SUFFICES ASSUME NEW s \in Requests, req'[s].kind \in SnapKinds,
                      req'[s].snap.status = "running"
               PROVE  /\ task'[req'[s].task].status \notin Waiting
                      /\ task'[req'[s].task].status = "running" =>
                            req'[s].snap.left <= task'[req'[s].task].left
    BY DEF SnapIsOlder
  <2>2. s # r
    BY <1>3 DEF Idle, SnapKinds
  <2>3. LET row == task[req[s].task]
        IN  /\ row.status \notin Waiting
            /\ row.status = "running" => req[s].snap.left <= row.left
    BY <1>3, <2>2 DEF LeaseInv, Core, SnapIsOlder
  <2> QED BY <1>2, <1>3, <1>4, <2>1, <2>2, <2>3
<1>9. OnlyClaimantCompletes'
  BY <1>1, <1>3 DEF LeaseInv, Core, OnlyClaimantCompletes, Idle
<1> QED BY <1>5, <1>6, <1>7, <1>8, <1>9 DEF Core

(* Writing a terminal status into a row no claim has locked keeps it.      *)
LEMMA CloseCore ==
  ASSUME LeaseInv, NEW t \in Tasks, ~Locked(t), NEW row, row.status \in Terminal,
         task' = [task EXCEPT ![t] = row], claims' = claims,
         \A s \in Requests : req'[s] = req[s] \/ req'[s] = Idle
  PROVE  Core'
<1>1. task'[t].status \in Terminal /\ \A u \in Tasks : u # t => task'[u] = task[u]
  BY DEF LeaseInv, TypeOK
<1>2. \A s \in Requests : req[s].kind \in SnapKinds \cup {"claimLocked"} => req[s].task \in Tasks
  BY DEF LeaseInv, TypeOK, Request, Idle, ClaimRequest, SnapRequest, SnapKinds
<1>3. ClaimedIsPast'
  <2>1. \A i \in DOMAIN claims : claims[i].task \in Tasks
    <3>1. \A i \in DOMAIN claims : claims[i] \in Claim
      BY DEF LeaseInv, TypeOK
    <3>2. QED BY <3>1 DEF Claim
  <2>2. QED BY <1>1, <2>1 DEF LeaseInv, Core, ClaimedIsPast, Waiting, Terminal
<1>4. ClaimedAtMostOnce' /\ RunningHasClaimant'
  BY <1>1 DEF LeaseInv, Core, ClaimedAtMostOnce, RunningHasClaimant, Terminal
<1>5. LockedIsPending' /\ OneLock'
  <2>1. \A s \in Requests : req[s].kind = "claimLocked" => req[s].task # t
    BY DEF Locked
  <2>2. QED BY <1>1, <1>2, <2>1 DEF LeaseInv, Core, LockedIsPending, OneLock, Idle
<1>6. SnapIsOlder'
  BY <1>1, <1>2 DEF LeaseInv, Core, SnapIsOlder, Idle, SnapKinds, Waiting, Terminal
<1>7. OnlyClaimantCompletes'
  BY DEF LeaseInv, Core, OnlyClaimantCompletes, Idle
<1> QED BY <1>3, <1>4, <1>5, <1>6, <1>7 DEF Core

(* Committing a completion, a failure or a cancellation keeps it.           *)
LEMMA FinishCore ==
  ASSUME LeaseInv, NEW r \in Requests, FinishCommit(r)
  PROVE  Core'
<1> DEFINE t   == req[r].task
           row == Finished(task[t], req[r].snap, Outcome(req[r].kind))
<1>1. /\ req[r].kind \in {"complete", "fail", "cancel"} /\ ~Locked(t)
      /\ task' = [task EXCEPT ![t] = row] /\ claims' = claims
      /\ req' = [req EXCEPT ![r] = Idle]
  BY DEF FinishCommit, End
<1>2. t \in Tasks
  BY <1>1 DEF LeaseInv, TypeOK, Request, Idle, ClaimRequest, SnapRequest
<1>3. row.status \in Terminal
  <2>1. Outcome(req[r].kind) \in Terminal
    BY <1>1 DEF Outcome, Terminal
  <2>2. task[t] \in TaskRow
    BY <1>2 DEF LeaseInv, TypeOK
  <2>3. QED BY <2>1, <2>2 DEF Finished, TaskRow
<1>4. \A s \in Requests : req'[s] = req[s] \/ req'[s] = Idle
  BY <1>1 DEF LeaseInv, TypeOK
<1> HIDE DEF row, t
<1> QED BY <1>1, <1>2, <1>3, <1>4, CloseCore

(* So does settling a reply.                                                *)
LEMMA SettleCore ==
  ASSUME LeaseInv, NEW t \in Tasks, SettleReply(t)
  PROVE  Core'
<1>1. PICK status \in {"completed", "failed"} :
             task' = [task EXCEPT ![t] = Finished(task[t], task[t], status)]
  BY DEF SettleReply
<1>2. Finished(task[t], task[t], status).status \in Terminal
  <2>1. task[t] \in TaskRow
    BY DEF LeaseInv, TypeOK
  <2>2. QED BY <2>1 DEF Finished, TaskRow, Terminal
<1> QED BY <1>1, <1>2, CloseCore DEF SettleReply

(* A blocked row was never claimed, so it may become pending.              *)
LEMMA UnblockCore ==
  ASSUME LeaseInv, NEW w \in Workers, NEW S \in SUBSET Tasks, Unblock(w, S)
  PROVE  Core'
<1>1. /\ \A t \in S : task[t].status = "blocked" /\ task'[t].status = "pending"
      /\ \A t \in Tasks \ S : task'[t] = task[t]
      /\ req' = req /\ claims' = claims
  <2>1. \A t \in Tasks : task[t] \in TaskRow
    BY DEF LeaseInv, TypeOK
  <2>2. QED BY <2>1 DEF Unblock, TaskRow
<1>2. \A s \in Requests : req[s].kind \in SnapKinds \cup {"claimLocked"} => req[s].task \in Tasks
  BY DEF LeaseInv, TypeOK, Request, Idle, ClaimRequest, SnapRequest, SnapKinds
<1>3. ClaimedIsPast'
  <2>1. \A i \in DOMAIN claims : claims[i].task \in Tasks
    <3>1. \A i \in DOMAIN claims : claims[i] \in Claim
      BY DEF LeaseInv, TypeOK
    <3>2. QED BY <3>1 DEF Claim
  <2>2. QED BY <1>1, <2>1 DEF LeaseInv, Core, ClaimedIsPast, Waiting
<1>4. ClaimedAtMostOnce' /\ RunningHasClaimant' /\ OnlyClaimantCompletes'
  BY <1>1 DEF LeaseInv, Core, ClaimedAtMostOnce, RunningHasClaimant, OnlyClaimantCompletes
<1>5. LockedIsPending' /\ OneLock'
  BY <1>1, <1>2 DEF LeaseInv, Core, LockedIsPending, OneLock
<1>6. SnapIsOlder'
  BY <1>1, <1>2 DEF LeaseInv, Core, SnapIsOlder, Waiting
<1> QED BY <1>3, <1>4, <1>5, <1>6 DEF Core

(* Time passes alike for a row and for the snapshots of it.                *)
LEMMA TickCore ==
  ASSUME LeaseInv, Tick
  PROVE  Core'
<1>1. \A t \in Tasks : /\ task'[t].status = task[t].status
                       /\ task'[t].owner = task[t].owner
                       /\ task'[t].fence = task[t].fence
                       /\ task'[t].left = IF task[t].left > 0 THEN task[t].left - 1 ELSE 0
                       /\ task[t].left \in Nat
  <2>1. \A t \in Tasks : task[t] \in TaskRow
    BY DEF LeaseInv, TypeOK
  <2>2. \A t \in Tasks : task[t].left \in 0..LeaseTicks
    BY <2>1 DEF TaskRow
  <2>3. QED BY <2>1, <2>2 DEF Tick, Aged, TaskRow
<1>2. \A s \in Requests :
        /\ req'[s].kind = req[s].kind
        /\ req[s].kind \in SnapKinds \cup {"claimLocked"} =>
              req[s].task \in Tasks /\ req'[s].task = req[s].task
        /\ req[s].kind \in SnapKinds =>
              /\ req'[s].token = req[s].token /\ req'[s].client = req[s].client
              /\ req'[s].snap.status = req[s].snap.status
              /\ req[s].snap.left \in Nat
              /\ req'[s].snap.left = IF req[s].snap.left > 0 THEN req[s].snap.left - 1 ELSE 0
  <2> SUFFICES ASSUME NEW s \in Requests
               PROVE  /\ req'[s].kind = req[s].kind
                      /\ req[s].kind \in SnapKinds \cup {"claimLocked"} =>
                            req[s].task \in Tasks /\ req'[s].task = req[s].task
                      /\ req[s].kind \in SnapKinds =>
                            /\ req'[s].token = req[s].token /\ req'[s].client = req[s].client
                            /\ req'[s].snap.status = req[s].snap.status
                            /\ req[s].snap.left \in Nat
                            /\ req'[s].snap.left =
                                  IF req[s].snap.left > 0 THEN req[s].snap.left - 1 ELSE 0
    OBVIOUS
  <2>1. CASE req[s].kind \in SnapKinds
    <3>1. req[s] \in SnapRequest
      BY <2>1 DEF LeaseInv, TypeOK, Request, Idle, ClaimRequest, SnapKinds
    <3>2. req[s].snap \in TaskRow /\ req[s].snap.left \in Nat
      BY <3>1, LeaseBounds DEF SnapRequest, TaskRow
    <3>3. req'[s] = [req[s] EXCEPT !.snap = Aged(req[s].snap)]
      BY <2>1 DEF Tick, SnapKinds
    <3>4. /\ Aged(req[s].snap).status = req[s].snap.status
          /\ Aged(req[s].snap).left = IF req[s].snap.left > 0 THEN req[s].snap.left - 1 ELSE 0
      BY <3>2 DEF Aged, TaskRow
    <3> QED BY <3>1, <3>2, <3>3, <3>4 DEF SnapRequest
  <2>2. CASE req[s].kind \notin SnapKinds
    <3>1. req'[s] = req[s]
      BY <2>2 DEF Tick, SnapKinds
    <3>2. req[s].kind = "claimLocked" => req[s].task \in Tasks
      BY DEF LeaseInv, TypeOK, Request, Idle, ClaimRequest, SnapRequest
    <3> QED BY <2>2, <3>1, <3>2
  <2> QED BY <2>1, <2>2
<1>3. claims' = claims
  BY DEF Tick
<1>4. ClaimedIsPast'
  <2>1. \A i \in DOMAIN claims : claims[i].task \in Tasks
    <3>1. \A i \in DOMAIN claims : claims[i] \in Claim
      BY DEF LeaseInv, TypeOK
    <3>2. QED BY <3>1 DEF Claim
  <2>2. QED BY <1>1, <1>3, <2>1 DEF LeaseInv, Core, ClaimedIsPast
<1>5. ClaimedAtMostOnce' /\ RunningHasClaimant'
  BY <1>1, <1>3 DEF LeaseInv, Core, ClaimedAtMostOnce, RunningHasClaimant
<1>6. LockedIsPending' /\ OneLock'
  BY <1>1, <1>2 DEF LeaseInv, Core, LockedIsPending, OneLock
<1>7. SnapIsOlder'
  BY <1>1, <1>2 DEF LeaseInv, Core, SnapIsOlder
<1>8. OnlyClaimantCompletes'
  BY <1>2, <1>3 DEF LeaseInv, Core, OnlyClaimantCompletes, SnapKinds
<1> QED BY <1>4, <1>5, <1>6, <1>7, <1>8 DEF Core

(* A snapshot taken by a handler meets what BeginCore asks of it.          *)
LEMMA SnapshotCore ==
  ASSUME LeaseInv, NEW r \in Requests, NEW c, NEW t \in Tasks, NEW token,
         NEW kind \in SnapKinds, Begin(r, Snapshot(kind, c, t, token)),
         kind = "complete" => HoldsLease(task[t], c, token)
  PROVE  Core'
<1> DEFINE q == Snapshot(kind, c, t, token)
<1>1. /\ q.kind # "claimLocked" /\ q.kind = kind /\ q.task = t /\ q.snap = task[t]
      /\ q.client = c /\ q.token = token
      /\ Begin(r, q)
  BY DEF Snapshot, SnapKinds
<1>2. kind = "complete" =>
        \E i \in DOMAIN claims : claims[i] = [client |-> c, task |-> t, fence |-> token]
  BY DEF HoldsLease, LeaseInv, Core, RunningHasClaimant
<1> HIDE DEF q
<1> QED BY <1>1, <1>2, BeginCore

(* Every step keeps the inductive invariant.                               *)
LEMMA CoreStep == LeaseInv /\ [Next]_vars => Core'
<1> SUFFICES ASSUME LeaseInv, [Next]_vars
             PROVE  Core'
  OBVIOUS
<1>cancel. ASSUME NEW r \in Requests, NEW t \in Tasks, CancelBegin(r, t)
           PROVE  Core'
  BY <1>cancel, SnapshotCore DEF CancelBegin, SnapKinds
<1>renewBegin. ASSUME NEW r \in Requests, NEW c \in Clients, NEW t \in Tasks,
                      RenewBegin(r, c, t)
               PROVE  Core'
  BY <1>renewBegin, SnapshotCore DEF RenewBegin, SnapKinds
<1>complete. ASSUME NEW r \in Requests, NEW c \in Clients, NEW t \in Tasks,
                    CompleteBegin(r, c, t)
             PROVE  Core'
  BY <1>complete, SnapshotCore DEF CompleteBegin, SnapKinds
<1>fail. ASSUME NEW r \in Requests, NEW c \in Clients, NEW t \in Tasks,
                FailBegin(r, c, t)
         PROVE  Core'
  BY <1>fail, SnapshotCore DEF FailBegin, SnapKinds
<1>expire. ASSUME NEW r \in Requests, NEW c \in Clients, NEW w \in Workers,
                  ExpireBegin(r, c, w)
           PROVE  Core'
  <2>1. PICK i \in DOMAIN claims :
               Begin(r, Snapshot("fail", c, claims[i].task, 0))
    BY <1>expire DEF ExpireBegin
  <2>2. claims[i].task \in Tasks
    <3>1. claims[i] \in Claim
      BY DEF LeaseInv, TypeOK
    <3>2. QED BY <3>1 DEF Claim
  <2>3. "fail" \in SnapKinds /\ "fail" # "complete"
    BY DEF SnapKinds
  <2>4. QED BY <2>1, <2>2, <2>3, SnapshotCore
<1>claimBegin. ASSUME NEW r \in Requests, NEW c \in Clients, NEW t \in Tasks,
                      NEW w \in Workers, ClaimBegin(r, c, w, t)
               PROVE  Core'
  BY <1>claimBegin, BeginCore DEF ClaimBegin, SnapKinds
<1>end. ASSUME NEW r \in Requests,
               ClaimRefused(r) \/ RenewRefused(r) \/ Rollback(r)
        PROVE  Core'
  BY <1>end, EndCore DEF ClaimRefused, RenewRefused, Rollback
<1>worker. ASSUME NEW w \in Workers, WorkerStep(w),
                  ~ \E S \in SUBSET Tasks : Unblock(w, S)
           PROVE  Core'
  BY <1>worker, FrameCore
     DEF WorkerStep, Heartbeat, SetRunStatus, StartFlow, FinishFlow, Bind, ResetBinding
<1>stutter. CASE UNCHANGED vars
  BY <1>stutter, FrameCore DEF vars
<1> QED
  BY <1>cancel, <1>renewBegin, <1>complete, <1>fail, <1>expire, <1>claimBegin, <1>end,
     <1>worker, <1>stutter, ClaimLockCore, ClaimCommitCore, RenewCore, FinishCore,
     UnblockCore, SettleCore, TickCore
     DEF Next, RequestStep, WorkerStep

(* The inductive invariant holds in every reachable state.                  *)
LEMMA LeaseInvariant == Spec => []LeaseInv
<1>1. Init => LeaseInv
  BY TypeInit, CoreInit DEF LeaseInv
<1>2. LeaseInv /\ [Next]_vars => LeaseInv'
  BY TypeStep, CoreStep DEF LeaseInv
<1> QED BY <1>1, <1>2, PTL DEF Spec

-----------------------------------------------------------------------------
(* Whatever requests overlap and whatever clients come and go, no task is  *)
(* claimed twice: this is what the row lock of claim_task is for.          *)
THEOREM ClaimOnce == Spec => []ClaimedAtMostOnce
  BY LeaseInvariant, PTL DEF LeaseInv, Core

(* The lease of a running task is that of a claim that was made.           *)
THEOREM RunningClaimed == Spec => []RunningHasClaimant
  BY LeaseInvariant, PTL DEF LeaseInv, Core

(* Only the client that claimed a task can complete it.                    *)
THEOREM ClaimantCompletes == Spec => []OnlyClaimantCompletes
  BY LeaseInvariant, PTL DEF LeaseInv, Core

-----------------------------------------------------------------------------
(* What a step may do to the rows: leave every row in its phase, close one *)
(* row, or commit the first claim of a pending one.                        *)

KeepsPhases == /\ claims' = claims
               /\ \A t \in Tasks : /\ Phase(task'[t]) = Phase(task[t])
                                   /\ task[t].status = "running" /\ task[t].left = 0
                                          => task'[t].left = 0

ClosesOne == /\ claims' = claims
             /\ \E t \in Tasks : /\ task'[t].status \in Terminal
                                 /\ \A u \in Tasks : u # t => task'[u] = task[u]

HandsOne == \E t \in Tasks, c \in Clients, fence \in Nat :
               /\ task[t].status = "pending" /\ task'[t].status = "running"
               /\ \A u \in Tasks : u # t => task'[u] = task[u]
               /\ claims' = Append(claims, [client |-> c, task |-> t, fence |-> fence])

(* Steps that leave the table and the history alone keep every phase.      *)
LEMMA SameTable == UNCHANGED <<task, claims>> => KeepsPhases
  BY DEF KeepsPhases

(* A claim is committed on a row that is still pending.                    *)
LEMMA CommitHands ==
  ASSUME LeaseInv, NEW r \in Requests, ClaimCommit(r)
  PROVE  HandsOne
<1> DEFINE q == req[r]
           fence == task[q.task].fence + 1
<1>1. q \in Request /\ q.kind = "claimLocked"
  BY DEF ClaimCommit, LeaseInv, TypeOK
<1>2. q.task \in Tasks /\ q.client \in Clients
  BY <1>1 DEF Request, Idle, ClaimRequest, SnapRequest
<1>3. task[q.task].status = "pending"
  BY <1>1 DEF LeaseInv, Core, LockedIsPending
<1>4. fence \in Nat
  BY <1>2 DEF LeaseInv, TypeOK, TaskRow
<1>5. task'[q.task].status = "running" /\ \A u \in Tasks : u # q.task => task'[u] = task[u]
  BY <1>2 DEF ClaimCommit, LeaseInv, TypeOK
<1>6. claims' = Append(claims, [client |-> q.client, task |-> q.task, fence |-> fence])
  BY DEF ClaimCommit
<1> HIDE DEF q, fence
<1> QED BY <1>2, <1>3, <1>4, <1>5, <1>6 DEF HandsOne

(* A renewal never reaches a row whose lease has run out: the snapshot it  *)
(* validated would have run out as well.                                   *)
LEMMA RenewKeeps ==
  ASSUME LeaseInv, NEW r \in Requests, RenewCommit(r)
  PROVE  KeepsPhases
<1> DEFINE q == req[r]
<1>1. q \in Request /\ q.kind = "renew"
  BY DEF RenewCommit, LeaseInv, TypeOK
<1>2. q.task \in Tasks /\ q.snap \in TaskRow
  BY <1>1 DEF Request, Idle, ClaimRequest, SnapRequest
<1>3. task' = [task EXCEPT ![q.task] = [task[q.task] EXCEPT !.left = LeaseTicks]]
  BY DEF RenewCommit
<1>4. task[q.task] \in TaskRow
  BY <1>2 DEF LeaseInv, TypeOK
<1>5. task'[q.task].status = task[q.task].status /\ \A u \in Tasks : u # q.task => task'[u] = task[u]
  BY <1>2, <1>3, <1>4 DEF LeaseInv, TypeOK, TaskRow
<1>6. ~(task[q.task].status = "running" /\ task[q.task].left = 0)
  <2>1. q.snap.status = "running" /\ q.snap.left > 0
    BY DEF RenewCommit, HoldsLease
  <2>2. task[q.task].status = "running" => q.snap.left <= task[q.task].left
    BY <1>1, <2>1 DEF LeaseInv, Core, SnapIsOlder, SnapKinds
  <2>3. q.snap.left \in 0..LeaseTicks
    BY <1>2 DEF TaskRow
  <2> HIDE DEF q
  <2> QED BY <2>1, <2>2, <2>3, LeaseBounds
<1>7. claims' = claims
  BY DEF RenewCommit
<1> HIDE DEF q
<1> QED BY <1>2, <1>5, <1>6, <1>7 DEF KeepsPhases, Phase

(* Every other way to finish closes one row.                               *)
LEMMA FinishCloses ==
  ASSUME LeaseInv, NEW r \in Requests, FinishCommit(r)
  PROVE  ClosesOne
<1> DEFINE t   == req[r].task
           row == Finished(task[t], req[r].snap, Outcome(req[r].kind))
<1>1. /\ req[r].kind \in {"complete", "fail", "cancel"}
      /\ task' = [task EXCEPT ![t] = row] /\ claims' = claims
  BY DEF FinishCommit
<1>2. t \in Tasks
  BY <1>1 DEF LeaseInv, TypeOK, Request, Idle, ClaimRequest, SnapRequest
<1>3. row.status \in Terminal
  <2>1. Outcome(req[r].kind) \in Terminal
    BY <1>1 DEF Outcome, Terminal
  <2>2. task[t] \in TaskRow
    BY <1>2 DEF LeaseInv, TypeOK
  <2>3. QED BY <2>1, <2>2 DEF Finished, TaskRow
<1> HIDE DEF row, t
<1>4. task'[t].status \in Terminal /\ \A u \in Tasks : u # t => task'[u] = task[u]
  BY <1>1, <1>2, <1>3 DEF LeaseInv, TypeOK
<1> QED BY <1>1, <1>2, <1>4 DEF ClosesOne

(* Settling a reply closes its row, whatever its status was.               *)
LEMMA SettleCloses ==
  ASSUME LeaseInv, NEW t \in Tasks, SettleReply(t)
  PROVE  ClosesOne
<1>1. PICK status \in {"completed", "failed"} :
             task' = [task EXCEPT ![t] = Finished(task[t], task[t], status)]
  BY DEF SettleReply
<1>2. Finished(task[t], task[t], status).status \in Terminal
  <2>1. task[t] \in TaskRow
    BY DEF LeaseInv, TypeOK
  <2>2. QED BY <2>1 DEF Finished, TaskRow, Terminal
<1>3. task'[t].status \in Terminal /\ \A u \in Tasks : u # t => task'[u] = task[u]
  BY <1>1, <1>2 DEF LeaseInv, TypeOK
<1>4. claims' = claims
  BY DEF SettleReply
<1> QED BY <1>3, <1>4 DEF ClosesOne

(* Unblocking moves rows among the statuses that wait.                     *)
LEMMA UnblockKeeps ==
  ASSUME LeaseInv, NEW w \in Workers, NEW S \in SUBSET Tasks, Unblock(w, S)
  PROVE  KeepsPhases
<1>1. /\ \A t \in S : task[t].status = "blocked" /\ task'[t].status = "pending"
      /\ \A t \in Tasks \ S : task'[t] = task[t]
      /\ claims' = claims
  <2>1. \A t \in Tasks : task[t] \in TaskRow
    BY DEF LeaseInv, TypeOK
  <2>2. QED BY <2>1 DEF Unblock, TaskRow
<1> QED BY <1>1 DEF KeepsPhases, Phase, Terminal

(* Time leaves the statuses alone and a lease that ran out at zero.        *)
LEMMA TickKeeps ==
  ASSUME LeaseInv, Tick
  PROVE  KeepsPhases
<1>1. \A t \in Tasks : /\ task'[t].status = task[t].status
                       /\ task[t].left = 0 => task'[t].left = 0
  <2>1. \A t \in Tasks : task[t] \in TaskRow
    BY DEF LeaseInv, TypeOK
  <2>2. QED BY <2>1 DEF Tick, Aged, TaskRow
<1> QED BY <1>1 DEF KeepsPhases, Phase, Tick

(* Every step is, for the table, one of the three steps of a one-shot task.  *)
LEMMA RowStep == LeaseInv /\ [Next]_vars => KeepsPhases \/ ClosesOne \/ HandsOne
<1> SUFFICES ASSUME LeaseInv, [Next]_vars
             PROVE  KeepsPhases \/ ClosesOne \/ HandsOne
  OBVIOUS
<1>begin. ASSUME NEW r \in Requests, NEW q, Begin(r, q)
          PROVE  KeepsPhases
  BY <1>begin, SameTable DEF Begin
<1>snap. ASSUME NEW r \in Requests, NEW c \in Clients, NEW t \in Tasks,
                \/ CancelBegin(r, t) \/ RenewBegin(r, c, t)
                \/ CompleteBegin(r, c, t) \/ FailBegin(r, c, t)
         PROVE  KeepsPhases
  BY <1>snap, <1>begin DEF CancelBegin, RenewBegin, CompleteBegin, FailBegin
<1>cancel. ASSUME NEW r \in Requests, NEW t \in Tasks, CancelBegin(r, t)
           PROVE  KeepsPhases
  BY <1>cancel, <1>begin DEF CancelBegin
<1>expire. ASSUME NEW r \in Requests, NEW c \in Clients, NEW w \in Workers,
                  ExpireBegin(r, c, w)
           PROVE  KeepsPhases
  BY <1>expire, <1>begin DEF ExpireBegin
<1>claim. ASSUME NEW r \in Requests, NEW c \in Clients, NEW t \in Tasks,
                 NEW w \in Workers, ClaimBegin(r, c, w, t)
          PROVE  KeepsPhases
  BY <1>claim, <1>begin DEF ClaimBegin
<1>end. ASSUME NEW r \in Requests,
               ClaimLock(r) \/ ClaimRefused(r) \/ RenewRefused(r) \/ Rollback(r)
        PROVE  KeepsPhases
  BY <1>end, SameTable DEF ClaimLock, ClaimRefused, RenewRefused, Rollback
<1>worker. ASSUME NEW w \in Workers, WorkerStep(w),
                  ~ \E S \in SUBSET Tasks : Unblock(w, S)
           PROVE  KeepsPhases
  BY <1>worker, SameTable
     DEF WorkerStep, Heartbeat, SetRunStatus, StartFlow, FinishFlow, Bind, ResetBinding
<1>stutter. CASE UNCHANGED vars
  BY <1>stutter, SameTable DEF vars
<1> QED
  BY <1>snap, <1>cancel, <1>expire, <1>claim, <1>end, <1>worker, <1>stutter,
     CommitHands, RenewKeeps, FinishCloses, SettleCloses, UnblockKeeps, TickKeeps
     DEF Next, RequestStep, WorkerStep

(* A finished task is never run again, whichever requests commit late.     *)
THEOREM TerminalForGood == Spec => TerminalNeverRunsAgain
<1>1. LeaseInv /\ [Next]_vars =>
        [\A t \in Tasks : task[t].status \in Terminal => task'[t].status \in Terminal]_vars
  <2> SUFFICES ASSUME LeaseInv, [Next]_vars, NEW t \in Tasks, task[t].status \in Terminal
               PROVE  task'[t].status \in Terminal
    OBVIOUS
  <2>1. CASE KeepsPhases
    <3>1. Phase(task'[t]) = "over"
      BY <2>1 DEF KeepsPhases, Phase
    <3> QED BY <3>1 DEF Phase
  <2>2. CASE ClosesOne
    BY <2>2 DEF ClosesOne
  <2>3. CASE HandsOne
    BY <2>3 DEF HandsOne, Terminal
  <2> QED BY <2>1, <2>2, <2>3, RowStep
<1> QED BY <1>1, LeaseInvariant, PTL DEF Spec, TerminalNeverRunsAgain

(* A lease that ran out is never renewed, although the renewal decides on  *)
(* the row as it was before the lock.                                      *)
THEOREM ExpiredForGood == Spec => ExpiredLeaseStaysExpired
<1>1. LeaseInv /\ [Next]_vars =>
        [\A t \in Tasks :
            task[t].status = "running" /\ task[t].left = 0
            /\ task'[t].status = "running" => task'[t].left = 0]_vars
  <2> SUFFICES ASSUME LeaseInv, [Next]_vars, NEW t \in Tasks,
                      task[t].status = "running", task[t].left = 0,
                      task'[t].status = "running"
               PROVE  task'[t].left = 0
    OBVIOUS
  <2>1. CASE KeepsPhases
    BY <2>1 DEF KeepsPhases
  <2>2. CASE ClosesOne
    BY <2>2 DEF ClosesOne, Terminal
  <2>3. CASE HandsOne
    BY <2>3 DEF HandsOne
  <2> QED BY <2>1, <2>2, <2>3, RowStep
<1> QED BY <1>1, LeaseInvariant, PTL DEF Spec, ExpiredLeaseStaysExpired

(* The table, with its locks, snapshots and clock, implements the one-shot *)
(* task: a committed claim is its Hand, the first terminal write its Close *)
(* and every other step, a second terminal write included, a stutter.      *)
THEOREM Refines == Spec => ImplementsOneShot
<1> DEFINE phase   == [t \in Tasks |-> Phase(task[t])]
           runners == [t \in Tasks |-> {c \in Clients : \E i \in DOMAIN claims :
                                         claims[i].task = t /\ claims[i].client = c}]
<1>1. Init => OneShot!Init
  <2> SUFFICES ASSUME Init
               PROVE  OneShot!Init
    OBVIOUS
  <2>1. \A t \in Tasks : task[t].status \in {"blocked", "pending"}
    BY DEF Init, NewRow
  <2>2. phase = [t \in Tasks |-> "waiting"]
    BY <2>1 DEF Phase, Terminal
  <2>3. DOMAIN claims = {}
    BY DEF Init
  <2>4. runners = [t \in Tasks |-> {}]
    BY <2>3
  <2> QED BY <2>2, <2>4 DEF OneShot!Init
<1>2. LeaseInv /\ [Next]_vars => [OneShot!Next]_(OneShot!vars)
  <2> SUFFICES ASSUME LeaseInv, [Next]_vars
               PROVE  OneShot!Next \/ UNCHANGED <<phase, runners>>
    BY DEF OneShot!vars
  <2>1. CASE KeepsPhases
    <3>1. \A t \in Tasks : phase'[t] = phase[t]
      BY <2>1 DEF KeepsPhases
    <3> QED BY <2>1, <3>1 DEF KeepsPhases
  <2>2. CASE ClosesOne
    <3>1. PICK t \in Tasks : /\ task'[t].status \in Terminal
                             /\ \A u \in Tasks : u # t => task'[u] = task[u]
      BY <2>2 DEF ClosesOne
    <3>2. phase'[t] = "over" /\ \A u \in Tasks : u # t => phase'[u] = phase[u]
      BY <3>1 DEF Phase
    <3>3. runners' = runners
      BY <2>2 DEF ClosesOne
    <3>4. CASE phase[t] = "over"
      BY <3>2, <3>3, <3>4
    <3>5. CASE phase[t] # "over"
      <4>1. phase' = [phase EXCEPT ![t] = "over"]
        BY <3>2
      <4> QED BY <3>3, <3>5, <4>1 DEF OneShot!Next, OneShot!Close
    <3> QED BY <3>4, <3>5
  <2>3. CASE HandsOne
    <3>1. PICK t \in Tasks, c \in Clients, fence \in Nat :
                /\ task[t].status = "pending" /\ task'[t].status = "running"
                /\ \A u \in Tasks : u # t => task'[u] = task[u]
                /\ claims' = Append(claims, [client |-> c, task |-> t, fence |-> fence])
      BY <2>3 DEF HandsOne
    <3>2. phase[t] = "waiting" /\ phase'[t] = "handed"
      BY <3>1 DEF Phase, Terminal
    <3>3. phase' = [phase EXCEPT ![t] = "handed"]
      BY <3>1, <3>2
    <3>4. \A i \in DOMAIN claims : claims[i].task # t
      BY <3>1 DEF LeaseInv, Core, ClaimedIsPast, Waiting
    <3>5. /\ DOMAIN claims = 1..Len(claims) /\ DOMAIN claims' = 1..(Len(claims) + 1)
          /\ Len(claims) \in Nat
          /\ claims'[Len(claims) + 1] = [client |-> c, task |-> t, fence |-> fence]
          /\ \A i \in DOMAIN claims : claims'[i] = claims[i]
      BY <3>1 DEF LeaseInv, TypeOK
    <3>6. runners'[t] = {c}
      BY <3>4, <3>5
    <3>7. \A u \in Tasks : u # t => runners'[u] = runners[u]
      BY <3>5
    <3>8. runners' = [runners EXCEPT ![t] = {c}]
      BY <3>6, <3>7
    <3> QED BY <3>2, <3>3, <3>8 DEF OneShot!Next, OneShot!Hand
  <2> QED BY <2>1, <2>2, <2>3, RowStep
<1> QED BY <1>1, <1>2, LeaseInvariant, PTL DEF Spec, ImplementsOneShot, OneShot!Spec

=============================================================================
