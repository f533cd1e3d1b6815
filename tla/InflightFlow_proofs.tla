------------------------ MODULE InflightFlow_proofs ------------------------
(***************************************************************************)
(* Proofs about InflightFlow for any sets of tasks and reads and any       *)
(* number of losses and restarts.                                          *)
(*                                                                         *)
(* FlowInv strengthens TypeOK: which thread may be where and what it then  *)
(* holds (Places, Locks), and what the server knows of the flow the task   *)
(* loop is executing (Registered).  The last part maps every step to one   *)
(* of OneFlow or to none, with the three facts of DutyInv.                 *)
(***************************************************************************)
EXTENDS InflightFlow, TLAPS

\* Labels of the task loop inside the section guarded by task_lock.
Inside == {"pull", "pulled", "start", "startCall", "record", "claim", "claimCall",
           "claimed", "work", "report", "finish"}

\* Those at which it has a task in hand, and those at which it executes it.
Holding == {"pulled", "start", "startCall", "record", "claim", "claimCall",
            "claimed", "work", "report", "finish"}

Executing == {"claim", "claimCall", "claimed", "work", "report", "finish"}

\* Labels of the C2 listener at which it has a flow for its read.
Reading == {"start", "startCall", "record", "enter", "await", "work"}

Places ==
    /\ pc["task"].at \in Holding => pc["task"].flow \in Tasks
    /\ pc["c2"].own => pc["c2"].flow \in Reads
    /\ pc["c2"].at \in {"start", "startCall", "record"} => pc["c2"].own
    /\ pc["c2"].at \in Reading => pc["c2"].flow \in Flows
    /\ mem.current # None => pc["task"].at \in Executing

Locks ==
    /\ pc["task"].at \in Inside => taskLock = "task"
    /\ pc["c2"].at = "work" <=> uiLock = "c2"
    /\ taskLock = "task" => pc["c2"].at # "work"

\* A task under way has its flow registered, or is over.
Registered ==
    pc["task"].at \in {"record", "claim", "claimCall"} =>
        \/ server.flow = pc["task"].flow
        \/ status[pc["task"].flow] = "over"

Core == Places /\ Locks /\ Registered /\ RunningIsRegistered

FlowInv == TypeOK /\ Core

(* Moving a thread keeps the type of pc. *)
LEMMA GoType ==
  ASSUME pc \in [Threads -> Place], NEW th \in Threads, NEW label \in Labels, Go(th, label)
  PROVE pc' \in [Threads -> Place]
  BY DEF Go, Place

(* So does sending it back to its loop. *)
LEMMA HomeType ==
  ASSUME pc \in [Threads -> Place], taskLock \in {"task", None},
         NEW th \in Threads, GoHome(th)
  PROVE pc' \in [Threads -> Place] /\ taskLock' \in {"task", None}
  <1>1. AtHome \in [Threads -> Place]
    BY DEF AtHome, Home, Threads, Place, Labels, FlowOrNone
  <1> QED
    BY <1>1 DEF GoHome, Place

(* So does the end of _finish_inflight_flow. *)
LEMMA FinishedType ==
  ASSUME pc \in [Threads -> Place], taskLock \in {"task", None},
         NEW th \in Threads, Finished(th)
  PROVE pc' \in [Threads -> Place] /\ taskLock' \in {"task", None}
  <1>1. AtHome \in [Threads -> Place]
    BY DEF AtHome, Home, Threads, Place, Labels, FlowOrNone
  <1>2. [AtHome[th] EXCEPT !.at = "gate"] \in Place
    BY <1>1 DEF Place, Labels
  <1> QED
    BY <1>1, <1>2, HomeType DEF Finished, Place

(* A call that may be lost keeps the allowance a pair of naturals. *)
LEMMA SpendType ==
  ASSUME budget \in Allowance, NEW fate, Spend(fate) PROVE budget' \in Allowance
   BY InflightFlowAssumption DEF Spend, Allowance

(* So does the barrier the type of what is on disk. *)
LEMMA ReplayType ==
  ASSUME disk \in OnDisk, NEW passes, Replay(passes)
  PROVE disk' \in OnDisk /\ disk'.flow = disk.flow
  BY DEF Replay, OnDisk

(* Every step keeps the types.                                            *)
LEMMA TypeStep ==
  ASSUME TypeOK, Places, [Next]_vars PROVE TypeOK'
  <1> USE InflightFlowAssumption
  <1>1. ASSUME ClickPause PROVE TypeOK'
    <2>1. disk' \in OnDisk
      BY <1>1 DEF ClickPause, TypeOK, OnDisk
    <2>2. click' \in LastClick
      BY <1>1 DEF ClickPause, TypeOK, LastClick
    <2> QED
      BY <1>1, <2>1, <2>2 DEF ClickPause, TypeOK
  <1>2. ASSUME ClickStart PROVE TypeOK'
    BY <1>2 DEF ClickStart, TypeOK, LastClick
  <1>3. ASSUME ClickAnswered PROVE TypeOK'
    <2>1. disk' \in OnDisk
      BY <1>3 DEF ClickAnswered, TypeOK, OnDisk
    <2>2. mem' \in InMemory
      BY <1>3 DEF ClickAnswered, TypeOK, InMemory, LastClick
    <2>3. click' \in LastClick
      BY <1>3 DEF ClickAnswered, TypeOK, LastClick
    <2> QED
      BY <1>3, <2>1, <2>2, <2>3 DEF ClickAnswered, TypeOK
  <1>4. ASSUME ClickFailed PROVE TypeOK'
    <2>1. disk' \in OnDisk
      BY <1>4 DEF ClickFailed, TypeOK, OnDisk
    <2>2. mem' \in InMemory
      BY <1>4 DEF ClickFailed, TypeOK, InMemory
    <2>3. click' \in LastClick
      BY <1>4 DEF ClickFailed, TypeOK, LastClick
    <2> QED
      BY <1>4, <2>1, <2>2, <2>3 DEF ClickFailed, TypeOK
  <1>5. ASSUME Tick PROVE TypeOK'
    BY <1>5, GoType DEF Tick, TypeOK, Threads, Labels
  <1>6. ASSUME TickSync PROVE TypeOK'
    BY <1>6, GoType DEF TickSync, TypeOK, Threads, Labels
  <1>7. ASSUME SyncAnswered PROVE TypeOK'
    <2>1. disk' \in OnDisk
      BY <1>7 DEF SyncAnswered, TypeOK, OnDisk
    <2>2. mem' \in InMemory
      BY <1>7 DEF SyncAnswered, TypeOK, InMemory
    <2>3. pc' \in [Threads -> Place]
      BY <1>7, GoType DEF SyncAnswered, TypeOK, Threads, Labels
    <2> QED
      BY <1>7, <2>1, <2>2, <2>3 DEF SyncAnswered, TypeOK
  <1>8. ASSUME BeatAnswered PROVE TypeOK'
    <2>1. disk' \in OnDisk
      BY <1>8 DEF BeatAnswered, TypeOK, OnDisk, Registration
    <2>2. mem' \in InMemory
      BY <1>8 DEF BeatAnswered, TypeOK, InMemory, Registration
    <2>3. pc' \in [Threads -> Place]
      BY <1>8, GoType DEF BeatAnswered, TypeOK, Threads, Labels
    <2>4. beat' \in Registration
      BY <1>8 DEF BeatAnswered, TypeOK, Registration, NoBeat, FlowOrNone
    <2> QED
      BY <1>8, <2>1, <2>2, <2>3, <2>4 DEF BeatAnswered, TypeOK
  <1>9. ASSUME NothingToRecover PROVE TypeOK'
    BY <1>9, GoType DEF NothingToRecover, TypeOK, Threads, Labels
  <1>10. ASSUME Gate PROVE TypeOK'
    BY <1>10, GoType DEF Gate, TypeOK, Threads, Labels
  <1>11. ASSUME Lock PROVE TypeOK'
    <2>1. taskLock' \in {"task", None}
      BY <1>11 DEF Lock, TypeOK
    <2>2. pc' \in [Threads -> Place]
      BY <1>11, GoType DEF Lock, TypeOK, Threads, Labels
    <2>3. disk' \in OnDisk
      BY <1>11, ReplayType DEF Lock, TypeOK
    <2> QED
      BY <1>11, <2>1, <2>2, <2>3 DEF Lock, TypeOK
  <1>12. ASSUME Pulled PROVE TypeOK'
    <2>1. pc' \in [Threads -> Place] /\ taskLock' \in {"task", None}
      BY <1>12, HomeType, GoType DEF Pulled, TypeOK, Threads, Labels
    <2> QED
      BY <1>12, <2>1 DEF Pulled, TypeOK
  <1>13. ASSUME Claim PROVE TypeOK'
    BY <1>13, GoType DEF Claim, TypeOK, Threads, Labels
  <1>14. ASSUME Claimed PROVE TypeOK'
    <2>1. uiLock' \in Threads \cup {None}
      BY <1>14 DEF Claimed, TypeOK, Threads
    <2>2. pc' \in [Threads -> Place]
      BY <1>14, GoType DEF Claimed, TypeOK, Threads, Labels
    <2> QED
      BY <1>14, <2>1, <2>2 DEF Claimed, TypeOK
  <1>15. ASSUME Finish PROVE TypeOK'
    <2>1. mem' \in InMemory
      BY <1>15 DEF Finish, TypeOK, InMemory, FlowOrNone
    <2>2. pc' \in [Threads -> Place]
      BY <1>15, GoType DEF Finish, TypeOK, Threads, Labels
    <2> QED
      BY <1>15, <2>1, <2>2 DEF Finish, TypeOK
  <1>16. ASSUME Scan PROVE TypeOK'
    <2>1. pc' \in [Threads -> Place] /\ disk' \in OnDisk
      BY <1>16, GoType, ReplayType DEF Scan, TypeOK, Threads, Labels
    <2> QED
      BY <1>16, <2>1 DEF Scan, TypeOK
  <1>17. ASSUME Adopt PROVE TypeOK'
    <2>1. mem' \in InMemory
      BY <1>17 DEF Adopt, TypeOK, InMemory, OnDisk
    <2>2. pc' \in [Threads -> Place]
      BY <1>17 DEF Adopt, TypeOK, Place, Labels, Threads, FlowOrNone, Flows, OnDisk
    <2> QED
      BY <1>17, <2>1, <2>2 DEF Adopt, TypeOK
  <1>18. ASSUME Enter PROVE TypeOK'
    BY <1>18, GoType DEF Enter, TypeOK, Threads, Labels
  <1>19. ASSUME Await PROVE TypeOK'
    <2>1. uiLock' \in Threads \cup {None}
      BY <1>19 DEF Await, TypeOK, Threads
    <2>2. pc' \in [Threads -> Place]
      BY <1>19, GoType DEF Await, TypeOK, Threads, Labels
    <2>3. disk' \in OnDisk
      BY <1>19, ReplayType DEF Await, TypeOK
    <2> QED
      BY <1>19, <2>1, <2>2, <2>3 DEF Await, TypeOK
  <1>20. ASSUME ReadWork PROVE TypeOK'
    <2>1. uiLock' \in Threads \cup {None}
      BY <1>20 DEF ReadWork, TypeOK, Threads
    <2>2. pc' \in [Threads -> Place]
      BY <1>20, GoType DEF ReadWork, TypeOK, Threads, Labels
    <2> QED
      BY <1>20, <2>1, <2>2 DEF ReadWork, TypeOK
  <1>21. ASSUME Leave PROVE TypeOK'
    <2>1. pc' \in [Threads -> Place] /\ taskLock' \in {"task", None}
      BY <1>21, HomeType, GoType DEF Leave, TypeOK, Threads, Labels
    <2>2. status' \in [Flows -> {"pending", "running", "over"}]
      BY <1>21 DEF Leave, TypeOK, Flows
    <2>3. disk' \in OnDisk
      BY <1>21 DEF Leave, TypeOK, OnDisk, Places
    <2> QED
      BY <1>21, <2>1, <2>2, <2>3 DEF Leave, TypeOK
  <1>22. ASSUME Restart PROVE TypeOK'
    <2>1. mem' \in InMemory
      BY <1>22 DEF Restart, TypeOK, InMemory, Started, FlowOrNone, OnDisk
    <2>2. taskLock' \in {"task", None}
      BY <1>22 DEF Restart, TypeOK
    <2>3. uiLock' \in Threads \cup {None}
      BY <1>22 DEF Restart, TypeOK, Threads
    <2>4. pc' \in [Threads -> Place]
      BY <1>22 DEF Restart, TypeOK, Place, Labels, Threads, FlowOrNone, Flows, AtHome, Home
    <2>5. beat' \in Registration
      BY <1>22 DEF Restart, TypeOK, Registration, NoBeat, FlowOrNone
    <2>6. click' \in LastClick
      BY <1>22 DEF Restart, TypeOK, LastClick, FlowOrNone
    <2>7. budget' \in Allowance
      BY <1>22 DEF Restart, TypeOK, Allowance
    <2> QED
      BY <1>22, <2>1, <2>2, <2>3, <2>4, <2>5, <2>6, <2>7 DEF Restart, TypeOK
  <1>23. ASSUME NEW fate \in Fates, ClickCall(fate) PROVE TypeOK'
    <2>1. server' \in Registration
      BY <1>23 DEF ClickCall, TypeOK, Registration
    <2>2. click' \in LastClick
      BY <1>23 DEF ClickCall, TypeOK, LastClick, Registration
    <2>3. budget' \in Allowance
      BY <1>23, SpendType DEF ClickCall, TypeOK
    <2> QED
      BY <1>23, <2>1, <2>2, <2>3 DEF ClickCall, TypeOK
  <1>24. ASSUME NEW fate \in Fates, SyncCall(fate) PROVE TypeOK'
    <2>1. server' \in Registration
      BY <1>24 DEF SyncCall, TypeOK, Registration
    <2>2. pc' \in [Threads -> Place]
      BY <1>24, GoType DEF SyncCall, TypeOK, Threads, Labels
    <2>3. budget' \in Allowance
      BY <1>24, SpendType DEF SyncCall, TypeOK
    <2> QED
      BY <1>24, <2>1, <2>2, <2>3 DEF SyncCall, TypeOK
  <1>25. ASSUME NEW fate \in Fates, BeatCall(fate) PROVE TypeOK'
    <2>1. pc' \in [Threads -> Place]
      BY <1>25, GoType DEF BeatCall, TypeOK, Threads, Labels
    <2>2. beat' \in Registration
      BY <1>25 DEF BeatCall, TypeOK, Registration
    <2>3. budget' \in Allowance
      BY <1>25, SpendType DEF BeatCall, TypeOK
    <2> QED
      BY <1>25, <2>1, <2>2, <2>3 DEF BeatCall, TypeOK
  <1>26. ASSUME NEW fate \in Fates, PullFailed(fate) PROVE TypeOK'
    <2>1. pc' \in [Threads -> Place] /\ taskLock' \in {"task", None}
      BY <1>26, HomeType DEF PullFailed, TypeOK, Threads
    <2>2. budget' \in Allowance
      BY <1>26, SpendType DEF PullFailed, TypeOK
    <2> QED
      BY <1>26, <2>1, <2>2 DEF PullFailed, TypeOK
  <1>27. ASSUME NEW fate \in Fates, ClaimCall(fate) PROVE TypeOK'
    <2>1. status' \in [Flows -> {"pending", "running", "over"}]
      BY <1>27 DEF ClaimCall, TypeOK, Flows
    <2>2. pc' \in [Threads -> Place]
      BY <1>27, GoType DEF ClaimCall, TypeOK, Threads, Labels
    <2>3. budget' \in Allowance
      BY <1>27, SpendType DEF ClaimCall, TypeOK
    <2> QED
      BY <1>27, <2>1, <2>2, <2>3 DEF ClaimCall, TypeOK
  <1>28. ASSUME NEW fate \in Fates, Work(fate) PROVE TypeOK'
    <2>1. uiLock' \in Threads \cup {None}
      BY <1>28 DEF Work, TypeOK, Threads
    <2>2. pc' \in [Threads -> Place]
      BY <1>28, GoType DEF Work, TypeOK, Threads, Labels
    <2>3. budget' \in Allowance
      BY <1>28, SpendType DEF Work, TypeOK
    <2> QED
      BY <1>28, <2>1, <2>2, <2>3 DEF Work, TypeOK
  <1>29. ASSUME NEW fate \in Fates, Report(fate) PROVE TypeOK'
    <2>1. status' \in [Flows -> {"pending", "running", "over"}]
      BY <1>29 DEF Report, TypeOK, Flows
    <2>2. pc' \in [Threads -> Place]
      BY <1>29, GoType DEF Report, TypeOK, Threads, Labels
    <2>3. budget' \in Allowance
      BY <1>29, SpendType DEF Report, TypeOK
    <2> QED
      BY <1>29, <2>1, <2>2, <2>3 DEF Report, TypeOK
  <1>30. ASSUME NEW fate \in Fates, MonitorSync(fate) PROVE TypeOK'
    <2>1. server' \in Registration
      BY <1>30 DEF MonitorSync, TypeOK, Registration
    <2>2. disk' \in OnDisk
      BY <1>30 DEF MonitorSync, TypeOK, OnDisk
    <2>3. mem' \in InMemory
      BY <1>30 DEF MonitorSync, TypeOK, InMemory
    <2>4. budget' \in Allowance
      BY <1>30, SpendType DEF MonitorSync, TypeOK
    <2> QED
      BY <1>30, <2>1, <2>2, <2>3, <2>4 DEF MonitorSync, TypeOK
  <1>31. ASSUME NEW th \in Threads, Recover(th) PROVE TypeOK'
    BY <1>31 DEF Recover, TypeOK, Place, Labels, Threads, FlowOrNone, Flows, InMemory,
       Settleable
  <1>32. ASSUME NEW th \in Threads, Start(th) PROVE TypeOK'
    <2>1. pc' \in [Threads -> Place] /\ taskLock' \in {"task", None}
      BY <1>32, HomeType, GoType DEF Start, TypeOK, Threads, Labels
    <2> QED
      BY <1>32, <2>1 DEF Start, TypeOK
  <1>33. ASSUME NEW th \in Threads, Record(th) PROVE TypeOK'
    <2>1. disk' \in OnDisk
      BY <1>33 DEF Record, TypeOK, OnDisk, Place
    <2>2. mem' \in InMemory
      BY <1>33 DEF Record, TypeOK, InMemory, Places, Place, Holding, FlowOrNone, Flows
    <2>3. pc' \in [Threads -> Place]
      BY <1>33, GoType DEF Record, TypeOK, Threads, Labels
    <2> QED
      BY <1>33, <2>1, <2>2, <2>3 DEF Record, TypeOK
  <1>34. ASSUME NEW th \in Threads, Crash(th) PROVE TypeOK'
    <2>1. disk' \in OnDisk
      BY <1>34 DEF Crash, TypeOK, OnDisk
    <2>2. mem' \in InMemory
      BY <1>34 DEF Crash, TypeOK, InMemory
    <2>3. taskLock' \in {"task", None}
      BY <1>34 DEF Crash, TypeOK
    <2>4. pc' \in [Threads -> Place]
      BY <1>34, GoType DEF Crash, TypeOK, Threads, Labels
    <2> QED
      BY <1>34, <2>1, <2>2, <2>3, <2>4 DEF Crash, TypeOK
  <1>35. ASSUME NEW th \in Threads, FinishBlocked(th) PROVE TypeOK'
    <2>1. pc' \in [Threads -> Place] /\ taskLock' \in {"task", None}
      BY <1>35, FinishedType DEF FinishBlocked, TypeOK, Threads
    <2> QED
      BY <1>35, <2>1 DEF FinishBlocked, TypeOK
  <1>36. ASSUME NEW th \in Threads, FinishLocal(th) PROVE TypeOK'
    <2>1. pc' \in [Threads -> Place] /\ taskLock' \in {"task", None}
      BY <1>36, FinishedType, GoType DEF FinishLocal, TypeOK, Threads, Labels
    <2>2. disk' \in OnDisk
      BY <1>36 DEF FinishLocal, TypeOK, OnDisk, FlowOrNone
    <2>3. mem' \in InMemory
      BY <1>36 DEF FinishLocal, TypeOK, InMemory, FlowOrNone
    <2> QED
      BY <1>36, <2>1, <2>2, <2>3 DEF FinishLocal, TypeOK
  <1>37. ASSUME NEW th \in Threads, FinishForget(th) PROVE TypeOK'
    <2>1. pc' \in [Threads -> Place] /\ taskLock' \in {"task", None}
      BY <1>37, FinishedType DEF FinishForget, TypeOK, Threads
    <2>2. disk' \in OnDisk
      BY <1>37 DEF FinishForget, TypeOK, OnDisk
    <2>3. mem' \in InMemory
      BY <1>37 DEF FinishForget, TypeOK, InMemory, FlowOrNone
    <2> QED
      BY <1>37, <2>1, <2>2, <2>3 DEF FinishForget, TypeOK
  <1>38. ASSUME NEW th \in Threads, NEW fate \in Fates, StartCall(th, fate) PROVE TypeOK'
    <2>1. server' \in Registration
      BY <1>38 DEF StartCall, TypeOK, Registration, Place
    <2>2. status' \in [Flows -> {"pending", "running", "over"}]
      BY <1>38 DEF StartCall, TypeOK, Flows
    <2>3. pc' \in [Threads -> Place]
      BY <1>38, GoType DEF StartCall, TypeOK, Threads, Labels
    <2>4. budget' \in Allowance
      BY <1>38, SpendType DEF StartCall, TypeOK
    <2> QED
      BY <1>38, <2>1, <2>2, <2>3, <2>4 DEF StartCall, TypeOK
  <1>39. ASSUME NEW th \in Threads, NEW fate \in Fates, FinishCall(th, fate) PROVE TypeOK'
    <2>1. pc' \in [Threads -> Place] /\ taskLock' \in {"task", None}
      BY <1>39, FinishedType, GoType DEF FinishCall, TypeOK, Threads, Labels
    <2>2. server' \in Registration
      BY <1>39 DEF FinishCall, TypeOK, Registration, FlowOrNone
    <2>3. budget' \in Allowance
      BY <1>39, SpendType DEF FinishCall, TypeOK
    <2> QED
      BY <1>39, <2>1, <2>2, <2>3 DEF FinishCall, TypeOK
  <1>40. ASSUME NEW t \in Tasks, PullCall(t) PROVE TypeOK'
    BY <1>40 DEF PullCall, TypeOK, Place, Labels, Threads, FlowOrNone, Flows
  <1>41. ASSUME NEW f \in Reads, Read(f) PROVE TypeOK'
    BY <1>41 DEF Read, TypeOK, Place, Labels, Threads, FlowOrNone, Flows
  <1>42. ASSUME NEW t \in Tasks, AdminCancel(t) PROVE TypeOK'
    BY <1>42 DEF AdminCancel, TypeOK, Flows
  <1>47. ASSUME Barrier PROVE TypeOK'
    <2>1. pc' \in [Threads -> Place] /\ disk' \in OnDisk
      BY <1>47, GoType, ReplayType DEF Barrier, TypeOK, Threads, Labels
    <2> QED
      BY <1>47, <2>1 DEF Barrier, TypeOK
  <1>48. ASSUME LockRefused PROVE TypeOK'
    <2>1. pc' \in [Threads -> Place] /\ disk' \in OnDisk
      BY <1>48, GoType, ReplayType DEF LockRefused, TypeOK, Threads, Labels
    <2> QED
      BY <1>48, <2>1 DEF LockRefused, TypeOK
  <1>49. ASSUME Settle PROVE TypeOK'
    BY <1>49, ReplayType DEF Settle, TypeOK
  <1>50. ASSUME NEW th \in Threads, KeepFact(th) PROVE TypeOK'
    <2>1. pc[th].flow \in Flows
      BY <1>50 DEF KeepFact, Places, Holding, Reading, Threads, Flows
    <2>2. disk' \in OnDisk
      BY <1>50, <2>1 DEF KeepFact, TypeOK, OnDisk
    <2> QED
      BY <1>50, <2>2 DEF KeepFact, TypeOK
  <1>43. CASE UNCHANGED vars
    BY <1>43 DEF vars, TypeOK
  <1>44. ASSUME NEW th \in Threads, FlowStep(th) PROVE TypeOK'
    BY <1>44, <1>31, <1>32, <1>33, <1>34, <1>35, <1>36, <1>37, <1>38, <1>39 DEF FlowStep
  <1>45. CASE TaskStep
    BY <1>44, <1>45, <1>5, <1>6, <1>7, <1>8, <1>9, <1>10, <1>11, <1>12, <1>13, <1>14,
       <1>15, <1>40, <1>47, <1>48,
       <1>24, <1>25, <1>26, <1>27, <1>28, <1>29 DEF TaskStep, Threads
  <1>46. CASE C2Step
    BY <1>44, <1>46, <1>49, <1>16, <1>17, <1>18, <1>19, <1>20, <1>21, <1>41
    DEF C2Step, Threads
  <1> QED
    BY <1>43, <1>45, <1>46, <1>1, <1>2, <1>3, <1>4, <1>23, <1>30, <1>22, <1>42,
       <1>50 DEF Next, Monitor, ClickReturns

(* Where a thread is after Go; the other one stays where it is. *)
LEMMA GoPlace ==
  ASSUME pc \in [Threads -> Place], NEW th \in Threads, NEW label, Go(th, label)
  PROVE  /\ pc'[th].at = label /\ pc'[th].flow = pc[th].flow /\ pc'[th].own = pc[th].own
         /\ \A o \in Threads \ {th} : pc'[o] = pc[o]
  BY DEF Go, Place

(* Where a thread is after GoHome, and whether it still holds task_lock. *)
LEMMA HomePlace ==
  ASSUME pc \in [Threads -> Place], NEW th \in Threads, GoHome(th)
  PROVE  /\ pc'[th].at \in {"tick", "scan"} /\ pc'[th].own = FALSE
         /\ \A o \in Threads \ {th} : pc'[o] = pc[o]
         /\ taskLock' = IF taskLock = th THEN None ELSE taskLock
  BY DEF GoHome, AtHome, Home, Threads

(* Where a thread is after Finished, and whether it still holds task_lock. *)
LEMMA FinishedPlace ==
  ASSUME pc \in [Threads -> Place], NEW th \in Threads, Finished(th)
  PROVE  /\ pc'[th].at \in {"tick", "scan", "gate"} /\ pc'[th].own = FALSE
         /\ \A o \in Threads \ {th} : pc'[o] = pc[o]
         /\ taskLock' = IF taskLock = th THEN None ELSE taskLock
  <1>1. CASE th = "task" /\ taskLock # "task"
    BY <1>1 DEF Finished, AtHome, Threads
  <1>2. CASE ~(th = "task" /\ taskLock # "task")
    BY <1>2, HomePlace DEF Finished
  <1> QED
    BY <1>1, <1>2

(* Every step keeps Core.                                                    *)
LEMMA CoreStep ==
  ASSUME FlowInv, [Next]_vars PROVE Core'
  <1> USE InflightFlowAssumption DEF FlowInv
  <1>1. ASSUME ClickPause PROVE Core'
    BY <1>1 DEF ClickPause, Core, Places, Locks, Registered, RunningIsRegistered
  <1>2. ASSUME ClickStart PROVE Core'
    BY <1>2 DEF ClickStart, Core, Places, Locks, Registered, RunningIsRegistered
  <1>3. ASSUME ClickAnswered PROVE Core'
    BY <1>3 DEF ClickAnswered, Core, TypeOK, Threads, Places, Holding,
         Reading, Executing,
       InMemory, Locks, Registered, RunningIsRegistered
  <1>4. ASSUME ClickFailed PROVE Core'
    BY <1>4 DEF ClickFailed, Core, TypeOK, Threads, Places, Holding,
         Reading, Executing,
       InMemory, Locks, Registered, RunningIsRegistered
  <1>5. ASSUME Tick PROVE Core'
    <2>1. Places'
      BY <1>5, GoPlace DEF Tick, Core, TypeOK, Threads, Places, Holding,
         Reading, Executing
    <2>2. Locks'
      BY <1>5, GoPlace DEF Tick, Core, TypeOK, Threads, Locks, Inside
    <2>3. Registered'
      BY <1>5, GoPlace DEF Tick, Core, TypeOK, Threads, Registered
    <2> QED
      BY <1>5, <2>1, <2>2, <2>3 DEF Tick, Core, RunningIsRegistered
  <1>6. ASSUME TickSync PROVE Core'
    <2>1. Places'
      BY <1>6, GoPlace DEF TickSync, Core, TypeOK, Threads, Places, Holding,
         Reading, Executing
    <2>2. Locks'
      BY <1>6, GoPlace DEF TickSync, Core, TypeOK, Threads, Locks, Inside
    <2>3. Registered'
      BY <1>6, GoPlace DEF TickSync, Core, TypeOK, Threads, Registered
    <2> QED
      BY <1>6, <2>1, <2>2, <2>3 DEF TickSync, Core, RunningIsRegistered
  <1>7. ASSUME SyncAnswered PROVE Core'
    <2>1. Places'
      BY <1>7, GoPlace DEF SyncAnswered, Core, TypeOK, Threads, Places, Holding,
         Reading, Executing, InMemory
    <2>2. Locks'
      BY <1>7, GoPlace DEF SyncAnswered, Core, TypeOK, Threads, Locks, Inside
    <2>3. Registered'
      BY <1>7, GoPlace DEF SyncAnswered, Core, TypeOK, Threads, Registered
    <2> QED
      BY <1>7, <2>1, <2>2, <2>3 DEF SyncAnswered, Core, RunningIsRegistered
  <1>8. ASSUME BeatAnswered PROVE Core'
    <2>1. Places'
      BY <1>8, GoPlace DEF BeatAnswered, Core, TypeOK, Threads, Places, Holding,
         Reading, Executing, InMemory
    <2>2. Locks'
      BY <1>8, GoPlace DEF BeatAnswered, Core, TypeOK, Threads, Locks, Inside
    <2>3. Registered'
      BY <1>8, GoPlace DEF BeatAnswered, Core, TypeOK, Threads, Registered
    <2> QED
      BY <1>8, <2>1, <2>2, <2>3 DEF BeatAnswered, Core, RunningIsRegistered
  <1>9. ASSUME NothingToRecover PROVE Core'
    <2>1. Places'
      BY <1>9, GoPlace DEF NothingToRecover, Core, TypeOK, Threads, Places, Holding,
         Reading, Executing
    <2>2. Locks'
      BY <1>9, GoPlace DEF NothingToRecover, Core, TypeOK, Threads, Locks, Inside
    <2>3. Registered'
      BY <1>9, GoPlace DEF NothingToRecover, Core, TypeOK, Threads, Registered
    <2> QED
      BY <1>9, <2>1, <2>2, <2>3 DEF NothingToRecover, Core, RunningIsRegistered
  <1>10. ASSUME Gate PROVE Core'
    <2>1. Places'
      BY <1>10, GoPlace DEF Gate, Core, TypeOK, Threads, Places, Holding,
         Reading, Executing
    <2>2. Locks'
      BY <1>10, GoPlace DEF Gate, Core, TypeOK, Threads, Locks, Inside
    <2>3. Registered'
      BY <1>10, GoPlace DEF Gate, Core, TypeOK, Threads, Registered
    <2> QED
      BY <1>10, <2>1, <2>2, <2>3 DEF Gate, Core, RunningIsRegistered
  <1>11. ASSUME Lock PROVE Core'
    <2>1. Places'
      BY <1>11, GoPlace DEF Lock, Core, TypeOK, Threads, Places, Holding,
         Reading, Executing
    <2>2. Locks'
      BY <1>11, GoPlace DEF Lock, Core, TypeOK, Threads, Locks, Inside
    <2>3. Registered'
      BY <1>11, GoPlace DEF Lock, Core, TypeOK, Threads, Registered
    <2> QED
      BY <1>11, <2>1, <2>2, <2>3 DEF Lock, Core, RunningIsRegistered
  <1>12. ASSUME Pulled PROVE Core'
    <2>1. /\ pc'["task"].at \in {"start", "tick", "scan"}
          /\ pc'["task"].at = "start" \/ pc'["task"].own =>
                pc'["task"].own = pc["task"].own /\ pc'["task"].flow = pc["task"].flow
          /\ \A o \in Threads \ {"task"} : pc'[o] = pc[o]
          /\ taskLock' # taskLock => taskLock' = None /\ pc'["task"].at # "start"
      BY <1>12, GoPlace, HomePlace DEF Pulled, TypeOK, Threads
    <2>2. Places'
      BY <1>12, <2>1 DEF Pulled, Core, TypeOK, Threads, Places, Holding,
         Reading, Executing
    <2>3. Locks'
      BY <1>12, <2>1 DEF Pulled, Core, TypeOK, Threads, Locks, Inside
    <2>4. Registered'
      BY <1>12, <2>1 DEF Pulled, Core, TypeOK, Threads, Registered
    <2> QED
      BY <1>12, <2>2, <2>3, <2>4 DEF Pulled, Core, RunningIsRegistered
  <1>13. ASSUME Claim PROVE Core'
    <2>1. Places'
      BY <1>13, GoPlace DEF Claim, Core, TypeOK, Threads, Places, Holding,
         Reading, Executing
    <2>2. Locks'
      BY <1>13, GoPlace DEF Claim, Core, TypeOK, Threads, Locks, Inside
    <2>3. Registered'
      BY <1>13, GoPlace DEF Claim, Core, TypeOK, Threads, Registered
    <2> QED
      BY <1>13, <2>1, <2>2, <2>3 DEF Claim, Core, RunningIsRegistered
  <1>14. ASSUME Claimed PROVE Core'
    <2>1. Places'
      BY <1>14, GoPlace DEF Claimed, Core, TypeOK, Threads, Places, Holding,
         Reading, Executing
    <2>2. Locks'
      BY <1>14, GoPlace DEF Claimed, Core, TypeOK, Threads, Locks, Inside
    <2>3. Registered'
      BY <1>14, GoPlace DEF Claimed, Core, TypeOK, Threads, Registered
    <2> QED
      BY <1>14, <2>1, <2>2, <2>3 DEF Claimed, Core, RunningIsRegistered
  <1>15. ASSUME Finish PROVE Core'
    <2>1. Places'
      BY <1>15, GoPlace DEF Finish, Core, TypeOK, Threads, Places, Holding,
         Reading, Executing,
         InMemory
    <2>2. Locks'
      BY <1>15, GoPlace DEF Finish, Core, TypeOK, Threads, Locks, Inside
    <2>3. Registered'
      BY <1>15, GoPlace DEF Finish, Core, TypeOK, Threads, Registered
    <2> QED
      BY <1>15, <2>1, <2>2, <2>3 DEF Finish, Core, RunningIsRegistered
  <1>16. ASSUME Scan PROVE Core'
    <2>1. Places'
      BY <1>16, GoPlace DEF Scan, Core, TypeOK, Threads, Places, Holding,
         Reading, Executing
    <2>2. Locks'
      BY <1>16, GoPlace DEF Scan, Core, TypeOK, Threads, Locks, Inside
    <2>3. Registered'
      BY <1>16, GoPlace DEF Scan, Core, TypeOK, Threads, Registered
    <2> QED
      BY <1>16, <2>1, <2>2, <2>3 DEF Scan, Core, RunningIsRegistered
  <1>17. ASSUME Adopt PROVE Core'
    <2>1. Places'
      BY <1>17 DEF Adopt, Core, TypeOK, Threads, Places, Holding,
         Reading, Executing, InMemory, OnDisk, FlowOrNone
    <2>2. Locks'
      BY <1>17 DEF Adopt, Core, TypeOK, Threads, Locks, Inside
    <2>3. Registered'
      BY <1>17 DEF Adopt, Core, TypeOK, Threads, Registered
    <2> QED
      BY <1>17, <2>1, <2>2, <2>3 DEF Adopt, Core, RunningIsRegistered
  <1>18. ASSUME Enter PROVE Core'
    <2>1. Places'
      BY <1>18, GoPlace DEF Enter, Core, TypeOK, Threads, Places, Holding,
         Reading, Executing
    <2>2. Locks'
      BY <1>18, GoPlace DEF Enter, Core, TypeOK, Threads, Locks, Inside
    <2>3. Registered'
      BY <1>18, GoPlace DEF Enter, Core, TypeOK, Threads, Registered
    <2> QED
      BY <1>18, <2>1, <2>2, <2>3 DEF Enter, Core, RunningIsRegistered
  <1>19. ASSUME Await PROVE Core'
    <2>1. Places'
      BY <1>19, GoPlace DEF Await, Core, TypeOK, Threads, Places, Holding,
         Reading, Executing
    <2>2. Locks'
      BY <1>19, GoPlace DEF Await, Core, TypeOK, Threads, Locks, Inside
    <2>3. Registered'
      BY <1>19, GoPlace DEF Await, Core, TypeOK, Threads, Registered
    <2> QED
      BY <1>19, <2>1, <2>2, <2>3 DEF Await, Core, RunningIsRegistered
  <1>20. ASSUME ReadWork PROVE Core'
    <2>1. Places'
      BY <1>20, GoPlace DEF ReadWork, Core, TypeOK, Threads, Places, Holding,
         Reading, Executing
    <2>2. Locks'
      BY <1>20, GoPlace DEF ReadWork, Core, TypeOK, Threads, Locks, Inside
    <2>3. Registered'
      BY <1>20, GoPlace DEF ReadWork, Core, TypeOK, Threads, Registered
    <2> QED
      BY <1>20, <2>1, <2>2, <2>3 DEF ReadWork, Core, RunningIsRegistered
  <1>21. ASSUME Leave PROVE Core'
    <2>1. /\ pc'["c2"].at \in {"finishCall", "tick", "scan"}
          /\ pc'["c2"].at = "finishCall" \/ pc'["c2"].own =>
                pc'["c2"].own = pc["c2"].own /\ pc'["c2"].flow = pc["c2"].flow
          /\ \A o \in Threads \ {"c2"} : pc'[o] = pc[o]
          /\ taskLock' = taskLock
      BY <1>21, GoPlace, HomePlace DEF Leave, TypeOK, Threads
    <2>2. Places'
      BY <1>21, <2>1 DEF Leave, Core, TypeOK, Threads, Places, Holding,
         Reading, Executing
    <2>3. Locks'
      BY <1>21, <2>1 DEF Leave, Core, TypeOK, Threads, Locks, Inside
    <2>4. Registered'
      BY <1>21, <2>1 DEF Leave, Core, TypeOK, Threads, Registered, Flows, Places, Holding
    <2>5. RunningIsRegistered'
      BY <1>21, <2>1 DEF Leave, Core, TypeOK, Threads, RunningIsRegistered, Flows, Places
    <2> QED
      BY <2>2, <2>3, <2>4, <2>5 DEF Core
  <1>22. ASSUME Restart PROVE Core'
    <2>1. Places'
      BY <1>22 DEF Restart, Core, TypeOK, Threads, Places, Holding,
         Reading, Executing, AtHome,
         Home, Started, InMemory
    <2>2. Locks'
      BY <1>22 DEF Restart, Core, TypeOK, Threads, Locks, Inside, AtHome, Home
    <2>3. Registered'
      BY <1>22 DEF Restart, Core, TypeOK, Threads, Registered, AtHome, Home
    <2> QED
      BY <1>22, <2>1, <2>2, <2>3 DEF Restart, Core, RunningIsRegistered
  <1>23. ASSUME NEW fate \in Fates, ClickCall(fate) PROVE Core'
    <2>1. Registered'
      BY <1>23 DEF ClickCall, Core, TypeOK, Threads, Registered
    <2>2. RunningIsRegistered'
      BY <1>23 DEF ClickCall, Core, TypeOK, Threads, RunningIsRegistered
    <2> QED
      BY <1>23, <2>1, <2>2 DEF ClickCall, Core, Places, Locks
  <1>24. ASSUME NEW fate \in Fates, SyncCall(fate) PROVE Core'
    <2>1. Places'
      BY <1>24, GoPlace DEF SyncCall, Core, TypeOK, Threads, Places, Holding,
         Reading, Executing
    <2>2. Locks'
      BY <1>24, GoPlace DEF SyncCall, Core, TypeOK, Threads, Locks, Inside
    <2>3. Registered'
      BY <1>24, GoPlace DEF SyncCall, Core, TypeOK, Threads, Registered
    <2>4. RunningIsRegistered'
      BY <1>24, GoPlace DEF SyncCall, Core, TypeOK, Threads, RunningIsRegistered
    <2> QED
      BY <2>1, <2>2, <2>3, <2>4 DEF Core
  <1>25. ASSUME NEW fate \in Fates, BeatCall(fate) PROVE Core'
    <2>1. Places'
      BY <1>25, GoPlace DEF BeatCall, Core, TypeOK, Threads, Places, Holding,
         Reading, Executing
    <2>2. Locks'
      BY <1>25, GoPlace DEF BeatCall, Core, TypeOK, Threads, Locks, Inside
    <2>3. Registered'
      BY <1>25, GoPlace DEF BeatCall, Core, TypeOK, Threads, Registered
    <2> QED
      BY <1>25, <2>1, <2>2, <2>3 DEF BeatCall, Core, RunningIsRegistered
  <1>26. ASSUME NEW fate \in Fates, PullFailed(fate) PROVE Core'
    <2>1. Places'
      BY <1>26, HomePlace DEF PullFailed, Core, TypeOK, Threads, Places, Holding,
         Reading, Executing
    <2>2. Locks'
      BY <1>26, HomePlace DEF PullFailed, Core, TypeOK, Threads, Locks, Inside
    <2>3. Registered'
      BY <1>26, HomePlace DEF PullFailed, Core, TypeOK, Threads, Registered
    <2> QED
      BY <1>26, <2>1, <2>2, <2>3 DEF PullFailed, Core, RunningIsRegistered
  <1>27. ASSUME NEW fate \in Fates, ClaimCall(fate) PROVE Core'
    <2>1. Places'
      BY <1>27, GoPlace DEF ClaimCall, Core, TypeOK, Threads, Places, Holding,
         Reading, Executing, Presents
    <2>2. Locks'
      BY <1>27, GoPlace DEF ClaimCall, Core, TypeOK, Threads, Locks, Inside, Presents
    <2>3. Registered'
      BY <1>27, GoPlace DEF ClaimCall, Core, TypeOK, Threads, Registered, Presents,
         Places, Holding, RunningIsRegistered, Registration, Flows
    <2>4. RunningIsRegistered'
      BY <1>27, GoPlace DEF ClaimCall, Core, TypeOK, Threads, RunningIsRegistered,
         Presents, Places, Holding, Registered, Registration, Flows
    <2> QED
      BY <2>1, <2>2, <2>3, <2>4 DEF Core
  <1>28. ASSUME NEW fate \in Fates, Work(fate) PROVE Core'
    <2>1. Places'
      BY <1>28, GoPlace DEF Work, Core, TypeOK, Threads, Places, Holding,
         Reading, Executing
    <2>2. Locks'
      BY <1>28, GoPlace DEF Work, Core, TypeOK, Threads, Locks, Inside
    <2>3. Registered'
      BY <1>28, GoPlace DEF Work, Core, TypeOK, Threads, Registered
    <2> QED
      BY <1>28, <2>1, <2>2, <2>3 DEF Work, Core, RunningIsRegistered
  <1>29. ASSUME NEW fate \in Fates, Report(fate) PROVE Core'
    <2>1. Places'
      BY <1>29, GoPlace DEF Report, Core, TypeOK, Threads, Places, Holding,
         Reading, Executing
    <2>2. Locks'
      BY <1>29, GoPlace DEF Report, Core, TypeOK, Threads, Locks, Inside
    <2>3. Registered'
      BY <1>29, GoPlace DEF Report, Core, TypeOK, Threads, Registered, Places, Holding,
         RunningIsRegistered, Registration, Flows
    <2>4. RunningIsRegistered'
      BY <1>29, GoPlace DEF Report, Core, TypeOK, Threads, RunningIsRegistered, Places,
         Holding, Registered, Registration, Flows
    <2> QED
      BY <2>1, <2>2, <2>3, <2>4 DEF Core
  <1>30. ASSUME NEW fate \in Fates, MonitorSync(fate) PROVE Core'
    <2>1. Places'
      BY <1>30 DEF MonitorSync, Core, TypeOK, Threads, Places, Holding,
         Reading, Executing, InMemory
    <2>2. Registered'
      BY <1>30 DEF MonitorSync, Core, TypeOK, Threads, Registered
    <2>3. RunningIsRegistered'
      BY <1>30 DEF MonitorSync, Core, TypeOK, Threads, RunningIsRegistered
    <2> QED
      BY <1>30, <2>1, <2>2, <2>3 DEF MonitorSync, Core, Locks
  <1>31. ASSUME NEW th \in Threads, Recover(th) PROVE Core'
    <2>1. Places'
      BY <1>31 DEF Recover, Core, TypeOK, Threads, Places, Holding,
         Reading, Executing
    <2>2. Locks'
      BY <1>31 DEF Recover, Core, TypeOK, Threads, Locks, Inside
    <2>3. Registered'
      BY <1>31 DEF Recover, Core, TypeOK, Threads, Registered, Places, Holding
    <2> QED
      BY <1>31, <2>1, <2>2, <2>3 DEF Recover, Core, RunningIsRegistered
  <1>32. ASSUME NEW th \in Threads, Start(th) PROVE Core'
    <2>1. /\ pc'[th].at \in {"startCall", "tick", "scan"}
          /\ pc'[th].at = "startCall" \/ pc'[th].own =>
                pc'[th].own = pc[th].own /\ pc'[th].flow = pc[th].flow
          /\ \A o \in Threads \ {th} : pc'[o] = pc[o]
          /\ taskLock' # taskLock =>
                th = "task" /\ taskLock' = None /\ pc'[th].at # "startCall"
      BY <1>32, GoPlace, HomePlace DEF Start, TypeOK, Threads
    <2>2. Places'
      BY <1>32, <2>1 DEF Start, Core, TypeOK, Threads, Places, Holding,
         Reading, Executing
    <2>3. Locks'
      BY <1>32, <2>1 DEF Start, Core, TypeOK, Threads, Locks, Inside
    <2>4. Registered'
      BY <1>32, <2>1 DEF Start, Core, TypeOK, Threads, Registered
    <2> QED
      BY <1>32, <2>2, <2>3, <2>4 DEF Start, Core, RunningIsRegistered
  <1>33. ASSUME NEW th \in Threads, Record(th) PROVE Core'
    <2>1. Places'
      BY <1>33, GoPlace DEF Record, Core, TypeOK, Threads, Places, Holding,
         Reading, Executing,
         InMemory
    <2>2. Locks'
      BY <1>33, GoPlace DEF Record, Core, TypeOK, Threads, Locks, Inside
    <2>3. Registered'
      BY <1>33, GoPlace DEF Record, Core, TypeOK, Threads, Registered, Places, Holding
    <2> QED
      BY <1>33, <2>1, <2>2, <2>3 DEF Record, Core, RunningIsRegistered
  <1>34. ASSUME NEW th \in Threads, Crash(th) PROVE Core'
    <2>1. Places'
      BY <1>34, GoPlace DEF Crash, Core, TypeOK, Threads, Places, Holding,
         Reading, Executing,
         InMemory
    <2>2. Locks'
      BY <1>34, GoPlace DEF Crash, Core, TypeOK, Threads, Locks, Inside
    <2>3. Registered'
      BY <1>34, GoPlace DEF Crash, Core, TypeOK, Threads, Registered
    <2> QED
      BY <1>34, <2>1, <2>2, <2>3 DEF Crash, Core, RunningIsRegistered
  <1>35. ASSUME NEW th \in Threads, FinishBlocked(th) PROVE Core'
    <2>1. Places'
      BY <1>35, FinishedPlace DEF FinishBlocked, Core, TypeOK, Threads, Places, Holding,
         Reading, Executing
    <2>2. Locks'
      BY <1>35, FinishedPlace DEF FinishBlocked, Core, TypeOK, Threads, Locks, Inside
    <2>3. Registered'
      BY <1>35, FinishedPlace DEF FinishBlocked, Core, TypeOK, Threads, Registered
    <2> QED
      BY <1>35, <2>1, <2>2, <2>3 DEF FinishBlocked, Core, RunningIsRegistered
  <1>36. ASSUME NEW th \in Threads, FinishLocal(th) PROVE Core'
    <2>1. /\ pc'[th].at \in {"finishForget", "tick", "scan", "gate"}
          /\ pc'[th].at = "finishForget" \/ pc'[th].own =>
                pc'[th].own = pc[th].own /\ pc'[th].flow = pc[th].flow
          /\ \A o \in Threads \ {th} : pc'[o] = pc[o]
          /\ taskLock' # taskLock =>
                th = "task" /\ taskLock' = None /\ pc'[th].at # "finishForget"
      BY <1>36, GoPlace, FinishedPlace DEF FinishLocal, TypeOK, Threads
    <2>2. Places'
      BY <1>36, <2>1 DEF FinishLocal, Core, TypeOK, Threads, Places, Holding,
         Reading, Executing,
         InMemory
    <2>3. Locks'
      BY <1>36, <2>1 DEF FinishLocal, Core, TypeOK, Threads, Locks, Inside
    <2>4. Registered'
      BY <1>36, <2>1 DEF FinishLocal, Core, TypeOK, Threads, Registered
    <2> QED
      BY <1>36, <2>2, <2>3, <2>4 DEF FinishLocal, Core, RunningIsRegistered
  <1>37. ASSUME NEW th \in Threads, FinishForget(th) PROVE Core'
    <2>1. Places'
      BY <1>37, FinishedPlace DEF FinishForget, Core, TypeOK, Threads, Places, Holding,
         Reading, Executing, InMemory
    <2>2. Locks'
      BY <1>37, FinishedPlace DEF FinishForget, Core, TypeOK, Threads, Locks, Inside
    <2>3. Registered'
      BY <1>37, FinishedPlace DEF FinishForget, Core, TypeOK, Threads, Registered
    <2> QED
      BY <1>37, <2>1, <2>2, <2>3 DEF FinishForget, Core, RunningIsRegistered
  <1>38. ASSUME NEW th \in Threads, NEW fate \in Fates, StartCall(th, fate) PROVE Core'
    <2>1. Places'
      BY <1>38, GoPlace DEF StartCall, Core, TypeOK, Threads, Places, Holding,
         Reading, Executing
    <2>2. Locks'
      BY <1>38, GoPlace DEF StartCall, Core, TypeOK, Threads, Locks, Inside
    <2>3. Registered'
      BY <1>38, GoPlace DEF StartCall, Core, TypeOK, Threads, Registered, Places,
         Holding, RunningIsRegistered, Registration, Flows, Locks
    <2>4. RunningIsRegistered'
      BY <1>38, GoPlace DEF StartCall, Core, TypeOK, Threads, RunningIsRegistered,
         Places, Holding, Registered, Registration, Flows
    <2> QED
      BY <2>1, <2>2, <2>3, <2>4 DEF Core
  <1>39. ASSUME NEW th \in Threads, NEW fate \in Fates, FinishCall(th, fate) PROVE Core'
    <2>1. /\ pc'[th].at \in {"finishLocal", "tick", "scan", "gate"}
          /\ pc'[th].at = "finishLocal" \/ pc'[th].own =>
                pc'[th].own = pc[th].own /\ pc'[th].flow = pc[th].flow
          /\ \A o \in Threads \ {th} : pc'[o] = pc[o]
          /\ taskLock' # taskLock =>
                th = "task" /\ taskLock' = None /\ pc'[th].at # "finishLocal"
      BY <1>39, GoPlace, FinishedPlace DEF FinishCall, TypeOK, Threads
    <2>2. Places'
      BY <1>39, <2>1 DEF FinishCall, Core, TypeOK, Threads, Places, Holding,
         Reading, Executing,
         Settled
    <2>3. Locks'
      BY <1>39, <2>1 DEF FinishCall, Core, TypeOK, Threads, Locks, Inside, Settled
    <2>4. Registered'
      BY <1>39, <2>1 DEF FinishCall, Core, TypeOK, Threads, Registered, Settled, Places,
         Holding, RunningIsRegistered, Registration
    <2>5. RunningIsRegistered'
      BY <1>39, <2>1 DEF FinishCall, Core, TypeOK, Threads, RunningIsRegistered,
         Settled, Places, Holding, Registered, Registration
    <2> QED
      BY <2>2, <2>3, <2>4, <2>5 DEF Core
  <1>40. ASSUME NEW t \in Tasks, PullCall(t) PROVE Core'
    <2>1. Places'
      BY <1>40 DEF PullCall, Core, TypeOK, Threads, Places, Holding,
         Reading, Executing
    <2>2. Locks'
      BY <1>40 DEF PullCall, Core, TypeOK, Threads, Locks, Inside
    <2>3. Registered'
      BY <1>40 DEF PullCall, Core, TypeOK, Threads, Registered
    <2> QED
      BY <1>40, <2>1, <2>2, <2>3 DEF PullCall, Core, RunningIsRegistered
  <1>41. ASSUME NEW f \in Reads, Read(f) PROVE Core'
    <2>1. Places'
      BY <1>41 DEF Read, Core, TypeOK, Threads, Places, Holding,
         Reading, Executing, Flows
    <2>2. Locks'
      BY <1>41 DEF Read, Core, TypeOK, Threads, Locks, Inside
    <2>3. Registered'
      BY <1>41 DEF Read, Core, TypeOK, Threads, Registered
    <2> QED
      BY <1>41, <2>1, <2>2, <2>3 DEF Read, Core, RunningIsRegistered
  <1>42. ASSUME NEW t \in Tasks, AdminCancel(t) PROVE Core'
    <2>1. Registered'
      BY <1>42 DEF AdminCancel, Core, TypeOK, Threads, Registered, Flows, Places, Holding
    <2>2. RunningIsRegistered'
      BY <1>42 DEF AdminCancel, Core, TypeOK, Threads, RunningIsRegistered, Flows
    <2> QED
      BY <1>42, <2>1, <2>2 DEF AdminCancel, Core, Places, Locks
  <1>47. ASSUME Barrier PROVE Core'
    <2>1. Places'
      BY <1>47, GoPlace DEF Barrier, Core, TypeOK, Threads, Places, Holding,
         Reading, Executing
    <2>2. Locks'
      BY <1>47, GoPlace DEF Barrier, Core, TypeOK, Threads, Locks, Inside
    <2>3. Registered'
      BY <1>47, GoPlace DEF Barrier, Core, TypeOK, Threads, Registered
    <2> QED
      BY <1>47, <2>1, <2>2, <2>3 DEF Barrier, Core, RunningIsRegistered
  <1>48. ASSUME LockRefused PROVE Core'
    <2>1. Places'
      BY <1>48, GoPlace DEF LockRefused, Core, TypeOK, Threads, Places, Holding,
         Reading, Executing
    <2>2. Locks'
      BY <1>48, GoPlace DEF LockRefused, Core, TypeOK, Threads, Locks, Inside
    <2>3. Registered'
      BY <1>48, GoPlace DEF LockRefused, Core, TypeOK, Threads, Registered
    <2> QED
      BY <1>48, <2>1, <2>2, <2>3 DEF LockRefused, Core, RunningIsRegistered
  <1>49. ASSUME Settle PROVE Core'
    BY <1>49 DEF Settle, Core, Places, Locks, Registered, RunningIsRegistered
  <1>50. ASSUME NEW th \in Threads, KeepFact(th) PROVE Core'
    BY <1>50 DEF KeepFact, Core, Places, Locks, Registered, RunningIsRegistered
  <1>43. CASE UNCHANGED vars
    BY <1>43 DEF vars, Core, Places, Locks, Registered, RunningIsRegistered
  <1>44. ASSUME NEW th \in Threads, FlowStep(th) PROVE Core'
    BY <1>44, <1>31, <1>32, <1>33, <1>34, <1>35, <1>36, <1>37, <1>38, <1>39 DEF FlowStep
  <1>45. CASE TaskStep
    BY <1>44, <1>45, <1>5, <1>6, <1>7, <1>8, <1>9, <1>10, <1>11, <1>12, <1>13, <1>14,
       <1>15, <1>40, <1>47, <1>48,
       <1>24, <1>25, <1>26, <1>27, <1>28, <1>29 DEF TaskStep, Threads
  <1>46. CASE C2Step
    BY <1>44, <1>46, <1>49, <1>16, <1>17, <1>18, <1>19, <1>20, <1>21, <1>41
    DEF C2Step, Threads
  <1> QED
    BY <1>43, <1>45, <1>46, <1>1, <1>2, <1>3, <1>4, <1>23, <1>30, <1>22, <1>42,
       <1>50 DEF Next, Monitor, ClickReturns

(* Core holds of a client that has just been installed.                    *)
LEMMA CoreInit ==
  ASSUME Init PROVE FlowInv
  <1> USE InflightFlowAssumption
  <1>1. TypeOK
    BY DEF Init, TypeOK, Registration, OnDisk, InMemory, Place, LastClick, Allowance,
           FlowOrNone, AtHome, Home, Threads, Labels, NoBeat, Started
  <1>2. Core
    BY DEF Init, Core, Places, Locks, Registered, RunningIsRegistered, AtHome, Home,
           Threads, Flows, Started, Holding, Reading, Inside, Executing
  <1> QED
    BY <1>1, <1>2 DEF FlowInv

(* The inductive invariant holds in every reachable state.                 *)
LEMMA FlowInvariant == Spec => []FlowInv
  <1>1. FlowInv /\ [Next]_vars => FlowInv'
    BY TypeStep, CoreStep DEF FlowInv, Core
  <1> QED
    BY <1>1, CoreInit, PTL DEF Spec

(* Every variable keeps its type: the task in hand is a task of this       *)
(* worker, a receipt is one of a read.                                     *)
THEOREM TypeCorrect == Spec => []TypeOK
  <1>1. FlowInv => TypeOK
    BY DEF FlowInv
  <1> QED
    BY <1>1, FlowInvariant, PTL

(* RunningIsRegistered for any number of tasks, reads, losses and restarts: *)
(* no interleaving ends the registration of a task's flow before its task. *)
THEOREM TaskRegistered == Spec => []RunningIsRegistered
  <1>1. FlowInv => RunningIsRegistered
    BY DEF FlowInv, Core
  <1> QED
    BY <1>1, FlowInvariant, PTL

(* TaskAndReadNeverOverlap: the C2 listener never drives WeChat while the  *)
(* task loop executes a task.  The listener that works holds the UI lock,  *)
(* which the task loop found free when it entered its section.             *)
THEOREM NeverOverlap == Spec => []TaskAndReadNeverOverlap
  <1>1. FlowInv => TaskAndReadNeverOverlap
    BY DEF FlowInv, Core, Places, Locks, TaskAndReadNeverOverlap, Inside, Executing
  <1> QED
    BY <1>1, FlowInvariant, PTL

-----------------------------------------------------------------------------
(* The refinement of OneFlow needs three more facts: the task loop executes *)
(* the task it has in hand, the thread that starts a read starts it for the *)
(* first time, and the UI lock is the task loop's only while it works.     *)
InHand == pc["task"].at \in Executing => mem.current = pc["task"].flow

ReadIsNew ==
    pc["c2"].at \in {"start", "startCall"} => status[pc["c2"].flow] = "pending"

TaskDrives == uiLock = "task" => pc["task"].at = "work"

DutyInv == InHand /\ ReadIsNew /\ TaskDrives

\* What a step has to do: keep the invariant, and be one of OneFlow or none.
Does == DutyInv' /\ [Duty!Next]_(Duty!vars)

\* Labels of a task in hand that is neither about to be worked on nor worked on.
Between == Executing \ {"claimed", "work"}

\* A step that moves the threads only, and none into or out of Executing.
Moves ==
    /\ UNCHANGED <<server.flow, status, mem.current, uiLock>>
    /\ \/ pc'["task"] = pc["task"]
       \/ pc["task"].at \notin Executing /\ pc'["task"].at \notin Executing
       \/ /\ pc["task"].at \in Between /\ pc'["task"].at \in Between
          /\ pc'["task"].flow = pc["task"].flow
    /\ \/ pc'["c2"] = pc["c2"]
       \/ pc'["c2"].at \notin {"start", "startCall"}
       \/ pc["c2"].at = "start" /\ pc'["c2"].flow = pc["c2"].flow

(* Such a step does nothing that OneFlow sees.                             *)
LEMMA MovesDoes ==
  ASSUME FlowInv, DutyInv, Moves PROVE Does
  <1> USE DEF FlowInv, TypeOK, Threads
  <1>1. InHand'
    BY DEF DutyInv, InHand, Moves, Between, Executing
  <1>2. ReadIsNew'
    BY DEF DutyInv, ReadIsNew, Moves
  <1>3. TaskDrives'
    BY DEF DutyInv, TaskDrives, Moves, Between, Executing
  <1>4. Granted' = Granted
    BY DEF Granted, Moves, Between, Executing
  <1> QED
    BY <1>1, <1>2, <1>3, <1>4 DEF Does, DutyInv, Moves, Duty!vars

(* The user, the heartbeat and the pull move no task.                      *)
LEMMA ClickMoves ==
  ASSUME FlowInv,
         \/ ClickPause \/ ClickStart \/ ClickReturns \/ Monitor
  PROVE Moves
  <1> USE DEF FlowInv, TypeOK, InMemory, Registration, Moves
  <1>1. CASE ClickPause \/ ClickStart
    BY <1>1 DEF ClickPause, ClickStart
  <1>2. CASE ClickAnswered \/ ClickFailed
    BY <1>2 DEF ClickAnswered, ClickFailed
  <1>3. ASSUME NEW fate \in Fates, ClickCall(fate) PROVE Moves
    BY <1>3 DEF ClickCall
  <1>4. ASSUME NEW fate \in Fates, MonitorSync(fate) PROVE Moves
    BY <1>4 DEF MonitorSync
  <1> QED
    BY <1>1, <1>2, <1>3, <1>4 DEF ClickReturns, Monitor

(* So do the steps of a tick before the start.                             *)
LEMMA TickMoves ==
  ASSUME FlowInv,
         \/ Tick \/ TickSync \/ SyncAnswered \/ BeatAnswered \/ Barrier
         \/ NothingToRecover \/ Gate \/ Lock \/ LockRefused \/ Pulled
         \/ \E t \in Tasks : PullCall(t)
         \/ \E fate \in Fates : SyncCall(fate) \/ BeatCall(fate) \/ PullFailed(fate)
  PROVE Moves
  <1> USE DEF FlowInv, TypeOK, InMemory, Registration, Threads, Moves, Executing
  <1>1. CASE Tick \/ TickSync \/ Barrier \/ NothingToRecover \/ Gate \/ Lock \/ LockRefused
    BY <1>1, GoPlace
    DEF Tick, TickSync, Barrier, NothingToRecover, Gate, Lock, LockRefused
  <1>2. CASE SyncAnswered
    BY <1>2, GoPlace DEF SyncAnswered
  <1>7. CASE BeatAnswered
    BY <1>7, GoPlace DEF BeatAnswered
  <1>3. CASE Pulled
    <2>1. CASE CanStart
      BY <1>3, <2>1, GoPlace DEF Pulled
    <2>2. CASE ~CanStart
      BY <1>3, <2>2, HomePlace DEF Pulled
    <2> QED
      BY <2>1, <2>2
  <1>4. ASSUME NEW t \in Tasks, PullCall(t) PROVE Moves
    BY <1>4 DEF PullCall
  <1>5. ASSUME NEW fate \in Fates, SyncCall(fate) \/ BeatCall(fate) PROVE Moves
    BY <1>5, GoPlace DEF SyncCall, BeatCall
  <1>6. ASSUME NEW fate \in Fates, PullFailed(fate) PROVE Moves
    BY <1>6, HomePlace DEF PullFailed
  <1> QED
    BY <1>1, <1>2, <1>3, <1>4, <1>5, <1>6, <1>7

(* And the other steps that leave the registration alone.                  *)
LEMMA FlowMoves ==
  ASSUME FlowInv, NEW th \in Threads,
         \/ Recover(th) \/ Start(th) \/ Crash(th)
         \/ FinishBlocked(th) \/ FinishLocal(th) \/ FinishForget(th)
  PROVE Moves
  <1> USE DEF FlowInv, TypeOK, InMemory, Threads, Moves, Executing
  <1>1. CASE Recover(th)
    BY <1>1 DEF Recover
  <1>2. CASE Start(th)
    <2>1. CASE CanStart
      BY <1>2, <2>1, GoPlace DEF Start
    <2>2. CASE ~CanStart
      BY <1>2, <2>2, HomePlace DEF Start
    <2> QED
      BY <2>1, <2>2
  <1>3. CASE Crash(th)
    BY <1>3, GoPlace DEF Crash
  <1>4. CASE FinishBlocked(th)
    BY <1>4, FinishedPlace DEF FinishBlocked
  <1>5. CASE FinishLocal(th)
    <2>1. CASE disk.flow = pc[th].flow
      BY <1>5, <2>1, GoPlace DEF FinishLocal
    <2>2. CASE disk.flow # pc[th].flow
      BY <1>5, <2>2, FinishedPlace DEF FinishLocal
    <2> QED
      BY <2>1, <2>2
  <1>6. CASE FinishForget(th)
    BY <1>6, FinishedPlace DEF FinishForget
  <1> QED
    BY <1>1, <1>2, <1>3, <1>4, <1>5, <1>6

(* A registration is taken when it is free, and given back when its flow   *)
(* is over.                                                                *)
LEMMA RegistrationDoes ==
  ASSUME FlowInv, DutyInv, NEW th \in Threads, NEW fate \in Fates,
         StartCall(th, fate) \/ FinishCall(th, fate)
  PROVE Does
  <1> USE DEF FlowInv, TypeOK, InMemory, Registration, Threads
  <1>1. CASE StartCall(th, fate)
    <2> DEFINE f == pc[th].flow
    <2>1. f \in Flows /\ (th = "task" => f \in Tasks) /\ (th = "c2" => f \in Reads)
      BY <1>1 DEF StartCall, Core, Places, Holding, Flows
    <2>2. /\ pc[th].at = "startCall" /\ pc'[th].at \in {"record", "crash"}
          /\ \A o \in Threads \ {th} : pc'[o] = pc[o]
      BY <1>1, GoPlace DEF StartCall
    <2>3. /\ mem' = mem /\ uiLock' = uiLock
          /\ server'.flow # server.flow => server.flow = None /\ server'.flow = f
          /\ status' = IF f \in Reads THEN [status EXCEPT ![f] = "running"] ELSE status
      BY <1>1 DEF StartCall
    <2>4. f \in Reads => status[f] = "pending"
      BY <2>1, <2>2, InflightFlowAssumption DEF DutyInv, ReadIsNew
    <2>5. Granted' = Granted
      BY <2>2 DEF Granted
    <2>6. DutyInv'
      BY <2>1, <2>2, <2>3, InflightFlowAssumption
      DEF DutyInv, InHand, ReadIsNew, TaskDrives, Executing
    <2>7. CASE server'.flow = f
      <3>1. Duty!Register(f)
        BY <2>3, <2>4, <2>5, <2>7 DEF Duty!Register
      <3> QED
        BY <2>1, <2>6, <3>1 DEF Does, Duty!Next, Duty!Flows, Flows
    <2>8. CASE server'.flow = server.flow /\ f \in Reads
      <3>1. Duty!Open(f)
        BY <2>3, <2>4, <2>5, <2>8 DEF Duty!Open
      <3> QED
        BY <2>1, <2>6, <3>1 DEF Does, Duty!Next, Duty!Flows, Flows
    <2>9. CASE server'.flow = server.flow /\ f \notin Reads
      BY <2>3, <2>5, <2>6, <2>9 DEF Does, Duty!vars
    <2> QED
      BY <2>3, <2>7, <2>8, <2>9
  <1>2. CASE FinishCall(th, fate)
    <2> DEFINE f == pc[th].flow
    <2>1. /\ pc[th].at = "finishCall"
          /\ pc'[th].at \in {"finishLocal", "tick", "scan", "gate"}
          /\ \A o \in Threads \ {th} : pc'[o] = pc[o]
      <3>1. CASE Settled(f) /\ fate = "answered"
        BY <1>2, <3>1, GoPlace DEF FinishCall
      <3>2. CASE ~(Settled(f) /\ fate = "answered")
        BY <1>2, <3>2, FinishedPlace DEF FinishCall
      <3> QED
        BY <3>1, <3>2
    <2>2. /\ mem' = mem /\ uiLock' = uiLock /\ status' = status /\ uiLock = None
          /\ \/ server'.flow = server.flow
             \/ Settled(f) /\ server'.flow = None
      BY <1>2 DEF FinishCall
    <2>3. Granted' = Granted
      BY <2>1 DEF Granted
    <2>4. DutyInv'
      BY <2>1, <2>2, InflightFlowAssumption
      DEF DutyInv, InHand, ReadIsNew, TaskDrives, Executing
    <2>5. CASE server'.flow = server.flow
      BY <2>2, <2>3, <2>4, <2>5 DEF Does, Duty!vars
    <2>6. CASE Settled(f) /\ server'.flow = None /\ server.flow # None
      <3>1. Duty!Release
        BY <2>2, <2>3, <2>6 DEF Duty!Release, Settled
      <3> QED
        BY <2>4, <3>1 DEF Does, Duty!Next
    <2> QED
      BY <2>2, <2>5, <2>6
  <1> QED
    BY <1>1, <1>2

(* A task is taken up when its flow is on disk.                            *)
LEMMA RecordDoes ==
  ASSUME FlowInv, DutyInv, NEW th \in Threads, Record(th) PROVE Does
  <1> USE DEF FlowInv, TypeOK, InMemory, Threads
  <1> DEFINE f == pc[th].flow
             taken == th = "task" /\ disk.flow \in {None, f}
  <1>1. /\ pc[th].at = "record" /\ pc'[th].flow = f
        /\ pc'[th].at \in {"crash", "claim", "enter"}
        /\ pc'[th].at = "claim" <=> taken
        /\ \A o \in Threads \ {th} : pc'[o] = pc[o]
    BY GoPlace DEF Record
  <1>2. /\ server' = server /\ status' = status /\ uiLock' = uiLock
        /\ mem'.current = IF taken THEN f ELSE mem.current
    BY DEF Record
  <1>3. Granted' = Granted
    BY <1>1 DEF Granted
  <1>4. DutyInv'
    BY <1>1, <1>2 DEF DutyInv, InHand, ReadIsNew, TaskDrives, Executing
  <1>5. CASE taken
    <2>1. f \in Tasks /\ mem.current = None
      BY <1>1, <1>5 DEF Core, Places, Holding, Executing
    <2>2. uiLock # "c2"
      BY <1>1, <1>5 DEF Core, Locks, Inside
    <2>3. server.flow = f \/ status[f] = "over"
      BY <1>1, <1>5 DEF Core, Registered
    <2>4. Duty!TakeUp(f)
      BY <1>2, <1>3, <1>5, <2>1, <2>2, <2>3 DEF Duty!TakeUp
    <2> QED
      BY <1>4, <2>1, <2>4 DEF Does, Duty!Next
  <1>6. CASE ~taken
    BY <1>2, <1>3, <1>4, <1>6 DEF Does, Duty!vars
  <1> QED
    BY <1>5, <1>6

(* What becomes of a task does not touch a read.                           *)
LEMMA TaskLeavesReads ==
  ASSUME FlowInv, DutyInv, pc'["c2"] = pc["c2"],
         \A f \in Reads : status'[f] = status[f]
  PROVE ReadIsNew'
  <1>1. pc["c2"].at \in {"start", "startCall"} => pc["c2"].flow \in Reads
    BY DEF FlowInv, Core, Places
  <1> QED
    BY <1>1 DEF DutyInv, ReadIsNew

(* A task is granted under its registration, once, and then carried out at  *)
(* most once.                                                              *)
LEMMA TaskDoes ==
  ASSUME FlowInv, DutyInv,
         \/ Claim \/ Claimed \/ Finish
         \/ \E fate \in Fates : ClaimCall(fate) \/ Work(fate) \/ Report(fate)
  PROVE Does
  <1> USE DEF FlowInv, TypeOK, InMemory, Threads
  <1> DEFINE t == pc["task"].flow
  <1>1. CASE Claim
    <2>1. Moves
      BY <1>1, GoPlace DEF Claim, Moves, Between, Executing
    <2> QED
      BY <2>1, MovesDoes
  <1>2. ASSUME NEW fate \in Fates, ClaimCall(fate) PROVE Does
    <2>1. /\ pc["task"].at = "claimCall" /\ pc'["task"].flow = t
          /\ pc'["task"].at \in {"claimed", "finish"} /\ pc'["c2"] = pc["c2"]
          /\ UNCHANGED <<server, mem, uiLock>>
          /\ t \in Tasks /\ mem.current = t /\ status[t] \in {"pending", "running", "over"}
      BY <1>2, GoPlace
      DEF ClaimCall, Core, Places, Holding, DutyInv, InHand, Executing, Flows
    <2>2. \/ status' = status /\ pc'["task"].at # "claimed"
          \/ Presents(t) /\ status[t] = "pending"
             /\ status' = [status EXCEPT ![t] = "running"]
      BY <1>2, GoPlace DEF ClaimCall
    <2>3. status[t] = "pending" => server.flow = t
      BY <2>1 DEF Core, Registered
    <2>4. Granted = {} /\ Granted' \in {{}, {t}}
      BY <2>1 DEF Granted
    <2>8. \A f \in Reads : status'[f] = status[f]
      BY <2>1, <2>2, InflightFlowAssumption DEF Flows
    <2>5. DutyInv'
      BY <2>1, <2>8, TaskLeavesReads, InflightFlowAssumption
      DEF DutyInv, InHand, TaskDrives, Executing
    <2>6. CASE status' = status /\ pc'["task"].at # "claimed"
      <3>1. Granted' = {}
        BY <2>6 DEF Granted
      <3> QED
        BY <2>1, <2>4, <2>5, <2>6, <3>1 DEF Does, Duty!vars
    <2>7. CASE status[t] = "pending" /\ status' = [status EXCEPT ![t] = "running"]
      <3>1. Duty!Grant(t)
        BY <2>1, <2>3, <2>4, <2>7 DEF Duty!Grant
      <3> QED
        BY <2>1, <2>5, <3>1 DEF Does, Duty!Next
    <2> QED
      BY <2>2, <2>6, <2>7
  <1>3. CASE Claimed
    <2>1. /\ pc["task"].at = "claimed" /\ pc'["task"].flow = t
          /\ pc'["task"].at \in {"finish", "report", "work"} /\ pc'["c2"] = pc["c2"]
          /\ UNCHANGED <<server, mem, status>>
          /\ t \in Tasks /\ mem.current = t
      BY <1>3, GoPlace
      DEF Claimed, Core, Places, Holding, DutyInv, InHand, Executing
    <2>2. Granted = {t} /\ Granted' = {}
      BY <2>1 DEF Granted
    <2>3. \/ pc'["task"].at = "work" /\ uiLock = None /\ uiLock' = "task"
          \/ uiLock' = uiLock
      BY <1>3, GoPlace DEF Claimed
    <2>4. DutyInv'
      BY <2>1, <2>3, InflightFlowAssumption
      DEF DutyInv, InHand, ReadIsNew, TaskDrives, Executing
    <2>5. CASE uiLock = None /\ uiLock' = "task"
      <3>1. Duty!CarryOut(t)
        BY <2>1, <2>2, <2>5 DEF Duty!CarryOut
      <3> QED
        BY <2>1, <2>4, <3>1 DEF Does, Duty!Next
    <2>6. CASE uiLock' = uiLock
      <3>1. Duty!Refrain
        BY <2>1, <2>2, <2>6 DEF Duty!Refrain
      <3> QED
        BY <2>4, <3>1 DEF Does, Duty!Next
    <2> QED
      BY <2>3, <2>5, <2>6
  <1>4. ASSUME NEW fate \in Fates, Work(fate) PROVE Does
    <2>1. /\ pc["task"].at = "work" /\ pc'["task"].flow = t
          /\ pc'["task"].at \in {"finish", "report"} /\ pc'["c2"] = pc["c2"]
          /\ UNCHANGED <<server, mem, status>> /\ uiLock' = None
      BY <1>4, GoPlace DEF Work
    <2>2. DutyInv'
      BY <2>1, InflightFlowAssumption
      DEF DutyInv, InHand, ReadIsNew, TaskDrives, Executing
    <2>3. Granted' = Granted
      BY <2>1 DEF Granted
    <2>4. Duty!LetGo
      BY <2>1, <2>3 DEF Duty!LetGo
    <2> QED
      BY <2>2, <2>4 DEF Does, Duty!Next
  <1>5. ASSUME NEW fate \in Fates, Report(fate) PROVE Does
    <2>1. /\ pc["task"].at = "report" /\ pc'["task"].flow = t
          /\ pc'["task"].at = "finish" /\ pc'["c2"] = pc["c2"]
          /\ UNCHANGED <<server, mem, uiLock>> /\ t \in Tasks
          /\ status' \in {status, [status EXCEPT ![t] = "over"]}
      BY <1>5, GoPlace DEF Report, Core, Places, Holding
    <2>5. \A f \in Reads : status'[f] = status[f]
      BY <2>1, InflightFlowAssumption DEF Flows
    <2>2. DutyInv'
      BY <2>1, <2>5, TaskLeavesReads, InflightFlowAssumption
      DEF DutyInv, InHand, TaskDrives, Executing
    <2>3. Granted' = Granted
      BY <2>1 DEF Granted
    <2>4. status' = status \/ Duty!End(t)
      BY <2>1, <2>3 DEF Duty!End
    <2> QED
      BY <2>1, <2>2, <2>3, <2>4 DEF Does, Duty!Next, Duty!vars, Duty!Flows
  <1>6. CASE Finish
    <2>1. /\ pc["task"].at = "finish" /\ pc'["task"].at = "finishCall"
          /\ pc'["c2"] = pc["c2"] /\ mem'.current = None
          /\ UNCHANGED <<server, status, uiLock>>
      BY <1>6, GoPlace DEF Finish
    <2>2. DutyInv'
      BY <2>1 DEF DutyInv, InHand, ReadIsNew, TaskDrives, Executing
    <2>3. Granted' = Granted /\ uiLock # "task"
      BY <2>1 DEF Granted, DutyInv, TaskDrives
    <2>4. Duty!LayDown
      BY <2>1, <2>3 DEF Duty!LayDown
    <2> QED
      BY <2>2, <2>4 DEF Does, Duty!Next
  <1> QED
    BY <1>1, <1>2, <1>3, <1>4, <1>5, <1>6

(* A read drives WeChat when no task is in hand.                           *)
LEMMA ReadDoes ==
  ASSUME FlowInv, DutyInv,
         \/ Scan \/ Settle \/ Adopt \/ Enter \/ Await \/ ReadWork \/ Leave
         \/ \E f \in Reads : Read(f)
  PROVE Does
  <1> USE DEF FlowInv, TypeOK, InMemory, Threads
  <1>1. CASE Scan \/ Settle \/ Adopt \/ Enter
    <2>1. Moves
      BY <1>1, GoPlace DEF Scan, Settle, Adopt, Enter, Moves
    <2> QED
      BY <2>1, MovesDoes
  <1>2. CASE Await
    <2>1. /\ pc'["task"] = pc["task"] /\ pc'["c2"].at \in {"leave", "work"}
          /\ UNCHANGED <<server, mem, status>>
          /\ \/ uiLock' = uiLock
             \/ mem.current = None /\ uiLock = None /\ uiLock' = "c2"
      BY <1>2, GoPlace DEF Await
    <2>2. DutyInv'
      BY <2>1 DEF DutyInv, InHand, ReadIsNew, TaskDrives
    <2>3. Granted' = Granted
      BY <2>1 DEF Granted
    <2>4. uiLock' = uiLock \/ Duty!ReadChat
      BY <2>1, <2>3 DEF Duty!ReadChat
    <2> QED
      BY <2>1, <2>2, <2>3, <2>4 DEF Does, Duty!Next, Duty!vars
  <1>3. CASE ReadWork
    <2>1. /\ pc'["task"] = pc["task"] /\ pc'["c2"].at = "leave"
          /\ UNCHANGED <<server, mem, status>> /\ uiLock' = None
      BY <1>3, GoPlace DEF ReadWork
    <2>2. DutyInv'
      BY <2>1, InflightFlowAssumption DEF DutyInv, InHand, ReadIsNew, TaskDrives
    <2>3. Duty!LetGo
      BY <2>1 DEF Duty!LetGo, Granted
    <2> QED
      BY <2>2, <2>3 DEF Does, Duty!Next
  <1>4. CASE Leave
    <2> DEFINE f == pc["c2"].flow
    <2>1. /\ pc'["task"] = pc["task"] /\ pc'["c2"].at \in {"finishCall", "tick", "scan"}
          /\ UNCHANGED <<server, mem, uiLock>>
          /\ \/ status' = status
             \/ f \in Reads /\ status' = [status EXCEPT ![f] = "over"]
      BY <1>4, GoPlace, HomePlace DEF Leave, Core, Places
    <2>2. DutyInv'
      BY <2>1 DEF DutyInv, InHand, ReadIsNew, TaskDrives
    <2>3. Granted' = Granted
      BY <2>1 DEF Granted
    <2>4. ASSUME status' # status PROVE f \in Reads /\ Duty!End(f)
      BY <2>1, <2>3, <2>4 DEF Duty!End
    <2> QED
      BY <2>1, <2>2, <2>3, <2>4 DEF Does, Duty!Next, Duty!vars, Duty!Flows
  <1>5. ASSUME NEW f \in Reads, Read(f) PROVE Does
    <2>1. /\ pc'["task"] = pc["task"] /\ pc'["c2"].flow = f /\ status[f] = "pending"
          /\ UNCHANGED <<server, mem, status, uiLock>>
      BY <1>5 DEF Read
    <2>2. DutyInv'
      BY <2>1 DEF DutyInv, InHand, ReadIsNew, TaskDrives
    <2>3. Granted' = Granted
      BY <2>1 DEF Granted
    <2> QED
      BY <2>1, <2>2, <2>3 DEF Does, Duty!vars
  <1> QED
    BY <1>1, <1>2, <1>3, <1>4, <1>5

(* A cancellation ends a task, and a kill forgets it.                      *)
LEMMA OutsideDoes ==
  ASSUME FlowInv, DutyInv, Restart \/ \E t \in Tasks : AdminCancel(t)
  PROVE Does
  <1> USE DEF FlowInv, TypeOK, InMemory, Threads
  <1>1. CASE Restart
    <2>1. /\ mem'.current = None /\ uiLock' = None /\ pc'["task"].at = "tick"
          /\ pc'["c2"].at = "scan" /\ UNCHANGED <<server, status>>
      BY <1>1 DEF Restart, Started, AtHome, Home
    <2>2. DutyInv'
      BY <2>1, InflightFlowAssumption
      DEF DutyInv, InHand, ReadIsNew, TaskDrives, Executing
    <2>3. Duty!Forget
      BY <2>1 DEF Duty!Forget, Granted
    <2> QED
      BY <2>2, <2>3 DEF Does, Duty!Next
  <1>2. ASSUME NEW t \in Tasks, AdminCancel(t) PROVE Does
    <2>1. DutyInv'
      BY <1>2, InflightFlowAssumption
      DEF AdminCancel, DutyInv, InHand, ReadIsNew, TaskDrives, Core, Places
    <2>2. Duty!End(t)
      BY <1>2 DEF AdminCancel, Duty!End, Granted
    <2> QED
      BY <2>1, <2>2 DEF Does, Duty!Next, Duty!Flows
  <1> QED
    BY <1>1, <1>2

(* Every step of InflightFlow is a step of OneFlow or none.                *)
LEMMA EveryStepDoes ==
  ASSUME FlowInv, DutyInv, [Next]_vars PROVE Does
  <1>1. ASSUME NEW th \in Threads, FlowStep(th) PROVE Does
    BY <1>1, FlowMoves, MovesDoes, RegistrationDoes, RecordDoes DEF FlowStep
  <1>2. CASE TaskStep
    BY <1>1, <1>2, TickMoves, MovesDoes, TaskDoes DEF TaskStep, Threads
  <1>3. CASE C2Step
    BY <1>1, <1>3, ReadDoes DEF C2Step, Threads
  <1>4. CASE UNCHANGED vars
    <2>1. Moves
      BY <1>4 DEF vars, Moves
    <2> QED
      BY <2>1, MovesDoes
  <1>5. ASSUME NEW th \in Threads, KeepFact(th) PROVE Does
    <2>1. Moves
      BY <1>5 DEF KeepFact, Moves
    <2> QED
      BY <2>1, MovesDoes
  <1> QED
    BY <1>2, <1>3, <1>4, <1>5, ClickMoves, MovesDoes, OutsideDoes DEF Next

(* KeepsOneFlow: the client and the server implement OneFlow, for any tasks, *)
(* reads, losses and restarts.  A task is carried out at most once and only *)
(* by the client that was granted it, a registration is given back when its *)
(* flow is over and nobody drives WeChat, and a read never does while a    *)
(* task is in hand.                                                        *)
THEOREM WorkerKeepsOneFlow == Spec => KeepsOneFlow
  <1>1. Init => DutyInv
    BY InflightFlowAssumption
    DEF Init, DutyInv, InHand, ReadIsNew, TaskDrives, Executing, AtHome, Home, Threads
  <1>2. Init => Duty!Init
    BY DEF Init, Duty!Init, Duty!Flows, Flows, Granted, AtHome, Home, Threads, Started
  <1>3. FlowInv /\ DutyInv /\ [Next]_vars => DutyInv' /\ [Duty!Next]_(Duty!vars)
    BY EveryStepDoes DEF Does
  <1> QED
    BY <1>1, <1>2, <1>3, FlowInvariant, PTL DEF Spec, KeepsOneFlow, Duty!Spec
=============================================================================
