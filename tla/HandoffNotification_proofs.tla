--------------------- MODULE HandoffNotification_proofs ---------------------
(***************************************************************************)
(* Proofs about HandoffNotification for any number of handoffs, threads,   *)
(* phones and edits.                                                       *)
(*                                                                         *)
(* That a handoff is delivered at most once does not follow from the row   *)
(* alone: the invariant Inv adds which thread works on which handoff.  A   *)
(* thread that has not called Feishu yet holds a handoff that is marked    *)
(* as being sent and was never delivered (Held), no two threads hold the   *)
(* same one (Apart), a handoff that is still pending was never delivered   *)
(* (Untouched), and a server that is down has no threads (DownIsIdle),     *)
(* which is what lets the startup settle what was being sent.              *)
(***************************************************************************)
EXTENDS HandoffNotification, TLAPS

Working(d) == thread[d].at # "idle"

Held ==
    \A d \in Threads : Working(d) =>
        /\ thread[d].event \in Events
        /\ status[thread[d].event] = "sending"
        /\ thread[d].at # "answered" => messages[thread[d].event] = 0

Apart ==
    \A c, d \in Threads :
        Working(c) /\ Working(d) /\ thread[c].event = thread[d].event => c = d

Untouched ==
    \A e \in Events : status[e] \in {"absent", "pending"} => messages[e] = 0

DownIsIdle == server = "down" => \A d \in Threads : thread[d] = Idle

Inv == TypeOK /\ Held /\ Apart /\ Untouched /\ DownIsIdle /\ AtMostOneMessage

Entry == [todo : SUBSET Events,
          at : {"idle", "claimed", "addressed", "answered"},
          event : Events \cup {0}, to : Phones \cup {Nobody}, ok : BOOLEAN]

-----------------------------------------------------------------------------
LEMMA IdleTyped == Idle \in Entry
  BY DEF Idle, Entry

(* A thread that gave up or settled its handoff is an idle one. *)
LEMMA LeftTyped ==
  ASSUME TypeOK, NEW d \in Threads
  PROVE  Left(d) \in Entry /\ Left(d).at = "idle"
  BY DEF TypeOK, Left, Idle, Entry

LEMMA InitInv == Init => Inv
  <1> SUFFICES ASSUME Init PROVE Inv
    OBVIOUS
  <1> USE HandoffNotificationAssumption
  <1>1. TypeOK
    BY IdleTyped DEF Init, TypeOK, Entry
  <1>2. Held /\ Apart /\ DownIsIdle
    BY DEF Init, Held, Apart, DownIsIdle, Working, Idle
  <1>3. Untouched /\ AtMostOneMessage
    BY DEF Init, Untouched, AtMostOneMessage
  <1> QED BY <1>1, <1>2, <1>3 DEF Inv

-----------------------------------------------------------------------------
(* Type correctness, by action. *)

LEMMA SalesType ==
  ASSUME TypeOK, SalesNext
  PROVE  /\ sales' \in [phone : Phones, id : Phones \cup {Nobody}]
         /\ edits' \in SUBSET [edit : 1 .. MaxEdits, phone : Phones,
                               clears : BOOLEAN]
         /\ lookups' \in SUBSET [edit : 1 .. MaxEdits, phone : Phones,
                                 at : {"queued", "asking", "failed"}]
         /\ edited' \in 0 .. MaxEdits
  <1> USE HandoffNotificationAssumption DEF TypeOK
  <1>1. CASE \E phone \in Phones : BeginEdit(phone)
    <2> PICK phone \in Phones : BeginEdit(phone)
      BY <1>1
    <2>1. edited' \in 1 .. MaxEdits /\ edited' \in 0 .. MaxEdits
      BY DEF BeginEdit
    <2>2. (sales.id # Nobody) \in BOOLEAN
      OBVIOUS
    <2>3. [edit |-> edited', phone |-> phone, clears |-> sales.id # Nobody]
            \in [edit : 1 .. MaxEdits, phone : Phones, clears : BOOLEAN]
      BY <2>1, <2>2, Zenon
    <2>4. edits' \in SUBSET [edit : 1 .. MaxEdits, phone : Phones,
                             clears : BOOLEAN]
      BY <2>3, Zenon DEF BeginEdit
    <2> QED BY <2>1, <2>4 DEF BeginEdit
  <1>2. CASE \E x \in edits : CommitEdit(x)
    BY <1>2 DEF CommitEdit
  <1>3. CASE \E x \in lookups : BeginLookup(x)
    BY <1>3 DEF BeginLookup
  <1>4. CASE \E x \in lookups : Match(x) \/ ClearIdentity(x)
    BY <1>4 DEF Match, ClearIdentity
  <1>5. CASE \E x \in lookups : LookupFails(x)
    BY <1>5 DEF LookupFails
  <1> QED BY <1>1, <1>2, <1>3, <1>4, <1>5 DEF SalesNext

LEMMA ThreadType ==
  ASSUME TypeOK, Held, HandoffNext
  PROVE  /\ thread' \in [Threads -> Entry]
         /\ status' \in [Events -> {"absent", "pending", "sending",
                                    "succeeded", "failed"}]
         /\ messages' \in [Events -> Nat]
         /\ closed' \in SUBSET Events /\ unsettled' \in SUBSET Events
  <1> USE DEF TypeOK, Entry
  <1>1. ASSUME NEW d \in Threads, NEW e \in Events, CommitHandoff(d, e)
        PROVE  /\ thread' \in [Threads -> Entry]
               /\ status' \in [Events -> {"absent", "pending", "sending",
                                          "succeeded", "failed"}]
    BY <1>1 DEF CommitHandoff
  <1>2. ASSUME ReadPending PROVE thread' \in [Threads -> Entry]
    BY <1>2 DEF ReadPending, Batch, Pending
  <1>3. ASSUME NEW d \in Threads, Claim(d)
        PROVE  /\ thread' \in [Threads -> Entry]
               /\ status' \in [Events -> {"absent", "pending", "sending",
                                          "succeeded", "failed"}]
    BY <1>3 DEF Claim, Takes
  <1>4. ASSUME NEW d \in Threads, NEW known \in BOOLEAN,
               FindRecipient(d, known)
        PROVE  thread' \in [Threads -> Entry]
    BY <1>4 DEF FindRecipient
  <1>5. ASSUME NEW d \in Threads, NEW delivered \in BOOLEAN,
               NEW ok \in BOOLEAN, Send(d, delivered, ok)
        PROVE  thread' \in [Threads -> Entry] /\ messages' \in [Events -> Nat]
    <2>1. thread[d].event \in Events
      BY <1>5 DEF Held, Working, Send
    <2>2. [messages EXCEPT ![thread[d].event] = @ + 1] \in [Events -> Nat]
      BY <2>1
    <2>3. messages' \in [Events -> Nat]
      BY <2>2, <1>5, Zenon DEF Send
    <2>4. thread' \in [Threads -> Entry]
      <3>1. [thread[d] EXCEPT !.at = "answered", !.ok = ok] \in Entry
        BY Zenon DEF Entry
      <3> QED BY <3>1, <1>5, Zenon DEF Send
    <2> QED BY <2>3, <2>4
  <1>6. ASSUME NEW d \in Threads, Settle(d) \/ SettleFails(d)
        PROVE  /\ thread' \in [Threads -> Entry]
               /\ status' \in [Events -> {"absent", "pending", "sending",
                                          "succeeded", "failed"}]
    BY <1>6, LeftTyped, IdleTyped DEF Settle, SettleFails
  <1>7. CASE \E d \in Threads, e \in Events : CommitHandoff(d, e)
    BY <1>1, <1>7 DEF CommitHandoff
  <1>8. CASE \E e \in Events : CloseHandoff(e)
    BY <1>8 DEF CloseHandoff
  <1>9. CASE ReadPending
    BY <1>2, <1>9 DEF ReadPending
  <1>10. CASE \E d \in Threads : Claim(d)
    BY <1>3, <1>10 DEF Claim
  <1>11. CASE \E d \in Threads, known \in BOOLEAN : FindRecipient(d, known)
    BY <1>4, <1>11 DEF FindRecipient
  <1>12. CASE \E d \in Threads, delivered, ok \in BOOLEAN :
                  Send(d, delivered, ok)
    BY <1>5, <1>12, Zenon DEF Send
  <1>13. CASE \E d \in Threads : Settle(d)
    BY <1>6, <1>13 DEF Settle
  <1>14. CASE \E d \in Threads : SettleFails(d)
    <2> PICK d \in Threads : SettleFails(d)
      BY <1>14
    <2>1. thread[d].event \in Events
      BY DEF Held, Working, SettleFails
    <2> QED BY <2>1, <1>6 DEF SettleFails
  <1> QED
    BY <1>7, <1>8, <1>9, <1>10, <1>11, <1>12, <1>13, <1>14
    DEF HandoffNext, Dispatch

LEMMA TypeStep ==
  ASSUME TypeOK, Held, [Next]_vars
  PROVE  TypeOK'
  <1>1. CASE HandoffNext
    <2>1. UNCHANGED <<server, salesVars>>
      BY <1>1 DEF HandoffNext, Dispatch, CommitHandoff, CloseHandoff,
         ReadPending, Claim, FindRecipient, Send, Settle, SettleFails
    <2> QED BY <1>1, <2>1, ThreadType DEF TypeOK, salesVars, Entry
  <1>2. CASE Crash
    BY <1>2, IdleTyped DEF Crash, TypeOK, Entry
  <1>3. CASE Startup
    <2>1. Batch \in SUBSET Events
      BY DEF Batch, Pending
    <2>2. thread' \in [Threads -> Entry]
      BY <1>3, <2>1 DEF Startup, TypeOK, Entry
    <2>3. status' \in [Events -> {"absent", "pending", "sending", "succeeded",
                                  "failed"}]
      BY <1>3 DEF Startup, TypeOK
    <2> QED BY <1>3, <2>2, <2>3 DEF Startup, TypeOK, Entry, salesVars
  <1>4. CASE Serve
    BY <1>4 DEF Serve, TypeOK, notifyVars, salesVars
  <1>5. CASE SalesNext
    <2>1. UNCHANGED <<server, notifyVars>>
      BY <1>5 DEF SalesNext, BeginEdit, CommitEdit, BeginLookup, Match,
         LookupFails, ClearIdentity
    <2> QED BY <1>5, <2>1, SalesType DEF TypeOK, notifyVars
  <1>6. CASE UNCHANGED vars
    BY <1>6 DEF TypeOK, vars, notifyVars, salesVars
  <1> QED BY <1>1, <1>2, <1>3, <1>4, <1>5, <1>6 DEF Next, ServerNext

-----------------------------------------------------------------------------
(* Which thread holds which handoff, by action. *)

LEMMA HeldStep ==
  ASSUME Inv, [Next]_vars
  PROVE  Held' /\ Apart' /\ Untouched' /\ DownIsIdle' /\ AtMostOneMessage'
  <1> DEFINE Kept == /\ Held' /\ Apart' /\ Untouched' /\ DownIsIdle'
                     /\ AtMostOneMessage'
  <1> USE DEF Inv, Held, Apart, Untouched, DownIsIdle, AtMostOneMessage,
              Working
  <1>1. ASSUME NEW d \in Threads, NEW e \in Events, CommitHandoff(d, e)
        PROVE  Kept
    BY <1>1 DEF CommitHandoff, TypeOK, Idle
  <1>2. ASSUME NEW e \in Events, CloseHandoff(e) PROVE Kept
    BY <1>2 DEF CloseHandoff
  <1>3. CASE ReadPending
    BY <1>3 DEF ReadPending, TypeOK, Idle
  <1>4. ASSUME NEW d \in Threads, Claim(d) PROVE Kept
    <2> PICK e \in thread[d].todo :
          IF Claimable(e)
          THEN Takes(d, e) /\ status' = [status EXCEPT ![e] = "sending"]
          ELSE /\ thread' = [thread EXCEPT ![d].todo = @ \ {e}]
               /\ UNCHANGED status
      BY <1>4 DEF Claim
    <2>1. e \in Events
      BY DEF TypeOK
    <2>2. CASE Claimable(e)
      <3>1. status[e] = "pending" /\ messages[e] = 0
        BY <2>1, <2>2 DEF Claimable
      <3>2. /\ thread'[d].at = "claimed" /\ thread'[d].event = e
            /\ \A c \in Threads \ {d} : thread'[c] = thread[c]
        BY <2>2 DEF Takes, TypeOK
      <3>3. \A c \in Threads \ {d} : Working(c) => thread[c].event # e
        BY <3>1
      <3>4. UNCHANGED <<server, messages>> /\ server # "down"
        BY <1>4 DEF Claim
      <3>5. /\ status'[e] = "sending"
            /\ \A f \in Events \ {e} : status'[f] = status[f]
        BY <2>1, <2>2 DEF TypeOK
      <3>6. Held' /\ Apart'
        BY <3>1, <3>2, <3>3, <3>4, <3>5, <2>1
      <3>7. Untouched' /\ DownIsIdle' /\ AtMostOneMessage'
        BY <3>4, <3>5
      <3> QED BY <3>6, <3>7
    <2>3. CASE ~Claimable(e)
      BY <2>3, <1>4 DEF Claim, TypeOK
    <2> QED BY <2>2, <2>3
  <1>5. ASSUME NEW d \in Threads, NEW known \in BOOLEAN,
               FindRecipient(d, known)
        PROVE  Kept
    BY <1>5 DEF FindRecipient, TypeOK, Idle
  <1>6. ASSUME NEW d \in Threads, NEW delivered \in BOOLEAN,
               NEW ok \in BOOLEAN, Send(d, delivered, ok)
        PROVE  Kept
    <2> DEFINE e == thread[d].event
    <2>1. /\ e \in Events /\ status[e] = "sending" /\ messages[e] = 0
          /\ Working(d)
      BY <1>6 DEF Send
    <2>2. /\ thread'[d].at = "answered" /\ thread'[d].event = e
          /\ \A c \in Threads \ {d} : thread'[c] = thread[c]
      BY <1>6 DEF Send, TypeOK
    <2>3. /\ messages'[e] <= 1
          /\ \A f \in Events \ {e} : messages'[f] = messages[f]
      BY <1>6, <2>1 DEF Send, TypeOK
    <2>4. \A c \in Threads \ {d} : Working(c) => thread[c].event # e
      BY <2>1
    <2>5. UNCHANGED <<server, status>>
      BY <1>6 DEF Send
    <2>6. server # "down"
      BY <2>1 DEF Idle
    <2>7. Held' /\ Apart'
      BY <2>1, <2>2, <2>3, <2>4, <2>5
    <2>8. Untouched' /\ AtMostOneMessage' /\ DownIsIdle'
      BY <2>1, <2>3, <2>5, <2>6
    <2> QED BY <2>7, <2>8
  <1>7. ASSUME NEW d \in Threads, Settle(d) \/ SettleFails(d) PROVE Kept
    <2> DEFINE e == thread[d].event
    <2>1. /\ e \in Events /\ status[e] = "sending" /\ Working(d)
      BY <1>7 DEF Settle, SettleFails
    <2>2. /\ thread'[d].at = "idle"
          /\ \A c \in Threads \ {d} : thread'[c] = thread[c]
      BY <1>7, LeftTyped DEF Settle, SettleFails, TypeOK, Idle
    <2>3. \A c \in Threads \ {d} : Working(c) => thread[c].event # e
      BY <2>1
    <2>4. /\ UNCHANGED <<server, messages>>
          /\ status'[e] \notin {"absent", "pending"}
          /\ \A f \in Events \ {e} : status'[f] = status[f]
      BY <1>7, <2>1 DEF Settle, SettleFails, TypeOK
    <2>5. server # "down"
      BY <2>1 DEF Idle
    <2> QED BY <2>1, <2>2, <2>3, <2>4, <2>5
  <1>8. CASE Crash
    BY <1>8 DEF Crash, Idle
  <1>9. CASE Startup
    BY <1>9 DEF Startup, TypeOK, Idle
  <1>10. CASE Serve
    BY <1>10 DEF Serve, notifyVars
  <1>11. CASE SalesNext \/ UNCHANGED vars
    <2>1. UNCHANGED <<server, notifyVars>>
      BY <1>11 DEF SalesNext, BeginEdit, CommitEdit, BeginLookup, Match,
         LookupFails, ClearIdentity, vars
    <2> QED BY <2>1 DEF notifyVars
  <1> QED
    BY <1>1, <1>2, <1>3, <1>4, <1>5, <1>6, <1>7, <1>8, <1>9, <1>10, <1>11
    DEF Next, HandoffNext, ServerNext, Dispatch

(* What is marked as being sent is held by a thread or was left by the     *)
(* database, while the server runs.                                        *)
LEMMA OwnedStep ==
  ASSUME Inv, SendingIsOwned, [Next]_vars
  PROVE  SendingIsOwned'
  <1> USE DEF SendingIsOwned, Inv, Held, Working
  <1>1. ASSUME NEW d \in Threads, NEW e \in Events, CommitHandoff(d, e)
        PROVE  SendingIsOwned'
    BY <1>1 DEF CommitHandoff, TypeOK, Idle
  <1>2. ASSUME NEW e \in Events, CloseHandoff(e) PROVE SendingIsOwned'
    BY <1>2 DEF CloseHandoff
  <1>3. CASE ReadPending
    BY <1>3 DEF ReadPending, TypeOK, Idle
  <1>4. ASSUME NEW d \in Threads, Claim(d) PROVE SendingIsOwned'
    BY <1>4 DEF Claim, Takes, TypeOK
  <1>5. ASSUME NEW d \in Threads,
               \/ \E known \in BOOLEAN : FindRecipient(d, known)
               \/ \E delivered, ok \in BOOLEAN : Send(d, delivered, ok)
        PROVE  SendingIsOwned'
    <2>1. /\ Working(d) /\ thread'[d].at # "idle"
          /\ thread'[d].event = thread[d].event
          /\ \A c \in Threads \ {d} : thread'[c] = thread[c]
      BY <1>5 DEF FindRecipient, Send, TypeOK
    <2>2. UNCHANGED <<server, status, unsettled>>
      BY <1>5 DEF FindRecipient, Send
    <2> QED BY <2>1, <2>2
  <1>6. ASSUME NEW d \in Threads, Settle(d) \/ SettleFails(d)
        PROVE  SendingIsOwned'
    <2> DEFINE e == thread[d].event
    <2>1. /\ e \in Events /\ status[e] = "sending" /\ Working(d)
      BY <1>6 DEF Settle, SettleFails
    <2>2. \A c \in Threads \ {d} : thread'[c] = thread[c]
      BY <1>6 DEF Settle, SettleFails, TypeOK
    <2>3. /\ UNCHANGED server
          /\ unsettled \subseteq unsettled'
          /\ status'[e] = "sending" => e \in unsettled'
          /\ \A f \in Events \ {e} : status'[f] = status[f]
      BY <1>6, <2>1 DEF Settle, SettleFails, TypeOK
    <2> QED BY <2>1, <2>2, <2>3
  <1>7. CASE Crash
    BY <1>7 DEF Crash
  <1>8. CASE Startup
    BY <1>8 DEF Startup, TypeOK
  <1>9. CASE Serve
    <2>1. \A e \in Events : status[e] = "sending" =>
            \/ e \in unsettled
            \/ \E d \in Threads : thread[d].at # "idle" /\ thread[d].event = e
      BY <1>9 DEF Serve
    <2> QED BY <1>9, <2>1 DEF Serve, notifyVars
  <1>10. CASE SalesNext \/ UNCHANGED vars
    <2>1. UNCHANGED <<server, notifyVars>>
      BY <1>10 DEF SalesNext, BeginEdit, CommitEdit, BeginLookup, Match,
         LookupFails, ClearIdentity, vars
    <2> QED BY <2>1 DEF notifyVars
  <1> QED
    BY <1>1, <1>2, <1>3, <1>4, <1>5, <1>6, <1>7, <1>8, <1>9, <1>10
    DEF Next, HandoffNext, ServerNext, Dispatch

-----------------------------------------------------------------------------
(* Every reachable state satisfies the invariant.                          *)
THEOREM InvHolds == Spec => []Inv
  <1>1. Inv /\ [Next]_vars => Inv'
    BY TypeStep, HeldStep DEF Inv
  <1> QED BY InitInv, <1>1, PTL DEF Spec

(* The rows, the threads and the sales keep their types: a handoff is      *)
(* settled as succeeded or failed and never as anything else.              *)
THEOREM TypeCorrect == Spec => []TypeOK
  <1>1. Inv => TypeOK
    BY DEF Inv
  <1> QED BY InvHolds, <1>1, PTL

(* Feishu delivers a handoff at most once, for every number of handoffs,   *)
(* threads and kills of the server: dispatch_handoff_notification.         *)
THEOREM DeliveredAtMostOnce == Spec => []AtMostOneMessage
  <1>1. Inv => AtMostOneMessage
    BY DEF Inv
  <1> QED BY InvHolds, <1>1, PTL

(* While the server runs, no handoff is left marked as being sent without  *)
(* a thread, but for a settling the database refused: the startup.         *)
THEOREM InterruptedIsSettled == Spec => []SendingIsOwned
  <1>1. Init => SendingIsOwned
    BY DEF Init, SendingIsOwned
  <1>2. Inv /\ SendingIsOwned /\ [Next]_vars => SendingIsOwned'
    BY OwnedStep
  <1> QED BY InvHolds, <1>1, <1>2, PTL DEF Spec

(* An identity that is written is the one of the phone in the row at that  *)
(* time, for any number of edits and lookups: the condition of the update  *)
(* of sync_sales_open_id.                                                  *)
THEOREM StaleMatchIsDiscarded == Spec => MatchIsForPhone
  <1>1. Inv /\ [Next]_vars =>
          [sales'.id \notin {sales.id, Nobody} => sales'.id = sales'.phone]_vars
    <2> SUFFICES ASSUME TypeOK, Next
                 PROVE  sales'.id \notin {sales.id, Nobody}
                          => sales'.id = sales'.phone
      BY DEF Inv
    <2>1. CASE SalesNext
      BY <2>1 DEF SalesNext, BeginEdit, CommitEdit, BeginLookup, Match,
         LookupFails, ClearIdentity, TypeOK
    <2>2. CASE HandoffNext \/ ServerNext
      <3>1. UNCHANGED sales
        BY <2>2 DEF HandoffNext, Dispatch, CommitHandoff, CloseHandoff,
           ReadPending, Claim, FindRecipient, Send, Settle, SettleFails,
           ServerNext, Crash, Startup, Serve, salesVars
      <3> QED BY <3>1
    <2> QED BY <2>1, <2>2 DEF Next
  <1> QED BY InvHolds, <1>1, PTL DEF Spec, MatchIsForPhone

-----------------------------------------------------------------------------
(* HandoffNotification implements DeliveredOnce.                           *)

(* Only a handoff that was committed is closed, and an answer that says    *)
(* "delivered" is of a handoff that was.                                   *)
Told ==
    /\ \A e \in closed : status[e] # "absent"
    /\ \A d \in Threads : thread[d].at = "answered" /\ thread[d].ok =>
          messages[thread[d].event] = 1

(* Every step keeps Told.                                                  *)
LEMMA ToldStep ==
  ASSUME Inv, Told, [Next]_vars
  PROVE  Told'
  <1> USE DEF Inv, Held, Apart, Told, Working
  <1>1. ASSUME NEW d \in Threads, NEW e \in Events, CommitHandoff(d, e)
        PROVE  Told'
    BY <1>1 DEF CommitHandoff, TypeOK, Idle
  <1>2. ASSUME NEW e \in Events, CloseHandoff(e) PROVE Told'
    BY <1>2 DEF CloseHandoff
  <1>3. CASE ReadPending
    BY <1>3 DEF ReadPending, TypeOK, Idle
  <1>4. ASSUME NEW d \in Threads, Claim(d) PROVE Told'
    BY <1>4 DEF Claim, Takes, Claimable, TypeOK
  <1>5. ASSUME NEW d \in Threads, NEW known \in BOOLEAN,
               FindRecipient(d, known)
        PROVE  Told'
    BY <1>5 DEF FindRecipient, TypeOK
  <1>6. ASSUME NEW d \in Threads, NEW delivered \in BOOLEAN,
               NEW ok \in BOOLEAN, Send(d, delivered, ok)
        PROVE  Told'
    <2> DEFINE e == thread[d].event
    <2>1. e \in Events /\ messages[e] = 0 /\ Working(d)
      BY <1>6 DEF Send
    <2>2. /\ thread'[d].ok = ok /\ thread'[d].event = e
          /\ \A c \in Threads \ {d} : thread'[c] = thread[c]
      BY <1>6 DEF Send, TypeOK
    <2>3. /\ ok => messages'[e] = 1
          /\ \A f \in Events \ {e} : messages'[f] = messages[f]
      BY <1>6, <2>1 DEF Send, TypeOK
    <2>4. \A c \in Threads \ {d} : Working(c) => thread[c].event # e
      BY <2>1
    <2>5. UNCHANGED <<status, closed>>
      BY <1>6 DEF Send
    <2> QED BY <2>1, <2>2, <2>3, <2>4, <2>5
  <1>7. ASSUME NEW d \in Threads, Settle(d) \/ SettleFails(d) PROVE Told'
    <2>1. /\ thread'[d].at = "idle"
          /\ \A c \in Threads \ {d} : thread'[c] = thread[c]
      BY <1>7, LeftTyped DEF Settle, SettleFails, TypeOK, Idle
    <2>2. /\ UNCHANGED <<messages, closed>>
          /\ \A e \in Events : status[e] # "absent" => status'[e] # "absent"
      BY <1>7 DEF Settle, SettleFails, TypeOK
    <2>3. closed \subseteq Events
      BY DEF TypeOK
    <2> QED BY <2>1, <2>2, <2>3
  <1>8. CASE Crash
    BY <1>8 DEF Crash, Idle
  <1>9. CASE Startup
    BY <1>9 DEF Startup, TypeOK, Idle
  <1>10. CASE Serve
    BY <1>10 DEF Serve, notifyVars
  <1>11. CASE SalesNext \/ UNCHANGED vars
    <2>1. UNCHANGED <<server, notifyVars>>
      BY <1>11 DEF SalesNext, BeginEdit, CommitEdit, BeginLookup, Match,
         LookupFails, ClearIdentity, vars
    <2> QED BY <2>1 DEF notifyVars
  <1> QED
    BY <1>1, <1>2, <1>3, <1>4, <1>5, <1>6, <1>7, <1>8, <1>9, <1>10, <1>11
    DEF Next, HandoffNext, ServerNext, Dispatch

(* A step of the handoffs is one step of the promise, or none.             *)
LEMMA PromiseStep ==
  ASSUME Inv, Told, [Next]_vars
  PROVE  [Delivered!Next]_(Delivered!vars)
  <1> DEFINE stage == [e \in Events |-> Stage(e)]
  <1> SUFFICES Delivered!Next \/ UNCHANGED <<stage, messages>>
    BY DEF Delivered!vars
  <1>types. /\ status \in [Events -> {"absent", "pending", "sending", "succeeded",
                                  "failed"}]
        /\ closed \subseteq Events
        /\ thread \in [Threads -> Entry] /\ messages \in [Events -> Nat]
    BY DEF Inv, TypeOK, Entry
  <1>same. ASSUME UNCHANGED <<status, closed, messages>>
           PROVE  UNCHANGED <<stage, messages>>
    BY <1>same DEF Stage
  <1>1. ASSUME NEW d \in Threads, NEW e \in Events, CommitHandoff(d, e)
        PROVE  Delivered!Next
    <2>1. e \notin closed /\ status[e] = "absent"
      BY <1>1 DEF CommitHandoff, Told
    <2>2. UNCHANGED <<closed, messages>> /\ status' = [status EXCEPT ![e] = "pending"]
      BY <1>1 DEF CommitHandoff
    <2>3. stage' = [stage EXCEPT ![e] = "waiting"]
      BY <2>1, <2>2, <1>types DEF Stage
    <2>3a. Delivered!Removed({}, stage') = stage'
      BY DEF Delivered!Removed
    <2>4. e \in Delivered!In("absent")
      BY <2>1 DEF Delivered!In, Stage
    <2>5. Delivered!Accept(e, {})
      BY <2>2, <2>3, <2>3a, <2>4 DEF Delivered!Accept
    <2> QED BY <2>5 DEF Delivered!Next
  <1>2. ASSUME NEW e \in Events, CloseHandoff(e)
        PROVE  Delivered!Next \/ UNCHANGED <<stage, messages>>
    <2>1. /\ UNCHANGED <<status, messages>> /\ closed' = closed \cup {e}
          /\ e \notin closed
      BY <1>2 DEF CloseHandoff
    <2>2. CASE status[e] = "pending"
      <3>1. e \in Delivered!In("waiting")
        BY <2>1, <2>2 DEF Delivered!In, Stage
      <3>2. stage' = [stage EXCEPT ![e] = "dropped"] /\ stage[e] = "waiting"
        BY <2>1, <2>2, <1>types DEF Stage
      <3>2a. stage' = Delivered!Removed({e}, stage)
        BY <3>2 DEF Delivered!Removed
      <3>3. Delivered!Drop(e)
        BY <3>1, <3>2a, <2>1 DEF Delivered!Drop
      <3> QED BY <3>3 DEF Delivered!Next
    <2>3. CASE status[e] # "pending"
      BY <2>1, <2>3, <1>types DEF Stage
    <2> QED BY <2>2, <2>3
  <1>3. ASSUME NEW d \in Threads, Claim(d)
        PROVE  Delivered!Next \/ UNCHANGED <<stage, messages>>
    <2> PICK e \in thread[d].todo :
          IF Claimable(e)
          THEN Takes(d, e) /\ status' = [status EXCEPT ![e] = "sending"]
          ELSE /\ thread' = [thread EXCEPT ![d].todo = @ \ {e}]
               /\ UNCHANGED status
      BY <1>3 DEF Claim
    <2>1. e \in Events
      BY <1>types DEF Entry
    <2>2. UNCHANGED <<closed, messages>>
      BY <1>3 DEF Claim
    <2>3. CASE Claimable(e)
      <3>1. e \in Delivered!In("waiting")
        BY <2>1, <2>3 DEF Delivered!In, Stage, Claimable
      <3>2. stage' = [stage EXCEPT ![e] = "taken"]
        BY <2>1, <2>2, <2>3, <1>types DEF Stage
      <3>3. Delivered!Take(e)
        BY <3>1, <3>2, <2>2 DEF Delivered!Take
      <3> QED BY <3>3, <2>1 DEF Delivered!Next
    <2>4. CASE ~Claimable(e)
      BY <2>2, <2>4, <1>same
    <2> QED BY <2>3, <2>4
  <1>4. ASSUME NEW d \in Threads, NEW delivered \in BOOLEAN,
               NEW ok \in BOOLEAN, Send(d, delivered, ok)
        PROVE  Delivered!Next \/ UNCHANGED <<stage, messages>>
    <2> DEFINE e == thread[d].event
    <2>1. e \in Events /\ status[e] = "sending" /\ messages[e] = 0
      BY <1>4 DEF Inv, Held, Working, Send
    <2>2. UNCHANGED stage
      BY <1>4 DEF Send, Stage
    <2>3. CASE delivered
      <3>1. messages' = [messages EXCEPT ![e] = 1]
        BY <1>4, <2>1, <2>3, <1>types DEF Send
      <3>2. stage[e] = "taken"
        BY <2>1 DEF Stage
      <3>3. Delivered!Arrive(e)
        BY <2>1, <2>2, <3>1, <3>2 DEF Delivered!Arrive
      <3> QED BY <3>3, <2>1 DEF Delivered!Next
    <2>4. CASE ~delivered
      BY <1>4, <2>2, <2>4 DEF Send
    <2> QED BY <2>3, <2>4
  <1>5. ASSUME NEW d \in Threads, Settle(d)
        PROVE  Delivered!Next
    <2> DEFINE e == thread[d].event
    <2>1. e \in Events /\ status[e] = "sending"
      BY <1>5 DEF Inv, Held, Working, Settle
    <2>2. /\ UNCHANGED <<closed, messages>>
          /\ status' = [status EXCEPT ![e] = IF thread[d].ok THEN "succeeded"
                                             ELSE "failed"]
      BY <1>5, <2>1 DEF Settle
    <2>3. e \in Delivered!In("taken")
      BY <2>1 DEF Delivered!In, Stage
    <2>4. CASE thread[d].ok
      <3>1. messages[e] = 1
        BY <1>5, <2>4 DEF Settle, Told
      <3>2. stage' = [stage EXCEPT ![e] = "sent"]
        BY <2>1, <2>2, <2>4, <1>types DEF Stage
      <3>3. Delivered!Record(e, "sent")
        BY <2>2, <2>3, <3>1, <3>2 DEF Delivered!Record
      <3> QED BY <3>3, <2>1 DEF Delivered!Next
    <2>5. CASE ~thread[d].ok
      <3>1. stage' = [f \in Events |-> IF f \in {e} THEN "unknown" ELSE stage[f]]
        BY <2>1, <2>2, <2>5, <1>types DEF Stage
      <3>2. Delivered!GiveUp({e})
        BY <2>2, <2>3, <3>1 DEF Delivered!GiveUp
      <3>3. {e} \in SUBSET Events
        BY <2>1
      <3> QED BY <3>2, <3>3 DEF Delivered!Next
    <2> QED BY <2>4, <2>5
  <1>6. CASE Startup
    <2> DEFINE lost == {e \in Events : status[e] = "sending"}
    <2>1. /\ UNCHANGED <<closed, messages>>
          /\ status' = [e \in Events |-> IF status[e] = "sending" THEN "failed"
                                         ELSE status[e]]
      BY <1>6 DEF Startup
    <2>2. stage' = [e \in Events |-> IF e \in lost THEN "unknown" ELSE stage[e]]
      BY <2>1, <1>types DEF Stage
    <2>3. lost \subseteq Delivered!In("taken")
      BY DEF Delivered!In, Stage
    <2>4. Delivered!GiveUp(lost)
      BY <2>1, <2>2, <2>3 DEF Delivered!GiveUp
    <2>5. lost \in SUBSET Events
      OBVIOUS
    <2> QED BY <2>4, <2>5 DEF Delivered!Next
  <1>7. CASE \/ ReadPending \/ Crash \/ Serve \/ SalesNext \/ UNCHANGED vars
             \/ \E d \in Threads : SettleFails(d)
             \/ \E d \in Threads, known \in BOOLEAN : FindRecipient(d, known)
    <2>1. UNCHANGED <<status, closed, messages>>
      BY <1>7 DEF ReadPending, Crash, Serve, SettleFails, FindRecipient,
         SalesNext, BeginEdit, CommitEdit, BeginLookup, Match, LookupFails,
         ClearIdentity, vars, notifyVars
    <2> QED BY <2>1, <1>same
  <1> QED
    BY <1>1, <1>2, <1>3, <1>4, <1>5, <1>6, <1>7
    DEF Next, HandoffNext, ServerNext, Dispatch

(* The notifications keep the promise of DeliveredOnce for any number of   *)
(* handoffs, threads and kills: taken once, delivered at most once and     *)
(* only then, and "succeeded" recorded only of what was delivered          *)
(* (_claim_notification, _settle_notification).                            *)
THEOREM HandoffsImplementDeliveredOnce == Spec => HandoffsAreDeliveredOnce
  <1>1. Init => Told /\ Delivered!Init
    <2> SUFFICES ASSUME Init PROVE Told /\ Delivered!Init
      OBVIOUS
    <2>1. Told
      BY DEF Init, Told, Idle
    <2>2. Delivered!Init
      BY DEF Init, Delivered!Init, Stage
    <2> QED BY <2>1, <2>2
  <1>2. Inv /\ Told /\ [Next]_vars => Told'
    BY ToldStep
  <1>3. Inv /\ Told /\ [Next]_vars => [Delivered!Next]_(Delivered!vars)
    BY PromiseStep
  <1> QED
    BY InvHolds, <1>1, <1>2, <1>3, PTL
    DEF Spec, HandoffsAreDeliveredOnce, Delivered!Spec
=============================================================================
