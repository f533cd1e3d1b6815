------------------------ MODULE HandoffNotification ------------------------
(***************************************************************************)
(* The notification of the sales about a handoff, over Feishu, and the     *)
(* Feishu identity of the sales it goes to (feishu_service.py, the edit of *)
(* sales_service.py, the post-commit hook of database.py, the startup of   *)
(* main.py and the loop of c3_recovery.py).                                *)
(*                                                                         *)
(* A committed handoff is pending in its row; the thread that committed it *)
(* dispatches it after the commit, and the recovery loop dispatches what   *)
(* it finds pending.  A dispatch claims the row, reads the recipient,      *)
(* calls Feishu and settles the row, each in a transaction of its own; the *)
(* server may be killed between any two of them.  An edit of the phone of  *)
(* the sales clears the identity and looks up the new one after its        *)
(* commit; the session writes only what differs from what it has read.     *)
(*                                                                         *)
(* Abstracted: one sales, and an identity is the phone it was matched to;  *)
(* the handoffs are of different conversations, numbered by their          *)
(* creation; texts, the Feishu token, logs and the backfill script.        *)
(*                                                                         *)
(* A definition whose name ends in Bug is the next one with a plausible    *)
(* slip in it; none of them is part of the specification.                  *)
(***************************************************************************)
EXTENDS Integers, FiniteSets

CONSTANTS
    MaxEvents,      \* bound on the handoffs
    Limit,          \* how many pending ones a pass of the loop takes
    Threads,        \* the threads that dispatch
    Loop,           \* the one of the recovery loop, and of the startup
    Phones,         \* the phones the sales may have
    Nobody,         \* no phone, no identity
    MaxEdits        \* bound on the changes of the phone

ASSUME HandoffNotificationAssumption ==
    /\ MaxEvents \in Nat \ {0} /\ Limit \in Nat \ {0} /\ MaxEdits \in Nat
    /\ Loop \in Threads /\ Nobody \notin Phones

VARIABLES
    server,     \* "down", "starting" or "up"
    status,     \* status[e]: notify_status of handoff e
    closed,     \* the handoffs with a closed_at
    thread,     \* thread[d]: [todo, at, event, to, ok]
    messages,   \* messages[e]: how often Feishu has delivered e
    unsettled,  \* the handoffs whose settling failed since the last start
    sales,      \* [phone, id]: the row of the sales
    edits,      \* the edits of the phone under way, with what they have read
    lookups,    \* the lookups of an identity after an edit
    edited      \* how often the phone was edited

notifyVars == <<status, closed, thread, messages, unsettled>>
salesVars  == <<sales, edits, lookups, edited>>
vars       == <<server, notifyVars, salesVars>>

-----------------------------------------------------------------------------
Events == 1 .. MaxEvents
Idle   == [todo |-> {}, at |-> "idle", event |-> 0, to |-> Nobody, ok |-> FALSE]

Init ==
    /\ server = "up"
    /\ status = [e \in Events |-> "absent"]
    /\ closed = {}
    /\ thread = [d \in Threads |-> Idle]
    /\ messages = [e \in Events |-> 0]
    /\ unsettled = {}
    /\ \E p \in Phones : \E id \in {p, Nobody} : sales = [phone |-> p, id |-> id]
    /\ edits = {} /\ lookups = {} /\ edited = 0

Claimable(e) == status[e] = "pending" /\ e \notin closed
Pending      == {e \in Events : Claimable(e)}

BatchBug == \* the closed ones that were never sent are counted too
    LET waiting == {e \in Events : status[e] = "pending"}
    IN  {e \in waiting : Cardinality({f \in waiting : f < e}) < Limit}

(* The oldest ones, as many as a pass takes. *)
Batch == {e \in Pending : Cardinality({f \in Pending : f < e}) < Limit}

-----------------------------------------------------------------------------
(* The handoffs *)

(* The commit of a transaction that created handoff e, and the hook after  *)
(* it: the thread goes on to dispatch e.                                   *)
CommitHandoff(d, e) ==
    /\ server = "up" /\ thread[d] = Idle
    /\ status[e] = "absent" /\ \A f \in Events : f < e => status[f] # "absent"
    /\ status' = [status EXCEPT ![e] = "pending"]
    /\ thread' = [thread EXCEPT ![d].todo = {e}]
    /\ UNCHANGED <<server, closed, messages, unsettled, salesVars>>

CloseHandoff(e) ==
    /\ server = "up"
    /\ status[e] # "absent" /\ e \notin closed
    /\ closed' = closed \cup {e}
    /\ UNCHANGED <<server, status, thread, messages, unsettled, salesVars>>

(* A pass of the recovery loop reads what is pending. *)
ReadPending ==
    /\ server = "up" /\ thread[Loop] = Idle /\ Pending # {}
    /\ thread' = [thread EXCEPT ![Loop].todo = Batch]
    /\ UNCHANGED <<server, status, closed, messages, unsettled, salesVars>>

-----------------------------------------------------------------------------
(* The dispatch *)

Takes(d, e) ==
    thread' = [thread EXCEPT ![d].todo = @ \ {e}, ![d].at = "claimed",
                             ![d].event = e]

ClaimBug(d) == \* what the pass has read is not looked at again
    /\ server # "down" /\ thread[d].at = "idle"
    /\ \E e \in thread[d].todo :
          /\ \A f \in thread[d].todo : e <= f
          /\ Takes(d, e)
          /\ status' = [status EXCEPT ![e] = "sending"]
    /\ UNCHANGED <<server, closed, messages, unsettled, salesVars>>

Claim(d) ==
    /\ server # "down" /\ thread[d].at = "idle"
    /\ \E e \in thread[d].todo :
          /\ \A f \in thread[d].todo : e <= f
          /\ IF Claimable(e)
             THEN Takes(d, e) /\ status' = [status EXCEPT ![e] = "sending"]
             ELSE /\ thread' = [thread EXCEPT ![d].todo = @ \ {e}]
                  /\ UNCHANGED status
    /\ UNCHANGED <<server, closed, messages, unsettled, salesVars>>

(* The recipient and the text; a route or a code of the customer that is   *)
(* missing fails the notification, as a sales without identity does.       *)
FindRecipient(d, known) ==
    /\ thread[d].at = "claimed"
    /\ IF known /\ sales.id # Nobody
       THEN thread' = [thread EXCEPT ![d].at = "addressed", ![d].to = sales.id]
       ELSE thread' = [thread EXCEPT ![d].at = "answered", ![d].ok = FALSE]
    /\ UNCHANGED <<server, status, closed, messages, unsettled, salesVars>>

(* The call of Feishu: it may deliver without an answer that says so. *)
Send(d, delivered, ok) ==
    /\ thread[d].at = "addressed"
    /\ ok => delivered
    /\ messages' = IF delivered
                   THEN [messages EXCEPT ![thread[d].event] = @ + 1]
                   ELSE messages
    /\ thread' = [thread EXCEPT ![d].at = "answered", ![d].ok = ok]
    /\ UNCHANGED <<server, status, closed, unsettled, salesVars>>

(* The thread without the handoff it has worked on. *)
Left(d) == [Idle EXCEPT !.todo = thread[d].todo]

Settle(d) ==
    /\ thread[d].at = "answered"
    /\ status' = IF status[thread[d].event] # "sending" THEN status
                 ELSE [status EXCEPT ![thread[d].event] =
                          IF thread[d].ok THEN "succeeded" ELSE "failed"]
    /\ thread' = [thread EXCEPT ![d] = Left(d)]
    /\ UNCHANGED <<server, closed, messages, unsettled, salesVars>>

(* The database refuses the last transaction: nobody tries it again, and   *)
(* the pass of the loop ends there.  At the startup it is as a kill.       *)
SettleFails(d) ==
    /\ server = "up" /\ thread[d].at = "answered"
    /\ thread' = [thread EXCEPT ![d] = IF d = Loop THEN Idle ELSE Left(d)]
    /\ unsettled' = unsettled \cup {thread[d].event}
    /\ UNCHANGED <<server, status, closed, messages, salesVars>>

-----------------------------------------------------------------------------
(* The server *)

Crash ==
    /\ server # "down"
    /\ server' = "down"
    /\ thread' = [d \in Threads |-> Idle]
    /\ edits' = {} /\ lookups' = {} /\ unsettled' = {}
    /\ UNCHANGED <<status, closed, messages, sales, edited>>

StartupBug == \* what was being sent is left as it is
    /\ server = "down"
    /\ server' = "starting"
    /\ thread' = [thread EXCEPT ![Loop].todo = Batch]
    /\ UNCHANGED <<status, closed, messages, unsettled, salesVars>>

(* Nobody knows whether what was being sent has arrived. *)
Startup ==
    /\ server = "down"
    /\ server' = "starting"
    /\ status' = [e \in Events |-> IF status[e] = "sending" THEN "failed"
                                   ELSE status[e]]
    /\ thread' = [thread EXCEPT ![Loop].todo = Batch]
    /\ UNCHANGED <<closed, messages, unsettled, salesVars>>

Serve ==
    /\ server = "starting" /\ thread[Loop] = Idle
    /\ server' = "up"
    /\ UNCHANGED <<notifyVars, salesVars>>

-----------------------------------------------------------------------------
(* The identity of the sales *)

BeginEdit(phone) ==
    /\ server = "up" /\ edited < MaxEdits /\ phone # sales.phone
    /\ edited' = edited + 1
    /\ edits' = edits \cup {[edit |-> edited', phone |-> phone,
                             clears |-> sales.id # Nobody]}
    /\ UNCHANGED <<server, notifyVars, sales, lookups>>

CommitEdit(x) ==
    /\ x \in edits
    /\ sales' = [phone |-> x.phone,
                 id    |-> IF x.clears THEN Nobody ELSE sales.id]
    /\ edits' = edits \ {x}
    /\ lookups' = lookups \cup {[edit |-> x.edit, phone |-> x.phone,
                                 at |-> "queued"]}
    /\ UNCHANGED <<server, notifyVars, edited>>

BeginLookup(x) ==
    /\ x \in lookups /\ x.at = "queued"
    /\ lookups' = (lookups \ {x}) \cup
                  (IF sales.phone = x.phone THEN {[x EXCEPT !.at = "asking"]}
                   ELSE {})
    /\ UNCHANGED <<server, notifyVars, sales, edits, edited>>

MatchBug(x) == \* the identity is written by the key of the row alone
    /\ x \in lookups /\ x.at = "asking"
    /\ sales' = [sales EXCEPT !.id = x.phone]
    /\ lookups' = lookups \ {x}
    /\ UNCHANGED <<server, notifyVars, edits, edited>>

Match(x) ==
    /\ x \in lookups /\ x.at = "asking"
    /\ sales' = IF sales.phone = x.phone THEN [sales EXCEPT !.id = x.phone]
                ELSE sales
    /\ lookups' = lookups \ {x}
    /\ UNCHANGED <<server, notifyVars, edits, edited>>

(* Feishu knows no such phone or does not answer: the row is read again, *)
LookupFails(x) ==
    /\ x \in lookups /\ x.at = "asking"
    /\ lookups' = (lookups \ {x}) \cup
                  (IF sales.phone = x.phone /\ sales.id # Nobody
                   THEN {[x EXCEPT !.at = "failed"]} ELSE {})
    /\ UNCHANGED <<server, notifyVars, sales, edits, edited>>

(* and its identity cleared, if it had one when it was read. *)
ClearIdentity(x) ==
    /\ x \in lookups /\ x.at = "failed"
    /\ sales' = [sales EXCEPT !.id = Nobody]
    /\ lookups' = lookups \ {x}
    /\ UNCHANGED <<server, notifyVars, edits, edited>>

-----------------------------------------------------------------------------
Dispatch(d) ==
    \/ Claim(d)
    \/ \E known \in BOOLEAN : FindRecipient(d, known)
    \/ \E delivered, ok \in BOOLEAN : Send(d, delivered, ok)
    \/ Settle(d)

HandoffNext == \/ \E d \in Threads, e \in Events : CommitHandoff(d, e)
               \/ \E e \in Events : CloseHandoff(e)
               \/ ReadPending
               \/ \E d \in Threads : Dispatch(d) \/ SettleFails(d)
ServerNext == Crash \/ Startup \/ Serve
SalesNext  == \/ \E phone \in Phones : BeginEdit(phone)
              \/ \E x \in edits : CommitEdit(x)
              \/ \E x \in lookups : \/ BeginLookup(x) \/ Match(x)
                                    \/ LookupFails(x) \/ ClearIdentity(x)

Next == HandoffNext \/ ServerNext \/ SalesNext

Spec == Init /\ [][Next]_vars

FairSpec ==
    /\ Spec
    /\ \A d \in Threads : WF_vars(Dispatch(d))
    /\ WF_vars(ReadPending) /\ WF_vars(Startup) /\ WF_vars(Serve)

-----------------------------------------------------------------------------
TypeOK ==
    /\ server \in {"down", "starting", "up"}
    /\ status \in [Events -> {"absent", "pending", "sending", "succeeded",
                              "failed"}]
    /\ closed \in SUBSET Events /\ unsettled \in SUBSET Events
    /\ thread \in [Threads -> [todo : SUBSET Events,
                               at : {"idle", "claimed", "addressed", "answered"},
                               event : Events \cup {0},
                               to : Phones \cup {Nobody}, ok : BOOLEAN]]
    /\ messages \in [Events -> Nat]
    /\ sales \in [phone : Phones, id : Phones \cup {Nobody}]
    /\ edits \in SUBSET [edit : 1 .. MaxEdits, phone : Phones, clears : BOOLEAN]
    /\ lookups \in SUBSET [edit : 1 .. MaxEdits, phone : Phones,
                           at : {"queued", "asking", "failed"}]
    /\ edited \in 0 .. MaxEdits

(* The manual: a handoff is notified once, whatever is restarted or tried  *)
(* again.  Feishu delivers a handoff at most once, although the committing *)
(* thread, the loop and the startup all dispatch it and the server may be  *)
(* killed after the call and before its answer is recorded.                *)
AtMostOneMessage == \A e \in Events : messages[e] <= 1

(* A notification keeps the promise of DeliveredOnce: it is taken once,    *)
(* delivered at most once and only then, and "succeeded" is only recorded  *)
(* of what was delivered.  "failed" says nothing: it may have arrived.     *)
Stage(e) ==
    CASE status[e] = "absent"    -> "absent"
      [] status[e] = "pending"   -> IF e \in closed THEN "dropped" ELSE "waiting"
      [] status[e] = "sending"   -> "taken"
      [] status[e] = "succeeded" -> "sent"
      [] status[e] = "failed"    -> "unknown"

Delivered == INSTANCE DeliveredOnce WITH
    Items <- Events, Again <- {},
    stage <- [e \in Events |-> Stage(e)], arrived <- messages, leaving <- {}

HandoffsAreDeliveredOnce == Delivered!Spec

(* The interrupted ones are not forgotten: while the server runs, what is  *)
(* marked as being sent is in the hands of a thread, unless the database   *)
(* refused the record of its answer since the start.                       *)
SendingIsOwned ==
    server # "down" =>
        \A e \in Events : status[e] = "sending" =>
            \/ e \in unsettled
            \/ \E d \in Threads : thread[d].at # "idle" /\ thread[d].event = e

(* The answer for a phone the sales no longer has is thrown away: an       *)
(* identity that is written is the one of the phone in the row then.       *)
MatchIsForPhone ==
    [][sales'.id \notin {sales.id, Nobody} => sales'.id = sales'.phone]_vars

(* When the server is killed no more and its database takes every record,  *)
(* each committed handoff is notified or closed: a dispatch that was lost  *)
(* after the commit is made up by the loop, and no pass starves a handoff. *)
NotifiedOrClosed ==
    <>[][~Crash /\ \A d \in Threads : ~SettleFails(d)]_vars
        => <>[](\A e \in Events :
                    ~Claimable(e) /\ (status[e] = "sending" => e \in unsettled))
=============================================================================
