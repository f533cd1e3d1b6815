--------------------------- MODULE LeadAssignment ---------------------------
(***************************************************************************)
(* The assignment of leads to the sales in turn and the add_friend task of *)
(* a lead (assignment_service.py, lead_service.py, the creation of a task  *)
(* and the unblocking in task_service.py, the binding of a worker in       *)
(* sales_service.py).                                                      *)
(*                                                                         *)
(* A request is one transaction.  An assignment locks the row of the       *)
(* cursor, or inserts it the first time; the available sales, the worker   *)
(* of the chosen one and the active task of the lead are read without a    *)
(* lock, and so are the leads a retry begins with.                         *)
(*                                                                         *)
(* Abstracted: a sales is its place in the order of the query; contacts    *)
(* and duplicate phones; the remark code; logs and the assignment history; *)
(* the life of a task between its creation and its end, which is TaskLease.*)
(*                                                                         *)
(* A definition whose name ends in Bug is the next one with a plausible    *)
(* slip in it; none of them is part of the specification.                  *)
(***************************************************************************)
EXTENDS Integers, FiniteSets

CONSTANTS
    NumSales,       \* the sales are 1 .. NumSales, in the order of the query
    Leads,
    Slots,          \* the requests that may be open together
    MaxRequests,    \* bound on the requests
    MaxChanges      \* bound on the sales being enabled or disabled

ASSUME LeadAssignmentAssumption ==
    /\ NumSales \in Nat \ {0} /\ MaxRequests \in Nat /\ MaxChanges \in Nat

VARIABLES
    enabled,    \* the sales that take part
    bound,      \* the sales with a worker that is enabled
    lead,       \* lead[l]: [status, sales]
    tasks,      \* the add_friend tasks: [nr, lead, sales, status]
    cursor,     \* the row of the cursor: [stored, sales]
    request,    \* request[r]: the open transaction with what it will write
    begun,      \* how many requests have begun
    changes,    \* how often a sales was enabled or disabled
    given       \* history: the leads each sales got since the last change

salesVars == <<enabled, bound, changes>>
vars == <<salesVars, lead, tasks, cursor, request, begun, given>>

-----------------------------------------------------------------------------
Sales   == 1 .. NumSales
NoSales == 0

Idle == [at |-> "idle", nr |-> 0, todo |-> {}, cursor |-> NoSales,
         rows |-> {}]

Init ==
    /\ enabled \in SUBSET Sales /\ bound = {}
    /\ lead = [l \in Leads |-> [status |-> "absent", sales |-> NoSales]]
    /\ tasks = {}
    /\ cursor = [stored |-> FALSE, sales |-> NoSales]
    /\ request = [r \in Slots |-> Idle]
    /\ begun = 0 /\ changes = 0
    /\ given = [s \in Sales |-> 0]

ActiveTask(l) == \E t \in tasks : t.lead = l /\ t.status # "over"

First(sales) == CHOOSE s \in sales : \A u \in sales : s <= u

(* The one after s in turn. *)
NextSales(s) ==
    IF \E u \in enabled : u > s THEN First({u \in enabled : u > s})
    ELSE First(enabled)

-----------------------------------------------------------------------------
(* The assignment *)

Begin(r, at, leads) ==
    /\ request[r] = Idle /\ begun < MaxRequests
    /\ begun' = begun + 1
    /\ request' = [request EXCEPT ![r] = [Idle EXCEPT !.at = at, !.nr = begun',
                                                      !.todo = leads]]
    /\ UNCHANGED <<salesVars, lead, tasks, cursor, given>>

(* A lead of its own, which nobody sees before the commit. *)
BeginCreate(r, l) ==
    /\ lead[l].status = "absent"
    /\ \A q \in Slots : l \notin request[q].todo
                        /\ \A w \in request[q].rows : w.lead # l
    /\ Begin(r, "begun", {l})

(* The leads that are unassigned, or those of them that were asked for. *)
BeginRetry(r, leads) ==
    /\ leads # {} /\ \A l \in leads : lead[l].status = "unassigned"
    /\ Begin(r, "begun", leads)

Locked == \E q \in Slots : request[q].at = "assigning"

LockBug(r) == \* the cursor is read without its lock
    /\ request[r].at = "begun"
    /\ request' = [request EXCEPT ![r].at = "assigning",
                                  ![r].cursor = cursor.sales]
    /\ UNCHANGED <<salesVars, lead, tasks, cursor, begun, given>>

Lock(r) ==
    /\ request[r].at = "begun"
    /\ IF cursor.stored
       THEN /\ ~Locked
            /\ request' = [request EXCEPT ![r].at = "assigning",
                                          ![r].cursor = cursor.sales]
       ELSE request' = [request EXCEPT ![r].at = "inserting"]
    /\ UNCHANGED <<salesVars, lead, tasks, cursor, begun, given>>

(* The insert waits for another one, and fails if that was committed. *)
Insert(r) ==
    /\ request[r].at = "inserting" /\ ~Locked
    /\ request' = [request EXCEPT ![r] = IF cursor.stored THEN Idle
                                         ELSE [@ EXCEPT !.at = "assigning"]]
    /\ UNCHANGED <<salesVars, lead, tasks, cursor, begun, given>>

(* What will be written: the lead, and its task unless one was found. *)
Row(l, s) == [lead |-> l, sales |-> s, at |-> changes, task |-> ~ActiveTask(l),
              blocked |-> s \notin bound]

AssignBug(r, l) == \* a lead that was not assigned the first time gets no task
    /\ request[r].at = "assigning" /\ l \in request[r].todo
    /\ LET at == request[r].cursor
           s  == IF enabled = {} THEN NoSales
                 ELSE IF at \in enabled THEN at ELSE First(enabled)
       IN  request' = [request EXCEPT
               ![r].todo = @ \ {l},
               ![r].rows = @ \cup {[Row(l, s) EXCEPT !.task = @ /\ s # NoSales
                                        /\ lead[l].status = "absent"]},
               ![r].cursor = IF s = NoSales THEN @ ELSE NextSales(s)]
    /\ UNCHANGED <<salesVars, lead, tasks, cursor, begun, given>>

Assign(r, l) ==
    /\ request[r].at = "assigning" /\ l \in request[r].todo
    /\ LET at == request[r].cursor
           s  == IF enabled = {} THEN NoSales
                 ELSE IF at \in enabled THEN at ELSE First(enabled)
       IN  request' = [request EXCEPT
               ![r].todo = @ \ {l},
               ![r].rows = @ \cup {[Row(l, s) EXCEPT !.task = @ /\ s # NoSales]},
               ![r].cursor = IF s = NoSales THEN @ ELSE NextSales(s)]
    /\ UNCHANGED <<salesVars, lead, tasks, cursor, begun, given>>

Created(rows, nr) ==
    {[nr |-> nr, lead |-> w.lead, sales |-> w.sales,
      status |-> IF w.blocked THEN "blocked" ELSE "pending"] :
        w \in {v \in rows : v.task}}

(* A lead that was read as unassigned and got no sales is not written. *)
AssignedLead(l, rows) ==
    IF \E w \in rows : w.lead = l /\ w.sales # NoSales
    THEN [status |-> "assigned",
          sales |-> (CHOOSE w \in rows : w.lead = l).sales]
    ELSE IF (\E w \in rows : w.lead = l) /\ lead[l].status = "absent"
    THEN [status |-> "unassigned", sales |-> NoSales]
    ELSE lead[l]

Commit(r) ==
    /\ request[r].at = "assigning" /\ request[r].todo = {}
    /\ lead' = [l \in Leads |-> AssignedLead(l, request[r].rows)]
    /\ tasks' = tasks \cup Created(request[r].rows, request[r].nr)
    /\ cursor' = [stored |-> TRUE, sales |-> request[r].cursor]
    /\ given' = [s \in Sales |-> given[s] +
                    Cardinality({w \in request[r].rows :
                                    w.sales = s /\ w.at = changes})]
    /\ request' = [request EXCEPT ![r] = Idle]
    /\ UNCHANGED <<salesVars, begun>>

(* An error, a lost connection, a kill. *)
Rollback(r) ==
    /\ request[r] # Idle
    /\ request' = [request EXCEPT ![r] = Idle]
    /\ UNCHANGED <<salesVars, lead, tasks, cursor, begun, given>>

-----------------------------------------------------------------------------
(* A task by hand, the end of a task *)

(* For the sales of the lead, or another. *)
BeginTask(r, l, s) ==
    /\ request[r] = Idle /\ begun < MaxRequests
    /\ lead[l].status # "absent" /\ ~ActiveTask(l)
    /\ s \in Sales \cup {lead[l].sales}
    /\ begun' = begun + 1
    /\ request' = [request EXCEPT
            ![r] = [Idle EXCEPT !.at = "task", !.nr = begun', !.rows = {Row(l, s)}]]
    /\ UNCHANGED <<salesVars, lead, tasks, cursor, given>>

CommitTask(r) ==
    /\ request[r].at = "task"
    /\ tasks' = tasks \cup Created(request[r].rows, request[r].nr)
    /\ request' = [request EXCEPT ![r] = Idle]
    /\ UNCHANGED <<salesVars, lead, cursor, begun, given>>

EndTask(t) ==
    /\ t \in tasks /\ t.status # "over"
    /\ tasks' = (tasks \ {t}) \cup {[t EXCEPT !.status = "over"]}
    /\ UNCHANGED <<salesVars, lead, cursor, request, begun, given>>

-----------------------------------------------------------------------------
(* The back office *)

MarkInvalid(l) ==
    /\ lead[l].status \notin {"absent", "invalid"}
    /\ lead' = [lead EXCEPT ![l].status = "invalid"]
    /\ UNCHANGED <<salesVars, tasks, cursor, request, begun, given>>

Restore(l) ==
    /\ lead[l].status = "invalid"
    /\ lead' = [lead EXCEPT ![l].status = IF lead[l].sales = NoSales
                                          THEN "unassigned" ELSE "assigned"]
    /\ UNCHANGED <<salesVars, tasks, cursor, request, begun, given>>

SetEnabled(s) ==
    /\ changes < MaxChanges
    /\ changes' = changes + 1
    /\ enabled' = IF s \in enabled THEN enabled \ {s} ELSE enabled \cup {s}
    /\ given' = [u \in Sales |-> 0]
    /\ UNCHANGED <<bound, lead, tasks, cursor, request, begun>>

(* The blocked tasks of the sales wait for a worker no longer. *)
BindWorker(s) ==
    /\ s \notin bound
    /\ bound' = bound \cup {s}
    /\ tasks' = {IF t.sales = s /\ t.status = "blocked"
                 THEN [t EXCEPT !.status = "pending"] ELSE t : t \in tasks}
    /\ UNCHANGED <<enabled, changes, lead, cursor, request, begun, given>>

UnbindWorker(s) ==
    /\ s \in bound
    /\ bound' = bound \ {s}
    /\ UNCHANGED <<enabled, changes, lead, tasks, cursor, request, begun, given>>

-----------------------------------------------------------------------------
AssignNext ==
    \E r \in Slots :
        \/ \E l \in Leads : BeginCreate(r, l)
        \/ \E leads \in SUBSET Leads : BeginRetry(r, leads)
        \/ Lock(r) \/ Insert(r) \/ \E l \in Leads : Assign(r, l)
        \/ Commit(r) \/ Rollback(r)
TaskNext ==
    \/ \E r \in Slots, l \in Leads, s \in Sales \cup {NoSales} : BeginTask(r, l, s)
    \/ \E r \in Slots : CommitTask(r)
    \/ \E t \in tasks : EndTask(t)
OfficeNext ==
    \/ \E l \in Leads : MarkInvalid(l) \/ Restore(l)
    \/ \E s \in Sales : SetEnabled(s) \/ BindWorker(s) \/ UnbindWorker(s)

Next == AssignNext \/ TaskNext \/ OfficeNext

Spec == Init /\ [][Next]_vars

-----------------------------------------------------------------------------
LeadStatuses == {"absent", "unassigned", "assigned", "invalid"}

TypeOK ==
    /\ enabled \in SUBSET Sales /\ bound \in SUBSET Sales
    /\ lead \in [Leads -> [status : LeadStatuses, sales : 0 .. NumSales]]
    /\ tasks \in SUBSET [nr : 1 .. MaxRequests, lead : Leads,
                         sales : 0 .. NumSales,
                         status : {"blocked", "pending", "over"}]
    /\ cursor \in [stored : BOOLEAN, sales : 0 .. NumSales]
    /\ request \in [Slots ->
           [at : {"idle", "begun", "inserting", "assigning", "task"},
            nr : 0 .. MaxRequests, todo : SUBSET Leads, cursor : 0 .. NumSales,
            rows : SUBSET [lead : Leads, sales : 0 .. NumSales,
                           at : 0 .. MaxChanges, task : BOOLEAN,
                           blocked : BOOLEAN]]]
    /\ begun \in 0 .. MaxRequests /\ changes \in 0 .. MaxChanges
    /\ given \in [Sales -> Nat]

(* The leads go round: since the sales that take part changed last, none   *)
(* of them has got two leads more than another, whatever creations and     *)
(* retries ran together, were rolled back or raced to insert the cursor.   *)
RoundRobinIsEven == \A s, t \in enabled : given[s] <= given[t] + 1

(* An assigned lead is worked on: a task was made for it, by its own       *)
(* assignment or before.                                                   *)
AssignedHasTask ==
    \A l \in Leads : lead[l].status = "assigned" => \E t \in tasks : t.lead = l
=============================================================================
