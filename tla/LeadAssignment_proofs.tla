----------------------- MODULE LeadAssignment_proofs -----------------------
(***************************************************************************)
(* The types of LeadAssignment, that the leads go round evenly, and that   *)
(* an assigned lead has a task, for any number of sales, leads, requests   *)
(* and changes.                                                            *)
(*                                                                         *)
(* Evenness is not inductive.  With the turn at c, the sales that take     *)
(* part have got the same, or those from some p on to the one before c     *)
(* have got one lead more than the others (Round).  RoundInv says so of    *)
(* what is committed and the stored cursor, and of what one request would  *)
(* make of them and the cursor it holds (Fair).  That only one request     *)
(* assigns at a time (OneAssigns) is the lock of the cursor: a second one  *)
(* would commit the leads of a round that has gone on meanwhile.  Before   *)
(* the first commit there is no row to lock; a request that inserts it     *)
(* starts from no sales, as the invariant says of the cursor.              *)
(*                                                                         *)
(* That an assigned lead has a task is not inductive either: an assignment *)
(* looks for the task of a lead before it writes, and a lead that is       *)
(* restored takes its status from its sales.  The invariant Inv adds that  *)
(* a row to be written without a task of its own is of a lead that has one *)
(* (Promised), and that a lead has one as soon as it has a sales           *)
(* (WorkedOn).  Tasks end but their rows stay (TasksStay).                 *)
(***************************************************************************)
EXTENDS LeadAssignment, FiniteSetTheorems, WellFoundedInduction, TLAPS

-----------------------------------------------------------------------------
(* The order of the sales *)

(* A set of natural numbers has a least element. *)
LEMMA LeastElement ==
  ASSUME NEW S, S \subseteq Nat, S # {}
  PROVE  \E x \in S : \A y \in S : x <= y
  <1> DEFINE Less == {ss \in Nat \X Nat : ss[1] < ss[2]}
  <1>1. IsWellFoundedOn(Less, Nat)
    BY NatLessThanWellFounded DEF OpToRel
  <1>2. \A x, y \in Nat : x < y => <<x, y>> \in Less
    OBVIOUS
  <1> HIDE DEF Less
  <1>3. PICK x \in S : \A y \in S : ~(<<y, x>> \in Less)
    BY <1>1, WFMin
  <1>4. \A y \in S : ~(y < x)
    BY <1>2, <1>3
  <1>5. x \in Nat /\ \A y \in S : y \in Nat
    BY <1>3
  <1>6. \A y \in S : x <= y
    BY <1>4, <1>5
  <1> QED BY <1>3, <1>6

LEMMA SalesAreNumbers == Sales \subseteq Nat /\ Sales \subseteq 0 .. NumSales
  BY LeadAssignmentAssumption DEF Sales

LEMMA FirstIsLeast ==
  ASSUME NEW S, S \subseteq Sales, S # {}
  PROVE  First(S) \in S /\ \A u \in S : First(S) <= u
  <1>1. \E s \in S : \A u \in S : s <= u
    BY SalesAreNumbers, LeastElement
  <1> QED BY <1>1, Zenon DEF First

(* The next one in turn takes part, and nobody is passed over. *)
LEMMA NextIsNext ==
  ASSUME enabled \subseteq Sales, enabled # {}, NEW s \in Sales
  PROVE  /\ NextSales(s) \in enabled
         /\ \/ /\ s < NextSales(s)
               /\ \A u \in enabled : u <= s \/ NextSales(s) <= u
            \/ \A u \in enabled : u <= s /\ NextSales(s) <= u
  <1> DEFINE Above == {u \in enabled : u > s}
  <1>0. s \in Nat /\ \A u \in enabled : u \in Nat
    BY SalesAreNumbers
  <1>1. CASE Above # {}
    <2>1. First(Above) \in Above /\ \A u \in Above : First(Above) <= u
      BY <1>1, FirstIsLeast
    <2>2. NextSales(s) = First(Above)
      BY <1>1 DEF NextSales
    <2> QED BY <1>0, <2>1, <2>2
  <1>2. CASE Above = {}
    <2>1. First(enabled) \in enabled /\ \A u \in enabled : First(enabled) <= u
      BY FirstIsLeast
    <2>2. NextSales(s) = First(enabled)
      BY <1>2 DEF NextSales
    <2>3. \A u \in enabled : u <= s
      BY <1>0, <1>2
    <2> QED BY <2>1, <2>2, <2>3
  <1> QED BY <1>1, <1>2

-----------------------------------------------------------------------------
(* An even round *)

(* The sales from p on to the one before c. *)
Arc(p, c) == IF p <= c THEN {s \in Sales : p <= s /\ s < c}
             ELSE {s \in Sales : p <= s \/ s < c}

(* With the turn at c: all have got the same, or those from a sales p on   *)
(* to the one before c have got one more than the others.                  *)
Round(on, got, c) ==
    \E k \in Nat :
        \/ \A s \in on : got[s] = k
        \/ /\ c \in on
           /\ \E p \in on :
                 /\ p # c
                 /\ \A s \in on : got[s] = IF s \in Arc(p, c) THEN k + 1 ELSE k

LEMMA RoundIsEven ==
  ASSUME NEW got, NEW c, Round(enabled, got, c), NEW s \in enabled, NEW t \in enabled
  PROVE  got[s] <= got[t] + 1
  BY DEF Round

LEMMA RoundIsOfValues ==
  ASSUME NEW f, NEW g, NEW c, Round(enabled, f, c), \A s \in enabled : f[s] = g[s]
  PROVE  Round(enabled, g, c)
  BY DEF Round

(* The one whose turn it is gets a lead, and the turn goes on. *)
LEMMA RoundGoesOn ==
  ASSUME enabled \subseteq Sales, enabled # {},
         NEW f, NEW g, NEW c, Round(enabled, f, c), NEW s,
         s = IF c \in enabled THEN c ELSE First(enabled),
         \A u \in enabled : g[u] = IF u = s THEN f[u] + 1 ELSE f[u]
  PROVE  Round(enabled, g, NextSales(s))
  <1>0. /\ s \in enabled
        /\ \A u \in enabled : u \in Nat /\ u \in Sales
    BY FirstIsLeast, SalesAreNumbers
  <1> DEFINE n == NextSales(s)
  <1>1. /\ n \in enabled
        /\ \/ s < n /\ \A u \in enabled : u <= s \/ n <= u
           \/ \A u \in enabled : u <= s /\ n <= u
    BY <1>0, NextIsNext
  <1> HIDE DEF n
  <1>2. ASSUME NEW k \in Nat, \A u \in enabled : f[u] = k
        PROVE  Round(enabled, g, n)
    <2>1. CASE n = s
      <3>1. \A u \in enabled : u = s
        BY <1>0, <1>1, <2>1
      <3>2. \A u \in enabled : g[u] = k + 1
        BY <1>2, <3>1
      <3> QED BY <3>2 DEF Round
    <2>2. CASE n # s
      <3>1. \A u \in enabled : u \in Arc(s, n) <=> u = s
        BY <1>0, <1>1, <2>2 DEF Arc
      <3>2. \A u \in enabled : g[u] = IF u \in Arc(s, n) THEN k + 1 ELSE k
        BY <1>2, <3>1
      <3> QED BY <1>0, <1>1, <2>2, <3>2 DEF Round
    <2> QED BY <2>1, <2>2
  <1>3. ASSUME NEW k \in Nat, NEW p \in enabled, c \in enabled, p # c,
               \A u \in enabled : f[u] = IF u \in Arc(p, c) THEN k + 1 ELSE k
        PROVE  Round(enabled, g, n)
    <2>1. s = c
      BY <1>3
    <2>2. s \notin Arc(p, s)
      BY <1>0, <1>3 DEF Arc
    <2>3. CASE n = p
      <3>1. \A u \in enabled : u \in Arc(p, s) \/ u = s
        BY <1>0, <1>1, <2>3 DEF Arc
      <3>2. \A u \in enabled : g[u] = k + 1
        BY <1>3, <2>1, <2>2, <3>1
      <3> QED BY <3>2 DEF Round
    <2>4. CASE n # p
      <3>1. \A u \in enabled : u \in Arc(p, n) <=> u \in Arc(p, s) \/ u = s
        BY <1>0, <1>1, <1>3, <2>1, <2>4 DEF Arc
      <3>2. \A u \in enabled : g[u] = IF u \in Arc(p, n) THEN k + 1 ELSE k
        BY <1>3, <2>1, <2>2, <3>1
      <3> QED BY <1>1, <2>4, <3>2 DEF Round
    <2> QED BY <2>3, <2>4
  <1> QED BY <1>2, <1>3 DEF Round, n

-----------------------------------------------------------------------------
(* Types *)

RowType == [lead : Leads, sales : 0 .. NumSales, at : 0 .. MaxChanges,
            task : BOOLEAN, blocked : BOOLEAN]
RequestType ==
    [at : {"idle", "begun", "inserting", "assigning", "task"},
     nr : 0 .. MaxRequests, todo : SUBSET Leads, cursor : 0 .. NumSales,
     rows : SUBSET RowType]

(* An open request has its number, and never more rows than can be counted. *)
Numbered ==
    \A r \in Slots : /\ request[r].at # "idle" => request[r].nr # 0
                     /\ IsFiniteSet(request[r].rows)

LEMMA IdleIsTyped == Idle \in RequestType /\ Idle.rows = {} /\ Idle.at = "idle"
  BY LeadAssignmentAssumption DEF Idle, RequestType, NoSales

LEMMA RowIsTyped ==
  ASSUME TypeOK, NEW l \in Leads, NEW s \in 0 .. NumSales
  PROVE  /\ Row(l, s) \in RowType
         /\ \A b \in BOOLEAN : [Row(l, s) EXCEPT !.task = b] \in RowType
  <1>1. Row(l, s) \in RowType
    BY DEF TypeOK, Row, RowType
  <1> QED BY <1>1 DEF RowType

(* The fields of a request. *)
Fields(q) == q = [f \in {"at", "nr", "todo", "cursor", "rows"} |-> q[f]]

LEMMA FieldsAreTyped ==
  ASSUME NEW q, Fields(q),
         q.at \in {"idle", "begun", "inserting", "assigning", "task"},
         q.nr \in 0 .. MaxRequests, q.todo \in SUBSET Leads,
         q.cursor \in 0 .. NumSales, q.rows \in SUBSET RowType
  PROVE  q \in RequestType
  BY DEF RequestType, Fields

(* The one a lead is given to, and whose turn is next. *)
LEMMA ChosenIsTyped ==
  ASSUME TypeOK, enabled # {}, NEW c, NEW s,
         s = IF c \in enabled THEN c ELSE First(enabled)
  PROVE  s \in Sales /\ NextSales(s) \in Sales
  <1>1. enabled \subseteq Sales
    BY DEF TypeOK
  <1>2. s \in Sales
    BY <1>1, FirstIsLeast
  <1> QED BY <1>1, <1>2, NextIsNext

(* A step that gives one request a new value. *)
LEMMA RequestChanges ==
  ASSUME TypeOK, Numbered, NEW r \in Slots, NEW q \in RequestType,
         q.at # "idle" => q.nr # 0, IsFiniteSet(q.rows),
         request' = [request EXCEPT ![r] = q]
  PROVE  request' \in [Slots -> RequestType] /\ Numbered'
  <1>1. request \in [Slots -> RequestType]
    BY DEF TypeOK, RequestType, RowType
  <1>2. request' \in [Slots -> RequestType]
    BY <1>1
  <1>3. \A o \in Slots : request'[o] = IF o = r THEN q ELSE request[o]
    BY <1>1
  <1> QED BY <1>2, <1>3 DEF Numbered

LEMMA TypeInit == Init => TypeOK /\ Numbered
  <1> SUFFICES ASSUME Init PROVE TypeOK /\ Numbered
    OBVIOUS
  <1>1. request \in [Slots -> RequestType] /\ \A r \in Slots : request[r] = Idle
    BY IdleIsTyped DEF Init
  <1>2. Numbered
    BY <1>1, IdleIsTyped, FS_EmptySet DEF Numbered
  <1>3. TypeOK
    BY <1>1, LeadAssignmentAssumption
       DEF Init, TypeOK, RequestType, RowType, LeadStatuses, NoSales
  <1> QED BY <1>2, <1>3

(* What each step makes of the request r. *)
LEMMA AssignChanges ==
  ASSUME TypeOK, Numbered, NEW r \in Slots, NEW l \in Leads, Assign(r, l)
  PROVE  request' \in [Slots -> RequestType] /\ Numbered'
  <1> DEFINE s == IF enabled = {} THEN NoSales
                  ELSE IF request[r].cursor \in enabled THEN request[r].cursor
                  ELSE First(enabled)
             w == [Row(l, s) EXCEPT !.task = @ /\ s # NoSales]
             c == IF s = NoSales THEN request[r].cursor ELSE NextSales(s)
             q == [request[r] EXCEPT !.todo = @ \ {l}, !.rows = @ \cup {w},
                                     !.cursor = c]
  <1>1. request' = [request EXCEPT ![r] = q]
    BY DEF Assign
  <1>2. request[r] \in RequestType
    BY DEF TypeOK, RequestType, RowType
  <1>3. s \in 0 .. NumSales /\ c \in 0 .. NumSales
    <2>1. CASE enabled = {}
      BY <1>2, <2>1, LeadAssignmentAssumption DEF NoSales, RequestType
    <2>2. CASE enabled # {}
      <3>1. s \in Sales /\ NextSales(s) \in Sales
        BY <2>2, ChosenIsTyped
      <3> HIDE DEF s
      <3> QED BY <1>2, <3>1, SalesAreNumbers DEF RequestType
    <2> QED BY <2>1, <2>2
  <1> HIDE DEF s, c
  <1>4. w \in RowType
    <2> DEFINE b == Row(l, s).task /\ s # NoSales
    <2>1. b \in BOOLEAN /\ w = [Row(l, s) EXCEPT !.task = b]
      BY Zenon
    <2> HIDE DEF b, w
    <2> QED BY <1>3, <2>1, RowIsTyped
  <1> HIDE DEF w
  <1>5. /\ Fields(q) /\ q.at = request[r].at /\ q.nr = request[r].nr
        /\ q.todo = request[r].todo \ {l} /\ q.cursor = c
        /\ q.rows = request[r].rows \cup {w}
    BY <1>2 DEF RequestType, Fields
  <1> HIDE DEF q
  <1>6. q \in RequestType
    <2>1. /\ request[r].at \in {"idle", "begun", "inserting", "assigning", "task"}
          /\ request[r].nr \in 0 .. MaxRequests
          /\ request[r].todo \ {l} \in SUBSET Leads
          /\ request[r].rows \cup {w} \in SUBSET RowType
      BY <1>2, <1>4 DEF RequestType
    <2> QED BY <1>3, <1>5, <2>1, FieldsAreTyped
  <1>7. IsFiniteSet(q.rows) /\ (q.at # "idle" => q.nr # 0)
    BY <1>5, FS_AddElement DEF Numbered
  <1>8. request' = [request EXCEPT ![r] = q]
    BY <1>1 DEF q
  <1> QED BY <1>6, <1>7, <1>8, RequestChanges

LEMMA BeginChanges ==
  ASSUME TypeOK, Numbered, NEW r \in Slots, NEW q, Fields(q),
         q.at \in {"begun", "task"}, q.nr = begun', q.todo \in SUBSET Leads,
         q.cursor = NoSales, q.rows \in SUBSET RowType, IsFiniteSet(q.rows),
         begun < MaxRequests, begun' = begun + 1,
         request' = [request EXCEPT ![r] = q]
  PROVE  request' \in [Slots -> RequestType] /\ Numbered' /\ begun' \in 0 .. MaxRequests
  <1>1. begun' \in 1 .. MaxRequests
    BY LeadAssignmentAssumption DEF TypeOK
  <1>2. NoSales \in 0 .. NumSales
    BY LeadAssignmentAssumption DEF NoSales
  <1>3. q \in RequestType
    BY <1>1, <1>2, FieldsAreTyped
  <1>4. begun' \in 0 .. MaxRequests /\ q.nr # 0
    BY <1>1
  <1>5. request' \in [Slots -> RequestType] /\ Numbered'
    BY <1>3, <1>4, RequestChanges
  <1> QED BY <1>4, <1>5

LEMMA LockChanges ==
  ASSUME TypeOK, Numbered, NEW r \in Slots, Lock(r) \/ Insert(r)
  PROVE  request' \in [Slots -> RequestType] /\ Numbered'
  <1> DEFINE assigning == [request[r] EXCEPT !.at = "assigning"]
             inserting == [request[r] EXCEPT !.at = "inserting"]
             reading   == [request[r] EXCEPT !.at = "assigning",
                                             !.cursor = cursor.sales]
  <1>1. \/ request' = [request EXCEPT ![r] = Idle]
        \/ request' = [request EXCEPT ![r] = assigning]
        \/ request' = [request EXCEPT ![r] = inserting]
        \/ request' = [request EXCEPT ![r] = reading]
    BY DEF Lock, Insert
  <1>2. request[r] \in RequestType /\ request[r].at # "idle"
    BY DEF TypeOK, RequestType, RowType, Lock, Insert
  <1>3. \A q \in {assigning, inserting, reading} :
           /\ q \in RequestType /\ q.nr = request[r].nr
           /\ q.rows = request[r].rows
    BY <1>2 DEF TypeOK, RequestType
  <1> HIDE DEF assigning, inserting, reading
  <1>4. \A q \in {assigning, inserting, reading} : q.nr # 0 /\ IsFiniteSet(q.rows)
    BY <1>2, <1>3 DEF Numbered
  <1> QED BY <1>1, <1>3, <1>4, IdleIsTyped, FS_EmptySet, RequestChanges

LEMMA CreatedIsTyped ==
  ASSUME NEW rows \in SUBSET RowType, NEW nr \in 1 .. MaxRequests
  PROVE  Created(rows, nr) \in SUBSET [nr : 1 .. MaxRequests, lead : Leads,
             sales : 0 .. NumSales, status : {"blocked", "pending", "over"}]
  BY DEF Created, RowType

LEMMA AssignedIsTyped ==
  ASSUME TypeOK, NEW l \in Leads, NEW rows \in SUBSET RowType
  PROVE  AssignedLead(l, rows) \in [status : LeadStatuses, sales : 0 .. NumSales]
  <1>1. CASE \E w \in rows : w.lead = l /\ w.sales # NoSales
    <2> DEFINE w == CHOOSE v \in rows : v.lead = l
    <2>1. w \in rows
      BY <1>1
    <2>2. w.sales \in 0 .. NumSales
      BY <2>1 DEF RowType
    <2>3. AssignedLead(l, rows) = [status |-> "assigned", sales |-> w.sales]
      BY <1>1 DEF AssignedLead
    <2> HIDE DEF w
    <2> QED BY <2>2, <2>3 DEF LeadStatuses
  <1>2. CASE ~\E w \in rows : w.lead = l /\ w.sales # NoSales
    <2>1. AssignedLead(l, rows) \in {lead[l], [status |-> "unassigned", sales |-> NoSales]}
      BY <1>2 DEF AssignedLead
    <2>2. lead[l] \in [status : LeadStatuses, sales : 0 .. NumSales]
      BY DEF TypeOK
    <2> QED BY <2>1, <2>2, LeadAssignmentAssumption DEF LeadStatuses, NoSales
  <1> QED BY <1>1, <1>2

(* What a request has given to a sales since the sales changed last. *)
Got(rows, s, at) == {w \in rows : w.sales = s /\ w.at = at}

LEMMA GotIsCounted ==
  ASSUME NEW rows, IsFiniteSet(rows), NEW s, NEW at
  PROVE  IsFiniteSet(Got(rows, s, at)) /\ Cardinality(Got(rows, s, at)) \in Nat
  BY FS_Subset, FS_CardinalityType DEF Got

RequestsOK ==
    request \in [Slots -> RequestType] /\ Numbered /\ begun \in 0 .. MaxRequests

LEMMA RequestsAreTyped ==
  ASSUME TypeOK, Numbered, [Next]_vars
  PROVE  RequestsOK'
  <1>0. request \in [Slots -> RequestType] /\ begun \in 0 .. MaxRequests
    BY DEF TypeOK, RequestType, RowType
  <1>1. CASE UNCHANGED <<request, begun>>
    BY <1>0, <1>1 DEF Numbered, RequestsOK
  <1>2. ASSUME NEW r \in Slots, NEW leads \in SUBSET Leads, Begin(r, "begun", leads)
        PROVE  RequestsOK'
    <2> DEFINE q == [Idle EXCEPT !.at = "begun", !.nr = begun', !.todo = leads]
    <2>1. request' = [request EXCEPT ![r] = q]
      BY <1>2 DEF Begin
    <2>2. /\ Fields(q) /\ q.at = "begun" /\ q.nr = begun' /\ q.todo = leads
          /\ q.cursor = NoSales /\ q.rows = {}
      BY DEF Idle, Fields
    <2>3. begun < MaxRequests /\ begun' = begun + 1
      BY <1>2 DEF Begin
    <2> HIDE DEF q
    <2>4. q.rows \in SUBSET RowType /\ IsFiniteSet(q.rows)
      BY <2>2, FS_EmptySet
    <2> QED BY <2>1, <2>2, <2>3, <2>4, BeginChanges DEF RequestsOK
  <1>3. ASSUME NEW r \in Slots, NEW l \in Leads, NEW s \in Sales \cup {NoSales},
               BeginTask(r, l, s)
        PROVE  RequestsOK'
    <2> DEFINE q == [Idle EXCEPT !.at = "task", !.nr = begun', !.rows = {Row(l, s)}]
    <2>1. request' = [request EXCEPT ![r] = q]
      BY <1>3 DEF BeginTask
    <2>2. /\ Fields(q) /\ q.at = "task" /\ q.nr = begun' /\ q.todo = {}
          /\ q.cursor = NoSales /\ q.rows = {Row(l, s)}
      BY DEF Idle, Fields
    <2>3. begun < MaxRequests /\ begun' = begun + 1
      BY <1>3 DEF BeginTask
    <2> HIDE DEF q
    <2>4. s \in 0 .. NumSales
      BY SalesAreNumbers, LeadAssignmentAssumption DEF NoSales
    <2>5. Row(l, s) \in RowType
      BY <2>4, RowIsTyped
    <2>6. IsFiniteSet({Row(l, s)})
      BY FS_Singleton
    <2>7. q.rows \in SUBSET RowType /\ IsFiniteSet(q.rows)
      BY <2>2, <2>5, <2>6
    <2> QED BY <2>1, <2>2, <2>3, <2>7, BeginChanges DEF RequestsOK
  <1>4. ASSUME NEW r \in Slots, request' = [request EXCEPT ![r] = Idle], begun' = begun
        PROVE  RequestsOK'
    BY <1>0, <1>4, IdleIsTyped, FS_EmptySet, RequestChanges DEF RequestsOK
  <1>5. ASSUME NEW r \in Slots, Lock(r) \/ Insert(r)
        PROVE  RequestsOK'
    BY <1>0, <1>5, LockChanges DEF Lock, Insert, RequestsOK
  <1>6. ASSUME NEW r \in Slots, NEW l \in Leads, Assign(r, l)
        PROVE  RequestsOK'
    BY <1>0, <1>6, AssignChanges DEF Assign, RequestsOK
  <1>7. CASE AssignNext
    <2> PICK r \in Slots :
            \/ \E l \in Leads : BeginCreate(r, l)
            \/ \E leads \in SUBSET Leads : BeginRetry(r, leads)
            \/ Lock(r) \/ Insert(r) \/ \E l \in Leads : Assign(r, l)
            \/ Commit(r) \/ Rollback(r)
      BY <1>7 DEF AssignNext
    <2>1. CASE \E l \in Leads : BeginCreate(r, l)
      <3> PICK l \in Leads : BeginCreate(r, l)
        BY <2>1
      <3>1. {l} \in SUBSET Leads /\ Begin(r, "begun", {l})
        BY DEF BeginCreate
      <3> QED BY <1>2, <3>1
    <2>2. CASE \E leads \in SUBSET Leads : BeginRetry(r, leads)
      BY <1>2, <2>2, Zenon DEF BeginRetry
    <2>3. CASE Lock(r) \/ Insert(r)
      BY <1>5, <2>3, Zenon
    <2>4. CASE \E l \in Leads : Assign(r, l)
      BY <1>6, <2>4, Zenon
    <2>5. CASE Commit(r) \/ Rollback(r)
      <3>1. request' = [request EXCEPT ![r] = Idle] /\ begun' = begun
        BY <2>5, Zenon DEF Commit, Rollback
      <3> QED BY <1>4, <3>1, Zenon
    <2> QED BY <2>1, <2>2, <2>3, <2>4, <2>5
  <1>8. CASE TaskNext
    <2>1. CASE \E r \in Slots, l \in Leads, s \in Sales \cup {NoSales} : BeginTask(r, l, s)
      BY <1>3, <2>1, Zenon
    <2>2. CASE \E r \in Slots : CommitTask(r)
      <3> PICK r \in Slots : CommitTask(r)
        BY <2>2
      <3>1. request' = [request EXCEPT ![r] = Idle] /\ begun' = begun
        BY Zenon DEF CommitTask
      <3> QED BY <1>4, <3>1, Zenon
    <2>3. CASE \E t \in tasks : EndTask(t)
      <3>1. UNCHANGED <<request, begun>>
        BY <2>3 DEF EndTask
      <3> QED BY <1>1, <3>1
    <2> QED BY <1>8, <2>1, <2>2, <2>3 DEF TaskNext
  <1>9. CASE OfficeNext
    <2>1. UNCHANGED <<request, begun>>
      BY <1>9
         DEF OfficeNext, MarkInvalid, Restore, SetEnabled, BindWorker, UnbindWorker
    <2> QED BY <1>1, <2>1
  <1>10. CASE UNCHANGED vars
    BY <1>1, <1>10 DEF vars
  <1> QED BY <1>7, <1>8, <1>9, <1>10 DEF Next

(* The rest of the types. *)
TaskType == [nr : 1 .. MaxRequests, lead : Leads, sales : 0 .. NumSales,
             status : {"blocked", "pending", "over"}]
LeadType == [status : LeadStatuses, sales : 0 .. NumSales]

RestOK ==
    /\ enabled \in SUBSET Sales /\ bound \in SUBSET Sales
    /\ lead \in [Leads -> LeadType] /\ tasks \in SUBSET TaskType
    /\ cursor \in [stored : BOOLEAN, sales : 0 .. NumSales]
    /\ changes \in 0 .. MaxChanges /\ given \in [Sales -> Nat]

LEMMA TypeParts == TypeOK /\ Numbered <=> RequestsOK /\ RestOK
  BY DEF TypeOK, RequestsOK, RestOK, TaskType, LeadType, RequestType, RowType

LEMMA CommitIsTyped ==
  ASSUME RequestsOK, RestOK, NEW r \in Slots, Commit(r)
  PROVE  RestOK'
  <1> DEFINE rows == request[r].rows
             got == [s \in Sales |-> Cardinality(Got(rows, s, changes))]
  <1>1. /\ rows \in SUBSET RowType /\ IsFiniteSet(rows)
        /\ request[r].nr \in 1 .. MaxRequests /\ request[r].cursor \in 0 .. NumSales
    BY DEF RequestsOK, RequestType, Numbered, Commit
  <1>2. lead' = [l \in Leads |-> AssignedLead(l, rows)]
    BY DEF Commit
  <1>3. tasks' = tasks \cup Created(rows, request[r].nr)
    BY DEF Commit
  <1>4. cursor' = [stored |-> TRUE, sales |-> request[r].cursor]
    BY DEF Commit
  <1>5. given' = [s \in Sales |-> given[s] + got[s]]
    BY DEF Commit, Got
  <1>6. UNCHANGED <<enabled, bound, changes>>
    BY DEF Commit, salesVars
  <1> HIDE DEF rows
  <1>7. \A l \in Leads : AssignedLead(l, rows) \in LeadType
    BY <1>1, TypeParts, AssignedIsTyped DEF LeadType
  <1>8. Created(rows, request[r].nr) \in SUBSET TaskType
    BY <1>1, CreatedIsTyped DEF TaskType
  <1>9. \A s \in Sales : got[s] \in Nat
    BY <1>1, GotIsCounted
  <1> HIDE DEF got
  <1>10. given' \in [Sales -> Nat]
    BY <1>5, <1>9 DEF RestOK
  <1>11. cursor' \in [stored : BOOLEAN, sales : 0 .. NumSales]
    BY <1>1, <1>4
  <1>12. lead' \in [Leads -> LeadType]
    BY <1>2, <1>7
  <1> QED BY <1>3, <1>6, <1>8, <1>10, <1>11, <1>12 DEF RestOK

LEMMA RestStep ==
  ASSUME RequestsOK, RestOK, [Next]_vars
  PROVE  RestOK'
  <1>1. CASE UNCHANGED <<salesVars, lead, tasks, cursor, given>>
    BY <1>1 DEF RestOK, salesVars
  <1>2. CASE \E r \in Slots : Commit(r)
    BY <1>2, CommitIsTyped
  <1>3. CASE AssignNext
    <2>1. UNCHANGED <<salesVars, lead, tasks, cursor, given>>
            \/ \E r \in Slots : Commit(r)
      BY <1>3 DEF AssignNext, BeginCreate, BeginRetry, Begin, Lock, Insert, Assign,
                  Rollback
    <2> QED BY <1>1, <1>2, <2>1
  <1>4. CASE TaskNext
    <2>1. ASSUME NEW r \in Slots, CommitTask(r) PROVE RestOK'
      <3>1. request[r].rows \in SUBSET RowType /\ request[r].nr \in 1 .. MaxRequests
        BY <2>1 DEF CommitTask, RequestsOK, RequestType, Numbered
      <3>2. Created(request[r].rows, request[r].nr) \in SUBSET TaskType
        BY <3>1, CreatedIsTyped DEF TaskType
      <3> QED BY <2>1, <3>2 DEF CommitTask, RestOK, salesVars
    <2>2. ASSUME NEW t \in tasks, EndTask(t) PROVE RestOK'
      <3>1. [t EXCEPT !.status = "over"] \in TaskType
        BY DEF RestOK, TaskType
      <3> QED BY <2>2, <3>1 DEF EndTask, RestOK, salesVars
    <2>3. CASE \E r \in Slots, l \in Leads, s \in Sales \cup {NoSales} : BeginTask(r, l, s)
      BY <1>1, <2>3 DEF BeginTask
    <2> QED BY <1>4, <2>1, <2>2, <2>3 DEF TaskNext
  <1>5. CASE OfficeNext
    <2>1. ASSUME NEW l \in Leads, MarkInvalid(l) \/ Restore(l) PROVE RestOK'
      <3> DEFINE to(status) == [lead[l] EXCEPT !.status = status]
      <3>1. \A status \in LeadStatuses : to(status) \in LeadType
        BY DEF RestOK, LeadType
      <3>2. \E status \in LeadStatuses : lead' = [lead EXCEPT ![l] = to(status)]
        BY <2>1 DEF MarkInvalid, Restore, LeadStatuses
      <3> HIDE DEF to
      <3>3. lead' \in [Leads -> LeadType]
        BY <3>1, <3>2 DEF RestOK
      <3> QED BY <2>1, <3>3 DEF MarkInvalid, Restore, RestOK, salesVars
    <2>2. ASSUME NEW s \in Sales, SetEnabled(s) PROVE RestOK'
      <3>1. changes' \in 0 .. MaxChanges
        BY <2>2, LeadAssignmentAssumption DEF SetEnabled, RestOK
      <3> QED BY <2>2, <3>1 DEF SetEnabled, RestOK
    <2>3. ASSUME NEW s \in Sales, BindWorker(s) PROVE RestOK'
      <3> DEFINE f(t) == IF t.sales = s /\ t.status = "blocked"
                         THEN [t EXCEPT !.status = "pending"] ELSE t
      <3>1. \A t \in tasks : f(t) \in TaskType
        BY DEF RestOK, TaskType
      <3>2. tasks' = {f(t) : t \in tasks}
        BY <2>3 DEF BindWorker
      <3> HIDE DEF f
      <3>3. tasks' \in SUBSET TaskType
        BY <3>1, <3>2
      <3> QED BY <2>3, <3>3 DEF BindWorker, RestOK
    <2>4. ASSUME NEW s \in Sales, UnbindWorker(s) PROVE RestOK'
      BY <2>4 DEF UnbindWorker, RestOK
    <2> QED BY <1>5, <2>1, <2>2, <2>3, <2>4 DEF OfficeNext
  <1>6. CASE UNCHANGED vars
    BY <1>1, <1>6 DEF vars
  <1> QED BY <1>3, <1>4, <1>5, <1>6 DEF Next

LEMMA TypeStep == TypeOK /\ Numbered /\ [Next]_vars => TypeOK' /\ Numbered'
  <1> SUFFICES ASSUME TypeOK, Numbered, [Next]_vars PROVE TypeOK' /\ Numbered'
    OBVIOUS
  <1>1. RequestsOK' /\ RestOK'
    BY TypeParts, RequestsAreTyped, RestStep
  <1>2. (TypeOK /\ Numbered <=> RequestsOK /\ RestOK)'
    BY TypeParts, PTL
  <1> QED BY <1>1, <1>2

(* Every variable of an assignment, a request in flight and its rows too,  *)
(* stays in its type, whoever is chosen (assignment_service.py).           *)
THEOREM TypeCorrect == Spec => []TypeOK
  <1>1. Spec => [](TypeOK /\ Numbered)
    BY TypeInit, TypeStep, PTL DEF Spec
  <1> QED BY <1>1, PTL

-----------------------------------------------------------------------------
(* The leads go round evenly *)

(* What every sales would have with the rows of a request. *)
With(rows, at) == [s \in Sales |-> given[s] + Cardinality(Got(rows, s, at))]

(* A request reads the cursor with the lock of its row, and has assigned   *)
(* nothing before that.                                                    *)
Fair(q) ==
    /\ q.at \in {"begun", "inserting"} => q.rows = {} /\ q.cursor = NoSales
    /\ \A w \in q.rows : w.at <= changes /\ w.lead \notin q.todo
    /\ q.at = "assigning" => Round(enabled, With(q.rows, changes), q.cursor)

OneAssigns ==
    \A r, o \in Slots : request[r].at = "assigning" /\ request[o].at = "assigning" => r = o

RoundInv ==
    /\ OneAssigns
    /\ ~cursor.stored => cursor.sales = NoSales
    /\ Round(enabled, given, cursor.sales)
    /\ \A r \in Slots : Fair(request[r])

LEMMA WithNothing ==
  ASSUME RestOK, NEW rows, NEW at, \A s \in enabled : Got(rows, s, at) = {},
         NEW s \in enabled
  PROVE  With(rows, at)[s] = given[s]
  <1>1. Cardinality(Got(rows, s, at)) = 0 /\ s \in Sales /\ given[s] \in Nat
    BY FS_EmptySet DEF RestOK
  <1> QED BY <1>1 DEF With

LEMMA IdleIsFair == Fair(Idle) /\ Idle.at # "assigning"
  BY DEF Fair, Idle

LEMMA RoundInit == Init => RoundInv
  <1> SUFFICES ASSUME Init PROVE RoundInv
    OBVIOUS
  <1>1. \A r \in Slots : request[r] = Idle
    BY DEF Init
  <1>2. \A s \in enabled : given[s] = 0
    BY DEF Init
  <1>3. Round(enabled, given, cursor.sales)
    BY <1>2 DEF Round
  <1>4. OneAssigns
    BY <1>1, IdleIsFair DEF OneAssigns
  <1> QED BY <1>1, <1>3, <1>4, IdleIsFair DEF RoundInv, Init

(* A step that gives one request a new value. *)
LEMMA FairChange ==
  ASSUME RequestsOK, RoundInv, NEW r \in Slots, NEW q, Fair(q),
         request' = [request EXCEPT ![r] = q],
         UNCHANGED <<enabled, changes, cursor, given>>,
         \/ q.at # "assigning"
         \/ \A o \in Slots : request[o].at = "assigning" => o = r
  PROVE  RoundInv'
  <1>1. \A o \in Slots : request'[o] = IF o = r THEN q ELSE request[o]
    BY DEF RequestsOK
  <1>2. \A o \in Slots : Fair(request'[o])
    BY <1>1 DEF RoundInv
  <1>3. \A o \in Slots : Fair(request[o])'
    BY <1>2 DEF Fair, With
  <1>4. OneAssigns'
    BY <1>1 DEF OneAssigns, RoundInv
  <1>5. Round(enabled, given, cursor.sales)'
    BY DEF RoundInv
  <1> QED BY <1>3, <1>4, <1>5 DEF RoundInv

LEMMA LockIsFair ==
  ASSUME RequestsOK, RestOK, RoundInv, NEW r \in Slots, Lock(r) \/ Insert(r)
  PROVE  RoundInv'
  <1> DEFINE assigning == [request[r] EXCEPT !.at = "assigning"]
             inserting == [request[r] EXCEPT !.at = "inserting"]
             reading   == [request[r] EXCEPT !.at = "assigning",
                                             !.cursor = cursor.sales]
  <1>0. /\ UNCHANGED <<enabled, changes, cursor, given>>
        /\ request[r].rows = {} /\ request[r].cursor = NoSales
        /\ request[r] \in RequestType
    BY DEF Lock, Insert, salesVars, RoundInv, Fair, RequestsOK
  <1>1. \/ request' = [request EXCEPT ![r] = Idle]
        \/ request' = [request EXCEPT ![r] = inserting]
        \/ /\ request' = [request EXCEPT ![r] = assigning]
           /\ cursor.sales = NoSales /\ ~Locked
        \/ request' = [request EXCEPT ![r] = reading] /\ ~Locked
    BY DEF Lock, Insert, RoundInv
  <1>2. /\ assigning.at = "assigning" /\ assigning.rows = {}
        /\ assigning.cursor = NoSales
        /\ reading.at = "assigning" /\ reading.rows = {}
        /\ reading.cursor = cursor.sales
        /\ inserting.at = "inserting" /\ inserting.rows = {}
        /\ inserting.cursor = NoSales
    BY <1>0 DEF RequestType
  <1> HIDE DEF assigning, inserting, reading
  <1>3. Round(enabled, With({}, changes), cursor.sales)
    <2>1. \A s \in enabled : With({}, changes)[s] = given[s]
      BY WithNothing DEF Got
    <2> QED BY <2>1, RoundIsOfValues DEF RoundInv
  <1>4. Fair(inserting) /\ Fair(reading)
    BY <1>2, <1>3 DEF Fair
  <1>5. cursor.sales = NoSales => Fair(assigning)
    BY <1>2, <1>3 DEF Fair
  <1>6. ~Locked => \A o \in Slots : request[o].at # "assigning"
    BY DEF Locked
  <1> QED BY <1>0, <1>1, <1>2, <1>4, <1>5, <1>6, IdleIsFair, FairChange

(* The one whose turn it is gets the lead. *)
LEMMA WithOneMore ==
  ASSUME RestOK, NEW rows, IsFiniteSet(rows), NEW w, w \notin rows,
         w.at = changes, NEW u \in enabled
  PROVE  With(rows \cup {w}, changes)[u] =
             IF u = w.sales THEN With(rows, changes)[u] + 1 ELSE With(rows, changes)[u]
  <1> DEFINE old == Got(rows, u, changes)
             new == Got(rows \cup {w}, u, changes)
  <1>1. IsFiniteSet(old) /\ Cardinality(old) \in Nat /\ w \notin old
    <2>1. IsFiniteSet(old) /\ Cardinality(old) \in Nat
      BY GotIsCounted
    <2>2. w \notin old
      BY DEF Got
    <2> QED BY <2>1, <2>2
  <1>2. new = IF u = w.sales THEN old \cup {w} ELSE old
    BY DEF Got
  <1>3. u \in Sales /\ given[u] \in Nat
    BY DEF RestOK
  <1>4. /\ With(rows, changes)[u] = given[u] + Cardinality(old)
        /\ With(rows \cup {w}, changes)[u] = given[u] + Cardinality(new)
    BY <1>3 DEF With
  <1> HIDE DEF old, new
  <1>5. Cardinality(new) = IF u = w.sales THEN Cardinality(old) + 1 ELSE Cardinality(old)
    BY <1>1, <1>2, FS_AddElement
  <1> QED BY <1>1, <1>3, <1>4, <1>5

LEMMA AssignIsFair ==
  ASSUME RequestsOK, RestOK, RoundInv, NEW r \in Slots, NEW l \in Leads, Assign(r, l)
  PROVE  RoundInv'
  <1> DEFINE s == IF enabled = {} THEN NoSales
                  ELSE IF request[r].cursor \in enabled THEN request[r].cursor
                  ELSE First(enabled)
             w == [Row(l, s) EXCEPT !.task = @ /\ s # NoSales]
             c == IF s = NoSales THEN request[r].cursor ELSE NextSales(s)
             q == [request[r] EXCEPT !.todo = @ \ {l}, !.rows = @ \cup {w},
                                     !.cursor = c]
             rows == request[r].rows
  <1>1. /\ request' = [request EXCEPT ![r] = q]
        /\ UNCHANGED <<enabled, changes, cursor, given>>
        /\ request[r].at = "assigning" /\ l \in request[r].todo
    BY DEF Assign, salesVars
  <1>2. request[r] \in RequestType /\ IsFiniteSet(rows)
    BY DEF RequestsOK, Numbered
  <1>3. w.lead = l /\ w.sales = s /\ w.at = changes
    BY Zenon DEF Row
  <1>4. /\ q.at = "assigning" /\ q.todo = request[r].todo \ {l} /\ q.cursor = c
        /\ q.rows = rows \cup {w}
    BY <1>1, <1>2 DEF RequestType
  <1>5. /\ \A v \in rows : v.at <= changes /\ v.lead \notin request[r].todo
        /\ Round(enabled, With(rows, changes), request[r].cursor)
    BY <1>1 DEF RoundInv, Fair
  <1>6. \A o \in Slots : request[o].at = "assigning" => o = r
    BY <1>1 DEF RoundInv, OneAssigns
  <1>7. enabled \subseteq Sales
    BY DEF RestOK
  <1>8. enabled # {} => s \in enabled /\ s # NoSales
    <2>1. \A u \in enabled : u # NoSales
      BY <1>7, LeadAssignmentAssumption DEF Sales, NoSales
    <2>2. enabled # {} => s \in enabled
      BY <1>7, FirstIsLeast
    <2> QED BY <2>1, <2>2
  <1>9. enabled # {} => s = IF request[r].cursor \in enabled THEN request[r].cursor
                            ELSE First(enabled)
    OBVIOUS
  <1>10. enabled # {} => c = NextSales(s)
    BY <1>8
  <1> HIDE DEF s, w, c, q, rows
  <1>11. w \notin rows
    BY <1>1, <1>3, <1>5
  <1>12. Round(enabled, With(q.rows, changes), c)
    <2>1. CASE enabled = {}
      BY <2>1 DEF Round
    <2>2. CASE enabled # {}
      <3>1. \A u \in enabled :
               With(q.rows, changes)[u] = IF u = s THEN With(rows, changes)[u] + 1
                                          ELSE With(rows, changes)[u]
        BY <1>2, <1>3, <1>4, <1>11, WithOneMore
      <3>2. Round(enabled, With(q.rows, changes), NextSales(s))
        BY <1>5, <1>7, <1>9, <2>2, <3>1, RoundGoesOn
      <3> QED BY <1>10, <2>2, <3>2
    <2> QED BY <2>1, <2>2
  <1>13. Fair(q)
    <2>1. changes <= changes
      BY DEF RestOK
    <2> QED BY <1>3, <1>4, <1>5, <1>12, <2>1 DEF Fair
  <1> QED BY <1>1, <1>6, <1>13, FairChange

LEMMA CommitIsFair ==
  ASSUME RequestsOK, RestOK, RoundInv, NEW r \in Slots, Commit(r)
  PROVE  RoundInv'
  <1>1. /\ request[r].at = "assigning" /\ UNCHANGED <<enabled, changes>>
        /\ cursor'.stored /\ cursor'.sales = request[r].cursor
        /\ given' = With(request[r].rows, changes)
    BY DEF Commit, salesVars, With, Got
  <1>2. \A o \in Slots : request'[o] = IF o = r THEN Idle ELSE request[o]
    BY DEF Commit, RequestsOK
  <1>3. \A o \in Slots : request'[o].at # "assigning"
    BY <1>1, <1>2, IdleIsFair DEF RoundInv, OneAssigns
  <1>4. Round(enabled, given, cursor.sales)'
    BY <1>1 DEF RoundInv, Fair
  <1>5. \A o \in Slots : Fair(request'[o])
    BY <1>2, IdleIsFair DEF RoundInv
  <1>6. \A o \in Slots : Fair(request[o])'
    BY <1>1, <1>3, <1>5 DEF Fair
  <1> QED BY <1>1, <1>3, <1>4, <1>6 DEF RoundInv, OneAssigns

(* A change of the sales that take part begins a new round. *)
LEMMA ChangeIsFair ==
  ASSUME RequestsOK, RestOK, RoundInv, NEW s \in Sales, SetEnabled(s)
  PROVE  RoundInv'
  <1>1. /\ changes' = changes + 1 /\ UNCHANGED <<cursor, request>>
        /\ given' = [u \in Sales |-> 0] /\ changes \in Nat
        /\ enabled' \subseteq Sales
    BY DEF SetEnabled, RestOK
  <1>2. \A u \in enabled' : given'[u] = 0
    BY <1>1
  <1>3. Round(enabled, given, cursor.sales)'
    BY <1>2 DEF Round
  <1>4. ASSUME NEW o \in Slots PROVE Fair(request[o])'
    <2> DEFINE rows == request[o].rows
    <2>1. \A w \in rows : w.at \in Nat /\ w.at <= changes
      BY DEF RequestsOK, RequestType, RowType, RoundInv, Fair
    <2>2. \A u \in enabled' : Got(rows, u, changes') = {}
      BY <1>1, <2>1 DEF Got
    <2>3. \A u \in enabled' : With(rows, changes)'[u] = 0
      <3> SUFFICES ASSUME NEW u \in enabled' PROVE With(rows, changes)'[u] = 0
        OBVIOUS
      <3>1. Cardinality(Got(rows', u, changes')) = 0
        BY <1>1, <2>2, FS_EmptySet
      <3>2. u \in Sales /\ given'[u] = 0
        BY <1>1
      <3> QED BY <3>1, <3>2 DEF With
    <2>4. Round(enabled, With(rows, changes), request[o].cursor)'
      BY <2>3 DEF Round
    <2>5. \A w \in rows : w.at <= changes'
      BY <1>1, <2>1
    <2> QED BY <1>1, <2>4, <2>5 DEF RoundInv, Fair
  <1> QED BY <1>1, <1>3, <1>4 DEF RoundInv, OneAssigns

LEMMA RoundStep ==
  ASSUME RequestsOK, RestOK, RoundInv, [Next]_vars
  PROVE  RoundInv'
  <1>1. CASE UNCHANGED <<enabled, changes, cursor, request, given>>
    BY <1>1 DEF RoundInv, OneAssigns, Fair, With
  <1>2. ASSUME NEW r \in Slots, NEW leads \in SUBSET Leads, Begin(r, "begun", leads)
        PROVE  RoundInv'
    <2> DEFINE q == [Idle EXCEPT !.at = "begun", !.nr = begun', !.todo = leads]
    <2>1. /\ request' = [request EXCEPT ![r] = q]
          /\ UNCHANGED <<enabled, changes, cursor, given>>
      BY <1>2 DEF Begin, salesVars
    <2>2. q.at = "begun" /\ q.cursor = NoSales /\ q.rows = {}
      BY DEF Idle
    <2> HIDE DEF q
    <2>3. Fair(q)
      BY <2>2 DEF Fair
    <2> QED BY <2>1, <2>2, <2>3, FairChange
  <1>3. ASSUME NEW r \in Slots, NEW l \in Leads, NEW s \in Sales \cup {NoSales},
               BeginTask(r, l, s)
        PROVE  RoundInv'
    <2> DEFINE q == [Idle EXCEPT !.at = "task", !.nr = begun', !.rows = {Row(l, s)}]
    <2>1. /\ request' = [request EXCEPT ![r] = q]
          /\ UNCHANGED <<enabled, changes, cursor, given>>
      BY <1>3 DEF BeginTask, salesVars
    <2>2. q.at = "task" /\ q.todo = {} /\ q.rows = {Row(l, s)} /\ Row(l, s).at = changes
      BY DEF Idle, Row
    <2> HIDE DEF q
    <2>3. Fair(q)
      BY <2>2 DEF Fair, RestOK
    <2> QED BY <2>1, <2>2, <2>3, FairChange
  <1>4. ASSUME NEW r \in Slots, Rollback(r) \/ CommitTask(r)
        PROVE  RoundInv'
    <2>1. /\ request' = [request EXCEPT ![r] = Idle]
          /\ UNCHANGED <<enabled, changes, cursor, given>>
      BY <1>4 DEF Rollback, CommitTask, salesVars
    <2> QED BY <2>1, IdleIsFair, FairChange
  <1>5. CASE AssignNext
    <2> PICK r \in Slots :
            \/ \E l \in Leads : BeginCreate(r, l)
            \/ \E leads \in SUBSET Leads : BeginRetry(r, leads)
            \/ Lock(r) \/ Insert(r) \/ \E l \in Leads : Assign(r, l)
            \/ Commit(r) \/ Rollback(r)
      BY <1>5 DEF AssignNext
    <2>1. CASE \E l \in Leads : BeginCreate(r, l)
      <3> PICK l \in Leads : BeginCreate(r, l)
        BY <2>1
      <3>1. {l} \in SUBSET Leads /\ Begin(r, "begun", {l})
        BY DEF BeginCreate
      <3> QED BY <1>2, <3>1
    <2>2. CASE \E leads \in SUBSET Leads : BeginRetry(r, leads)
      BY <1>2, <2>2, Zenon DEF BeginRetry
    <2>3. CASE Lock(r) \/ Insert(r)
      BY <2>3, LockIsFair
    <2>4. CASE \E l \in Leads : Assign(r, l)
      BY <2>4, AssignIsFair
    <2>5. CASE Commit(r)
      BY <2>5, CommitIsFair
    <2>6. CASE Rollback(r)
      BY <1>4, <2>6
    <2> QED BY <2>1, <2>2, <2>3, <2>4, <2>5, <2>6
  <1>6. CASE TaskNext
    <2>1. ASSUME NEW t \in tasks, EndTask(t) PROVE RoundInv'
      BY <1>1, <2>1 DEF EndTask, salesVars
    <2> QED BY <1>3, <1>4, <1>6, <2>1, Zenon DEF TaskNext
  <1>7. CASE OfficeNext
    <2>1. CASE \E s \in Sales : SetEnabled(s)
      BY <2>1, ChangeIsFair
    <2>2. CASE ~\E s \in Sales : SetEnabled(s)
      BY <1>1, <1>7, <2>2
         DEF OfficeNext, MarkInvalid, Restore, BindWorker, UnbindWorker, salesVars
    <2> QED BY <2>1, <2>2
  <1>8. CASE UNCHANGED vars
    BY <1>1, <1>8 DEF vars, salesVars
  <1> QED BY <1>5, <1>6, <1>7, <1>8 DEF Next

(* The leads go round evenly: none of the sales that take part gets two    *)
(* leads more than another, whatever creations and retries run together,   *)
(* roll back or race to insert the cursor (assignment_service.py).         *)
THEOREM LeadsGoRound == Spec => []RoundRobinIsEven
  <1>1. Init => RequestsOK /\ RestOK /\ RoundInv
    BY TypeInit, TypeParts, RoundInit
  <1>2. RequestsOK /\ RestOK /\ RoundInv /\ [Next]_vars
            => (RequestsOK /\ RestOK /\ RoundInv)'
    BY TypeParts, RequestsAreTyped, RestStep, RoundStep
  <1>3. RequestsOK /\ RestOK /\ RoundInv => RoundRobinIsEven
    BY RoundIsEven DEF RoundInv, RoundRobinIsEven
  <1> QED BY <1>1, <1>2, <1>3, PTL DEF Spec

-----------------------------------------------------------------------------
(* Assigned leads are worked on *)

HasTask(l) == \E t \in tasks : t.lead = l

Request(q) == q = [f \in {"at", "nr", "todo", "cursor", "rows"} |-> q[f]]

Shape ==
    /\ request = [r \in Slots |-> request[r]]
    /\ \A r \in Slots : Request(request[r])
    /\ lead = [l \in Leads |->
           [status |-> lead[l].status, sales |-> lead[l].sales]]
    /\ \A t \in tasks :
           t = [nr |-> t.nr, lead |-> t.lead, sales |-> t.sales,
                status |-> t.status]

Promised ==
    \A r \in Slots : \A w \in request[r].rows :
        w.sales # NoSales /\ ~w.task => HasTask(w.lead)

WorkedOn ==
    \A l \in Leads :
        lead[l].sales # NoSales \/ lead[l].status = "assigned" => HasTask(l)

Inv == Shape /\ Promised /\ WorkedOn

-----------------------------------------------------------------------------
LEMMA InitInv == Init => Inv
  <1> SUFFICES ASSUME Init PROVE Inv
    OBVIOUS
  <1>1. Request(Idle) /\ Idle.rows = {}
    BY DEF Request, Idle
  <1>2. request = [r \in Slots |-> request[r]] /\ \A r \in Slots : request[r] = Idle
    BY DEF Init
  <1>3. lead = [l \in Leads |-> [status |-> lead[l].status, sales |-> lead[l].sales]]
    BY DEF Init
  <1>4. Promised
    BY <1>1, <1>2 DEF Promised
  <1>5. WorkedOn
    BY DEF Init, WorkedOn
  <1> QED BY <1>1, <1>2, <1>3, <1>4, <1>5 DEF Init, Inv, Shape

(* No task is ever forgotten, and the rows keep their fields. *)
LEMMA TasksStay ==
  ASSUME Shape, [Next]_vars
  PROVE  /\ \A l : HasTask(l) => HasTask(l)'
         /\ \A t \in tasks' :
               t = [nr |-> t.nr, lead |-> t.lead, sales |-> t.sales,
                    status |-> t.status]
  <1> DEFINE Kept == /\ \A l : HasTask(l) => HasTask(l)'
                     /\ \A t \in tasks' :
                           t = [nr |-> t.nr, lead |-> t.lead, sales |-> t.sales,
                                status |-> t.status]
  <1>1. CASE tasks' = tasks
    BY <1>1 DEF Shape, HasTask
  <1>2. ASSUME NEW r \in Slots, tasks' = tasks \cup Created(request[r].rows, request[r].nr)
        PROVE  Kept
    BY <1>2 DEF Shape, HasTask, Created
  <1>3. ASSUME NEW t \in tasks,
               tasks' = (tasks \ {t}) \cup {[t EXCEPT !.status = "over"]}
        PROVE  Kept
    <2>1. [t EXCEPT !.status = "over"] =
              [nr |-> t.nr, lead |-> t.lead, sales |-> t.sales, status |-> "over"]
      BY DEF Shape
    <2> QED BY <1>3, <2>1 DEF Shape, HasTask
  <1>4. ASSUME NEW s \in Sales, BindWorker(s)
        PROVE  Kept
    <2> DEFINE Woken(t) == IF t.sales = s /\ t.status = "blocked"
                           THEN [t EXCEPT !.status = "pending"] ELSE t
    <2>1. \A t \in tasks : /\ Woken(t).lead = t.lead
                           /\ Woken(t) = [nr |-> Woken(t).nr, lead |-> Woken(t).lead,
                                          sales |-> Woken(t).sales,
                                          status |-> Woken(t).status]
      BY DEF Shape
    <2>2. tasks' = {Woken(t) : t \in tasks}
      BY <1>4 DEF BindWorker
    <2> HIDE DEF Woken
    <2> QED BY <2>1, <2>2 DEF HasTask
  <1> QED
    BY <1>1, <1>2, <1>3, <1>4
       DEF Next, AssignNext, TaskNext, OfficeNext, vars, salesVars, Begin,
           BeginCreate, BeginRetry, Lock, Insert, Assign, Commit, Rollback,
           BeginTask, CommitTask, EndTask, MarkInvalid, Restore, SetEnabled,
           UnbindWorker

(* What a request holds after a step: nothing, what it had, or one row     *)
(* more, which is of a lead with a task unless it brings one.              *)
LEMMA RowsArePromised ==
  ASSUME Shape, NEW l, NEW s, ~Row(l, s).task
  PROVE  HasTask(l)
  BY DEF Row, ActiveTask, HasTask

LEMMA PromisedStep ==
  ASSUME Inv, [Next]_vars
  PROVE  /\ (request = [r \in Slots |-> request[r]])'
         /\ (\A r \in Slots : Request(request[r]))'
         /\ Promised'
  <1> DEFINE Shaped == /\ (request = [r \in Slots |-> request[r]])'
                       /\ (\A r \in Slots : Request(request[r]))'
             Sound(rows) == \A w \in rows : w.sales # NoSales /\ ~w.task
                                                => HasTask(w.lead)
  <1>1. \A l : HasTask(l) => HasTask(l)'
    BY TasksStay DEF Inv
  <1>2. CASE request' = request
    BY <1>1, <1>2 DEF Inv, Shape, Promised
  <1>3. ASSUME NEW r \in Slots, NEW q, Sound(q.rows), Request(q),
               request' = [request EXCEPT ![r] = q]
        PROVE  Shaped /\ Promised'
    <2>1. Shaped
      <3> HIDE DEF Sound
      <3> QED BY <1>3 DEF Inv, Shape
    <2>2. Promised'
      BY <1>1, <1>3 DEF Inv, Shape, Promised
    <2> QED BY <2>1, <2>2
  <1>4. ASSUME NEW r \in Slots, NEW l \in Leads, Assign(r, l)
        PROVE  Shaped /\ Promised'
    <2> DEFINE s == IF enabled = {} THEN NoSales
                    ELSE IF request[r].cursor \in enabled THEN request[r].cursor
                    ELSE First(enabled)
               w == [Row(l, s) EXCEPT !.task = @ /\ s # NoSales]
               q == [request[r] EXCEPT
                       !.todo = @ \ {l}, !.rows = @ \cup {w},
                       !.cursor = IF s = NoSales THEN @ ELSE NextSales(s)]
    <2>1. request' = [request EXCEPT ![r] = q]
      BY <1>4 DEF Assign
    <2>2. /\ w.lead = l /\ w.sales = s
          /\ w.task = (Row(l, s).task /\ s # NoSales)
      BY Zenon DEF Row
    <2> HIDE DEF w, s
    <2>3. Sound(request[r].rows \cup {w})
      BY <2>2, RowsArePromised DEF Inv, Promised
    <2>4. Request(q) /\ q.rows = request[r].rows \cup {w}
      BY DEF Inv, Shape, Request
    <2>5. Sound(q.rows)
      BY <2>3, <2>4
    <2> HIDE DEF q
    <2> QED BY <1>3, <2>1, <2>4, <2>5
  <1>5. ASSUME NEW r \in Slots, NEW l \in Leads, NEW s, BeginTask(r, l, s)
        PROVE  Shaped /\ Promised'
    <2> DEFINE q == [Idle EXCEPT !.at = "task", !.nr = begun', !.rows = {Row(l, s)}]
    <2>1. request' = [request EXCEPT ![r] = q]
      BY <1>5 DEF BeginTask
    <2>2. Row(l, s).lead = l
      BY DEF Row
    <2>3. Sound({Row(l, s)})
      BY <2>2, RowsArePromised DEF Inv
    <2>4. Request(q) /\ q.rows = {Row(l, s)}
      BY DEF Idle, Request
    <2>5. Sound(q.rows)
      BY <2>3, <2>4
    <2> HIDE DEF q
    <2> QED BY <1>3, <2>1, <2>4, <2>5
  <1>6. ASSUME NEW r \in Slots,
               request' = [request EXCEPT ![r] = Idle]
        PROVE  Shaped /\ Promised'
    <2>1. Request(Idle) /\ Sound(Idle.rows)
      BY DEF Idle, Request
    <2> QED BY <1>3, <1>6, <2>1
  <1>7. ASSUME NEW r \in Slots, NEW at, NEW leads, Begin(r, at, leads)
        PROVE  Shaped /\ Promised'
    <2> DEFINE q == [Idle EXCEPT !.at = at, !.nr = begun', !.todo = leads]
    <2>1. request' = [request EXCEPT ![r] = q]
      BY <1>7 DEF Begin
    <2>2. Request(q) /\ q.rows = {}
      BY DEF Idle, Request
    <2>3. Sound(q.rows)
      BY <2>2
    <2> HIDE DEF q
    <2> QED BY <1>3, <2>1, <2>2, <2>3
  <1>8. ASSUME NEW r \in Slots, Lock(r) \/ Insert(r)
        PROVE  Shaped /\ Promised'
    <2> DEFINE assigning == [request[r] EXCEPT !.at = "assigning"]
               inserting == [request[r] EXCEPT !.at = "inserting"]
               reading   == [request[r] EXCEPT !.at = "assigning",
                                               !.cursor = cursor.sales]
    <2>1. \/ request' = [request EXCEPT ![r] = Idle]
          \/ request' = [request EXCEPT ![r] = assigning]
          \/ request' = [request EXCEPT ![r] = inserting]
          \/ request' = [request EXCEPT ![r] = reading]
      BY <1>8 DEF Lock, Insert
    <2>2. Sound(request[r].rows)
      BY DEF Inv, Promised
    <2>3. ASSUME NEW q, Request(q), q.rows = request[r].rows,
                 request' = [request EXCEPT ![r] = q]
          PROVE  Shaped /\ Promised'
      <3>1. Sound(q.rows)
        BY <2>2, <2>3
      <3> QED BY <1>3, <2>3, <3>1
    <2>4. /\ Request(assigning) /\ assigning.rows = request[r].rows
          /\ Request(inserting) /\ inserting.rows = request[r].rows
          /\ Request(reading) /\ reading.rows = request[r].rows
      BY DEF Inv, Shape, Request
    <2> HIDE DEF Shaped, assigning, inserting, reading
    <2> QED BY <1>6, <2>1, <2>3, <2>4
  <1> QED
    BY <1>2, <1>4, <1>5, <1>6, <1>7, <1>8
       DEF Next, AssignNext, TaskNext, OfficeNext, vars, salesVars,
           BeginCreate, BeginRetry, Commit, Rollback, CommitTask, EndTask,
           MarkInvalid, Restore, SetEnabled, BindWorker, UnbindWorker

(* The leads keep their fields, and one with a sales has a task.           *)
LEMMA WorkedOnStep ==
  ASSUME Inv, [Next]_vars
  PROVE  /\ (lead = [l \in Leads |->
                [status |-> lead[l].status, sales |-> lead[l].sales]])'
         /\ WorkedOn'
  <1> DEFINE Shaped == (lead = [l \in Leads |->
                [status |-> lead[l].status, sales |-> lead[l].sales]])'
  <1>1. \A l : HasTask(l) => HasTask(l)'
    BY TasksStay DEF Inv
  <1>2. CASE lead' = lead
    BY <1>1, <1>2 DEF Inv, Shape, WorkedOn
  <1>3. ASSUME NEW r \in Slots, Commit(r)
        PROVE  Shaped /\ WorkedOn'
    <2> DEFINE rows == request[r].rows
    <2>1. lead' = [l \in Leads |-> AssignedLead(l, rows)]
      BY <1>3 DEF Commit
    <2>2. \A l \in Leads :
             AssignedLead(l, rows) = [status |-> AssignedLead(l, rows).status,
                                      sales |-> AssignedLead(l, rows).sales]
      BY DEF AssignedLead, Inv, Shape
    <2>3. ASSUME NEW w \in rows, w.sales # NoSales
          PROVE  HasTask(w.lead)'
      <3>1. CASE w.task
        <4> DEFINE t == [nr |-> request[r].nr, lead |-> w.lead, sales |-> w.sales,
                         status |-> IF w.blocked THEN "blocked" ELSE "pending"]
        <4>1. t \in Created(rows, request[r].nr) /\ t.lead = w.lead
          BY <3>1 DEF Created
        <4> HIDE DEF t
        <4> QED BY <1>3, <4>1 DEF Commit, HasTask
      <3>2. CASE ~w.task
        BY <1>1, <2>3, <3>2 DEF Inv, Promised
      <3> QED BY <3>1, <3>2
    <2>4. ASSUME NEW l \in Leads,
                 lead'[l].sales # NoSales \/ lead'[l].status = "assigned"
          PROVE  HasTask(l)'
      <3>1. CASE \E w \in rows : w.lead = l /\ w.sales # NoSales
        BY <2>3, <3>1
      <3>2. CASE ~\E w \in rows : w.lead = l /\ w.sales # NoSales
        <4>1. lead'[l] \in {lead[l], [status |-> "unassigned", sales |-> NoSales]}
          BY <2>1, <3>2 DEF AssignedLead
        <4>2. lead[l].sales # NoSales \/ lead[l].status = "assigned"
          BY <2>4, <4>1
        <4> QED BY <1>1, <4>2 DEF Inv, WorkedOn
      <3> QED BY <3>1, <3>2
    <2> HIDE DEF rows
    <2>5. Shaped
      BY <2>1, <2>2
    <2> QED BY <2>4, <2>5 DEF WorkedOn
  <1>4. ASSUME NEW l \in Leads, MarkInvalid(l) \/ Restore(l)
        PROVE  Shaped /\ WorkedOn'
    <2>1. PICK st : /\ lead' = [lead EXCEPT ![l].status = st]
                    /\ st = "assigned" => lead[l].sales # NoSales
      BY <1>4 DEF MarkInvalid, Restore
    <2>2. Shaped
      BY <2>1 DEF Inv, Shape
    <2>3. \A k \in Leads : /\ lead'[k].sales = lead[k].sales
                           /\ lead'[k].status = IF k = l THEN st ELSE lead[k].status
      BY <2>1 DEF Inv, Shape
    <2>4. WorkedOn'
      BY <1>1, <2>1, <2>3 DEF Inv, WorkedOn
    <2> QED BY <2>2, <2>4
  <1> QED
    BY <1>2, <1>3, <1>4
       DEF Next, AssignNext, TaskNext, OfficeNext, vars, salesVars, Begin,
           BeginCreate, BeginRetry, Lock, Insert, Assign, Rollback,
           BeginTask, CommitTask, EndTask, SetEnabled, BindWorker, UnbindWorker

-----------------------------------------------------------------------------
THEOREM InvHolds == Spec => []Inv
  <1>1. Inv /\ [Next]_vars => Inv'
    BY TasksStay, PromisedStep, WorkedOnStep DEF Inv, Shape
  <1> QED BY InitInv, <1>1, PTL DEF Spec

(* An assigned lead is worked on: however creations, retries, tasks by     *)
(* hand and the back office interleave, a lead is never left assigned to a *)
(* sales with no task having been made for it.                             *)
THEOREM AssignedIsWorkedOn == Spec => []AssignedHasTask
  <1>1. Inv => AssignedHasTask
    BY DEF Inv, WorkedOn, AssignedHasTask, HasTask
  <1> QED BY InvHolds, <1>1, PTL
=============================================================================
