--------------------- MODULE ConversationReading_proofs ---------------------
(***************************************************************************)
(* The types of ConversationReading, that a generation is consumed only    *)
(* with what raised it, that an open handoff leaves the AI no turn, and    *)
(* that a turn is about something unanswered, for any number of messages,  *)
(* recalls and faults, and for scans of other workers at any time.         *)
(*                                                                         *)
(* That what is consumed is stored is not inductive.  A read carries the   *)
(* generation its right was lent for, through the outbox and a late        *)
(* request, to the settlement; ReadInv adds that it covers what raised     *)
(* that generation (Covered), because it was made after the right was      *)
(* lent, and no scan has seen more than there is (Reached).                *)
(*                                                                         *)
(* That a turn is unanswered is not inductive either: a read that is       *)
(* stored without moving the conversation would leave the turn standing    *)
(* over what the sales wrote.  AnswerInv adds that the reason or the turn  *)
(* for which a read is made still stands when it is taken (Asks), and that *)
(* a late request brings no news of its own (Carried).                     *)
(*                                                                         *)
(* The last two parts prove what the delivery and the badges rest on: that *)
(* a row of the outbox is never refused, and that a message shown unread   *)
(* stays noticed until it is stored (Noticed).                             *)
(***************************************************************************)
EXTENDS ConversationReading, FiniteSetTheorems, SequenceTheorems, TLAPS

ConvType == [status : Statuses, recall : {"unset", "later", "now"},
             origin : Waiting \cup {"none"}, cycle : Nat, recalls : Nat,
             replied : BOOLEAN]

TurnType == [kind : {"none", "customer", "welcome", "recall"}, upto : Nat,
             reason : Reasons \cup {"none"}, origin : Statuses \cup {"none"},
             revision : Nat]

HandoffType == [open : BOOLEAN, trigger : Nat]

BindingType(g) == [bound : BOOLEAN, revision : Nat, unread : BOOLEAN,
                   gen : {g}, consumed : 0 .. g, key : Nat, due : BOOLEAN,
                   status : Statuses \cup {"none"}, run : Runs]

Places == {"idle", "seen", "scanned", "ticket", "reading", "outbox", "retry",
           "waiting", "rereading", "sending"}

RequestType(at, n, g) ==
    [at : at, badge : BOOLEAN, len : 0 .. n, reason : Reasons \cup {"none"},
     gen : 0 .. g, revision : Nat, goes : BOOLEAN, run : Runs]

(* A read covers what the scans up to its generation could see. *)
Covers(r) == \A g \in 1 .. r.gen : reach[g] <= r.len

Types ==
    /\ chat \in Seq(Writers) /\ badge \in BOOLEAN /\ shown \in 0 .. Len(chat)
    /\ stored \in 0 .. Len(chat)
    /\ binding \in BindingType(Len(reach))
    /\ conv \in ConvType /\ turn \in TurnType /\ handoff \in HandoffType
    /\ made \in SUBSET Nat /\ IsFiniteSet(made)
    /\ client \in RequestType(Places, Len(chat), Len(reach))
    /\ late \in SUBSET RequestType({"late"}, Len(chat), Len(reach))
    /\ \A p, q \in late : p = q
    /\ faults \in 0 .. MaxFaults
    /\ reach \in Seq(Nat)
    /\ broken \in BOOLEAN

Reached == \A g \in 1 .. Len(reach) : reach[g] <= Len(chat)

Covered ==
    /\ Waits(client.at) => Covers(client)
    /\ \A r \in late : Covers(r)

ReadInv == Types /\ Reached /\ Covered /\ ConsumedIsStored /\ HandoffSilencesAI

-----------------------------------------------------------------------------
(* What the server works out *)

LEMMA CurrentIsTyped ==
  ASSUME conv \in ConvType, made \in SUBSET Nat, IsFiniteSet(made)
  PROVE  /\ Gated(conv) \in ConvType /\ Current \in ConvType
         /\ HandoffOpen(conv) => Current.status = "waiting_sales"
  <1>1. FreshCycle \in Nat
    <2>1. IsFiniteSet(made \ {Welcome})
      BY FS_Difference
    <2> QED BY <2>1, FS_CardinalityType DEF FreshCycle
  <1>2. Gated(conv) \in ConvType
    BY DEF Gated, ConvType, Statuses
  <1>3. HandoffOpen(conv) => Gated(conv).status = "waiting_sales"
    BY DEF Gated, ConvType
  <1>4. ASSUME NEW c \in ConvType
        PROVE  /\ Prepared(c) \in ConvType
               /\ c.status = "waiting_sales" => Prepared(c) = c
    BY <1>1 DEF Prepared, ConvType, Statuses, Waiting
  <1> QED BY <1>2, <1>3, <1>4 DEF Current

LEMMA SyncedIsTyped ==
  ASSUME NEW g \in Nat, NEW b \in BindingType(g), NEW s \in Statuses
  PROVE  /\ Synced(b, s) \in BindingType(g)
         /\ Synced(b, s).consumed = b.consumed
  BY DEF Synced, BindingType, Statuses

LEMMA ReasonIsTyped ==
  ASSUME NEW b, NEW c \in ConvType
  PROVE  ReadReason(b, c) \in Reasons \cup {"none"}
  BY DEF ReadReason, ConvType, Statuses, Waiting, Reasons

LEMMA MovedIsTyped ==
  ASSUME NEW r, NEW c \in ConvType
  PROVE  /\ Moved(r, c) \in ConvType
         /\ c.status = "waiting_sales" /\ StillOpen(r)
               => Moved(r, c).status = "waiting_sales"
  <1> DEFINE people == FromCustomer(r) \cup FromSales(r)
             last   == chat[CHOOSE i \in people : \A j \in people : j <= i]
             status == IF StillOpen(r) THEN "waiting_sales"
                       ELSE IF last = "customer" THEN "ai_active"
                       ELSE "sales_replied"
             recall == IF ~StillOpen(r) /\ last = "sales" THEN "later"
                       ELSE IF FromCustomer(r) # {} THEN "unset" ELSE c.recall
             cycle  == IF FromCustomer(r) # {} THEN NoCycle ELSE c.cycle
             origin == IF FromCustomer(r) # {} \/ ~StillOpen(r)
                       THEN "none" ELSE c.origin
  <1>1. Moved(r, c) = IF people = {} THEN c
                      ELSE [c EXCEPT !.status = status, !.recall = recall,
                                     !.cycle = cycle, !.origin = origin]
    BY DEF Moved
  <1>2. status \in Statuses /\ (StillOpen(r) => status = "waiting_sales")
    <2> HIDE DEF last
    <2> QED BY DEF Statuses, Waiting
  <1>3. recall \in {"unset", "later", "now"}
    <2> HIDE DEF last
    <2> QED BY DEF ConvType
  <1>4. cycle \in Nat /\ origin \in Waiting \cup {"none"}
    BY DEF ConvType, NoCycle
  <1> HIDE DEF people, status, recall, cycle, origin
  <1> QED BY <1>1, <1>2, <1>3, <1>4 DEF ConvType

LEMMA ReleasedIsTyped ==
  ASSUME NEW r, NEW c \in ConvType
  PROVE  Released(r, c) \in ConvType
  BY DEF Released, ConvType, Statuses, Waiting

LEMMA ControlIsTyped ==
  ASSUME NEW r, NEW c \in ConvType
  PROVE  /\ Control(r, c) \in SUBSET Nat /\ IsFiniteSet(Control(r, c))
         /\ c.status = "waiting_sales" => Control(r, c) = {}
  <1>1. {Welcome, c.cycle} \in SUBSET Nat /\ IsFiniteSet({Welcome, c.cycle})
    <2>1. {Welcome, c.cycle} = ({} \cup {Welcome}) \cup {c.cycle}
      OBVIOUS
    <2>2. IsFiniteSet(({} \cup {Welcome}) \cup {c.cycle})
      BY FS_EmptySet, FS_AddElement
    <2> QED BY <2>1, <2>2 DEF Welcome, ConvType
  <1>2. Control(r, c) \subseteq {Welcome, c.cycle}
    BY DEF Control
  <1>3. c.status = "waiting_sales" => Control(r, c) = {}
    BY DEF Control, Welcomes, Recalls
  <1> QED BY <1>1, <1>2, <1>3, FS_Subset

LEMMA TurnIsTyped ==
  ASSUME NEW at, NEW n \in Nat, NEW g, NEW r \in RequestType(at, n, g),
         NEW moved, Gated(conv) \in ConvType, turn \in TurnType
  PROVE  NextTurn(r, moved) \in TurnType
  <1>1. Origin \in Statuses
    BY DEF Origin, ConvType, Statuses
  <1>2. ASSUME NEW kind \in {"customer", "welcome", "recall"}
        PROVE  TurnOf(kind, r.len, r) \in TurnType
    BY <1>1 DEF TurnOf, TurnType, RequestType
  <1>3. NoTurn \in TurnType
    BY DEF NoTurn, TurnType
  <1> QED BY <1>2, <1>3 DEF NextTurn

LEMMA SettledIsTyped ==
  ASSUME NEW g \in Nat, NEW at, NEW n, NEW r \in RequestType(at, n, g),
         NEW b \in BindingType(g), NEW s \in Statuses
  PROVE  /\ Settled(b, r, s) \in BindingType(g)
         /\ Settled(b, r, s).consumed \in {b.consumed, r.gen}
  BY DEF Settled, RequestType, BindingType, Statuses

(* An ingest keeps the types, stores what it brings, consumes at most the  *)
(* generation it brings, and gives no turn to the AI under a handoff.      *)
LEMMA IngestKeeps ==
  ASSUME Types, HandoffSilencesAI,
         NEW at, NEW r \in RequestType(at, Len(chat), Len(reach)), Ingest(r)
  PROVE  /\ stored' \in 0 .. Len(chat) /\ stored' >= stored /\ stored' >= r.len
         /\ binding' \in BindingType(Len(reach))
         /\ binding'.consumed \in {binding.consumed, r.gen}
         /\ conv' \in ConvType /\ turn' \in TurnType /\ handoff' \in HandoffType
         /\ made' \in SUBSET Nat /\ IsFiniteSet(made')
         /\ handoff'.open => turn'.kind = "none"
  <1> DEFINE c     == Current
             b     == Synced(binding, c.status)
             moved == Moved(r, c)
             final == Released(r, moved)
  <1>0. Len(chat) \in Nat /\ Len(reach) \in Nat
    BY LenProperties DEF Types
  <1>1. /\ c \in ConvType /\ Gated(conv) \in ConvType
        /\ handoff.open => c.status = "waiting_sales"
    BY CurrentIsTyped DEF Types, HandoffOpen
  <1>2. b \in BindingType(Len(reach)) /\ b.consumed = binding.consumed
    BY <1>0, <1>1, SyncedIsTyped DEF Types, ConvType
  <1>3. /\ moved \in ConvType /\ final \in ConvType
        /\ handoff.open /\ StillOpen(r) => moved.status = "waiting_sales"
    BY <1>1, MovedIsTyped, ReleasedIsTyped
  <1>4. /\ Control(r, moved) \in SUBSET Nat /\ IsFiniteSet(Control(r, moved))
        /\ handoff.open /\ StillOpen(r) => Control(r, moved) = {}
    BY <1>3, ControlIsTyped
  <1>5. stored' \in 0 .. Len(chat) /\ stored' >= stored /\ stored' >= r.len
    BY <1>0 DEF Ingest, Types, RequestType
  <1>6. CASE ~Applies(r, b, c)
    <2>1. conv' = c /\ binding' = b /\ UNCHANGED <<turn, made, handoff>>
      BY <1>6 DEF Ingest
    <2> QED BY <1>1, <1>2, <1>5, <2>1 DEF Types, HandoffSilencesAI
  <1>7. CASE Applies(r, b, c)
    <2>1. /\ conv' = final /\ turn' = NextTurn(r, moved)
          /\ made' = made \cup Control(r, moved)
          /\ handoff' = IF StillOpen(r) THEN handoff ELSE NoHandoff
          /\ binding' = Settled(b, r, final.status)
      BY <1>7 DEF Ingest
    <2>2. turn' \in TurnType
      BY <1>0, <1>1, <2>1, TurnIsTyped DEF Types
    <2>3. made' \in SUBSET Nat /\ IsFiniteSet(made')
      BY <1>4, <2>1, FS_Union DEF Types
    <2>4. handoff' \in HandoffType
      BY <2>1 DEF Types, NoHandoff, HandoffType
    <2>5. /\ binding' \in BindingType(Len(reach))
          /\ binding'.consumed \in {binding.consumed, r.gen}
      <3>1. final.status \in Statuses
        BY <1>3 DEF ConvType
      <3> HIDE DEF b, final
      <3> QED BY <1>0, <1>2, <2>1, <3>1, SettledIsTyped
    <2>6. handoff'.open => turn'.kind = "none"
      <3>1. ASSUME handoff'.open PROVE turn'.kind = "none"
        <4>1. StillOpen(r) /\ handoff.open
          BY <2>1, <3>1 DEF NoHandoff
        <4>2. turn' = turn
          BY <1>4, <2>1, <4>1 DEF NextTurn
        <4> QED BY <4>1, <4>2 DEF HandoffSilencesAI
      <3> QED BY <3>1
    <2> QED BY <1>3, <1>5, <2>1, <2>2, <2>3, <2>4, <2>5, <2>6
  <1> QED BY <1>6, <1>7

-----------------------------------------------------------------------------
(* The invariant holds at first and in every step *)

LEMMA IdleIsTyped ==
  ASSUME NEW n \in Nat, NEW g \in Nat
  PROVE  /\ Idle \in RequestType(Places, n, g) /\ ~Waits(Idle.at)
         /\ \A len \in 0 .. n : /\ Sending(len) \in RequestType(Places, n, g)
                                /\ ~Waits(Sending(len).at)
  <1>1. Idle \in RequestType(Places, n, g) /\ ~Waits(Idle.at)
    BY DEF Idle, RequestType, Places, Waits, Runs
  <1>2. ASSUME NEW len \in 0 .. n
        PROVE  Sending(len) \in RequestType(Places, n, g) /\ ~Waits(Sending(len).at)
    <2>1. "sending" \in Places /\ TRUE \in BOOLEAN
      BY DEF Places
    <2>2. Sending(len) \in RequestType(Places, n, g)
      BY <1>1, <2>1 DEF Sending, RequestType
    <2>3. Sending(len).at = "sending"
      BY <1>1 DEF Sending, RequestType
    <2> QED BY <2>2, <2>3 DEF Waits
  <1> QED BY <1>1, <1>2

LEMMA InitInv == Init => ReadInv
  <1> SUFFICES ASSUME Init PROVE ReadInv
    OBVIOUS
  <1>1. Len(chat) = 0 /\ Len(reach) = 0
    BY DEF Init
  <1>2. chat \in Seq(Writers) /\ reach \in Seq(Nat)
    BY DEF Init
  <1>3. IsFiniteSet(made) /\ made \in SUBSET Nat
    BY FS_EmptySet DEF Init
  <1>4. Types
    <2>1. binding \in BindingType(Len(reach)) /\ conv \in ConvType
      BY <1>1 DEF Init, BindingType, ConvType, Runs, NoKey, NoCycle, Statuses, Waiting
    <2>2. turn \in TurnType /\ handoff \in HandoffType
      BY DEF Init, TurnType, HandoffType, NoTurn, NoHandoff
    <2>3. client \in RequestType(Places, Len(chat), Len(reach))
      BY <1>1, IdleIsTyped DEF Init
    <2>4. /\ late \in SUBSET RequestType({"late"}, Len(chat), Len(reach))
          /\ \A p, q \in late : p = q
      BY DEF Init
    <2>5. /\ shown \in 0 .. Len(chat) /\ stored \in 0 .. Len(chat)
          /\ faults \in 0 .. MaxFaults
      BY <1>1, ConversationReadingAssumption DEF Init, ConversationReadingAssumption
    <2>6. badge \in BOOLEAN /\ broken \in BOOLEAN
      BY Zenon DEF Init
    <2> QED BY <1>2, <1>3, <2>1, <2>2, <2>3, <2>4, <2>5, <2>6 DEF Types
  <1>5. Reached /\ Covered /\ ConsumedIsStored /\ HandoffSilencesAI
    BY <1>1 DEF Init, Reached, Covered, Waits, Idle, ConsumedIsStored,
                HandoffSilencesAI, NoHandoff
  <1> QED BY <1>4, <1>5 DEF ReadInv

LEMMA Lengths ==
  ASSUME Types
  PROVE  Len(chat) \in Nat /\ Len(reach) \in Nat
  BY LenProperties DEF Types

(* The chat grows. *)
LEMMA WrittenStep ==
  ASSUME ReadInv, NEW w \in Writers, chat' = Append(chat, w),
         badge' \in BOOLEAN, shown' \in {shown, 0, Len(chat')},
         UNCHANGED <<stored, binding, made, late, faults, reach, broken>>,
         conv' \in ConvType, turn' \in TurnType, UNCHANGED handoff,
         client' \in {client, Idle}, turn' \in {turn, NoTurn}
  PROVE  ReadInv'
  <1>1. /\ Len(chat) \in Nat /\ Len(reach) \in Nat
        /\ chat' \in Seq(Writers) /\ Len(chat') = Len(chat) + 1
    BY Lengths, AppendProperties DEF ReadInv, Types
  <1>2. ASSUME NEW at
        PROVE  RequestType(at, Len(chat), Len(reach))
                   \subseteq RequestType(at, Len(chat'), Len(reach))
    BY <1>1 DEF RequestType
  <1>3. Idle \in RequestType(Places, Len(chat), Len(reach)) /\ ~Waits(Idle.at)
    BY <1>1, IdleIsTyped
  <1>4. Types'
    BY <1>1, <1>2, <1>3 DEF ReadInv, Types
  <1>5. Reached'
    BY <1>1 DEF ReadInv, Types, Reached
  <1>6. Covered'
    BY <1>3 DEF ReadInv, Covered, Covers
  <1>7. ConsumedIsStored' /\ HandoffSilencesAI'
    BY DEF ReadInv, ConsumedIsStored, HandoffSilencesAI, NoTurn
  <1> QED BY <1>4, <1>5, <1>6, <1>7 DEF ReadInv

(* Neither the chat nor what the scans have seen changes. *)
LEMMA QuietStep ==
  ASSUME ReadInv, UNCHANGED <<chat, reach, stored, made>>,
         badge' \in BOOLEAN, shown' \in 0 .. Len(chat),
         binding' \in BindingType(Len(reach)), binding'.consumed = binding.consumed,
         conv' \in ConvType, turn' \in TurnType, handoff' \in HandoffType,
         client' \in RequestType(Places, Len(chat), Len(reach)),
         Waits(client'.at) => Covers(client'),
         UNCHANGED late, faults' \in 0 .. MaxFaults, broken' \in BOOLEAN,
         handoff'.open => turn'.kind = "none"
  PROVE  ReadInv'
  <1>1. Types'
    BY DEF ReadInv, Types
  <1>2. Reached' /\ Covered' /\ ConsumedIsStored' /\ HandoffSilencesAI'
    BY DEF ReadInv, Reached, Covered, Covers, ConsumedIsStored, HandoffSilencesAI
  <1> QED BY <1>1, <1>2 DEF ReadInv

LEMMA PeopleStep == ReadInv /\ People => ReadInv'
  <1> SUFFICES ASSUME ReadInv, People PROVE ReadInv'
    OBVIOUS
  <1>1. PICK w \in Writers : chat' = Append(chat, w)
    BY DEF People, CustomerWrites, SalesWrites, Writers
  <1>2. badge' \in BOOLEAN /\ shown' \in {shown, 0, Len(chat')}
    <2>1. CASE CustomerWrites
      <3>1. badge' \in BOOLEAN
        BY Zenon, <2>1 DEF CustomerWrites, ReadInv, Types
      <3> QED BY <2>1, <3>1 DEF CustomerWrites
    <2>2. CASE SalesWrites
      <3>1. badge' \in BOOLEAN
        BY Zenon, <2>2 DEF SalesWrites
      <3> QED BY <2>2, <3>1 DEF SalesWrites
    <2> QED BY <2>1, <2>2 DEF People
  <1>3. UNCHANGED <<stored, binding, conv, turn, handoff, made, client, late, faults,
                    reach, broken>>
    BY DEF People, CustomerWrites, SalesWrites
  <1>4. conv' \in ConvType /\ turn' \in TurnType
    BY <1>3 DEF ReadInv, Types
  <1> QED BY <1>1, <1>2, <1>3, <1>4, WrittenStep

LEMMA TimeStep == ReadInv /\ Time => ReadInv'
  <1> SUFFICES ASSUME ReadInv, Time PROVE ReadInv'
    OBVIOUS
  <1>1. CASE ReadFallsDue
    <2>1. /\ binding' \in BindingType(Len(reach))
          /\ binding'.consumed = binding.consumed
      BY <1>1 DEF ReadInv, Types, ReadFallsDue, BindingType
    <2> QED BY <1>1, <2>1, QuietStep
            DEF ReadFallsDue, ReadInv, Types, Covered, HandoffSilencesAI
  <1>2. CASE RecallFallsDue
    <2>1. conv' \in ConvType
      BY <1>2 DEF ReadInv, Types, RecallFallsDue, ConvType
    <2> QED BY <1>2, <2>1, QuietStep
            DEF RecallFallsDue, ReadInv, Types, Covered, HandoffSilencesAI
  <1> QED BY <1>1, <1>2 DEF Time

(* The client looks at the screen, gives up, or reads without a row. *)
LEMMA ScreenStep ==
  ASSUME ReadInv, SeeScreen \/ ReadAgain \/ ReadFails \/ WaitEnds
  PROVE  ReadInv'
  <1>0. Len(chat) \in Nat /\ Len(reach) \in Nat
    BY Lengths DEF ReadInv
  <1>1. /\ client' \in RequestType(Places, Len(chat), Len(reach))
        /\ ~Waits(client'.at)
    <2>1. CASE SeeScreen
      <3>1. client' = [Idle EXCEPT !.at = "seen", !.badge = badge, !.len = Len(chat)]
        BY <2>1 DEF SeeScreen
      <3>2. badge \in BOOLEAN /\ "seen" \in Places /\ Len(chat) \in 0 .. Len(chat)
        BY <1>0 DEF ReadInv, Types, Places
      <3> QED BY <1>0, <3>1, <3>2, IdleIsTyped DEF RequestType, Waits
    <2>2. CASE ReadAgain
      BY <1>0, <2>2, IdleIsTyped DEF ReadAgain
    <2>3. CASE ReadFails \/ WaitEnds
      BY <1>0, <2>3, IdleIsTyped DEF ReadFails, WaitEnds
    <2> QED BY <2>1, <2>2, <2>3
  <1>2. faults' \in 0 .. MaxFaults /\ broken' \in BOOLEAN
    <2>1. faults' \in 0 .. MaxFaults
      BY ConversationReadingAssumption
         DEF ReadInv, Types, SeeScreen, ReadAgain, ReadFails, WaitEnds,
             ConversationReadingAssumption
    <2>2. broken' \in BOOLEAN
      BY Zenon DEF ReadInv, Types, SeeScreen, ReadAgain, ReadFails, WaitEnds
    <2> QED BY <2>1, <2>2
  <1>3. UNCHANGED <<chat, badge, shown, stored, binding, conv, turn, handoff, made,
                    late, reach>>
    BY DEF SeeScreen, ReadAgain, ReadFails, WaitEnds
  <1> QED BY <1>1, <1>2, <1>3, QuietStep DEF ReadInv, Types, HandoffSilencesAI

(* A scan raises at most one generation, and consumes none. *)
LEMMA ReboundIsTyped ==
  ASSUME NEW g \in Nat, NEW b \in BindingType(g), NEW bound \in BOOLEAN
  PROVE  Rebound(b, bound) \in BindingType(g) /\ Rebound(b, bound).consumed = b.consumed
  <1>1. CASE b.bound = bound
    BY <1>1 DEF Rebound
  <1>2. CASE b.bound # bound
    <2>1. Rebound(b, bound) = [b EXCEPT !.bound = bound, !.revision = @ + 1, !.due = TRUE]
      BY <1>2 DEF Rebound
    <2>2. b.revision + 1 \in Nat /\ TRUE \in BOOLEAN
      BY DEF BindingType
    <2> QED BY <2>1, <2>2 DEF BindingType
  <1> QED BY <1>1, <1>2

LEMMA ScannedIsTyped ==
  ASSUME NEW n \in Nat, binding \in BindingType(n), NEW unread \in BOOLEAN, NEW key \in Nat
  PROVE  /\ Scanned(unread, key).consumed = binding.consumed
         /\ NewGeneration(unread, key) => Scanned(unread, key) \in BindingType(n + 1)
         /\ ~NewGeneration(unread, key) => Scanned(unread, key) \in BindingType(n)
  <1>1. CASE NewGeneration(unread, key)
    <2>1. Scanned(unread, key) =
              [binding EXCEPT !.gen = @ + 1, !.key = key, !.due = TRUE, !.unread = TRUE]
      BY <1>1 DEF Scanned
    <2>2. /\ binding.gen + 1 = n + 1 /\ binding.consumed \in 0 .. (n + 1)
          /\ TRUE \in BOOLEAN
      BY DEF BindingType
    <2> QED BY <1>1, <2>1, <2>2 DEF BindingType
  <1>2. CASE ~NewGeneration(unread, key)
    <2> DEFINE k == IF unread /\ binding.key = NoKey THEN key ELSE binding.key
    <2>1. Scanned(unread, key) = [binding EXCEPT !.key = k, !.unread = unread]
      BY <1>2 DEF Scanned
    <2>2. k \in Nat
      BY DEF BindingType
    <2> HIDE DEF k
    <2> QED BY <1>2, <2>1, <2>2 DEF BindingType
  <1> QED BY <1>1, <1>2

(* A scan that raises a generation has seen no more than there is. *)
LEMMA ScanStep == ReadInv /\ Scan => ReadInv'
  <1> SUFFICES ASSUME ReadInv, NEW code \in BOOLEAN, NEW key \in {NoKey, client.len},
                      PostScan(code, key)
               PROVE  ReadInv'
    BY DEF Scan
  <1>0. /\ Len(chat) \in Nat /\ Len(reach) \in Nat /\ client.len \in 0 .. Len(chat)
        /\ client.badge \in BOOLEAN /\ key \in Nat
    BY Lengths DEF ReadInv, Types, RequestType, NoKey
  <1> DEFINE new == NewGeneration(client.badge, key)
             g   == IF new THEN Len(reach) + 1 ELSE Len(reach)
  <1>1. /\ reach' = IF new THEN Append(reach, client.len) ELSE reach
        /\ binding' = Rebound(Scanned(client.badge, key), code)
        /\ client' = [Idle EXCEPT !.at = "scanned"]
        /\ UNCHANGED <<chat, badge, shown, stored, turn, handoff, made, late, broken>>
    BY DEF PostScan
  <1>2. /\ reach' \in Seq(Nat) /\ Len(reach') = g
        /\ \A i \in 1 .. Len(reach) : reach'[i] = reach[i]
        /\ new => reach'[g] = client.len
    BY <1>0, <1>1, AppendProperties DEF ReadInv, Types
  <1>3. binding' \in BindingType(g) /\ binding'.consumed = binding.consumed
    <2>1. g \in Nat
      BY <1>0
    <2>2. /\ Scanned(client.badge, key) \in BindingType(g)
          /\ Scanned(client.badge, key).consumed = binding.consumed
      BY <1>0, ScannedIsTyped DEF ReadInv, Types
    <2> HIDE DEF g
    <2> QED BY <1>1, <2>1, <2>2, ReboundIsTyped
  <1>4. conv' \in ConvType /\ faults' \in 0 .. MaxFaults
    <2>1. conv' \in {conv, [conv EXCEPT !.status = "invite_sent"]}
      BY DEF PostScan
    <2>2. conv' \in ConvType
      BY <2>1 DEF ReadInv, Types, ConvType, Statuses
    <2>3. faults' = faults \/ (faults > 0 /\ faults' = faults - 1)
      BY DEF PostScan
    <2>4. faults' \in 0 .. MaxFaults
      BY <2>3, ConversationReadingAssumption
         DEF ReadInv, Types, ConversationReadingAssumption
    <2> QED BY <2>2, <2>4
  <1>5. client' \in RequestType(Places, Len(chat), g) /\ ~Waits(client'.at)
    <2>1. Idle \in RequestType(Places, Len(chat), g) /\ "scanned" \in Places
      BY <1>0, IdleIsTyped DEF Places
    <2> QED BY <1>1, <2>1 DEF RequestType, Waits
  <1>6. late \in SUBSET RequestType({"late"}, Len(chat), g)
    BY <1>0 DEF ReadInv, Types, RequestType
  <1>7. Types'
    <2> HIDE DEF new, g
    <2> QED BY <1>1, <1>2, <1>3, <1>4, <1>5, <1>6 DEF ReadInv, Types
  <1>8. Reached'
    BY <1>0, <1>1, <1>2 DEF ReadInv, Reached
  <1>9. Covered' /\ ConsumedIsStored' /\ HandoffSilencesAI'
    <2>1. ASSUME NEW r \in late PROVE Covers(r)'
      <3>1. r.gen \in 0 .. Len(reach) /\ Covers(r)
        BY DEF ReadInv, Types, RequestType, Covered
      <3> QED BY <1>0, <1>2, <3>1 DEF Covers
    <2>2. binding.consumed \in 0 .. Len(reach)
      BY DEF ReadInv, Types, BindingType
    <2>3. ConsumedIsStored'
      BY <1>0, <1>1, <1>2, <1>3, <2>2 DEF ReadInv, ConsumedIsStored
    <2> QED BY <1>1, <1>5, <2>1, <2>3 DEF ReadInv, Covered, HandoffSilencesAI
  <1> QED BY <1>7, <1>8, <1>9 DEF ReadInv

LEMMA OtherStep == ReadInv /\ OtherWorkerScans => ReadInv'
  <1> SUFFICES ASSUME ReadInv, OtherWorkerScans PROVE ReadInv'
    OBVIOUS
  <1>1. binding' \in BindingType(Len(reach)) /\ binding'.consumed = binding.consumed
    <2>1. Len(reach) \in Nat
      BY Lengths DEF ReadInv
    <2>2. /\ [binding EXCEPT !.unread = FALSE] \in BindingType(Len(reach))
          /\ [binding EXCEPT !.unread = FALSE].consumed = binding.consumed
      BY DEF ReadInv, Types, BindingType
    <2>3. binding' = Rebound([binding EXCEPT !.unread = FALSE], FALSE)
      BY DEF OtherWorkerScans
    <2> QED BY <2>1, <2>2, <2>3, ReboundIsTyped
  <1>2. faults' \in 0 .. MaxFaults
    BY ConversationReadingAssumption
       DEF OtherWorkerScans, ReadInv, Types, ConversationReadingAssumption
  <1> QED BY <1>1, <1>2, QuietStep
          DEF OtherWorkerScans, ReadInv, Types, Covered, HandoffSilencesAI

(* A right to read is lent for a generation there is. *)
LEMMA TargetsStep == ReadInv /\ ReadTargets => ReadInv'
  <1> SUFFICES ASSUME ReadInv, ReadTargets PROVE ReadInv'
    OBVIOUS
  <1>0. Len(chat) \in Nat /\ Len(reach) \in Nat
    BY Lengths DEF ReadInv
  <1>1. Idle \in RequestType(Places, Len(chat), Len(reach)) /\ ~Waits(Idle.at)
    BY <1>0, IdleIsTyped
  <1>2. CASE binding.bound
    <2> DEFINE c == Current
               b == Synced(binding, c.status)
               reason == ReadReason(b, c)
    <2>1. c \in ConvType
      BY CurrentIsTyped DEF ReadInv, Types
    <2>2. b \in BindingType(Len(reach)) /\ b.consumed = binding.consumed
      BY <1>0, <2>1, SyncedIsTyped DEF ReadInv, Types, ConvType
    <2>3. reason \in Reasons \cup {"none"}
      BY <2>1, ReasonIsTyped
    <2>4. /\ conv' = c /\ binding' = b
          /\ \/ client' = Idle
             \/ client' = [Idle EXCEPT !.at = "ticket", !.gen = b.gen,
                                       !.reason = reason, !.revision = b.revision]
      BY <1>2 DEF ReadTargets
    <2>5. /\ client' \in RequestType(Places, Len(chat), Len(reach))
          /\ ~Waits(client'.at)
      <3> HIDE DEF b, reason
      <3>1. b.gen \in 0 .. Len(reach) /\ b.revision \in Nat /\ "ticket" \in Places
        BY <1>0, <2>2 DEF BindingType, Places
      <3> QED BY <1>1, <2>3, <2>4, <3>1 DEF RequestType, Waits
    <2> HIDE DEF c, b, reason
    <2> QED BY <2>1, <2>2, <2>4, <2>5, QuietStep
            DEF ReadTargets, ReadInv, Types, HandoffSilencesAI
  <1>3. CASE ~binding.bound
    <2>1. client' = Idle /\ UNCHANGED <<conv, binding>>
      BY <1>3 DEF ReadTargets
    <2> QED BY <1>1, <2>1, QuietStep
            DEF ReadTargets, ReadInv, Types, HandoffSilencesAI
  <1> QED BY <1>2, <1>3

LEMMA AuthorizeStep == ReadInv /\ Authorize => ReadInv'
  <1> SUFFICES ASSUME ReadInv, Authorize PROVE ReadInv'
    OBVIOUS
  <1>0. Len(chat) \in Nat /\ Len(reach) \in Nat
    BY Lengths DEF ReadInv
  <1> DEFINE c == Current
             b == Synced(binding, c.status)
  <1>1. c \in ConvType
    BY CurrentIsTyped DEF ReadInv, Types
  <1>2. b \in BindingType(Len(reach)) /\ b.consumed = binding.consumed
    BY <1>0, <1>1, SyncedIsTyped DEF ReadInv, Types, ConvType
  <1>3. /\ binding' = b
        /\ conv' \in {c, [c EXCEPT !.status = "activating"]}
        /\ client' \in {Idle, [client EXCEPT !.at = "reading"]}
    BY DEF Authorize
  <1>4. conv' \in ConvType
    BY <1>1, <1>3 DEF ConvType, Statuses
  <1>5. client' \in RequestType(Places, Len(chat), Len(reach)) /\ ~Waits(client'.at)
    BY <1>0, <1>3, IdleIsTyped DEF ReadInv, Types, RequestType, Places, Waits
  <1>6. badge' \in BOOLEAN
    BY Zenon DEF Authorize
  <1> HIDE DEF c, b
  <1> QED BY <1>2, <1>3, <1>4, <1>5, <1>6, QuietStep
          DEF Authorize, ReadInv, Types, HandoffSilencesAI

LEMMA PreSendStep == ReadInv /\ PreSend => ReadInv'
  <1> SUFFICES ASSUME ReadInv, PreSend PROVE ReadInv'
    OBVIOUS
  <1>1. client' \in RequestType(Places, Len(chat), Len(reach)) /\ ~Waits(client'.at)
    BY DEF PreSend, ReadInv, Types, RequestType, TurnType, Places, Waits
  <1>2. badge' \in BOOLEAN
    BY Zenon DEF PreSend
  <1> QED BY <1>1, <1>2, QuietStep DEF PreSend, ReadInv, Types, HandoffSilencesAI

(* A name is free for a read: at most one late request bears another. *)
LEMMA RunIsFree ==
  ASSUME Types
  PROVE  \E run \in Runs \ {0} : run \notin {r.run : r \in late}
  <1>1. CASE late = {}
    BY <1>1 DEF Runs
  <1>2. CASE late # {}
    <2>1. PICK q \in late : late = {q}
      BY <1>2 DEF Types
    <2>2. {r.run : r \in late} = {q.run}
      BY <2>1
    <2>3. 1 \in Runs \ {0} /\ 2 \in Runs \ {0}
      BY DEF Runs
    <2> QED BY <2>2, <2>3
  <1> QED BY <1>1, <1>2

(* What is read now covers all that any scan has seen. *)
LEMMA ReadChatStep == ReadInv /\ ReadChat => ReadInv'
  <1> SUFFICES ASSUME ReadInv, ReadChat PROVE ReadInv'
    OBVIOUS
  <1>0. Len(chat) \in Nat /\ Len(reach) \in Nat /\ FreshRun \in Runs
    BY Lengths, RunIsFree DEF ReadInv, FreshRun
  <1> DEFINE run == FreshRun
  <1>1. /\ client' = [client EXCEPT !.at = "outbox", !.len = Len(chat), !.run = run]
        /\ binding' = [binding EXCEPT !.run = IF @ = run THEN 0 ELSE @]
    BY DEF ReadChat
  <1> HIDE DEF run
  <1>2. run \in Runs
    BY <1>0 DEF run
  <1>3. /\ client' \in RequestType(Places, Len(chat), Len(reach))
        /\ client'.len = Len(chat) /\ client'.gen \in 0 .. Len(reach)
    <2>1. "outbox" \in Places /\ Len(chat) \in 0 .. Len(chat)
      BY <1>0 DEF Places
    <2> QED BY <1>1, <1>2, <2>1 DEF ReadInv, Types, RequestType
  <1>4. binding' \in BindingType(Len(reach)) /\ binding'.consumed = binding.consumed
    <2>1. binding' = binding \/ binding' = [binding EXCEPT !.run = 0]
      BY <1>1 DEF ReadInv, Types, BindingType
    <2> QED BY <2>1 DEF ReadInv, Types, BindingType, Runs
  <1>5. Covers(client')
    BY <1>0, <1>3 DEF ReadInv, Reached, Covers
  <1> QED BY <1>3, <1>4, <1>5, QuietStep
          DEF ReadChat, ReadInv, Types, HandoffSilencesAI

(* The server takes a request that covers its generation: the one in the *)
(* outbox, or the late one.                                              *)
LEMMA TakenStep ==
  ASSUME ReadInv,
         NEW at, NEW r \in RequestType(at, Len(chat), Len(reach)), Covers(r),
         Ingest(r), UNCHANGED <<chat, badge, shown, reach, broken>>,
         client' \in RequestType(Places, Len(chat), Len(reach)),
         Waits(client'.at) => Covers(client'),
         late' \in {late, {}}, faults' \in 0 .. MaxFaults
  PROVE  ReadInv'
  <1>1. Types /\ HandoffSilencesAI
    BY DEF ReadInv
  <1>2. /\ stored' \in 0 .. Len(chat) /\ stored' >= stored /\ stored' >= r.len
        /\ binding' \in BindingType(Len(reach))
        /\ binding'.consumed \in {binding.consumed, r.gen}
        /\ conv' \in ConvType /\ turn' \in TurnType /\ handoff' \in HandoffType
        /\ made' \in SUBSET Nat /\ IsFiniteSet(made')
        /\ handoff'.open => turn'.kind = "none"
    BY <1>1, IngestKeeps
  <1>3. Types'
    BY <1>2 DEF ReadInv, Types
  <1>4. Reached' /\ Covered' /\ HandoffSilencesAI'
    BY <1>2 DEF ReadInv, Reached, Covered, Covers, HandoffSilencesAI
  <1>5. ConsumedIsStored'
    <2>1. ASSUME NEW g \in 1 .. binding'.consumed PROVE stored' >= reach[g]
      <3>1. /\ stored \in Nat /\ stored' \in Nat /\ r.len \in Nat
            /\ binding.consumed \in 0 .. Len(reach) /\ r.gen \in 0 .. Len(reach)
            /\ Len(reach) \in Nat /\ Len(chat) \in Nat
        <4>1. Len(reach) \in Nat /\ Len(chat) \in Nat
          BY <1>1, Lengths
        <4>2. stored \in Nat /\ binding.consumed \in 0 .. Len(reach)
          BY <1>1, <4>1 DEF Types, BindingType
        <4>3. r.len \in Nat /\ r.gen \in 0 .. Len(reach)
          BY <4>1 DEF RequestType
        <4> QED BY <1>2, <4>1, <4>2, <4>3
      <3>2. reach[g] \in Nat
        <4>1. g \in 1 .. Len(reach)
          BY <1>2, <3>1
        <4> QED BY <1>1, <4>1, ElementOfSeq DEF Types
      <3>3. CASE binding'.consumed = binding.consumed
        BY <1>2, <3>1, <3>2, <3>3 DEF ReadInv, ConsumedIsStored
      <3>4. CASE binding'.consumed = r.gen
        BY <1>2, <3>1, <3>2, <3>4 DEF Covers
      <3> QED BY <1>2, <3>3, <3>4
    <2> QED BY <2>1 DEF ConsumedIsStored
  <1> QED BY <1>3, <1>4, <1>5 DEF ReadInv

LEMMA DeliverStep == ReadInv /\ (Deliver \/ AnswerLost) => ReadInv'
  <1> SUFFICES ASSUME ReadInv, Deliver \/ AnswerLost PROVE ReadInv'
    OBVIOUS
  <1>0. Len(chat) \in Nat /\ Len(reach) \in Nat
    BY Lengths DEF ReadInv
  <1>1. /\ client \in RequestType(Places, Len(chat), Len(reach))
        /\ client.len \in 0 .. Len(chat) /\ Covers(client) /\ Ingest(client)
    BY DEF Deliver, AnswerLost, ReadInv, Types, RequestType, Covered
  <1>2. /\ client' \in RequestType(Places, Len(chat), Len(reach))
        /\ Waits(client'.at) => Covers(client')
    <2>1. CASE Deliver
      <3>1. client' \in {Idle, [Idle EXCEPT !.at = "waiting"], Sending(client.len)}
        BY <2>1 DEF Deliver
      <3>2. /\ [Idle EXCEPT !.at = "waiting"] \in RequestType(Places, Len(chat), Len(reach))
            /\ ~Waits([Idle EXCEPT !.at = "waiting"].at)
        BY <1>0, IdleIsTyped DEF RequestType, Places, Waits
      <3> QED BY <1>0, <1>1, <3>1, <3>2, IdleIsTyped
    <2>2. CASE AnswerLost
      <3>1. client' = [client EXCEPT !.at = "retry"]
        BY <2>2 DEF AnswerLost
      <3> QED BY <1>1, <3>1 DEF RequestType, Places, Covers
    <2> QED BY <2>1, <2>2
  <1>3. faults' \in 0 .. MaxFaults
    BY ConversationReadingAssumption
       DEF Deliver, AnswerLost, ReadInv, Types, ConversationReadingAssumption
  <1>4. UNCHANGED <<chat, badge, shown, late, reach, broken>>
    BY DEF Deliver, AnswerLost
  <1> QED BY <1>1, <1>2, <1>3, <1>4, TakenStep

(* The late request is the one in the outbox, and covers what it covers. *)
LEMMA RequestLateStep == ReadInv /\ RequestLate => ReadInv'
  <1> SUFFICES ASSUME ReadInv, RequestLate PROVE ReadInv'
    OBVIOUS
  <1> DEFINE retried == [client EXCEPT !.at = "retry"]
             delayed == [client EXCEPT !.at = "late"]
  <1>1. /\ client' = retried /\ late' = {delayed}
        /\ UNCHANGED <<chat, badge, shown, stored, binding, conv, turn, handoff, made,
                       reach, broken>>
    BY DEF RequestLate
  <1>2. Covers(client)
    BY DEF RequestLate, ReadInv, Covered
  <1>3. /\ retried \in RequestType(Places, Len(chat), Len(reach))
        /\ delayed \in RequestType({"late"}, Len(chat), Len(reach))
    BY DEF ReadInv, Types, RequestType, Places
  <1>4. Covers(retried) /\ Covers(delayed)
    BY <1>2 DEF ReadInv, Types, RequestType, Covers
  <1>5. faults' \in 0 .. MaxFaults
    BY ConversationReadingAssumption
       DEF RequestLate, ReadInv, Types, ConversationReadingAssumption
  <1> HIDE DEF retried, delayed
  <1>6. Types'
    BY <1>1, <1>3, <1>5 DEF ReadInv, Types
  <1>7. Covered'
    BY <1>1, <1>4 DEF Covered, Covers
  <1>8. Reached' /\ ConsumedIsStored' /\ HandoffSilencesAI'
    BY <1>1 DEF ReadInv, Reached, ConsumedIsStored, HandoffSilencesAI
  <1> QED BY <1>6, <1>7, <1>8 DEF ReadInv

LEMMA LateIngestStep == ReadInv /\ LateIngest => ReadInv'
  <1> SUFFICES ASSUME ReadInv, LateIngest PROVE ReadInv'
    OBVIOUS
  <1>1. PICK r \in late : /\ Ingest(r) /\ late' = {}
                          /\ UNCHANGED <<chat, badge, shown, client, faults, reach, broken>>
    BY DEF LateIngest
  <1>2. r \in RequestType({"late"}, Len(chat), Len(reach)) /\ Covers(r)
    BY DEF ReadInv, Types, Covered
  <1>3. /\ client' \in RequestType(Places, Len(chat), Len(reach))
        /\ Waits(client'.at) => Covers(client')
        /\ faults' \in 0 .. MaxFaults
    BY <1>1 DEF ReadInv, Types, Covered, Covers
  <1> QED BY <1>1, <1>2, <1>3, TakenStep

(* The turn is answered, dropped or handed over, and is the AI's no more. *)
LEMMA AnswerStep == ReadInv /\ Answer => ReadInv'
  <1> SUFFICES ASSUME ReadInv, Answer PROVE ReadInv'
    OBVIOUS
  <1>0. Len(chat) \in Nat /\ Len(reach) \in Nat
    BY Lengths DEF ReadInv
  <1>1. NoTurn \in TurnType /\ NoTurn.kind = "none"
    BY DEF NoTurn, TurnType
  <1>2. CASE SendReply
    <2>1. conv' \in ConvType
      <3>1. conv \in ConvType /\ conv.recalls + 1 \in Nat /\ TRUE \in BOOLEAN
        BY DEF ReadInv, Types, ConvType
      <3>2. CASE turn.kind = "recall"
        <4>1. conv' = [conv EXCEPT !.status = "recalled", !.origin = "none",
                                   !.cycle = NoCycle, !.recalls = @ + 1,
                                   !.recall = "later", !.replied = TRUE]
          BY <1>2, <3>2 DEF SendReply
        <4> QED BY <3>1, <4>1 DEF ConvType, Statuses, Waiting, NoCycle
      <3>3. CASE turn.kind # "recall"
        <4>1. conv' = [conv EXCEPT !.status = "waiting_user", !.recall = "later",
                                   !.replied = TRUE]
          BY <1>2, <3>3 DEF SendReply
        <4> QED BY <3>1, <4>1 DEF ConvType, Statuses, Waiting
      <3> QED BY <3>2, <3>3
    <2>2. badge' \in BOOLEAN
      BY Zenon, <1>2 DEF SendReply, ReadInv, Types
    <2> QED BY <1>1, <1>2, <2>1, <2>2, WrittenStep DEF SendReply, Writers
  <1>3. CASE NoAction
    <2> DEFINE status == IF turn.origin \in Waiting \cup {"waiting_sales"}
                         THEN turn.origin
                         ELSE IF turn.reason = "precheck" THEN "sales_replied"
                         ELSE "waiting_user"
               c == [conv EXCEPT !.status = status]
    <2>1. status \in Statuses
      BY DEF Statuses, Waiting
    <2>2. conv' \in {c, [c EXCEPT !.origin = "none", !.cycle = NoCycle,
                                  !.recall = "later"]}
      BY <1>3 DEF NoAction
    <2>3. conv' \in ConvType
      <3> HIDE DEF status
      <3>1. c \in ConvType
        BY <2>1 DEF ReadInv, Types, ConvType
      <3> DEFINE d == [c EXCEPT !.origin = "none", !.cycle = NoCycle,
                               !.recall = "later"]
      <3> HIDE DEF c
      <3>2. d \in ConvType
        BY <3>1 DEF ConvType, NoCycle
      <3> HIDE DEF d
      <3>3. conv' = c \/ conv' = d
        BY <2>2 DEF d
      <3> QED BY <3>1, <3>2, <3>3
    <2> QED BY <1>1, <1>3, <2>3, QuietStep
            DEF NoAction, ReadInv, Types, Covered, HandoffSilencesAI
  <1>4. CASE HandOff
    <2>1. conv' \in ConvType
      BY <1>4 DEF HandOff, ReadInv, Types, ConvType, Statuses, NoCycle
    <2>2. handoff' \in HandoffType
      <3>1. (IF turn.kind = "customer" THEN turn.upto ELSE Len(chat)) \in Nat
        BY <1>0 DEF ReadInv, Types, TurnType
      <3> QED BY <1>4, <3>1 DEF HandOff, HandoffType
    <2> QED BY <1>1, <1>4, <2>1, <2>2, QuietStep
            DEF HandOff, ReadInv, Types, Covered
  <1> QED BY <1>2, <1>3, <1>4 DEF Answer

LEMMA NextKeeps == ReadInv /\ [Next]_vars => ReadInv'
  <1>1. ASSUME ReadInv, UNCHANGED vars PROVE ReadInv'
    BY <1>1 DEF vars, ReadInv, Types, Reached, Covered, Covers, ConsumedIsStored,
                HandoffSilencesAI
  <1> QED BY <1>1, PeopleStep, TimeStep, ScreenStep, ScanStep, OtherStep,
             TargetsStep, AuthorizeStep, PreSendStep, ReadChatStep, DeliverStep,
             RequestLateStep, LateIngestStep, AnswerStep
          DEF Next, Network

-----------------------------------------------------------------------------
THEOREM ReadInvariance == Spec => []ReadInv
  BY InitInv, NextKeeps, PTL DEF Spec

(* Every variable has its type, and the database never has a message the chat *)
(* does not: the reads of one client, those that arrive late and the bindings *)
(* of other workers keep it so, however many they are.                        *)
THEOREM TypeCorrect == Spec => []TypeOK
  <1>1. ReadInv => TypeOK
    BY DEF ReadInv, Types, TypeOK, BindingType, ConvType, TurnType, HandoffType,
           RequestType, Places
  <1> QED BY <1>1, ReadInvariance, PTL

(* Whatever answer is lost and whatever read arrives late, a generation the  *)
(* server counts as consumed has everything stored that the scan which       *)
(* raised it could see.                                                      *)
THEOREM ConsumedIsCovered == Spec => []ConsumedIsStored
  <1>1. ReadInv => ConsumedIsStored
    BY DEF ReadInv
  <1> QED BY <1>1, ReadInvariance, PTL

(* No read, no recall and no new binding gives the AI a turn in a            *)
(* conversation that has been handed over and not been taken back.           *)
THEOREM HandoffSilences == Spec => []HandoffSilencesAI
  <1>1. ReadInv => HandoffSilencesAI
    BY DEF ReadInv
  <1> QED BY <1>1, ReadInvariance, PTL

-----------------------------------------------------------------------------
(* The turn of a customer is about something unanswered *)

NoneAfter(n) == \A j \in (n + 1) .. Len(chat) : chat[j] # "ai"

Fresh == {"ai_active", "invite_sent", "activating"}

(* A read that has not been taken, and that may still move the conversation. *)
Pending ==
    client.at \in {"reading", "outbox"} \/ (client.at = "retry" /\ client.len > stored)

Stands(r) ==
    \/ ReadReason(binding, conv) = r.reason
    \/ /\ r.goes /\ turn.revision = binding.revision /\ turn.reason = r.reason
       /\ conv.status = "ai_active"

(* While the turn of a customer is active, the last message stored is the    *)
(* customer's, the AI wrote none that is not stored, and the next read that  *)
(* is taken moves the conversation, so that it finds what the sales wrote.   *)
Asks ==
    turn.kind = "customer" =>
        /\ stored > 0 /\ chat[stored] = "customer" /\ NoneAfter(stored)
        /\ conv.status \in Fresh
        /\ Pending /\ Accepts(client) => Stands(client)

(* A late request brings nothing unless its row is still in the outbox. *)
Carried ==
    /\ Waits(client.at) => NoneAfter(client.len)
    /\ \A r \in late :
           r.len > stored \/ (Waits(client.at) /\ client.run = r.run)
               => client.at = "retry" /\ r = [client EXCEPT !.at = "late"]

AnswerInv == Asks /\ Carried

LEMMA CurrentIsConv ==
  ASSUME ReadInv, Asks, turn.kind = "customer"
  PROVE  ~handoff.open /\ Current = conv
  <1>1. ~handoff.open
    BY DEF ReadInv, HandoffSilencesAI
  <1>2. conv.status \in Fresh
    BY DEF Asks
  <1> QED BY <1>1, <1>2 DEF Current, Gated, HandoffOpen, Prepared, Waiting, Fresh

LEMMA SyncedKeeps ==
  ASSUME NEW g \in Nat, NEW b \in BindingType(g), NEW s \in Statuses
  PROVE  /\ Synced(b, s).unread = b.unread /\ Synced(b, s).revision = b.revision
         /\ Synced(b, s).bound = b.bound
  BY DEF Synced, BindingType

LEMMA SameReason ==
  ASSUME NEW a, NEW b, a.unread = b.unread, NEW c
  PROVE  ReadReason(a, c) = ReadReason(b, c)
  BY DEF ReadReason

LEMMA StandingApplies ==
  ASSUME ReadInv, Asks, turn.kind = "customer", NEW r, Stands(r)
  PROVE  Applies(r, Synced(binding, conv.status), conv)
  <1> DEFINE b == Synced(binding, conv.status)
  <1>1. b.unread = binding.unread /\ b.revision = binding.revision
    BY Lengths, SyncedKeeps DEF ReadInv, Types, ConvType
  <1>2. ReadReason(b, conv) = ReadReason(binding, conv)
    BY <1>1, SameReason
  <1> HIDE DEF b
  <1>3. Applies(r, b, conv)
    BY <1>1, <1>2 DEF Applies, Stands
  <1> QED BY <1>3 DEF b

(* What a read that brings something finds. *)
LEMMA NewsOf ==
  ASSUME ReadInv, NEW at, NEW r \in RequestType(at, Len(chat), Len(reach)),
         r.len > stored
  PROVE  /\ Unanswered(r) # {} => chat[r.len] = "customer"
         /\ NoneAfter(stored) /\ FromSales(r) = {} => Unanswered(r) # {}
  <1>0. /\ Len(chat) \in Nat /\ stored \in 0 .. Len(chat) /\ r.len \in 0 .. Len(chat)
        /\ chat \in Seq(Writers)
    BY Lengths DEF ReadInv, Types, RequestType
  <1>1. r.len \in New(r) /\ New(r) \subseteq DOMAIN chat
    BY <1>0 DEF New
  <1>2. \A i \in New(r) : chat[i] \in Writers
    BY <1>0, <1>1, ElementOfSeq
  <1>3. ASSUME Unanswered(r) # {} PROVE chat[r.len] = "customer"
    <2>1. PICK i \in Unanswered(r) : TRUE
      BY <1>3
    <2>2. i \in New(r) /\ \A j \in Own \cap New(r) : j < i
      BY <2>1 DEF Unanswered, FromCustomer
    <2>3. r.len \notin Own
      BY <1>0, <1>1, <2>2 DEF New
    <2> QED BY <1>1, <2>3 DEF Own
  <1>4. ASSUME NoneAfter(stored), FromSales(r) = {} PROVE Unanswered(r) # {}
    <2>1. \A i \in New(r) : chat[i] = "customer"
      <3>1. \A i \in New(r) : i \in (stored + 1) .. Len(chat)
        BY <1>0 DEF New
      <3> QED BY <1>2, <1>4, <3>1 DEF NoneAfter, FromSales, Writers
    <2>2. r.len \in FromCustomer(r) /\ Own \cap New(r) = {}
      BY <1>1, <2>1 DEF FromCustomer, Own
    <2>3. r.len \in Unanswered(r)
      BY <2>2 DEF Unanswered
    <2> QED BY <2>3
  <1> QED BY <1>3, <1>4

(* The last message decides where the conversation moves. *)
LEMMA MovedToActive ==
  ASSUME ReadInv, NEW at, NEW r \in RequestType(at, Len(chat), Len(reach)),
         r.len > stored, chat[r.len] = "customer", ~StillOpen(r), NEW c \in ConvType
  PROVE  Moved(r, c).status = "ai_active"
  <1> DEFINE people == FromCustomer(r) \cup FromSales(r)
             top    == CHOOSE i \in people : \A j \in people : j <= i
  <1>0. Len(chat) \in Nat /\ stored \in 0 .. Len(chat) /\ r.len \in 0 .. Len(chat)
    BY Lengths DEF ReadInv, Types, RequestType
  <1>1. r.len \in people /\ people \subseteq New(r)
    BY <1>0 DEF New, FromCustomer, FromSales
  <1>2. \A j \in people : j \in Int /\ j <= r.len
    BY <1>0, <1>1 DEF New
  <1>3. top \in people /\ \A j \in people : j <= top
    <2>1. \E i \in people : \A j \in people : j <= i
      BY <1>1, <1>2
    <2> QED BY <2>1
  <1>4. top = r.len
    <2>1. top \in Int /\ top <= r.len /\ r.len <= top /\ r.len \in Int
      BY <1>0, <1>1, <1>2, <1>3
    <2> QED BY <2>1
  <1>5. chat[top] = "customer" /\ people # {}
    BY <1>1, <1>4
  <1>6. /\ Moved(r, c).status = IF StillOpen(r) THEN "waiting_sales"
                                ELSE IF chat[top] = "customer" THEN "ai_active"
                                ELSE "sales_replied"
    <2> HIDE DEF top
    <2> DEFINE recall == IF ~StillOpen(r) /\ chat[top] = "sales" THEN "later"
                         ELSE IF FromCustomer(r) # {} THEN "unset" ELSE c.recall
               cycle  == IF FromCustomer(r) # {} THEN NoCycle ELSE c.cycle
               origin == IF FromCustomer(r) # {} \/ ~StillOpen(r)
                         THEN "none" ELSE c.origin
               status == IF StillOpen(r) THEN "waiting_sales"
                         ELSE IF chat[top] = "customer" THEN "ai_active"
                         ELSE "sales_replied"
    <2>1. Moved(r, c) = [c EXCEPT !.status = status, !.recall = recall,
                                  !.cycle = cycle, !.origin = origin]
      BY <1>5 DEF Moved, top
    <2> HIDE DEF people, recall, cycle, origin, status
    <2>2. Moved(r, c).status = status
      BY <2>1 DEF ConvType
    <2> QED BY <2>2 DEF status
  <1> HIDE DEF people, top
  <1> QED BY <1>5, <1>6

LEMMA NoNews ==
  ASSUME ReadInv, NEW at, NEW r \in RequestType(at, Len(chat), Len(reach)),
         ~(r.len > stored), NEW c
  PROVE  Unanswered(r) = {} /\ FromSales(r) = {} /\ Moved(r, c) = c
  <1>1. New(r) = {}
    BY Lengths DEF ReadInv, Types, RequestType, New
  <1>2. FromCustomer(r) = {} /\ FromSales(r) = {}
    BY <1>1 DEF FromCustomer, FromSales
  <1> QED BY <1>2 DEF Unanswered, Moved

(* A read that brings something, has nothing of the AI after it and may move *)
(* the conversation if it has an active turn, leaves a turn that asks.       *)
LEMMA IngestAsks ==
  ASSUME ReadInv, Asks,
         NEW at, NEW r \in RequestType(at, Len(chat), Len(reach)), Ingest(r),
         r.len > stored => NoneAfter(r.len),
         r.len > stored /\ turn.kind = "customer" => Stands(r),
         turn'.kind = "customer"
  PROVE  /\ stored' > 0 /\ chat[stored'] = "customer" /\ NoneAfter(stored')
         /\ conv'.status \in Fresh
  <1> DEFINE c     == Current
             b     == Synced(binding, c.status)
             moved == Moved(r, c)
             final == Released(r, moved)
  <1>0. /\ Len(chat) \in Nat /\ stored \in 0 .. Len(chat) /\ r.len \in 0 .. Len(chat)
        /\ c \in ConvType /\ moved \in ConvType
    BY Lengths, CurrentIsTyped, MovedIsTyped DEF ReadInv, Types, RequestType
  <1>1. stored' = IF r.len > stored THEN r.len ELSE stored
    BY DEF Ingest
  <1>2. Control(r, moved) = {} \/ (\E kind \in {"welcome", "recall"} :
            TurnOf(IF Welcome \in Control(r, moved) THEN "welcome" ELSE "recall",
                   r.len, r).kind = kind)
    BY DEF TurnOf
  <1>3. CASE Applies(r, b, c)
    <2>1. turn' = NextTurn(r, moved) /\ conv' = final
      BY <1>3 DEF Ingest
    <2>2. \/ Unanswered(r) # {} /\ ~StillOpen(r)
          \/ /\ turn' = turn
             /\ ~(Unanswered(r) # {} /\ ~StillOpen(r))
             /\ ~(FromSales(r) # {} /\ ~StillOpen(r))
      <3> HIDE DEF moved
      <3> QED BY <1>2, <2>1 DEF NextTurn, NoTurn
    <2>3. CASE Unanswered(r) # {} /\ ~StillOpen(r)
      <3>1. r.len > stored
        BY <2>3, NoNews
      <3>2. chat[r.len] = "customer"
        BY <2>3, <3>1, NewsOf
      <3>3. moved.status = "ai_active"
        BY <1>0, <2>3, <3>1, <3>2, MovedToActive
      <3>4. final.status = "ai_active"
        <4> HIDE DEF moved
        <4> QED BY <1>0, <3>3 DEF Released, Welcomes, Recalls
      <3> QED BY <1>0, <1>1, <2>1, <3>1, <3>2, <3>4 DEF Fresh
    <2>4. CASE /\ turn' = turn
               /\ ~(Unanswered(r) # {} /\ ~StillOpen(r))
               /\ ~(FromSales(r) # {} /\ ~StillOpen(r))
      <3>1. ~handoff.open /\ c = conv /\ turn.kind = "customer"
        BY <2>4, CurrentIsConv
      <3>2. Unanswered(r) = {} /\ FromSales(r) = {}
        BY <2>4, <3>1 DEF StillOpen
      <3>3. ~(r.len > stored)
        BY <3>1, <3>2, NewsOf DEF Asks
      <3>4. moved = c
        BY <3>3, NoNews
      <3>5. final.status \in {conv.status, "ai_active"}
        <4> HIDE DEF moved
        <4>1. moved = conv /\ conv \in ConvType
          BY <1>0, <3>1, <3>4
        <4> QED BY <4>1 DEF Released, ConvType
      <3> QED BY <1>1, <2>1, <3>1, <3>3, <3>5 DEF Asks, Fresh
    <2> QED BY <2>2, <2>3, <2>4
  <1>4. CASE ~Applies(r, b, c)
    <2>1. turn' = turn /\ conv' = c
      BY <1>4 DEF Ingest
    <2>2. c = conv /\ turn.kind = "customer"
      BY <2>1, CurrentIsConv
    <2>3. ~(r.len > stored)
      BY <1>4, <2>2, StandingApplies
    <2> QED BY <1>1, <2>1, <2>2, <2>3 DEF Asks
  <1> QED BY <1>3, <1>4

(* Neither the chat nor what is stored changes, and no row is in the outbox, *)
(* before or after.                                                          *)
LEMMA ClientMoves ==
  ASSUME AnswerInv, UNCHANGED <<chat, stored, turn, late>>,
         ~Waits(client.at), ~Waits(client'.at),
         turn.kind = "customer" => /\ conv'.status \in Fresh
                                   /\ (Pending /\ Accepts(client))' => Stands(client)'
  PROVE  AnswerInv'
  <1>1. Asks'
    BY DEF AnswerInv, Asks, NoneAfter
  <1>2. Carried'
    BY DEF AnswerInv, Carried, Waits
  <1> QED BY <1>1, <1>2 DEF AnswerInv

LEMMA AnswerInit == Init => AnswerInv
  BY DEF Init, AnswerInv, Asks, Carried, NoTurn, Idle, Waits

LEMMA PeopleAsk == ReadInv /\ AnswerInv /\ People => AnswerInv'
  <1> SUFFICES ASSUME ReadInv, AnswerInv, People PROVE AnswerInv'
    OBVIOUS
  <1>1. PICK w \in {"customer", "sales"} : chat' = Append(chat, w)
    BY DEF People, CustomerWrites, SalesWrites
  <1>2. UNCHANGED <<stored, binding, conv, turn, client, late>>
    BY DEF People, CustomerWrites, SalesWrites
  <1>3. /\ Len(chat) \in Nat /\ stored \in 0 .. Len(chat)
        /\ client.len \in 0 .. Len(chat)
        /\ Len(chat') = Len(chat) + 1 /\ chat'[Len(chat) + 1] = w
        /\ \A i \in 1 .. Len(chat) : chat'[i] = chat[i]
    BY <1>1, Lengths, AppendProperties DEF ReadInv, Types, RequestType, Writers
  <1>4. ASSUME NEW n \in 0 .. Len(chat), NoneAfter(n) PROVE NoneAfter(n)'
    <2>1. ASSUME NEW j \in (n + 1) .. Len(chat') PROVE chat'[j] # "ai"
      <3>1. CASE j = Len(chat) + 1
        BY <1>3, <3>1
      <3>2. CASE j \in (n + 1) .. Len(chat)
        BY <1>3, <1>4, <3>2 DEF NoneAfter
      <3> QED BY <1>3, <3>1, <3>2
    <2> QED BY <2>1 DEF NoneAfter
  <1>5. NoneAfter(stored) => NoneAfter(stored)'
    BY <1>2, <1>3, <1>4
  <1>6. NoneAfter(client.len) => NoneAfter(client.len)'
    BY <1>2, <1>3, <1>4
  <1>7. Asks'
    <2>1. Stands(client) /\ turn.kind = "customer" => Stands(client)'
      BY <1>2 DEF Stands, ReadReason
    <2>2. Pending' = Pending /\ Accepts(client)' = Accepts(client)
      BY <1>2 DEF Pending, Accepts
    <2>3. stored > 0 => chat'[stored] = chat[stored]
      BY <1>3
    <2> QED BY <1>2, <1>5, <2>1, <2>2, <2>3 DEF AnswerInv, Asks
  <1>8. Carried'
    BY <1>2, <1>6 DEF AnswerInv, Carried
  <1> QED BY <1>7, <1>8 DEF AnswerInv

LEMMA TimeAsk == ReadInv /\ AnswerInv /\ Time => AnswerInv'
  <1> SUFFICES ASSUME ReadInv, AnswerInv, Time PROVE AnswerInv'
    OBVIOUS
  <1>1. /\ UNCHANGED <<chat, stored, turn, client, late>>
        /\ binding'.unread = binding.unread /\ binding'.bound = binding.bound
        /\ binding'.revision = binding.revision
        /\ conv'.status = conv.status /\ conv'.replied = conv.replied
    BY DEF Time, ReadFallsDue, RecallFallsDue, ReadInv, Types, BindingType, ConvType
  <1>2. ReadReason(binding, conv)' = ReadReason(binding, conv)
    BY <1>1 DEF ReadReason
  <1>3. Stands(client)' = Stands(client) /\ Pending' = Pending
    BY <1>1, <1>2 DEF Stands, Pending
  <1>4. Accepts(client)' = Accepts(client)
    BY <1>1 DEF Accepts
  <1>5. Asks'
    BY <1>1, <1>3, <1>4 DEF AnswerInv, Asks, NoneAfter
  <1>6. Carried'
    BY <1>1 DEF AnswerInv, Carried, NoneAfter
  <1> QED BY <1>5, <1>6 DEF AnswerInv

LEMMA RoundAsks ==
  ASSUME ReadInv, AnswerInv,
         SeeScreen \/ ReadAgain \/ ReadFails \/ WaitEnds \/ Scan \/ ReadTargets
  PROVE  AnswerInv'
  <1>1. /\ UNCHANGED <<chat, stored, turn, late>> /\ ~Waits(client.at)
        /\ client'.at \in {"idle", "seen", "scanned", "ticket", "sending"}
    <2>1. CASE SeeScreen \/ ReadAgain
      <3>1. client'.at \in {"seen", "sending"}
        BY <2>1 DEF SeeScreen, ReadAgain, Sending, Idle
      <3> QED BY <2>1, <3>1 DEF SeeScreen, ReadAgain, Waits
    <2>2. CASE ReadFails \/ WaitEnds \/ Scan
      <3>1. client'.at \in {"idle", "scanned"}
        BY <2>2 DEF ReadFails, WaitEnds, Scan, PostScan, Idle
      <3> QED BY <2>2, <3>1 DEF ReadFails, WaitEnds, Scan, PostScan, Waits
    <2>3. CASE ReadTargets
      <3>1. client' = Idle \/ client'.at = "ticket"
        BY <2>3 DEF ReadTargets, Idle
      <3>2. client.at = "scanned" /\ UNCHANGED <<chat, stored, turn, late>>
        BY <2>3 DEF ReadTargets
      <3> QED BY <3>1, <3>2 DEF Idle, Waits
    <2> QED BY <2>1, <2>2, <2>3
  <1>2. turn.kind = "customer" => conv'.status \in Fresh
    <2>1. SUFFICES ASSUME turn.kind = "customer" PROVE conv'.status \in Fresh
      OBVIOUS
    <2>2. Current = conv /\ conv.status \in Fresh
      BY <2>1, CurrentIsConv DEF AnswerInv, Asks
    <2>3. conv' \in {conv, [conv EXCEPT !.status = "invite_sent"]}
      BY <2>2 DEF SeeScreen, ReadAgain, ReadFails, WaitEnds, Scan, PostScan,
                  ReadTargets
    <2>4. conv \in ConvType
      BY DEF ReadInv, Types
    <2> QED BY <2>2, <2>3, <2>4 DEF ConvType, Fresh
  <1>3. ~Waits(client'.at) /\ ~Pending'
    BY <1>1 DEF Waits, Pending
  <1> QED BY <1>1, <1>2, <1>3, ClientMoves

(* The right to read is lent for the reason that stands then. *)
LEMMA AuthorizeAsks == ReadInv /\ AnswerInv /\ Authorize => AnswerInv'
  <1> SUFFICES ASSUME ReadInv, AnswerInv, Authorize PROVE AnswerInv'
    OBVIOUS
  <1> DEFINE c == Current
             b == Synced(binding, c.status)
  <1>1. /\ UNCHANGED <<chat, stored, turn, late>> /\ client.at = "ticket"
        /\ binding' = b /\ client' \in {Idle, [client EXCEPT !.at = "reading"]}
        /\ \/ client' = Idle /\ conv' = c
           \/ /\ ReadReason(b, c) = client.reason
              /\ conv' = IF client.reason = "acceptance"
                         THEN [c EXCEPT !.status = "activating"] ELSE c
    BY DEF Authorize
  <1>2. /\ client \in RequestType(Places, Len(chat), Len(reach)) /\ conv \in ConvType
    BY DEF ReadInv, Types
  <1>3. client'.at \in {"idle", "reading"}
    BY <1>1, <1>2 DEF Idle, RequestType
  <1>4. ASSUME turn.kind = "customer"
        PROVE  /\ conv'.status \in Fresh
               /\ client'.at = "reading" => Stands(client)'
    <2>1. c = conv /\ conv.status \in Fresh
      BY <1>4, CurrentIsConv DEF AnswerInv, Asks
    <2>2. client' = Idle \/ client'.reason = client.reason
      BY <1>1, <1>2 DEF RequestType
    <2> HIDE DEF b
    <2>3. CASE client' = Idle /\ conv' = c
      BY <2>1, <2>3 DEF Idle
    <2>4. CASE /\ ReadReason(b, c) = client.reason
               /\ conv' = IF client.reason = "acceptance"
                          THEN [c EXCEPT !.status = "activating"] ELSE c
      <3>1. CASE client.reason = "acceptance"
        <4>1. conv'.status = "activating"
          BY <1>2, <2>1, <2>4, <3>1 DEF ConvType
        <4>2. ReadReason(binding, conv)' = "acceptance"
          BY <4>1 DEF ReadReason
        <4> QED BY <2>2, <3>1, <4>1, <4>2 DEF Stands, Fresh, Idle
      <3>2. CASE client.reason # "acceptance"
        <4>1. conv' = conv /\ ReadReason(binding', conv') = client.reason
          BY <1>1, <2>1, <2>4, <3>2
        <4> QED BY <2>1, <2>2, <4>1 DEF Stands, Idle
      <3> QED BY <3>1, <3>2
    <2> QED BY <1>1, <2>3, <2>4
  <1>5. ~Waits(client.at) /\ ~Waits(client'.at)
    BY <1>1, <1>3 DEF Waits
  <1>6. Pending' => client'.at = "reading"
    BY <1>3 DEF Pending
  <1> HIDE DEF c, b
  <1> QED BY <1>1, <1>4, <1>5, <1>6, ClientMoves

LEMMA PreSendAsks == ReadInv /\ AnswerInv /\ PreSend => AnswerInv'
  <1> SUFFICES ASSUME ReadInv, AnswerInv, PreSend PROVE AnswerInv'
    OBVIOUS
  <1>1. /\ client'.at \in {"reading", "rereading"} /\ client'.goes
        /\ client'.reason = turn.reason
        /\ turn.revision = binding.revision /\ conv.status = "ai_active"
        /\ UNCHANGED <<chat, stored, binding, conv, turn, late>>
        /\ ~Waits(client.at)
    BY DEF PreSend, ReadInv, Types, RequestType, Waits
  <1>2. Stands(client)'
    BY <1>1 DEF Stands
  <1> QED BY <1>1, <1>2, ClientMoves DEF Fresh, Waits

(* The chat is read to its end, under a name that no late request bears. *)
LEMMA ReadChatAsks == ReadInv /\ AnswerInv /\ ReadChat => AnswerInv'
  <1> SUFFICES ASSUME ReadInv, AnswerInv, ReadChat PROVE AnswerInv'
    OBVIOUS
  <1> DEFINE run == FreshRun
  <1>1. \E q \in Runs \ {0} : q \notin {r.run : r \in late}
    BY RunIsFree DEF ReadInv
  <1>2. run \notin {r.run : r \in late}
    BY <1>1 DEF FreshRun
  <1> HIDE DEF run
  <1>3. /\ client.at = "reading"
        /\ client'.at = "outbox" /\ client'.len = Len(chat) /\ client'.run = run
        /\ client'.reason = client.reason /\ client'.goes = client.goes
        /\ client'.revision = client.revision
        /\ binding'.unread = binding.unread /\ binding'.bound = binding.bound
        /\ binding'.revision = binding.revision
        /\ UNCHANGED <<chat, stored, conv, turn, late>>
    BY DEF ReadChat, run, ReadInv, Types, RequestType, BindingType
  <1>4. Stands(client) => Stands(client)'
    <2>1. ReadReason(binding, conv)' = ReadReason(binding, conv)
      BY <1>3 DEF ReadReason
    <2> QED BY <1>3, <2>1 DEF Stands
  <1>5. Accepts(client)' => Accepts(client)
    BY <1>3 DEF Accepts
  <1>6. Pending
    BY <1>3 DEF Pending
  <1>7. Asks'
    BY <1>3, <1>4, <1>5, <1>6 DEF AnswerInv, Asks, NoneAfter
  <1>8. Carried'
    <2>1. NoneAfter(client.len)'
      BY <1>3, Lengths DEF ReadInv, NoneAfter
    <2>2. \A r \in late : ~(r.len > stored) /\ r.run # run
      BY <1>2, <1>3 DEF AnswerInv, Carried
    <2> QED BY <1>3, <2>1, <2>2 DEF Carried
  <1> QED BY <1>7, <1>8 DEF AnswerInv

LEMMA OtherAsks == ReadInv /\ AnswerInv /\ OtherWorkerScans => AnswerInv'
  <1> SUFFICES ASSUME ReadInv, AnswerInv, OtherWorkerScans PROVE AnswerInv'
    OBVIOUS
  <1>1. UNCHANGED <<chat, stored, conv, turn, client, late>>
    BY DEF OtherWorkerScans
  <1>2. ~binding'.bound
    <2>1. binding \in BindingType(Len(reach)) /\ binding.bound
      BY DEF ReadInv, Types, OtherWorkerScans
    <2>2. binding' = [[binding EXCEPT !.unread = FALSE]
                         EXCEPT !.bound = FALSE,
                                !.revision = [binding EXCEPT !.unread = FALSE].revision + 1,
                                !.due = TRUE]
      BY <2>1 DEF OtherWorkerScans, Rebound, BindingType
    <2> QED BY <2>1, <2>2 DEF BindingType
  <1>3. ~Accepts(client)'
    BY <1>2 DEF Accepts
  <1> QED BY <1>1, <1>3 DEF AnswerInv, Asks, Carried, NoneAfter

(* A request is taken: the one in the outbox, or the late one. *)
LEMMA TakenAsks ==
  ASSUME ReadInv, AnswerInv,
         NEW at, NEW r \in RequestType(at, Len(chat), Len(reach)), Ingest(r),
         UNCHANGED chat,
         r.len > stored => NoneAfter(r.len),
         r.len > stored /\ turn.kind = "customer" => Stands(r)
  PROVE  turn'.kind = "customer" =>
             /\ stored' > 0 /\ chat'[stored'] = "customer" /\ NoneAfter(stored)'
             /\ conv'.status \in Fresh
  BY IngestAsks DEF AnswerInv, NoneAfter

LEMMA DeliverAsks == ReadInv /\ AnswerInv /\ (Deliver \/ AnswerLost) => AnswerInv'
  <1> SUFFICES ASSUME ReadInv, AnswerInv, Deliver \/ AnswerLost PROVE AnswerInv'
    OBVIOUS
  <1>1. /\ Waits(client.at) /\ Accepts(client) /\ Ingest(client)
        /\ UNCHANGED <<chat, late>>
        /\ client \in RequestType(Places, Len(chat), Len(reach))
    BY DEF Deliver, AnswerLost, ReadInv, Types
  <1>2. /\ Types /\ HandoffSilencesAI
    BY DEF ReadInv
  <1>3. stored' >= stored /\ stored' >= client.len /\ stored' \in Nat
    <2>1. stored' \in 0 .. Len(chat) /\ stored' >= stored /\ stored' >= client.len
      BY <1>1, <1>2, IngestKeeps
    <2> QED BY <2>1
  <1>4. NoneAfter(client.len)
    BY <1>1 DEF AnswerInv, Carried
  <1>5. client.len > stored /\ turn.kind = "customer" => Stands(client)
    BY <1>1 DEF AnswerInv, Asks, Pending, Waits
  <1>6. \/ ~Waits(client'.at)
        \/ client' = [client EXCEPT !.at = "retry"]
    <2>1. CASE Deliver
      <3>1. client'.at \in {"idle", "waiting", "sending"}
        BY <2>1 DEF Deliver, Sending, Idle
      <3> QED BY <3>1 DEF Waits
    <2>2. CASE AnswerLost
      BY <2>2 DEF AnswerLost
    <2> QED BY <2>1, <2>2
  <1>7. client.len \in Nat /\ stored \in Nat /\ \A q \in late : q.len \in Nat
    BY Lengths DEF ReadInv, Types, RequestType
  <1>8. ~Pending'
    <2>1. CASE Deliver
      <3>1. client'.at \in {"idle", "waiting", "sending"}
        BY <2>1 DEF Deliver, Sending, Idle
      <3> QED BY <3>1 DEF Pending
    <2>2. CASE AnswerLost
      <3>1. client'.at = "retry" /\ client'.len = client.len
        BY <1>1, <2>2 DEF AnswerLost, RequestType
      <3> QED BY <1>3, <1>7, <3>1 DEF Pending
    <2> QED BY <2>1, <2>2
  <1>9. Asks'
    BY <1>1, <1>4, <1>5, <1>8, TakenAsks DEF Asks
  <1>10. Carried'
    <2>1. Waits(client'.at) => NoneAfter(client.len)'
      BY <1>1, <1>4, <1>6 DEF NoneAfter, RequestType
    <2>2. ASSUME NEW q \in late,
                 q.len > stored' \/ (Waits(client'.at) /\ client'.run = q.run)
          PROVE  client'.at = "retry" /\ q = [client' EXCEPT !.at = "late"]
      <3>1. q.len > stored => q = [client EXCEPT !.at = "late"]
        BY DEF AnswerInv, Carried
      <3>2. ~(q.len > stored')
        <4>1. q.len > stored => q.len = client.len
          BY <1>1, <3>1 DEF RequestType
        <4> QED BY <1>3, <1>7, <4>1
      <3>3. client' = [client EXCEPT !.at = "retry"]
        BY <1>6, <2>2, <3>2
      <3>4. client'.run = client.run /\ client'.at = "retry"
        BY <1>1, <3>3 DEF RequestType
      <3>5. q = [client EXCEPT !.at = "late"]
        BY <1>1, <2>2, <3>2, <3>4 DEF AnswerInv, Carried
      <3>6. [client' EXCEPT !.at = "late"] = [client EXCEPT !.at = "late"]
        BY <1>1, <3>3 DEF RequestType
      <3> QED BY <3>4, <3>5, <3>6
    <2> QED BY <1>1, <2>1, <2>2 DEF Carried
  <1> QED BY <1>9, <1>10 DEF AnswerInv

LEMMA RequestLateAsks == ReadInv /\ AnswerInv /\ RequestLate => AnswerInv'
  <1> SUFFICES ASSUME ReadInv, AnswerInv, RequestLate PROVE AnswerInv'
    OBVIOUS
  <1> DEFINE retried == [client EXCEPT !.at = "retry"]
             delayed == [client EXCEPT !.at = "late"]
  <1>1. /\ Waits(client.at) /\ client' = retried /\ late' = {delayed}
        /\ UNCHANGED <<chat, stored, binding, conv, turn>>
    BY DEF RequestLate
  <1>2. /\ retried.at = "retry" /\ retried.len = client.len
        /\ retried.reason = client.reason /\ retried.goes = client.goes
        /\ retried.revision = client.revision
        /\ delayed = [retried EXCEPT !.at = "late"]
    BY DEF ReadInv, Types, RequestType
  <1> HIDE DEF retried
  <1>3. Pending' => Pending
    BY <1>1, <1>2 DEF Pending, Waits
  <1>4. (Accepts(client)' => Accepts(client)) /\ (Stands(client) => Stands(client)')
    BY <1>1, <1>2 DEF Accepts, Stands, ReadReason
  <1>5. Asks'
    BY <1>1, <1>3, <1>4 DEF AnswerInv, Asks, NoneAfter
  <1>6. Carried'
    <2> HIDE DEF delayed
    <2>1. NoneAfter(client.len)'
      BY <1>1, <1>2 DEF AnswerInv, Carried, NoneAfter
    <2> QED BY <1>1, <1>2, <2>1 DEF Carried
  <1> QED BY <1>5, <1>6 DEF AnswerInv

LEMMA LateIngestAsks == ReadInv /\ AnswerInv /\ LateIngest => AnswerInv'
  <1> SUFFICES ASSUME ReadInv, AnswerInv, LateIngest PROVE AnswerInv'
    OBVIOUS
  <1>1. PICK r \in late :
            /\ \/ client.at \in {"idle", "seen", "scanned", "ticket"}
               \/ Waits(client.at) /\ client.run = r.run
            /\ Accepts(r) /\ Ingest(r) /\ late' = {} /\ UNCHANGED <<chat, client>>
    BY DEF LateIngest
  <1>2. /\ r \in RequestType({"late"}, Len(chat), Len(reach))
        /\ client \in RequestType(Places, Len(chat), Len(reach))
        /\ Types /\ HandoffSilencesAI
    BY DEF ReadInv, Types
  <1>3. stored' >= r.len /\ stored' \in Nat
    <2>1. stored' \in 0 .. Len(chat) /\ stored' >= r.len
      BY <1>1, <1>2, IngestKeeps
    <2> QED BY <2>1
  <1>4. r.len > stored \/ Waits(client.at)
        => /\ client.at = "retry" /\ r.len = client.len
           /\ r.reason = client.reason /\ r.goes = client.goes
           /\ r.revision = client.revision
    <2>1. ASSUME r.len > stored \/ Waits(client.at)
          PROVE  client.at = "retry" /\ r = [client EXCEPT !.at = "late"]
      BY <1>1, <2>1 DEF AnswerInv, Carried, Waits
    <2> QED BY <1>2, <2>1 DEF RequestType
  <1>5. r.len > stored => NoneAfter(r.len)
    BY <1>4 DEF AnswerInv, Carried, Waits
  <1>6. r.len > stored /\ turn.kind = "customer" => Stands(r)
    <2>1. SUFFICES ASSUME r.len > stored, turn.kind = "customer" PROVE Stands(r)
      OBVIOUS
    <2>2. Pending /\ Accepts(client)
      BY <1>1, <1>4, <2>1 DEF Pending, Accepts
    <2>3. Stands(client)
      BY <2>1, <2>2 DEF AnswerInv, Asks
    <2> QED BY <1>4, <2>1, <2>3 DEF Stands
  <1>7. ~Pending'
    <2>1. CASE Waits(client.at)
      <3>1. client'.at = "retry" /\ client'.len = r.len /\ r.len \in Nat
        BY <1>1, <1>2, <1>4, <2>1, Lengths DEF RequestType
      <3> QED BY <1>3, <3>1 DEF Pending
    <2>2. CASE client.at \in {"idle", "seen", "scanned", "ticket"}
      BY <1>1, <2>2 DEF Pending
    <2> QED BY <1>1, <2>1, <2>2
  <1>8. Asks'
    BY <1>1, <1>2, <1>5, <1>6, <1>7, TakenAsks DEF Asks
  <1>9. Carried'
    BY <1>1 DEF AnswerInv, Carried, NoneAfter
  <1> QED BY <1>8, <1>9 DEF AnswerInv

LEMMA AnswerAsks == ReadInv /\ AnswerInv /\ Answer => AnswerInv'
  <1> SUFFICES ASSUME ReadInv, AnswerInv, Answer PROVE AnswerInv'
    OBVIOUS
  <1>1. Asks'
    BY DEF Answer, SendReply, NoAction, HandOff, NoTurn, Asks
  <1>2. CASE SendReply
    <2>1. ~Waits(client.at) /\ ~Waits(client'.at) /\ UNCHANGED <<stored, late>>
      BY <1>2 DEF SendReply, Waits, Idle
    <2>2. \A r \in late : ~(r.len > stored)
      BY <2>1 DEF AnswerInv, Carried, Waits
    <2>3. Carried'
      BY <2>1, <2>2 DEF Carried
    <2> QED BY <1>1, <2>3 DEF AnswerInv
  <1>3. CASE NoAction \/ HandOff
    <2>1. Carried'
      BY <1>3 DEF NoAction, HandOff, AnswerInv, Carried, NoneAfter
    <2> QED BY <1>1, <2>1 DEF AnswerInv
  <1> QED BY <1>2, <1>3 DEF Answer

THEOREM AnswerInvariance == Spec => []AnswerInv
  <1>1. ReadInv /\ AnswerInv /\ [Next]_vars => AnswerInv'
    <2>1. ASSUME AnswerInv, UNCHANGED vars PROVE AnswerInv'
      <3>1. ReadReason(binding, conv)' = ReadReason(binding, conv)
        BY <2>1 DEF vars, ReadReason
      <3> QED BY <2>1, <3>1 DEF vars, AnswerInv, Asks, Carried, NoneAfter, Pending,
                               Stands, Accepts
    <2> QED BY <2>1, PeopleAsk, TimeAsk, RoundAsks, AuthorizeAsks, PreSendAsks,
               ReadChatAsks, OtherAsks, DeliverAsks, RequestLateAsks,
               LateIngestAsks, AnswerAsks
            DEF Next, Network
  <1> QED BY <1>1, AnswerInit, ReadInvariance, PTL DEF Spec

(* The turn of a customer stands for a message that the database knows no    *)
(* answer to, however late a read arrives and whenever the sales write.      *)
THEOREM TurnsAreUnanswered == Spec => []AnswersUnanswered
  <1>1. ReadInv /\ AnswerInv => AnswersUnanswered
    <2>1. SUFFICES ASSUME ReadInv, AnswerInv, turn.kind = "customer"
                   PROVE  \E i \in 1 .. stored :
                              /\ chat[i] = "customer"
                              /\ \A j \in i .. stored : chat[j] = "customer"
      BY DEF AnswersUnanswered
    <2>2. stored > 0 /\ chat[stored] = "customer" /\ stored \in Nat
      BY <2>1, Lengths DEF AnswerInv, Asks, ReadInv, Types
    <2>3. stored \in 1 .. stored /\ \A j \in stored .. stored : j = stored
      BY <2>2
    <2> QED BY <2>2, <2>3
  <1> QED BY <1>1, ReadInvariance, AnswerInvariance, PTL

-----------------------------------------------------------------------------
(* What was read is refused only when the chat was set aside *)

HasRow(at) == at \in {"reading", "outbox", "retry"}

(* A chat that is being read, or a row in the outbox, has the revision of the *)
(* binding as it is: as long as the chat is bound, the server takes it.       *)
RowIsAccepted == HasRow(client.at) /\ binding.bound => Accepts(client)

LEMMA IngestBinds ==
  ASSUME ReadInv, NEW at, NEW r \in RequestType(at, Len(chat), Len(reach)), Ingest(r)
  PROVE  binding'.bound = binding.bound /\ binding'.revision = binding.revision
  <1> DEFINE c     == Current
             b     == Synced(binding, c.status)
             final == Released(r, Moved(r, c))
  <1>1. c \in ConvType
    BY CurrentIsTyped DEF ReadInv, Types
  <1>2. /\ b \in BindingType(Len(reach))
        /\ b.bound = binding.bound /\ b.revision = binding.revision
    BY <1>1, Lengths, SyncedIsTyped, SyncedKeeps DEF ReadInv, Types, ConvType
  <1>3. binding' \in {b, Settled(b, r, final.status)}
    BY DEF Ingest
  <1> HIDE DEF b, final
  <1> QED BY <1>2, <1>3 DEF Settled, BindingType

(* The client starts no row, and the binding of the one it has stays. *)
LEMMA RowStays ==
  ASSUME RowIsAccepted,
         binding'.bound = binding.bound, binding'.revision = binding.revision,
         HasRow(client'.at) => HasRow(client.at) /\ client'.revision = client.revision
  PROVE  RowIsAccepted'
  BY DEF RowIsAccepted, Accepts

LEMMA TargetOrIdle == ReadTargets => client'.at \in {"idle", "ticket"}
  <1>1. ReadTargets => client' = Idle \/ client'.at = "ticket"
    BY DEF ReadTargets, Idle
  <1> QED BY <1>1 DEF Idle

LEMMA RowRoundStep ==
  ASSUME ReadInv, RowIsAccepted,
         SeeScreen \/ ReadAgain \/ ReadFails \/ WaitEnds \/ Scan \/ ReadTargets
         \/ SendReply
  PROVE  RowIsAccepted'
  <1>1. ~HasRow(client'.at)
    <2>1. CASE ReadFails \/ WaitEnds \/ SendReply
      <3>1. client' = Idle
        BY <2>1 DEF ReadFails, WaitEnds, SendReply
      <3> QED BY <3>1 DEF Idle, HasRow
    <2>2. CASE ReadAgain
      BY <2>2 DEF ReadAgain, Sending, Idle, HasRow
    <2>3. CASE Scan
      BY <2>3 DEF Scan, PostScan, Idle, HasRow
    <2>4. CASE ReadTargets
      BY <2>4, TargetOrIdle DEF HasRow
    <2>5. CASE SeeScreen
      <3>1. client'.at = "seen"
        BY <2>5 DEF SeeScreen, Idle
      <3> QED BY <3>1 DEF HasRow
    <2> QED BY <2>1, <2>2, <2>3, <2>4, <2>5
  <1> QED BY <1>1 DEF RowIsAccepted

(* The right to read is lent, or used, for the binding as it stands. *)
LEMMA RowStartStep ==
  ASSUME ReadInv, RowIsAccepted, Authorize \/ PreSend \/ ReadChat
  PROVE  RowIsAccepted'
  <1>0. /\ client \in RequestType(Places, Len(chat), Len(reach))
        /\ binding \in BindingType(Len(reach)) /\ conv \in ConvType
    BY DEF ReadInv, Types
  <1>1. CASE Authorize
    <2> DEFINE c == Current
               b == Synced(binding, c.status)
               allowed == /\ b.bound /\ b.revision = client.revision
                          /\ ReadReason(b, c) = client.reason
                          /\ ReadIsDue(b, client.reason)
    <2>1. /\ binding' = b
          /\ client' = IF allowed THEN [client EXCEPT !.at = "reading"] ELSE Idle
      BY <1>1 DEF Authorize
    <2> HIDE DEF c
    <2>2. CASE allowed
      BY <1>0, <2>1, <2>2 DEF RowIsAccepted, Accepts, RequestType
    <2>3. CASE ~allowed
      <3> HIDE DEF allowed
      <3> QED BY <2>1, <2>3 DEF RowIsAccepted, HasRow, Idle
    <2> QED BY <2>2, <2>3
  <1>2. CASE PreSend
    <2>1. /\ binding.bound /\ turn.revision = binding.revision /\ binding' = binding
          /\ client'.revision = turn.revision
      BY <1>0, <1>2 DEF PreSend, RequestType
    <2> QED BY <2>1 DEF RowIsAccepted, Accepts
  <1>3. CASE ReadChat
    <2>1. /\ client.at = "reading" /\ client'.revision = client.revision
          /\ binding'.bound = binding.bound /\ binding'.revision = binding.revision
      BY <1>0, <1>3 DEF ReadChat, RequestType, BindingType
    <2> QED BY <2>1, RowStays DEF HasRow
  <1> QED BY <1>1, <1>2, <1>3

LEMMA RowNetworkStep ==
  ASSUME ReadInv, RowIsAccepted, Deliver \/ Network
  PROVE  RowIsAccepted'
  <1>0. client \in RequestType(Places, Len(chat), Len(reach))
    BY DEF ReadInv, Types
  <1>1. CASE Deliver
    <2>1. client'.at \in {"idle", "waiting", "sending"}
      BY <1>1 DEF Deliver, Sending, Idle
    <2> QED BY <2>1 DEF RowIsAccepted, HasRow
  <1>2. CASE AnswerLost
    <2>1. /\ Waits(client.at) /\ client'.revision = client.revision
          /\ binding'.bound = binding.bound /\ binding'.revision = binding.revision
      BY <1>0, <1>2, IngestBinds DEF AnswerLost, RequestType
    <2> QED BY <2>1, RowStays DEF HasRow, Waits
  <1>3. CASE RequestLate
    <2>1. /\ Waits(client.at) /\ client'.revision = client.revision
          /\ binding' = binding
      BY <1>0, <1>3 DEF RequestLate, RequestType
    <2> QED BY <2>1, RowStays DEF HasRow, Waits
  <1>4. CASE LateIngest
    <2>1. PICK r \in late : Ingest(r) /\ client' = client
      BY <1>4 DEF LateIngest
    <2>2. binding'.bound = binding.bound /\ binding'.revision = binding.revision
      BY <2>1, IngestBinds DEF ReadInv, Types
    <2> QED BY <2>1, <2>2, RowStays
  <1> QED BY <1>1, <1>2, <1>3, <1>4 DEF Network

(* What the client has read is taken by the server whenever it arrives,      *)
(* unless the chat has been set aside by the scan of another worker; a row   *)
(* never waits with a revision older than that of a chat that is bound, so   *)
(* that the confirmation the scans of the client wait for (task_runner.py)   *)
(* can be had.  This is the safety part of OutboxIsConfirmed.                *)
THEOREM RowsAreAccepted == Spec => []RowIsAccepted
  <1>1. Init => RowIsAccepted
    BY DEF Init, Idle, RowIsAccepted, HasRow
  <1>2. ReadInv /\ RowIsAccepted /\ [Next]_vars => RowIsAccepted'
    <2> SUFFICES ASSUME ReadInv, RowIsAccepted, [Next]_vars PROVE RowIsAccepted'
      OBVIOUS
    <2>1. CASE People \/ RecallFallsDue \/ NoAction \/ HandOff \/ UNCHANGED vars
      BY <2>1 DEF People, CustomerWrites, SalesWrites, RecallFallsDue, NoAction,
                  HandOff, vars, RowIsAccepted, Accepts
    <2>2. CASE ReadFallsDue
      <3>1. /\ client' = client
            /\ binding'.bound = binding.bound /\ binding'.revision = binding.revision
        BY <2>2 DEF ReadFallsDue, ReadInv, Types, BindingType
      <3> QED BY <3>1, RowStays
    <2>3. CASE OtherWorkerScans
      <3>1. binding'.bound = FALSE
        BY <2>3 DEF OtherWorkerScans, Rebound, ReadInv, Types, BindingType
      <3> QED BY <3>1 DEF RowIsAccepted
    <2> QED BY <2>1, <2>2, <2>3, RowRoundStep, RowStartStep, RowNetworkStep
            DEF Next, Time, Answer
  <1> QED BY <1>1, <1>2, ReadInvariance, PTL DEF Spec

-----------------------------------------------------------------------------
(* What was shown unread is noticed *)

InHand == {"reading", "rereading", "sending", "outbox", "retry"}

(* The list of chats has shown a message that is not stored, shows it no     *)
(* more, and no read is under way that could bring it.                       *)
Gap ==
    /\ stored < shown /\ ~broken
    /\ badge = FALSE
    /\ client.at \notin InHand

(* A read of the chat takes the badge away, and has all the badge was shown *)
(* for.  When it is over without having stored it, the conversation is not  *)
(* one that is read for a badge only, nor can a late read make it one.      *)
GapIsRead ==
    Gap => /\ conv.status \notin {"ai_active", "activating"}
           /\ late # {} => conv.recall # "now" /\ conv.status # "precheck"

RowHasShown == Waits(client.at) /\ badge = FALSE => shown <= client.len

Noticed == GapIsRead /\ RowHasShown

LEMMA CurrentStatus ==
  ASSUME conv \in ConvType, made \in SUBSET Nat, IsFiniteSet(made)
  PROVE  /\ Current.recall = conv.recall
         /\ Current.status \in {conv.status, "waiting_sales", "precheck"}
         /\ Current.status = "precheck"
               => conv.status = "precheck" \/ conv.recall = "now"
  <1>1. /\ Gated(conv) \in ConvType /\ Gated(conv).recall = conv.recall
        /\ Gated(conv).status \in {conv.status, "waiting_sales"}
    BY DEF Gated, ConvType, Statuses
  <1>2. ASSUME NEW c \in ConvType
        PROVE  /\ Prepared(c).recall = c.recall
               /\ \/ Prepared(c).status = c.status
                  \/ Prepared(c).status = "precheck" /\ c.recall = "now"
    <2>1. CASE c.status \in Waiting /\ c.recall = "now" /\ c.recalls < RecallMax
      <3>1. Prepared(c) = [c EXCEPT !.origin = c.status, !.status = "precheck",
                             !.cycle = IF @ = NoCycle THEN FreshCycle ELSE @]
        BY <2>1 DEF Prepared
      <3> QED BY <2>1, <3>1 DEF ConvType
    <2>2. CASE ~(c.status \in Waiting /\ c.recall = "now" /\ c.recalls < RecallMax)
      <3>1. Prepared(c) = c
        BY <2>2 DEF Prepared
      <3> QED BY <3>1
    <2> QED BY <2>1, <2>2
  <1> QED BY <1>1, <1>2 DEF Current

(* Nothing more has been shown, a read that is under way stays so, and the *)
(* status is as it was or one of those that are read anyway.               *)
LEMMA NoticedStays ==
  ASSUME ReadInv, Noticed, shown' = shown, stored' \in Nat, stored' >= stored,
         badge' = badge, broken' = broken,
         client'.at \in InHand \/ client.at \notin InHand,
         Waits(client'.at) => Waits(client.at) /\ client'.len = client.len,
         Gap => /\ conv'.status \notin {"ai_active", "activating"}
                /\ late' # {} => conv'.recall # "now" /\ conv'.status # "precheck"
  PROVE  Noticed'
  <1>1. stored \in Nat /\ shown \in Nat
    BY Lengths DEF ReadInv, Types
  <1>2. Gap' => Gap
    BY <1>1 DEF Gap
  <1> QED BY <1>2 DEF Noticed, GapIsRead, RowHasShown

LEMMA NoticedPeople ==
  ASSUME ReadInv, Noticed, People
  PROVE  Noticed'
  <1>0. stored \in Nat /\ Len(chat) \in Nat /\ client.len \in Nat /\ shown \in Nat
    BY Lengths DEF ReadInv, Types, RequestType
  <1>1. UNCHANGED <<stored, conv, client, late, broken>>
    BY DEF People, CustomerWrites, SalesWrites
  <1>2. CASE SalesWrites
    <2>1. shown' = 0
      BY <1>2 DEF SalesWrites
    <2> QED BY <1>0, <1>1, <2>1 DEF Noticed, GapIsRead, RowHasShown, Gap
  <1>3. CASE CustomerWrites
    <2>1. CASE badge' = TRUE
      BY <2>1 DEF Noticed, GapIsRead, RowHasShown, Gap
    <2>2. CASE badge' = FALSE
      <3>1. shown' = shown /\ badge' = badge
        <4>1. badge' \in {badge, TRUE} /\ shown' = IF badge' THEN Len(chat') ELSE shown
          BY <1>3 DEF CustomerWrites
        <4> QED BY <2>2, <4>1
      <3> QED BY <1>1, <3>1 DEF Noticed, GapIsRead, RowHasShown, Gap
    <2>3. badge' = TRUE \/ badge' = FALSE
      BY Zenon, <1>3 DEF CustomerWrites, ReadInv, Types
    <2> QED BY <2>1, <2>2, <2>3
  <1> QED BY <1>2, <1>3 DEF People

LEMMA NoticedRound ==
  ASSUME ReadInv, Noticed,
         Time \/ SeeScreen \/ Scan \/ OtherWorkerScans \/ ReadTargets \/ ReadAgain
         \/ ReadFails \/ WaitEnds
  PROVE  Noticed'
  <1>0. /\ stored \in Nat /\ conv \in ConvType
        /\ made \in SUBSET Nat /\ IsFiniteSet(made)
    BY Lengths DEF ReadInv, Types
  <1>1. CASE Time \/ OtherWorkerScans
    <2>1. /\ UNCHANGED <<badge, shown, stored, client, late, broken>>
          /\ \/ conv' = conv
             \/ late = {} /\ conv'.status = conv.status
      BY <1>0, <1>1 DEF Time, ReadFallsDue, RecallFallsDue, OtherWorkerScans, ConvType
    <2> QED BY <1>0, <2>1, NoticedStays DEF Noticed, GapIsRead
  <1>2. CASE SeeScreen \/ WaitEnds
    <2>1. /\ UNCHANGED <<badge, shown, stored, conv, late, broken>>
          /\ client.at \notin InHand
      BY <1>2 DEF SeeScreen, WaitEnds, InHand
    <2>2. client'.at \in {"seen", "idle"}
      <3>1. SeeScreen => client'.at = "seen"
        BY DEF SeeScreen, Idle
      <3>2. WaitEnds => client'.at = "idle"
        BY DEF WaitEnds, Idle
      <3> QED BY <1>2, <3>1, <3>2
    <2> QED BY <1>0, <2>1, <2>2, NoticedStays DEF Noticed, GapIsRead, Waits
  <1>3. CASE Scan
    <2>1. /\ UNCHANGED <<badge, shown, stored, late, broken>>
          /\ client'.at = "scanned" /\ client.at = "seen"
          /\ conv' \in {conv, [conv EXCEPT !.status = "invite_sent"]}
      BY <1>3 DEF Scan, PostScan, Idle
    <2>2. \/ conv' = conv
          \/ conv'.status = "invite_sent" /\ conv'.recall = conv.recall
      BY <1>0, <2>1 DEF ConvType
    <2> QED BY <1>0, <2>1, <2>2, NoticedStays DEF Noticed, GapIsRead, Waits, InHand
  <1>4. CASE ReadTargets
    <2>1. /\ UNCHANGED <<badge, shown, stored, late, broken>> /\ client.at = "scanned"
          /\ conv' \in {conv, Current}
      BY <1>4 DEF ReadTargets
    <2>2. Gap => /\ conv'.status \notin {"ai_active", "activating"}
                 /\ late' # {} => conv'.recall # "now" /\ conv'.status # "precheck"
      BY <1>0, <2>1, CurrentStatus DEF Noticed, GapIsRead
    <2>3. client'.at \in {"idle", "ticket"}
      BY <1>4, TargetOrIdle
    <2>4. client.at \notin InHand /\ ~Waits(client'.at)
      BY <2>1, <2>3 DEF InHand, Waits
    <2> QED BY <1>0, <2>1, <2>2, <2>4, NoticedStays
  <1>5. CASE ReadAgain
    <2>1. client'.at = "sending"
      BY <1>5 DEF ReadAgain, Sending, Idle
    <2> QED BY <2>1 DEF Noticed, GapIsRead, RowHasShown, Gap, InHand, Waits
  <1>6. CASE ReadFails
    BY <1>6 DEF ReadFails, Idle, Noticed, GapIsRead, RowHasShown, Gap, Waits
  <1> QED BY <1>1, <1>2, <1>3, <1>4, <1>5, <1>6

(* The badge goes only when the chat is opened. *)
LEMMA NoticedRead ==
  ASSUME ReadInv, Noticed, Authorize \/ PreSend \/ ReadChat
  PROVE  Noticed'
  <1>0. /\ stored \in Nat /\ conv \in ConvType /\ Len(chat) \in Nat
        /\ made \in SUBSET Nat /\ IsFiniteSet(made)
        /\ client \in RequestType(Places, Len(chat), Len(reach))
        /\ shown \in 0 .. Len(chat)
    BY Lengths DEF ReadInv, Types
  <1>1. CASE Authorize
    <2>1. CASE client'.at = "reading"
      BY <2>1 DEF Noticed, GapIsRead, RowHasShown, Gap, InHand, Waits
    <2>2. CASE client'.at # "reading"
      <3> DEFINE c == Current
                 b == Synced(binding, c.status)
                 allowed == /\ b.bound /\ b.revision = client.revision
                            /\ ReadReason(b, c) = client.reason
                            /\ ReadIsDue(b, client.reason)
      <3>1. /\ client' = IF allowed THEN [client EXCEPT !.at = "reading"] ELSE Idle
            /\ conv' = IF allowed /\ client.reason = "acceptance"
                       THEN [c EXCEPT !.status = "activating"] ELSE c
            /\ badge' = (badge /\ ~allowed)
            /\ UNCHANGED <<shown, stored, late, broken>> /\ client.at = "ticket"
        BY <1>1 DEF Authorize
      <3> HIDE DEF allowed, c
      <3>2. ~allowed
        BY <1>0, <2>2, <3>1 DEF RequestType
      <3>3. badge' = badge
        <4>1. badge \in BOOLEAN
          BY Zenon DEF ReadInv, Types
        <4> QED BY <3>1, <3>2, <4>1
      <3>4. conv' = Current /\ client' = Idle
        BY <3>1, <3>2 DEF c
      <3>5. Gap => /\ conv'.status \notin {"ai_active", "activating"}
                   /\ late' # {} => conv'.recall # "now" /\ conv'.status # "precheck"
        BY <1>0, <3>1, <3>4, CurrentStatus DEF Noticed, GapIsRead
      <3>6. client.at \notin InHand /\ ~Waits(client'.at)
        BY <3>1, <3>4 DEF InHand, Waits, Idle
      <3> QED BY <1>0, <3>1, <3>3, <3>5, <3>6, NoticedStays
    <2> QED BY <2>1, <2>2
  <1>2. CASE PreSend
    <2>1. client'.at \in {"reading", "rereading"}
      BY <1>0, <1>2 DEF PreSend, RequestType
    <2> QED BY <2>1 DEF Noticed, GapIsRead, RowHasShown, Gap, InHand, Waits
  <1>3. CASE ReadChat
    <2>1. client'.at = "outbox" /\ client'.len = Len(chat) /\ shown' = shown
      BY <1>0, <1>3 DEF ReadChat, RequestType
    <2> QED BY <1>0, <2>1 DEF Noticed, GapIsRead, RowHasShown, Gap, InHand, Waits
  <1> QED BY <1>1, <1>2, <1>3

(* A late read brings no news, and moves a conversation that is not waiting *)
(* for the welcome or the recall it would release nowhere.                  *)
LEMMA NoNewsKeepsStatus ==
  ASSUME ReadInv, NEW at, NEW r \in RequestType(at, Len(chat), Len(reach)),
         Ingest(r), ~(r.len > stored),
         conv.status \notin {"activating", "precheck"}, conv.recall # "now"
  PROVE  conv' = Current
  <1> DEFINE c == Current
  <1>1. c.status \notin {"activating", "precheck"}
    BY CurrentStatus DEF ReadInv, Types
  <1>2. Moved(r, c) = c
    BY NoNews
  <1> HIDE DEF c
  <1>3. Released(r, c) = c
    BY <1>1 DEF Released, Welcomes, Recalls
  <1>4. conv' \in {c, Released(r, Moved(r, c))}
    BY DEF Ingest, c
  <1> QED BY <1>2, <1>3, <1>4 DEF c

LEMMA NoticedNetwork ==
  ASSUME ReadInv, AnswerInv, Noticed, Deliver \/ Network
  PROVE  Noticed'
  <1>0. /\ stored \in Nat /\ Len(chat) \in Nat /\ shown \in Nat
        /\ client \in RequestType(Places, Len(chat), Len(reach))
        /\ client.len \in Nat
        /\ conv \in ConvType /\ made \in SUBSET Nat /\ IsFiniteSet(made)
        /\ Types /\ HandoffSilencesAI
    BY Lengths DEF ReadInv, Types, RequestType
  <1>1. CASE Deliver
    <2>1. /\ Waits(client.at) /\ Ingest(client) /\ shown' = shown /\ badge' = badge
          /\ client'.at \in {"idle", "waiting", "sending"}
      BY <1>1 DEF Deliver, Sending, Idle
    <2>2. stored' >= client.len /\ stored' \in Nat
      <3>1. stored' \in 0 .. Len(chat) /\ stored' >= client.len
        BY <1>0, <2>1, IngestKeeps
      <3> QED BY <3>1
    <2>3. ~Gap'
      <3>1. badge = FALSE => stored' >= shown
        BY <1>0, <2>1, <2>2 DEF Noticed, RowHasShown
      <3> QED BY <1>0, <2>1, <2>2, <3>1 DEF Gap
    <2> QED BY <2>1, <2>3 DEF Noticed, GapIsRead, RowHasShown, Waits
  <1>2. CASE AnswerLost \/ RequestLate
    <2>1. /\ Waits(client.at) /\ shown' = shown /\ badge' = badge
          /\ client'.at = "retry" /\ client'.len = client.len
      BY <1>0, <1>2 DEF AnswerLost, RequestLate, RequestType
    <2> QED BY <2>1 DEF Noticed, GapIsRead, RowHasShown, Gap, InHand
  <1>3. CASE LateIngest
    <2>1. PICK r \in late :
              /\ \/ client.at \in {"idle", "seen", "scanned", "ticket"}
                 \/ Waits(client.at) /\ client.run = r.run
              /\ Ingest(r) /\ late' = {}
              /\ UNCHANGED <<shown, badge, client, broken>>
      BY <1>3 DEF LateIngest
    <2>2. r \in RequestType({"late"}, Len(chat), Len(reach))
      BY DEF ReadInv, Types
    <2>3. stored' \in Nat /\ stored' >= stored
      <3>1. stored' \in 0 .. Len(chat) /\ stored' >= stored
        BY <1>0, <2>1, <2>2, IngestKeeps
      <3> QED BY <3>1
    <2>4. Gap => conv'.status \notin {"ai_active", "activating"}
      <3>1. SUFFICES ASSUME Gap PROVE conv'.status \notin {"ai_active", "activating"}
        OBVIOUS
      <3>2. ~(r.len > stored)
        BY <3>1 DEF AnswerInv, Carried, Gap, InHand
      <3>3. /\ conv.status \notin {"ai_active", "activating", "precheck"}
            /\ conv.recall # "now"
        BY <3>1 DEF Noticed, GapIsRead
      <3>4. conv' = Current
        BY <2>1, <2>2, <3>2, <3>3, NoNewsKeepsStatus
      <3> QED BY <1>0, <3>3, <3>4, CurrentStatus
    <2> QED BY <2>1, <2>3, <2>4, NoticedStays
  <1> QED BY <1>1, <1>2, <1>3 DEF Network

LEMMA NoticedAnswer ==
  ASSUME ReadInv, Noticed, Answer
  PROVE  Noticed'
  <1>0. stored \in Nat /\ conv \in ConvType
    BY Lengths DEF ReadInv, Types
  <1>1. CASE SendReply
    <2>1. /\ client' = Idle
          /\ conv' \in {[conv EXCEPT !.status = "recalled", !.origin = "none",
                                     !.cycle = NoCycle, !.recalls = @ + 1,
                                     !.recall = "later", !.replied = TRUE],
                        [conv EXCEPT !.status = "waiting_user", !.recall = "later",
                                     !.replied = TRUE]}
      BY <1>1 DEF SendReply
    <2>2. conv'.status \in {"recalled", "waiting_user"} /\ conv'.recall = "later"
      BY <1>0, <2>1 DEF ConvType
    <2> QED BY <2>1, <2>2 DEF Noticed, GapIsRead, RowHasShown, Waits, Idle
  <1>2. CASE NoAction
    <2> DEFINE status == IF turn.origin \in Waiting \cup {"waiting_sales"}
                         THEN turn.origin
                         ELSE IF turn.reason = "precheck" THEN "sales_replied"
                         ELSE "waiting_user"
               c == [conv EXCEPT !.status = status]
    <2>1. /\ conv' \in {c, [c EXCEPT !.origin = "none", !.cycle = NoCycle,
                                     !.recall = "later"]}
          /\ UNCHANGED <<badge, shown, stored, client, late, broken>>
      BY <1>2 DEF NoAction
    <2>2. status \notin {"ai_active", "activating", "precheck"}
      BY DEF Waiting
    <2> HIDE DEF status
    <2>3. conv'.status = status /\ conv'.recall \in {conv.recall, "later"}
      BY <1>0, <2>1 DEF ConvType
    <2> QED BY <1>0, <2>1, <2>2, <2>3, NoticedStays DEF Noticed, GapIsRead
  <1>3. CASE HandOff
    <2>1. /\ conv' = [conv EXCEPT !.status = "waiting_sales", !.origin = "none",
                                  !.cycle = NoCycle]
          /\ UNCHANGED <<badge, shown, stored, client, late, broken>>
      BY <1>3 DEF HandOff
    <2>2. conv'.status = "waiting_sales" /\ conv'.recall = conv.recall
      BY <1>0, <2>1 DEF ConvType
    <2> QED BY <1>0, <2>1, <2>2, NoticedStays DEF Noticed, GapIsRead
  <1> QED BY <1>1, <1>2, <1>3 DEF Answer

(* Until a message that the list of chats has shown unread is stored, the    *)
(* badge still shows it, or a read that goes on has it, or the conversation  *)
(* is in a status in which the server lets the chat be read without a badge. *)
UnreadIsNoticed ==
    stored < shown /\ ~broken =>
        \/ badge
        \/ client.at \in {"reading", "rereading", "sending"}
        \/ Waits(client.at) /\ client.len >= shown
        \/ conv.status # "ai_active"

(* No message gets lost between the badge and the database: a conversation   *)
(* of the AI, which is read for a badge only, never waits for a message      *)
(* whose badge is gone, unless a read that opened the chat failed; however   *)
(* many answers are lost, requests late and bindings renewed.  This is the   *)
(* safety part of BadgedIsStored.                                            *)
THEOREM UnreadNeverForgotten == Spec => []UnreadIsNoticed
  <1>1. Init => Noticed
    BY DEF Init, Noticed, GapIsRead, RowHasShown, Gap, Idle, Waits
  <1>2. ReadInv /\ AnswerInv /\ Noticed /\ [Next]_vars => Noticed'
    <2>1. ASSUME Noticed, UNCHANGED vars PROVE Noticed'
      BY <2>1 DEF vars, Noticed, GapIsRead, RowHasShown, Gap
    <2> QED BY <2>1, NoticedPeople, NoticedRound, NoticedRead, NoticedNetwork,
               NoticedAnswer DEF Next
  <1>3. ReadInv /\ Noticed => UnreadIsNoticed
    <2>0. ReadInv => badge = TRUE \/ badge = FALSE
      BY Zenon DEF ReadInv, Types
    <2>1. SUFFICES ASSUME ReadInv, Noticed, stored < shown, ~broken, badge = FALSE,
                          client.at \notin {"reading", "rereading", "sending"},
                          ~(Waits(client.at) /\ client.len >= shown)
                   PROVE  conv.status # "ai_active"
      BY <2>0 DEF UnreadIsNoticed
    <2>2. shown \in Nat /\ client.len \in Nat
      BY <2>1, Lengths DEF ReadInv, Types, RequestType
    <2>3. ~Waits(client.at)
      BY <2>1, <2>2 DEF Noticed, RowHasShown
    <2>4. Gap
      BY <2>1, <2>3 DEF Gap, InHand, Waits
    <2> QED BY <2>1, <2>4 DEF Noticed, GapIsRead
  <1> QED BY <1>1, <1>2, <1>3, ReadInvariance, AnswerInvariance, PTL DEF Spec
=============================================================================
