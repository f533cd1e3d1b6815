----------------------- MODULE ConversationTurn_proofs -----------------------
(***************************************************************************)
(* Proofs about ConversationTurn for any number of turns, messages and     *)
(* attempts.                                                               *)
(*                                                                         *)
(* The properties are not inductive: each transaction decides on what it   *)
(* read when it took its lock.  The invariant Inv says what that still     *)
(* means when it writes: the writer's batch is generating and every queued *)
(* reply is among those it withdraws, the ingest replaces every active     *)
(* batch, and what a transaction loaded of the AI switch is still so       *)
(* wherever it decides.  The turns are used in order, so that an active    *)
(* one is the newest.                                                      *)
(*                                                                         *)
(* The last part maps every step to one of TurnTaking or to none; an       *)
(* opt-out that writes withdraws all that waits (OptOutWithdraws), and a   *)
(* step hands over only what it ends (HandedSettle).                       *)
(***************************************************************************)
EXTENDS ConversationTurn, WellFoundedInduction, FiniteSetTheorems, TLAPS

TurnOrder ==
    /\ \A t \in Present, s \in Turns : s < t => s \in Present
    /\ \A t \in Active : Newest(t)

WriterHoldsBatch ==
    /\ writing.turn # NoTurn => batch[writing.turn].status = "generating"
    /\ writing.turn = NoTurn <=> writing.decision = "none"

IngestCoversActive ==
    /\ request.batches \subseteq Present
    /\ request.at = "idle" => request = NoRequest
    /\ request.at = "read" => request.onto = NoTurn
    /\ request.at = "read" /\ request.kind # "sales" =>
           \A t \in request.batches : reply[t].status # "none"
    /\ request.at = "locked" => request.kind # "sales"
    /\ request.at = "locked" /\ request.onto = NoTurn => Active \subseteq request.batches
    /\ request.onto # NoTurn =>
           /\ request.onto \in Present
           /\ batch[request.onto].messages < MaxMessages
           /\ \A t \in request.batches : reply[t].status # "none"

IngestHasRoom ==
    /\ request.at # "idle" /\ request.kind # "sales" => Absent # {}
    /\ request.at # "idle" /\ request.kind \in {"customer", "gated"} =>
           \A t \in Turns : batch[t].status = "collecting"
                              => batch[t].messages < MaxMessages

RepliesFollow ==
    /\ \A t \in Turns : reply[t].status # "none" => t \in Present /\ t \notin Active
    /\ \A t \in request.replies \cup writing.replies \cup writing.batches :
           reply[t].status # "none"
    /\ \A s, t \in Queued : s = t
    /\ writing.decision \in Replying => Queued \subseteq writing.replies

AttemptsLast ==
    /\ \A t \in Turns : batch[t].status = "retry_wait" => batch[t].attempt < MaxAttempts
    /\ \A t \in Turns : batch[t].status \in {"absent", "collecting"}
                          => batch[t].attempt = 0
    /\ \A g \in generators : g.attempt <= batch[g.turn].attempt
    /\ writing.decision = "retry_later" => batch[writing.turn].attempt < MaxAttempts

AISwitch ==
    /\ optedOut => ~conv.ai /\ ~handoff.pause
    /\ handoff.pause => ~conv.ai /\ HandoffOpen
    /\ request.resume => request.open
    /\ request.at # "idle" /\ ~request.ai => ~conv.ai
    /\ optedOut /\ request.at # "idle" /\ request.resume => request.ai
    /\ \A g \in generators : g.called /\ Generating(g.turn, g.attempt) => conv.ai
    /\ writing.decision \in Decisions => conv.ai /\ writing.ai

Inv == /\ TypeOK /\ TurnOrder /\ WriterHoldsBatch /\ IngestCoversActive
       /\ IngestHasRoom /\ RepliesFollow /\ AttemptsLast /\ AISwitch

-----------------------------------------------------------------------------
(* The tables after a transaction *)

BatchRows == [status : BatchStatuses, attempt : 0 .. MaxAttempts,
              messages : 0 .. MaxMessages, origin : ConvStatuses \cup {"none"}]
ReplyRows == [status : ReplyStatuses, boundary : BOOLEAN]

(* A set of natural numbers has a least element. *)
LEMMA LeastElement ==
  ASSUME NEW S, S \subseteq Nat, S # {}
  PROVE  \E x \in S : \A y \in S : x <= y
  <1> DEFINE Less == {ss \in Nat \X Nat : ss[1] < ss[2]}
  <1>1. IsWellFoundedOn(Less, Nat)
    BY NatLessThanWellFounded DEF OpToRel
  <1>2. \A x, y \in Nat : x < y => <<x, y>> \in Less
    OBVIOUS
  <1> HIDE DEF Less
  <1>3. PICK x \in S : \A y \in S : ~(<<y, x>> \in Less)
    BY <1>1, WFMin
  <1>4. \A y \in S : ~(y < x)
    BY <1>2, <1>3
  <1>5. x \in Nat /\ \A y \in S : y \in Nat
    BY <1>3
  <1>6. \A y \in S : x <= y
    BY <1>4, <1>5
  <1> QED BY <1>3, <1>6

LEMMA AtMostOne ==
  ASSUME NEW S, \A s, t \in S : s = t
  PROVE  Cardinality(S) <= 1
  <1>1. CASE S = {}
    BY <1>1, FS_EmptySet
  <1>2. ASSUME NEW s \in S
        PROVE  Cardinality(S) <= 1
    <2>1. S = {s}
      OBVIOUS
    <2> QED BY <2>1, FS_Singleton
  <1> QED BY <1>1, <1>2

LEMMA FreshIsFirst ==
  ASSUME Absent # {}
  PROVE  /\ Fresh \in Absent /\ Fresh \in Turns
         /\ \A s \in Absent : Fresh <= s
  <1>1. Absent \subseteq Nat
    BY ConversationTurnAssumption DEF Absent, Turns
  <1>2. \E t \in Absent : \A s \in Absent : t <= s
    BY <1>1, LeastElement
  <1>3. Fresh \in Absent /\ \A s \in Absent : Fresh <= s
    BY <1>2 DEF Fresh
  <1> QED BY <1>3 DEF Absent

LEMMA WithdrawnReplies ==
  ASSUME TypeOK, NEW replies \in SUBSET Turns
  PROVE  /\ Withdrawn(replies) \in [Turns -> ReplyRows]
         /\ \A t \in Turns : Withdrawn(replies)[t].status =
                IF t \in replies THEN "withdrawn" ELSE reply[t].status
  BY DEF Withdrawn, TypeOK, ReplyRows, ReplyStatuses

LEMMA RewrittenBatches ==
  ASSUME TypeOK, NEW batches \in SUBSET Turns, NEW status \in BatchStatuses
  PROVE  /\ Rewritten(batches, status) \in [Turns -> BatchRows]
         /\ \A t \in Turns :
               /\ Rewritten(batches, status)[t].status =
                      IF t \in batches THEN status ELSE batch[t].status
               /\ Rewritten(batches, status)[t].attempt = batch[t].attempt
               /\ Rewritten(batches, status)[t].messages = batch[t].messages
  BY DEF Rewritten, TypeOK, BatchRows

LEMMA SettledBatches ==
  ASSUME TypeOK, writing.turn # NoTurn,
         NEW old \in BatchStatuses, NEW status \in BatchStatuses
  PROVE  LET new == [Rewritten(writing.batches, old)
                        EXCEPT ![writing.turn].status = status]
         IN  /\ new \in [Turns -> BatchRows]
             /\ \A t \in Turns :
                   /\ new[t].status = IF t = writing.turn THEN status
                                      ELSE IF t \in writing.batches THEN old
                                      ELSE batch[t].status
                   /\ new[t].attempt = batch[t].attempt
                   /\ new[t].messages = batch[t].messages
  <1> DEFINE mid == Rewritten(writing.batches, old)
  <1>1. writing.turn \in Turns /\ writing.batches \in SUBSET Turns
    BY ConversationTurnAssumption DEF TypeOK, Turns, NoTurn
  <1>2. /\ mid \in [Turns -> BatchRows]
        /\ \A t \in Turns :
             /\ mid[t].status = IF t \in writing.batches THEN old ELSE batch[t].status
             /\ mid[t].attempt = batch[t].attempt
             /\ mid[t].messages = batch[t].messages
    BY <1>1, RewrittenBatches
  <1> HIDE DEF mid
  <1> DEFINE row == [mid[writing.turn] EXCEPT !.status = status]
             new == [mid EXCEPT ![writing.turn] = row]
  <1>3. /\ row \in BatchRows /\ row.status = status
        /\ row.attempt = batch[writing.turn].attempt
        /\ row.messages = batch[writing.turn].messages
    BY <1>1, <1>2 DEF BatchRows
  <1> HIDE DEF row
  <1>4. /\ new \in [Turns -> BatchRows]
        /\ \A t \in Turns : new[t] = IF t = writing.turn THEN row ELSE mid[t]
    BY <1>1, <1>2, <1>3
  <1> HIDE DEF new
  <1>5. new = [mid EXCEPT ![writing.turn].status = status]
    BY DEF new, row
  <1> QED BY <1>2, <1>3, <1>4, <1>5 DEF mid

(* The batch that takes the message: an active one, or the next. *)
LEMMA FilledIsTurn ==
  ASSUME TypeOK, IngestCoversActive, IngestHasRoom, request.at = "locked"
  PROVE  /\ Filled \in Turns
         /\ request.onto # NoTurn => Filled = request.onto /\ Filled \in Present
         /\ request.onto = NoTurn => /\ Filled \in Absent
                                     /\ \A s \in Absent : Filled <= s
  <1>1. CASE request.onto = NoTurn
    BY <1>1, FreshIsFirst DEF Filled, IngestCoversActive, IngestHasRoom
  <1>2. CASE request.onto # NoTurn
    BY <1>2 DEF Filled, IngestCoversActive, Present
  <1> QED BY <1>1, <1>2

LEMMA FilledBatches ==
  ASSUME TypeOK, IngestCoversActive, IngestHasRoom, request.at = "locked",
         NEW status \in BatchStatuses, NEW messages \in 0 .. MaxMessages
  PROVE  LET new == WithMessage(status, messages)
         IN  /\ new \in [Turns -> BatchRows]
             /\ \A t \in Turns \ {Filled} :
                   /\ new[t].status = IF t \in request.batches THEN "superseded"
                                      ELSE batch[t].status
                   /\ new[t].attempt = batch[t].attempt
                   /\ new[t].messages = batch[t].messages
             /\ new[Filled].status =
                   IF request.onto # NoTurn /\ status = "collecting"
                   THEN batch[Filled].status ELSE status
             /\ new[Filled].attempt =
                   IF request.onto # NoTurn THEN batch[Filled].attempt ELSE 0
             /\ new[Filled].messages =
                   IF request.onto # NoTurn THEN batch[Filled].messages + 1
                   ELSE messages
  <1> DEFINE old  == Rewritten(request.batches \ {Filled}, "superseded")
             row  == IF request.onto # NoTurn
                     THEN [batch[Filled] EXCEPT
                              !.messages = batch[Filled].messages + 1,
                              !.status = IF status = "collecting"
                                         THEN batch[Filled].status ELSE status]
                     ELSE [status |-> status, attempt |-> 0, messages |-> messages,
                           origin |-> IF status # "collecting" THEN "none"
                                      ELSE IF request.status = "none"
                                      THEN "waiting_sales_reply" ELSE request.status]
  <1>1. WithMessage(status, messages) = [old EXCEPT ![Filled] = row]
    BY DEF WithMessage
  <1>2. Filled \in Turns
    BY FilledIsTurn
  <1>3. /\ old \in [Turns -> BatchRows]
        /\ \A t \in Turns :
             /\ old[t].status = IF t \in request.batches \ {Filled} THEN "superseded"
                                ELSE batch[t].status
             /\ old[t].attempt = batch[t].attempt
             /\ old[t].messages = batch[t].messages
    <2>1. request.batches \ {Filled} \in SUBSET Turns /\ "superseded" \in BatchStatuses
      BY DEF TypeOK, BatchStatuses
    <2> QED BY <2>1, RewrittenBatches
  <1> HIDE DEF old
  <1>4. /\ row \in BatchRows
        /\ row.status = IF request.onto # NoTurn /\ status = "collecting"
                        THEN batch[Filled].status ELSE status
        /\ row.attempt = IF request.onto # NoTurn THEN batch[Filled].attempt ELSE 0
        /\ row.messages = IF request.onto # NoTurn THEN batch[Filled].messages + 1
                          ELSE messages
    <2>1. CASE request.onto # NoTurn
      <3>1. /\ Filled = request.onto
            /\ batch[Filled].messages < MaxMessages
            /\ batch[Filled] \in BatchRows
        BY <2>1, <1>2, FilledIsTurn DEF IngestCoversActive, TypeOK, BatchRows
      <3>2. batch[Filled].messages + 1 \in 0 .. MaxMessages
        BY <3>1, <1>2, ConversationTurnAssumption DEF BatchRows
      <3> QED BY <2>1, <1>2, <1>3, <3>1, <3>2 DEF BatchRows
    <2>2. CASE request.onto = NoTurn
      <3>1. request.status \in ConvStatuses \cup {"none"}
        BY DEF TypeOK
      <3>2. 0 \in 0 .. MaxAttempts
        BY ConversationTurnAssumption
      <3> QED BY <2>2, <3>1, <3>2 DEF BatchRows, ConvStatuses
    <2> QED BY <2>1, <2>2
  <1> HIDE DEF row
  <1> QED BY <1>1, <1>2, <1>3, <1>4 DEF BatchRows

-----------------------------------------------------------------------------
LEMMA InitInv == Init => Inv
  <1> SUFFICES ASSUME Init PROVE Inv
    OBVIOUS
  <1>1. TypeOK
    <2>1. /\ 0 \in 0 .. MaxTurns /\ 0 \in 0 .. MaxAttempts /\ 0 \in 0 .. MaxMessages
      BY ConversationTurnAssumption
    <2>2. conv \in [status : ConvStatuses, ai : BOOLEAN]
      BY DEF Init, ConvStatuses
    <2>3. batch \in [Turns -> [status : BatchStatuses, attempt : 0 .. MaxAttempts,
                              messages : 0 .. MaxMessages,
                              origin : ConvStatuses \cup {"none"}]]
      BY <2>1 DEF Init, BatchStatuses
    <2>4. reply \in [Turns -> [status : ReplyStatuses, boundary : BOOLEAN]]
      BY DEF Init, ReplyStatuses
    <2>5. handoff \in [turn : 0 .. MaxTurns, soft : BOOLEAN, pause : BOOLEAN]
      BY <2>1 DEF Init, NoHandoff, NoTurn
    <2>6. request \in [at : {"idle", "read", "locked"}, kind : Kinds \cup {"none"},
                      status : ConvStatuses \cup {"none"}, ai : BOOLEAN,
                      open : BOOLEAN, resume : BOOLEAN, replies : SUBSET Turns,
                      batches : SUBSET Turns, onto : 0 .. MaxTurns]
      BY <2>1 DEF Init, NoRequest, NoTurn
    <2>7. writing \in [turn : 0 .. MaxTurns,
                      decision : Decisions \cup {"none", "exhausted", "ineligible"},
                      status : ConvStatuses \cup {"none"}, ai : BOOLEAN,
                      replies : SUBSET Turns, batches : SUBSET Turns]
      BY <2>1 DEF Init, NoWriter, NoTurn
    <2> QED BY <2>2, <2>3, <2>4, <2>5, <2>6, <2>7 DEF Init, TypeOK
  <1>2. /\ \A t \in Turns : /\ batch[t].status = "absent" /\ batch[t].attempt = 0
                            /\ reply[t].status = "none"
        /\ request.at = "idle" /\ request.batches = {} /\ request.replies = {}
        /\ request.onto = NoTurn /\ request = NoRequest
        /\ writing.turn = NoTurn /\ writing.decision = "none"
        /\ writing.replies = {} /\ writing.batches = {}
        /\ generators = {} /\ optedOut = FALSE
    BY DEF Init, NoRequest, NoWriter
  <1>3. Active = {} /\ Present = {} /\ Queued = {}
    BY <1>2 DEF Active, ActiveStatuses, Present, Queued
  <1>4. TurnOrder /\ WriterHoldsBatch /\ IngestCoversActive /\ IngestHasRoom
    BY <1>2, <1>3 DEF TurnOrder, WriterHoldsBatch, IngestCoversActive, IngestHasRoom
  <1>5. RepliesFollow /\ AttemptsLast
    BY <1>2, <1>3 DEF RepliesFollow, AttemptsLast, Replying
  <1>6. AISwitch
    <2>1. ~handoff.pause /\ ~request.resume
      BY DEF Init, NoHandoff, NoRequest
    <2> QED BY <1>2, <2>1 DEF AISwitch, Decisions
  <1> QED BY <1>1, <1>4, <1>5, <1>6 DEF Inv

-----------------------------------------------------------------------------
(* The ingest *)

LEMMA EnforceGateInv ==
  ASSUME Inv, EnforceGate
  PROVE  Inv'
  <1>1. TypeOK'
    <2>1. conv' \in [status : ConvStatuses, ai : BOOLEAN]
      BY DEF Inv, TypeOK, EnforceGate, ConvStatuses
    <2> QED BY <2>1 DEF Inv, TypeOK, EnforceGate
  <1>2. conv'.ai = conv.ai
    BY DEF Inv, TypeOK, EnforceGate
  <1>3. (TurnOrder /\ WriterHoldsBatch /\ IngestCoversActive)'
    BY DEF Inv, EnforceGate, TurnOrder, WriterHoldsBatch, IngestCoversActive,
           Present, Active, Newest
  <1>4. (IngestHasRoom /\ RepliesFollow /\ AttemptsLast)'
    BY DEF Inv, EnforceGate, IngestHasRoom, RepliesFollow, AttemptsLast,
           Present, Active, Absent, Queued
  <1>5. AISwitch'
    BY <1>2 DEF Inv, EnforceGate, AISwitch, HandoffOpen, Generating
  <1> QED BY <1>1, <1>3, <1>4, <1>5 DEF Inv

LEMMA ReadInv ==
  ASSUME Inv, NEW kind \in Kinds, NEW resume \in BOOLEAN,
         NEW replies \in SUBSET Turns, NEW batches \in SUBSET Turns,
         Read(kind, resume, replies, batches),
         batches \subseteq Present,
         optedOut => ~resume, resume => HandoffOpen,
         \A t \in replies : reply[t].status # "none",
         kind # "sales" => /\ \A t \in batches : reply[t].status # "none"
                           /\ Absent # {},
         kind \in {"customer", "gated"} => RoomForTurn
  PROVE  Inv'
  <1>1. LoadedStatus \in ConvStatuses \cup {"none"}
    BY DEF Inv, TypeOK, LoadedStatus
  <1> DEFINE q == [at |-> "read", kind |-> kind, status |-> LoadedStatus,
                   ai |-> conv.ai, open |-> HandoffOpen, resume |-> resume,
                   replies |-> replies, batches |-> batches, onto |-> NoTurn]
  <1>2. request' = q
    BY DEF Read, NoRequest
  <1>3. UNCHANGED <<conv, batch, reply, handoff, handed, generators, writing, optedOut>>
    BY DEF Read
  <1>4. TypeOK'
    BY <1>1, <1>2, <1>3, ConversationTurnAssumption DEF Inv, TypeOK, HandoffOpen, NoTurn
  <1>5. (TurnOrder /\ WriterHoldsBatch)'
    BY <1>3 DEF Inv, TurnOrder, WriterHoldsBatch, Present, Active, Newest
  <1>6. (IngestCoversActive /\ IngestHasRoom)'
    BY <1>2, <1>3 DEF IngestCoversActive, IngestHasRoom, RoomForTurn, Present, Absent
  <1>7. (RepliesFollow /\ AttemptsLast)'
    BY <1>2, <1>3 DEF Inv, RepliesFollow, AttemptsLast, Present, Active, Queued
  <1>8. AISwitch'
    BY <1>2, <1>3 DEF Inv, AISwitch, HandoffOpen, Generating
  <1> QED BY <1>4, <1>5, <1>6, <1>7, <1>8 DEF Inv

LEMMA ReadNextInv ==
  ASSUME Inv, ReadNext
  PROVE  Inv'
  <1>1. /\ Queued \in SUBSET Turns /\ Dragged(Queued) \in SUBSET Turns
        /\ Active \in SUBSET Turns /\ Dragged(Queued) \subseteq Queued
        /\ Active \subseteq Present
        /\ \A t \in Queued : reply[t].status # "none" /\ t \in Present
    BY DEF Inv, RepliesFollow, Queued, Dragged, Active, ActiveStatuses, Present
  <1>2. ASSUME NEW kind \in {"customer", "gated"}, ReadMessage(kind)
        PROVE  Inv'
    BY <1>1, <1>2, ReadInv DEF ReadMessage, RoomForTurn, Kinds
  <1>3. CASE ReadGateOnly
    <2>1. {} \in SUBSET Turns /\ "control" \in Kinds
      BY DEF Kinds
    <2> QED BY <1>3, <2>1, ReadInv DEF ReadGateOnly
  <1>4. CASE ReadSales
    <2>1. /\ Active \cup Dragged(Queued) \in SUBSET Turns
          /\ Active \cup Dragged(Queued) \subseteq Present
          /\ handoff.pause \in BOOLEAN /\ "sales" \in Kinds
      BY <1>1 DEF Inv, TypeOK, Kinds
    <2>2. /\ optedOut => ~handoff.pause
          /\ handoff.pause => HandoffOpen
      BY DEF Inv, AISwitch
    <2> QED BY <1>1, <1>4, <2>1, <2>2, ReadInv DEF ReadSales
  <1>5. CASE ReadRecovered
    <2>1. {} \in SUBSET Turns /\ "recovered" \in Kinds
      BY DEF Kinds
    <2> QED BY <1>5, <2>1, ReadInv DEF ReadRecovered
  <1> QED BY <1>2, <1>3, <1>4, <1>5 DEF ReadNext

LEMMA LockInv ==
  ASSUME Inv, LockForMessage \/ LockForControl
  PROVE  Inv'
  <1>1. UNCHANGED <<conv, batch, reply, handoff, handed, generators, writing, optedOut>>
    BY DEF LockForMessage, LockForControl
  <1>2. /\ Queued \in SUBSET Turns /\ Dragged(Queued) \in SUBSET Turns
        /\ Active \in SUBSET Turns /\ Active \subseteq Present
        /\ Dragged(Queued) \subseteq Queued
        /\ \A t \in Queued : reply[t].status # "none" /\ t \in Present
        /\ \A t \in Active : reply[t].status = "none"
        /\ \A s, t \in Active : s = t
    <2>1. /\ Queued \in SUBSET Turns /\ Dragged(Queued) \in SUBSET Turns
          /\ Active \in SUBSET Turns /\ Active \subseteq Present
          /\ Dragged(Queued) \subseteq Queued
      BY DEF Queued, Dragged, Active, ActiveStatuses, Present
    <2>2. \A t \in Queued : reply[t].status # "none" /\ t \in Present
      BY DEF Inv, RepliesFollow, Queued
    <2>3. \A t \in Active : reply[t].status = "none"
      BY <2>1 DEF Inv, RepliesFollow
    <2>4. \A s, t \in Active : s <= t /\ t <= s
      BY <2>1 DEF Inv, TurnOrder, Newest
    <2>5. \A s, t \in Active : s \in Nat /\ t \in Nat
      BY <2>1, ConversationTurnAssumption DEF Turns
    <2>6. \A s, t \in Active : s = t
      BY <2>4, <2>5
    <2> QED BY <2>1, <2>2, <2>3, <2>6
  <1>3. ASSUME NEW replies \in SUBSET Turns, NEW batches \in SUBSET Turns,
               NEW onto \in 0 .. MaxTurns,
               request' = [request EXCEPT !.at = "locked", !.replies = replies,
                                          !.batches = batches, !.onto = onto],
               request.at = "read", request.kind # "sales",
               \A t \in replies : reply[t].status # "none",
               batches \subseteq Present,
               onto = NoTurn => Active \subseteq batches,
               onto # NoTurn => /\ onto \in Present
                                /\ batch[onto].messages < MaxMessages
                                /\ \A t \in batches : reply[t].status # "none"
        PROVE  Inv'
    <2>1. /\ request'.at = "locked" /\ request'.kind = request.kind
          /\ request'.replies = replies /\ request'.batches = batches
          /\ request'.onto = onto /\ request'.ai = request.ai
          /\ request'.resume = request.resume /\ request'.open = request.open
      BY <1>3 DEF Inv, TypeOK
    <2>2. TypeOK'
      BY <1>1, <1>3 DEF Inv, TypeOK
    <2>3. (TurnOrder /\ WriterHoldsBatch)'
      BY <1>1 DEF Inv, TurnOrder, WriterHoldsBatch, Present, Active, Newest
    <2>4. IngestCoversActive'
      BY <1>1, <1>3, <2>1 DEF IngestCoversActive, Present, Active
    <2>5. IngestHasRoom'
      BY <1>1, <1>3, <2>1 DEF Inv, IngestHasRoom, Absent, Present
    <2>6. (RepliesFollow /\ AttemptsLast)'
      BY <1>1, <1>3, <2>1 DEF Inv, RepliesFollow, AttemptsLast, Present, Active, Queued
    <2>7. AISwitch'
      BY <1>1, <1>3, <2>1 DEF Inv, AISwitch, HandoffOpen, Generating
    <2> QED BY <2>2, <2>3, <2>4, <2>5, <2>6, <2>7 DEF Inv
  <1>4. CASE request' = NoRequest
    <2>1. /\ request'.at = "idle" /\ request'.replies = {} /\ request'.batches = {}
          /\ request'.onto = NoTurn /\ ~request'.resume
      BY <1>4 DEF NoRequest
    <2>2. TypeOK'
      BY <1>1, <1>4, ConversationTurnAssumption DEF Inv, TypeOK, NoRequest, NoTurn
    <2>3. (TurnOrder /\ WriterHoldsBatch)'
      BY <1>1 DEF Inv, TurnOrder, WriterHoldsBatch, Present, Active, Newest
    <2>4. (IngestCoversActive /\ IngestHasRoom)'
      BY <1>4, <2>1 DEF IngestCoversActive, IngestHasRoom, NoRequest
    <2>5. (RepliesFollow /\ AttemptsLast)'
      BY <1>1, <2>1 DEF Inv, RepliesFollow, AttemptsLast, Present, Active, Queued
    <2>6. AISwitch'
      BY <1>1, <2>1 DEF Inv, AISwitch, HandoffOpen, Generating
    <2> QED BY <2>2, <2>3, <2>4, <2>5, <2>6 DEF Inv
  <1>5. CASE LockForControl
    <2>1. request' = [request EXCEPT !.at = "locked", !.replies = request.replies,
                                     !.batches = Active, !.onto = NoTurn]
      BY <1>5 DEF LockForControl, Inv, TypeOK, IngestCoversActive
    <2>2. /\ request.replies \in SUBSET Turns /\ NoTurn \in 0 .. MaxTurns
          /\ \A t \in request.replies : reply[t].status # "none"
      BY ConversationTurnAssumption DEF Inv, TypeOK, NoTurn, RepliesFollow
    <2>3. request.at = "read" /\ request.kind # "sales"
      BY <1>5 DEF LockForControl
    <2> QED BY <1>2, <1>3, <2>1, <2>2, <2>3
  <1>6. CASE LockForMessage /\ request' # NoRequest
    <2> DEFINE replaced == {t \in Active : \/ request.kind = "recovered"
                                           \/ batch[t].status # "collecting"}
               joined   == Active \ replaced
               again    == IF replaced = {} THEN {} ELSE Queued
               replies  == request.replies \cup again
               batches  == request.batches \cup replaced \cup Dragged(again)
               onto     == IF joined = {} THEN NoTurn ELSE CHOOSE t \in joined : TRUE
    <2>1. /\ request.at = "read" /\ request.kind \in {"customer", "gated", "recovered"}
          /\ request' = [request EXCEPT !.at = "locked", !.replies = replies,
                                        !.batches = batches, !.onto = onto]
      BY <1>6 DEF LockForMessage
    <2>2. /\ replaced \subseteq Active /\ again \subseteq Queued
          /\ Dragged(again) \subseteq again
      BY DEF Dragged
    <2>3. joined # {} => onto \in joined
      OBVIOUS
    <2>4. joined # {} => replaced = {} /\ again = {} /\ Dragged(again) = {}
      BY <1>2, <2>2
    <2>5. /\ replies \in SUBSET Turns /\ batches \in SUBSET Turns
          /\ \A t \in request.replies : reply[t].status # "none"
          /\ request.batches \subseteq Present
          /\ \A t \in request.batches : reply[t].status # "none"
      BY <1>2, <2>1, <2>2 DEF Inv, TypeOK, RepliesFollow, IngestCoversActive
    <2>6. joined # {} => batch[onto].messages < MaxMessages
      <3>1. \A t \in joined : batch[t].status = "collecting"
                              /\ request.kind \in {"customer", "gated"} /\ t \in Turns
        BY <1>2, <2>1
      <3> HIDE DEF joined, onto
      <3> QED BY <2>1, <2>3, <3>1 DEF Inv, IngestHasRoom
    <2>7. joined # {} => onto \in Present /\ onto \in 0 .. MaxTurns /\ onto # NoTurn
      <3>1. \A t \in joined : t \in Present /\ t \in Turns
        BY <1>2
      <3> HIDE DEF joined, onto
      <3> QED BY <2>3, <3>1, ConversationTurnAssumption DEF Turns, NoTurn
    <2>8. joined = {} => onto = NoTurn /\ Active \subseteq batches /\ onto \in 0 .. MaxTurns
      BY ConversationTurnAssumption DEF NoTurn
    <2>9. /\ \A t \in replies : reply[t].status # "none"
          /\ batches \subseteq Present
          /\ joined # {} => \A t \in batches : reply[t].status # "none"
      BY <1>2, <2>2, <2>4, <2>5
    <2> HIDE DEF replaced, joined, again, replies, batches, onto
    <2> QED BY <1>3, <2>1, <2>5, <2>6, <2>7, <2>8, <2>9
  <1> QED BY <1>4, <1>5, <1>6

LEMMA Opened ==
  ASSUME TypeOK, NEW t \in Turns, NEW soft \in BOOLEAN, NEW pause \in BOOLEAN,
         OpenHandoff(t, soft, pause)
  PROVE  /\ handoff' \in [turn : 0 .. MaxTurns, soft : BOOLEAN, pause : BOOLEAN]
         /\ handed' \in SUBSET Turns
         /\ handoff'.pause \in {handoff.pause, pause}
         /\ HandoffOpen'
  <1>1. t \in 0 .. MaxTurns /\ t # NoTurn
    BY ConversationTurnAssumption DEF Turns, NoTurn
  <1> QED BY <1>1 DEF OpenHandoff, HandoffOpen, TypeOK

LEMMA IngestWrites ==
  ASSUME Inv, request.at = "locked", RowsFree,
         NEW status \in {"collecting", "handoff_created"},
         NEW messages \in {0, 1},
         batch' = WithMessage(status, messages),
         reply' = Withdrawn(request.replies),
         conv' \in [status : ConvStatuses, ai : BOOLEAN], conv'.ai = conv.ai,
         handoff' \in [turn : 0 .. MaxTurns, soft : BOOLEAN, pause : BOOLEAN],
         handoff'.pause \in {handoff.pause, FALSE}, handoff'.pause => HandoffOpen',
         handed' \in SUBSET Turns,
         request' = NoRequest,
         UNCHANGED <<generators, writing, optedOut>>
  PROVE  Inv'
  <1>1. /\ request'.at = "idle" /\ request'.replies = {} /\ request'.batches = {}
        /\ request'.onto = NoTurn /\ ~request'.resume
    BY DEF NoRequest
  <1>2. /\ Filled \in Turns
        /\ request.onto # NoTurn => Filled = request.onto /\ Filled \in Present
        /\ request.onto = NoTurn => /\ Filled \in Absent
                                    /\ \A s \in Absent : Filled <= s
    BY FilledIsTurn DEF Inv
  <1>3. /\ batch' \in [Turns -> BatchRows]
        /\ \A t \in Turns \ {Filled} :
              /\ batch'[t].status = IF t \in request.batches THEN "superseded"
                                    ELSE batch[t].status
              /\ batch'[t].attempt = batch[t].attempt
        /\ batch'[Filled].status = IF request.onto # NoTurn /\ status = "collecting"
                                   THEN batch[Filled].status ELSE status
        /\ batch'[Filled].attempt = IF request.onto # NoTurn
                                    THEN batch[Filled].attempt ELSE 0
    <2>1. status \in BatchStatuses /\ messages \in 0 .. MaxMessages
      BY ConversationTurnAssumption DEF BatchStatuses, ActiveStatuses
    <2> QED BY <2>1, FilledBatches DEF Inv
  <1>4. /\ reply' \in [Turns -> ReplyRows]
        /\ \A t \in Turns : reply'[t].status =
              IF t \in request.replies THEN "withdrawn" ELSE reply[t].status
    <2>1. request.replies \in SUBSET Turns
      BY DEF Inv, TypeOK
    <2> QED BY <2>1, WithdrawnReplies DEF Inv
  <1>5. \A t \in Turns : batch'[t].attempt = batch[t].attempt
    BY <1>2, <1>3 DEF Inv, AttemptsLast, Absent, Present
  <1>6. Present' = Present \cup {Filled}
    BY <1>2, <1>3 DEF Inv, IngestCoversActive, Present
  <1>7. /\ request.onto # NoTurn => Active' \subseteq Active
        /\ request.onto = NoTurn => Active' \subseteq {Filled}
    <2>1. CASE request.onto # NoTurn
      BY <2>1, <1>2, <1>3 DEF Active, ActiveStatuses
    <2>2. CASE request.onto = NoTurn
      BY <2>2, <1>2, <1>3 DEF Inv, IngestCoversActive, Active, ActiveStatuses
    <2> QED BY <2>1, <2>2
  <1>8. /\ Queued' \subseteq Queued
        /\ \A t \in Turns : reply'[t].status # "none" => reply[t].status # "none"
        /\ \A t \in Turns : reply[t].status # "none" => reply'[t].status # "none"
    BY <1>4 DEF Inv, RepliesFollow, Queued
  <1>9. \A t \in Turns : batch'[t].status = "generating" => batch[t].status = "generating"
    BY <1>2, <1>3
  <1>10. TypeOK'
    <2>1. NoRequest \in [at : {"idle", "read", "locked"}, kind : Kinds \cup {"none"},
                    status : ConvStatuses \cup {"none"}, ai : BOOLEAN,
                    open : BOOLEAN, resume : BOOLEAN, replies : SUBSET Turns,
                    batches : SUBSET Turns, onto : 0 .. MaxTurns]
      BY ConversationTurnAssumption DEF NoRequest, NoTurn
    <2> QED BY <1>3, <1>4, <2>1 DEF Inv, TypeOK, BatchRows, ReplyRows
  <1>11. TurnOrder'
    <2>1. \A t \in Present', s \in Turns : s < t => s \in Present'
      <3>1. CASE request.onto # NoTurn
        BY <3>1, <1>2, <1>6 DEF Inv, TurnOrder
      <3>2. CASE request.onto = NoTurn
        <4>1. \A s \in Turns : s < Filled => s \in Present
          BY <3>2, <1>2, ConversationTurnAssumption DEF Absent, Turns
        <4> QED BY <4>1, <1>6 DEF Inv, TurnOrder
      <3> QED BY <3>1, <3>2
    <2>2. \A t \in Active', s \in Present' : s <= t
      <3>1. CASE request.onto # NoTurn
        BY <3>1, <1>2, <1>6, <1>7 DEF Inv, TurnOrder, Newest
      <3>2. CASE request.onto = NoTurn
        <4>1. \A s \in Present : s <= Filled
          <5>1. \A s \in Present : ~(Filled < s)
            BY <3>2, <1>2 DEF Inv, TurnOrder, Absent
          <5>2. \A s \in Present : s \in Nat /\ Filled \in Nat
            BY <1>2, ConversationTurnAssumption DEF Present, Turns
          <5> QED BY <5>1, <5>2
        <4>2. Filled <= Filled
          BY <1>2, ConversationTurnAssumption DEF Turns
        <4> QED BY <3>2, <4>1, <4>2, <1>6, <1>7
      <3> QED BY <3>1, <3>2
    <2> QED BY <2>1, <2>2 DEF TurnOrder, Newest
  <1>12. WriterHoldsBatch'
    <2>1. ASSUME writing.turn # NoTurn
          PROVE  batch'[writing.turn].status = "generating"
      <3>1. /\ writing.turn \in Turns /\ batch[writing.turn].status = "generating"
            /\ writing.turn \in Present
        BY <2>1, ConversationTurnAssumption
           DEF Inv, TypeOK, WriterHoldsBatch, Turns, NoTurn, Present
      <3>2. writing.turn \notin request.batches
        BY DEF RowsFree
      <3>3. writing.turn # Filled
        BY <2>1, <3>1, <1>2 DEF RowsFree, Absent
      <3> QED BY <3>1, <3>2, <3>3, <1>3
    <2> QED BY <2>1 DEF Inv, WriterHoldsBatch
  <1>13. (IngestCoversActive /\ IngestHasRoom)'
    BY <1>1 DEF IngestCoversActive, IngestHasRoom
  <1>14. RepliesFollow'
    <2>1. \A t \in Turns : reply'[t].status # "none" => t \in Present' /\ t \notin Active'
      BY <1>2, <1>6, <1>7, <1>8 DEF Inv, RepliesFollow, Absent
    <2>2. \A t \in writing.replies \cup writing.batches : reply'[t].status # "none"
      BY <1>8 DEF Inv, RepliesFollow, TypeOK
    <2> QED BY <1>1, <1>8, <2>1, <2>2 DEF Inv, RepliesFollow
  <1>15. AttemptsLast'
    <2>1. \A t \in Turns : batch'[t].status = "retry_wait"
                              => batch[t].status = "retry_wait"
      BY <1>2, <1>3
    <2>2. \A t \in Turns : batch'[t].status \in {"absent", "collecting"}
                              => batch[t].status \in {"absent", "collecting"}
      BY <1>2, <1>3 DEF Absent, Present
    <2>3. \A g \in generators : g.turn \in Turns
      BY DEF Inv, TypeOK
    <2>4. writing.decision = "retry_later" => writing.turn \in Turns
      BY ConversationTurnAssumption DEF Inv, TypeOK, WriterHoldsBatch, Turns, NoTurn
    <2> QED BY <1>5, <2>1, <2>2, <2>3, <2>4 DEF Inv, AttemptsLast
  <1>16. AISwitch'
    <2>1. \A g \in generators : Generating(g.turn, g.attempt)' => Generating(g.turn, g.attempt)
      BY <1>5, <1>9 DEF Inv, TypeOK, Generating
    <2> QED BY <1>1, <2>1 DEF Inv, AISwitch
  <1> QED BY <1>10, <1>11, <1>12, <1>13, <1>14, <1>15, <1>16 DEF Inv

LEMMA CommitMessageInv ==
  ASSUME Inv, CommitMessage \/ CommitGate
  PROVE  Inv'
  <1>1. /\ request.at = "locked" /\ RowsFree
        /\ reply' = Withdrawn(request.replies) /\ request' = NoRequest
        /\ UNCHANGED <<generators, writing, optedOut>>
    BY DEF CommitMessage, CommitGate
  <1>2. conv' \in [status : ConvStatuses, ai : BOOLEAN] /\ conv'.ai = conv.ai
    BY DEF Inv, TypeOK, CommitMessage, CommitGate, Written, ConvStatuses
  <1>3. CASE CommitMessage
    <2>0. /\ NoHandoff \in [turn : 0 .. MaxTurns, soft : BOOLEAN, pause : BOOLEAN]
          /\ ~NoHandoff.pause
      BY ConversationTurnAssumption DEF NoHandoff, NoTurn
    <2>1. /\ handoff' \in [turn : 0 .. MaxTurns, soft : BOOLEAN, pause : BOOLEAN]
          /\ handoff'.pause \in {handoff.pause, FALSE}
          /\ handoff'.pause => HandoffOpen'
          /\ handed' \in SUBSET Turns
      BY <1>3, <2>0 DEF CommitMessage, Inv, TypeOK, AISwitch, HandoffOpen
    <2>2. batch' = WithMessage("collecting", 1)
      BY <1>3 DEF CommitMessage
    <2> QED BY <1>1, <1>2, <2>1, <2>2, IngestWrites
  <1>4. CASE CommitGate
    <2>1. Filled \in Turns
      BY <1>1, FilledIsTurn DEF Inv
    <2>2. PICK soft \in BOOLEAN : OpenHandoff(Filled, soft, FALSE)
      BY <1>4 DEF CommitGate
    <2>3. /\ handoff' \in [turn : 0 .. MaxTurns, soft : BOOLEAN, pause : BOOLEAN]
          /\ handoff'.pause \in {handoff.pause, FALSE} /\ HandoffOpen'
          /\ handed' \in SUBSET Turns
      BY <2>1, <2>2, Opened DEF Inv
    <2>4. PICK messages \in {0, 1} : batch' = WithMessage("handoff_created", messages)
      BY <1>4 DEF CommitGate
    <2> QED BY <1>1, <1>2, <2>3, <2>4, IngestWrites
  <1> QED BY <1>3, <1>4

LEMMA NoRequestType ==
  /\ NoRequest \in [at : {"idle", "read", "locked"}, kind : Kinds \cup {"none"},
                    status : ConvStatuses \cup {"none"}, ai : BOOLEAN,
                    open : BOOLEAN, resume : BOOLEAN, replies : SUBSET Turns,
                    batches : SUBSET Turns, onto : 0 .. MaxTurns]
  /\ NoRequest.at = "idle" /\ NoRequest.replies = {} /\ NoRequest.batches = {}
  /\ NoRequest.onto = NoTurn /\ ~NoRequest.resume
  BY ConversationTurnAssumption DEF NoRequest, NoTurn

LEMMA NoWriterType ==
  /\ NoWriter \in [turn : 0 .. MaxTurns,
                   decision : Decisions \cup {"none", "exhausted", "ineligible"},
                   status : ConvStatuses \cup {"none"}, ai : BOOLEAN,
                   replies : SUBSET Turns, batches : SUBSET Turns]
  /\ NoWriter.turn = NoTurn /\ NoWriter.decision = "none"
  /\ NoWriter.replies = {} /\ NoWriter.batches = {}
  BY ConversationTurnAssumption DEF NoWriter, NoTurn

(* What the other writes of the tables have in common: no batch becomes    *)
(* active or is counted again, no reply is queued or forgotten.            *)
TablesSettle ==
    /\ batch' \in [Turns -> BatchRows] /\ reply' \in [Turns -> ReplyRows]
    /\ \A t \in Turns :
          /\ batch[t].status = "absent" <=> batch'[t].status = "absent"
          /\ batch'[t].status \in ActiveStatuses => batch'[t].status = batch[t].status
          /\ batch'[t].attempt = batch[t].attempt
          /\ batch'[t].messages = batch[t].messages
          /\ reply[t].status = "none" <=> reply'[t].status = "none"
          /\ reply'[t].status = "queued" => reply[t].status = "queued"

LEMMA TablesKept ==
  ASSUME Inv, TablesSettle
  PROVE  /\ Present' = Present /\ Absent' = Absent
         /\ Active' \subseteq Active /\ Queued' \subseteq Queued
         /\ TurnOrder'
         /\ \A t \in Turns : reply'[t].status # "none" => t \in Present' /\ t \notin Active'
         /\ \A s, t \in Queued' : s = t
         /\ \A t \in Turns : batch'[t].status = "retry_wait" => batch'[t].attempt < MaxAttempts
         /\ \A t \in Turns : batch'[t].status \in {"absent", "collecting"}
                          => batch'[t].attempt = 0
         /\ \A g \in generators : g.attempt <= batch'[g.turn].attempt
         /\ \A g \in generators : Generating(g.turn, g.attempt)' => Generating(g.turn, g.attempt)
  <1>1. Present' = Present /\ Absent' = Absent
    BY DEF TablesSettle, Present, Absent
  <1>2. Active' \subseteq Active /\ Queued' \subseteq Queued
    BY DEF TablesSettle, Active, ActiveStatuses, Queued
  <1>3. TurnOrder'
    BY <1>1, <1>2 DEF Inv, TurnOrder, Newest
  <1>4. \A t \in Turns : reply'[t].status # "none" => t \in Present' /\ t \notin Active'
    BY <1>1, <1>2 DEF Inv, RepliesFollow, TablesSettle
  <1>5. \A s, t \in Queued' : s = t
    BY <1>2 DEF Inv, RepliesFollow
  <1>6. /\ \A t \in Turns : batch'[t].status = "retry_wait" => batch'[t].attempt < MaxAttempts
        /\ \A t \in Turns : batch'[t].status \in {"absent", "collecting"}
                          => batch'[t].attempt = 0
    BY DEF Inv, AttemptsLast, TablesSettle, ActiveStatuses
  <1>7. /\ \A g \in generators : g.attempt <= batch'[g.turn].attempt
        /\ \A g \in generators : Generating(g.turn, g.attempt)' => Generating(g.turn, g.attempt)
    BY DEF Inv, TypeOK, AttemptsLast, TablesSettle, ActiveStatuses, Generating
  <1> QED BY <1>1, <1>2, <1>3, <1>4, <1>5, <1>6, <1>7

(* The writes that leave the request and the writer alone, and do not      *)
(* touch the writer's batch.                                               *)
LEMMA OutsideWrites ==
  ASSUME Inv, TablesSettle,
         writing.turn # NoTurn => batch'[writing.turn].status = "generating",
         conv' \in [status : ConvStatuses, ai : BOOLEAN],
         handoff' \in [turn : 0 .. MaxTurns, soft : BOOLEAN, pause : BOOLEAN],
         handed' \in SUBSET Turns,
         conv.ai => conv'.ai, conv'.ai => conv.ai \/ (~optedOut /\ request' = NoRequest),
         handoff'.pause => handoff.pause /\ ~conv'.ai /\ HandoffOpen',
         request' \in {request, NoRequest},
         UNCHANGED <<generators, writing, optedOut>>
  PROVE  Inv'
  <1>1. TypeOK'
    BY NoRequestType DEF Inv, TypeOK, TablesSettle, BatchRows, ReplyRows
  <1>2. TurnOrder'
    BY TablesKept
  <1>3. WriterHoldsBatch'
    BY DEF Inv, WriterHoldsBatch
  <1>4. IngestCoversActive'
    <2>1. CASE request' = NoRequest
      BY <2>1, NoRequestType DEF IngestCoversActive
    <2>2. CASE request' = request
      <3>1. request.onto # NoTurn => request.onto \in Turns
        BY DEF Inv, IngestCoversActive, Present
      <3>2. \A t \in request.batches : reply[t].status # "none" => reply'[t].status # "none"
        BY DEF Inv, TypeOK, TablesSettle
      <3> QED BY <2>2, <3>1, <3>2, TablesKept DEF Inv, IngestCoversActive, TablesSettle
    <2> QED BY <2>1, <2>2
  <1>5. IngestHasRoom'
    <2>1. CASE request' = NoRequest
      BY <2>1, NoRequestType DEF IngestHasRoom
    <2>2. CASE request' = request
      BY <2>2, TablesKept DEF Inv, IngestHasRoom, TablesSettle, ActiveStatuses
    <2> QED BY <2>1, <2>2
  <1>6. RepliesFollow'
    <2>1. \A t \in request'.replies \cup writing.replies \cup writing.batches :
              t \in Turns /\ reply[t].status # "none"
      BY NoRequestType DEF Inv, TypeOK, RepliesFollow
    <2>2. \A t \in request'.replies \cup writing.replies \cup writing.batches :
              reply'[t].status # "none"
      BY <2>1 DEF TablesSettle
    <2> QED BY <2>2, TablesKept DEF Inv, RepliesFollow
  <1>7. AttemptsLast'
    <2>1. writing.decision = "retry_later" => writing.turn \in Turns
      BY ConversationTurnAssumption DEF Inv, TypeOK, WriterHoldsBatch, Turns, NoTurn
    <2>2. writing.decision = "retry_later" => batch'[writing.turn].attempt < MaxAttempts
      BY <2>1 DEF Inv, AttemptsLast, TablesSettle
    <2> QED BY <2>2, TablesKept DEF AttemptsLast
  <1>8. AISwitch'
    <2>1. CASE request' = request /\ request # NoRequest
      BY <2>1, TablesKept DEF Inv, AISwitch
    <2>2. CASE request' = NoRequest
      BY <2>2, TablesKept, NoRequestType DEF Inv, AISwitch
    <2> QED BY <2>1, <2>2
  <1> QED BY <1>1, <1>2, <1>3, <1>4, <1>5, <1>6, <1>7, <1>8 DEF Inv

LEMMA CommitTakeoverInv ==
  ASSUME Inv, CommitTakeover
  PROVE  Inv'
  <1>1. /\ batch' = Rewritten(request.batches, "cancelled")
        /\ reply' = Withdrawn(request.replies)
        /\ request.batches \in SUBSET Turns /\ request.replies \in SUBSET Turns
        /\ request.batches \subseteq Present
        /\ \A t \in request.replies : reply[t].status # "none"
        /\ writing.turn \notin request.batches
        /\ "cancelled" \in BatchStatuses
    BY DEF CommitTakeover, Inv, TypeOK, IngestCoversActive, RepliesFollow, RowsFree,
           BatchStatuses
  <1>2. /\ batch' \in [Turns -> BatchRows]
        /\ \A t \in Turns : /\ batch'[t].status = IF t \in request.batches THEN "cancelled"
                                                  ELSE batch[t].status
                            /\ batch'[t].attempt = batch[t].attempt
                            /\ batch'[t].messages = batch[t].messages
    <2> DEFINE batches == request.batches
    <2>1. batches \in SUBSET Turns /\ "cancelled" \in BatchStatuses
          /\ batch' = Rewritten(batches, "cancelled")
      BY <1>1
    <2> HIDE DEF batches
    <2>2. /\ batch' \in [Turns -> BatchRows]
          /\ \A t \in Turns : /\ batch'[t].status = IF t \in batches THEN "cancelled"
                                                    ELSE batch[t].status
                              /\ batch'[t].attempt = batch[t].attempt
                              /\ batch'[t].messages = batch[t].messages
      BY <2>1, RewrittenBatches DEF Inv
    <2> QED BY <2>2 DEF batches
  <1>3. /\ reply' \in [Turns -> ReplyRows]
        /\ \A t \in Turns : reply'[t].status =
              IF t \in request.replies THEN "withdrawn" ELSE reply[t].status
    BY <1>1, WithdrawnReplies DEF Inv
  <1>4. TablesSettle
    BY <1>1, <1>2, <1>3 DEF TablesSettle, ActiveStatuses, Present
  <1>5. writing.turn # NoTurn => batch'[writing.turn].status = "generating"
    <2>1. writing.turn # NoTurn => writing.turn \in Turns
      BY ConversationTurnAssumption DEF Inv, TypeOK, Turns, NoTurn
    <2> QED BY <2>1, <1>1, <1>2 DEF Inv, WriterHoldsBatch
  <1>6. /\ NoHandoff \in [turn : 0 .. MaxTurns, soft : BOOLEAN, pause : BOOLEAN]
        /\ ~NoHandoff.pause
    BY ConversationTurnAssumption DEF NoHandoff, NoTurn
  <1>7. /\ conv' = [status |-> Written(conv.status, request.status,
                                       "sales_replied_waiting_user"),
                    ai |-> IF request.resume
                           THEN Written(conv.ai, request.ai, TRUE) ELSE conv.ai]
        /\ handoff' = IF request.open THEN NoHandoff ELSE handoff
        /\ request' = NoRequest /\ request.at = "read"
        /\ UNCHANGED <<handed, generators, writing, optedOut>>
    BY DEF CommitTakeover
  <1>8. conv' \in [status : ConvStatuses, ai : BOOLEAN] /\ (conv.ai => conv'.ai)
    BY <1>7 DEF Inv, TypeOK, Written, ConvStatuses
  <1>9. handoff' \in [turn : 0 .. MaxTurns, soft : BOOLEAN, pause : BOOLEAN]
    BY <1>6, <1>7 DEF Inv, TypeOK
  <1>10. conv'.ai => conv.ai \/ (~optedOut /\ request' = NoRequest)
    BY <1>7 DEF Inv, TypeOK, AISwitch, Written
  <1>11. handoff'.pause => handoff.pause /\ ~conv'.ai /\ HandoffOpen'
    BY <1>6, <1>7 DEF Inv, AISwitch, HandoffOpen
  <1>12. handed' \in SUBSET Turns
    BY <1>7 DEF Inv, TypeOK
  <1> QED BY <1>4, <1>5, <1>7, <1>8, <1>9, <1>10, <1>11, <1>12, OutsideWrites

-----------------------------------------------------------------------------
(* The sending *)

LEMMA SendNextInv ==
  ASSUME Inv, SendNext
  PROVE  Inv'
  <1>1. ASSUME NEW t \in Turns, NEW status \in ReplyStatuses \ {"none", "queued"},
               reply[t].status # "none",
               reply' = [reply EXCEPT ![t].status = status]
        PROVE  /\ reply' \in [Turns -> ReplyRows]
               /\ \A s \in Turns :
                    /\ reply[s].status = "none" <=> reply'[s].status = "none"
                    /\ reply'[s].status = "queued" => reply[s].status = "queued"
    BY <1>1 DEF Inv, TypeOK, ReplyRows
  <1>2. ASSUME NEW batches \in SUBSET Turns,
               NEW status \in {"superseded", "cancelled", "handoff_created"},
               batches \subseteq Present, writing.turn \notin batches,
               batch' = Rewritten(batches, status)
        PROVE  /\ batch' \in [Turns -> BatchRows]
               /\ \A s \in Turns :
                    /\ batch[s].status = "absent" <=> batch'[s].status = "absent"
                    /\ batch'[s].status \in ActiveStatuses
                          => batch'[s].status = batch[s].status
                    /\ batch'[s].attempt = batch[s].attempt
                    /\ batch'[s].messages = batch[s].messages
               /\ writing.turn # NoTurn => batch'[writing.turn].status = "generating"
    <2>1. status \in BatchStatuses /\ status \notin ActiveStatuses /\ status # "absent"
      BY DEF BatchStatuses, ActiveStatuses
    <2>2. /\ batch' \in [Turns -> BatchRows]
          /\ \A s \in Turns :
               /\ batch'[s].status = IF s \in batches THEN status ELSE batch[s].status
               /\ batch'[s].attempt = batch[s].attempt
               /\ batch'[s].messages = batch[s].messages
      BY <1>2, <2>1, RewrittenBatches DEF Inv
    <2>3. writing.turn # NoTurn => writing.turn \in Turns
      BY ConversationTurnAssumption DEF Inv, TypeOK, Turns, NoTurn
    <2>4. writing.turn # NoTurn => batch'[writing.turn].status = "generating"
      BY <1>2, <2>2, <2>3 DEF Inv, WriterHoldsBatch
    <2> QED BY <1>2, <2>1, <2>2, <2>4 DEF Present
  <1>3. ASSUME NEW t \in Turns, ClaimSend(t) \/ (\E later \in BOOLEAN : AckSent(t, later))
        PROVE  Inv'
    <2>1. PICK status \in {"sending", "sent"} : reply' = [reply EXCEPT ![t].status = status]
      BY <1>3 DEF ClaimSend, AckSent
    <2>2. reply[t].status # "none" /\ status \in ReplyStatuses \ {"none", "queued"}
      BY <1>3 DEF ClaimSend, AckSent, ReplyStatuses
    <2>3. UNCHANGED <<batch, handoff, handed, request, generators, writing, optedOut>>
      BY <1>3 DEF ClaimSend, AckSent
    <2>4. conv' \in [status : ConvStatuses, ai : BOOLEAN] /\ conv'.ai = conv.ai
      BY <1>3 DEF ClaimSend, AckSent, Inv, TypeOK, ConvStatuses
    <2>5. TablesSettle
      BY <1>1, <2>1, <2>2, <2>3 DEF TablesSettle, Inv, TypeOK, BatchRows
    <2>6. /\ handoff' \in [turn : 0 .. MaxTurns, soft : BOOLEAN, pause : BOOLEAN]
          /\ handed' \in SUBSET Turns
          /\ writing.turn # NoTurn => batch'[writing.turn].status = "generating"
          /\ handoff'.pause => handoff.pause /\ ~conv'.ai /\ HandoffOpen'
      BY <2>3, <2>4 DEF Inv, TypeOK, WriterHoldsBatch, AISwitch, HandoffOpen
    <2> QED BY <2>3, <2>4, <2>5, <2>6, OutsideWrites
  <1>4. ASSUME NEW t \in Turns, NotSent(t) \/ HandOffUnsent(t)
        PROVE  Inv'
    <2>1. PICK status \in {"not_sent", "withdrawn"} : reply' = [reply EXCEPT ![t].status = status]
      BY <1>4 DEF NotSent, HandOffUnsent
    <2>2. reply[t].status # "none" /\ status \in ReplyStatuses \ {"none", "queued"}
      BY <1>4 DEF NotSent, HandOffUnsent, ReplyStatuses
    <2>3. /\ batch' = [batch EXCEPT ![t].status = "handoff_created"]
          /\ OpenHandoff(t, FALSE, FALSE)
          /\ conv' = [conv EXCEPT !.status = "waiting_sales_reply"]
          /\ BatchFree(t)
          /\ UNCHANGED <<request, generators, writing, optedOut>>
      BY <1>4 DEF NotSent, HandOffUnsent
    <2>4. batch' = Rewritten({t}, "handoff_created")
      BY <2>3 DEF Rewritten, Inv, TypeOK
    <2>5. {t} \in SUBSET Turns /\ {t} \subseteq Present /\ writing.turn \notin {t}
      BY <2>2, <2>3 DEF Inv, RepliesFollow, BatchFree
    <2>6. /\ TablesSettle
          /\ writing.turn # NoTurn => batch'[writing.turn].status = "generating"
      <3>1. /\ reply' \in [Turns -> ReplyRows]
            /\ \A s \in Turns :
                 /\ reply[s].status = "none" <=> reply'[s].status = "none"
                 /\ reply'[s].status = "queued" => reply[s].status = "queued"
        BY <1>1, <2>1, <2>2
      <3> QED BY <3>1, <1>2, <2>4, <2>5 DEF TablesSettle
    <2>7. conv' \in [status : ConvStatuses, ai : BOOLEAN] /\ conv'.ai = conv.ai
      BY <2>3 DEF Inv, TypeOK, ConvStatuses
    <2>8. /\ handoff' \in [turn : 0 .. MaxTurns, soft : BOOLEAN, pause : BOOLEAN]
          /\ handed' \in SUBSET Turns
          /\ handoff'.pause \in {handoff.pause, FALSE} /\ HandoffOpen'
      BY <2>3, Opened DEF Inv
    <2>9. handoff'.pause => handoff.pause /\ ~conv'.ai /\ HandoffOpen'
      BY <2>7, <2>8 DEF Inv, AISwitch
    <2> QED BY <2>3, <2>6, <2>7, <2>8, <2>9, OutsideWrites
  <1>5. ASSUME NEW t \in Turns, CancelUnsent(t) \/ VehicleChanged(t)
        PROVE  Inv'
    <2>1. /\ reply' = [reply EXCEPT ![t].status = "withdrawn"]
          /\ reply[t].status # "none" /\ BatchFree(t)
          /\ "withdrawn" \in ReplyStatuses \ {"none", "queued"}
          /\ UNCHANGED <<conv, handoff, handed, request, generators, writing, optedOut>>
      BY <1>5 DEF CancelUnsent, VehicleChanged, ReplyStatuses
    <2>2. PICK batches \in SUBSET {t}, status \in {"cancelled", "superseded"} :
             batch' = Rewritten(batches, status)
      <3>1. CASE CancelUnsent(t)
        <4>1. batch' = [batch EXCEPT ![t].status = "cancelled"]
          BY <3>1 DEF CancelUnsent
        <4>2. batch' = Rewritten({t}, "cancelled")
          BY <4>1 DEF Rewritten, Inv, TypeOK
        <4> QED BY <4>2
      <3>2. CASE VehicleChanged(t)
        BY <3>2 DEF VehicleChanged, Dragged
      <3> QED BY <1>5, <3>1, <3>2
    <2>3. batches \in SUBSET Turns /\ batches \subseteq Present /\ writing.turn \notin batches
      BY <2>1, <2>2 DEF Inv, RepliesFollow, BatchFree
    <2>4. /\ TablesSettle
          /\ writing.turn # NoTurn => batch'[writing.turn].status = "generating"
      <3>1. /\ reply' \in [Turns -> ReplyRows]
            /\ \A s \in Turns :
                 /\ reply[s].status = "none" <=> reply'[s].status = "none"
                 /\ reply'[s].status = "queued" => reply[s].status = "queued"
        BY <1>1, <2>1
      <3> QED BY <3>1, <1>2, <2>2, <2>3 DEF TablesSettle
    <2>5. /\ conv' \in [status : ConvStatuses, ai : BOOLEAN] /\ conv'.ai = conv.ai
          /\ handoff' \in [turn : 0 .. MaxTurns, soft : BOOLEAN, pause : BOOLEAN]
          /\ handed' \in SUBSET Turns
          /\ handoff'.pause => handoff.pause /\ ~conv'.ai /\ HandoffOpen'
      BY <2>1 DEF Inv, TypeOK, AISwitch, HandoffOpen
    <2> QED BY <2>1, <2>4, <2>5, OutsideWrites
  <1> QED BY <1>3, <1>4, <1>5 DEF SendNext

-----------------------------------------------------------------------------
(* The generation *)

(* The steps that only let a generation go on, or lock its batch.          *)
LEMMA GeneratorWrites ==
  ASSUME Inv, NEW gs \in SUBSET generators, NEW g \in generators,
         NEW new \in [turn : Turns, attempt : Attempts, called : BOOLEAN],
         new.turn = g.turn, new.attempt = g.attempt,
         new.called => ~Generating(g.turn, g.attempt) \/ conv.ai,
         generators' \in {gs, gs \cup {new}},
         NEW decision \in Decisions \cup {"exhausted", "ineligible"},
         NEW open \in SUBSET Queued, NEW drag \in SUBSET open,
         NEW turn \in Turns,
         writing' = writing \/
            (/\ writing.turn = NoTurn
             /\ writing' = [turn |-> turn, decision |-> decision,
                            status |-> conv.status, ai |-> conv.ai,
                            replies |-> open, batches |-> drag]
             /\ batch[turn].status = "generating"
             /\ decision \in Decisions => conv.ai
             /\ decision = "retry_later" => batch[turn].attempt < MaxAttempts
             /\ decision \in Replying => open = Queued),
         UNCHANGED <<conv, batch, reply, handoff, handed, request, optedOut>>
  PROVE  Inv'
  <1>1. turn \in 0 .. MaxTurns /\ turn # NoTurn
    BY ConversationTurnAssumption DEF Turns, NoTurn
  <1>2. /\ open \in SUBSET Turns /\ drag \in SUBSET Turns
        /\ \A t \in open : reply[t].status # "none"
    BY DEF Queued
  <1>3. TypeOK'
    <2>1. writing' \in [turn : 0 .. MaxTurns,
                    decision : Decisions \cup {"none", "exhausted", "ineligible"},
                    status : ConvStatuses \cup {"none"}, ai : BOOLEAN,
                    replies : SUBSET Turns, batches : SUBSET Turns]
      <3> DEFINE q == [turn |-> turn, decision |-> decision, status |-> conv.status,
                       ai |-> conv.ai, replies |-> open, batches |-> drag]
      <3>1. conv.status \in ConvStatuses \cup {"none"} /\ conv.ai \in BOOLEAN
        BY DEF Inv, TypeOK
      <3>2. q \in [turn : 0 .. MaxTurns,
                  decision : Decisions \cup {"none", "exhausted", "ineligible"},
                  status : ConvStatuses \cup {"none"}, ai : BOOLEAN,
                  replies : SUBSET Turns, batches : SUBSET Turns]
        BY <1>1, <1>2, <3>1
      <3>3. writing' \in {writing, q}
        OBVIOUS
      <3> HIDE DEF q
      <3> QED BY <3>2, <3>3 DEF Inv, TypeOK
    <2>2. generators' \in SUBSET [turn : Turns, attempt : Attempts, called : BOOLEAN]
      BY DEF Inv, TypeOK
    <2> QED BY <2>1, <2>2 DEF Inv, TypeOK
  <1>4. TurnOrder'
    BY DEF Inv, TurnOrder, Present, Active, Newest
  <1>5. WriterHoldsBatch'
    BY <1>1 DEF Inv, WriterHoldsBatch, Decisions
  <1>6. (IngestCoversActive /\ IngestHasRoom)'
    BY DEF Inv, IngestCoversActive, IngestHasRoom, Present, Active, Absent
  <1>7. RepliesFollow'
    <2>1. Queued' = Queued /\ Present' = Present /\ Active' = Active
      BY DEF Queued, Present, Active
    <2>2. \A t \in writing'.replies \cup writing'.batches : reply[t].status # "none"
      BY <1>2 DEF Inv, RepliesFollow
    <2>3. writing'.decision \in Replying => Queued \subseteq writing'.replies
      BY DEF Inv, RepliesFollow
    <2> QED BY <2>1, <2>2, <2>3 DEF Inv, RepliesFollow
  <1>8. AttemptsLast'
    <2>1. \A h \in generators' : h.attempt <= batch[h.turn].attempt
      BY DEF Inv, AttemptsLast
    <2>2. writing'.decision = "retry_later" => batch[writing'.turn].attempt < MaxAttempts
      BY DEF Inv, AttemptsLast
    <2> QED BY <2>1, <2>2 DEF Inv, AttemptsLast
  <1>9. AISwitch'
    <2>1. \A h \in generators' : h.called /\ Generating(h.turn, h.attempt) => conv.ai
      BY DEF Inv, AISwitch
    <2>2. writing'.decision \in Decisions => conv.ai /\ writing'.ai
      BY DEF Inv, AISwitch
    <2> QED BY <2>1, <2>2 DEF Inv, AISwitch, Generating, HandoffOpen
  <1> QED BY <1>3, <1>4, <1>5, <1>6, <1>7, <1>8, <1>9 DEF Inv

LEMMA StartGenerationInv ==
  ASSUME Inv, NEW g \in generators, StartGeneration(g)
  PROVE  Inv'
  <1> DEFINE gs == generators \ {g}
             called == [g EXCEPT !.called = TRUE]
  <1>1. /\ g \in [turn : Turns, attempt : Attempts, called : BOOLEAN]
        /\ called \in [turn : Turns, attempt : Attempts, called : BOOLEAN]
        /\ called.turn = g.turn /\ called.attempt = g.attempt
        /\ g.turn \in Turns /\ gs \in SUBSET generators
        /\ {} \in SUBSET Queued /\ {} \in SUBSET {}
    BY DEF Inv, TypeOK
  <1>2. UNCHANGED <<conv, batch, reply, handoff, handed, request, optedOut>>
    BY DEF StartGeneration
  <1>3. ~g.called
    BY DEF StartGeneration
  <1>4. CASE writing' = writing
    <2>1. \/ generators' = gs
          \/ generators' = gs \cup {called} /\ conv.ai
      BY <1>4 DEF StartGeneration, Eligible
    <2>2. "ineligible" \in Decisions \cup {"exhausted", "ineligible"}
      OBVIOUS
    <2> HIDE DEF gs, called
    <2>3. CASE generators' = gs
      BY <1>1, <1>2, <1>3, <1>4, <2>2, <2>3, GeneratorWrites
    <2>4. CASE generators' = gs \cup {called} /\ conv.ai
      BY <1>1, <1>2, <1>4, <2>2, <2>4, GeneratorWrites
    <2> QED BY <2>1, <2>3, <2>4
  <1>5. CASE writing' # writing
    <2>1. /\ generators' = gs /\ writing.turn = NoTurn
          /\ writing' = [turn |-> g.turn, decision |-> "ineligible",
                         status |-> conv.status, ai |-> conv.ai,
                         replies |-> {}, batches |-> {}]
          /\ batch[g.turn].status = "generating"
      BY <1>5 DEF StartGeneration, LockBatch, Generating
    <2>2. /\ "ineligible" \in Decisions \cup {"exhausted", "ineligible"}
          /\ "ineligible" \notin Decisions /\ "ineligible" \notin Replying
      BY DEF Decisions, Replying
    <2> HIDE DEF gs, called
    <2> QED BY <1>1, <1>2, <1>3, <2>1, <2>2, GeneratorWrites
  <1> QED BY <1>4, <1>5

LEMMA FinishCallInv ==
  ASSUME Inv, NEW g \in generators, NEW decision \in Decisions,
         NEW stale \in BOOLEAN, FinishCall(g, decision, stale)
  PROVE  Inv'
  <1> DEFINE gs == generators \ {g}
             outcome == Outcome(decision, stale, g.attempt)
             open == IF decision \in Replying \cup {"hard_opt_out"} THEN Queued ELSE {}
             drag == Dragged(open)
  <1>1. /\ g \in [turn : Turns, attempt : Attempts, called : BOOLEAN]
        /\ g.turn \in Turns /\ gs \in SUBSET generators
    BY DEF Inv, TypeOK
  <1>2. /\ UNCHANGED <<conv, batch, reply, handoff, handed, request, optedOut>>
        /\ generators' = gs /\ g.called
    BY DEF FinishCall
  <1>3. open \in SUBSET Queued /\ drag \in SUBSET open
    BY DEF Dragged
  <1>4. /\ outcome \in Decisions \cup {"exhausted", "ineligible"}
        /\ outcome = "retry_later" => ~(g.attempt >= MaxAttempts)
        /\ outcome \in Replying => decision \in Replying
    BY DEF Outcome, Decisions, Replying
  <1>5. CASE writing' = writing
    <2> HIDE DEF gs, outcome, open, drag
    <2>1. g.called => ~Generating(g.turn, g.attempt) \/ conv.ai
      BY DEF Inv, AISwitch
    <2> QED BY <1>1, <1>2, <1>3, <1>4, <1>5, <2>1, GeneratorWrites
  <1>6. CASE writing' # writing
    <2>1. /\ writing.turn = NoTurn
          /\ writing' = [turn |-> g.turn, decision |-> outcome,
                         status |-> conv.status, ai |-> conv.ai,
                         replies |-> open, batches |-> drag]
          /\ Generating(g.turn, g.attempt)
      BY <1>6 DEF FinishCall, LockBatch
    <2>2. conv.ai
      BY <1>2, <2>1 DEF Inv, AISwitch
    <2>3. outcome = "retry_later" => batch[g.turn].attempt < MaxAttempts
      <3>1. batch[g.turn].attempt = g.attempt /\ g.attempt \in Nat
        BY <1>1, <2>1, ConversationTurnAssumption DEF Generating, Attempts
      <3> QED BY <1>4, <3>1, ConversationTurnAssumption
    <2>4. outcome \in Replying => open = Queued
      BY <1>4
    <2>5. batch[g.turn].status = "generating"
      BY <2>1 DEF Generating
    <2> HIDE DEF gs, outcome, open, drag
    <2> QED BY <1>1, <1>2, <1>3, <1>4, <2>1, <2>2, <2>3, <2>4, <2>5, GeneratorWrites
  <1> QED BY <1>5, <1>6

LEMMA ClaimGenerationInv ==
  ASSUME Inv, NEW t \in Turns, ClaimGeneration(t)
  PROVE  Inv'
  <1>1. CASE batch[t].status = "generating" /\ batch[t].attempt >= MaxAttempts
    <2> DEFINE q == [turn |-> t, decision |-> "exhausted", status |-> conv.status,
                     ai |-> conv.ai, replies |-> {}, batches |-> {}]
    <2>1. /\ writing' = q /\ writing.turn = NoTurn
          /\ UNCHANGED <<conv, batch, reply, handoff, handed, request, generators, optedOut>>
      BY <1>1 DEF ClaimGeneration, LockBatch
    <2>2. /\ t \in 0 .. MaxTurns /\ t # NoTurn
          /\ "exhausted" \notin Decisions /\ "exhausted" \notin Replying
      BY ConversationTurnAssumption DEF Turns, NoTurn, Decisions, Replying
    <2>3. TypeOK'
      <3>1. q \in [turn : 0 .. MaxTurns,
                    decision : Decisions \cup {"none", "exhausted", "ineligible"},
                    status : ConvStatuses \cup {"none"}, ai : BOOLEAN,
                    replies : SUBSET Turns, batches : SUBSET Turns]
        BY <2>2 DEF Inv, TypeOK
      <3> HIDE DEF q
      <3> QED BY <2>1, <3>1 DEF Inv, TypeOK
    <2>4. (TurnOrder /\ WriterHoldsBatch /\ IngestCoversActive /\ IngestHasRoom)'
      BY <1>1, <2>1, <2>2
         DEF Inv, TurnOrder, WriterHoldsBatch, IngestCoversActive, IngestHasRoom,
             Present, Active, Newest, Absent
    <2>5. (RepliesFollow /\ AttemptsLast)'
      BY <2>1, <2>2 DEF Inv, RepliesFollow, AttemptsLast, Present, Active, Queued
    <2>6. AISwitch'
      BY <2>1, <2>2 DEF Inv, AISwitch, Generating, HandoffOpen
    <2> QED BY <2>3, <2>4, <2>5, <2>6 DEF Inv
  <1>2. CASE ~(batch[t].status = "generating" /\ batch[t].attempt >= MaxAttempts)
    <2> DEFINE n == batch[t].attempt + 1
               new == [turn |-> t, attempt |-> n, called |-> FALSE]
    <2>1. /\ batch' = [batch EXCEPT ![t].status = "generating", ![t].attempt = @ + 1]
          /\ generators' = generators \cup {new}
          /\ UNCHANGED <<conv, reply, handoff, handed, request, writing, optedOut>>
          /\ t \in Active /\ writing.turn # t
      BY <1>2 DEF ClaimGeneration, BatchFree
    <2>2. batch[t].attempt \in Nat /\ batch[t].attempt < MaxAttempts
      BY <1>2, <2>1, ConversationTurnAssumption
         DEF Inv, TypeOK, AttemptsLast, Active, ActiveStatuses
    <2>3. n \in 0 .. MaxAttempts /\ n \in Attempts
      BY <2>2, ConversationTurnAssumption DEF Attempts
    <2>4. /\ batch' \in [Turns -> BatchRows]
          /\ \A s \in Turns :
               /\ batch'[s].status = IF s = t THEN "generating" ELSE batch[s].status
               /\ batch'[s].attempt = IF s = t THEN n ELSE batch[s].attempt
               /\ batch'[s].messages = batch[s].messages
      BY <2>1, <2>3 DEF Inv, TypeOK, BatchRows, BatchStatuses, ActiveStatuses
    <2>5. new \in [turn : Turns, attempt : Attempts, called : BOOLEAN]
      BY <2>3
    <2>6. TypeOK'
      BY <2>1, <2>4, <2>5 DEF Inv, TypeOK, BatchRows
    <2>7. Present' = Present /\ Absent' = Absent /\ Active' = Active /\ Queued' = Queued
      BY <2>1, <2>4 DEF Present, Absent, Active, ActiveStatuses, Queued
    <2>8. TurnOrder'
      BY <2>7 DEF Inv, TurnOrder, Newest
    <2>9. WriterHoldsBatch'
      <3>1. writing.turn # NoTurn => writing.turn \in Turns
        BY ConversationTurnAssumption DEF Inv, TypeOK, Turns, NoTurn
      <3> QED BY <2>1, <2>4, <3>1 DEF Inv, WriterHoldsBatch
    <2>10. IngestCoversActive'
      <3>1. request.onto # NoTurn => request.onto \in Turns
        BY DEF Inv, IngestCoversActive, Present
      <3> QED BY <2>1, <2>4, <2>7, <3>1 DEF Inv, IngestCoversActive
    <2>11. IngestHasRoom'
      BY <2>1, <2>4, <2>7 DEF Inv, IngestHasRoom
    <2>12. RepliesFollow'
      BY <2>1, <2>7 DEF Inv, RepliesFollow
    <2>13. AttemptsLast'
      <3>1. \A g \in generators : g.attempt <= batch'[g.turn].attempt
        <4>1. \A g \in generators : g.turn \in Turns /\ g.attempt \in Nat
          BY ConversationTurnAssumption DEF Inv, TypeOK, Attempts
        <4> QED BY <2>2, <2>4, <4>1 DEF Inv, AttemptsLast
      <3>2. new.attempt <= batch'[new.turn].attempt
        BY <2>2, <2>4
      <3>3. writing.decision = "retry_later" => writing.turn \in Turns
        BY ConversationTurnAssumption DEF Inv, TypeOK, WriterHoldsBatch, Turns, NoTurn
      <3>4. /\ \A s \in Turns : batch'[s].status = "retry_wait" => batch'[s].attempt < MaxAttempts
            /\ \A s \in Turns : batch'[s].status \in {"absent", "collecting"}
                          => batch'[s].attempt = 0
        BY <2>4 DEF Inv, AttemptsLast
      <3>5. writing'.decision = "retry_later" => batch'[writing'.turn].attempt < MaxAttempts
        BY <2>1, <2>4, <3>3 DEF Inv, AttemptsLast
      <3> HIDE DEF new
      <3> QED BY <2>1, <3>1, <3>2, <3>4, <3>5 DEF AttemptsLast
    <2>14. AISwitch'
      <3>1. \A g \in generators : Generating(g.turn, g.attempt)' => Generating(g.turn, g.attempt)
        <4>1. \A g \in generators : g.turn \in Turns /\ g.attempt \in Nat
                                    /\ g.attempt <= batch[g.turn].attempt
          BY ConversationTurnAssumption DEF Inv, TypeOK, Attempts, AttemptsLast
        <4> QED BY <2>2, <2>4, <4>1 DEF Generating
      <3> QED BY <2>1, <3>1 DEF Inv, AISwitch, HandoffOpen
    <2> QED BY <2>6, <2>8, <2>9, <2>10, <2>11, <2>12, <2>13, <2>14 DEF Inv
  <1> QED BY <1>1, <1>2

(* The writer gives its batch a status that ends the generation, and       *)
(* supersedes or cancels the batches of the replies it withdraws.          *)
LEMMA WriterWrites ==
  ASSUME Inv, writing.turn # NoTurn,
         NEW old \in {"superseded", "cancelled"},
         NEW status \in BatchStatuses \ {"absent", "collecting", "generating"},
         status = "retry_wait" => writing.decision = "retry_later",
         batch' = [Rewritten(writing.batches, old) EXCEPT ![writing.turn].status = status],
         reply' \in [Turns -> ReplyRows],
         NEW replies \in SUBSET writing.replies, NEW queued \in BOOLEAN,
         \A t \in Turns : reply'[t].status =
             IF queued /\ t = writing.turn THEN "queued"
             ELSE IF t \in replies THEN "withdrawn" ELSE reply[t].status,
         queued => /\ writing.decision \in Replying /\ replies = writing.replies
                   /\ status # "retry_wait",
         conv' \in [status : ConvStatuses, ai : BOOLEAN],
         handoff' \in [turn : 0 .. MaxTurns, soft : BOOLEAN, pause : BOOLEAN],
         handed' \in SUBSET Turns, optedOut' \in BOOLEAN,
         conv'.ai => conv.ai,
         optedOut' => (optedOut \/ conv.ai) /\ ~conv'.ai /\ ~handoff'.pause,
         handoff'.pause => ~conv'.ai /\ HandoffOpen',
         writing' = NoWriter,
         UNCHANGED <<request, generators>>
  PROVE  Inv'
  <1> DEFINE turn == writing.turn
  <1>1. /\ turn \in Turns /\ batch[turn].status = "generating" /\ turn \in Active
        /\ \A t \in Active : t = turn
    <2>1. turn \in Turns /\ batch[turn].status = "generating" /\ turn \in Active
      BY ConversationTurnAssumption
         DEF Inv, TypeOK, WriterHoldsBatch, Turns, NoTurn, Active, ActiveStatuses
    <2>2. \A t \in Active : t <= turn /\ turn <= t
      BY <2>1 DEF Inv, TurnOrder, Newest, Active, ActiveStatuses, Present
    <2>3. \A t \in Active : t \in Nat /\ turn \in Nat
      BY <2>1, ConversationTurnAssumption DEF Active, Turns
    <2>4. \A t \in Active : t = turn
      BY <2>2, <2>3
    <2> QED BY <2>1, <2>4
  <1>2. /\ batch' \in [Turns -> BatchRows]
        /\ \A t \in Turns : /\ batch'[t].status = IF t = turn THEN status
                                                  ELSE IF t \in writing.batches THEN old
                                                  ELSE batch[t].status
                            /\ batch'[t].attempt = batch[t].attempt
                            /\ batch'[t].messages = batch[t].messages
    <2>1. old \in BatchStatuses /\ status \in BatchStatuses
      BY DEF BatchStatuses
    <2> QED BY <2>1, SettledBatches DEF Inv
  <1>3. \A t \in writing.batches \cup writing.replies :
           t \in Turns /\ reply[t].status # "none" /\ t \in Present /\ t \notin Active
    BY DEF Inv, TypeOK, RepliesFollow
  <1>4. /\ Present' = Present /\ Absent' = Absent
    BY <1>1, <1>2, <1>3 DEF Present, Absent
  <1>5. /\ Active' \subseteq {turn}
        /\ status # "retry_wait" => Active' = {}
    BY <1>1, <1>2 DEF Active, ActiveStatuses, BatchStatuses
  <1>6. \A t \in Turns : reply[t].status # "none" => reply'[t].status # "none"
    BY <1>3
  <1>7. \A t \in Turns : reply'[t].status # "none" => reply[t].status # "none" \/ (queued /\ t = turn)
    BY <1>3
  <1>8. \A s, t \in Queued' : s = t
    <2>1. CASE queued
      <3>1. Queued \subseteq replies
        BY <2>1 DEF Inv, RepliesFollow
      <3>2. \A t \in Queued' : t = turn
        BY <3>1 DEF Queued
      <3> QED BY <3>2
    <2>2. CASE ~queued
      <3>1. Queued' \subseteq Queued
        BY <2>2 DEF Queued
      <3> QED BY <3>1 DEF Inv, RepliesFollow
    <2> QED BY <2>1, <2>2
  <1>9. TypeOK'
    BY <1>2, NoWriterType DEF Inv, TypeOK, BatchRows, ReplyRows
  <1>10. TurnOrder'
    BY <1>1, <1>4, <1>5 DEF Inv, TurnOrder, Newest
  <1>11. WriterHoldsBatch'
    BY NoWriterType DEF WriterHoldsBatch
  <1>12. IngestCoversActive'
    <2>1. request.onto # NoTurn => request.onto \in Turns
      BY DEF Inv, IngestCoversActive, Present
    <2>2. \A t \in request.batches : t \in Turns
      BY DEF Inv, TypeOK
    <2>3. Active' \subseteq Active
      BY <1>1, <1>5
    <2> QED BY <1>2, <1>4, <1>6, <2>1, <2>2, <2>3 DEF Inv, IngestCoversActive
  <1>13. IngestHasRoom'
    BY <1>2, <1>4 DEF Inv, IngestHasRoom
  <1>14. RepliesFollow'
    <2>1. \A t \in Turns : reply'[t].status # "none" => t \in Present' /\ t \notin Active'
      <3>1. ASSUME NEW t \in Turns, reply[t].status # "none"
            PROVE  t \in Present' /\ t \notin Active'
        BY <1>1, <1>4, <1>5, <3>1 DEF Inv, RepliesFollow
      <3>2. queued => turn \in Present' /\ turn \notin Active'
        BY <1>1, <1>4, <1>5 DEF Active, ActiveStatuses, Present
      <3> QED BY <1>7, <3>1, <3>2
    <2>2. \A t \in request.replies : t \in Turns /\ reply[t].status # "none"
      BY DEF Inv, TypeOK, RepliesFollow
    <2>3. \A t \in request'.replies \cup writing'.replies \cup writing'.batches :
              reply'[t].status # "none"
      BY <1>6, <2>2, NoWriterType
    <2>4. writing'.decision \notin Replying
      BY NoWriterType DEF Replying
    <2> QED BY <1>8, <2>1, <2>3, <2>4 DEF RepliesFollow
  <1>15. AttemptsLast'
    <2>1. \A t \in Turns : batch'[t].status = "retry_wait" => batch'[t].attempt < MaxAttempts
      BY <1>2 DEF Inv, AttemptsLast
    <2>2. \A t \in Turns : batch'[t].status \in {"absent", "collecting"}
                          => batch'[t].attempt = 0
      BY <1>2 DEF Inv, AttemptsLast
    <2>3. \A g \in generators : g.attempt <= batch'[g.turn].attempt
      BY <1>2 DEF Inv, TypeOK, AttemptsLast
    <2> QED BY <2>1, <2>2, <2>3, NoWriterType DEF AttemptsLast
  <1>16. AISwitch'
    <2>1. \A t \in Turns : batch'[t].status # "generating"
      BY <1>1, <1>2 DEF Active, ActiveStatuses
    <2>2. \A g \in generators : ~Generating(g.turn, g.attempt)'
      BY <2>1 DEF Inv, TypeOK, Generating
    <2>3. writing'.decision \notin Decisions
      BY NoWriterType DEF Decisions
    <2> QED BY <2>2, <2>3 DEF Inv, AISwitch
  <1> QED BY <1>9, <1>10, <1>11, <1>12, <1>13, <1>14, <1>15, <1>16 DEF Inv

LEMMA WriterDecided ==
  ASSUME Inv, writing.decision # "none"
  PROVE  /\ writing.turn # NoTurn /\ writing.turn \in Turns
         /\ writing.replies \in SUBSET Turns /\ {} \in SUBSET writing.replies
         /\ Withdrawn(writing.replies) \in [Turns -> ReplyRows]
         /\ \A t \in Turns : Withdrawn(writing.replies)[t].status =
                IF t \in writing.replies THEN "withdrawn" ELSE reply[t].status
  <1>1. /\ writing.turn # NoTurn /\ writing.turn \in Turns
        /\ writing.replies \in SUBSET Turns
    BY ConversationTurnAssumption DEF Inv, TypeOK, WriterHoldsBatch, Turns, NoTurn
  <1> DEFINE replies == writing.replies
  <1>2. replies \in SUBSET Turns
    BY <1>1
  <1> HIDE DEF replies
  <1>3. /\ Withdrawn(replies) \in [Turns -> ReplyRows]
        /\ \A t \in Turns : Withdrawn(replies)[t].status =
                IF t \in replies THEN "withdrawn" ELSE reply[t].status
    BY <1>2, WithdrawnReplies DEF Inv
  <1> QED BY <1>1, <1>3 DEF replies

LEMMA CommitReplyInv ==
  ASSUME Inv, CommitReply
  PROVE  Inv'
  <1> DEFINE mid == Withdrawn(writing.replies)
             row == [status |-> "queued",
                     boundary |-> writing.decision = "reply_then_handoff"]
  <1>1. /\ writing.decision \in Replying /\ writing.decision # "none"
        /\ "superseded" \in {"superseded", "cancelled"}
        /\ "reply_action_created" \in BatchStatuses \ {"absent", "collecting", "generating"}
        /\ batch' = [Rewritten(writing.batches, "superseded")
                        EXCEPT ![writing.turn].status = "reply_action_created"]
        /\ writing' = NoWriter /\ UNCHANGED <<request, generators, optedOut>>
    BY DEF CommitReply, Settled, Replying, BatchStatuses
  <1>2. reply' = [mid EXCEPT ![writing.turn] = row]
    BY DEF CommitReply
  <1>3. /\ mid \in [Turns -> ReplyRows] /\ writing.turn \in Turns
        /\ \A t \in Turns : mid[t].status =
              IF t \in writing.replies THEN "withdrawn" ELSE reply[t].status
    BY <1>1, WriterDecided
  <1>4. row \in ReplyRows /\ row.status = "queued"
    BY DEF ReplyRows, ReplyStatuses
  <1> HIDE DEF mid, row
  <1>5. /\ reply' \in [Turns -> ReplyRows]
        /\ \A t \in Turns : reply'[t].status =
             IF TRUE /\ t = writing.turn THEN "queued"
             ELSE IF t \in writing.replies THEN "withdrawn" ELSE reply[t].status
    BY <1>2, <1>3, <1>4
  <1>6. conv' \in [status : ConvStatuses, ai : BOOLEAN] /\ conv'.ai = conv.ai
    BY DEF CommitReply, Inv, TypeOK, Written, ConvStatuses
  <1>7. /\ handoff' \in [turn : 0 .. MaxTurns, soft : BOOLEAN, pause : BOOLEAN]
        /\ handed' \in SUBSET Turns
        /\ handoff'.pause => handoff.pause /\ HandoffOpen'
    <2>1. CASE UNCHANGED <<handoff, handed>>
      BY <2>1 DEF Inv, TypeOK, AISwitch, HandoffOpen
    <2>2. CASE OpenHandoff(writing.turn, FALSE, FALSE)
      <3>1. /\ handoff' \in [turn : 0 .. MaxTurns, soft : BOOLEAN, pause : BOOLEAN]
            /\ handed' \in SUBSET Turns
            /\ handoff'.pause \in {handoff.pause, FALSE} /\ HandoffOpen'
        BY <2>2, <1>3, Opened DEF Inv
      <3> QED BY <3>1
    <2> QED BY <2>1, <2>2 DEF CommitReply
  <1>8. /\ optedOut' \in BOOLEAN
        /\ optedOut' => (optedOut \/ conv.ai) /\ ~conv'.ai /\ ~handoff'.pause
        /\ handoff'.pause => ~conv'.ai /\ HandoffOpen'
    BY <1>1, <1>6, <1>7 DEF Inv, TypeOK, AISwitch
  <1>9. writing.turn # NoTurn /\ TRUE \in BOOLEAN /\ writing.replies \in SUBSET writing.replies
    BY <1>1, WriterDecided
  <1> QED BY <1>1, <1>5, <1>6, <1>7, <1>8, <1>9, WriterWrites

(* The commits that queue no reply. *)
LEMMA CommitOtherInv ==
  ASSUME Inv, CommitHandoff \/ CommitRetry \/ CommitNoAction \/ CommitOptOut
  PROVE  Inv'
  <1>1. /\ writing.decision # "none" /\ writing' = NoWriter
        /\ UNCHANGED <<request, generators>>
    BY DEF CommitHandoff, CommitRetry, CommitNoAction, CommitOptOut
  <1>2. PICK old \in {"superseded", "cancelled"},
             status \in BatchStatuses \ {"absent", "collecting", "generating"} :
           /\ status = "retry_wait" => writing.decision = "retry_later"
           /\ batch' = [Rewritten(writing.batches, old)
                           EXCEPT ![writing.turn].status = status]
    <2>1. {"paused", "handoff_created", "retry_wait", "no_action", "rejected"}
             \subseteq BatchStatuses \ {"absent", "collecting", "generating"}
      BY DEF BatchStatuses, ActiveStatuses
    <2> QED BY <2>1 DEF CommitHandoff, CommitRetry, CommitNoAction, CommitOptOut, Settled
  <1>3. PICK replies \in SUBSET writing.replies :
           /\ reply' \in [Turns -> ReplyRows]
           /\ \A t \in Turns : reply'[t].status =
                IF FALSE /\ t = writing.turn THEN "queued"
                ELSE IF t \in replies THEN "withdrawn" ELSE reply[t].status
    <2>1. CASE CommitNoAction
      <3>1. reply' = reply /\ reply \in [Turns -> ReplyRows]
        BY <2>1 DEF CommitNoAction, Inv, TypeOK, ReplyRows
      <3>2. {} \in SUBSET writing.replies
        OBVIOUS
      <3> QED BY <3>1, <3>2
    <2>2. CASE reply' = Withdrawn(writing.replies)
      BY <1>1, <2>2, WriterDecided
    <2> QED BY <2>1, <2>2 DEF CommitHandoff, CommitRetry, CommitOptOut
  <1>4. /\ conv' \in [status : ConvStatuses, ai : BOOLEAN]
        /\ conv'.ai => conv.ai
        /\ writing.decision = "pause" \/ optedOut' # optedOut => ~conv'.ai /\ conv.ai
    <2>1. CASE CommitHandoff
      <3>1. writing.decision = "pause" => conv.ai /\ writing.ai
        BY DEF Inv, AISwitch, Decisions
      <3> QED BY <2>1, <3>1 DEF CommitHandoff, Inv, TypeOK, Written, ConvStatuses
    <2>2. CASE CommitRetry
      BY <2>2 DEF CommitRetry, Inv, TypeOK
    <2>3. CASE CommitNoAction
      <3>1. Restored(writing.turn) \in ConvStatuses
        BY DEF Restored, ConvStatuses
      <3> QED BY <2>3, <3>1 DEF CommitNoAction, Inv, TypeOK, Written
    <2>4. CASE CommitOptOut
      <3>1. writing.decision = "hard_opt_out" => conv.ai /\ writing.ai
        BY DEF Inv, AISwitch, Decisions
      <3> QED BY <2>4, <3>1 DEF CommitOptOut, Inv, TypeOK, Written, ConvStatuses
    <2> QED BY <2>1, <2>2, <2>3, <2>4
  <1>5. /\ handoff' \in [turn : 0 .. MaxTurns, soft : BOOLEAN, pause : BOOLEAN]
        /\ handed' \in SUBSET Turns
        /\ handoff'.pause => handoff.pause \/ writing.decision = "pause"
        /\ handoff'.pause => HandoffOpen'
        /\ optedOut' # optedOut => handoff' = handoff
    <2>1. CASE UNCHANGED <<handoff, handed>>
      BY <2>1 DEF Inv, TypeOK, AISwitch, HandoffOpen
    <2>2. CASE CommitHandoff
      <3> DEFINE pause == writing.decision = "pause"
      <3>1. pause \in BOOLEAN /\ OpenHandoff(writing.turn, FALSE, pause) /\ UNCHANGED optedOut
        BY <2>2 DEF CommitHandoff
      <3> HIDE DEF pause
      <3>2. writing.turn \in Turns
        BY <1>1, WriterDecided
      <3>3. /\ handoff' \in [turn : 0 .. MaxTurns, soft : BOOLEAN, pause : BOOLEAN]
            /\ handed' \in SUBSET Turns
            /\ handoff'.pause \in {handoff.pause, pause} /\ HandoffOpen'
        BY <3>1, <3>2, Opened DEF Inv
      <3> QED BY <3>1, <3>3 DEF pause
    <2> QED BY <2>1, <2>2 DEF CommitRetry, CommitNoAction, CommitOptOut
  <1>6. optedOut' \in BOOLEAN /\ (optedOut => optedOut')
    BY DEF CommitHandoff, CommitRetry, CommitNoAction, CommitOptOut, Inv, TypeOK
  <1>7. writing.decision = "pause" => ~optedOut'
    <2>1. writing.decision = "pause" => ~optedOut
      BY DEF Inv, AISwitch, Decisions
    <2>2. writing.decision = "pause" => UNCHANGED optedOut
      BY DEF CommitHandoff, CommitRetry, CommitNoAction, CommitOptOut
    <2> QED BY <2>1, <2>2
  <1>8. optedOut' => (optedOut \/ conv.ai) /\ ~conv'.ai /\ ~handoff'.pause
    BY <1>4, <1>5, <1>6, <1>7 DEF Inv, TypeOK, AISwitch
  <1>9. handoff'.pause => ~conv'.ai /\ HandoffOpen'
    BY <1>4, <1>5 DEF Inv, AISwitch
  <1>10. writing.turn # NoTurn /\ FALSE \in BOOLEAN
    BY <1>1, WriterDecided
  <1> QED
    BY <1>1, <1>2, <1>3, <1>4, <1>5, <1>6, <1>8, <1>9, <1>10, WriterWrites

-----------------------------------------------------------------------------
(* Failures *)

LEMMA AbortInv ==
  ASSUME Inv, request' \in {request, NoRequest}, writing' \in {writing, NoWriter},
         generators' \in {generators, {}},
         UNCHANGED <<conv, batch, reply, handoff, handed, optedOut>>
  PROVE  Inv'
  <1>1. TypeOK'
    BY NoRequestType, NoWriterType DEF Inv, TypeOK
  <1>2. TurnOrder'
    BY DEF Inv, TurnOrder, Present, Active, Newest
  <1>3. WriterHoldsBatch'
    BY NoWriterType DEF Inv, WriterHoldsBatch
  <1>4. (IngestCoversActive /\ IngestHasRoom)'
    <2>1. CASE request' = NoRequest
      BY <2>1, NoRequestType DEF IngestCoversActive, IngestHasRoom
    <2>2. CASE request' = request
      BY <2>2 DEF Inv, IngestCoversActive, IngestHasRoom, Present, Active, Absent
    <2> QED BY <2>1, <2>2
  <1>5. RepliesFollow'
    BY NoRequestType, NoWriterType
       DEF Inv, RepliesFollow, Present, Active, Queued, Replying
  <1>6. AttemptsLast'
    BY NoWriterType DEF Inv, AttemptsLast
  <1>7. AISwitch'
    BY NoRequestType, NoWriterType DEF Inv, AISwitch, HandoffOpen, Generating, Decisions
  <1> QED BY <1>1, <1>2, <1>3, <1>4, <1>5, <1>6, <1>7 DEF Inv

-----------------------------------------------------------------------------
LEMMA StepInv ==
  ASSUME Inv, [Next]_vars
  PROVE  Inv'
  <1>1. CASE UNCHANGED vars
    BY <1>1, AbortInv DEF vars
  <1>2. CASE EnforceGate
    BY <1>2, EnforceGateInv
  <1>3. CASE ReadNext
    BY <1>3, ReadNextInv
  <1>4. CASE IngestNext
    BY <1>4, LockInv, CommitMessageInv, CommitTakeoverInv DEF IngestNext
  <1>5. CASE GenerateNext
    BY <1>5, StartGenerationInv, FinishCallInv DEF GenerateNext
  <1>6. CASE WriteNext
    BY <1>6, CommitReplyInv, CommitOtherInv DEF WriteNext
  <1>7. CASE ClaimNext
    BY <1>7, ClaimGenerationInv DEF ClaimNext
  <1>8. CASE SendNext
    BY <1>8, SendNextInv
  <1>9. CASE AbortDeadlocked \/ Crash
    BY <1>9, AbortInv DEF AbortDeadlocked, Crash
  <1> QED
    BY <1>1, <1>2, <1>3, <1>4, <1>5, <1>6, <1>7, <1>8, <1>9 DEF Next

(* What each transaction still relies on when it writes stays true.        *)
THEOREM InvHolds == Spec => []Inv
  BY InitInv, StepInv, PTL DEF Spec

(* The rows of the conversation, its batches and replies, and what the     *)
(* open transactions hold, keep to the values the code gives them: no      *)
(* attempt is counted past its limit and a turn to write to always exists. *)
THEOREM TypeCorrect == Spec => []TypeOK
  <1>1. Inv => TypeOK
    BY DEF Inv
  <1> QED BY InvHolds, <1>1, PTL

(* The conversation never has two active batches, whichever transactions   *)
(* of ingest, gate, generation and recovery overlap.                       *)
THEOREM OneTurnAtATime == Spec => []OneActiveBatch
  <1>1. Inv => OneActiveBatch
    <2> SUFFICES ASSUME Inv PROVE OneActiveBatch
      OBVIOUS
    <2>1. \A s, t \in Active : s <= t /\ t <= s /\ s \in Nat /\ t \in Nat
      BY ConversationTurnAssumption
         DEF Inv, TurnOrder, Newest, Active, ActiveStatuses, Present, Turns
    <2>2. \A s, t \in Active : s = t
      BY <2>1
    <2> QED BY <2>2, AtMostOne DEF OneActiveBatch
  <1> QED BY InvHolds, <1>1, PTL

(* At most one reply waits to be claimed: generate_for_batch withdraws     *)
(* every other one it saw under the lock, and none is queued behind it.    *)
THEOREM OneReplyAtATime == Spec => []OneQueuedReply
  <1>1. Inv => OneQueuedReply
    BY AtMostOne DEF Inv, RepliesFollow, OneQueuedReply
  <1> QED BY InvHolds, <1>1, PTL

(* An answer of the AI becomes a reply only if its turn is still the       *)
(* newest one when the second transaction of generate_for_batch commits.   *)
THEOREM RepliesAreForTheLatestTurn == Spec => ReplyIsForLatestTurn
  <1> DEFINE A == \A t \in Turns : reply[t].status = "none" /\ reply'[t].status # "none"
                                    => Newest(t)
  <1>1. Inv /\ [Next]_vars => [A]_vars
    <2> SUFFICES ASSUME Inv, Next, NEW t \in Turns, reply[t].status = "none",
                        reply'[t].status # "none"
                 PROVE  Newest(t)
      OBVIOUS
    <2>1. CASE CommitReply
      <3>1. /\ writing.turn # NoTurn /\ writing.turn \in Turns
            /\ batch[writing.turn].status = "generating"
        BY <2>1, WriterDecided DEF CommitReply, Replying, Inv, WriterHoldsBatch
      <3>2. writing.turn \in Active
        BY <3>1 DEF Active, ActiveStatuses
      <3>3. \A s \in Turns \ {writing.turn} : reply'[s].status = "none" <=> reply[s].status = "none"
        <4> DEFINE mid == Withdrawn(writing.replies)
        <4>1. /\ mid \in [Turns -> ReplyRows]
              /\ \A s \in Turns : mid[s].status =
                    IF s \in writing.replies THEN "withdrawn" ELSE reply[s].status
          BY <2>1, WriterDecided DEF CommitReply, Replying
        <4>2. \A s \in writing.replies : reply[s].status # "none"
          BY DEF Inv, RepliesFollow
        <4>3. \A s \in Turns \ {writing.turn} : reply'[s] = mid[s]
          BY <2>1, <4>1 DEF CommitReply
        <4> HIDE DEF mid
        <4> QED BY <4>1, <4>2, <4>3
      <3>4. t = writing.turn
        BY <3>3
      <3> QED BY <3>2, <3>4 DEF Inv, TurnOrder
    <2>2. CASE ~CommitReply
      <3>1. ASSUME NEW replies \in SUBSET Turns, reply' = Withdrawn(replies),
                   \A s \in replies : reply[s].status # "none"
            PROVE  FALSE
        BY <3>1 DEF Withdrawn, Inv, TypeOK
      <3>2. ASSUME NEW s \in Turns, NEW status, reply[s].status # "none",
                   reply' = [reply EXCEPT ![s].status = status]
            PROVE  FALSE
        BY <3>2 DEF Inv, TypeOK
      <3>3. /\ request.replies \in SUBSET Turns /\ writing.replies \in SUBSET Turns
            /\ \A s \in request.replies \cup writing.replies : reply[s].status # "none"
        BY DEF Inv, TypeOK, RepliesFollow
      <3>4. ~SendNext
        <4>1. ASSUME NEW s \in Turns, reply[s].status \in {"queued", "sending"},
                     \E status : reply' = [reply EXCEPT ![s].status = status]
              PROVE  FALSE
          BY <3>2, <4>1
        <4> QED BY <4>1 DEF SendNext, ClaimSend, AckSent, NotSent, HandOffUnsent,
                            CancelUnsent, VehicleChanged
      <3>5. ~(CommitMessage \/ CommitGate \/ CommitTakeover)
        BY <3>1, <3>3 DEF CommitMessage, CommitGate, CommitTakeover
      <3>6. ~(CommitHandoff \/ CommitRetry \/ CommitOptOut)
        BY <3>1, <3>3 DEF CommitHandoff, CommitRetry, CommitOptOut
      <3> QED
        BY <2>2, <3>4, <3>5, <3>6
           DEF Next, EnforceGate, ReadNext, ReadMessage, ReadGateOnly, ReadSales,
               ReadRecovered, Read, IngestNext, LockForMessage, LockForControl,
               GenerateNext, StartGeneration, FinishCall, WriteNext, CommitNoAction,
               ClaimNext, ClaimGeneration, AbortDeadlocked, Crash
    <2> QED BY <2>1, <2>2
  <1> QED BY InvHolds, <1>1, PTL DEF Spec, ReplyIsForLatestTurn

(* After an opt-out no reply is claimed: no transaction that loaded the    *)
(* conversation before it writes the AI switch back on.                    *)
THEOREM OptOutIsFinal == Spec => OptedOutStaysSilent
  <1> DEFINE A == optedOut => \A t \in Turns : reply'[t].status = "sending"
                                  => reply[t].status = "sending"
  <1>1. Inv /\ [Next]_vars => [A]_vars
    <2> SUFFICES ASSUME Inv, Next, optedOut, NEW t \in Turns,
                        reply'[t].status = "sending"
                 PROVE  reply[t].status = "sending"
      OBVIOUS
    <2>1. ~conv.ai
      BY DEF Inv, AISwitch
    <2>2. ASSUME NEW replies \in SUBSET Turns, reply' = Withdrawn(replies)
          PROVE  reply[t].status = "sending"
      BY <2>2 DEF Withdrawn, Inv, TypeOK
    <2>3. ASSUME NEW s \in Turns, NEW status \in {"sent", "not_sent", "withdrawn"},
                 reply' = [reply EXCEPT ![s].status = status]
          PROVE  reply[t].status = "sending"
      BY <2>3 DEF Inv, TypeOK
    <2>4. request.replies \in SUBSET Turns /\ writing.replies \in SUBSET Turns
      BY DEF Inv, TypeOK
    <2>5. CASE SendNext
      <3>1. \A s \in Turns : ~ClaimSend(s)
        BY <2>1 DEF ClaimSend, Eligible
      <3> QED BY <2>5, <2>3, <3>1
           DEF SendNext, AckSent, NotSent, HandOffUnsent, CancelUnsent, VehicleChanged
    <2>6. CASE CommitMessage \/ CommitGate \/ CommitTakeover
      BY <2>6, <2>2, <2>4 DEF CommitMessage, CommitGate, CommitTakeover
    <2>7. CASE CommitHandoff \/ CommitRetry \/ CommitOptOut
      BY <2>7, <2>2, <2>4 DEF CommitHandoff, CommitRetry, CommitOptOut
    <2>8. CASE CommitReply
      BY <2>8, <2>1 DEF CommitReply, Inv, AISwitch, Replying, Decisions
    <2>9. CASE reply' = reply
      BY <2>9
    <2> QED
      BY <2>5, <2>6, <2>7, <2>8, <2>9
         DEF Next, EnforceGate, ReadNext, ReadMessage, ReadGateOnly, ReadSales,
             ReadRecovered, Read, IngestNext, LockForMessage, LockForControl,
             GenerateNext, StartGeneration, FinishCall, WriteNext, CommitNoAction,
             ClaimNext, ClaimGeneration, AbortDeadlocked, Crash
  <1> QED BY InvHolds, <1>1, PTL DEF Spec, OptedOutStaysSilent

(* A turn nobody has answered is superseded only by a newer one: the       *)
(* withdrawing of replies never takes an unanswered turn along.            *)
THEOREM NoTurnIsDropped == Spec => UnansweredTurnIsReplaced
  <1> DEFINE A == \A t \in Turns : t \in Active /\ batch'[t].status = "superseded"
                                    => ~Newest(t)'
  <1>1. Inv /\ [Next]_vars => [A]_vars
    <2> SUFFICES ASSUME Inv, Next, NEW t \in Turns, t \in Active,
                        batch'[t].status = "superseded", Newest(t)'
                 PROVE  FALSE
      OBVIOUS
    <2>1. reply[t].status = "none" /\ batch[t].status # "superseded" /\ t \in Present
      BY DEF Inv, RepliesFollow, Active, ActiveStatuses, Present, TypeOK, ReplyStatuses
    <2>2. ASSUME NEW batches \in SUBSET Turns, NEW status \in BatchStatuses,
                 batch' = Rewritten(batches, status), t \in batches => status # "superseded"
          PROVE  FALSE
      BY <2>1, <2>2, RewrittenBatches DEF Inv
    <2>3. CASE CommitMessage \/ CommitGate
      <3>1. request.at = "locked"
        BY <2>3 DEF CommitMessage, CommitGate
      <3>2. PICK status \in {"collecting", "handoff_created"}, messages \in {0, 1} :
                batch' = WithMessage(status, messages)
        BY <2>3 DEF CommitMessage, CommitGate
      <3>3. status \in BatchStatuses /\ messages \in 0 .. MaxMessages
        BY ConversationTurnAssumption DEF BatchStatuses, ActiveStatuses
      <3>4. /\ \A s \in Turns \ {Filled} :
                  batch'[s].status = IF s \in request.batches THEN "superseded"
                                     ELSE batch[s].status
            /\ batch'[Filled].status = IF request.onto # NoTurn /\ status = "collecting"
                                       THEN batch[Filled].status ELSE status
        BY <3>1, <3>2, <3>3, FilledBatches DEF Inv
      <3>5. /\ Filled \in Turns
            /\ request.onto = NoTurn => Filled \in Absent
        BY <3>1, FilledIsTurn DEF Inv
      <3>6. CASE request.onto # NoTurn
        <4>1. t \notin request.batches
          BY <3>6, <2>1 DEF Inv, IngestCoversActive
        <4>2. CASE t = Filled
          BY <2>1, <3>4, <4>2
        <4>3. CASE t # Filled
          BY <2>1, <3>4, <4>1, <4>3
        <4> QED BY <4>2, <4>3
      <3>7. CASE request.onto = NoTurn
        <4>1. Filled \notin Present /\ Filled # t
          BY <2>1, <3>5, <3>7 DEF Absent
        <4>2. Filled \in Present'
          BY <3>4, <3>5, <3>7 DEF Present
        <4>3. Filled <= t
          BY <4>2 DEF Newest
        <4>4. Filled < t
          BY <3>5, <4>1, <4>3, ConversationTurnAssumption DEF Turns
        <4> QED BY <2>1, <3>5, <4>1, <4>4 DEF Inv, TurnOrder
      <3> QED BY <3>6, <3>7
    <2>4. CASE CommitTakeover
      <3>1. /\ request.batches \in SUBSET Turns
            /\ "cancelled" \in BatchStatuses /\ "cancelled" # "superseded"
            /\ batch' = Rewritten(request.batches, "cancelled")
        BY <2>4 DEF CommitTakeover, Inv, TypeOK, BatchStatuses
      <3> QED BY <2>2, <3>1
    <2>5. CASE WriteNext
      <3>1. writing.turn # NoTurn
        BY <2>5, WriterDecided
           DEF WriteNext, CommitReply, CommitHandoff, CommitRetry, CommitNoAction,
               CommitOptOut, Replying
      <3>2. PICK old \in {"superseded", "cancelled"},
                 status \in BatchStatuses \ {"superseded"} :
               batch' = [Rewritten(writing.batches, old)
                            EXCEPT ![writing.turn].status = status]
        <4>1. {"reply_action_created", "paused", "handoff_created", "retry_wait",
               "no_action", "rejected"} \subseteq BatchStatuses \ {"superseded"}
          BY DEF BatchStatuses, ActiveStatuses
        <4> QED BY <2>5, <4>1
              DEF WriteNext, CommitReply, CommitHandoff, CommitRetry, CommitNoAction,
                  CommitOptOut, Settled
      <3>3. old \in BatchStatuses
        BY DEF BatchStatuses
      <3>4. batch'[t].status = IF t = writing.turn THEN status
                               ELSE IF t \in writing.batches THEN old
                               ELSE batch[t].status
        BY <3>1, <3>2, <3>3, SettledBatches DEF Inv
      <3>5. t \notin writing.batches
        BY <2>1 DEF Inv, RepliesFollow
      <3> QED BY <2>1, <3>4, <3>5
    <2>6. CASE SendNext
      <3>1. ASSUME NEW s \in Turns, reply[s].status # "none",
                   NEW batches \in SUBSET {s}, NEW status \in BatchStatuses,
                   batch' = Rewritten(batches, status)
            PROVE  FALSE
        BY <2>1, <2>2, <3>1
      <3>2. ASSUME NEW s \in Turns, NEW status \in BatchStatuses \ {"superseded"},
                   batch' = [batch EXCEPT ![s].status = status]
            PROVE  FALSE
        BY <2>1, <3>2 DEF Inv, TypeOK
      <3>3. ASSUME NEW s \in Turns, VehicleChanged(s)
            PROVE  FALSE
        BY <3>1, <3>3 DEF VehicleChanged, Dragged, BatchStatuses
      <3>4. {"handoff_created", "cancelled"} \subseteq BatchStatuses \ {"superseded"}
        BY DEF BatchStatuses, ActiveStatuses
      <3>5. batch' # batch
        BY <2>1
      <3> QED BY <2>6, <3>2, <3>3, <3>4, <3>5
            DEF SendNext, ClaimSend, AckSent, NotSent, HandOffUnsent, CancelUnsent
    <2>7. CASE ClaimNext
      <3>1. batch' # batch
        BY <2>1
      <3>2. PICK s \in Turns : batch' = [batch EXCEPT ![s].status = "generating",
                                                      ![s].attempt = @ + 1]
        BY <2>7, <3>1 DEF ClaimNext, ClaimGeneration
      <3> QED BY <2>1, <3>2 DEF Inv, TypeOK
    <2>8. batch' # batch
      BY <2>1
    <2> QED
      BY <2>3, <2>4, <2>5, <2>6, <2>7, <2>8
         DEF Next, EnforceGate, ReadNext, ReadMessage, ReadGateOnly, ReadSales,
             ReadRecovered, Read, IngestNext, LockForMessage, LockForControl,
             GenerateNext, StartGeneration, FinishCall, AbortDeadlocked, Crash
  <1> QED BY InvHolds, <1>1, PTL DEF Spec, UnansweredTurnIsReplaced

-----------------------------------------------------------------------------
(* The turns are taken one by one *)

(* What an opt-out withdraws when it writes is all that waits.              *)
OptOutWithdraws == writing.decision = "hard_opt_out" => Queued \subseteq writing.replies

(* What is handed over in a step is a turn that is no longer to be answered. *)
HandedSettle == handed' \subseteq handed \cup (Present' \ Active')

Moves == (Taken!Next \/ UNCHANGED Taken!vars) /\ HandedSettle

LEMMA ActiveIsOne ==
  ASSUME Inv
  PROVE  /\ \A s, t \in Active : s = t
         /\ \A t \in Active : t \in Present /\ Newest(t)
         /\ \A s, t \in Queued : s = t
  <1>1. \A t \in Active : t \in Present /\ t \in Nat
    BY ConversationTurnAssumption DEF Active, ActiveStatuses, Present, Turns
  <1>2. \A t \in Active : Newest(t)
    BY DEF Inv, TurnOrder
  <1>3. \A s, t \in Active : s = t
    <2>1. \A s, t \in Active : s <= t /\ t <= s
      BY <1>1, <1>2 DEF Newest
    <2> QED BY <1>1, <2>1
  <1> QED BY <1>1, <1>2, <1>3 DEF Inv, RepliesFollow

(* Nothing is opened, answered or sent. *)
LEMMA FewerStep ==
  ASSUME Inv, Present' = Present, Active' \subseteq Active,
         Queued' \subseteq Queued, Sending' \subseteq Sending,
         optedOut' = optedOut, HandedSettle
  PROVE  Moves
  <1>1. CASE Active' = Active
    BY <1>1 DEF Moves, Taken!Next, Taken!Clear, Taken!Fewer
  <1>2. CASE Active' # Active
    <2>1. PICK t \in Active : t \notin Active'
      BY <1>2
    <2>2. Active = {t} /\ Active' = {} /\ t \in Turns
      BY <2>1, ActiveIsOne DEF Active
    <2>3. Taken!End(t)
      BY <2>2 DEF Taken!End, Taken!Fewer
    <2> QED BY <2>2, <2>3 DEF Moves, Taken!Next
  <1> QED BY <1>1, <1>2

LEMMA RepliesWithdrawn ==
  ASSUME Inv, NEW replies \in SUBSET Turns, reply' = Withdrawn(replies)
  PROVE  /\ Queued' = Queued \ replies /\ Sending' = Sending \ replies
         /\ Queued' \subseteq Queued /\ Sending' \subseteq Sending
  BY WithdrawnReplies DEF Inv, Queued, Sending

LEMMA ReplyEnds ==
  ASSUME Inv, NEW t \in Turns, NEW status \in {"sent", "not_sent", "withdrawn"},
         reply' = [reply EXCEPT ![t].status = status]
  PROVE  Queued' \subseteq Queued /\ Sending' \subseteq Sending
  BY DEF Inv, TypeOK, Queued, Sending

(* A batch that has a reply is not active; one that ends is still there. *)
LEMMA BatchesEnd ==
  ASSUME Inv, NEW batches \in SUBSET Present,
         NEW status \in {"superseded", "cancelled", "handoff_created"},
         batch' = Rewritten(batches, status)
  PROVE  Present' = Present /\ Active' \subseteq Active /\ Active' \cap batches = {}
  <1>1. /\ status \in BatchStatuses /\ status \notin ActiveStatuses
        /\ status # "absent" /\ batches \in SUBSET Turns
    BY DEF BatchStatuses, ActiveStatuses, Present
  <1>2. \A t \in Turns : batch'[t].status = IF t \in batches THEN status
                                            ELSE batch[t].status
    BY <1>1, RewrittenBatches DEF Inv
  <1> QED BY <1>1, <1>2 DEF Present, Active

(* The writer settles the active turn. *)
LEMMA WriterEnds ==
  ASSUME Inv, writing.turn # NoTurn, NEW old \in {"superseded", "cancelled"},
         NEW status \in BatchStatuses \ {"absent", "collecting", "generating"},
         batch' = [Rewritten(writing.batches, old) EXCEPT ![writing.turn].status = status]
  PROVE  /\ Present' = Present /\ Active = {writing.turn} /\ Active' \subseteq Active
         /\ writing.turn \in Turns
         /\ status # "retry_wait" => Active' = {}
  <1>1. /\ writing.turn \in Turns /\ writing.turn \in Active
    BY ConversationTurnAssumption
       DEF Inv, TypeOK, WriterHoldsBatch, Turns, NoTurn, Active, ActiveStatuses
  <1>2. Active = {writing.turn}
    BY <1>1, ActiveIsOne
  <1>3. old \in BatchStatuses /\ old \notin ActiveStatuses /\ old # "absent"
    BY DEF BatchStatuses, ActiveStatuses
  <1>4. \A t \in Turns : batch'[t].status = IF t = writing.turn THEN status
                                            ELSE IF t \in writing.batches THEN old
                                            ELSE batch[t].status
    BY <1>3, SettledBatches DEF Inv
  <1>5. \A t \in writing.batches : t \in Present
    BY DEF Inv, TypeOK, RepliesFollow
  <1>6. Present' = Present
    BY <1>1, <1>3, <1>4, <1>5, ActiveIsOne DEF Present
  <1>7. \A t \in Active' : t \in Active
    BY <1>1, <1>3, <1>4 DEF Active
  <1>8. status # "retry_wait" => writing.turn \notin Active'
    BY <1>1, <1>4 DEF Active, ActiveStatuses, BatchStatuses
  <1> QED BY <1>1, <1>2, <1>6, <1>7, <1>8

LEMMA OpenHandoffHands ==
  ASSUME NEW t, NEW soft, NEW pause, OpenHandoff(t, soft, pause)
  PROVE  handed' \subseteq handed \cup {t}
  BY DEF OpenHandoff

(* A message or a gate opens the next turn, or joins the one it found. *)
LEMMA IngestMoves ==
  ASSUME Inv, CommitMessage \/ CommitGate
  PROVE  Moves
  <1>1. /\ request.at = "locked" /\ optedOut' = optedOut
        /\ reply' = Withdrawn(request.replies) /\ request.replies \in SUBSET Turns
    BY DEF CommitMessage, CommitGate, Inv, TypeOK
  <1>2. PICK status \in {"collecting", "handoff_created"}, messages \in {0, 1} :
            /\ batch' = WithMessage(status, messages)
            /\ status = "collecting" => handed' = handed
            /\ status = "handoff_created" => handed' \subseteq handed \cup {Filled}
    BY OpenHandoffHands DEF CommitMessage, CommitGate
  <1>3. /\ status \in BatchStatuses /\ messages \in 0 .. MaxMessages
        /\ "superseded" \notin ActiveStatuses /\ "handoff_created" \notin ActiveStatuses
        /\ "collecting" \in ActiveStatuses
    BY ConversationTurnAssumption DEF BatchStatuses, ActiveStatuses
  <1>4. /\ \A s \in Turns \ {Filled} :
              batch'[s].status = IF s \in request.batches THEN "superseded"
                                 ELSE batch[s].status
        /\ batch'[Filled].status = IF request.onto # NoTurn /\ status = "collecting"
                                   THEN batch[Filled].status ELSE status
    BY <1>1, <1>2, <1>3, FilledBatches DEF Inv
  <1>5. /\ Filled \in Turns
        /\ request.onto # NoTurn => Filled \in Present
        /\ request.onto = NoTurn => Filled \in Absent
    BY <1>1, FilledIsTurn DEF Inv
  <1>6. Queued' \subseteq Queued /\ Sending' \subseteq Sending
    BY <1>1, RepliesWithdrawn
  <1>7. request.batches \subseteq Present
    BY DEF Inv, IngestCoversActive
  <1>8. Present' = Present \cup {Filled}
    BY <1>3, <1>4, <1>5, <1>7 DEF Present
  <1>9. status = "handoff_created" => Filled \notin Active'
    BY <1>3, <1>4, <1>5 DEF Active
  <1>10. HandedSettle
    BY <1>2, <1>8, <1>9 DEF HandedSettle
  <1>11. CASE request.onto # NoTurn
    <2>1. Active' \subseteq Active
      BY <1>3, <1>4, <1>5, <1>11 DEF Active
    <2> QED BY <1>1, <1>5, <1>6, <1>8, <1>10, <1>11, <2>1, FewerStep
  <1>12. CASE request.onto = NoTurn
    <2>1. Active \subseteq request.batches
      BY <1>1, <1>12 DEF Inv, IngestCoversActive
    <2>2. Active' \in {{}, {Filled}}
      <3>1. \A t \in Active' : t = Filled
        BY <1>3, <1>4, <2>1 DEF Active
      <3> QED BY <3>1
    <2>3. \A s \in Present : s < Filled
      <3>1. \A s \in Present : s \in Turns /\ s # Filled /\ ~(Filled < s)
        BY <1>5, <1>12 DEF Inv, TurnOrder, Absent, Present
      <3>2. Filled \in Nat /\ \A s \in Turns : s \in Nat
        BY <1>5, ConversationTurnAssumption DEF Turns
      <3> QED BY <3>1, <3>2
    <2>4. Taken!Open(Filled)
      BY <1>1, <1>6, <1>8, <2>2, <2>3 DEF Taken!Open, Taken!Fewer
    <2> QED BY <1>5, <1>10, <2>4 DEF Moves, Taken!Next
  <1> QED BY <1>11, <1>12

LEMMA TakeoverMoves ==
  ASSUME Inv, CommitTakeover
  PROVE  Moves
  <1>1. /\ batch' = Rewritten(request.batches, "cancelled")
        /\ reply' = Withdrawn(request.replies) /\ request.replies \in SUBSET Turns
        /\ request.batches \in SUBSET Present
        /\ UNCHANGED <<handed, optedOut>>
    BY DEF CommitTakeover, Inv, TypeOK, IngestCoversActive
  <1>2. Present' = Present /\ Active' \subseteq Active
    BY <1>1, BatchesEnd
  <1>3. Queued' \subseteq Queued /\ Sending' \subseteq Sending
    BY <1>1, RepliesWithdrawn
  <1> QED BY <1>1, <1>2, <1>3, FewerStep DEF HandedSettle

(* An answer becomes the reply that waits, in the place of any other. *)
LEMMA ReplyMoves ==
  ASSUME Inv, CommitReply
  PROVE  Moves
  <1> DEFINE t   == writing.turn
             mid == Withdrawn(writing.replies)
             row == [status |-> "queued",
                     boundary |-> writing.decision = "reply_then_handoff"]
  <1>1. /\ writing.decision \in Replying /\ writing.decision # "none"
        /\ optedOut' = optedOut /\ reply' = [mid EXCEPT ![t] = row]
        /\ handed' \subseteq handed \cup {t}
        /\ batch' = [Rewritten(writing.batches, "superseded")
                        EXCEPT ![t].status = "reply_action_created"]
    BY OpenHandoffHands DEF CommitReply, Settled, Replying
  <1>2. /\ mid \in [Turns -> ReplyRows] /\ t \in Turns /\ t # NoTurn
        /\ \A s \in Turns : mid[s].status =
              IF s \in writing.replies THEN "withdrawn" ELSE reply[s].status
    BY <1>1, WriterDecided
  <1>3. "reply_action_created" \in BatchStatuses \ {"absent", "collecting", "generating"}
    BY DEF BatchStatuses
  <1>4. Present' = Present /\ Active = {t} /\ Active' = {}
    BY <1>1, <1>2, <1>3, WriterEnds
  <1> HIDE DEF t, mid
  <1>5. \A s \in Turns : reply'[s].status = IF s = t THEN "queued" ELSE mid[s].status
    BY <1>1, <1>2
  <1>6. Queued \subseteq writing.replies
    BY <1>1 DEF Inv, RepliesFollow
  <1>7. Queued' = {t} /\ Sending' \subseteq Sending
    BY <1>2, <1>5, <1>6 DEF Queued, Sending
  <1>8. ~optedOut
    BY <1>1 DEF Inv, AISwitch, Replying, Decisions
  <1>9. \A s \in Present : s <= t
    BY <1>4, ActiveIsOne DEF Newest
  <1>10. Taken!Answer(t)
    BY <1>1, <1>4, <1>7, <1>8, <1>9 DEF Taken!Answer, Taken!Last
  <1>11. HandedSettle
    BY <1>1, <1>4, ActiveIsOne DEF HandedSettle
  <1> QED BY <1>2, <1>10, <1>11 DEF Moves, Taken!Next

LEMMA OptOutMoves ==
  ASSUME Inv, OptOutWithdraws, CommitOptOut
  PROVE  Moves
  <1> DEFINE t == writing.turn
  <1>1. /\ writing.decision = "hard_opt_out"
        /\ reply' = Withdrawn(writing.replies) /\ handed' = handed /\ optedOut' = TRUE
        /\ batch' = [Rewritten(writing.batches, "cancelled")
                        EXCEPT ![t].status = "rejected"]
    BY DEF CommitOptOut
  <1>2. t \in Turns /\ t # NoTurn /\ writing.replies \in SUBSET Turns
    BY <1>1, WriterDecided
  <1>3. "rejected" \in BatchStatuses \ {"absent", "collecting", "generating"}
    BY DEF BatchStatuses
  <1>4. Present' = Present /\ Active = {t} /\ Active' = {}
    BY <1>1, <1>2, <1>3, WriterEnds
  <1>5. Queued' = {} /\ Sending' \subseteq Sending
    BY <1>1, <1>2, RepliesWithdrawn DEF OptOutWithdraws
  <1>6. ~optedOut
    BY <1>1 DEF Inv, AISwitch, Decisions
  <1> HIDE DEF t
  <1>7. Taken!OptOut(t)
    BY <1>1, <1>4, <1>5, <1>6 DEF Taken!OptOut
  <1> QED BY <1>1, <1>2, <1>7 DEF Moves, Taken!Next, HandedSettle

LEMMA OtherWritesMove ==
  ASSUME Inv, CommitHandoff \/ CommitRetry \/ CommitNoAction
  PROVE  Moves
  <1> DEFINE t == writing.turn
  <1>1. writing.decision # "none" /\ optedOut' = optedOut
    BY DEF CommitHandoff, CommitRetry, CommitNoAction
  <1>2. t \in Turns /\ t # NoTurn /\ writing.replies \in SUBSET Turns
    BY <1>1, WriterDecided
  <1>3. PICK status \in {"paused", "handoff_created", "retry_wait", "no_action"} :
            /\ batch' = [Rewritten(writing.batches, "superseded")
                            EXCEPT ![t].status = status]
            /\ \/ handed' = handed
               \/ status # "retry_wait" /\ handed' \subseteq handed \cup {t}
    BY OpenHandoffHands DEF CommitHandoff, CommitRetry, CommitNoAction, Settled
  <1>4. status \in BatchStatuses \ {"absent", "collecting", "generating"}
    BY DEF BatchStatuses, ActiveStatuses
  <1>5. /\ Present' = Present /\ Active = {t} /\ Active' \subseteq Active
        /\ status # "retry_wait" => Active' = {}
    BY <1>2, <1>3, <1>4, WriterEnds
  <1>6. Queued' \subseteq Queued /\ Sending' \subseteq Sending
    <2>1. CASE CommitNoAction
      BY <2>1 DEF CommitNoAction, Queued, Sending
    <2>2. CASE CommitHandoff \/ CommitRetry
      BY <1>2, <2>2, RepliesWithdrawn DEF CommitHandoff, CommitRetry
    <2> QED BY <2>1, <2>2
  <1> HIDE DEF t
  <1>7. HandedSettle
    BY <1>3, <1>5, ActiveIsOne DEF HandedSettle
  <1> QED BY <1>1, <1>5, <1>6, <1>7, FewerStep

LEMMA SendMoves ==
  ASSUME Inv, SendNext
  PROVE  Moves
  <1>1. ASSUME NEW t \in Turns, ClaimSend(t) PROVE Moves
    <2>1. /\ reply[t].status = "queued" /\ conv.ai
          /\ reply' = [reply EXCEPT ![t].status = "sending"]
          /\ UNCHANGED <<batch, handed, optedOut>>
      BY <1>1 DEF ClaimSend, Eligible
    <2>2. Queued = {t}
      BY <2>1, ActiveIsOne DEF Queued
    <2>3. Queued' = {} /\ Sending' = Sending \cup {t}
      BY <2>1, <2>2 DEF Queued, Sending, Inv, TypeOK
    <2>4. Present' = Present /\ Active' = Active
      BY <2>1 DEF Present, Active
    <2>5. ~optedOut
      BY <2>1 DEF Inv, AISwitch
    <2>6. Taken!Send(t)
      BY <2>1, <2>2, <2>3, <2>4, <2>5 DEF Taken!Send
    <2> QED BY <2>1, <2>6 DEF Moves, Taken!Next, HandedSettle
  <1>2. ASSUME NEW t \in Turns, NEW later \in BOOLEAN, AckSent(t, later) PROVE Moves
    <2>1. /\ reply' = [reply EXCEPT ![t].status = "sent"]
          /\ UNCHANGED <<batch, handed, optedOut>>
      BY <1>2 DEF AckSent
    <2>2. Queued' \subseteq Queued /\ Sending' \subseteq Sending
      BY <2>1, ReplyEnds
    <2>3. Present' = Present /\ Active' = Active
      BY <2>1 DEF Present, Active
    <2> QED BY <2>1, <2>2, <2>3, FewerStep DEF HandedSettle
  <1>3. ASSUME NEW t \in Turns,
               NotSent(t) \/ HandOffUnsent(t) \/ CancelUnsent(t) \/ VehicleChanged(t)
        PROVE  Moves
    <2>1. /\ reply[t].status # "none" /\ optedOut' = optedOut
          /\ reply' \in {[reply EXCEPT ![t].status = "not_sent"],
                         [reply EXCEPT ![t].status = "withdrawn"]}
          /\ handed' \subseteq handed \cup {t}
      BY <1>3, OpenHandoffHands DEF NotSent, HandOffUnsent, CancelUnsent, VehicleChanged
    <2>2. t \in Present /\ t \notin Active
      BY <2>1 DEF Inv, RepliesFollow
    <2>3. PICK batches \in SUBSET {t},
               status \in {"superseded", "cancelled", "handoff_created"} :
             batch' = Rewritten(batches, status)
      <3>1. CASE NotSent(t) \/ HandOffUnsent(t) \/ CancelUnsent(t)
        <4>1. PICK status \in {"cancelled", "handoff_created"} :
                 batch' = [batch EXCEPT ![t].status = status]
          BY <3>1 DEF NotSent, HandOffUnsent, CancelUnsent
        <4>2. batch' = Rewritten({t}, status)
          BY <4>1 DEF Rewritten, Inv, TypeOK
        <4> QED BY <4>2
      <3>2. CASE VehicleChanged(t)
        BY <3>2 DEF VehicleChanged, Dragged
      <3> QED BY <1>3, <3>1, <3>2
    <2>4. batches \in SUBSET Present
      BY <2>2, <2>3
    <2>5. Present' = Present /\ Active' \subseteq Active
      BY <2>3, <2>4, BatchesEnd
    <2>6. Queued' \subseteq Queued /\ Sending' \subseteq Sending
      BY <2>1, ReplyEnds
    <2>7. HandedSettle
      BY <2>1, <2>2, <2>5 DEF HandedSettle
    <2> QED BY <2>1, <2>5, <2>6, <2>7, FewerStep
  <1> QED BY <1>1, <1>2, <1>3 DEF SendNext

LEMMA ClaimMoves ==
  ASSUME Inv, ClaimNext
  PROVE  Moves
  <1>1. PICK t \in Turns : ClaimGeneration(t)
    BY DEF ClaimNext
  <1>2. /\ t \in Active /\ UNCHANGED <<reply, handed, optedOut>>
        /\ \/ batch' = batch
           \/ batch' = [batch EXCEPT ![t].status = "generating", ![t].attempt = @ + 1]
    BY <1>1 DEF ClaimGeneration
  <1>3. Present' = Present /\ Active' \subseteq Active
    BY <1>2 DEF Present, Active, ActiveStatuses, Inv, TypeOK
  <1>4. Queued' = Queued /\ Sending' = Sending
    BY <1>2 DEF Queued, Sending
  <1> QED BY <1>2, <1>3, <1>4, FewerStep DEF HandedSettle

LEMMA StepMoves ==
  ASSUME Inv, OptOutWithdraws, [Next]_vars
  PROVE  Moves
  <1>1. CASE UNCHANGED <<batch, reply, handed, optedOut>>
    <2>1. /\ Present' = Present /\ Active' = Active /\ Queued' = Queued
          /\ Sending' = Sending
      BY <1>1 DEF Present, Active, Queued, Sending
    <2> QED BY <1>1, <2>1, FewerStep DEF HandedSettle
  <1>2. CASE ~UNCHANGED <<batch, reply, handed, optedOut>>
    <2>1. \/ CommitMessage \/ CommitGate \/ CommitTakeover
          \/ WriteNext \/ ClaimNext \/ SendNext
      BY <1>2 DEF Next, vars, EnforceGate, ReadNext, ReadMessage, ReadGateOnly,
                  ReadSales, ReadRecovered, Read, IngestNext, LockForMessage,
                  LockForControl, GenerateNext, StartGeneration, FinishCall,
                  AbortDeadlocked, Crash
    <2> QED BY <2>1, IngestMoves, TakeoverMoves, ReplyMoves, OptOutMoves,
               OtherWritesMove, SendMoves, ClaimMoves DEF WriteNext
  <1> QED BY <1>1, <1>2

(* Between its lock and its write the writer is the only one who could     *)
(* queue a reply.                                                          *)
LEMMA OptOutWithdrawsStep ==
  ASSUME Inv, OptOutWithdraws, [Next]_vars
  PROVE  OptOutWithdraws'
  <1>1. CASE writing' = writing /\ ~CommitReply
    <2>1. Queued' \subseteq Queued
      <3>1. CASE UNCHANGED reply
        BY <3>1 DEF Queued
      <3>2. ASSUME NEW replies \in SUBSET Turns, reply' = Withdrawn(replies)
            PROVE  Queued' \subseteq Queued
        BY <3>2, RepliesWithdrawn
      <3>3. ASSUME NEW s \in Turns, NEW status, status # "queued",
                   reply' = [reply EXCEPT ![s].status = status]
            PROVE  Queued' \subseteq Queued
        BY <3>3 DEF Queued, Inv, TypeOK
      <3>4. CASE SendNext
        BY <3>3, <3>4 DEF SendNext, ClaimSend, AckSent, NotSent, HandOffUnsent,
                          CancelUnsent, VehicleChanged
      <3>5. CASE ~UNCHANGED reply /\ ~SendNext
        <4>1. reply' \in {Withdrawn(request.replies), Withdrawn(writing.replies)}
          BY <1>1, <3>5 DEF Next, vars, EnforceGate, ReadNext, ReadMessage, ReadGateOnly,
                  ReadSales, ReadRecovered, Read, IngestNext, LockForMessage,
                  LockForControl, CommitMessage, CommitGate, CommitTakeover,
                  GenerateNext, StartGeneration, FinishCall, WriteNext, CommitHandoff,
                  CommitRetry, CommitNoAction, CommitOptOut, ClaimNext, ClaimGeneration,
                  AbortDeadlocked, Crash
        <4>2. request.replies \in SUBSET Turns /\ writing.replies \in SUBSET Turns
          BY DEF Inv, TypeOK
        <4> QED BY <3>2, <4>1, <4>2
      <3> QED BY <3>1, <3>4, <3>5
    <2> QED BY <1>1, <2>1 DEF OptOutWithdraws
  <1>2. CASE writing' = NoWriter
    BY <1>2, NoWriterType DEF OptOutWithdraws
  <1>3. CASE writing' # writing /\ writing' # NoWriter
    <2>1. \/ \E t \in Turns : ClaimGeneration(t)
          \/ \E g \in generators : StartGeneration(g)
          \/ \E g \in generators, decision \in Decisions, stale \in BOOLEAN :
                FinishCall(g, decision, stale)
      BY <1>3 DEF Next, vars, EnforceGate, ReadNext, ReadMessage, ReadGateOnly,
                  ReadSales, ReadRecovered, Read, IngestNext, LockForMessage,
                  LockForControl, CommitMessage, CommitGate, CommitTakeover,
                  GenerateNext, WriteNext, CommitReply, CommitHandoff,
                  CommitRetry, CommitNoAction, CommitOptOut, ClaimNext,
                  SendNext, ClaimSend, AckSent, NotSent, HandOffUnsent, CancelUnsent,
                  VehicleChanged, AbortDeadlocked, Crash
    <2>2. ASSUME NEW t \in Turns, ClaimGeneration(t)
          PROVE  OptOutWithdraws'
      <3>1. LockBatch(t, "exhausted", {}, {})
        BY <1>3, <2>2 DEF ClaimGeneration
      <3>2. writing'.decision = "exhausted"
        BY <3>1 DEF LockBatch
      <3> QED BY <3>2 DEF OptOutWithdraws
    <2>4. ASSUME NEW g \in generators, StartGeneration(g)
          PROVE  OptOutWithdraws'
      <3>1. LockBatch(g.turn, "ineligible", {}, {})
        BY <1>3, <2>4 DEF StartGeneration
      <3>2. writing'.decision = "ineligible"
        BY <3>1 DEF LockBatch
      <3> QED BY <3>2 DEF OptOutWithdraws
    <2>3. ASSUME NEW g \in generators, NEW decision \in Decisions, NEW stale \in BOOLEAN,
                 FinishCall(g, decision, stale)
          PROVE  OptOutWithdraws'
      <3> DEFINE outcome == Outcome(decision, stale, g.attempt)
                 open == IF decision \in Replying \cup {"hard_opt_out"} THEN Queued
                         ELSE {}
      <3>1. reply' = reply /\ LockBatch(g.turn, outcome, open, Dragged(open))
        BY <1>3, <2>3 DEF FinishCall
      <3>2. outcome = "hard_opt_out" => decision = "hard_opt_out"
        BY DEF Outcome
      <3>3. writing'.decision = outcome /\ writing'.replies = open
        BY <3>1 DEF LockBatch
      <3> QED BY <3>1, <3>2, <3>3 DEF OptOutWithdraws, Queued
    <2> QED BY <2>1, <2>2, <2>3, <2>4
  <1>4. CASE CommitReply
    BY <1>2, <1>4 DEF CommitReply
  <1> QED BY <1>1, <1>2, <1>3, <1>4

LEMMA TakenInit == Init => Taken!Init /\ OptOutWithdraws /\ handed = {}
  <1> SUFFICES ASSUME Init PROVE Taken!Init /\ OptOutWithdraws /\ handed = {}
    OBVIOUS
  <1>1. \A t \in Turns : batch[t].status = "absent" /\ reply[t].status = "none"
    BY DEF Init
  <1>2. Present = {} /\ Active = {} /\ Queued = {} /\ Sending = {}
    BY <1>1 DEF Present, Active, ActiveStatuses, Queued, Sending
  <1>3. writing.decision = "none"
    BY DEF Init, NoWriter
  <1> QED BY <1>2, <1>3 DEF Init, Taken!Init, OptOutWithdraws

(* A transaction that ends the conversation for good withdraws every reply  *)
(* that waits when it commits, although it looked for them when it took its *)
(* lock.                                                                    *)
THEOREM WithdrawalIsComplete == Spec => []OptOutWithdraws
  BY TakenInit, OptOutWithdrawsStep, InvHolds, PTL DEF Spec

(* The server takes the turns of a conversation one by one, as TurnTaking    *)
(* says: whatever ingests, generations, claims and recoveries overlap, are   *)
(* aborted or killed, each step of them opens the next turn, queues the      *)
(* reply to the last one in the place of any other, ends it, sends the reply *)
(* that waits, or changes nothing the people of the conversation could see.  *)
THEOREM ServerTakesTurns == Spec => TurnsAreTaken
  <1>1. Init => Taken!Init
    BY TakenInit
  <1>2. Inv /\ OptOutWithdraws /\ [Next]_vars => [Taken!Next]_(Taken!vars)
    BY StepMoves DEF Moves
  <1> QED BY <1>1, <1>2, InvHolds, WithdrawalIsComplete, PTL
          DEF Spec, TurnsAreTaken, Taken!Spec

(* A turn that is still to be answered has never been handed over. *)
ActiveIsNotHanded == handed \subseteq Present /\ Active \cap handed = {}

(* A turn whose attempts are used up can always be handed to the sales: the  *)
(* claim that finds it (c3_recovery.py) refuses a turn that has had a        *)
(* handoff, and would leave it generating for ever.  This is the safety part *)
(* of TurnSettles.                                                           *)
THEOREM ExhaustedCanBeHandedOff == Spec => []ActiveIsNotHanded
  <1>1. Init => ActiveIsNotHanded
    BY TakenInit DEF ActiveIsNotHanded
  <1>2. Inv /\ OptOutWithdraws /\ ActiveIsNotHanded /\ [Next]_vars => ActiveIsNotHanded'
    <2> SUFFICES ASSUME Inv, OptOutWithdraws, ActiveIsNotHanded, [Next]_vars
                 PROVE  ActiveIsNotHanded'
      OBVIOUS
    <2>1. Moves
      BY StepMoves
    <2>2. /\ Present \subseteq Present'
          /\ Active' \subseteq Active \cup (Present' \ Present)
      <3>1. CASE UNCHANGED Taken!vars
        BY <3>1 DEF Taken!vars
      <3>2. CASE Taken!Clear
        BY <3>2 DEF Taken!Clear
      <3>3. ASSUME NEW t \in Turns,
                   Taken!Answer(t) \/ Taken!End(t) \/ Taken!OptOut(t) \/ Taken!Send(t)
            PROVE  Present' = Present /\ Active' \subseteq Active
        BY <3>3 DEF Taken!Answer, Taken!End, Taken!OptOut, Taken!Send
      <3>4. ASSUME NEW t \in Turns, Taken!Open(t)
            PROVE  /\ Present \subseteq Present'
                   /\ Active' \subseteq Active \cup (Present' \ Present)
        <4>1. Present' = Present \cup {t} /\ Active' \subseteq {t} /\ ~(t < t)
          BY <3>4, ConversationTurnAssumption DEF Taken!Open, Turns
        <4>2. t \notin Present
          BY <3>4, <4>1 DEF Taken!Open
        <4> QED BY <4>1, <4>2
      <3> QED BY <2>1, <3>1, <3>2, <3>3, <3>4 DEF Moves, Taken!Next
    <2> QED BY <2>1, <2>2 DEF Moves, HandedSettle, ActiveIsNotHanded
  <1> QED BY <1>1, <1>2, InvHolds, WithdrawalIsComplete, PTL DEF Spec
=============================================================================
