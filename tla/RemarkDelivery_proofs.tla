------------------------ MODULE RemarkDelivery_proofs ------------------------
(***************************************************************************)
(* The invariants of RemarkDelivery for any recipients, conversations,     *)
(* remarks and faults. What the outbox, the cursor and the envelopes say   *)
(* is only true between the steps of the owner because of what the owner   *)
(* holds in memory meanwhile; the conjuncts of IInv after TypeOK say what. *)
(***************************************************************************)
EXTENDS RemarkDelivery, LeastNumbers, SequenceTheorems, FiniteSetTheorems

\* Between its steps the owner knows the entry and the remark it works on.
OwnerKnows ==
    /\ owner.at \in {"publish", "move"} => owner.entry \in Remarks
    /\ owner.at \in {"count", "log", "enqueue", "mark", "complete", "drop"} =>
           owner.remark \in Remarks
    /\ owner.at \in {"off", "idle", "resume", "retry", "ready", "clear", "final"} =>
           owner.remark = 0

ConsumersKnow ==
    \A r \in Recipients : consumer[r].at \notin {"off", "idle"} => consumer[r].remark \in Remarks

\* The entry it delivers is in the outbox, and the recipients it counts as
\* reached have the entry's envelope.
EntryInHand ==
    /\ owner.at \in {"publish", "move"} =>
           /\ outbox[owner.entry] # "none"
           /\ \A r \in owner.sent : place[r][owner.entry] # "none"
    /\ owner.at = "move" => owner.sent = Recipients

\* How far the remark it works on has come. While the outbox is delivered
\* (scan, publish, move) that remark, if any, has just been enqueued.
RemarkWritten ==
    /\ \/ owner.at \in {"enqueue", "mark", "complete"}
       \/ owner.at \in {"scan", "publish", "move"} /\ owner.remark # 0
       => owner.remark \in logged
    /\ \/ owner.at \in {"mark", "complete"}
       \/ owner.at \in {"scan", "publish", "move"} /\ owner.remark # 0
       => outbox[owner.remark] # "none"

\* Only remarks of the pinned conversation are worked on, and all of them
\* were made.
WorksOnItsConversation ==
    \A m \in owner.todo \cup ({owner.remark} \ {0}) :
        deliveries[m] # "none" /\ generationOf[m] = owner.pinned

SentWereWritten ==
    \A m \in Remarks : outbox[m] # "none" => deliveries[m] # "none" /\ m \in logged

IInv ==
    /\ TypeOK
    /\ OwnerKnows /\ ConsumersKnow
    /\ EntryInHand /\ OutboxTellsTheTruth
    /\ RemarkWritten /\ ForgottenOnlyWhenEnqueued
    /\ WorksOnItsConversation /\ SentWereWritten /\ StampedWithItsConversation

----------------------------------------------------------------------------
(* The oldest remark, and the last ids of notification-processed.json.     *)

LEMMA LeastIn ==
    ASSUME NEW S \in SUBSET Remarks, S # {}
    PROVE  Least(S) \in S
<1>1. S \in SUBSET Nat
  BY DeliveryAssumption DEF Remarks
<1>2. \E m \in S : \A k \in S : m <= k
  BY <1>1, LeastNatural
<1> QED BY <1>2 DEF Least

LEMMA LastOfTyped ==
    ASSUME NEW s \in Seq(Pairs), NEW n \in Nat \ {0}
    PROVE  LastOf(s, n) \in Seq(Pairs) /\ Len(LastOf(s, n)) <= n
<1>1. CASE Len(s) <= n
  BY <1>1 DEF LastOf
<1>2. CASE Len(s) > n
  <2>1. Len(s) - n + 1 \in 1 .. Len(s) /\ Len(s) \in 0 .. Len(s) /\ Len(s) \in Nat
    BY <1>2
  <2>2. LastOf(s, n) = SubSeq(s, Len(s) - n + 1, Len(s))
    BY <1>2 DEF LastOf
  <2>3. /\ SubSeq(s, Len(s) - n + 1, Len(s)) \in Seq(Pairs)
        /\ Len(SubSeq(s, Len(s) - n + 1, Len(s))) = n
    BY <2>1, SubSeqProperties
  <2> QED BY <2>2, <2>3
<1> QED BY <1>1, <1>2

----------------------------------------------------------------------------

THEOREM InitHolds == Init => IInv
<1> SUFFICES ASSUME Init PROVE IInv
  OBVIOUS
<1>1. TypeOK
  <2>1. owner \in Owner /\ owner.at = "off" /\ owner.remark = 0 /\ owner.todo = {}
    BY DeliveryAssumption DEF Init, OwnerOff, Owner, OwnerSteps
  <2>2. consumer \in [Recipients -> Consumer]
    BY DEF Init, ConsumerOff, Consumer, ConsumerSteps
  <2>3. processed \in Seq(Pairs) /\ Len(processed) = 0
    BY DEF Init
  <2>4. Len(processed) <= ProcessedLimit
    BY <2>3, DeliveryAssumption
  <2>5. 0 \in 0 .. MaxFaults
    BY DeliveryAssumption
  <2>6. /\ deliveries \in [Remarks -> Progress]
        /\ generationOf \in [Remarks -> Generations]
        /\ stamp \in [Remarks -> Generations] /\ generation \in Generations
        /\ logged \subseteq Remarks /\ accepted \subseteq Pairs
        /\ committing \in {0} \cup Remarks /\ outrun \in BOOLEAN /\ unsaid \subseteq Remarks
    BY DeliveryAssumption DEF Init, Progress
  <2>7. /\ outbox \in [Remarks -> {"none", "pending", "done"}]
        /\ delivered \in [Remarks -> SUBSET Recipients]
        /\ place \in [Recipients -> [Remarks -> {"none", "inbox", "processing", "done"}]]
    BY DEF Init
  <2> QED BY <2>1, <2>2, <2>3, <2>4, <2>5, <2>6, <2>7 DEF Init, TypeOK
<1>2. owner = OwnerOff /\ OwnerKnows /\ EntryInHand /\ RemarkWritten
      /\ WorksOnItsConversation
  BY DEF Init, OwnerOff, OwnerKnows, EntryInHand, RemarkWritten, WorksOnItsConversation
<1>3. ConsumersKnow
  BY DEF Init, ConsumerOff, ConsumersKnow
<1>4. OutboxTellsTheTruth /\ ForgottenOnlyWhenEnqueued
      /\ SentWereWritten /\ StampedWithItsConversation
  BY DEF Init, OutboxTellsTheTruth, ForgottenOnlyWhenEnqueued, SentWereWritten,
         StampedWithItsConversation
<1> QED BY <1>1, <1>2, <1>3, <1>4 DEF IInv

----------------------------------------------------------------------------
(* The consumers only move envelopes that are there.                       *)

\* Whatever a consumer does, it takes no envelope out of its mailbox.
LEMMA ConsumerStep ==
    ASSUME IInv, UNCHANGED <<deliveries, committing, outrun, unsaid, generationOf, stamp,
                             logged, outbox, delivered, generation, owner>>,
           faults' \in 0 .. MaxFaults,
           place' \in [Recipients -> [Remarks -> {"none", "inbox", "processing", "done"}]],
           \A r \in Recipients, m \in Remarks : place[r][m] # "none" => place'[r][m] # "none",
           consumer' \in [Recipients -> Consumer], ConsumersKnow',
           processed' \in Seq(Pairs), Len(processed') <= ProcessedLimit,
           accepted' \subseteq Pairs
    PROVE  IInv'
<1> USE DEF IInv
<1>1. TypeOK'
  BY DEF TypeOK
<1>2. OwnerKnows' /\ RemarkWritten' /\ WorksOnItsConversation'
  BY DEF OwnerKnows, RemarkWritten, WorksOnItsConversation
<1>3. EntryInHand'
  BY DEF EntryInHand, OwnerKnows, TypeOK, Owner
<1>4. OutboxTellsTheTruth'
  BY DEF OutboxTellsTheTruth, TypeOK
<1>5. ForgottenOnlyWhenEnqueued' /\ SentWereWritten' /\ StampedWithItsConversation'
  BY DEF ForgottenOnlyWhenEnqueued, Written, SentWereWritten, StampedWithItsConversation
<1> QED BY <1>1, <1>2, <1>3, <1>4, <1>5

LEMMA GoesTyped ==
    ASSUME IInv, NEW r \in Recipients, NEW step \in ConsumerSteps, NEW m \in {0} \cup Remarks,
           step \in {"off", "idle"} \/ m \in Remarks, Goes(r, step, m)
    PROVE  consumer' \in [Recipients -> Consumer] /\ ConsumersKnow'
<1> DEFINE x == [consumer[r] EXCEPT !.at = step, !.remark = m]
<1>1. consumer \in [Recipients -> Consumer]
  BY DEF IInv, TypeOK
<1>2. consumer[r] \in Consumer
  BY <1>1
<1>3. x \in Consumer /\ x.at = step /\ x.remark = m
  BY <1>2 DEF Consumer
<1>4. consumer' = [consumer EXCEPT ![r] = x]
  BY <1>1, <1>2 DEF Goes, Consumer
<1> HIDE DEF x
<1>5. consumer' \in [Recipients -> Consumer]
  BY <1>1, <1>3, <1>4
<1>6. ASSUME NEW q \in Recipients, consumer'[q].at \notin {"off", "idle"}
      PROVE  consumer'[q].remark \in Remarks
  <2>1. CASE q = r
    BY <1>1, <1>3, <1>4, <1>6, <2>1
  <2>2. CASE q # r
    BY <1>1, <1>4, <1>6, <2>2 DEF IInv, ConsumersKnow
  <2> QED BY <2>1, <2>2
<1> QED BY <1>5, <1>6 DEF ConsumersKnow

\* An envelope moved to another directory of the same mailbox.
LEMMA PlaceMoved ==
    ASSUME IInv, NEW r \in Recipients, NEW m \in Remarks,
           NEW p \in {"inbox", "processing", "done"},
           place' = [place EXCEPT ![r][m] = p]
    PROVE  /\ place' \in [Recipients -> [Remarks -> {"none", "inbox", "processing", "done"}]]
           /\ \A q \in Recipients, k \in Remarks :
                  place[q][k] # "none" => place'[q][k] # "none"
           /\ place'[r][m] # "none"
BY DEF IInv, TypeOK

LEMMA ConsumerHolds ==
    ASSUME IInv, NEW r \in Recipients, ConsumerNext(r)
    PROVE  IInv'
<1> USE DEF IInv
<1>1. /\ processed \in Seq(Pairs) /\ Len(processed) <= ProcessedLimit
      /\ faults \in 0 .. MaxFaults /\ accepted \subseteq Pairs
      /\ place \in [Recipients -> [Remarks -> {"none", "inbox", "processing", "done"}]]
  BY DEF TypeOK
<1>2. consumer[r].at \notin {"off", "idle"} => consumer[r].remark \in Remarks
  BY DEF ConsumersKnow
<1>3. ASSUME StartConsumer(r) PROVE IInv'
  <2>1. place' = [place EXCEPT ![r] = [m \in Remarks |->
            IF place[r][m] = "processing" THEN "inbox" ELSE place[r][m]]]
    BY <1>3 DEF StartConsumer
  <2>2. /\ place' \in [Recipients -> [Remarks -> {"none", "inbox", "processing", "done"}]]
        /\ \A q \in Recipients, m \in Remarks : place[q][m] # "none" => place'[q][m] # "none"
    BY <1>1, <2>1
  <2>3. consumer' \in [Recipients -> Consumer] /\ ConsumersKnow'
    BY <1>3, GoesTyped DEF StartConsumer, ConsumerSteps
  <2> QED BY <1>1, <1>3, <2>2, <2>3, ConsumerStep DEF StartConsumer, ConsumerFrame, Uncommitted
<1>4. ASSUME Claim(r) PROVE IInv'
  <2>1. Least(Inbox(r)) \in Remarks
    BY <1>4, LeastIn DEF Claim, Inbox
  <2>2. place' = [place EXCEPT ![r][Least(Inbox(r))] = "processing"]
    BY <1>4 DEF Claim
  <2>3. consumer' \in [Recipients -> Consumer] /\ ConsumersKnow'
    BY <1>4, <2>1, GoesTyped DEF Claim, ConsumerSteps
  <2>4. /\ place' \in [Recipients -> [Remarks -> {"none", "inbox", "processing", "done"}]]
        /\ \A q \in Recipients, m \in Remarks : place[q][m] # "none" => place'[q][m] # "none"
    BY <2>1, <2>2, PlaceMoved
  <2> QED BY <1>1, <1>4, <2>3, <2>4, ConsumerStep DEF Claim, ConsumerFrame, Uncommitted
<1>5. ASSUME consumer[r].at \in {"claimed", "shown", "noted", "refused"},
             Acknowledge(r, "done") \/ Acknowledge(r, "inbox"),
             Goes(r, "idle", 0), UNCHANGED <<processed, accepted>>, ConsumerFrame
      PROVE  IInv'
  <2>1. consumer[r].remark \in Remarks
    BY <1>2, <1>5
  <2>2. /\ place' \in [Recipients -> [Remarks -> {"none", "inbox", "processing", "done"}]]
        /\ \A q \in Recipients, m \in Remarks : place[q][m] # "none" => place'[q][m] # "none"
    BY <1>5, <2>1, PlaceMoved DEF Acknowledge
  <2>3. consumer' \in [Recipients -> Consumer] /\ ConsumersKnow'
    BY <1>5, GoesTyped DEF ConsumerSteps
  <2> QED BY <1>1, <1>5, <2>2, <2>3, ConsumerStep DEF ConsumerFrame, Uncommitted
<1>6. ASSUME Discard(r) \/ Skip(r) \/ Finish(r) \/ Retry(r) PROVE IInv'
  BY <1>5, <1>6 DEF Discard, Skip, Finish, Retry, Holding
<1>7. ASSUME Display(r) \/ Presented(r) PROVE IInv'
  <2>1. consumer[r].remark \in Remarks
    BY <1>2, <1>7 DEF Display, Presented, Holding
  <2>2. consumer' \in [Recipients -> Consumer] /\ ConsumersKnow'
    BY <1>7, <2>1, GoesTyped DEF Display, Presented, ConsumerSteps
  <2> QED BY <1>1, <1>7, <2>2, ConsumerStep
      DEF Display, Presented, ConsumerFrame, Uncommitted
<1>8. ASSUME Accept(r) PROVE IInv'
  <2> DEFINE m == consumer[r].remark
  <2>1. m \in Remarks
    BY <1>2, <1>8 DEF Accept, Holding
  <2>2. <<r, m>> \in Pairs
    BY <2>1 DEF Pairs
  <2>3. Append(processed, <<r, m>>) \in Seq(Pairs)
    BY <1>1, <2>2
  <2>4. processed' \in Seq(Pairs) /\ Len(processed') <= ProcessedLimit
    BY <1>1, <1>8, <2>3, LastOfTyped, DeliveryAssumption DEF Accept
  <2>5. accepted' \subseteq Pairs
    BY <1>1, <1>8, <2>2 DEF Accept
  <2>6. consumer' \in [Recipients -> Consumer] /\ ConsumersKnow'
    BY <1>8, <2>1, GoesTyped DEF Accept, ConsumerSteps
  <2> QED BY <1>1, <1>8, <2>4, <2>5, <2>6, ConsumerStep
      DEF Accept, ConsumerFrame, Uncommitted
<1> QED BY <1>3, <1>4, <1>6, <1>7, <1>8 DEF ConsumerNext

----------------------------------------------------------------------------
(* The owner. First the steps that only move it.                           *)

LEMMA OwnerMoves ==
    ASSUME IInv, UNCHANGED <<deliveries, unsaid, generationOf, stamp, logged, outbox,
                             delivered, place, processed, accepted>>,
           committing' \in {0} \cup Remarks, outrun' \in BOOLEAN,
           generation' \in Generations, faults' \in 0 .. MaxFaults,
           consumer' \in [Recipients -> Consumer], ConsumersKnow',
           owner' \in Owner, OwnerKnows', EntryInHand', RemarkWritten',
           WorksOnItsConversation'
    PROVE  IInv'
<1>1. TypeOK'
  BY DEF IInv, TypeOK
<1>2. OutboxTellsTheTruth' /\ ForgottenOnlyWhenEnqueued' /\ SentWereWritten'
      /\ StampedWithItsConversation'
  BY DEF IInv, OutboxTellsTheTruth, ForgottenOnlyWhenEnqueued, Written, SentWereWritten,
         StampedWithItsConversation
<1> QED BY <1>1, <1>2 DEF IInv

\* An owner that has nothing in hand satisfies what is asked of its memory.
LEMMA NothingInHand ==
    ASSUME owner'.at \in {"off", "idle", "resume", "scan", "retry", "ready", "clear", "final"},
           owner'.remark = 0, owner'.todo = {}
    PROVE  OwnerKnows' /\ EntryInHand' /\ RemarkWritten' /\ WorksOnItsConversation'
BY DEF OwnerKnows, EntryInHand, RemarkWritten, WorksOnItsConversation

LEMMA OwnerFields ==
    ASSUME IInv
    PROVE  /\ owner \in Owner /\ owner.at \in OwnerSteps /\ owner.pinned \in Generations
           /\ owner.remark \in {0} \cup Remarks /\ owner.todo \in SUBSET Remarks
           /\ owner.entry \in {0} \cup Remarks /\ owner.sent \in SUBSET Recipients
           /\ owner.turn \in BOOLEAN /\ owner.blocked \in BOOLEAN
           /\ owner.lost \in SUBSET Remarks /\ owner.then \in {"idle", "ready", "clear", "final"}
           /\ committing \in {0} \cup Remarks /\ outrun \in BOOLEAN /\ unsaid \subseteq Remarks
           /\ generation \in Generations /\ faults \in 0 .. MaxFaults
           /\ consumer \in [Recipients -> Consumer]
           /\ delivered \in [Remarks -> SUBSET Recipients]
           /\ outbox \in [Remarks -> {"none", "pending", "done"}]
           /\ deliveries \in [Remarks -> Progress]
           /\ stamp \in [Remarks -> Generations] /\ generationOf \in [Remarks -> Generations]
           /\ place \in [Recipients -> [Remarks -> {"none", "inbox", "processing", "done"}]]
           /\ logged \subseteq Remarks
BY DEF IInv, TypeOK, Owner

LEMMA OffFields ==
    OwnerOff \in Owner /\ OwnerOff.at = "off" /\ OwnerOff.remark = 0 /\ OwnerOff.todo = {}
BY DeliveryAssumption DEF OwnerOff, Owner, OwnerSteps

LEMMA ConsumersUnchanged ==
    ASSUME IInv, UNCHANGED consumer
    PROVE  consumer' \in [Recipients -> Consumer] /\ ConsumersKnow'
BY DEF IInv, TypeOK, ConsumersKnow

LEMMA BeginTurnHolds == ASSUME IInv, BeginTurn \/ StaySilent PROVE IInv'
<1>1. owner.at \in {"idle", "ready"} /\ owner.remark = 0
  BY DEF BeginTurn, StaySilent, IInv, OwnerKnows
<1>2. /\ owner' \in Owner /\ owner'.at \in {"resume", "idle"} /\ owner'.remark = 0
      /\ owner'.todo = owner.todo /\ owner'.pinned = owner.pinned
  BY <1>1, OwnerFields DEF BeginTurn, StaySilent, Owner, OwnerSteps
<1>3. OwnerKnows' /\ EntryInHand' /\ RemarkWritten'
  BY <1>2 DEF OwnerKnows, EntryInHand, RemarkWritten
<1>4. WorksOnItsConversation'
  BY <1>1, <1>2 DEF BeginTurn, StaySilent, Unwritten, OwnerFrame, IInv, WorksOnItsConversation
<1> QED BY <1>2, <1>3, <1>4, OwnerFields, ConsumersUnchanged, OwnerMoves
        DEF BeginTurn, StaySilent, Unwritten, Uncommitted, OwnerFrame, IInv, TypeOK

LEMMA NextEntryHolds == ASSUME IInv, NextEntry PROVE IInv'
<1> USE DEF IInv
<1>1. owner.at = "scan"
  BY DEF NextEntry
<1>2. owner' \in Owner /\ OwnerKnows' /\ EntryInHand'
  <2>1. CASE Pending # {}
    <3> DEFINE m == Least(Pending)
    <3>1. m \in Pending /\ m \in Remarks
      BY <2>1, LeastIn DEF Pending
    <3>2. owner' = [owner EXCEPT !.at = "publish", !.entry = m, !.sent = delivered[m]]
      BY <2>1 DEF NextEntry
    <3> HIDE DEF m
    <3>3. delivered[m] \in SUBSET Recipients
      BY <3>1, OwnerFields
    <3>4. /\ owner' \in Owner /\ owner'.at = "publish" /\ owner'.entry = m
          /\ owner'.sent = delivered[m]
      BY <3>1, <3>2, <3>3, OwnerFields DEF Owner, OwnerSteps
    <3>5. EntryInHand'
      BY <3>1, <3>4 DEF EntryInHand, OutboxTellsTheTruth, NextEntry, Unwritten, Pending
    <3> QED BY <3>1, <3>4, <3>5 DEF OwnerKnows
  <2>2. CASE Pending = {}
    <3>1. owner' = [owner EXCEPT !.at = IF owner.remark = 0 THEN "retry" ELSE "mark"]
      BY <2>2 DEF NextEntry
    <3>2. /\ owner' \in Owner /\ owner'.remark = owner.remark
          /\ owner'.at = IF owner.remark = 0 THEN "retry" ELSE "mark"
      BY <3>1, OwnerFields DEF Owner, OwnerSteps
    <3> QED BY <3>2, OwnerFields DEF OwnerKnows, EntryInHand
  <2> QED BY <2>1, <2>2
<1>3. /\ owner'.remark = owner.remark /\ owner'.todo = owner.todo
      /\ owner'.pinned = owner.pinned /\ owner'.at \in {"publish", "retry", "mark"}
      /\ owner'.at \in {"retry"} <=> (Pending = {} /\ owner.remark = 0)
  BY OwnerFields DEF NextEntry, Owner
<1>4. owner'.at = "mark" => owner.remark # 0
  BY OwnerFields DEF NextEntry, Owner
<1>5. RemarkWritten'
  BY <1>1, <1>3, <1>4 DEF RemarkWritten, NextEntry, Unwritten
<1>6. WorksOnItsConversation'
  BY <1>3 DEF WorksOnItsConversation, NextEntry, Unwritten, OwnerFrame
<1> QED BY <1>2, <1>5, <1>6, OwnerFields, ConsumersUnchanged, OwnerMoves
        DEF NextEntry, Unwritten, Uncommitted, OwnerFrame, TypeOK

LEMMA BeginRetryHolds == ASSUME IInv, BeginRetry PROVE IInv'
<1> USE DEF IInv
<1> DEFINE todo == Visible(owner.pinned) \ owner.lost
           next == IF todo = {} THEN 0 ELSE Least(todo)
           at == IF todo # {} THEN "count" ELSE owner.then
<1>1. todo \in SUBSET Remarks /\ next \in {0} \cup todo /\ (todo # {} => next \in todo)
  BY LeastIn DEF Visible, MadeIn, Made
<1>2. \A m \in todo : deliveries[m] # "none" /\ generationOf[m] = owner.pinned
  BY DEF Visible, MadeIn, Made
<1>3. owner' = [owner EXCEPT !.blocked = FALSE, !.todo = todo, !.remark = next, !.at = at]
  BY DEF BeginRetry
<1>4. /\ at \in {"count", "ready", "idle", "clear", "final"} /\ (at = "count" <=> todo # {})
      /\ (todo = {} => next = 0)
  BY OwnerFields
<1> HIDE DEF todo, next, at
<1>5. /\ owner' \in Owner /\ owner'.at = at /\ owner'.remark = next
      /\ owner'.todo = todo /\ owner'.pinned = owner.pinned
  BY <1>1, <1>3, <1>4, OwnerFields DEF Owner, OwnerSteps
<1>6. OwnerKnows' /\ EntryInHand' /\ RemarkWritten'
  BY <1>1, <1>4, <1>5 DEF OwnerKnows, EntryInHand, RemarkWritten
<1>7. WorksOnItsConversation'
  BY <1>1, <1>2, <1>5 DEF WorksOnItsConversation, BeginRetry, Unwritten, OwnerFrame
<1> QED BY <1>5, <1>6, <1>7, OwnerFields, ConsumersUnchanged, OwnerMoves
        DEF BeginRetry, Unwritten, Uncommitted, OwnerFrame, TypeOK

\* The commit a turn left over is taken up: its remark is still listed in the
\* pinned conversation, or the commit goes without touching any.
LEMMA TakeUpCommitHolds == ASSUME IInv, TakeUpCommit PROVE IInv'
<1> USE DEF IInv
<1>1. owner.at = "resume" /\ owner.remark = 0
  BY DEF TakeUpCommit, OwnerKnows
<1>2. \A m \in Visible(owner.pinned) :
          m \in Remarks /\ deliveries[m] # "none" /\ generationOf[m] = owner.pinned
  BY DEF Visible, MadeIn, Made
<1>3. CASE ToScan \/ owner' = [owner EXCEPT !.at = "retry", !.then = "clear"]
  <2>1. /\ owner' \in Owner /\ owner'.at \in {"scan", "retry"} /\ owner'.remark = 0
        /\ owner'.todo = owner.todo /\ owner'.pinned = owner.pinned
    BY <1>1, <1>3, OwnerFields DEF ToScan, Owner, OwnerSteps
  <2>2. OwnerKnows' /\ EntryInHand' /\ RemarkWritten'
    BY <2>1 DEF OwnerKnows, EntryInHand, RemarkWritten
  <2>3. WorksOnItsConversation'
    BY <1>1, <2>1 DEF TakeUpCommit, OwnerFrame, WorksOnItsConversation
  <2>4. committing' \in {0} \cup Remarks /\ outrun' \in BOOLEAN
    BY OwnerFields DEF TakeUpCommit
  <2> QED BY <2>1, <2>2, <2>3, <2>4, OwnerFields, ConsumersUnchanged, OwnerMoves
          DEF TakeUpCommit, OwnerFrame, TypeOK
<1>4. CASE /\ committing \in Visible(owner.pinned)
           /\ owner' = [owner EXCEPT !.at = "drop", !.remark = committing, !.then = "clear"]
           /\ UNCHANGED committing /\ outrun' = TRUE
  <2>1. /\ owner' \in Owner /\ owner'.at = "drop" /\ owner'.remark = committing
        /\ owner'.todo = owner.todo /\ owner'.pinned = owner.pinned
    BY <1>2, <1>4, OwnerFields DEF Owner, OwnerSteps
  <2>2. OwnerKnows' /\ EntryInHand' /\ RemarkWritten'
    BY <1>2, <1>4, <2>1 DEF OwnerKnows, EntryInHand, RemarkWritten
  <2>3. WorksOnItsConversation'
    BY <1>1, <1>2, <1>4, <2>1 DEF TakeUpCommit, OwnerFrame, WorksOnItsConversation
  <2> QED BY <1>4, <2>1, <2>2, <2>3, OwnerFields, ConsumersUnchanged, OwnerMoves
          DEF TakeUpCommit, OwnerFrame, TypeOK
<1> QED BY <1>3, <1>4 DEF TakeUpCommit

LEMMA ReleaseHolds == ASSUME IInv, ReleaseCommit \/ EndOwnTurn PROVE IInv'
<1> USE DEF IInv
<1>1. owner.remark = 0
  BY DEF ReleaseCommit, EndOwnTurn, OwnerKnows
<1>2. /\ owner' \in Owner /\ owner'.at \in {"scan", "idle"} /\ owner'.remark = 0
      /\ owner'.todo = owner.todo /\ owner'.pinned = owner.pinned
  BY <1>1, OwnerFields DEF ReleaseCommit, EndOwnTurn, ToScan, Owner, OwnerSteps
<1>3. OwnerKnows' /\ EntryInHand' /\ RemarkWritten'
  BY <1>2 DEF OwnerKnows, EntryInHand, RemarkWritten
<1>4. WorksOnItsConversation'
  BY <1>1, <1>2 DEF ReleaseCommit, EndOwnTurn, OwnerFrame, WorksOnItsConversation
<1>5. committing' \in {0} \cup Remarks /\ outrun' \in BOOLEAN
  BY OwnerFields DEF ReleaseCommit, EndOwnTurn
<1> QED BY <1>2, <1>3, <1>4, <1>5, OwnerFields, ConsumersUnchanged, OwnerMoves
        DEF ReleaseCommit, EndOwnTurn, OwnerFrame, TypeOK

LEMMA ChargeHolds == ASSUME IInv, Charge PROVE IInv'
<1> USE DEF IInv
<1>1. owner.at = "count" /\ owner.remark \in Remarks
  BY DEF Charge, OwnerKnows
<1>2. /\ owner' \in Owner /\ owner'.at \in {"log", "drop"} /\ owner'.remark = owner.remark
      /\ owner'.todo = owner.todo /\ owner'.pinned = owner.pinned
  BY OwnerFields DEF Charge, Owner, OwnerSteps
<1>3. OwnerKnows' /\ EntryInHand' /\ RemarkWritten'
  BY <1>1, <1>2 DEF OwnerKnows, EntryInHand, RemarkWritten
<1>4. WorksOnItsConversation'
  BY <1>2 DEF Charge, Unwritten, OwnerFrame, WorksOnItsConversation
<1> QED BY <1>2, <1>3, <1>4, OwnerFields, ConsumersUnchanged, OwnerMoves
        DEF Charge, Unwritten, Uncommitted, OwnerFrame, TypeOK

LEMMA OwnerStopsHolds ==
    ASSUME IInv, WriteFails \/ Crash \/ (\E g \in Generations : SwitchConversation(g))
    PROVE  IInv'
<1> USE DEF IInv
<1>1. ASSUME WriteFails PROVE IInv'
  <2>1. PICK after \in {"idle", "clear", "final"}, t \in BOOLEAN, b \in BOOLEAN,
             lost \in SUBSET Remarks :
            owner' = [OwnerOff EXCEPT !.at = after, !.pinned = owner.pinned, !.then = after,
                                      !.turn = t, !.lost = lost, !.blocked = b]
    <3> DEFINE after == IF \/ owner.at = "enqueue" /\ owner.then = "final"
                           \/ owner.then = "clear" /\ owner.remark \in owner.todo
                       THEN owner.then ELSE "idle"
               lost == owner.lost \cup (IF TakenOut THEN owner.todo ELSE {})
               t == owner.turn /\ after = "clear"
               b == owner.blocked \/ owner.at = "enqueue"
    <3>1. after \in {"idle", "clear", "final"} /\ lost \in SUBSET Remarks
          /\ t \in BOOLEAN /\ b \in BOOLEAN
      BY OwnerFields
    <3>2. owner' = [OwnerOff EXCEPT !.at = after, !.pinned = owner.pinned, !.then = after,
                                    !.turn = t, !.lost = lost, !.blocked = b]
      BY <1>1, Zenon DEF WriteFails
    <3> HIDE DEF after, lost, t, b
    <3> QED BY <3>1, <3>2
  <2>2. /\ owner' \in Owner /\ owner'.at = after /\ owner'.remark = 0 /\ owner'.todo = {}
    BY <2>1, OwnerFields, OffFields DEF Owner, OwnerSteps
  <2>3. faults' \in 0 .. MaxFaults
    BY <1>1, OwnerFields, DeliveryAssumption DEF WriteFails
  <2> QED BY <1>1, <2>1, <2>2, <2>3, OwnerFields, ConsumersUnchanged, NothingInHand, OwnerMoves
          DEF WriteFails, files
<1>2. ASSUME Crash PROVE IInv'
  <2>1. faults' \in 0 .. MaxFaults
    BY <1>2, OwnerFields, DeliveryAssumption DEF Crash
  <2>2. consumer' \in [Recipients -> Consumer] /\ ConsumersKnow'
    BY <1>2 DEF Crash, ConsumerOff, Consumer, ConsumerSteps, ConsumersKnow
  <2>3. owner' \in Owner /\ owner'.at = "off" /\ owner'.remark = 0 /\ owner'.todo = {}
    BY <1>2, OffFields DEF Crash
  <2> QED BY <1>2, <2>1, <2>2, <2>3, OwnerFields, NothingInHand, OwnerMoves DEF Crash, files
<1>3. ASSUME NEW g \in Generations, SwitchConversation(g) PROVE IInv'
  <2>1. owner' \in Owner /\ owner'.at = "off" /\ owner'.remark = 0 /\ owner'.todo = {}
    BY <1>3, OffFields DEF SwitchConversation
  <2> QED BY <1>3, <2>1, OwnerFields, ConsumersUnchanged, NothingInHand, OwnerMoves
          DEF SwitchConversation, Uncommitted
<1> QED BY <1>1, <1>2, <1>3

\* A refused presentation, and a consumer that gives up what it claimed.
LEMMA ConsumerFaultHolds ==
    ASSUME IInv, NEW r \in Recipients, Refused(r) \/ ConsumerFails(r)
    PROVE  IInv'
<1> USE DEF IInv
<1>1. faults' \in 0 .. MaxFaults
  BY OwnerFields, DeliveryAssumption DEF Refused, ConsumerFails
<1>2. consumer[r].remark \in Remarks /\ consumer[r] \in Consumer
  BY OwnerFields DEF Refused, ConsumerFails, Holding, ConsumersKnow
<1>3. consumer' \in [Recipients -> Consumer] /\ ConsumersKnow'
  <2>1. CASE Refused(r)
    BY <1>2, <2>1, GoesTyped DEF Refused, ConsumerSteps
  <2>2. CASE ConsumerFails(r)
    <3> DEFINE x == [at |-> "idle", remark |-> 0,
                     left |-> consumer[r].left \cup {consumer[r].remark}]
    <3>1. x \in Consumer /\ x.at = "idle"
      BY <1>2 DEF Consumer, ConsumerSteps
    <3>2. consumer' = [consumer EXCEPT ![r] = x]
      BY <2>2 DEF ConsumerFails
    <3> HIDE DEF x
    <3>3. consumer' \in [Recipients -> Consumer]
      BY <3>1, <3>2, OwnerFields
    <3>4. \A q \in Recipients : consumer'[q] = IF q = r THEN x ELSE consumer[q]
      BY <3>2, OwnerFields
    <3> QED BY <3>1, <3>3, <3>4 DEF ConsumersKnow
  <2> QED BY <2>1, <2>2
<1>4. UNCHANGED files /\ UNCHANGED owner /\ UNCHANGED <<accepted, unsaid>>
  BY DEF Refused, ConsumerFails
<1> QED BY <1>1, <1>3, <1>4, ConsumerStep, OwnerFields DEF files, TypeOK

----------------------------------------------------------------------------
(* The steps of the owner that write.                                      *)

LEMMA StartOwnerHolds == ASSUME IInv, StartOwner PROVE IInv'
<1> USE DEF IInv
<1>1. owner' = [OwnerOff EXCEPT !.at = "resume", !.pinned = generation]
  BY DEF StartOwner
<1>2. owner' \in Owner /\ owner'.at = "resume" /\ owner'.remark = 0 /\ owner'.todo = {}
  BY <1>1, OwnerFields, OffFields DEF Owner, OwnerSteps
<1>3. \A m \in Remarks :
          deliveries'[m] = IF m \in Visible(generation)
                           THEN IF outbox[m] = "none" THEN "pending" ELSE "enqueued"
                           ELSE deliveries[m]
  BY DEF StartOwner
<1>4. deliveries' \in [Remarks -> Progress]
  BY OwnerFields DEF StartOwner, Progress
<1>5. \A m \in Remarks :
          /\ deliveries'[m] \in {"enqueued", "complete"} =>
                 \/ deliveries[m] \in {"enqueued", "complete"}
                 \/ outbox[m] # "none" /\ m \in Visible(generation)
          /\ deliveries[m] # "none" => deliveries'[m] # "none"
  BY <1>3
<1>6. TypeOK'
  BY <1>2, <1>4 DEF StartOwner, Uncommitted, OwnerFrame, TypeOK
<1>7. OwnerKnows' /\ EntryInHand' /\ RemarkWritten' /\ WorksOnItsConversation'
  BY <1>2, NothingInHand
<1>8. ConsumersKnow' /\ OutboxTellsTheTruth' /\ StampedWithItsConversation'
  BY DEF StartOwner, OwnerFrame, ConsumersKnow, OutboxTellsTheTruth,
         StampedWithItsConversation
<1>9. SentWereWritten'
  BY <1>5 DEF StartOwner, SentWereWritten
<1>10. ForgottenOnlyWhenEnqueued'
  BY <1>5 DEF StartOwner, Uncommitted, ForgottenOnlyWhenEnqueued, SentWereWritten, Written
<1> QED BY <1>6, <1>7, <1>8, <1>9, <1>10

LEMMA PublishHolds == ASSUME IInv, NEW r \in Recipients, Publish(r) PROVE IInv'
<1> USE DEF IInv
<1>1. owner.entry \in Remarks /\ owner.at = "publish"
  BY DEF Publish, OwnerKnows
<1>2. /\ place' \in [Recipients -> [Remarks -> {"none", "inbox", "processing", "done"}]]
      /\ \A q \in Recipients, m \in Remarks : place[q][m] # "none" => place'[q][m] # "none"
      /\ place'[r][owner.entry] # "none"
  <2>1. CASE place[r][owner.entry] = "none"
    BY <1>1, <2>1, PlaceMoved DEF Publish
  <2>2. CASE place[r][owner.entry] # "none"
    BY <2>2, OwnerFields DEF Publish
  <2> QED BY <2>1, <2>2
<1>3. /\ owner' \in Owner /\ owner'.at = "publish" /\ owner'.entry = owner.entry
      /\ owner'.sent = owner.sent \cup {r} /\ owner'.remark = owner.remark
      /\ owner'.todo = owner.todo /\ owner'.pinned = owner.pinned
  BY <1>1, OwnerFields DEF Publish, Owner
<1>4. TypeOK'
  BY <1>2, <1>3 DEF Publish, Uncommitted, OwnerFrame, TypeOK
<1>5. OwnerKnows' /\ ConsumersKnow'
  BY <1>1, <1>3 DEF Publish, OwnerFrame, OwnerKnows, ConsumersKnow
<1>6. EntryInHand'
  BY <1>1, <1>2, <1>3, OwnerFields DEF Publish, EntryInHand
<1>7. OutboxTellsTheTruth'
  BY <1>2, OwnerFields DEF Publish, OutboxTellsTheTruth
<1>8. RemarkWritten' /\ ForgottenOnlyWhenEnqueued' /\ SentWereWritten'
      /\ StampedWithItsConversation'
  BY <1>1, <1>3 DEF Publish, Uncommitted, OwnerFrame, RemarkWritten,
      ForgottenOnlyWhenEnqueued, Written, SentWereWritten, StampedWithItsConversation
<1>9. WorksOnItsConversation'
  BY <1>3 DEF Publish, OwnerFrame, WorksOnItsConversation
<1> QED BY <1>4, <1>5, <1>6, <1>7, <1>8, <1>9

LEMMA WriteEntryHolds == ASSUME IInv, WriteEntry PROVE IInv'
<1> USE DEF IInv
<1>1. owner.entry \in Remarks /\ owner.at = "publish" /\ owner.sent = Recipients
  BY DEF WriteEntry, OwnerKnows
<1>2. /\ owner' \in Owner /\ owner'.at = "move" /\ owner'.entry = owner.entry
      /\ owner'.sent = owner.sent /\ owner'.remark = owner.remark
      /\ owner'.todo = owner.todo /\ owner'.pinned = owner.pinned
  BY OwnerFields DEF WriteEntry, Owner, OwnerSteps
<1>3. /\ delivered' \in [Remarks -> SUBSET Recipients]
      /\ \A m \in Remarks : delivered'[m] = IF m = owner.entry THEN owner.sent
                                                              ELSE delivered[m]
  BY <1>1, OwnerFields DEF WriteEntry
<1>4. TypeOK'
  BY <1>2, <1>3 DEF WriteEntry, Uncommitted, OwnerFrame, TypeOK
<1>5. OwnerKnows' /\ ConsumersKnow'
  BY <1>1, <1>2 DEF WriteEntry, OwnerFrame, OwnerKnows, ConsumersKnow
<1>6. EntryInHand'
  BY <1>1, <1>2 DEF WriteEntry, EntryInHand
<1>7. OutboxTellsTheTruth'
  BY <1>1, <1>3 DEF WriteEntry, OutboxTellsTheTruth, EntryInHand
<1>8. RemarkWritten' /\ ForgottenOnlyWhenEnqueued' /\ SentWereWritten'
      /\ StampedWithItsConversation'
  BY <1>1, <1>2 DEF WriteEntry, Uncommitted, OwnerFrame, RemarkWritten,
      ForgottenOnlyWhenEnqueued, Written, SentWereWritten, StampedWithItsConversation
<1>9. WorksOnItsConversation'
  BY <1>2 DEF WriteEntry, OwnerFrame, WorksOnItsConversation
<1> QED BY <1>4, <1>5, <1>6, <1>7, <1>8, <1>9

LEMMA DeliveryFailsHolds == ASSUME IInv, DeliveryFails PROVE IInv'
<1> USE DEF IInv
<1> DEFINE next == IF owner.remark = 0 THEN "retry" ELSE "mark"
<1>1. owner.entry \in Remarks /\ owner.at \in {"publish", "move"}
  BY DEF DeliveryFails, OwnerKnows
<1>2. owner' = [owner EXCEPT !.at = next, !.entry = 0, !.sent = {}]
  BY DEF DeliveryFails
<1>3. /\ owner' \in Owner /\ owner'.at = next /\ owner'.remark = owner.remark
      /\ owner'.todo = owner.todo /\ owner'.pinned = owner.pinned
  BY <1>2, OwnerFields DEF Owner, OwnerSteps
<1>4. \/ delivered' = delivered
      \/ delivered' = [delivered EXCEPT ![owner.entry] = owner.sent]
  BY DEF DeliveryFails
<1>5. /\ delivered' \in [Remarks -> SUBSET Recipients]
      /\ \A m \in Remarks : \/ delivered'[m] = delivered[m]
                            \/ m = owner.entry /\ delivered'[m] = owner.sent
  BY <1>1, <1>4, OwnerFields
<1>6. faults' \in 0 .. MaxFaults
  BY OwnerFields, DeliveryAssumption DEF DeliveryFails
<1>7. TypeOK'
  BY <1>3, <1>5, <1>6 DEF DeliveryFails, Uncommitted, TypeOK
<1>8. OwnerKnows' /\ ConsumersKnow' /\ EntryInHand'
  BY <1>3, OwnerFields DEF DeliveryFails, OwnerKnows, ConsumersKnow, EntryInHand
<1>9. OutboxTellsTheTruth'
  BY <1>1, <1>5 DEF DeliveryFails, OutboxTellsTheTruth, EntryInHand
<1>10. RemarkWritten' /\ ForgottenOnlyWhenEnqueued' /\ SentWereWritten'
       /\ StampedWithItsConversation'
  BY <1>1, <1>3 DEF DeliveryFails, Uncommitted, RemarkWritten,
      ForgottenOnlyWhenEnqueued, Written, SentWereWritten, StampedWithItsConversation
<1>11. WorksOnItsConversation'
  BY <1>3 DEF DeliveryFails, WorksOnItsConversation
<1> QED BY <1>7, <1>8, <1>9, <1>10, <1>11

LEMMA MoveEntryHolds == ASSUME IInv, MoveEntry PROVE IInv'
<1> USE DEF IInv
<1>1. owner.entry \in Remarks /\ owner.at = "move" /\ owner.sent = Recipients
  BY DEF MoveEntry, OwnerKnows, EntryInHand
<1>2. /\ owner' \in Owner /\ owner'.at = "scan" /\ owner'.remark = owner.remark
      /\ owner'.todo = owner.todo /\ owner'.pinned = owner.pinned
  BY OwnerFields DEF MoveEntry, Owner, OwnerSteps
<1>3. /\ outbox' \in [Remarks -> {"none", "pending", "done"}]
      /\ \A m \in Remarks : outbox'[m] = IF m = owner.entry THEN "done" ELSE outbox[m]
  BY <1>1, OwnerFields DEF MoveEntry
<1>4. outbox[owner.entry] # "none"
  BY <1>1 DEF EntryInHand
<1>5. TypeOK'
  BY <1>2, <1>3 DEF MoveEntry, Uncommitted, OwnerFrame, TypeOK
<1>6. OwnerKnows' /\ ConsumersKnow' /\ EntryInHand'
  BY <1>2 DEF MoveEntry, OwnerFrame, OwnerKnows, ConsumersKnow, EntryInHand
<1>7. OutboxTellsTheTruth'
  BY <1>1, <1>3 DEF MoveEntry, OutboxTellsTheTruth, EntryInHand
<1>8. \A m \in Remarks : outbox'[m] # "none" <=> outbox[m] # "none"
  BY <1>3, <1>4
<1>9. ForgottenOnlyWhenEnqueued' /\ SentWereWritten' /\ StampedWithItsConversation'
  BY <1>8 DEF MoveEntry, Uncommitted, OwnerFrame, ForgottenOnlyWhenEnqueued, Written,
              SentWereWritten, StampedWithItsConversation
<1>10. RemarkWritten'
  BY <1>1, <1>2, <1>8, OwnerFields DEF MoveEntry, RemarkWritten
<1>11. WorksOnItsConversation'
  BY <1>2 DEF MoveEntry, OwnerFrame, WorksOnItsConversation
<1> QED BY <1>5, <1>6, <1>7, <1>9, <1>10, <1>11

LEMMA MakeHolds == ASSUME IInv, Make PROVE IInv'
<1> USE DEF IInv
<1> DEFINE m == Least(Remarks \ Made)
<1>1. m \in Remarks /\ deliveries[m] = "none" /\ owner.at = "ready" /\ owner.remark = 0
  BY LeastIn DEF Make, Made, OwnerKnows
<1>2. /\ deliveries' = [deliveries EXCEPT ![m] = "pending"]
      /\ generationOf' = [generationOf EXCEPT ![m] = owner.pinned]
      /\ owner' = [owner EXCEPT !.at = "count", !.remark = m, !.todo = {m}, !.then = "final"]
      /\ committing' = m
  BY DEF Make
<1> HIDE DEF m
<1>3. /\ owner' \in Owner /\ owner'.at = "count" /\ owner'.remark = m
      /\ owner'.todo = {m} /\ owner'.pinned = owner.pinned
  BY <1>1, <1>2, OwnerFields DEF Owner, OwnerSteps
<1>4. /\ deliveries' \in [Remarks -> Progress]
      /\ \A k \in Remarks : deliveries'[k] = IF k = m THEN "pending" ELSE deliveries[k]
  BY <1>1, <1>2, OwnerFields DEF Progress
<1>5. /\ generationOf' \in [Remarks -> Generations]
      /\ \A k \in Remarks : generationOf'[k] = IF k = m THEN owner.pinned ELSE generationOf[k]
  BY <1>1, <1>2, OwnerFields
<1>6. outbox[m] = "none"
  BY <1>1 DEF SentWereWritten
<1>7. TypeOK'
  BY <1>1, <1>2, <1>3, <1>4, <1>5 DEF Make, TypeOK
<1>8. OwnerKnows' /\ ConsumersKnow' /\ EntryInHand' /\ RemarkWritten'
  BY <1>1, <1>3 DEF Make, OwnerKnows, ConsumersKnow, EntryInHand, RemarkWritten
<1>9. OutboxTellsTheTruth'
  BY DEF Make, OutboxTellsTheTruth
<1>10. ForgottenOnlyWhenEnqueued' /\ SentWereWritten'
  BY <1>4 DEF Make, ForgottenOnlyWhenEnqueued, Written, SentWereWritten
<1>11. StampedWithItsConversation'
  BY <1>5, <1>6 DEF Make, StampedWithItsConversation
<1>12. WorksOnItsConversation'
  BY <1>1, <1>3, <1>4, <1>5 DEF WorksOnItsConversation
<1> QED BY <1>7, <1>8, <1>9, <1>10, <1>11, <1>12

LEMMA LogHolds == ASSUME IInv, Log PROVE IInv'
<1> USE DEF IInv
<1> DEFINE next == IF deliveries[owner.remark] = "enqueued" THEN "complete" ELSE "enqueue"
<1>1. owner.remark \in Remarks /\ owner.at = "log"
  BY DEF Log, OwnerKnows
<1>2. owner' = [owner EXCEPT !.at = next]
  BY DEF Log
<1>3. /\ owner' \in Owner /\ owner'.at = next /\ owner'.remark = owner.remark
      /\ owner'.todo = owner.todo /\ owner'.pinned = owner.pinned
  BY <1>2, OwnerFields DEF Owner, OwnerSteps
<1>4. logged' = logged \cup {owner.remark}
  BY DEF Log
<1>5. TypeOK'
  BY <1>1, <1>3, <1>4 DEF Log, Uncommitted, OwnerFrame, TypeOK
<1>6. OwnerKnows' /\ ConsumersKnow' /\ EntryInHand'
  BY <1>1, <1>3 DEF Log, OwnerFrame, OwnerKnows, ConsumersKnow, EntryInHand
<1>7. next = "complete" => outbox[owner.remark] # "none"
  BY <1>1 DEF ForgottenOnlyWhenEnqueued, Written
<1>8. RemarkWritten'
  BY <1>3, <1>4, <1>7 DEF Log, RemarkWritten
<1>9. OutboxTellsTheTruth' /\ StampedWithItsConversation'
  BY DEF Log, OwnerFrame, OutboxTellsTheTruth, StampedWithItsConversation
<1>10. ForgottenOnlyWhenEnqueued' /\ SentWereWritten'
  BY <1>4 DEF Log, Uncommitted, ForgottenOnlyWhenEnqueued, Written, SentWereWritten
<1>11. WorksOnItsConversation'
  BY <1>3 DEF Log, OwnerFrame, WorksOnItsConversation
<1> QED BY <1>5, <1>6, <1>8, <1>9, <1>10, <1>11

\* An envelope is stamped with the pinned conversation, which is the one the
\* remark was made in.
LEMMA EnqueueHolds == ASSUME IInv, Enqueue PROVE IInv'
<1> USE DEF IInv
<1>1. /\ owner.remark \in Remarks /\ owner.at = "enqueue" /\ owner.remark \in logged
      /\ deliveries[owner.remark] # "none"
      /\ generationOf[owner.remark] = owner.pinned
  <2>1. owner.remark \in Remarks /\ owner.at = "enqueue"
    BY DEF Enqueue, OwnerKnows
  <2>2. owner.remark # 0
    BY <2>1 DEF Remarks
  <2> QED BY <2>1, <2>2 DEF RemarkWritten, WorksOnItsConversation
<1>2. /\ owner' \in Owner /\ owner'.at = "scan" /\ owner'.remark = owner.remark
      /\ owner'.todo = owner.todo /\ owner'.pinned = owner.pinned
  BY OwnerFields DEF Enqueue, Owner, OwnerSteps
<1>3. /\ outbox' \in [Remarks -> {"none", "pending", "done"}]
      /\ stamp' \in [Remarks -> Generations]
      /\ outbox'[owner.remark] # "none"
      /\ \A m \in Remarks \ {owner.remark} : outbox'[m] = outbox[m] /\ stamp'[m] = stamp[m]
      /\ \/ outbox[owner.remark] # "none" /\ outbox' = outbox /\ stamp' = stamp
         \/ outbox'[owner.remark] = "pending" /\ stamp'[owner.remark] = owner.pinned
  <2>1. CASE outbox[owner.remark] = "none"
    <3>1. /\ outbox' = [outbox EXCEPT ![owner.remark] = "pending"]
          /\ stamp' = [stamp EXCEPT ![owner.remark] = owner.pinned]
      BY <2>1 DEF Enqueue
    <3> QED BY <1>1, <3>1, OwnerFields
  <2>2. CASE outbox[owner.remark] # "none"
    BY <2>2, OwnerFields DEF Enqueue
  <2> QED BY <2>1, <2>2
<1>4. TypeOK'
  BY <1>2, <1>3 DEF Enqueue, Uncommitted, OwnerFrame, TypeOK
<1>5. OwnerKnows' /\ ConsumersKnow' /\ EntryInHand'
  BY <1>2 DEF Enqueue, OwnerFrame, OwnerKnows, ConsumersKnow, EntryInHand
<1>6. RemarkWritten'
  BY <1>1, <1>2, <1>3 DEF Enqueue, RemarkWritten
<1>7. OutboxTellsTheTruth'
  BY <1>3 DEF Enqueue, OutboxTellsTheTruth
<1>8. ForgottenOnlyWhenEnqueued' /\ SentWereWritten'
  BY <1>1, <1>3 DEF Enqueue, Uncommitted, ForgottenOnlyWhenEnqueued, Written, SentWereWritten
<1>9. StampedWithItsConversation'
  BY <1>1, <1>3 DEF Enqueue, OwnerFrame, StampedWithItsConversation
<1>10. WorksOnItsConversation'
  BY <1>2 DEF Enqueue, OwnerFrame, WorksOnItsConversation
<1> QED BY <1>4, <1>5, <1>6, <1>7, <1>8, <1>9, <1>10

\* The remark in hand is written down as further along, or as given up.
LEMMA ProgressWritten ==
    ASSUME IInv, owner.at \in {"mark", "complete", "drop"}, NEW p \in {"enqueued", "complete"},
           deliveries' = [deliveries EXCEPT ![owner.remark] = p],
           unsaid \subseteq unsaid',
           owner.at = "drop" => p = "complete" /\ owner.remark \in unsaid',
           UNCHANGED <<stamp, logged, outbox, delivered, place>>, OwnerFrame
    PROVE  /\ deliveries' \in [Remarks -> Progress]
           /\ \A m \in Remarks : deliveries[m] # "none" => deliveries'[m] # "none"
           /\ ForgottenOnlyWhenEnqueued' /\ SentWereWritten'
           /\ owner.remark \in Remarks
           /\ owner.at # "drop" => owner.remark \in logged /\ outbox[owner.remark] # "none"
<1> USE DEF IInv
<1>1. /\ owner.remark \in Remarks
      /\ owner.at # "drop" => owner.remark \in logged /\ outbox[owner.remark] # "none"
  BY DEF OwnerKnows, RemarkWritten
<1>2. /\ deliveries' \in [Remarks -> Progress]
      /\ \A m \in Remarks : deliveries'[m] = IF m = owner.remark THEN p ELSE deliveries[m]
  BY <1>1, OwnerFields DEF Progress
<1>3. ForgottenOnlyWhenEnqueued' /\ SentWereWritten'
  BY <1>1, <1>2 DEF ForgottenOnlyWhenEnqueued, Written, SentWereWritten
<1> QED BY <1>1, <1>2, <1>3

LEMMA MarkHolds == ASSUME IInv, Mark PROVE IInv'
<1> USE DEF IInv
<1>1. /\ deliveries' \in [Remarks -> Progress]
      /\ \A m \in Remarks : deliveries[m] # "none" => deliveries'[m] # "none"
      /\ ForgottenOnlyWhenEnqueued' /\ SentWereWritten'
      /\ owner.remark \in Remarks /\ owner.remark \in logged /\ outbox[owner.remark] # "none"
  BY ProgressWritten DEF Mark, Uncommitted
<1>2. /\ owner' \in Owner /\ owner'.at = "complete" /\ owner'.remark = owner.remark
      /\ owner'.todo = owner.todo /\ owner'.pinned = owner.pinned
  BY OwnerFields DEF Mark, Owner, OwnerSteps
<1>3. TypeOK'
  BY <1>1, <1>2 DEF Mark, Uncommitted, OwnerFrame, TypeOK
<1>4. OwnerKnows' /\ ConsumersKnow' /\ EntryInHand' /\ RemarkWritten'
  BY <1>1, <1>2 DEF Mark, OwnerFrame, OwnerKnows, ConsumersKnow, EntryInHand, RemarkWritten
<1>5. OutboxTellsTheTruth' /\ StampedWithItsConversation'
  BY DEF Mark, OwnerFrame, OutboxTellsTheTruth, StampedWithItsConversation
<1>6. WorksOnItsConversation'
  BY <1>1, <1>2, OwnerFields DEF Mark, OwnerFrame, WorksOnItsConversation
<1> QED BY <1>1, <1>3, <1>4, <1>5, <1>6

LEMMA CompleteHolds == ASSUME IInv, Complete PROVE IInv'
<1> USE DEF IInv
<1> DEFINE rest == owner.todo \ {owner.remark}
           next == IF rest = {} THEN 0 ELSE Least(rest)
           at == IF rest # {} THEN "count" ELSE owner.then
<1>0. /\ owner.at \in {"complete", "drop"} /\ unsaid \subseteq unsaid'
      /\ owner.at = "drop" => owner.remark \in unsaid'
      /\ unsaid' \subseteq Remarks
  BY OwnerFields DEF Complete, OwnerKnows
<1>1. /\ deliveries' \in [Remarks -> Progress]
      /\ \A m \in Remarks : deliveries[m] # "none" => deliveries'[m] # "none"
      /\ ForgottenOnlyWhenEnqueued' /\ SentWereWritten'
  BY <1>0, ProgressWritten DEF Complete
<1>2. /\ rest \in SUBSET Remarks /\ rest \subseteq owner.todo
      /\ next \in {0} \cup rest /\ (rest # {} => next \in rest) /\ (rest = {} => next = 0)
  BY LeastIn, OwnerFields
<1>3. owner' = [owner EXCEPT !.todo = rest, !.remark = next, !.at = at]
  BY DEF Complete, Onward
<1>4. at \in {"count", "ready", "idle", "clear", "final"} /\ (at = "count" <=> rest # {})
  BY OwnerFields
<1> HIDE DEF rest, next, at
<1>5. /\ owner' \in Owner /\ owner'.at = at /\ owner'.remark = next
      /\ owner'.todo = rest /\ owner'.pinned = owner.pinned
  BY <1>2, <1>3, <1>4, OwnerFields DEF Owner, OwnerSteps
<1>6. TypeOK'
  BY <1>0, <1>1, <1>5 DEF Complete, OwnerFrame, TypeOK
<1>7. OwnerKnows' /\ EntryInHand' /\ RemarkWritten'
  BY <1>2, <1>4, <1>5 DEF OwnerKnows, EntryInHand, RemarkWritten
<1>8. ConsumersKnow' /\ OutboxTellsTheTruth' /\ StampedWithItsConversation'
  BY DEF Complete, OwnerFrame, ConsumersKnow, OutboxTellsTheTruth, StampedWithItsConversation
<1>9. WorksOnItsConversation'
  BY <1>1, <1>2, <1>5 DEF Complete, OwnerFrame, WorksOnItsConversation
<1> QED BY <1>1, <1>6, <1>7, <1>8, <1>9

----------------------------------------------------------------------------

THEOREM StepHolds == IInv /\ [Next]_vars => IInv'
<1> SUFFICES ASSUME IInv, [Next]_vars PROVE IInv'
  OBVIOUS
<1>1. CASE OwnerNext \/ Make
  BY <1>1, StartOwnerHolds, BeginTurnHolds, TakeUpCommitHolds, ReleaseHolds, NextEntryHolds,
     PublishHolds, WriteEntryHolds, MoveEntryHolds, BeginRetryHolds, MakeHolds, ChargeHolds,
     LogHolds, EnqueueHolds, MarkHolds, CompleteHolds DEF OwnerNext
<1>2. CASE \E g \in Generations : SwitchConversation(g)
  BY <1>2, OwnerStopsHolds
<1>3. CASE \E r \in Recipients : ConsumerNext(r)
  BY <1>3, ConsumerHolds
<1>4. CASE FaultNext
  BY <1>4, DeliveryFailsHolds, OwnerStopsHolds, ConsumerFaultHolds DEF FaultNext
<1>5. CASE UNCHANGED vars
  BY <1>5 DEF vars, IInv, TypeOK, OwnerKnows, ConsumersKnow, EntryInHand,
     OutboxTellsTheTruth, RemarkWritten, ForgottenOnlyWhenEnqueued, Written,
     WorksOnItsConversation, SentWereWritten, StampedWithItsConversation
<1> QED BY <1>1, <1>2, <1>3, <1>4, <1>5 DEF Next

\* The inductive invariant holds in every reachable state.
THEOREM Invariance == Spec => []IInv
BY InitHolds, StepHolds, PTL DEF Spec

\* The files, the memory of the owner and of the consumers keep their types,
\* for any recipients and conversations; notification-processed.json never
\* exceeds its limit.
THEOREM TypeCorrect == Spec => []TypeOK
<1>1. IInv => TypeOK
  BY DEF IInv
<1> QED BY <1>1, Invariance, PTL

\* However often the delivery of an entry is cut short and taken up again,
\* the outbox never names a recipient as reached whose mailbox lacks the
\* envelope, and finishes no entry that did not reach them all.
THEOREM OutboxTruthful == Spec => []OutboxTellsTheTruth
<1>1. IInv => OutboxTellsTheTruth
  BY DEF IInv
<1> QED BY <1>1, Invariance, PTL

\* Wherever the owner was stopped, a remark that cursor.json has let go of is in
\* the conversation log and in the outbox, or was given up by one of the two
\* ways the code has for that: the day's limit or a lost offer refused it, or
\* the commit of its turn was outrun. The outbox has nothing the log lacks.
THEOREM NothingForgottenEarly == Spec => []ForgottenOnlyWhenEnqueued
<1>1. IInv => ForgottenOnlyWhenEnqueued
  BY DEF IInv
<1> QED BY <1>1, Invariance, PTL

\* An envelope carries the conversation its remark was made in, whatever
\* conversations were selected and pinned between the two.
THEOREM StampIsRight == Spec => []StampedWithItsConversation
<1>1. IInv => StampedWithItsConversation
  BY DEF IInv
<1> QED BY <1>1, Invariance, PTL

----------------------------------------------------------------------------
(* RemarkDelivery implements OrderedFanout. The four sets and the function *)
(* below are what Fanout substitutes for the variables of the abstract     *)
(* specification. An item settled is not shown again only while the list   *)
(* of processed ids covers what was accepted and not completed: the list   *)
(* is bounded, and an envelope may wait in processing for any time.        *)

Sent == {m \in Remarks : outbox[m] # "none"}
Arrived == {p \in Pairs : place[p[1]][p[2]] # "none"}
Held == {p \in Pairs : place[p[1]][p[2]] = "processing"} \ Settled
Showing == [r \in Recipients |->
    IF consumer[r].at \in {"showing", "shown", "refused"} THEN consumer[r].remark ELSE 0]

\* What was accepted is completed, or its id is still in the list.
Remembered == \A p \in accepted : place[p[1]][p[2]] = "done" \/ Noted(p[1], p[2])

\* The entry being published is the oldest one that is pending.
NextInLine ==
    owner.at = "publish" => \A k \in Remarks : outbox[k] = "pending" => owner.entry <= k

\* What a consumer has claimed stays in processing until it is done with it.
ClaimsInHand ==
    \A r \in Recipients : consumer[r].at \notin {"off", "idle"} =>
        place[r][consumer[r].remark] = "processing"

\* What a consumer shows it has not accepted yet.
ShownOnce ==
    \A r \in Recipients :
        /\ consumer[r].at \in {"showing", "shown", "refused"} =>
               <<r, consumer[r].remark>> \notin accepted
        /\ consumer[r].at = "noted" => <<r, consumer[r].remark>> \in accepted

FanoutInv == NextInLine /\ ClaimsInHand /\ ShownOnce

----------------------------------------------------------------------------
(* What keeps FanoutInv.                                                   *)

\* The owner finds the next entry; nothing else makes an entry pending while
\* one is being published.
LEMMA OwnerKeepsLine ==
    ASSUME IInv, FanoutInv, OwnerNext \/ Make
    PROVE  NextInLine'
<1>1. ASSUME NextEntry PROVE NextInLine'
  <2>1. CASE Pending # {}
    <3>1. owner' = [owner EXCEPT !.at = "publish", !.entry = Least(Pending),
                                 !.sent = delivered[Least(Pending)]]
      BY <1>1, <2>1 DEF NextEntry
    <3>2. owner'.entry = Least(Pending)
      BY <3>1, OwnerFields DEF Owner
    <3>3. Pending \in SUBSET Nat
      BY DeliveryAssumption DEF Pending, Remarks
    <3>4. \A k \in Pending : Least(Pending) <= k
      BY <2>1, <3>3, LeastNatural DEF Least
    <3> QED BY <1>1, <3>2, <3>4 DEF NextInLine, Pending, NextEntry, Unwritten
  <2>2. CASE Pending = {}
    <3>1. owner'.at # "publish"
      BY <1>1, <2>2, OwnerFields DEF NextEntry, Owner
    <3> QED BY <3>1 DEF NextInLine
  <2> QED BY <2>1, <2>2
<1>2. ASSUME NEW r \in Recipients, Publish(r) PROVE NextInLine'
  <2>1. owner'.at = owner.at /\ owner'.entry = owner.entry
    BY <1>2, OwnerFields DEF Publish, Owner
  <2> QED BY <1>2, <2>1 DEF Publish, NextInLine, FanoutInv
<1>3. ASSUME StartOwner \/ BeginTurn \/ TakeUpCommit \/ ReleaseCommit \/ WriteEntry
             \/ MoveEntry \/ StaySilent \/ Charge \/ Log \/ Enqueue \/ Mark \/ EndOwnTurn
      PROVE  NextInLine'
  <2>1. owner'.at # "publish"
    BY <1>3, OwnerFields DEF StartOwner, BeginTurn, TakeUpCommit, ReleaseCommit, ToScan,
       WriteEntry, MoveEntry, StaySilent, Charge, Log, Enqueue, Mark, EndOwnTurn, Owner, OwnerOff
  <2> QED BY <2>1 DEF NextInLine
<1>4. ASSUME BeginRetry \/ Complete \/ Make PROVE NextInLine'
  <2>1. owner'.at # "publish"
    BY <1>4, OwnerFields DEF BeginRetry, Complete, Onward, Make, Owner
  <2> QED BY <2>1 DEF NextInLine
<1> QED BY <1>1, <1>2, <1>3, <1>4 DEF OwnerNext

\* Publishing puts an envelope where none was.
LEMMA OwnerKeepsClaims ==
    ASSUME IInv, FanoutInv, OwnerNext \/ Make
    PROVE  ClaimsInHand' /\ ShownOnce'
<1>1. UNCHANGED <<consumer, accepted>>
  BY DEF OwnerNext, Make, StartOwner, BeginTurn, TakeUpCommit, ReleaseCommit, NextEntry, Publish,
     WriteEntry, MoveEntry, BeginRetry, StaySilent, Charge, Log, Enqueue, Mark, Complete,
     EndOwnTurn, OwnerFrame
<1>2. ShownOnce'
  BY <1>1 DEF ShownOnce, FanoutInv
<1>3. \A r \in Recipients, m \in Remarks :
          place[r][m] = "processing" => place'[r][m] = "processing"
  <2>1. ASSUME NEW q \in Recipients, Publish(q),
               NEW r \in Recipients, NEW m \in Remarks, place[r][m] = "processing"
        PROVE  place'[r][m] = "processing"
    <3>1. owner.entry \in Remarks
      BY <2>1 DEF IInv, OwnerKnows, Publish
    <3> QED BY <2>1, <3>1, OwnerFields DEF Publish
  <2>2. ASSUME ~(\E q \in Recipients : Publish(q)) PROVE place' = place
    BY <2>2 DEF OwnerNext, Make, StartOwner, BeginTurn, TakeUpCommit, ReleaseCommit, NextEntry,
       WriteEntry, MoveEntry, BeginRetry, StaySilent, Charge, Log, Enqueue, Mark, Complete,
       EndOwnTurn, Unwritten
  <2> QED BY <2>1, <2>2
<1>4. ClaimsInHand'
  BY <1>1, <1>3 DEF ClaimsInHand, FanoutInv, IInv, ConsumersKnow
<1> QED BY <1>2, <1>4

\* A step of one consumer, which touches its own mailbox and its own pairs.
LEMMA ConsumerKeeps ==
    ASSUME IInv, FanoutInv, NEW r \in Recipients, NEW x, NEW f,
           UNCHANGED <<owner, outbox>>,
           consumer' = [consumer EXCEPT ![r] = x],
           place' = [place EXCEPT ![r] = f],
           \A q \in Recipients, m \in Remarks :
               q # r => (<<q, m>> \in accepted' <=> <<q, m>> \in accepted),
           x.at \notin {"off", "idle"} => f[x.remark] = "processing",
           x.at \in {"showing", "shown", "refused"} => <<r, x.remark>> \notin accepted',
           x.at = "noted" => <<r, x.remark>> \in accepted'
    PROVE  FanoutInv'
<1>1. NextInLine'
  BY DEF NextInLine, FanoutInv
<1>2. /\ consumer \in [Recipients -> Consumer]
      /\ place \in [Recipients -> [Remarks -> {"none", "inbox", "processing", "done"}]]
  BY DEF IInv, TypeOK
<1>3. consumer'[r] = x /\ place'[r] = f
  BY <1>2
<1>4. \A q \in Recipients : q # r => consumer'[q] = consumer[q] /\ place'[q] = place[q]
  BY <1>2
<1>5. ClaimsInHand'
  BY <1>3, <1>4 DEF ClaimsInHand, FanoutInv
<1>6. ASSUME NEW q \in Recipients
      PROVE  /\ consumer'[q].at \in {"showing", "shown", "refused"} =>
                    <<q, consumer'[q].remark>> \notin accepted'
             /\ consumer'[q].at = "noted" => <<q, consumer'[q].remark>> \in accepted'
  <2>1. CASE q = r
    BY <1>3, <2>1
  <2>2. CASE q # r
    <3>1. consumer'[q] = consumer[q]
      BY <1>4, <2>2
    <3>2. consumer[q].at \in {"showing", "shown", "refused", "noted"} =>
              consumer[q].remark \in Remarks
      BY DEF IInv, ConsumersKnow
    <3> QED BY <2>2, <3>1, <3>2 DEF FanoutInv, ShownOnce
  <2> QED BY <2>1, <2>2
<1> QED BY <1>1, <1>5, <1>6 DEF FanoutInv, ShownOnce

\* What Goes writes, as a record.
LEMMA GoesRecord ==
    ASSUME IInv, NEW r \in Recipients, NEW step, NEW m, Goes(r, step, m)
    PROVE  \E x : /\ consumer' = [consumer EXCEPT ![r] = x]
                  /\ x.at = step /\ x.remark = m
                  /\ consumer'[r].at = step /\ consumer'[r].remark = m
                  /\ \A q \in Recipients : q # r => consumer'[q] = consumer[q]
<1> DEFINE x == [consumer[r] EXCEPT !.at = step, !.remark = m]
<1>1. consumer \in [Recipients -> Consumer] /\ consumer[r] \in Consumer
  BY DEF IInv, TypeOK
<1>2. x.at = step /\ x.remark = m
  BY <1>1 DEF Consumer
<1>3. consumer' = [consumer EXCEPT ![r] = x]
  BY <1>1 DEF Goes, Consumer
<1> HIDE DEF x
<1>4. consumer'[r] = x /\ \A q \in Recipients : q # r => consumer'[q] = consumer[q]
  BY <1>1, <1>3
<1> QED BY <1>2, <1>3, <1>4

----------------------------------------------------------------------------
(* The steps of the abstract specification, in terms of the four sets.     *)

LEMMA FanoutStutters ==
    ASSUME UNCHANGED <<Sent, Arrived, Held, Settled, Showing>>
    PROVE  [Fanout!Next]_Fanout!fanout
BY DEF Sent, Arrived, Held, Showing, Fanout!fanout

LEMMA FanoutSends ==
    ASSUME NEW m \in Remarks, m \notin Sent, Sent' = Sent \cup {m},
           UNCHANGED <<Arrived, Held, Settled, Showing>>
    PROVE  [Fanout!Next]_Fanout!fanout
<1>1. Fanout!Send(m)
  BY DEF Sent, Arrived, Held, Showing, Fanout!Send
<1> QED BY <1>1 DEF Fanout!Next

LEMMA FanoutArrives ==
    ASSUME NEW r \in Recipients, NEW m \in Sent,
           \A k \in Sent : k < m => <<r, k>> \in Arrived,
           Arrived' = Arrived \cup {<<r, m>>},
           UNCHANGED <<Sent, Held, Settled, Showing>>
    PROVE  [Fanout!Next]_Fanout!fanout
<1>1. Fanout!Arrive(r, m) /\ m \in Remarks
  BY DEF Sent, Arrived, Held, Showing, Fanout!Arrive
<1> QED BY <1>1 DEF Fanout!Next

LEMMA FanoutTakes ==
    ASSUME NEW r \in Recipients, NEW m \in Remarks, <<r, m>> \in Arrived \ Settled,
           \A k \in Remarks : k < m /\ <<r, k>> \in Arrived => <<r, k>> \in Held \cup Settled,
           Held' = Held \cup {<<r, m>>},
           UNCHANGED <<Sent, Arrived, Settled, Showing>>
    PROVE  [Fanout!Next]_Fanout!fanout
<1>1. Fanout!Take(r, m)
  BY DEF Sent, Arrived, Held, Showing, Fanout!Take
<1> QED BY <1>1 DEF Fanout!Next

LEMMA FanoutShows ==
    ASSUME NEW r \in Recipients, NEW m \in Remarks, <<r, m>> \in Held \ Settled,
           Showing[r] = 0, Showing' = [Showing EXCEPT ![r] = m],
           UNCHANGED <<Sent, Arrived, Held, Settled>>
    PROVE  [Fanout!Next]_Fanout!fanout
<1>1. Fanout!Show(r, m)
  BY DEF Sent, Arrived, Held, Showing, Fanout!Show
<1> QED BY <1>1 DEF Fanout!Next

LEMMA FanoutSettles ==
    ASSUME NEW r \in Recipients, NEW m \in Remarks, <<r, m>> \in Held, Showing[r] \in {0, m},
           Settled' = Settled \cup {<<r, m>>}, Held' = Held \ {<<r, m>>},
           Showing' = [Showing EXCEPT ![r] = 0],
           UNCHANGED <<Sent, Arrived>>
    PROVE  [Fanout!Next]_Fanout!fanout
<1>1. Fanout!Settle(r, m)
  BY DEF Sent, Arrived, Held, Showing, Fanout!Settle
<1> QED BY <1>1 DEF Fanout!Next

LEMMA FanoutLooksAway ==
    ASSUME NEW S \in SUBSET Recipients,
           Showing' = [r \in Recipients |-> IF r \in S THEN 0 ELSE Showing[r]],
           UNCHANGED <<Sent, Arrived, Held, Settled>>
    PROVE  [Fanout!Next]_Fanout!fanout
<1>1. Fanout!LookAway(S)
  BY DEF Sent, Arrived, Held, Showing, Fanout!LookAway
<1> QED BY <1>1 DEF Fanout!Next

LEMMA FanoutPutsBack ==
    ASSUME NEW r \in Recipients, NEW S \in SUBSET Remarks,
           Held' = Held \ ({r} \X S), Showing' = [Showing EXCEPT ![r] = 0],
           UNCHANGED <<Sent, Arrived, Settled>>
    PROVE  [Fanout!Next]_Fanout!fanout
<1>1. Fanout!PutBack(r, S)
  BY DEF Sent, Arrived, Held, Showing, Fanout!PutBack
<1> QED BY <1>1 DEF Fanout!Next

----------------------------------------------------------------------------
(* Every step of the owner maps to one of them.                            *)

LEMMA SetsUnchanged ==
    ASSUME UNCHANGED <<outbox, place, consumer, accepted>>
    PROVE  UNCHANGED <<Sent, Arrived, Held, Settled, Showing>>
BY DEF Sent, Arrived, Held, Settled, Showing

\* An entry that is done is still one that was sent.
LEMMA OwnerMaps ==
    ASSUME IInv, FanoutInv, OwnerNext \/ Make
    PROVE  [Fanout!Next]_Fanout!fanout
<1>1. ASSUME StartOwner \/ BeginTurn \/ TakeUpCommit \/ ReleaseCommit \/ NextEntry
             \/ WriteEntry \/ BeginRetry \/ StaySilent \/ Charge \/ Log \/ Mark \/ Complete
             \/ EndOwnTurn \/ Make
      PROVE  [Fanout!Next]_Fanout!fanout
  <2>1. UNCHANGED <<outbox, place, consumer, accepted>>
    BY <1>1 DEF StartOwner, BeginTurn, TakeUpCommit, ReleaseCommit, NextEntry, WriteEntry,
       BeginRetry, StaySilent, Charge, Log, Mark, Complete, EndOwnTurn, Make, Unwritten, OwnerFrame
  <2> QED BY <2>1, SetsUnchanged, FanoutStutters
<1>2. ASSUME MoveEntry PROVE [Fanout!Next]_Fanout!fanout
  <2>1. owner.entry \in Remarks /\ outbox[owner.entry] # "none"
    BY <1>2 DEF MoveEntry, IInv, OwnerKnows, EntryInHand
  <2>2. \A m \in Remarks : outbox'[m] # "none" <=> outbox[m] # "none"
    BY <1>2, <2>1, OwnerFields DEF MoveEntry
  <2>3. Sent' = Sent
    BY <2>2 DEF Sent
  <2>4. UNCHANGED <<Arrived, Held, Settled, Showing>>
    BY <1>2 DEF MoveEntry, OwnerFrame, Arrived, Held, Settled, Showing
  <2> QED BY <2>3, <2>4, FanoutStutters
<1>3. ASSUME Enqueue PROVE [Fanout!Next]_Fanout!fanout
  <2> DEFINE m == owner.remark
  <2>1. m \in Remarks
    BY <1>3 DEF Enqueue, IInv, OwnerKnows
  <2>2. UNCHANGED <<Arrived, Held, Settled, Showing>>
    BY <1>3 DEF Enqueue, OwnerFrame, Arrived, Held, Settled, Showing
  <2>3. CASE outbox[m] = "none"
    <3>1. m \notin Sent
      BY <2>3 DEF Sent
    <3>2. Sent' = Sent \cup {m}
      BY <1>3, <2>1, <2>3, OwnerFields DEF Enqueue, Sent
    <3> QED BY <2>1, <2>2, <3>1, <3>2, FanoutSends
  <2>4. CASE outbox[m] # "none"
    <3>1. Sent' = Sent
      BY <1>3, <2>4 DEF Enqueue, Sent
    <3> QED BY <2>2, <3>1, FanoutStutters
  <2> QED BY <2>3, <2>4
<1>4. ASSUME NEW r \in Recipients, Publish(r) PROVE [Fanout!Next]_Fanout!fanout
  <2> DEFINE m == owner.entry
  <2>1. m \in Remarks /\ m \in Sent
    BY <1>4 DEF Publish, IInv, OwnerKnows, EntryInHand, Sent
  <2>2. UNCHANGED <<Sent, Showing>> /\ UNCHANGED <<accepted, consumer>>
    BY <1>4 DEF Publish, OwnerFrame, Sent, Showing
  <2>3. CASE place[r][m] # "none"
    <3>1. place' = place
      BY <1>4, <2>3 DEF Publish
    <3>2. UNCHANGED <<Arrived, Held, Settled>>
      BY <2>2, <3>1 DEF Arrived, Held, Settled
    <3> QED BY <2>2, <3>2, FanoutStutters
  <2>4. CASE place[r][m] = "none"
    <3>1. place' = [place EXCEPT ![r][m] = "inbox"]
      BY <1>4, <2>4 DEF Publish
    <3>2. /\ place'[r][m] = "inbox"
          /\ \A q \in Recipients, k \in Remarks :
                 <<q, k>> # <<r, m>> => place'[q][k] = place[q][k]
      BY <2>1, <3>1, OwnerFields
    <3>3. \A p \in Pairs : p # <<r, m>> => place'[p[1]][p[2]] = place[p[1]][p[2]]
      BY <3>2 DEF Pairs
    <3>4. <<r, m>> \in Pairs
      BY <2>1 DEF Pairs
    <3>5. Arrived' = Arrived \cup {<<r, m>>}
      BY <3>2, <3>3, <3>4 DEF Arrived
    <3>6. UNCHANGED Settled
      BY <2>2, <2>4, <3>2, <3>3 DEF Settled
    <3>7. UNCHANGED Held
      BY <2>4, <3>2, <3>3, <3>6 DEF Held
    <3>8. ASSUME NEW k \in Sent, k < m PROVE <<r, k>> \in Arrived
      <4>1. k \in Remarks /\ outbox[k] # "none" /\ k \in Nat /\ m \in Nat
        BY <2>1, DeliveryAssumption DEF Sent, Remarks
      <4>2. outbox[k] # "pending"
        BY <1>4, <3>8, <4>1 DEF FanoutInv, NextInLine, Publish
      <4>3. outbox[k] = "done"
        BY <4>1, <4>2, OwnerFields
      <4>4. place[r][k] # "none"
        BY <4>1, <4>3 DEF IInv, OutboxTellsTheTruth
      <4> QED BY <4>1, <4>4 DEF Arrived, Pairs
    <3> QED BY <2>1, <2>2, <3>5, <3>6, <3>7, <3>8, FanoutArrives
  <2> QED BY <2>3, <2>4
<1> QED BY <1>1, <1>2, <1>3, <1>4 DEF OwnerNext

----------------------------------------------------------------------------
(* Every step of a consumer maps to one of them.                           *)

\* What the consumer holds, and where its envelope is.
LEMMA ConsumerFields ==
    ASSUME IInv, FanoutInv, NEW r \in Recipients, consumer[r].at \notin {"off", "idle"}
    PROVE  /\ consumer[r].remark \in Remarks
           /\ <<r, consumer[r].remark>> \in Pairs
           /\ place[r][consumer[r].remark] = "processing"
BY DEF IInv, ConsumersKnow, FanoutInv, ClaimsInHand, Pairs

\* What a recipient shows depends on its consumer alone.
LEMMA ShowingOf ==
    ASSUME NEW r \in Recipients, \A q \in Recipients : q # r => consumer'[q] = consumer[q]
    PROVE  Showing' = [Showing EXCEPT ![r] =
               IF consumer'[r].at \in {"showing", "shown", "refused"}
               THEN consumer'[r].remark ELSE 0]
BY DEF Showing

\* One envelope is moved inside its mailbox.
LEMMA PlaceOf ==
    ASSUME IInv, NEW r \in Recipients, NEW m \in Remarks, NEW p,
           place' = [place EXCEPT ![r][m] = p]
    PROVE  /\ place'[r][m] = p
           /\ \A z \in Pairs : z # <<r, m>> => place'[z[1]][z[2]] = place[z[1]][z[2]]
           /\ place' = [place EXCEPT ![r] = [place[r] EXCEPT ![m] = p]]
<1>1. /\ place'[r][m] = p
      /\ \A q \in Recipients, k \in Remarks :
             <<q, k>> # <<r, m>> => place'[q][k] = place[q][k]
  BY OwnerFields
<1>2. \A z \in Pairs : z # <<r, m>> => place'[z[1]][z[2]] = place[z[1]][z[2]]
  BY <1>1 DEF Pairs
<1> QED BY <1>1, <1>2

LEMMA StartConsumerMaps ==
    ASSUME IInv, FanoutInv, NEW r \in Recipients, StartConsumer(r)
    PROVE  FanoutInv' /\ [Fanout!Next]_Fanout!fanout
<1> DEFINE f == [m \in Remarks |-> IF place[r][m] = "processing" THEN "inbox" ELSE place[r][m]]
<1>1. place' = [place EXCEPT ![r] = f]
  BY DEF StartConsumer
<1>2. PICK x : /\ consumer' = [consumer EXCEPT ![r] = x] /\ x.at = "idle"
               /\ consumer'[r].at = "idle"
               /\ \A q \in Recipients : q # r => consumer'[q] = consumer[q]
  BY GoesRecord DEF StartConsumer
<1>3. UNCHANGED <<owner, outbox, accepted>>
  BY DEF StartConsumer, ConsumerFrame
<1>4. FanoutInv'
  BY <1>1, <1>2, <1>3, ConsumerKeeps
<1>5. /\ \A m \in Remarks : place'[r][m] = f[m]
      /\ \A q \in Recipients, m \in Remarks : q # r => place'[q][m] = place[q][m]
  BY <1>1, OwnerFields
<1>6. \A p \in Pairs : p[1] \in Recipients /\ p[2] \in Remarks /\ p = <<p[1], p[2]>>
  BY DEF Pairs
<1>7. UNCHANGED <<Sent, Arrived>>
  BY <1>3, <1>5, <1>6 DEF Sent, Arrived
<1>8. UNCHANGED Settled
  BY <1>3, <1>5, <1>6 DEF Settled
<1>9. Held' = Held \ ({r} \X Remarks)
  <2>1. \A p \in Pairs : place'[p[1]][p[2]] = "processing" <=>
            place[p[1]][p[2]] = "processing" /\ p[1] # r
    BY <1>5, <1>6
  <2>2. \A p \in Pairs : p \in {r} \X Remarks <=> p[1] = r
    BY <1>6
  <2> QED BY <1>8, <2>1, <2>2 DEF Held
<1>10. Showing' = [Showing EXCEPT ![r] = 0]
  BY <1>2, ShowingOf
<1> QED BY <1>4, <1>7, <1>8, <1>9, <1>10, FanoutPutsBack

\* The oldest envelope of the inbox is taken: those before it are in
\* processing or done.
LEMMA ClaimMaps ==
    ASSUME IInv, FanoutInv, NEW r \in Recipients, Claim(r)
    PROVE  FanoutInv' /\ [Fanout!Next]_Fanout!fanout
<1> DEFINE m == Least(Inbox(r))
<1>1. m \in Remarks /\ place[r][m] = "inbox"
  BY LeastIn DEF Claim, Inbox
<1>2. \A k \in Inbox(r) : m <= k
  <2>1. Inbox(r) \in SUBSET Nat /\ Inbox(r) # {}
    BY DeliveryAssumption DEF Claim, Inbox, Remarks
  <2> QED BY <2>1, LeastNatural DEF Least
<1>3. place' = [place EXCEPT ![r][m] = "processing"] /\ Goes(r, "claimed", m)
  BY DEF Claim
<1>4. UNCHANGED <<owner, outbox, accepted>>
  BY DEF Claim, ConsumerFrame
<1> HIDE DEF m
<1>5. /\ place'[r][m] = "processing"
      /\ \A z \in Pairs : z # <<r, m>> => place'[z[1]][z[2]] = place[z[1]][z[2]]
      /\ place' = [place EXCEPT ![r] = [place[r] EXCEPT ![m] = "processing"]]
  BY <1>1, <1>3, PlaceOf
<1>6. PICK x : /\ consumer' = [consumer EXCEPT ![r] = x] /\ x.at = "claimed" /\ x.remark = m
               /\ consumer'[r].at = "claimed"
               /\ \A q \in Recipients : q # r => consumer'[q] = consumer[q]
  BY <1>3, GoesRecord
<1>7. FanoutInv'
  <2>1. [place[r] EXCEPT ![m] = "processing"][m] = "processing"
    BY <1>1, OwnerFields
  <2> QED BY <1>4, <1>5, <1>6, <2>1, ConsumerKeeps
<1>8. <<r, m>> \in Pairs
  BY <1>1 DEF Pairs
<1>9. UNCHANGED <<Sent, Settled>> /\ UNCHANGED Arrived
  BY <1>1, <1>4, <1>5, <1>8 DEF Sent, Settled, Arrived
<1>10. Showing' = Showing
  <2>1. consumer[r].at = "idle"
    BY DEF Claim, Holding
  <2> QED BY <1>6, <2>1 DEF Showing
<1>11. CASE <<r, m>> \in Settled
  <2>1. Held' = Held
    BY <1>5, <1>8, <1>9, <1>11 DEF Held
  <2> QED BY <1>7, <1>9, <1>10, <2>1, FanoutStutters
<1>12. CASE <<r, m>> \notin Settled
  <2>1. Held' = Held \cup {<<r, m>>}
    BY <1>5, <1>8, <1>9, <1>12 DEF Held
  <2>2. <<r, m>> \in Arrived \ Settled
    BY <1>1, <1>8, <1>12 DEF Arrived
  <2>3. ASSUME NEW k \in Remarks, k < m, <<r, k>> \in Arrived PROVE <<r, k>> \in Held \cup Settled
    <3>1. <<r, k>> \in Pairs /\ place[r][k] # "none"
      BY <2>3 DEF Arrived, Pairs
    <3>2. place[r][k] # "inbox"
      <4>1. k \in Nat /\ m \in Nat
        BY <1>1, DeliveryAssumption DEF Remarks
      <4> QED BY <1>2, <2>3, <4>1 DEF Inbox
    <3>3. place[r][k] \in {"processing", "done"}
      BY <3>1, <3>2, OwnerFields
    <3> QED BY <3>1, <3>3 DEF Held, Settled
  <2> QED BY <1>1, <1>7, <1>9, <1>10, <2>1, <2>2, <2>3, FanoutTakes
<1> QED BY <1>11, <1>12

\* A claimed envelope leaves processing: it is settled, unless it was before.
LEMMA CompletesMaps ==
    ASSUME IInv, FanoutInv, NEW r \in Recipients,
           consumer[r].at \in {"claimed", "shown", "noted", "refused"},
           Acknowledge(r, "done"), Goes(r, "idle", 0), UNCHANGED accepted, ConsumerFrame
    PROVE  FanoutInv' /\ [Fanout!Next]_Fanout!fanout
<1> DEFINE m == consumer[r].remark
<1>1. m \in Remarks /\ <<r, m>> \in Pairs /\ place[r][m] = "processing"
  BY ConsumerFields
<1>2. /\ place'[r][m] = "done"
      /\ \A z \in Pairs : z # <<r, m>> => place'[z[1]][z[2]] = place[z[1]][z[2]]
      /\ place' = [place EXCEPT ![r] = [place[r] EXCEPT ![m] = "done"]]
  BY <1>1, PlaceOf DEF Acknowledge
<1>3. PICK x : /\ consumer' = [consumer EXCEPT ![r] = x] /\ x.at = "idle"
               /\ consumer'[r].at = "idle"
               /\ \A q \in Recipients : q # r => consumer'[q] = consumer[q]
  BY GoesRecord
<1>4. UNCHANGED <<owner, outbox>>
  BY DEF ConsumerFrame
<1>5. FanoutInv'
  BY <1>2, <1>3, <1>4, ConsumerKeeps
<1>6. UNCHANGED <<Sent, Arrived>>
  BY <1>1, <1>2, <1>4 DEF Sent, Arrived
<1>7. Settled' = Settled \cup {<<r, m>>}
  BY <1>1, <1>2 DEF Settled
<1>8. Held' = Held \ {<<r, m>>}
  BY <1>1, <1>2, <1>7 DEF Held
<1>9. Showing' = [Showing EXCEPT ![r] = 0]
  BY <1>3, ShowingOf
<1>10. CASE <<r, m>> \in Settled
  <2>1. Settled' = Settled /\ Held' = Held
    BY <1>7, <1>8, <1>10 DEF Held
  <2>2. Held' = Held \ ({r} \X {})
    BY <2>1
  <2> QED BY <1>5, <1>6, <1>9, <2>1, <2>2, FanoutPutsBack
<1>11. CASE <<r, m>> \notin Settled
  <2>1. <<r, m>> \in Held
    BY <1>1, <1>11 DEF Held
  <2>2. Showing[r] \in {0, m}
    BY DEF Showing
  <2> QED BY <1>1, <1>5, <1>6, <1>7, <1>8, <1>9, <2>1, <2>2, FanoutSettles
<1> QED BY <1>10, <1>11

LEMMA RetryMaps ==
    ASSUME IInv, FanoutInv, NEW r \in Recipients, Retry(r)
    PROVE  FanoutInv' /\ [Fanout!Next]_Fanout!fanout
<1> DEFINE m == consumer[r].remark
<1>1. m \in Remarks /\ <<r, m>> \in Pairs /\ place[r][m] = "processing"
  BY ConsumerFields DEF Retry, Holding
<1>2. /\ place'[r][m] = "inbox"
      /\ \A z \in Pairs : z # <<r, m>> => place'[z[1]][z[2]] = place[z[1]][z[2]]
      /\ place' = [place EXCEPT ![r] = [place[r] EXCEPT ![m] = "inbox"]]
  BY <1>1, PlaceOf DEF Retry, Acknowledge
<1>3. PICK x : /\ consumer' = [consumer EXCEPT ![r] = x] /\ x.at = "idle"
               /\ consumer'[r].at = "idle"
               /\ \A q \in Recipients : q # r => consumer'[q] = consumer[q]
  BY GoesRecord DEF Retry
<1>4. UNCHANGED <<owner, outbox, accepted>>
  BY DEF Retry, ConsumerFrame
<1>5. FanoutInv'
  BY <1>2, <1>3, <1>4, ConsumerKeeps
<1>6. UNCHANGED <<Sent, Arrived>> /\ UNCHANGED Settled
  BY <1>1, <1>2, <1>4 DEF Sent, Arrived, Settled
<1>7. Held' = Held \ ({r} \X {m})
  BY <1>1, <1>2, <1>6 DEF Held
<1>8. Showing' = [Showing EXCEPT ![r] = 0]
  BY <1>3, ShowingOf
<1> QED BY <1>1, <1>5, <1>6, <1>7, <1>8, FanoutPutsBack

\* The one place where the list of ids matters: what was accepted and comes
\* back is recognised by its id.
LEMMA DisplayMaps ==
    ASSUME IInv, FanoutInv, Remembered, NEW r \in Recipients, Display(r)
    PROVE  FanoutInv' /\ [Fanout!Next]_Fanout!fanout
<1> DEFINE m == consumer[r].remark
<1>1. m \in Remarks /\ <<r, m>> \in Pairs /\ place[r][m] = "processing"
  BY ConsumerFields DEF Display, Holding
<1>2. ~Noted(r, m)
  BY DEF Display, ToThrowAway
<1>3. <<r, m>> \notin accepted
  BY <1>1, <1>2 DEF Remembered
<1>4. PICK x : /\ consumer' = [consumer EXCEPT ![r] = x] /\ x.at = "showing" /\ x.remark = m
               /\ consumer'[r].at = "showing" /\ consumer'[r].remark = m
               /\ \A q \in Recipients : q # r => consumer'[q] = consumer[q]
  BY GoesRecord DEF Display
<1>5. UNCHANGED <<owner, outbox, place, accepted>>
  BY DEF Display, ConsumerFrame
<1>6. FanoutInv'
  <2>1. place' = [place EXCEPT ![r] = place[r]]
    BY <1>5, OwnerFields
  <2>2. place[r][x.remark] = "processing" /\ <<r, x.remark>> \notin accepted'
    BY <1>1, <1>3, <1>4, <1>5
  <2>3. /\ UNCHANGED <<owner, outbox, accepted>> /\ x.at = "showing"
        /\ consumer' = [consumer EXCEPT ![r] = x]
    BY <1>4, <1>5
  <2> HIDE DEF m
  <2> QED BY <2>1, <2>2, <2>3, ConsumerKeeps
<1>7. UNCHANGED <<Sent, Arrived, Held, Settled>>
  BY <1>5 DEF Sent, Arrived, Held, Settled
<1>8. Showing' = [Showing EXCEPT ![r] = m]
  BY <1>4, ShowingOf
<1>9. Showing[r] = 0
  BY DEF Display, Holding, Showing
<1>10. <<r, m>> \in Held \ Settled
  BY <1>1, <1>3 DEF Held, Settled
<1> QED BY <1>1, <1>6, <1>7, <1>8, <1>9, <1>10, FanoutShows

LEMMA PresentedMaps ==
    ASSUME IInv, FanoutInv, NEW r \in Recipients, Holding(r, {"showing"}),
           NEW step \in {"shown", "refused"}, Goes(r, step, consumer[r].remark),
           UNCHANGED <<owner, outbox, place, accepted>>
    PROVE  FanoutInv' /\ [Fanout!Next]_Fanout!fanout
<1> DEFINE m == consumer[r].remark
<1>1. m \in Remarks /\ <<r, m>> \in Pairs /\ place[r][m] = "processing"
  BY ConsumerFields DEF Holding
<1>2. <<r, m>> \notin accepted
  BY DEF FanoutInv, ShownOnce, Holding
<1>3. PICK x : /\ consumer' = [consumer EXCEPT ![r] = x] /\ x.at = step /\ x.remark = m
               /\ consumer'[r].at = step /\ consumer'[r].remark = m
               /\ \A q \in Recipients : q # r => consumer'[q] = consumer[q]
  BY GoesRecord
<1>4. Showing' = Showing
  BY <1>3 DEF Showing, Holding
<1>5. FanoutInv'
  <2>1. place' = [place EXCEPT ![r] = place[r]]
    BY OwnerFields
  <2> HIDE DEF m
  <2> QED BY <1>1, <1>2, <1>3, <2>1, ConsumerKeeps
<1>6. UNCHANGED <<Sent, Arrived, Held, Settled>>
  BY DEF Sent, Arrived, Held, Settled
<1> QED BY <1>4, <1>5, <1>6, FanoutStutters

LEMMA AcceptMaps ==
    ASSUME IInv, FanoutInv, NEW r \in Recipients, Accept(r)
    PROVE  FanoutInv' /\ [Fanout!Next]_Fanout!fanout
<1> DEFINE m == consumer[r].remark
<1>1. m \in Remarks /\ <<r, m>> \in Pairs /\ place[r][m] = "processing"
  BY ConsumerFields DEF Accept, Holding
<1>2. <<r, m>> \notin accepted
  BY DEF FanoutInv, ShownOnce, Accept, Holding
<1>3. PICK x : /\ consumer' = [consumer EXCEPT ![r] = x] /\ x.at = "noted" /\ x.remark = m
               /\ consumer'[r].at = "noted"
               /\ \A q \in Recipients : q # r => consumer'[q] = consumer[q]
  BY GoesRecord DEF Accept
<1>4. UNCHANGED <<owner, outbox, place>> /\ accepted' = accepted \cup {<<r, m>>}
  BY DEF Accept, ConsumerFrame
<1>5. FanoutInv'
  <2>1. place' = [place EXCEPT ![r] = place[r]]
    BY <1>4, OwnerFields
  <2> HIDE DEF m
  <2> QED BY <1>1, <1>3, <1>4, <2>1, ConsumerKeeps
<1>6. UNCHANGED <<Sent, Arrived>>
  BY <1>4 DEF Sent, Arrived
<1>7. Settled' = Settled \cup {<<r, m>>}
  BY <1>4 DEF Settled
<1>8. Held' = Held \ {<<r, m>>}
  BY <1>4, <1>7 DEF Held
<1>9. Showing' = [Showing EXCEPT ![r] = 0]
  BY <1>3, ShowingOf
<1>10. <<r, m>> \in Held
  BY <1>1, <1>2 DEF Held, Settled
<1>11. Showing[r] = m
  BY DEF Showing, Accept, Holding
<1> QED BY <1>1, <1>5, <1>6, <1>7, <1>8, <1>9, <1>10, <1>11, FanoutSettles

LEMMA ConsumerMaps ==
    ASSUME IInv, FanoutInv, Remembered, NEW r \in Recipients, ConsumerNext(r)
    PROVE  FanoutInv' /\ [Fanout!Next]_Fanout!fanout
<1>1. ASSUME Discard(r) \/ Skip(r) \/ Finish(r) PROVE FanoutInv' /\ [Fanout!Next]_Fanout!fanout
  BY <1>1, CompletesMaps DEF Discard, Skip, Finish, Holding
<1>2. ASSUME Presented(r) PROVE FanoutInv' /\ [Fanout!Next]_Fanout!fanout
  BY <1>2, PresentedMaps DEF Presented, ConsumerFrame
<1> QED BY <1>1, <1>2, StartConsumerMaps, ClaimMaps, DisplayMaps, AcceptMaps, RetryMaps
        DEF ConsumerNext

----------------------------------------------------------------------------
(* Faults: a receiver looks away from what it shows.                       *)

LEMMA StoppedMaps ==
    ASSUME IInv, FanoutInv, NEW S \in SUBSET Recipients, UNCHANGED <<outbox, place, accepted>>,
           \A r \in S : consumer'[r].at \in {"off", "idle"},
           \A r \in Recipients \ S : consumer'[r] = consumer[r],
           owner'.at # "publish" \/ UNCHANGED owner
    PROVE  FanoutInv' /\ [Fanout!Next]_Fanout!fanout
<1>1. FanoutInv'
  BY DEF FanoutInv, NextInLine, ClaimsInHand, ShownOnce
<1>2. UNCHANGED <<Sent, Arrived, Held, Settled>>
  BY DEF Sent, Arrived, Held, Settled
<1>3. Showing' = [r \in Recipients |-> IF r \in S THEN 0 ELSE Showing[r]]
  BY DEF Showing
<1> QED BY <1>1, <1>2, <1>3, FanoutLooksAway

\* Nothing a receiver could see has changed.
LEMMA UnseenMaps ==
    ASSUME IInv, FanoutInv, UNCHANGED <<outbox, place, accepted, consumer>>,
           owner'.at # "publish" \/ UNCHANGED owner
    PROVE  FanoutInv' /\ [Fanout!Next]_Fanout!fanout
<1>1. FanoutInv'
  BY DEF FanoutInv, NextInLine, ClaimsInHand, ShownOnce
<1> QED BY <1>1, SetsUnchanged, FanoutStutters

LEMMA FaultMaps ==
    ASSUME IInv, FanoutInv, FaultNext
    PROVE  FanoutInv' /\ [Fanout!Next]_Fanout!fanout
<1>1. ASSUME DeliveryFails \/ WriteFails PROVE FanoutInv' /\ [Fanout!Next]_Fanout!fanout
  <2>1. owner'.at # "publish" /\ UNCHANGED <<outbox, place, accepted, consumer>>
    BY <1>1, OwnerFields DEF DeliveryFails, WriteFails, Owner, OwnerOff, files
  <2> QED BY <2>1, UnseenMaps
<1>2. ASSUME Crash PROVE FanoutInv' /\ [Fanout!Next]_Fanout!fanout
  <2>1. owner'.at # "publish" /\ UNCHANGED <<outbox, place, accepted>>
    BY <1>2 DEF Crash, OwnerOff, files
  <2>2. \A r \in Recipients : consumer'[r].at = "off"
    BY <1>2 DEF Crash, ConsumerOff
  <2> QED BY <2>1, <2>2, StoppedMaps
<1>3. ASSUME NEW r \in Recipients, ConsumerFails(r)
      PROVE  FanoutInv' /\ [Fanout!Next]_Fanout!fanout
  <2>1. UNCHANGED <<outbox, place, accepted, owner>>
    BY <1>3 DEF ConsumerFails, files
  <2>2. /\ consumer'[r].at = "idle"
        /\ \A q \in Recipients \ {r} : consumer'[q] = consumer[q]
    BY <1>3, OwnerFields DEF ConsumerFails
  <2>3. {r} \in SUBSET Recipients /\ \A q \in {r} : consumer'[q].at \in {"off", "idle"}
    BY <2>2
  <2> QED BY <2>1, <2>2, <2>3, StoppedMaps
<1>4. ASSUME NEW r \in Recipients, Refused(r)
      PROVE  FanoutInv' /\ [Fanout!Next]_Fanout!fanout
  BY <1>4, PresentedMaps DEF Refused, files
<1> QED BY <1>1, <1>2, <1>3, <1>4 DEF FaultNext

----------------------------------------------------------------------------

THEOREM FanoutInit == Init => FanoutInv /\ Fanout!Init
<1> SUFFICES ASSUME Init PROVE FanoutInv /\ Fanout!Init
  OBVIOUS
<1>1. FanoutInv
  BY DEF Init, FanoutInv, NextInLine, ClaimsInHand, ShownOnce, OwnerOff, ConsumerOff
<1>2. Sent = {} /\ Arrived = {} /\ Held = {} /\ Settled = {}
  BY DEF Init, Sent, Arrived, Held, Settled, Pairs
<1>3. Showing = [r \in Recipients |-> 0]
  BY DEF Init, Showing, ConsumerOff
<1> QED BY <1>1, <1>2, <1>3 DEF Fanout!Init, Sent, Arrived, Held, Showing

THEOREM FanoutStep ==
    IInv /\ FanoutInv /\ Remembered /\ [Next]_vars => FanoutInv' /\ [Fanout!Next]_Fanout!fanout
<1> SUFFICES ASSUME IInv, FanoutInv, Remembered, [Next]_vars
             PROVE  FanoutInv' /\ [Fanout!Next]_Fanout!fanout
  OBVIOUS
<1>1. CASE OwnerNext \/ Make
  BY <1>1, OwnerKeepsLine, OwnerKeepsClaims, OwnerMaps DEF FanoutInv
<1>2. CASE \E r \in Recipients : ConsumerNext(r)
  BY <1>2, ConsumerMaps
<1>3. CASE FaultNext
  BY <1>3, FaultMaps
<1>4. CASE \E g \in Generations : SwitchConversation(g)
  <2>1. owner'.at # "publish" /\ UNCHANGED <<outbox, place, accepted, consumer>>
    BY <1>4 DEF SwitchConversation, OwnerOff
  <2> QED BY <2>1, UnseenMaps
<1>5. CASE UNCHANGED vars
  <2>1. UNCHANGED <<outbox, place, accepted, consumer, owner>>
    BY <1>5 DEF vars
  <2> QED BY <2>1, UnseenMaps
<1> QED BY <1>1, <1>2, <1>3, <1>4, <1>5 DEF Next

\* The pipeline is an ordered fan-out for any recipients, remarks and faults:
\* no remark overtakes an earlier one to a recipient, and none that a
\* recipient accepted is shown to it again, in every behaviour in which the
\* list of processed ids keeps those whose envelope is not completed.
THEOREM InOrderWhileRemembered == Spec /\ []Remembered => DeliversInOrder
<1>1. Spec => []IInv
  BY Invariance
<1> QED BY <1>1, FanoutInit, FanoutStep, PTL DEF Spec, DeliversInOrder, Fanout!Spec

----------------------------------------------------------------------------
(* When the list keeps enough: as long as no more was accepted than it     *)
(* holds. Longer behaviours depend on which envelopes are waiting.         *)

FewAccepted == Cardinality(accepted) <= ProcessedLimit

ListComplete ==
    /\ IsFiniteSet(accepted)
    /\ Len(processed) <= Cardinality(accepted)
    /\ FewAccepted => \A p \in accepted : Noted(p[1], p[2])

\* A full list drops its oldest ids; one that is not full keeps them all.
LEMMA AcceptKeepsList ==
    ASSUME IInv, ListComplete, NEW r \in Recipients, Accept(r)
    PROVE  ListComplete'
<1> DEFINE m == consumer[r].remark
           p == <<r, m>>
           longer == Append(processed, p)
<1>1. p \in Pairs
  BY DEF Accept, Holding, IInv, ConsumersKnow, Pairs
<1>2. accepted' = accepted \cup {p}
  BY DEF Accept
<1>3. processed \in Seq(Pairs) /\ Len(processed) <= ProcessedLimit /\ Len(processed) \in Nat
  BY DEF IInv, TypeOK
<1>4. /\ IsFiniteSet(accepted') /\ Cardinality(accepted) \in Nat
      /\ Cardinality(accepted') =
             IF p \in accepted THEN Cardinality(accepted) ELSE Cardinality(accepted) + 1
  BY <1>2, FS_AddElement, FS_CardinalityType DEF ListComplete
<1>5. CASE Noted(r, m)
  <2>1. processed' = processed
    BY <1>5 DEF Accept
  <2>2. Len(processed') <= Cardinality(accepted')
    BY <1>3, <1>4, <2>1 DEF ListComplete
  <2>3. ASSUME FewAccepted', NEW z \in accepted' PROVE Noted(z[1], z[2])'
    <3>1. FewAccepted
      BY <1>4, <2>3, DeliveryAssumption DEF FewAccepted
    <3>2. Noted(z[1], z[2])
      BY <1>2, <1>5, <2>3, <3>1 DEF ListComplete
    <3> QED BY <2>1, <3>2 DEF Noted
  <2> QED BY <1>4, <2>2, <2>3 DEF ListComplete
<1>6. CASE ~Noted(r, m)
  <2>1. processed' = LastOf(longer, ProcessedLimit)
    BY <1>6 DEF Accept
  <2>2. /\ longer \in Seq(Pairs) /\ Len(longer) = Len(processed) + 1
        /\ \A i \in 1 .. Len(processed) : longer[i] = processed[i]
        /\ longer[Len(processed) + 1] = p
    BY <1>1, <1>3, AppendProperties
  <2>3. Len(processed') \in Nat /\ Len(processed') <= ProcessedLimit
    <3> HIDE DEF longer
    <3>1. processed' \in Seq(Pairs) /\ Len(processed') <= ProcessedLimit
      BY <2>1, <2>2, LastOfTyped, DeliveryAssumption
    <3> QED BY <3>1
  <2>4. CASE FewAccepted'
    <3>1. FewAccepted
      BY <1>4, <2>4, DeliveryAssumption DEF FewAccepted
    <3>2. p \notin accepted
      BY <1>6, <3>1 DEF ListComplete
    <3>3. Len(longer) <= Cardinality(accepted') /\ Len(longer) <= ProcessedLimit
      BY <1>3, <1>4, <2>2, <2>4, <3>2, DeliveryAssumption DEF FewAccepted, ListComplete
    <3>4. processed' = longer
      BY <2>1, <2>2, <1>3, <3>3, DeliveryAssumption DEF LastOf
    <3>5. ASSUME NEW z \in accepted' PROVE Noted(z[1], z[2])'
      <4>1. DOMAIN processed' = 1 .. Len(processed) + 1 /\ DOMAIN processed = 1 .. Len(processed)
        BY <1>3, <2>2, <3>4
      <4>2. CASE z = p
        <5>1. processed'[Len(processed) + 1] = <<z[1], z[2]>>
          BY <2>2, <3>4, <4>2
        <5>2. Len(processed) + 1 \in DOMAIN processed'
          BY <1>3, <4>1
        <5> QED BY <5>1, <5>2 DEF Noted
      <4>3. CASE z \in accepted
        <5>1. PICK n \in DOMAIN processed : processed[n] = <<z[1], z[2]>>
          BY <3>1, <4>3 DEF ListComplete, Noted
        <5>2. n \in DOMAIN processed' /\ processed'[n] = <<z[1], z[2]>>
          BY <1>3, <2>2, <3>4, <4>1, <5>1
        <5> QED BY <5>2 DEF Noted
      <4> QED BY <1>2, <4>2, <4>3
    <3> QED BY <1>4, <3>3, <3>4, <3>5 DEF ListComplete
  <2>5. CASE ~FewAccepted'
    <3>1. Len(processed') <= Cardinality(accepted')
      BY <1>4, <2>3, <2>5, DeliveryAssumption DEF FewAccepted
    <3> QED BY <1>4, <2>5, <3>1 DEF ListComplete
  <2> QED BY <2>4, <2>5
<1> QED BY <1>5, <1>6

\* Nothing else writes the list or accepts.
LEMMA StepKeepsList == IInv /\ ListComplete /\ [Next]_vars => ListComplete'
<1> SUFFICES ASSUME IInv, ListComplete, [Next]_vars PROVE ListComplete'
  OBVIOUS
<1>1. ASSUME UNCHANGED <<processed, accepted>> PROVE ListComplete'
  BY <1>1 DEF ListComplete, FewAccepted, Noted
<1>2. CASE OwnerNext \/ Make
  BY <1>1, <1>2 DEF OwnerNext, Make, StartOwner, BeginTurn, TakeUpCommit, ReleaseCommit,
     NextEntry, Publish, WriteEntry, MoveEntry, BeginRetry, StaySilent, Charge, Log, Enqueue,
     Mark, Complete, EndOwnTurn, OwnerFrame
<1>3. CASE \E r \in Recipients : ConsumerNext(r)
  BY <1>1, <1>3, AcceptKeepsList DEF ConsumerNext, StartConsumer, Claim, Discard, Display,
     Presented, Skip, Finish, Retry
<1>4. CASE FaultNext
  BY <1>1, <1>4 DEF FaultNext, DeliveryFails, WriteFails, Crash, Refused, ConsumerFails, files
<1>5. CASE (\E g \in Generations : SwitchConversation(g)) \/ UNCHANGED vars
  BY <1>1, <1>5 DEF SwitchConversation, vars
<1> QED BY <1>2, <1>3, <1>4, <1>5 DEF Next

\* The condition of InOrderWhileRemembered is met as long as the recipients
\* together accepted no more remarks than the list holds (200): crashes,
\* redelivery and failed acknowledgements then show nothing a second time.
THEOREM InOrderWithinTheList == Spec /\ []FewAccepted => DeliversInOrder
<1>1. Init => ListComplete
  BY FS_EmptySet DEF Init, ListComplete
<1>2. Spec => []ListComplete
  BY <1>1, StepKeepsList, Invariance, PTL DEF Spec
<1>3. ListComplete /\ FewAccepted => Remembered
  BY DEF ListComplete, Remembered
<1> QED BY <1>2, <1>3, InOrderWhileRemembered, PTL
=============================================================================
