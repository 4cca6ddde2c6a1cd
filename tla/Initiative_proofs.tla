-------------------------- MODULE Initiative_proofs --------------------------
(***************************************************************************)
(* Proofs about ProactiveTurn and WorkTask, for any observations, turns,   *)
(* operations and bounds: what the companion says of its own accord is said *)
(* and counted once, an offer is consented to while it is current and queued *)
(* once, and its work runs once, on an approval that stands.               *)
(***************************************************************************)
EXTENDS ProactiveTurn, WorkTask, FiniteSetTheorems, TLAPS

----------------------------------------------------------------------------
(* ProactiveTurn.                                                          *)

InboxType == [epoch : Nat, users : SUBSET Inputs, answered : SUBSET Inputs, cancelled : SUBSET Inputs]
OffersType == [epoch : Nat, status : [Turns -> OfferStatuses], at : [Turns -> Nat], owed : SUBSET Turns]
LaneType == [pc : LaneSteps, turn : 0 .. MaxTurns, last : 0 .. MaxTurns, epoch : Nat,
             then : {"final", "clear", "retry"}, blocked : BOOLEAN, ready : BOOLEAN]
ArrivalType == [input : {0} \cup Inputs, step : {"none", "enqueue", "reconcile", "settle"}]
UsageType == [calls : Nat, ids : SUBSET Turns, limit : Nat]
TurnBoundsType == [messages : Nat, faults : Nat]
MarkerType == [turn : 0 .. MaxTurns, phase : {"none", "reserved", "persisting"}, epoch : Nat]
CandidateType == [obs : SUBSET Observations, emit : BOOLEAN, offer : BOOLEAN]

TurnTypes ==
    /\ inbox \in InboxType /\ marker \in MarkerType /\ delivery \in [Turns -> {"none", "pending", "enqueued"}]
    /\ sent \subseteq Turns /\ spoken \subseteq Turns /\ counted \subseteq Turns
    /\ usage \in UsageType /\ offers \in OffersType /\ candidate \in [Turns -> CandidateType]
    /\ lane \in LaneType /\ arrival \in ArrivalType /\ taken \in [Turns -> Nat]
    /\ turnBounds \in TurnBoundsType

(* Where a turn is: it has nothing to say yet, its remark is prepared and  *)
(* not completed, the remark is counted.                                   *)
Early == {"call", "mark", "quiet", "prepare"}
Held == {"offer", "count", "append", "publish", "marked", "void", "complete"}
Said == {"append", "publish", "marked"}

Apart(t, u) == candidate[t].obs \cap candidate[u].obs = {}

LaneOK ==
    /\ lane.pc \in Early => /\ lane.turn \in Turns /\ lane.turn \notin counted \cup sent
                            /\ lane.turn <= lane.last
                            /\ PendingRemarks = {} /\ \A u \in sent : Apart(lane.turn, u)
    /\ lane.pc \in Held => lane.turn \in PendingRemarks
    /\ lane.pc \in Said => lane.turn \in counted
    /\ lane.pc = "forget" => lane.turn \in Turns /\ lane.turn \notin PendingRemarks
    /\ lane.pc \in {"mark", "restore"} => marker.turn \in Turns
    /\ marker.phase # "none" => marker.turn \in Turns

(* One remark at most is pending; what it speaks of nobody was told by     *)
(* another, and if it was counted its id is remembered.                    *)
RemarkOK ==
    /\ \A t \in Turns : t \in PendingRemarks \cup counted \cup sent => t <= lane.last
    /\ \A t, u \in PendingRemarks : t = u
    /\ \A t \in PendingRemarks, u \in sent : t # u => Apart(t, u)
    /\ PendingRemarks \cap counted \subseteq usage.ids
    /\ usage.ids \subseteq counted
    /\ \A u \in sent : u \in PendingRemarks \/ candidate[u].obs \subseteq done
    /\ SpokenOnceAndCounted

(* The input of an offer that was accepted: known to the cursor once it    *)
(* was taken, and on its way there, or owed, until then.                   *)
Known(t) == Acceptance(t) \in inbox.users \cup inbox.answered \cup inbox.cancelled

ConsentOK ==
    /\ \A t \in Turns :
          /\ taken[t] = IF Known(t) THEN 1 ELSE 0
          /\ offers.status[t] # "accepted" => ~Known(t) /\ t \notin offers.owed
          /\ offers.status[t] = "accepted" /\ t \notin offers.owed => Known(t)
    /\ arrival.step = "enqueue" =>
          \E t \in Turns : /\ arrival.input = Acceptance(t) /\ offers.status[t] = "accepted"
                           /\ arrival.input \notin inbox.answered
                           /\ (lane.pc = "start" \/ arrival.input \notin inbox.users)
    /\ arrival.step = "reconcile" =>
          arrival.input \in Messages \/ \E t \in Turns : arrival.input = Acceptance(t) /\ Known(t)
    /\ arrival.step = "settle" => \E t \in Turns : arrival.input = Acceptance(t) /\ Known(t)

(* The offer store follows the epoch of the queue.                         *)
EpochOK ==
    /\ offers.epoch <= inbox.epoch
    /\ lane.ready /\ arrival.step # "reconcile" => offers.epoch = inbox.epoch
    /\ \A t \in Turns : offers.status[t] = "proposed" => offers.at[t] = offers.epoch

TurnInv == TurnTypes /\ LaneOK /\ RemarkOK /\ ConsentOK /\ EpochOK

----------------------------------------------------------------------------
(* Types.                                                                  *)
LEMMA AcceptanceNamed ==
    /\ \A t \in Turns : Acceptance(t) \in Inputs /\ Acceptance(t) \notin Messages /\ Acceptance(t) # 0
    /\ \A t, u \in Turns : Acceptance(t) = Acceptance(u) => t = u
    /\ \A t \in Turns : Acceptance(t) - MaxMessages = t
    /\ \A i \in Inputs : i \in Messages \/ \E t \in Turns : i = Acceptance(t)
    /\ Messages \subseteq Inputs /\ 0 \notin Inputs
    /\ 0 \in 0 .. MaxTurns /\ 0 \notin Turns
BY TurnAssumption DEF Acceptance, Inputs, Messages, Turns

LEMMA ReconciledFacts ==
    ASSUME NEW s \in OffersType, NEW e \in Nat
    PROVE  /\ Reconciled(s, e) \in OffersType
           /\ Reconciled(s, e).epoch = (IF s.epoch >= e THEN s.epoch ELSE e)
           /\ Reconciled(s, e).at = s.at /\ Reconciled(s, e).owed = s.owed
           /\ \A t \in Turns : \/ Reconciled(s, e).status[t] = s.status[t] /\ s.status[t] # "proposed"
                               \/ Reconciled(s, e).status[t] = "ignored" /\ s.status[t] = "proposed"
                               \/ Reconciled(s, e) = s /\ s.epoch >= e
<1> DEFINE st == [t \in Turns |-> IF s.status[t] = "proposed" THEN "ignored" ELSE s.status[t]]
           r == [s EXCEPT !.epoch = e, !.status = st]
<1>1. CASE s.epoch >= e
  BY <1>1 DEF Reconciled
<1>2. CASE ~(s.epoch >= e)
  <2>1. Reconciled(s, e) = r
    BY <1>2 DEF Reconciled, OffersType
  <2>2. /\ st \in [Turns -> OfferStatuses]
        /\ \A t \in Turns : \/ st[t] = s.status[t] /\ s.status[t] # "proposed"
                            \/ st[t] = "ignored" /\ s.status[t] = "proposed"
    BY DEF OffersType, OfferStatuses
  <2> HIDE DEF st
  <2>3. r \in OffersType /\ r.epoch = e /\ r.status = st /\ r.at = s.at /\ r.owed = s.owed
    BY <2>2 DEF OffersType
  <2> QED
    BY <1>2, <2>1, <2>2, <2>3
<1> QED
  BY <1>1, <1>2

LEMMA ProposedFacts ==
    ASSUME NEW s \in OffersType, NEW t \in Turns, NEW e \in Nat
    PROVE  /\ Proposed(s, t, e) \in OffersType
           /\ Proposed(s, t, e).epoch = s.epoch /\ Proposed(s, t, e).owed = s.owed
           /\ \/ Proposed(s, t, e) = s
              \/ /\ s.epoch = e /\ s.status[t] = "none"
                 /\ Proposed(s, t, e).status = [s.status EXCEPT ![t] = "proposed"]
                 /\ Proposed(s, t, e).at = [s.at EXCEPT ![t] = e]
<1> DEFINE st == [s.status EXCEPT ![t] = "proposed"]
           at == [s.at EXCEPT ![t] = e]
           r == [s EXCEPT !.status = st, !.at = at]
<1>1. CASE s.status[t] = "none" /\ MayPropose(s, t, e)
  <2>1. Proposed(s, t, e) = r /\ s.epoch = e
    BY <1>1 DEF Proposed, MayPropose, OffersType
  <2>2. st \in [Turns -> OfferStatuses] /\ at \in [Turns -> Nat]
    BY DEF OffersType, OfferStatuses
  <2>3. r \in OffersType /\ r.epoch = s.epoch /\ r.status = st /\ r.at = at /\ r.owed = s.owed
    BY <2>2 DEF OffersType
  <2> QED
    BY <1>1, <2>1, <2>3
<1>2. CASE ~(s.status[t] = "none" /\ MayPropose(s, t, e))
  BY <1>2 DEF Proposed
<1> QED
  BY <1>1, <1>2

LEMMA QueuedFacts ==
    ASSUME TurnTypes, NEW i \in Inputs
    PROVE  /\ Queued(i) \in InboxType /\ Queued(i).epoch = inbox.epoch + 1
           /\ Queued(i).users = inbox.users \cup {i} /\ Queued(i).answered = inbox.answered
           /\ Queued(i).cancelled = inbox.cancelled
<1> DEFINE e == inbox.epoch + 1
           u == inbox.users \cup {i}
<1>1. inbox \in InboxType /\ e \in Nat /\ u \in SUBSET Inputs
  BY DEF TurnTypes, InboxType
<1>2. Queued(i) = [inbox EXCEPT !.epoch = e, !.users = u]
  BY DEF Queued
<1> HIDE DEF e, u
<1>3. Queued(i) \in InboxType /\ Queued(i).epoch = e /\ Queued(i).users = u
      /\ Queued(i).answered = inbox.answered /\ Queued(i).cancelled = inbox.cancelled
  BY <1>1, <1>2 DEF InboxType
<1> QED
  BY <1>3 DEF e, u

(* The companion moves within its own steps.                               *)
LEMMA GoFacts ==
    ASSUME TurnTypes, NEW pc \in LaneSteps, Go(pc)
    PROVE  /\ lane' \in LaneType /\ lane'.pc = pc /\ lane'.turn = lane.turn /\ lane'.last = lane.last
           /\ lane'.ready = lane.ready
BY DEF TurnTypes, LaneType, Go

(* The user asks or answers: only the queue, the offers, what is on its    *)
(* way and the bounds change.                                              *)
SpeechStays == UNCHANGED <<marker, delivery, done, spoken, sent, candidate, counted>>
OffersStay == UNCHANGED <<inbox, offers, arrival, taken>>

LEMMA SpeechKept ==
    ASSUME TurnInv, SpeechStays, UNCHANGED lane, usage'.ids = usage.ids, usage'.calls = usage.calls
    PROVE  LaneOK' /\ RemarkOK'
<1>1. PendingRemarks' = PendingRemarks /\ PendingRemarks \subseteq Turns
  BY DEF SpeechStays, PendingRemarks
<1>2. \A t, u \in Turns : Apart(t, u)' <=> Apart(t, u)
  BY DEF SpeechStays, Apart
<1>3. LaneOK'
  BY <1>1, <1>2 DEF TurnInv, TurnTypes, LaneOK, SpeechStays
<1>4. SpokenOnceAndCounted'
  BY DEF TurnInv, RemarkOK, SpokenOnceAndCounted, SpeechStays
<1>5. RemarkOK'
  BY <1>1, <1>2, <1>4 DEF TurnInv, TurnTypes, RemarkOK, SpeechStays
<1> QED
  BY <1>3, <1>5

(* The companion goes on to a step where its turn may be; what is pending  *)
(* stays so.                                                               *)
LEMMA LaneMoves ==
    ASSUME TurnInv, PendingRemarks' = PendingRemarks, done \subseteq done',
           UNCHANGED <<spoken, sent, candidate, counted>>, lane' \in LaneType,
           usage'.ids = usage.ids, usage'.calls = usage.calls, lane'.last = lane.last, marker' \in MarkerType,
           lane'.pc \in Early => lane.pc \in Early /\ lane'.turn = lane.turn,
           lane'.pc \in Held => lane'.turn \in PendingRemarks,
           lane'.pc \in Said => lane'.turn \in counted,
           lane'.pc # "forget",
           (marker'.phase # "none" \/ lane'.pc \in {"mark", "restore"}) => marker'.turn \in Turns
    PROVE  LaneOK' /\ RemarkOK'
<1>1. PendingRemarks \subseteq Turns
  BY DEF PendingRemarks
<1>2. \A t, u \in Turns : Apart(t, u)' <=> Apart(t, u)
  BY DEF Apart
<1>3. LaneOK'
  BY <1>1, <1>2 DEF TurnInv, TurnTypes, LaneOK
<1>4. SpokenOnceAndCounted'
  BY DEF TurnInv, RemarkOK, SpokenOnceAndCounted
<1>5. \A u \in sent' : u \in PendingRemarks' \/ candidate'[u].obs \subseteq done'
  BY DEF TurnInv, RemarkOK
<1>6. RemarkOK'
  BY <1>1, <1>2, <1>4, <1>5 DEF TurnInv, TurnTypes, RemarkOK
<1> QED
  BY <1>3, <1>6

LEMMA LaneGoes ==
    ASSUME TurnInv, UNCHANGED <<delivery, done, spoken, sent, candidate, counted>>, lane' \in LaneType,
           usage'.ids = usage.ids, usage'.calls = usage.calls, lane'.last = lane.last, marker' \in MarkerType,
           lane'.pc \in Early => lane.pc \in Early /\ lane'.turn = lane.turn,
           lane'.pc \in Held => lane'.turn \in PendingRemarks,
           lane'.pc \in Said => lane'.turn \in counted,
           lane'.pc # "forget",
           (marker'.phase # "none" \/ lane'.pc \in {"mark", "restore"}) => marker'.turn \in Turns
    PROVE  LaneOK' /\ RemarkOK'
<1>1. PendingRemarks' = PendingRemarks
  BY DEF PendingRemarks
<1> QED
  BY <1>1, LaneMoves

(* The companion moves without the queue and the offers.                   *)
LEMMA OffersKept ==
    ASSUME TurnInv, OffersStay, lane.pc = "start" => lane'.pc = "start" \/ arrival.step # "enqueue",
           lane'.ready = lane.ready
    PROVE  ConsentOK' /\ EpochOK'
<1>1. \A t \in Turns : Known(t)' <=> Known(t)
  BY DEF OffersStay, Known
<1>2. ConsentOK'
  BY <1>1 DEF TurnInv, ConsentOK, OffersStay
<1>3. EpochOK'
  BY DEF TurnInv, EpochOK, OffersStay
<1> QED
  BY <1>2, <1>3

----------------------------------------------------------------------------
(* The user.                                                               *)

LEMMA UserSpeaksKeeps == ASSUME TurnInv, UserSpeaks PROVE TurnInv'
<1> DEFINE m == turnBounds.messages + 1
<1>1. /\ arrival.step = "none" /\ m <= MaxMessages /\ inbox' = Queued(m) /\ turnBounds' = [turnBounds EXCEPT !.messages = m]
      /\ arrival' = [input |-> m, step |-> "reconcile"]
      /\ UNCHANGED <<marker, delivery, done, spoken, sent, usage, offers, candidate, lane, counted, taken>>
  BY DEF UserSpeaks, Unlocked
<1>2. m \in Messages /\ m \in Inputs /\ m \in Nat
  BY <1>1, AcceptanceNamed, TurnAssumption DEF TurnInv, TurnTypes, TurnBoundsType, Messages
<1> HIDE DEF m
<1>3. /\ inbox' \in InboxType /\ inbox'.epoch = inbox.epoch + 1 /\ inbox'.users = inbox.users \cup {m}
      /\ inbox'.answered = inbox.answered /\ inbox'.cancelled = inbox.cancelled
  BY <1>1, <1>2, QueuedFacts DEF TurnInv
<1>4. arrival' \in ArrivalType /\ arrival'.input = m /\ arrival'.step = "reconcile"
  BY <1>1, <1>2 DEF ArrivalType
<1>5. turnBounds' \in TurnBoundsType
  BY <1>1, <1>2 DEF TurnInv, TurnTypes, TurnBoundsType
<1>6. TurnTypes'
  BY <1>1, <1>3, <1>4, <1>5 DEF TurnInv, TurnTypes
<1>7. LaneOK' /\ RemarkOK'
  BY <1>1, SpeechKept DEF SpeechStays
<1>8. \A t \in Turns : Known(t)' <=> Known(t)
  BY <1>2, <1>3, AcceptanceNamed DEF Known
<1>9. ConsentOK'
  BY <1>1, <1>2, <1>4, <1>8 DEF TurnInv, ConsentOK
<1>10. EpochOK'
  BY <1>1, <1>3, <1>4 DEF TurnInv, TurnTypes, InboxType, OffersType, EpochOK
<1> QED
  BY <1>6, <1>7, <1>9, <1>10 DEF TurnInv

(* The status of one offer changes, and no other of the store does.        *)
LEMMA AcceptKeeps == ASSUME TurnInv, NEW t \in Turns, AcceptOffer(t) PROVE TurnInv'
<1> DEFINE st == [offers.status EXCEPT ![t] = "accepted"]
           ow == offers.owed \cup {t}
<1>1. /\ arrival.step = "none" /\ offers.status[t] = "proposed"
      /\ arrival' = [input |-> Acceptance(t), step |-> "enqueue"]
      /\ UNCHANGED <<inbox, marker, delivery, done, spoken, sent, usage, candidate, lane, turnBounds, counted, taken>>
  BY DEF AcceptOffer, Unlocked
<1>2. offers' = [offers EXCEPT !.status = st, !.owed = ow]
  BY DEF AcceptOffer, TurnInv, TurnTypes, OffersType
<1>3. /\ st \in [Turns -> OfferStatuses] /\ st[t] = "accepted" /\ \A u \in Turns : u # t => st[u] = offers.status[u]
      /\ ow \in SUBSET Turns /\ t \in ow /\ \A u : u # t => (u \in ow <=> u \in offers.owed)
  BY DEF TurnInv, TurnTypes, OffersType, OfferStatuses
<1> HIDE DEF st, ow
<1>4. /\ offers' \in OffersType /\ offers'.status = st /\ offers'.owed = ow /\ offers'.epoch = offers.epoch
      /\ offers'.at = offers.at
  BY <1>2, <1>3 DEF TurnInv, TurnTypes, OffersType
<1>5. arrival' \in ArrivalType /\ arrival'.input = Acceptance(t) /\ arrival'.step = "enqueue"
  BY <1>1, AcceptanceNamed DEF ArrivalType
<1>6. TurnTypes'
  BY <1>1, <1>4, <1>5 DEF TurnInv, TurnTypes
<1>7. LaneOK' /\ RemarkOK'
  BY <1>1, SpeechKept DEF SpeechStays
<1>8. \A u \in Turns : Known(u)' <=> Known(u)
  BY <1>1 DEF Known
<1>9. ~Known(t)
  BY <1>1 DEF TurnInv, ConsentOK
<1>10. ConsentOK'
  <2>1. ASSUME NEW u \in Turns
        PROVE  /\ taken'[u] = IF Known(u)' THEN 1 ELSE 0
               /\ offers'.status[u] # "accepted" => ~Known(u)' /\ u \notin offers'.owed
               /\ offers'.status[u] = "accepted" /\ u \notin offers'.owed => Known(u)'
    BY <1>1, <1>3, <1>4, <1>8 DEF TurnInv, ConsentOK
  <2>2. Acceptance(t) \notin inbox.answered /\ Acceptance(t) \notin inbox.users
    BY <1>9 DEF Known
  <2> QED
    BY <1>1, <1>3, <1>4, <1>5, <2>1, <2>2 DEF ConsentOK
<1>11. EpochOK'
  BY <1>1, <1>3, <1>4, <1>5 DEF TurnInv, EpochOK
<1> QED
  BY <1>6, <1>7, <1>10, <1>11 DEF TurnInv

(* Offers that are open are closed, without anybody's consent.             *)
LEMMA OffersClose ==
    ASSUME TurnInv, UNCHANGED <<inbox, arrival, taken>>, lane.pc = "start" => lane'.pc = "start",
           lane'.ready = lane.ready, offers' \in OffersType, offers'.epoch = offers.epoch,
           offers'.owed = offers.owed, offers'.at = offers.at,
           \A t \in Turns : offers'.status[t] = offers.status[t]
                          \/ (offers.status[t] = "proposed" /\ offers'.status[t] \notin {"proposed", "accepted"})
    PROVE  ConsentOK' /\ EpochOK'
<1>1. \A t \in Turns : Known(t)' <=> Known(t)
  BY DEF Known
<1>2. ConsentOK'
  <2>1. ASSUME NEW u \in Turns
        PROVE  /\ taken'[u] = IF Known(u)' THEN 1 ELSE 0
               /\ offers'.status[u] # "accepted" => ~Known(u)' /\ u \notin offers'.owed
               /\ offers'.status[u] = "accepted" /\ u \notin offers'.owed => Known(u)'
    BY <1>1 DEF TurnInv, ConsentOK
  <2>2. \A u \in Turns : offers.status[u] = "accepted" => offers'.status[u] = "accepted"
    OBVIOUS
  <2> QED
    BY <1>1, <2>1, <2>2 DEF TurnInv, ConsentOK
<1>3. EpochOK'
  BY DEF TurnInv, EpochOK
<1> QED
  BY <1>2, <1>3

LEMMA DeclineKeeps == ASSUME TurnInv, NEW t \in Turns, DeclineOffer(t) PROVE TurnInv'
<1> DEFINE st == [offers.status EXCEPT ![t] = "declined"]
<1>1. /\ offers.status[t] = "proposed"
      /\ UNCHANGED <<inbox, marker, delivery, done, spoken, sent, usage, candidate, lane, arrival, turnBounds,
                     counted, taken>>
  BY DEF DeclineOffer
<1>2. offers' = [offers EXCEPT !.status = st]
  BY DEF DeclineOffer, TurnInv, TurnTypes, OffersType
<1>3. /\ st \in [Turns -> OfferStatuses] /\ st[t] = "declined" /\ \A u \in Turns : u # t => st[u] = offers.status[u]
  BY DEF TurnInv, TurnTypes, OffersType, OfferStatuses
<1> HIDE DEF st
<1>4. /\ offers' \in OffersType /\ offers'.status = st /\ offers'.owed = offers.owed
      /\ offers'.epoch = offers.epoch /\ offers'.at = offers.at
  BY <1>2, <1>3 DEF TurnInv, TurnTypes, OffersType
<1>5. ConsentOK' /\ EpochOK'
  BY <1>1, <1>3, <1>4, OffersClose
<1>6. LaneOK' /\ RemarkOK'
  BY <1>1, SpeechKept DEF SpeechStays
<1> QED
  BY <1>1, <1>4, <1>5, <1>6 DEF TurnInv, TurnTypes

(* An acceptance is queued once.                                           *)
LEMMA EnqueueKeeps == ASSUME TurnInv, EnqueueAccepted PROVE TurnInv'
<1>1. /\ arrival.step = "enqueue" /\ arrival.input \notin inbox.cancelled
      /\ arrival' = [arrival EXCEPT !.step = "reconcile"]
      /\ UNCHANGED <<marker, delivery, done, spoken, sent, usage, offers, candidate, lane, turnBounds, counted>>
  BY DEF EnqueueAccepted
<1>2. PICK t \in Turns : /\ arrival.input = Acceptance(t) /\ offers.status[t] = "accepted"
                        /\ arrival.input \notin inbox.answered
  BY <1>1 DEF TurnInv, ConsentOK
<1>3. arrival' \in ArrivalType /\ arrival'.input = Acceptance(t) /\ arrival'.step = "reconcile"
  BY <1>1, <1>2 DEF TurnInv, TurnTypes, ArrivalType
<1>4. LaneOK' /\ RemarkOK'
  BY <1>1, SpeechKept DEF SpeechStays
<1>5. CASE arrival.input \in inbox.users
  <2>1. UNCHANGED <<inbox, taken>>
    BY <1>5 DEF EnqueueAccepted
  <2>2. \A u \in Turns : Known(u)' <=> Known(u)
    BY <2>1 DEF Known
  <2>3. Known(t)
    BY <1>2, <1>5 DEF Known
  <2>4. ConsentOK'
    BY <1>1, <1>3, <2>1, <2>2, <2>3 DEF TurnInv, ConsentOK
  <2>5. EpochOK'
    BY <1>1, <1>3, <2>1 DEF TurnInv, EpochOK
  <2> QED
    BY <1>1, <1>3, <1>4, <2>1, <2>4, <2>5 DEF TurnInv, TurnTypes
<1>6. CASE arrival.input \notin inbox.users
  <2>1. inbox' = Queued(Acceptance(t)) /\ taken' = [taken EXCEPT ![t] = taken[t] + 1]
    BY <1>2, <1>6, AcceptanceNamed DEF EnqueueAccepted
  <2>2. /\ inbox' \in InboxType /\ inbox'.epoch = inbox.epoch + 1 /\ inbox'.users = inbox.users \cup {Acceptance(t)}
        /\ inbox'.answered = inbox.answered /\ inbox'.cancelled = inbox.cancelled
    BY <2>1, AcceptanceNamed, QueuedFacts DEF TurnInv
  <2>3. ~Known(t) /\ taken[t] = 0
    BY <1>1, <1>2, <1>6 DEF Known, TurnInv, ConsentOK
  <2>4. /\ taken' \in [Turns -> Nat] /\ taken'[t] = 1 /\ \A u \in Turns : u # t => taken'[u] = taken[u]
    BY <2>1, <2>3 DEF TurnInv, TurnTypes
  <2>5. Known(t)' /\ \A u \in Turns : u # t => (Known(u)' <=> Known(u))
    BY <2>2, AcceptanceNamed DEF Known
  <2>6. ConsentOK'
    <3>1. ASSUME NEW u \in Turns
          PROVE  /\ taken'[u] = IF Known(u)' THEN 1 ELSE 0
                 /\ offers'.status[u] # "accepted" => ~Known(u)' /\ u \notin offers'.owed
                 /\ offers'.status[u] = "accepted" /\ u \notin offers'.owed => Known(u)'
      BY <1>1, <1>2, <2>4, <2>5 DEF TurnInv, ConsentOK
    <3> QED
      BY <1>3, <2>5, <3>1 DEF ConsentOK
  <2>7. EpochOK'
    BY <1>1, <1>3, <2>2 DEF TurnInv, TurnTypes, InboxType, OffersType, EpochOK
  <2> QED
    BY <1>1, <1>3, <1>4, <2>2, <2>4, <2>6, <2>7 DEF TurnInv, TurnTypes
<1> QED
  BY <1>5, <1>6

(* The offers follow the queue.                                            *)
LEMMA OffersFollow ==
    ASSUME TurnInv, UNCHANGED <<inbox, taken>>, offers' = Reconciled(offers, inbox.epoch)
    PROVE  /\ offers' \in OffersType /\ EpochOK' /\ offers'.owed = offers.owed
           /\ \A t \in Turns : offers'.status[t] = "accepted" <=> offers.status[t] = "accepted"
<1>1. offers \in OffersType /\ inbox.epoch \in Nat /\ offers.epoch \in Nat
  BY DEF TurnInv, TurnTypes, InboxType, OffersType
<1>2. offers.epoch <= inbox.epoch
  BY DEF TurnInv, EpochOK
<1>3. /\ offers' \in OffersType /\ offers'.at = offers.at /\ offers'.owed = offers.owed
      /\ offers'.epoch = (IF offers.epoch >= inbox.epoch THEN offers.epoch ELSE inbox.epoch)
  BY <1>1, ReconciledFacts
<1>4. ASSUME NEW t \in Turns
      PROVE  \/ offers'.status[t] = offers.status[t] /\ offers.status[t] # "proposed"
             \/ offers'.status[t] = "ignored" /\ offers.status[t] = "proposed"
             \/ offers'.status[t] = offers.status[t] /\ offers.epoch >= inbox.epoch
  <2> DEFINE r == Reconciled(offers, inbox.epoch)
  <2>1. \/ r.status[t] = offers.status[t] /\ offers.status[t] # "proposed"
        \/ r.status[t] = "ignored" /\ offers.status[t] = "proposed"
        \/ r = offers /\ offers.epoch >= inbox.epoch
    BY <1>1, ReconciledFacts
  <2>2. offers' = r
    OBVIOUS
  <2> HIDE DEF r
  <2> QED
    BY <2>1, <2>2
<1>5. offers'.epoch = inbox.epoch
  BY <1>1, <1>2, <1>3
<1>6. ASSUME NEW t \in Turns, offers'.status[t] = "proposed" PROVE offers.at[t] = inbox.epoch
  <2>1. offers.status[t] = "proposed" /\ offers.epoch >= inbox.epoch
    BY <1>4, <1>6
  <2>2. offers.at[t] = offers.epoch
    BY <2>1 DEF TurnInv, EpochOK
  <2> QED
    BY <1>1, <1>2, <2>1, <2>2
<1>7. EpochOK'
  BY <1>1, <1>3, <1>5, <1>6 DEF EpochOK
<1>8. \A t \in Turns : offers'.status[t] = "accepted" <=> offers.status[t] = "accepted"
  BY <1>4
<1> QED
  BY <1>3, <1>7, <1>8

LEMMA ReconcileKeeps == ASSUME TurnInv, ReconcileArrival PROVE TurnInv'
<1>1. /\ arrival.step = "reconcile" /\ offers' = Reconciled(offers, inbox.epoch)
      /\ arrival' = IF arrival.input \in Messages THEN [input |-> 0, step |-> "none"]
                    ELSE [arrival EXCEPT !.step = "settle"]
      /\ UNCHANGED <<inbox, marker, delivery, done, spoken, sent, usage, candidate, lane, turnBounds, counted, taken>>
  BY DEF ReconcileArrival
<1>2. /\ arrival' \in ArrivalType
      /\ arrival'.step = "none" \/ (arrival'.step = "settle" /\ arrival'.input = arrival.input
                                    /\ arrival.input \notin Messages)
  BY <1>1 DEF TurnInv, TurnTypes, ArrivalType
<1>3. /\ offers' \in OffersType /\ EpochOK' /\ offers'.owed = offers.owed
      /\ \A t \in Turns : offers'.status[t] = "accepted" <=> offers.status[t] = "accepted"
  BY <1>1, OffersFollow
<1>4. LaneOK' /\ RemarkOK'
  BY <1>1, SpeechKept DEF SpeechStays
<1>5. \A u \in Turns : Known(u)' <=> Known(u)
  BY <1>1 DEF Known
<1>6. ConsentOK'
  BY <1>1, <1>2, <1>3, <1>5 DEF TurnInv, ConsentOK
<1> QED
  BY <1>1, <1>2, <1>3, <1>4, <1>6 DEF TurnInv, TurnTypes

LEMMA SettleKeeps == ASSUME TurnInv, SettleAccepted PROVE TurnInv'
<1>1. /\ arrival.step = "settle" /\ offers' = [offers EXCEPT !.owed = offers.owed \ {arrival.input - MaxMessages}]
      /\ arrival' = [input |-> 0, step |-> "none"]
      /\ UNCHANGED <<inbox, marker, delivery, done, spoken, sent, usage, candidate, lane, turnBounds, counted, taken>>
  BY DEF SettleAccepted
<1>2. PICK t \in Turns : arrival.input = Acceptance(t) /\ Known(t)
  BY <1>1 DEF TurnInv, ConsentOK
<1> DEFINE ow == offers.owed \ {t}
<1>3. offers' = [offers EXCEPT !.owed = ow]
  BY <1>1, <1>2, AcceptanceNamed
<1>4. ow \in SUBSET Turns /\ \A u : u # t => (u \in ow <=> u \in offers.owed)
  BY DEF TurnInv, TurnTypes, OffersType
<1>5. ow \subseteq offers.owed
  OBVIOUS
<1> HIDE DEF ow
<1>6. /\ offers' \in OffersType /\ offers'.status = offers.status /\ offers'.owed = ow
      /\ offers'.epoch = offers.epoch /\ offers'.at = offers.at
  BY <1>3, <1>4 DEF TurnInv, TurnTypes, OffersType
<1>7. arrival' \in ArrivalType /\ arrival'.step = "none"
  BY <1>1 DEF ArrivalType
<1>8. LaneOK' /\ RemarkOK'
  BY <1>1, SpeechKept DEF SpeechStays
<1>9. \A u \in Turns : Known(u)' <=> Known(u)
  BY <1>1 DEF Known
<1>10. ASSUME NEW u \in Turns
       PROVE  /\ taken'[u] = IF Known(u)' THEN 1 ELSE 0
              /\ offers'.status[u] # "accepted" => ~Known(u)' /\ u \notin offers'.owed
              /\ offers'.status[u] = "accepted" /\ u \notin offers'.owed => Known(u)'
  BY <1>1, <1>2, <1>4, <1>5, <1>6, <1>9 DEF TurnInv, ConsentOK
<1>11. ConsentOK'
  BY <1>7, <1>10 DEF ConsentOK
<1>12. EpochOK'
  BY <1>1, <1>6, <1>7 DEF TurnInv, EpochOK
<1> QED
  BY <1>1, <1>6, <1>7, <1>8, <1>11, <1>12 DEF TurnInv, TurnTypes

LEMMA TakenKeeps == ASSUME TurnInv, NEW i \in Inputs, AnswerUser(i) \/ CancelUser(i) PROVE TurnInv'
<1>1. /\ UNCHANGED <<marker, delivery, done, spoken, sent, usage, offers, candidate, lane, arrival, turnBounds,
                     counted, taken>>
      /\ i \in inbox.users /\ (lane.pc = "idle" \/ arrival.step = "none")
  BY DEF AnswerUser, CancelUser
<1>2. /\ inbox' \in InboxType /\ inbox'.epoch = inbox.epoch /\ inbox'.users = inbox.users \ {i}
      /\ inbox'.answered \in {inbox.answered, inbox.answered \cup {i}}
      /\ inbox'.cancelled \in {inbox.cancelled, inbox.cancelled \cup {i}}
      /\ i \in inbox'.answered \cup inbox'.cancelled
  <2>1. inbox \in InboxType
    BY DEF TurnInv, TurnTypes
  <2>2. CASE AnswerUser(i)
    BY <2>1, <2>2 DEF AnswerUser, InboxType
  <2>3. CASE CancelUser(i)
    BY <2>1, <2>3 DEF CancelUser, InboxType
  <2> QED
    BY <2>2, <2>3
<1>3. LaneOK' /\ RemarkOK'
  BY <1>1, SpeechKept DEF SpeechStays
<1>4. \A u \in Turns : Known(u)' <=> Known(u)
  BY <1>1, <1>2 DEF Known
<1>5. ConsentOK'
  BY <1>1, <1>2, <1>4 DEF TurnInv, ConsentOK
<1>6. EpochOK'
  BY <1>1, <1>2 DEF TurnInv, EpochOK
<1> QED
  BY <1>1, <1>2, <1>3, <1>5, <1>6 DEF TurnInv, TurnTypes

LEMMA LowerKeeps == ASSUME TurnInv, LowerLimit \/ UNCHANGED turnVars PROVE TurnInv'
<1>1. UNCHANGED <<inbox, marker, delivery, done, spoken, sent, offers, candidate, lane, arrival, turnBounds,
                  counted, taken>>
  BY DEF LowerLimit, turnVars
<1>2. usage' \in UsageType /\ usage'.calls = usage.calls /\ usage'.ids = usage.ids
  BY DEF LowerLimit, turnVars, TurnInv, TurnTypes, UsageType
<1>3. LaneOK' /\ RemarkOK'
  BY <1>1, <1>2, SpeechKept DEF SpeechStays
<1>4. ConsentOK' /\ EpochOK'
  BY <1>1, OffersKept DEF OffersStay
<1> QED
  BY <1>1, <1>2, <1>3, <1>4 DEF TurnInv, TurnTypes

----------------------------------------------------------------------------
(* The companion, where neither what is said nor what is offered changes.  *)

Standing == UNCHANGED <<delivery, done, spoken, sent, usage, candidate, counted>>

LEMMA ReserveKeeps == ASSUME TurnInv, ReserveTurn \/ MarkTurn PROVE TurnInv'
<1>1. Standing /\ OffersStay /\ UNCHANGED turnBounds
  BY DEF ReserveTurn, MarkTurn, Standing, OffersStay
<1>2. /\ lane' \in LaneType /\ lane'.last = lane.last /\ lane'.ready = lane.ready /\ lane'.turn = lane.turn
      /\ lane.pc \in {"call", "mark"} /\ lane'.pc \in {"idle", "mark", "prepare", "quiet"}
  BY DEF ReserveTurn, MarkTurn, Go, TurnInv, TurnTypes, LaneType, LaneSteps, LockedSteps
<1>3. marker' \in MarkerType /\ ((marker'.phase # "none" \/ lane'.pc \in {"mark", "restore"}) => marker'.turn \in Turns)
  <2>1. CASE ReserveTurn
    <3>1. CASE UNCHANGED marker /\ lane'.pc = "idle"
      BY <3>1 DEF TurnInv, TurnTypes, LaneOK
    <3>2. CASE marker' = [turn |-> lane.turn, phase |-> "reserved", epoch |-> lane.epoch]
      BY <2>1, <3>2 DEF ReserveTurn, TurnInv, TurnTypes, LaneOK, Early, LaneType, MarkerType
    <3>3. (UNCHANGED marker /\ lane'.pc = "idle") \/ marker' = [turn |-> lane.turn, phase |-> "reserved", epoch |-> lane.epoch]
      BY <2>1 DEF ReserveTurn, Go, TurnInv, TurnTypes, LaneType
    <3> QED
      BY <3>1, <3>2, <3>3
  <2>2. CASE MarkTurn
    BY <2>2 DEF MarkTurn, TurnInv, TurnTypes, LaneOK, MarkerType
  <2> QED
    BY <2>1, <2>2
<1>4. LaneOK' /\ RemarkOK'
  BY <1>1, <1>2, <1>3, LaneGoes DEF Standing, Early, Held, Said
<1>5. ConsentOK' /\ EpochOK'
  BY <1>1, <1>2, OffersKept
<1> QED
  BY <1>1, <1>2, <1>3, <1>4, <1>5 DEF TurnInv, TurnTypes, Standing, OffersStay

LEMMA RestKeeps ==
    ASSUME TurnInv, BeginRecovery \/ ClearMarker \/ FinalizeTurn \/ RetryRemark PROVE TurnInv'
<1>1. Standing /\ OffersStay /\ UNCHANGED turnBounds
  BY DEF BeginRecovery, ClearMarker, FinalizeTurn, RetryRemark, Standing, OffersStay
<1>2. /\ lane' \in LaneType /\ lane'.last = lane.last /\ lane'.ready = lane.ready
      /\ lane.pc # "start" /\ lane'.pc \in {"recover", "retry", "idle", "count"}
      /\ lane'.pc = "count" => lane'.turn \in PendingRemarks
  <2>1. CASE RetryRemark
    <3>0. Turns \subseteq 0 .. MaxTurns
      BY TurnAssumption DEF Turns
    <3>1. lane.pc = "retry" /\ lane \in LaneType /\ PendingRemarks \subseteq 0 .. MaxTurns
      BY <2>1, <3>0 DEF RetryRemark, TurnInv, TurnTypes, PendingRemarks
    <3>2. CASE PendingRemarks = {}
      BY <2>1, <3>1, <3>2 DEF RetryRemark, LaneType, LaneSteps
    <3>3. CASE PendingRemarks # {}
      <4>1. PICK t \in PendingRemarks : lane' = [lane EXCEPT !.pc = "count", !.turn = t, !.then = "retry", !.blocked = FALSE]
        BY <2>1, <3>3 DEF RetryRemark
      <4> DEFINE half == [lane EXCEPT !.pc = "count", !.turn = t]
      <4>2. /\ half \in LaneType /\ half.pc = "count" /\ half.turn = t /\ half.last = lane.last
            /\ half.ready = lane.ready
        BY <3>1 DEF LaneType, LaneSteps, LockedSteps
      <4>3. lane' = [half EXCEPT !.then = "retry", !.blocked = FALSE]
        BY <3>1, <4>1 DEF LaneType
      <4> HIDE DEF half
      <4> QED
        BY <3>1, <4>2, <4>3 DEF LaneType
    <3> QED
      BY <3>2, <3>3
  <2>2. CASE BeginRecovery \/ ClearMarker \/ FinalizeTurn
    BY <2>2 DEF BeginRecovery, ClearMarker, FinalizeTurn, Go, TurnInv, TurnTypes, LaneType, LaneSteps
  <2> QED
    BY <2>1, <2>2
<1>3. marker' \in MarkerType /\ (marker'.phase # "none" => marker'.turn \in Turns)
  <2>1. UNCHANGED marker \/ marker' = NoMarker
    BY DEF BeginRecovery, ClearMarker, FinalizeTurn, RetryRemark
  <2> QED
    BY <2>1, AcceptanceNamed DEF TurnInv, TurnTypes, LaneOK, MarkerType, NoMarker, NoTurn
<1>4. LaneOK' /\ RemarkOK'
  BY <1>1, <1>2, <1>3, LaneGoes DEF Standing, Early, Held, Said
<1>5. ConsentOK' /\ EpochOK'
  BY <1>1, <1>2, OffersKept
<1> QED
  BY <1>1, <1>2, <1>3, <1>4, <1>5 DEF TurnInv, TurnTypes, Standing, OffersStay

LEMMA FaultKeeps == ASSUME TurnInv, WriteError PROVE TurnInv'
<1>1. Standing /\ OffersStay /\ turnBounds' \in TurnBoundsType
  BY DEF WriteError, Standing, OffersStay, TurnFault, TurnInv, TurnTypes, TurnBoundsType
<1>2. /\ lane' \in LaneType /\ lane'.last = lane.last /\ lane'.ready = lane.ready
      /\ lane.pc # "start" /\ lane'.pc \in {"clear", "idle"}
  BY DEF WriteError, Go, TurnInv, TurnTypes, LaneType, LaneSteps, LockedSteps
<1>3. marker' \in MarkerType /\ (marker'.phase # "none" => marker'.turn \in Turns)
  <2>1. UNCHANGED marker \/ marker' = NoMarker
    BY DEF WriteError
  <2> QED
    BY <2>1, AcceptanceNamed DEF TurnInv, TurnTypes, LaneOK, MarkerType, NoMarker, NoTurn
<1>4. LaneOK' /\ RemarkOK'
  BY <1>1, <1>2, <1>3, LaneGoes DEF Standing, Early, Held, Said
<1>5. ConsentOK' /\ EpochOK'
  BY <1>1, <1>2, OffersKept
<1> QED
  BY <1>1, <1>2, <1>3, <1>4, <1>5 DEF TurnInv, TurnTypes, Standing, OffersStay

LEMMA CrashKeeps == ASSUME TurnInv, TurnCrash PROVE TurnInv'
<1>1. Standing /\ UNCHANGED <<marker, inbox, offers, taken>> /\ turnBounds' \in TurnBoundsType
  BY DEF TurnCrash, Standing, TurnFault, TurnInv, TurnTypes, TurnBoundsType
<1>2. /\ lane' \in LaneType /\ lane'.last = lane.last /\ ~lane'.ready /\ lane'.pc = "down"
  <2> DEFINE half == [lane EXCEPT !.pc = "down", !.turn = NoTurn]
  <2>1. half \in LaneType /\ half.pc = "down" /\ half.last = lane.last
    BY AcceptanceNamed DEF TurnInv, TurnTypes, LaneType, LaneSteps, NoTurn
  <2>2. lane' = [half EXCEPT !.blocked = FALSE, !.ready = FALSE]
    BY DEF TurnCrash, TurnInv, TurnTypes, LaneType
  <2> HIDE DEF half
  <2> QED
    BY <2>1, <2>2 DEF LaneType
<1>3. marker' \in MarkerType /\ (marker'.phase # "none" => marker'.turn \in Turns)
  BY <1>1 DEF TurnInv, TurnTypes, LaneOK
<1>4. LaneOK' /\ RemarkOK'
  BY <1>1, <1>2, <1>3, LaneGoes DEF Standing, Early, Held, Said
<1>5. arrival' \in ArrivalType /\ arrival'.step = "none"
  BY DEF TurnCrash, ArrivalType
<1>6. \A t \in Turns : Known(t)' <=> Known(t)
  BY <1>1 DEF Known
<1>7. ConsentOK'
  BY <1>1, <1>5, <1>6 DEF TurnInv, ConsentOK
<1>8. EpochOK'
  BY <1>1, <1>2 DEF TurnInv, EpochOK
<1> QED
  BY <1>1, <1>2, <1>3, <1>4, <1>5, <1>7, <1>8 DEF TurnInv, TurnTypes, Standing

----------------------------------------------------------------------------
(* The companion and its offers.                                           *)

LEMMA VoidKeeps == ASSUME TurnInv, VoidOffer PROVE TurnInv'
<1> DEFINE st == [t \in Turns |-> IF offers.status[t] = "proposed" THEN "invalidated" ELSE offers.status[t]]
<1>1. Standing /\ UNCHANGED <<marker, inbox, arrival, taken, turnBounds>> /\ offers' = [offers EXCEPT !.status = st]
  BY DEF VoidOffer, Standing, TurnInv, TurnTypes, OffersType
<1>2. /\ lane' \in LaneType /\ lane'.last = lane.last /\ lane'.ready = lane.ready /\ lane'.turn = lane.turn
      /\ lane.pc = "void" /\ lane'.pc = "complete"
  BY DEF VoidOffer, Go, TurnInv, TurnTypes, LaneType, LaneSteps, LockedSteps
<1>3. /\ st \in [Turns -> OfferStatuses]
      /\ \A t \in Turns : st[t] = offers.status[t] \/ (offers.status[t] = "proposed" /\ st[t] = "invalidated")
  BY DEF TurnInv, TurnTypes, OffersType, OfferStatuses
<1> HIDE DEF st
<1>4. /\ offers' \in OffersType /\ offers'.status = st /\ offers'.owed = offers.owed
      /\ offers'.epoch = offers.epoch /\ offers'.at = offers.at
  BY <1>1, <1>3 DEF TurnInv, TurnTypes, OffersType
<1>5. ConsentOK' /\ EpochOK'
  BY <1>1, <1>2, <1>3, <1>4, OffersClose
<1>6. marker' \in MarkerType /\ (marker'.phase # "none" => marker'.turn \in Turns) /\ lane.turn \in PendingRemarks
  BY <1>1, <1>2 DEF TurnInv, TurnTypes, LaneOK, Held
<1>7. LaneOK' /\ RemarkOK'
  BY <1>1, <1>2, <1>6, LaneGoes DEF Standing, Early, Held, Said
<1> QED
  BY <1>1, <1>2, <1>4, <1>5, <1>6, <1>7 DEF TurnInv, TurnTypes, Standing

(* A turn that proposes touches no offer that was answered.                *)
LEMMA ProposeKeeps ==
    ASSUME TurnInv, NEW t \in Turns, NEW e \in Nat, Propose(t, e), UNCHANGED <<inbox, arrival, taken>>,
           lane.pc # "start", lane'.ready = lane.ready
    PROVE  offers' \in OffersType /\ ConsentOK' /\ EpochOK'
<1> DEFINE r == Proposed(offers, t, e)
<1>0. offers \in OffersType
  BY DEF TurnInv, TurnTypes
<1>1. /\ r \in OffersType /\ r.epoch = offers.epoch /\ r.owed = offers.owed
      /\ \/ r = offers
         \/ /\ offers.epoch = e /\ offers.status[t] = "none"
            /\ r.status = [offers.status EXCEPT ![t] = "proposed"]
            /\ r.at = [offers.at EXCEPT ![t] = e]
  BY <1>0, ProposedFacts
<1>2. offers' = r
  BY DEF Propose
<1> HIDE DEF r
<1>3. \A u \in Turns : Known(u)' <=> Known(u)
  BY DEF Known
<1>4. CASE r = offers
  <2>1. ConsentOK'
    BY <1>2, <1>3, <1>4 DEF TurnInv, ConsentOK
  <2>2. EpochOK'
    BY <1>2, <1>4 DEF TurnInv, EpochOK
  <2> QED
    BY <1>1, <1>2, <2>1, <2>2
<1>5. CASE r # offers
  <2>1. /\ offers' \in OffersType /\ offers'.epoch = offers.epoch /\ offers'.owed = offers.owed
        /\ offers.epoch = e /\ offers.status[t] = "none"
        /\ offers'.status = [offers.status EXCEPT ![t] = "proposed"]
        /\ offers'.at = [offers.at EXCEPT ![t] = e]
    BY <1>1, <1>2, <1>5
  <2>2. /\ offers'.status[t] = "proposed" /\ offers'.at[t] = e
        /\ \A u \in Turns : u # t => offers'.status[u] = offers.status[u] /\ offers'.at[u] = offers.at[u]
    BY <2>1 DEF TurnInv, TurnTypes, OffersType
  <2>3. ASSUME NEW u \in Turns
        PROVE  /\ taken'[u] = IF Known(u)' THEN 1 ELSE 0
               /\ offers'.status[u] # "accepted" => ~Known(u)' /\ u \notin offers'.owed
               /\ offers'.status[u] = "accepted" /\ u \notin offers'.owed => Known(u)'
    BY <1>3, <2>1, <2>2 DEF TurnInv, ConsentOK
  <2>4. \A u \in Turns : offers.status[u] = "accepted" => offers'.status[u] = "accepted"
    BY <2>1, <2>2
  <2>5. ConsentOK'
    BY <1>3, <2>3, <2>4 DEF TurnInv, ConsentOK
  <2>6. EpochOK'
    BY <2>1, <2>2 DEF TurnInv, EpochOK
  <2> QED
    BY <2>1, <2>5, <2>6
<1> QED
  BY <1>4, <1>5

LEMMA OfferKeeps == ASSUME TurnInv, OfferWork PROVE TurnInv'
<1>1. Standing /\ UNCHANGED <<marker, inbox, arrival, taken, turnBounds>> /\ Propose(lane.turn, lane.epoch)
  BY DEF OfferWork, Standing
<1>2. /\ lane' \in LaneType /\ lane'.last = lane.last /\ lane'.ready = lane.ready /\ lane'.turn = lane.turn
      /\ lane.pc = "offer" /\ lane'.pc \in {"count", "complete"}
  BY DEF OfferWork, Go, TurnInv, TurnTypes, LaneType, LaneSteps, LockedSteps
<1>3. lane.turn \in PendingRemarks /\ lane.turn \in Turns /\ lane.epoch \in Nat
  BY <1>2 DEF TurnInv, TurnTypes, LaneType, LaneOK, Held, PendingRemarks
<1>4. offers' \in OffersType /\ ConsentOK' /\ EpochOK'
  BY <1>1, <1>2, <1>3, ProposeKeeps
<1>5. marker' \in MarkerType /\ (marker'.phase # "none" => marker'.turn \in Turns)
  BY <1>1 DEF TurnInv, TurnTypes, LaneOK
<1>6. LaneOK' /\ RemarkOK'
  BY <1>1, <1>2, <1>3, <1>5, LaneGoes DEF Standing, Early, Held, Said
<1> QED
  BY <1>1, <1>2, <1>4, <1>5, <1>6 DEF TurnInv, TurnTypes, Standing

LEMMA ResumeKeeps == ASSUME TurnInv, ResumeCommit PROVE TurnInv'
<1>1. Standing /\ UNCHANGED <<marker, inbox, arrival, taken, turnBounds>> /\ lane.pc = "restore"
  BY DEF ResumeCommit, Standing
<1>2. marker.turn \in Turns /\ marker.turn \in 0 .. MaxTurns /\ marker.epoch \in Nat
  BY <1>1 DEF TurnInv, TurnTypes, LaneOK, MarkerType
<1>3. PICK pc \in {"clear", "complete", "count"} :
         /\ lane' = [lane EXCEPT !.pc = pc, !.turn = marker.turn, !.epoch = marker.epoch, !.then = "clear"]
         /\ pc \in {"complete", "count"} => delivery[marker.turn] # "none"
         /\ UNCHANGED offers \/ Propose(marker.turn, marker.epoch)
  BY DEF ResumeCommit
<1>4. /\ lane' \in LaneType /\ lane'.last = lane.last /\ lane'.ready = lane.ready /\ lane'.turn = marker.turn
      /\ lane'.pc = pc
  <2> DEFINE half == [lane EXCEPT !.pc = pc, !.turn = marker.turn]
  <2>1. /\ half \in LaneType /\ half.pc = pc /\ half.last = lane.last /\ half.turn = marker.turn
        /\ half.ready = lane.ready
    BY <1>2 DEF TurnInv, TurnTypes, LaneType, LaneSteps, LockedSteps
  <2>2. lane' = [half EXCEPT !.epoch = marker.epoch, !.then = "clear"]
    BY <1>3 DEF TurnInv, TurnTypes, LaneType
  <2> HIDE DEF half
  <2> QED
    BY <1>2, <2>1, <2>2 DEF LaneType
<1>5. pc \in {"complete", "count"} => marker.turn \in PendingRemarks
  BY <1>2, <1>3 DEF PendingRemarks
<1>6. offers' \in OffersType /\ ConsentOK' /\ EpochOK'
  <2>1. CASE Propose(marker.turn, marker.epoch)
    BY <1>1, <1>2, <1>4, <2>1, ProposeKeeps
  <2>2. CASE UNCHANGED offers
    <3>1. ConsentOK' /\ EpochOK'
      BY <1>1, <1>4, <2>2, OffersKept DEF OffersStay
    <3> QED
      BY <2>2, <3>1 DEF TurnInv, TurnTypes
  <2> QED
    BY <1>3, <2>1, <2>2
<1>7. marker' \in MarkerType
  BY <1>1 DEF TurnInv, TurnTypes
<1>8. LaneOK' /\ RemarkOK'
  BY <1>1, <1>2, <1>4, <1>5, <1>7, LaneGoes DEF Standing, Early, Held, Said
<1> QED
  BY <1>1, <1>4, <1>6, <1>7, <1>8 DEF TurnInv, TurnTypes, Standing

LEMMA PrepareRecoveryKeeps == ASSUME TurnInv, PrepareTurnRecovery PROVE TurnInv'
<1>1. /\ Standing /\ UNCHANGED <<inbox, arrival, taken, turnBounds>> /\ lane.pc = "recover"
      /\ offers' = Reconciled(offers, inbox.epoch)
  BY DEF PrepareTurnRecovery, Standing
<1>2. PICK pc \in {"restore", "retry"} :
         /\ lane' = [lane EXCEPT !.pc = pc, !.ready = TRUE]
         /\ \/ UNCHANGED marker /\ marker.phase = "persisting"
            \/ marker' = NoMarker /\ pc = "retry"
  BY DEF PrepareTurnRecovery
<1>3. lane' \in LaneType /\ lane'.last = lane.last /\ lane'.pc = pc
  BY <1>2 DEF TurnInv, TurnTypes, LaneType, LaneSteps
<1>4. marker' \in MarkerType /\ ((marker'.phase # "none" \/ pc \in {"mark", "restore"}) => marker'.turn \in Turns)
  <2>1. CASE UNCHANGED marker /\ marker.phase = "persisting"
    BY <2>1 DEF TurnInv, TurnTypes, LaneOK
  <2>2. CASE marker' = NoMarker /\ pc = "retry"
    BY <2>2, AcceptanceNamed DEF MarkerType, NoMarker, NoTurn
  <2> QED
    BY <1>2, <2>1, <2>2
<1>5. LaneOK' /\ RemarkOK'
  BY <1>1, <1>3, <1>4, LaneGoes DEF Standing, Early, Held, Said
<1>6. /\ offers' \in OffersType /\ EpochOK' /\ offers'.owed = offers.owed
      /\ \A t \in Turns : offers'.status[t] = "accepted" <=> offers.status[t] = "accepted"
  BY <1>1, OffersFollow
<1>7. \A u \in Turns : Known(u)' <=> Known(u)
  BY <1>1 DEF Known
<1>8. ConsentOK'
  BY <1>1, <1>6, <1>7 DEF TurnInv, ConsentOK
<1> QED
  BY <1>1, <1>3, <1>4, <1>5, <1>6, <1>8 DEF TurnInv, TurnTypes, Standing

LEMMA RecoverKeeps == ASSUME TurnInv, RecoverAccepted PROVE TurnInv'
<1>1. /\ Standing /\ UNCHANGED <<marker, inbox, taken, turnBounds>> /\ lane.pc = "start" /\ arrival.step = "none"
  BY DEF RecoverAccepted, Standing
<1>2. CASE Go("recover") /\ UNCHANGED <<offers, arrival>>
  <2>1. lane' \in LaneType /\ lane'.last = lane.last /\ lane'.ready = lane.ready /\ lane'.pc = "recover"
    BY <1>2 DEF Go, TurnInv, TurnTypes, LaneType, LaneSteps
  <2>2. marker' \in MarkerType /\ (marker'.phase # "none" => marker'.turn \in Turns)
    BY <1>1 DEF TurnInv, TurnTypes, LaneOK
  <2>3. LaneOK' /\ RemarkOK'
    BY <1>1, <2>1, <2>2, LaneGoes DEF Standing, Early, Held, Said
  <2>4. ConsentOK' /\ EpochOK'
    BY <1>1, <1>2, <2>1, OffersKept DEF OffersStay
  <2> QED
    BY <1>1, <1>2, <2>1, <2>2, <2>3, <2>4 DEF TurnInv, TurnTypes, Standing
<1>3. CASE \E t \in offers.owed :
             /\ UNCHANGED lane
             /\ IF Responded(t)
                THEN offers' = [offers EXCEPT !.owed = @ \ {t}] /\ UNCHANGED arrival
                ELSE arrival' = [input |-> Acceptance(t), step |-> "enqueue"] /\ UNCHANGED offers
  <2>1. PICK t \in offers.owed :
           /\ UNCHANGED lane
           /\ IF Responded(t)
              THEN offers' = [offers EXCEPT !.owed = @ \ {t}] /\ UNCHANGED arrival
              ELSE arrival' = [input |-> Acceptance(t), step |-> "enqueue"] /\ UNCHANGED offers
    BY <1>3
  <2>2. t \in Turns /\ offers.status[t] = "accepted"
    BY DEF TurnInv, TurnTypes, OffersType, ConsentOK
  <2>3. LaneOK' /\ RemarkOK'
    BY <1>1, <2>1, SpeechKept DEF SpeechStays, Standing
  <2>4. \A u \in Turns : Known(u)' <=> Known(u)
    BY <1>1 DEF Known
  <2>5. CASE Responded(t)
    <3> DEFINE ow == offers.owed \ {t}
    <3>1. offers' = [offers EXCEPT !.owed = ow] /\ UNCHANGED arrival
      BY <2>1, <2>5
    <3>2. ow \in SUBSET Turns /\ \A u : u # t => (u \in ow <=> u \in offers.owed)
      BY DEF TurnInv, TurnTypes, OffersType
    <3>3. ow \subseteq offers.owed /\ Known(t)
      BY <2>5 DEF Responded, Known
    <3> HIDE DEF ow
    <3>4. /\ offers' \in OffersType /\ offers'.status = offers.status /\ offers'.owed = ow
          /\ offers'.epoch = offers.epoch /\ offers'.at = offers.at
      BY <3>1, <3>2 DEF TurnInv, TurnTypes, OffersType
    <3>5. ASSUME NEW u \in Turns
          PROVE  /\ taken'[u] = IF Known(u)' THEN 1 ELSE 0
                 /\ offers'.status[u] # "accepted" => ~Known(u)' /\ u \notin offers'.owed
                 /\ offers'.status[u] = "accepted" /\ u \notin offers'.owed => Known(u)'
      BY <1>1, <2>4, <3>2, <3>3, <3>4 DEF TurnInv, ConsentOK
    <3>6. ConsentOK'
      BY <1>1, <3>1, <3>5 DEF ConsentOK
    <3>7. EpochOK'
      BY <1>1, <2>1, <3>1, <3>4 DEF TurnInv, EpochOK
    <3> QED
      BY <1>1, <2>1, <2>3, <3>1, <3>4, <3>6, <3>7 DEF TurnInv, TurnTypes, Standing
  <2>6. CASE ~Responded(t)
    <3>1. /\ arrival' \in ArrivalType /\ arrival'.input = Acceptance(t) /\ arrival'.step = "enqueue"
          /\ UNCHANGED offers
      BY <2>1, <2>2, <2>6, AcceptanceNamed DEF ArrivalType
    <3>2. Acceptance(t) \notin inbox.answered
      BY <2>6 DEF Responded
    <3>3. ConsentOK'
      BY <1>1, <2>1, <2>2, <2>4, <3>1, <3>2 DEF TurnInv, ConsentOK
    <3>4. EpochOK'
      BY <1>1, <2>1, <3>1 DEF TurnInv, EpochOK
    <3> QED
      BY <1>1, <2>1, <2>3, <3>1, <3>3, <3>4 DEF TurnInv, TurnTypes, Standing
  <2> QED
    BY <2>5, <2>6
<1> QED
  BY <1>2, <1>3 DEF RecoverAccepted

----------------------------------------------------------------------------
(* A turn, its remark and what is known of them.                           *)

LEMMA BeginTurnKeeps ==
    ASSUME TurnInv, NEW obs \in SUBSET Observations, NEW emit \in BOOLEAN, NEW offer \in BOOLEAN,
           BeginProactive(obs, emit, offer)
    PROVE  TurnInv'
<1> DEFINE t == lane.last + 1
<1>1. /\ lane.pc = "idle" /\ t \in Turns /\ PendingRemarks = {} /\ obs \subseteq Observations \ done
      /\ candidate' = [candidate EXCEPT ![t] = [obs |-> obs, emit |-> emit, offer |-> offer]]
      /\ lane' = [lane EXCEPT !.pc = "call", !.turn = t, !.last = t, !.epoch = inbox.epoch, !.then = "final"]
      /\ UNCHANGED <<inbox, marker, delivery, done, spoken, sent, usage, offers, arrival, turnBounds, counted, taken>>
  BY DEF BeginProactive, Unseen
<1>2. t \in Nat /\ t \in 0 .. MaxTurns /\ lane.last \in Nat /\ t > lane.last
  <2>1. lane.last \in 0 .. MaxTurns
    BY DEF TurnInv, TurnTypes, LaneType
  <2> QED
    BY <1>1, <2>1, TurnAssumption DEF Turns
<1> HIDE DEF t
<1>3. inbox.epoch \in Nat /\ lane \in LaneType
  BY DEF TurnInv, TurnTypes, InboxType
<1>4. lane' \in LaneType /\ lane'.pc = "call" /\ lane'.turn = t /\ lane'.last = t /\ lane'.ready = lane.ready
  <2> DEFINE half == [lane EXCEPT !.pc = "call", !.turn = t]
             most == [half EXCEPT !.last = t, !.epoch = inbox.epoch]
  <2>1. half \in LaneType /\ half.pc = "call" /\ half.turn = t /\ half.ready = lane.ready
    BY <1>2, <1>3 DEF LaneType, LaneSteps
  <2>2. lane' = [most EXCEPT !.then = "final"]
    BY <1>1, <1>3 DEF LaneType
  <2> HIDE DEF half
  <2>3. most \in LaneType /\ most.pc = "call" /\ most.turn = t /\ most.last = t /\ most.ready = lane.ready
    BY <1>2, <1>3, <2>1 DEF LaneType
  <2> HIDE DEF most
  <2> QED
    BY <2>2, <2>3 DEF LaneType
<1>5. /\ candidate' \in [Turns -> CandidateType] /\ candidate'[t].obs = obs
      /\ \A u \in Turns : u # t => candidate'[u] = candidate[u]
  BY <1>1 DEF TurnInv, TurnTypes, CandidateType
<1>6. PendingRemarks' = {} /\ t \notin counted \cup sent /\ spoken \cup sent \subseteq counted
  BY <1>1, <1>2 DEF PendingRemarks, TurnInv, RemarkOK, SpokenOnceAndCounted
<1>7. \A u \in sent : candidate[u].obs \subseteq done /\ u # t /\ u \in Turns
  BY <1>1, <1>6 DEF TurnInv, TurnTypes, RemarkOK
<1>8. \A u \in sent : candidate'[t].obs \cap candidate'[u].obs = {}
  BY <1>1, <1>5, <1>7
<1>9. LaneOK'
  <2>1. marker'.phase # "none" => marker'.turn \in Turns
    BY <1>1 DEF TurnInv, LaneOK
  <2>2. t <= t
    BY <1>2
  <2> QED
    BY <1>1, <1>4, <1>6, <1>8, <2>1, <2>2 DEF LaneOK, Early, Held, Said, Apart
<1>10. SpokenOnceAndCounted'
  <2>1. \A v, u \in sent : v # u => candidate'[v].obs \cap candidate'[u].obs = {}
    BY <1>5, <1>7 DEF TurnInv, RemarkOK, SpokenOnceAndCounted
  <2> QED
    BY <1>1, <1>6, <2>1 DEF TurnInv, RemarkOK, SpokenOnceAndCounted
<1>11. \A v \in Turns : v \in PendingRemarks' \cup counted' \cup sent' => v <= lane'.last
  <2>1. \A v \in Turns : v \in counted \cup sent => v <= lane.last
    BY DEF TurnInv, RemarkOK
  <2> QED
    BY <1>1, <1>2, <1>4, <1>6, <2>1 DEF Turns
<1>12. RemarkOK'
  BY <1>1, <1>5, <1>6, <1>7, <1>10, <1>11 DEF TurnInv, RemarkOK
<1>13. ConsentOK' /\ EpochOK'
  BY <1>1, <1>4, OffersKept DEF OffersStay
<1> QED
  BY <1>1, <1>4, <1>5, <1>9, <1>12, <1>13 DEF TurnInv, TurnTypes

LEMMA OnwardKeeps == ASSUME TurnInv, CompleteQuietly \/ MarkEnqueued \/ StartUp PROVE TurnInv'
<1>1. OffersStay /\ UNCHANGED <<marker, spoken, sent, usage, candidate, counted, turnBounds>>
  BY DEF CompleteQuietly, MarkEnqueued, StartUp, OffersStay
<1>2. /\ lane' \in LaneType /\ lane'.last = lane.last /\ lane'.ready = lane.ready /\ lane'.turn = lane.turn
      /\ lane.pc # "start" /\ lane'.pc \in {"final", "complete", "start"} /\ (lane'.pc = "complete" => lane.pc = "marked")
  BY DEF CompleteQuietly, MarkEnqueued, StartUp, Go, TurnInv, TurnTypes, LaneType, LaneSteps, LockedSteps
<1>3. done \subseteq done'
  BY DEF CompleteQuietly, MarkEnqueued, StartUp
<1>4. delivery' \in [Turns -> {"none", "pending", "enqueued"}] /\ PendingRemarks' = PendingRemarks
  <2>0. delivery \in [Turns -> {"none", "pending", "enqueued"}]
    BY DEF TurnInv, TurnTypes
  <2>1. CASE CompleteQuietly
    BY <2>0, <2>1 DEF CompleteQuietly, PendingRemarks
  <2>2. CASE MarkEnqueued
    <3>1. lane.turn \in PendingRemarks /\ lane.turn \in Turns /\ delivery[lane.turn] # "none"
      BY <2>2 DEF MarkEnqueued, TurnInv, LaneOK, Held, PendingRemarks
    <3>2. delivery' = [delivery EXCEPT ![lane.turn] = "enqueued"]
      BY <2>2 DEF MarkEnqueued
    <3> QED
      BY <2>0, <3>1, <3>2 DEF PendingRemarks
  <2>3. CASE StartUp
    BY <2>0, <2>3 DEF StartUp, PendingRemarks
  <2> QED
    BY <2>1, <2>2, <2>3
<1>5. lane'.pc \in Held => lane'.turn \in PendingRemarks
  BY <1>2 DEF TurnInv, LaneOK, Held
<1>6. marker' \in MarkerType /\ (marker'.phase # "none" => marker'.turn \in Turns)
  BY <1>1 DEF TurnInv, TurnTypes, LaneOK
<1>7. LaneOK' /\ RemarkOK'
  BY <1>1, <1>2, <1>3, <1>4, <1>5, <1>6, LaneMoves DEF Early, Said
<1>8. ConsentOK' /\ EpochOK'
  BY <1>1, <1>2, OffersKept
<1> QED
  BY <1>1, <1>2, <1>4, <1>6, <1>7, <1>8 DEF TurnInv, TurnTypes, OffersStay

(* What is prepared is what nobody was told.                               *)
LEMMA PrepareKeeps == ASSUME TurnInv, PrepareRemark PROVE TurnInv'
<1>1. /\ OffersStay /\ UNCHANGED <<marker, done, spoken, sent, usage, candidate, counted, turnBounds>>
      /\ delivery' = [delivery EXCEPT ![lane.turn] = "pending"]
  BY DEF PrepareRemark, OffersStay
<1>2. /\ lane' \in LaneType /\ lane'.last = lane.last /\ lane'.ready = lane.ready /\ lane'.turn = lane.turn
      /\ lane.pc = "prepare" /\ lane'.pc \in {"offer", "count"}
  BY DEF PrepareRemark, Go, TurnInv, TurnTypes, LaneType, LaneSteps, LockedSteps
<1>3. /\ lane.turn \in Turns /\ lane.turn \notin counted \cup sent /\ PendingRemarks = {}
      /\ lane.turn <= lane.last /\ \A u \in sent : Apart(lane.turn, u)
  BY <1>2 DEF TurnInv, LaneOK, Early
<1>4. delivery' \in [Turns -> {"none", "pending", "enqueued"}] /\ PendingRemarks' = {lane.turn}
  BY <1>1, <1>3 DEF TurnInv, TurnTypes, PendingRemarks
<1>5. \A t, u \in Turns : Apart(t, u)' <=> Apart(t, u)
  BY <1>1 DEF Apart
<1>6. LaneOK'
  BY <1>1, <1>2, <1>4 DEF TurnInv, LaneOK, Early, Held, Said
<1>7. SpokenOnceAndCounted'
  BY <1>1 DEF TurnInv, RemarkOK, SpokenOnceAndCounted
<1>8. \A t \in Turns : t \in PendingRemarks' \cup counted' \cup sent' => t <= lane'.last
  BY <1>1, <1>2, <1>3, <1>4 DEF TurnInv, RemarkOK
<1>9. sent \subseteq Turns
  BY DEF TurnInv, TurnTypes
<1>10. RemarkOK'
  BY <1>1, <1>3, <1>4, <1>5, <1>7, <1>8, <1>9 DEF TurnInv, RemarkOK
<1>11. ConsentOK' /\ EpochOK'
  BY <1>1, <1>2, OffersKept
<1> QED
  BY <1>1, <1>2, <1>4, <1>6, <1>10, <1>11 DEF TurnInv, TurnTypes, OffersStay

LEMMA CountKeeps == ASSUME TurnInv, CountRemark PROVE TurnInv'
<1> DEFINE t == lane.turn
<1>1. /\ OffersStay /\ UNCHANGED <<marker, delivery, done, spoken, sent, candidate, turnBounds>>
  BY DEF CountRemark, OffersStay
<1>2. /\ lane' \in LaneType /\ lane'.last = lane.last /\ lane'.ready = lane.ready /\ lane'.turn = lane.turn
      /\ lane.pc = "count" /\ lane'.pc \in {"append", "void", "complete"}
  BY DEF CountRemark, Go, TurnInv, TurnTypes, LaneType, LaneSteps, LockedSteps
<1>3. t \in PendingRemarks /\ t \in Turns
  BY <1>2 DEF TurnInv, LaneOK, Held, PendingRemarks
<1>4. marker' \in MarkerType /\ (marker'.phase # "none" => marker'.turn \in Turns)
  BY <1>1 DEF TurnInv, TurnTypes, LaneOK
<1>5. ConsentOK' /\ EpochOK'
  BY <1>1, <1>2, OffersKept
<1>6. CASE UNCHANGED <<usage, counted>> /\ (lane'.pc = "append" => t \in usage.ids)
  <2>1. lane'.pc \in Said => t \in counted
    BY <1>2, <1>6 DEF TurnInv, RemarkOK, Said
  <2>2. LaneOK' /\ RemarkOK'
    BY <1>1, <1>2, <1>3, <1>4, <1>6, <2>1, LaneGoes DEF Early
  <2> QED
    BY <1>1, <1>2, <1>4, <1>5, <1>6, <2>2 DEF TurnInv, TurnTypes, OffersStay
<1>7. CASE t \notin usage.ids /\ usage' = Counted(t) /\ counted' = counted \cup {t}
  <2>1. t \notin counted
    BY <1>3, <1>7 DEF TurnInv, RemarkOK
  <2>2. usage' \in UsageType /\ usage'.calls = usage.calls + 1 /\ usage'.ids = usage.ids \cup {t}
    <3> DEFINE calls == usage.calls + 1
               ids == usage.ids \cup {t}
    <3>1. usage \in UsageType /\ calls \in Nat /\ ids \in SUBSET Turns
      BY <1>3 DEF TurnInv, TurnTypes, UsageType
    <3>2. usage' = [usage EXCEPT !.calls = calls, !.ids = ids]
      BY <1>7 DEF Counted
    <3> HIDE DEF calls, ids
    <3>3. usage' \in UsageType /\ usage'.calls = calls /\ usage'.ids = ids
      BY <3>1, <3>2 DEF UsageType
    <3> QED
      BY <3>3 DEF calls, ids
  <2>3. IsFiniteSet(counted)
    <3>1. IsFiniteSet(Turns)
      BY TurnAssumption, FS_Interval DEF Turns
    <3> QED
      BY <3>1, FS_Subset DEF TurnInv, TurnTypes
  <2>4. Cardinality(counted \cup {t}) = Cardinality(counted) + 1
    BY <2>1, <2>3, FS_AddElement
  <2>5. SpokenOnceAndCounted'
    BY <1>1, <1>7, <2>2, <2>4 DEF TurnInv, RemarkOK, SpokenOnceAndCounted
  <2>6. PendingRemarks' = PendingRemarks
    BY <1>1 DEF PendingRemarks
  <2>7. \A v, u \in Turns : Apart(v, u)' <=> Apart(v, u)
    BY <1>1 DEF Apart
  <2>8. LaneOK'
    BY <1>1, <1>2, <1>3, <1>4, <1>7, <2>6 DEF LaneOK, Early, Held, Said
  <2>9. \A v \in Turns : v \in PendingRemarks' \cup counted' \cup sent' => v <= lane'.last
    BY <1>1, <1>2, <1>3, <1>7, <2>6 DEF TurnInv, RemarkOK
  <2>10. sent \subseteq Turns /\ PendingRemarks \subseteq Turns
    BY DEF TurnInv, TurnTypes, PendingRemarks
  <2>11. RemarkOK'
    BY <1>1, <1>7, <2>2, <2>5, <2>6, <2>7, <2>9, <2>10 DEF TurnInv, RemarkOK
  <2> QED
    BY <1>1, <1>2, <1>3, <1>4, <1>5, <1>7, <2>2, <2>8, <2>11 DEF TurnInv, TurnTypes, OffersStay
<1>8. \/ UNCHANGED <<usage, counted>> /\ (lane'.pc = "append" => t \in usage.ids)
      \/ t \notin usage.ids /\ usage' = Counted(t) /\ counted' = counted \cup {t}
  BY DEF CountRemark, Go, TurnInv, TurnTypes, LaneType
<1> QED
  BY <1>6, <1>7, <1>8

LEMMA AppendKeeps == ASSUME TurnInv, AppendRemark PROVE TurnInv'
<1>1. /\ OffersStay /\ UNCHANGED <<marker, delivery, done, sent, usage, candidate, counted, turnBounds>>
      /\ spoken' = spoken \cup {lane.turn}
  BY DEF AppendRemark, OffersStay
<1>2. /\ lane' \in LaneType /\ lane'.last = lane.last /\ lane'.ready = lane.ready /\ lane'.turn = lane.turn
      /\ lane.pc = "append" /\ lane'.pc \in {"publish", "complete"}
  BY DEF AppendRemark, Go, TurnInv, TurnTypes, LaneType, LaneSteps, LockedSteps
<1>3. lane.turn \in PendingRemarks /\ lane.turn \in Turns /\ lane.turn \in counted
  BY <1>2 DEF TurnInv, LaneOK, Held, Said, PendingRemarks
<1>4. PendingRemarks' = PendingRemarks /\ PendingRemarks \subseteq Turns /\ sent \subseteq Turns
  BY <1>1 DEF PendingRemarks, TurnInv, TurnTypes
<1>5. \A t, u \in Turns : Apart(t, u)' <=> Apart(t, u)
  BY <1>1 DEF Apart
<1>6. LaneOK'
  BY <1>1, <1>2, <1>3, <1>4 DEF TurnInv, LaneOK, Early, Held, Said
<1>7. SpokenOnceAndCounted'
  BY <1>1, <1>3 DEF TurnInv, RemarkOK, SpokenOnceAndCounted
<1>8. RemarkOK'
  BY <1>1, <1>2, <1>4, <1>5, <1>7 DEF TurnInv, RemarkOK
<1>9. ConsentOK' /\ EpochOK'
  BY <1>1, <1>2, OffersKept
<1> QED
  BY <1>1, <1>2, <1>3, <1>6, <1>8, <1>9 DEF TurnInv, TurnTypes, OffersStay

(* What is published was pending, and nobody was told of it by another.    *)
LEMMA PublishKeeps == ASSUME TurnInv, PublishRemark PROVE TurnInv'
<1>1. /\ OffersStay /\ UNCHANGED <<marker, delivery, done, spoken, usage, candidate, counted>>
      /\ turnBounds' \in TurnBoundsType /\ lane.pc = "publish"
  <2>1. UNCHANGED turnBounds \/ turnBounds' = [turnBounds EXCEPT !.faults = turnBounds.faults + 1]
    BY DEF PublishRemark, TurnFault
  <2>2. turnBounds' \in TurnBoundsType
    BY <2>1 DEF TurnInv, TurnTypes, TurnBoundsType
  <2> QED
    BY <2>2 DEF PublishRemark, OffersStay
<1>2. lane.turn \in PendingRemarks /\ lane.turn \in Turns /\ lane.turn \in counted
  BY <1>1 DEF TurnInv, LaneOK, Held, Said, PendingRemarks
<1>3. PendingRemarks' = PendingRemarks /\ PendingRemarks \subseteq Turns /\ sent \subseteq Turns
  BY <1>1 DEF PendingRemarks, TurnInv, TurnTypes
<1>4. marker' \in MarkerType /\ (marker'.phase # "none" => marker'.turn \in Turns)
  BY <1>1 DEF TurnInv, TurnTypes, LaneOK
<1>5. CASE sent' = sent \cup {lane.turn} /\ Go("marked")
  <2>1. /\ lane' \in LaneType /\ lane'.last = lane.last /\ lane'.ready = lane.ready /\ lane'.turn = lane.turn
        /\ lane'.pc = "marked"
    BY <1>5 DEF Go, TurnInv, TurnTypes, LaneType, LaneSteps, LockedSteps
  <2>2. LaneOK'
    BY <1>1, <1>2, <1>3, <1>4, <2>1 DEF LaneOK, Early, Held, Said
  <2>3. \A u \in sent : u # lane.turn => Apart(lane.turn, u)
    BY <1>2 DEF TurnInv, RemarkOK
  <2>4. SpokenOnceAndCounted'
    <3>1. \A t, u \in sent' : t # u => candidate'[t].obs \cap candidate'[u].obs = {}
      BY <1>1, <1>5, <2>3 DEF Apart, TurnInv, RemarkOK, SpokenOnceAndCounted
    <3> QED
      BY <1>1, <1>2, <1>5, <3>1 DEF TurnInv, RemarkOK, SpokenOnceAndCounted
  <2>5. \A t, u \in Turns : Apart(t, u)' <=> Apart(t, u)
    BY <1>1 DEF Apart
  <2>6. \A t \in PendingRemarks : t = lane.turn
    BY <1>2 DEF TurnInv, RemarkOK
  <2>7. \A t \in Turns : t \in PendingRemarks' \cup counted' \cup sent' => t <= lane'.last
    BY <1>1, <1>2, <1>3, <1>5, <2>1 DEF TurnInv, RemarkOK
  <2>8. \A t \in PendingRemarks', u \in sent' : t # u => Apart(t, u)'
    BY <1>2, <1>3, <1>5, <2>3, <2>5, <2>6
  <2>9. \A u \in sent' : u \in PendingRemarks' \/ candidate'[u].obs \subseteq done'
    BY <1>1, <1>2, <1>3, <1>5 DEF TurnInv, RemarkOK
  <2>10. RemarkOK'
    BY <1>1, <1>3, <2>4, <2>6, <2>7, <2>8, <2>9 DEF TurnInv, RemarkOK
  <2>11. ConsentOK' /\ EpochOK'
    BY <1>1, <2>1, OffersKept
  <2> QED
    BY <1>1, <1>2, <1>4, <1>5, <2>1, <2>2, <2>10, <2>11 DEF TurnInv, TurnTypes, OffersStay
<1>6. CASE /\ lane' = [lane EXCEPT !.blocked = TRUE, !.pc = IF lane.then = "retry" THEN "idle" ELSE lane.then]
           /\ UNCHANGED sent
  <2>1. /\ lane' \in LaneType /\ lane'.last = lane.last /\ lane'.ready = lane.ready
        /\ lane'.pc \in {"idle", "final", "clear"}
    BY <1>6 DEF TurnInv, TurnTypes, LaneType, LaneSteps, LockedSteps
  <2>2. LaneOK' /\ RemarkOK'
    BY <1>1, <1>4, <1>6, <2>1, LaneGoes DEF Early, Held, Said
  <2>3. ConsentOK' /\ EpochOK'
    BY <1>1, <2>1, OffersKept
  <2> QED
    BY <1>1, <1>4, <1>6, <2>1, <2>2, <2>3 DEF TurnInv, TurnTypes, OffersStay
<1> QED
  BY <1>5, <1>6 DEF PublishRemark

LEMMA CompleteKeeps == ASSUME TurnInv, CompleteRemark PROVE TurnInv'
<1>1. /\ OffersStay /\ UNCHANGED <<marker, spoken, sent, usage, candidate, counted, turnBounds>>
      /\ delivery' = [delivery EXCEPT ![lane.turn] = "none"] /\ done' = done \cup candidate[lane.turn].obs
  BY DEF CompleteRemark, OffersStay
<1>2. /\ lane' \in LaneType /\ lane'.last = lane.last /\ lane'.ready = lane.ready /\ lane'.turn = lane.turn
      /\ lane.pc = "complete" /\ lane'.pc = "forget"
  BY DEF CompleteRemark, Go, TurnInv, TurnTypes, LaneType, LaneSteps, LockedSteps
<1>3. lane.turn \in PendingRemarks /\ lane.turn \in Turns
  BY <1>2 DEF TurnInv, LaneOK, Held, PendingRemarks
<1>4. \A t \in PendingRemarks : t = lane.turn
  BY <1>3 DEF TurnInv, RemarkOK
<1>5. delivery' \in [Turns -> {"none", "pending", "enqueued"}] /\ PendingRemarks' = {}
  <2>1. \A t \in Turns : delivery'[t] = "none"
    BY <1>1, <1>3, <1>4 DEF TurnInv, TurnTypes, PendingRemarks
  <2> QED
    BY <1>1, <1>3, <2>1 DEF TurnInv, TurnTypes, PendingRemarks
<1>6. LaneOK'
  <2>1. marker'.phase # "none" => marker'.turn \in Turns
    BY <1>1 DEF TurnInv, LaneOK
  <2> QED
    BY <1>2, <1>3, <1>5, <2>1 DEF LaneOK, Early, Held, Said
<1>7. SpokenOnceAndCounted'
  BY <1>1 DEF TurnInv, RemarkOK, SpokenOnceAndCounted
<1>8. \A u \in sent' : candidate'[u].obs \subseteq done'
  BY <1>1, <1>4 DEF TurnInv, RemarkOK
<1>9. RemarkOK'
  BY <1>1, <1>2, <1>5, <1>7, <1>8 DEF TurnInv, RemarkOK
<1>10. ConsentOK' /\ EpochOK'
  BY <1>1, <1>2, OffersKept
<1> QED
  BY <1>1, <1>2, <1>5, <1>6, <1>9, <1>10 DEF TurnInv, TurnTypes, OffersStay

LEMMA ForgetKeeps == ASSUME TurnInv, ForgetEmit PROVE TurnInv'
<1>1. /\ OffersStay /\ UNCHANGED <<marker, delivery, done, spoken, sent, candidate, counted, turnBounds>>
      /\ usage' = [usage EXCEPT !.ids = usage.ids \ {lane.turn}]
  BY DEF ForgetEmit, OffersStay
<1>2. /\ lane' \in LaneType /\ lane'.last = lane.last /\ lane'.ready = lane.ready
      /\ lane.pc = "forget" /\ lane'.pc \in {"final", "clear", "retry"}
  BY DEF ForgetEmit, Go, TurnInv, TurnTypes, LaneType, LaneSteps, LockedSteps
<1>3. lane.turn \notin PendingRemarks
  BY <1>2 DEF TurnInv, LaneOK
<1>4. usage' \in UsageType /\ usage'.calls = usage.calls /\ usage'.ids = usage.ids \ {lane.turn}
  BY <1>1 DEF TurnInv, TurnTypes, UsageType
<1>5. PendingRemarks' = PendingRemarks /\ PendingRemarks \subseteq Turns /\ sent \subseteq Turns
  BY <1>1 DEF PendingRemarks, TurnInv, TurnTypes
<1>6. \A t, u \in Turns : Apart(t, u)' <=> Apart(t, u)
  BY <1>1 DEF Apart
<1>7. LaneOK'
  <2>1. marker'.phase # "none" => marker'.turn \in Turns
    BY <1>1 DEF TurnInv, LaneOK
  <2> QED
    BY <1>2, <2>1 DEF LaneOK, Early, Held, Said
<1>8. SpokenOnceAndCounted'
  BY <1>1, <1>4 DEF TurnInv, RemarkOK, SpokenOnceAndCounted
<1>9. RemarkOK'
  BY <1>1, <1>2, <1>3, <1>4, <1>5, <1>6, <1>8 DEF TurnInv, RemarkOK
<1>10. ConsentOK' /\ EpochOK'
  BY <1>1, <1>2, OffersKept
<1> QED
  BY <1>1, <1>2, <1>4, <1>7, <1>9, <1>10 DEF TurnInv, TurnTypes, OffersStay

----------------------------------------------------------------------------
(* The specification.                                                      *)

LEMMA TurnInitHolds == ASSUME TurnInit PROVE TurnInv
<1>1. /\ inbox.epoch = 0 /\ inbox.users = {} /\ inbox.answered = {} /\ inbox.cancelled = {} /\ inbox \in InboxType
      /\ marker \in MarkerType /\ marker.phase = "none" /\ PendingRemarks = {}
      /\ delivery \in [Turns -> {"none", "pending", "enqueued"}]
  BY AcceptanceNamed DEF TurnInit, InboxType, MarkerType, NoTurn, PendingRemarks
<1>2. /\ offers \in OffersType /\ offers.epoch = 0 /\ offers.owed = {} /\ \A t \in Turns : offers.status[t] = "none"
  BY DEF TurnInit, OffersType, OfferStatuses
<1>3. /\ lane \in LaneType /\ lane.pc = "idle" /\ candidate \in [Turns -> CandidateType]
      /\ usage \in UsageType /\ usage.calls = 0 /\ usage.ids = {}
  <2>1. lane \in LaneType /\ lane.pc = "idle"
    BY AcceptanceNamed DEF TurnInit, LaneType, LaneSteps, NoTurn
  <2>2. candidate \in [Turns -> CandidateType]
    BY DEF TurnInit, CandidateType
  <2>3. usage \in UsageType /\ usage.calls = 0 /\ usage.ids = {}
    BY TurnAssumption DEF TurnInit, UsageType
  <2> QED
    BY <2>1, <2>2, <2>3
<1>4. /\ arrival \in ArrivalType /\ arrival.step = "none" /\ taken \in [Turns -> Nat] /\ \A t \in Turns : taken[t] = 0
      /\ turnBounds \in TurnBoundsType /\ done = {} /\ spoken = {} /\ sent = {} /\ counted = {}
  BY DEF TurnInit, ArrivalType, TurnBoundsType
<1>5. TurnTypes
  BY <1>1, <1>2, <1>3, <1>4 DEF TurnTypes
<1>6. LaneOK
  BY <1>1, <1>3 DEF LaneOK, Early, Held, Said
<1>7. RemarkOK
  BY <1>1, <1>3, <1>4, FS_EmptySet DEF RemarkOK, SpokenOnceAndCounted
<1>8. ConsentOK
  BY <1>1, <1>2, <1>4 DEF ConsentOK, Known
<1>9. EpochOK
  BY <1>1, <1>2 DEF EpochOK
<1> QED
  BY <1>5, <1>6, <1>7, <1>8, <1>9 DEF TurnInv

LEMMA TurnStep == ASSUME TurnInv, [TurnNext]_turnVars PROVE TurnInv'
<1>1. CASE \/ ReserveTurn \/ MarkTurn \/ CompleteQuietly \/ PrepareRemark \/ OfferWork \/ CountRemark
           \/ VoidOffer \/ AppendRemark \/ PublishRemark \/ MarkEnqueued
  BY <1>1, ReserveKeeps, OnwardKeeps, PrepareKeeps, OfferKeeps, CountKeeps, VoidKeeps, AppendKeeps, PublishKeeps
<1>2. CASE \/ CompleteRemark \/ ForgetEmit \/ FinalizeTurn \/ RecoverAccepted \/ BeginRecovery
           \/ PrepareTurnRecovery \/ ResumeCommit \/ ClearMarker \/ RetryRemark \/ StartUp
  BY <1>2, CompleteKeeps, ForgetKeeps, RestKeeps, RecoverKeeps, PrepareRecoveryKeeps, ResumeKeeps, OnwardKeeps
<1>3. CASE ArrivalStep
  BY <1>3, EnqueueKeeps, ReconcileKeeps, SettleKeeps DEF ArrivalStep
<1>4. CASE \E obs \in SUBSET Observations, emit \in BOOLEAN, offer \in BOOLEAN : BeginProactive(obs, emit, offer)
  BY <1>4, BeginTurnKeeps
<1>5. CASE \E t \in Turns : AcceptOffer(t) \/ DeclineOffer(t)
  BY <1>5, AcceptKeeps, DeclineKeeps
<1>6. CASE \E i \in Inputs : AnswerUser(i) \/ CancelUser(i)
  BY <1>6, TakenKeeps
<1>7. CASE UserSpeaks \/ LowerLimit \/ WriteError \/ TurnCrash \/ UNCHANGED turnVars
  BY <1>7, UserSpeaksKeeps, LowerKeeps, FaultKeeps, CrashKeeps
<1> QED
  BY <1>1, <1>2, <1>3, <1>4, <1>5, <1>6, <1>7 DEF TurnNext, LaneStep

LEMMA TurnInvariant == TurnSpec => []TurnInv
<1>1. TurnInit => TurnInv
  BY TurnInitHolds
<1>2. TurnInv /\ [TurnNext]_turnVars => TurnInv'
  BY TurnStep
<1> QED
  BY <1>1, <1>2, PTL DEF TurnSpec

(* An observation is spoken of at most once, whatever was retried or       *)
(* recovered, and a remark the user can see has been counted, once.        *)
THEOREM SpokenOnce == TurnSpec => []SpokenOnceAndCounted
<1>1. TurnInv => SpokenOnceAndCounted
  BY DEF TurnInv, RemarkOK
<1> QED
  BY <1>1, TurnInvariant, PTL

(* The user's consent to an offer queues its work exactly once, whatever   *)
(* crashes come between the consent and the queue.                         *)
THEOREM ConsentCountsOnce == TurnSpec => []AcceptedQueuedOnce
<1>1. TurnInv => AcceptedQueuedOnce
  BY DEF TurnInv, ConsentOK, AcceptedQueuedOnce
<1> QED
  BY <1>1, TurnInvariant, PTL

----------------------------------------------------------------------------
(* The bounds of the counters.  The epoch counts what was put in the queue: *)
(* the messages, each of them once, and the offers accepted and queued; so  *)
(* it stays below what the user can say and accept.                         *)

QueuedOffers == {t \in Turns : taken[t] # 0}

CountsOK ==
    /\ inbox.epoch = turnBounds.messages + Cardinality(QueuedOffers)
    /\ turnBounds.messages <= MaxMessages
    /\ marker.epoch <= inbox.epoch /\ lane.epoch <= inbox.epoch
    /\ done \subseteq Observations
    /\ usage.limit \in {1, MaxTurns}

LEMMA TurnsFinite == IsFiniteSet(Turns) /\ Cardinality(Turns) = MaxTurns
BY TurnAssumption, FS_Interval DEF Turns

LEMMA QueuedOffersBounded ==
    IsFiniteSet(QueuedOffers) /\ Cardinality(QueuedOffers) \in Nat /\ Cardinality(QueuedOffers) <= MaxTurns
<1>1. QueuedOffers \in SUBSET Turns
  BY DEF QueuedOffers
<1>2. IsFiniteSet(QueuedOffers) /\ Cardinality(QueuedOffers) <= Cardinality(Turns)
  BY <1>1, TurnsFinite, FS_Subset
<1> QED
  BY <1>2, TurnsFinite, FS_CardinalityType

(* Nothing is queued, and the epochs kept are copied from one another.     *)
LEMMA NothingQueued ==
    ASSUME TurnInv, CountsOK, inbox'.epoch = inbox.epoch, turnBounds'.messages = turnBounds.messages,
           UNCHANGED taken, usage'.limit \in {1, MaxTurns}, done' \subseteq Observations,
           marker'.epoch \in {0, marker.epoch, lane.epoch},
           lane'.epoch \in {lane.epoch, inbox.epoch, marker.epoch}
    PROVE  CountsOK'
<1>1. QueuedOffers' = QueuedOffers
  BY DEF QueuedOffers
<1>2. inbox.epoch \in Nat
  BY DEF TurnInv, TurnTypes, InboxType
<1> QED
  BY <1>1, <1>2 DEF CountsOK

LEMMA UserSpeaksCounts == ASSUME TurnInv, CountsOK, UserSpeaks PROVE CountsOK'
<1> DEFINE m == turnBounds.messages + 1
<1>1. /\ m <= MaxMessages /\ inbox' = Queued(m) /\ turnBounds' = [turnBounds EXCEPT !.messages = m]
      /\ UNCHANGED <<marker, done, usage, lane, taken>>
  BY DEF UserSpeaks
<1>2. turnBounds.messages \in Nat /\ turnBounds'.messages = m
  BY <1>1 DEF TurnInv, TurnTypes, TurnBoundsType
<1>3. m \in Inputs
  BY <1>1, <1>2, TurnAssumption DEF Inputs, Messages
<1>4. inbox'.epoch = inbox.epoch + 1 /\ inbox.epoch \in Nat
  BY <1>1, <1>3, QueuedFacts DEF TurnInv, TurnTypes, InboxType
<1>5. QueuedOffers' = QueuedOffers
  BY <1>1 DEF QueuedOffers
<1>6. Cardinality(QueuedOffers) \in Nat /\ marker.epoch \in Nat /\ lane.epoch \in Nat
  BY QueuedOffersBounded DEF TurnInv, TurnTypes, MarkerType, LaneType
<1> QED
  BY <1>1, <1>2, <1>4, <1>5, <1>6 DEF CountsOK

LEMMA EnqueueCounts == ASSUME TurnInv, CountsOK, EnqueueAccepted PROVE CountsOK'
<1>1. arrival.step = "enqueue" /\ UNCHANGED <<marker, done, usage, lane, turnBounds>>
  BY DEF EnqueueAccepted
<1>2. PICK t \in Turns : /\ arrival.input = Acceptance(t) /\ offers.status[t] = "accepted"
                         /\ arrival.input \notin inbox.answered
  BY <1>1 DEF TurnInv, ConsentOK
<1>3. CASE arrival.input \in inbox.users
  BY <1>1, <1>3, NothingQueued DEF EnqueueAccepted, CountsOK
<1>4. CASE arrival.input \notin inbox.users
  <2>1. /\ inbox' = Queued(Acceptance(t)) /\ taken' = [taken EXCEPT ![t] = taken[t] + 1]
        /\ arrival.input \notin inbox.cancelled
    BY <1>2, <1>4, AcceptanceNamed DEF EnqueueAccepted
  <2>2. inbox'.epoch = inbox.epoch + 1 /\ inbox.epoch \in Nat
    BY <2>1, AcceptanceNamed, QueuedFacts DEF TurnInv, TurnTypes, InboxType
  <2>3. taken[t] = 0
    BY <1>2, <1>4, <2>1 DEF Known, TurnInv, ConsentOK
  <2>4. taken \in [Turns -> Nat]
    BY DEF TurnInv, TurnTypes
  <2>5. taken'[t] = 1 /\ \A u \in Turns : u # t => taken'[u] = taken[u]
    BY <2>1, <2>3, <2>4
  <2>6. QueuedOffers' = QueuedOffers \cup {t} /\ t \notin QueuedOffers
    BY <2>3, <2>5 DEF QueuedOffers
  <2>7. Cardinality(QueuedOffers') = Cardinality(QueuedOffers) + 1
    BY <2>6, QueuedOffersBounded, FS_AddElement
  <2>8. /\ Cardinality(QueuedOffers) \in Nat /\ marker.epoch \in Nat /\ lane.epoch \in Nat
        /\ turnBounds.messages \in Nat
    BY QueuedOffersBounded DEF TurnInv, TurnTypes, MarkerType, LaneType, TurnBoundsType
  <2> QED
    BY <1>1, <2>2, <2>7, <2>8 DEF CountsOK
<1> QED
  BY <1>3, <1>4

LEMMA FaultsStayWithin == ASSUME TurnInv, TurnFault PROVE turnBounds'.messages = turnBounds.messages
BY DEF TurnInv, TurnTypes, TurnBoundsType, TurnFault

(* Every other step.                                                       *)
LEMMA OtherCounts ==
    ASSUME TurnInv, CountsOK,
           \/ LaneStep \/ ReconcileArrival \/ SettleAccepted \/ LowerLimit \/ WriteError \/ TurnCrash
           \/ \E t \in Turns : AcceptOffer(t) \/ DeclineOffer(t)
           \/ \E i \in Inputs : AnswerUser(i) \/ CancelUser(i)
           \/ \E obs \in SUBSET Observations, emit \in BOOLEAN, offer \in BOOLEAN :
                 BeginProactive(obs, emit, offer)
           \/ UNCHANGED turnVars
    PROVE  CountsOK'
<1>1. /\ inbox \in InboxType /\ lane \in LaneType /\ marker \in MarkerType /\ usage \in UsageType
      /\ turnBounds \in TurnBoundsType /\ candidate \in [Turns -> CandidateType]
      /\ done \subseteq Observations /\ usage.limit \in {1, MaxTurns}
  BY DEF TurnInv, TurnTypes, CountsOK
<1>2. \A pc : Go(pc) => lane'.epoch = lane.epoch
  BY <1>1 DEF Go, LaneType
<1>3. CASE \/ ReserveTurn \/ MarkTurn \/ OfferWork \/ VoidOffer \/ AppendRemark \/ FinalizeTurn
           \/ RecoverAccepted \/ BeginRecovery \/ ClearMarker \/ PrepareRemark \/ MarkEnqueued \/ StartUp
  <2>1. UNCHANGED <<inbox, turnBounds, taken, done, usage>>
    BY <1>3 DEF ReserveTurn, MarkTurn, OfferWork, VoidOffer, AppendRemark, FinalizeTurn, RecoverAccepted,
                BeginRecovery, ClearMarker, PrepareRemark, MarkEnqueued, StartUp
  <2>2. lane'.epoch = lane.epoch
    BY <1>2, <1>3 DEF ReserveTurn, MarkTurn, OfferWork, VoidOffer, AppendRemark, FinalizeTurn, RecoverAccepted,
                BeginRecovery, ClearMarker, PrepareRemark, MarkEnqueued, StartUp
  <2>3. marker'.epoch \in {0, marker.epoch, lane.epoch}
    BY <1>1, <1>3 DEF ReserveTurn, MarkTurn, OfferWork, VoidOffer, AppendRemark, FinalizeTurn, RecoverAccepted,
                BeginRecovery, ClearMarker, PrepareRemark, MarkEnqueued, StartUp, NoMarker, MarkerType
  <2> QED
    BY <1>1, <2>1, <2>2, <2>3, NothingQueued
<1>4. CASE CompleteQuietly \/ CompleteRemark
  <2>1. UNCHANGED <<inbox, turnBounds, taken, usage, marker>> /\ lane'.epoch = lane.epoch
    BY <1>2, <1>4 DEF CompleteQuietly, CompleteRemark
  <2>2. lane.turn \in Turns
    BY <1>4 DEF CompleteQuietly, CompleteRemark, TurnInv, LaneOK, Early, Held, PendingRemarks
  <2>3. done' \subseteq Observations
    BY <1>1, <1>4, <2>2 DEF CompleteQuietly, CompleteRemark, CandidateType
  <2> QED
    BY <1>1, <2>1, <2>3, NothingQueued
<1>5. CASE CountRemark \/ ForgetEmit \/ LowerLimit
  <2>1. UNCHANGED <<inbox, turnBounds, taken, done, marker>> /\ lane'.epoch = lane.epoch
    BY <1>2, <1>5 DEF CountRemark, ForgetEmit, LowerLimit
  <2>2. usage'.limit \in {1, MaxTurns}
    BY <1>1, <1>5 DEF CountRemark, ForgetEmit, LowerLimit, Counted, UsageType
  <2> QED
    BY <1>1, <2>1, <2>2, NothingQueued
<1>6. CASE PublishRemark \/ WriteError \/ TurnCrash
  <2>1. UNCHANGED <<inbox, taken, done, usage>> /\ lane'.epoch = lane.epoch
    BY <1>1, <1>2, <1>6 DEF PublishRemark, WriteError, TurnCrash, LaneType
  <2>2. turnBounds'.messages = turnBounds.messages
    BY <1>6, FaultsStayWithin DEF PublishRemark, WriteError, TurnCrash
  <2>3. marker'.epoch \in {0, marker.epoch, lane.epoch}
    BY <1>6 DEF PublishRemark, WriteError, TurnCrash, NoMarker
  <2> QED
    BY <1>1, <2>1, <2>2, <2>3, NothingQueued
<1>7. CASE PrepareTurnRecovery \/ ResumeCommit \/ RetryRemark
  <2>1. UNCHANGED <<inbox, turnBounds, taken, done, usage>>
    BY <1>7 DEF PrepareTurnRecovery, ResumeCommit, RetryRemark
  <2>2. lane'.epoch \in {lane.epoch, marker.epoch}
    BY <1>1, <1>7 DEF PrepareTurnRecovery, ResumeCommit, RetryRemark, LaneType
  <2>3. marker'.epoch \in {0, marker.epoch}
    <3>1. CASE PrepareTurnRecovery
      BY <3>1 DEF PrepareTurnRecovery, NoMarker
    <3>2. CASE ResumeCommit \/ RetryRemark
      BY <3>2 DEF ResumeCommit, RetryRemark
    <3> QED
      BY <1>7, <3>1, <3>2
  <2> QED
    BY <1>1, <2>1, <2>2, <2>3, NothingQueued
<1>8. CASE \/ ReconcileArrival \/ SettleAccepted \/ UNCHANGED turnVars
           \/ \E t \in Turns : AcceptOffer(t) \/ DeclineOffer(t)
  <2>1. UNCHANGED <<inbox, turnBounds, taken, done, usage, marker, lane>>
    BY <1>8 DEF ReconcileArrival, SettleAccepted, turnVars, AcceptOffer, DeclineOffer
  <2> QED
    BY <1>1, <2>1, NothingQueued
<1>9. CASE \E i \in Inputs : AnswerUser(i) \/ CancelUser(i)
  <2>1. UNCHANGED <<turnBounds, taken, done, usage, marker, lane>> /\ inbox'.epoch = inbox.epoch
    BY <1>1, <1>9 DEF AnswerUser, CancelUser, InboxType
  <2> QED
    BY <1>1, <2>1, NothingQueued
<1>10. CASE \E obs \in SUBSET Observations, emit \in BOOLEAN, offer \in BOOLEAN :
               BeginProactive(obs, emit, offer)
  <2>1. UNCHANGED <<inbox, turnBounds, taken, done, usage, marker>> /\ lane'.epoch = inbox.epoch
    BY <1>1, <1>10 DEF BeginProactive, LaneType
  <2> QED
    BY <1>1, <2>1, NothingQueued
<1> QED
  BY <1>3, <1>4, <1>5, <1>6, <1>7, <1>8, <1>9, <1>10 DEF LaneStep

LEMMA CountsInvariant == TurnSpec => []CountsOK
<1>1. TurnInit => CountsOK
  <2> SUFFICES ASSUME TurnInit PROVE CountsOK
    OBVIOUS
  <2>1. QueuedOffers = {}
    BY DEF TurnInit, QueuedOffers
  <2> QED
    BY <2>1, FS_EmptySet, TurnAssumption DEF TurnInit, CountsOK
<1>2. TurnInv /\ CountsOK /\ [TurnNext]_turnVars => CountsOK'
  BY UserSpeaksCounts, EnqueueCounts, OtherCounts DEF TurnNext, ArrivalStep
<1> QED
  BY <1>1, <1>2, TurnInvariant, PTL DEF TurnSpec

(* The queue, the commit, the offers and the usage of a proactive turn     *)
(* have their types, and no counter outruns what it counts.                *)
THEOREM TurnTyped == TurnSpec => []TurnTypeOK
<1>1. TurnInv /\ CountsOK => TurnTypeOK
  <2> SUFFICES ASSUME TurnInv, CountsOK PROVE TurnTypeOK
    OBVIOUS
  <2>1. inbox.epoch \in 0 .. (MaxMessages + MaxTurns)
    BY QueuedOffersBounded, TurnAssumption DEF TurnInv, TurnTypes, TurnBoundsType, InboxType, CountsOK
  <2>2. offers.epoch \in 0 .. (MaxMessages + MaxTurns)
    <3>1. offers.epoch \in Nat /\ offers.epoch <= inbox.epoch
      BY DEF TurnInv, TurnTypes, EpochOK, OffersType
    <3> QED
      BY <2>1, <3>1, TurnAssumption
  <2>3. marker \in [turn : 0 .. MaxTurns, phase : {"none", "reserved", "persisting"},
                    epoch : 0 .. (MaxMessages + MaxTurns)]
    <3>1. marker \in MarkerType /\ marker.epoch <= inbox.epoch
      BY DEF TurnInv, TurnTypes, CountsOK
    <3>2. marker.epoch \in 0 .. (MaxMessages + MaxTurns)
      BY <2>1, <3>1, TurnAssumption DEF MarkerType
    <3> QED
      BY <3>1, <3>2 DEF MarkerType
  <2>4. usage.calls \in 0 .. MaxTurns
    <3>1. counted \in SUBSET Turns /\ usage.calls = Cardinality(counted) /\ usage.calls \in Nat
      BY DEF TurnInv, TurnTypes, UsageType, RemarkOK, SpokenOnceAndCounted
    <3> QED
      BY <3>1, TurnsFinite, FS_Subset, TurnAssumption
  <2>5. /\ inbox.users \subseteq Inputs /\ inbox.answered \subseteq Inputs /\ inbox.cancelled \subseteq Inputs
        /\ usage.ids \subseteq Turns /\ usage.limit \in {1, MaxTurns} /\ done \subseteq Observations
        /\ offers.status \in [Turns -> OfferStatuses] /\ offers.owed \subseteq Turns
    BY DEF TurnInv, TurnTypes, InboxType, UsageType, OffersType, CountsOK
  <2>6. /\ lane.pc \in LaneSteps /\ lane.turn \in 0 .. MaxTurns /\ lane.then \in {"final", "clear", "retry"}
        /\ lane.blocked \in BOOLEAN /\ lane.ready \in BOOLEAN
        /\ arrival.input \in {0} \cup Inputs /\ arrival.step \in {"none", "enqueue", "reconcile", "settle"}
    BY DEF TurnInv, TurnTypes, LaneType, ArrivalType
  <2> QED
    BY <2>1, <2>2, <2>3, <2>4, <2>5, <2>6 DEF TurnInv, TurnTypes, TurnTypeOK
<1> QED
  BY <1>1, TurnInvariant, CountsInvariant, PTL

(* No other step than the acceptance makes an offer accepted.              *)
LEMMA OnlyConsentAccepts ==
    ASSUME TurnInv, [TurnNext]_turnVars, NEW t \in Turns, offers.status[t] # "accepted",
           offers'.status[t] = "accepted"
    PROVE  AcceptOffer(t)
<1>0. offers \in OffersType /\ inbox.epoch \in Nat
  BY DEF TurnInv, TurnTypes, InboxType
<1>1. offers' # offers
  OBVIOUS
<1>2. ASSUME NEW u \in Turns, NEW e \in Nat PROVE offers' # Proposed(offers, u, e)
  <2> SUFFICES ASSUME offers' = Proposed(offers, u, e) PROVE FALSE
    OBVIOUS
  <2> DEFINE r == Proposed(offers, u, e)
  <2>1. \/ r = offers
        \/ /\ offers.epoch = e /\ offers.status[u] = "none"
           /\ r.status = [offers.status EXCEPT ![u] = "proposed"]
           /\ r.at = [offers.at EXCEPT ![u] = e]
    BY <1>0, ProposedFacts
  <2>2. offers' = r
    OBVIOUS
  <2> HIDE DEF r
  <2> QED
    BY <1>0, <2>1, <2>2 DEF OffersType
<1>3. offers' # Reconciled(offers, inbox.epoch)
  <2> SUFFICES ASSUME offers' = Reconciled(offers, inbox.epoch) PROVE FALSE
    OBVIOUS
  <2> DEFINE r == Reconciled(offers, inbox.epoch)
  <2>1. r.status[t] = offers.status[t] \/ r.status[t] = "ignored" \/ r = offers
    BY <1>0, ReconciledFacts
  <2>2. offers' = r
    OBVIOUS
  <2> HIDE DEF r
  <2> QED
    BY <2>1, <2>2
<1>4. ~OfferWork
  <2> SUFFICES ASSUME OfferWork PROVE FALSE
    OBVIOUS
  <2>1. lane.turn \in Turns /\ lane.epoch \in Nat
    BY DEF OfferWork, TurnInv, TurnTypes, LaneType, LaneOK, Held, PendingRemarks
  <2> QED
    BY <1>2, <2>1 DEF OfferWork, Propose
<1>5. ~ResumeCommit
  <2> SUFFICES ASSUME ResumeCommit PROVE FALSE
    OBVIOUS
  <2>1. marker.turn \in Turns /\ marker.epoch \in Nat
    BY DEF ResumeCommit, TurnInv, TurnTypes, MarkerType, LaneOK
  <2>2. UNCHANGED offers \/ Propose(marker.turn, marker.epoch)
    BY DEF ResumeCommit
  <2> QED
    BY <1>1, <1>2, <2>1, <2>2 DEF Propose
<1>6. ~PrepareTurnRecovery /\ ~ReconcileArrival
  BY <1>3 DEF PrepareTurnRecovery, ReconcileArrival
<1>7. ~VoidOffer /\ ~SettleAccepted /\ ~RecoverAccepted
  BY <1>0, <1>1 DEF VoidOffer, SettleAccepted, RecoverAccepted, OffersType
<1>8. ASSUME NEW u \in Turns, DeclineOffer(u) \/ AcceptOffer(u) PROVE AcceptOffer(t)
  <2> DEFINE st(status) == [offers.status EXCEPT ![u] = status]
  <2>1. CASE DeclineOffer(u)
    <3>1. offers'.status = st("declined")
      BY <1>0, <2>1 DEF DeclineOffer, OffersType
    <3>2. st("declined")[t] # "accepted"
      BY <1>0 DEF OffersType
    <3> QED
      BY <3>1, <3>2
  <2>2. CASE AcceptOffer(u)
    <3>1. offers'.status = st("accepted")
      BY <1>0, <2>2 DEF AcceptOffer, OffersType
    <3>2. u # t => st("accepted")[t] = offers.status[t]
      BY <1>0 DEF OffersType
    <3> QED
      BY <2>2, <3>1, <3>2
  <2> QED
    BY <1>8, <2>1, <2>2
<1>9. /\ ~ReserveTurn /\ ~MarkTurn /\ ~CompleteQuietly /\ ~PrepareRemark /\ ~CountRemark /\ ~AppendRemark
      /\ ~PublishRemark /\ ~MarkEnqueued /\ ~CompleteRemark /\ ~ForgetEmit /\ ~FinalizeTurn /\ ~BeginRecovery
  BY <1>1 DEF ReserveTurn, MarkTurn, CompleteQuietly, PrepareRemark, CountRemark, AppendRemark, PublishRemark,
              MarkEnqueued, CompleteRemark, ForgetEmit, FinalizeTurn, BeginRecovery
<1>10. /\ ~ClearMarker /\ ~RetryRemark /\ ~StartUp /\ ~EnqueueAccepted /\ ~UserSpeaks /\ ~LowerLimit
       /\ ~WriteError /\ ~TurnCrash /\ ~UNCHANGED turnVars
  BY <1>1 DEF ClearMarker, RetryRemark, StartUp, EnqueueAccepted, UserSpeaks, LowerLimit, WriteError, TurnCrash,
              turnVars
<1>11. \A obs \in SUBSET Observations, emit \in BOOLEAN, offer \in BOOLEAN : ~BeginProactive(obs, emit, offer)
  BY <1>1 DEF BeginProactive
<1>12. \A i \in Inputs : ~AnswerUser(i) /\ ~CancelUser(i)
  BY <1>1 DEF AnswerUser, CancelUser
<1> QED
  BY <1>4, <1>5, <1>6, <1>7, <1>8, <1>9, <1>10, <1>11, <1>12 DEF TurnNext, LaneStep, ArrivalStep

(* Between its recovery and a crash the companion lets nobody consent to   *)
(* an offer that was made before the last message of the user.             *)
THEOREM NoStaleConsent == TurnSpec => AcceptsCurrentOffer
<1>1. ASSUME TurnInv, [TurnNext]_turnVars
      PROVE  [\A t \in Turns : /\ lane.ready
                               /\ offers.status[t] # "accepted" /\ offers'.status[t] = "accepted"
                               => offers.at[t] = inbox.epoch]_turnVars
  <2> SUFFICES ASSUME NEW t \in Turns, lane.ready, offers.status[t] # "accepted", offers'.status[t] = "accepted"
               PROVE  offers.at[t] = inbox.epoch
    OBVIOUS
  <2>1. offers.status[t] = "proposed" /\ arrival.step = "none"
    BY <1>1, OnlyConsentAccepts DEF AcceptOffer, Unlocked
  <2> QED
    BY <1>1, <2>1 DEF TurnInv, EpochOK
<1> QED
  BY <1>1, TurnInvariant, PTL DEF TurnSpec, AcceptsCurrentOffer

----------------------------------------------------------------------------
(* WorkTask.                                                               *)

(* The worker and the record go together: whoever works does so on a       *)
(* recorded operation, and its request is the one the approval is of.      *)
WorkerOK ==
    /\ worker.pc # "none" => /\ control.active # "none"
                             /\ control.of \in Operations
                             /\ taskFile[control.of] = "running"
                             /\ ran[control.of] \subseteq {workBounds.lives}
    /\ worker.pc \in {"wait", "review", "begin", "run", "after"} => approval.of = control.of

(* What ran was recorded first, and ran in one life.                       *)
RanOK ==
    \A o \in Operations : /\ taskFile[o] = "absent" => ran[o] = {}
                          /\ \E l \in 1 .. MaxLives : ran[o] \subseteq {l}

(* An approval is on disk, and it is the user's own unless a review gave it *)
(* that may; what a review found is taken only if nothing came between.    *)
ApprovalOK ==
    /\ approval.status = "approved" => journal = [of |-> approval.of, status |-> "approved"]
    /\ approval.status = "approved" /\ worker.pc \in {"wait", "review", "begin", "run", "after"}
          => \/ approval.reason = "user"
             \/ approval.auto /\ approval.mode = "auto" /\ approval.of \in InsideRoot
    /\ worker.pc = "review" /\ ~approval.revised => approval.mode = "auto" /\ approval.of \in InsideRoot
    /\ worker.pc = "run" /\ approval.operation = "live" /\ control.active = "live"
          => approval.status = "approved"

(* A success is known to the turn, the record or the latest record only if *)
(* the task file has it.                                                   *)
SuccessOK ==
    /\ \A o \in Operations : told[o] = "succeeded" => taskFile[o] = "succeeded"
    /\ control.phase = "succeeded" /\ control.of \in Operations => taskFile[control.of] = "succeeded"
    /\ latest.phase = "succeeded" /\ latest.of \in Operations => taskFile[latest.of] = "succeeded"

----------------------------------------------------------------------------
(* Types.                                                                  *)

LEMMA PhaseTyped == WorkTypeOK => Phase \in WorkPhases
BY DEF WorkTypeOK, Phase, WorkPhases, Cancelled

LEMMA ApprovalMoves ==
    ASSUME NEW a \in ApprovalType
    PROVE  /\ \A s \in Statuses, r \in Reasons : [a EXCEPT !.status = s, !.reason = r] \in ApprovalType
           /\ \A t \in Tokens : [a EXCEPT !.operation = t] \in ApprovalType
           /\ Cut(a.operation) \in Tokens
BY DEF ApprovalType, Cut, Tokens

LEMMA ModeMoves ==
    ASSUME NEW a \in ApprovalType, NEW mode \in {"manual", "auto"}, NEW t \in Tokens
    PROVE  [a EXCEPT !.mode = mode, !.auto = FALSE, !.revised = TRUE, !.operation = t] \in ApprovalType
BY DEF ApprovalType

LEMMA JudgedTyped ==
    ASSUME NEW a \in ApprovalType, NEW b \in BOOLEAN
    PROVE  [a EXCEPT !.auto = b, !.revised = TRUE] \in ApprovalType
BY DEF ApprovalType

LEMMA NoControlTyped == NoControl \in ControlType
BY DEF NoControl, ControlType, Named, WorkPhases, Tokens

LEMMA EndedTyped ==
    ASSUME WorkTypeOK, NEW o, NEW c \in BOOLEAN
    PROVE  Ended(o, c) \in ApprovalType
<1>1. Cut(approval.operation) \in Tokens
  BY DEF WorkTypeOK, ApprovalType, Cut, Tokens
<1> QED
  BY <1>1 DEF WorkTypeOK, Ended, ApprovalType, Statuses

LEMMA JournalTyped ==
    ASSUME WorkTypeOK, NEW a \in ApprovalType, NEW ok \in BOOLEAN, Journal(ok, a)
    PROVE  journal' \in [of : Named, status : Statuses]
BY DEF WorkTypeOK, ApprovalType, Journal

LEMMA BoundsMove ==
    ASSUME NEW b \in BoundsType, NEW l \in 1 .. MaxLives, NEW m \in 0 .. MaxModeChanges,
           NEW f \in 0 .. MaxWorkFaults
    PROVE  /\ [b EXCEPT !.lives = l, !.faults = f] \in BoundsType
           /\ [b EXCEPT !.modes = m, !.faults = f] \in BoundsType
BY DEF BoundsType

LEMMA BoundsRoom ==
    ASSUME NEW b \in BoundsType
    PROVE  /\ b.lives < MaxLives => b.lives + 1 \in 1 .. MaxLives
           /\ b.modes < MaxModeChanges => b.modes + 1 \in 0 .. MaxModeChanges
           /\ b.faults < MaxWorkFaults => b.faults + 1 \in 0 .. MaxWorkFaults
           /\ b.faults \in 0 .. MaxWorkFaults /\ b.lives \in 1 .. MaxLives
BY WorkAssumption DEF BoundsType

LEMMA WritesTyped ==
    ASSUME WorkTypeOK, NEW ok \in BOOLEAN, Writes(ok)
    PROVE  workBounds' \in BoundsType /\ workBounds'.lives = workBounds.lives
BY WorkAssumption DEF WorkTypeOK, BoundsType, Writes

LEMMA SaveRecordTyped ==
    ASSUME WorkTypeOK, NEW o \in Named, NEW phase \in WorkPhases, NEW written, SaveRecord(o, phase, written)
    PROVE  /\ taskFile' \in [Operations -> WorkPhases]
           /\ latest' \in [of : Named, phase : WorkPhases]
           /\ workBounds' \in BoundsType /\ workBounds'.lives = workBounds.lives
BY WritesTyped DEF WorkTypeOK, SaveRecord

LEMMA SetModeTyped ==
    ASSUME WorkTypeOK, NEW mode \in {"manual", "auto"}, NEW ok \in BOOLEAN, SetMode(mode, ok)
    PROVE  WorkTypeOK'
<1> DEFINE revoke == mode = "manual" /\ approval.auto
           asksAgain == Undecided(approval) \/ (revoke /\ approval.status = "approved")
           asked == [approval EXCEPT !.status = "awaiting", !.reason = IF ok THEN "none" ELSE "unsure"]
           next == IF asksAgain THEN asked ELSE approval
<1>1. asked \in ApprovalType /\ next \in ApprovalType
  BY DEF WorkTypeOK, ApprovalType, Statuses, Reasons
<1>2. Cut(next.operation) \in Tokens
  BY <1>1, ApprovalMoves
<1>3. approval' = [next EXCEPT !.mode = mode, !.auto = FALSE, !.revised = TRUE,
                               !.operation = IF revoke THEN Cut(next.operation) ELSE next.operation]
  BY DEF SetMode
<1>4. approval' \in ApprovalType
  <2> DEFINE t == IF revoke THEN Cut(next.operation) ELSE next.operation
  <2>1. t \in Tokens
    BY <1>1, <1>2 DEF ApprovalType
  <2>2. approval' = [next EXCEPT !.mode = mode, !.auto = FALSE, !.revised = TRUE, !.operation = t]
    BY <1>3
  <2> HIDE DEF next, t
  <2> QED
    BY <1>1, <2>1, <2>2, ModeMoves
<1>5. journal' \in [of : Named, status : Statuses]
  BY <1>1, JournalTyped DEF SetMode, WorkTypeOK
<1>6. workBounds' \in BoundsType
  <2> DEFINE m == workBounds.modes + 1
             f == IF ok THEN workBounds.faults ELSE workBounds.faults + 1
  <2>1. workBounds' = [workBounds EXCEPT !.modes = m, !.faults = f]
    BY DEF SetMode
  <2>2. workBounds.modes < MaxModeChanges /\ (ok \/ workBounds.faults < MaxWorkFaults)
    BY DEF SetMode
  <2>3. workBounds \in BoundsType
    BY DEF WorkTypeOK
  <2>4. m \in 0 .. MaxModeChanges /\ f \in 0 .. MaxWorkFaults
    BY <2>2, <2>3, BoundsRoom
  <2>5. workBounds.lives \in 1 .. MaxLives
    BY <2>3, BoundsRoom
  <2> HIDE DEF m, f
  <2> QED
    BY <2>1, <2>3, <2>4, <2>5, BoundsMove
<1> QED
  BY <1>4, <1>5, <1>6 DEF SetMode, WorkTypeOK

LEMMA WorkTypeStep ==
    ASSUME WorkTypeOK, [WorkNext]_workVars PROVE WorkTypeOK'
<1>1. CASE UNCHANGED workVars
  BY <1>1 DEF WorkTypeOK, workVars
<1>2. ASSUME NEW status \in {"approved", "denied"}, Decide(status) PROVE WorkTypeOK'
  BY <1>2, JournalTyped DEF Decide, WorkTypeOK, ApprovalType, Statuses, Reasons
<1>3. CASE CancelToken \/ TakeResult
  BY <1>3 DEF CancelToken, TakeResult, WorkTypeOK, ControlType, Tokens, Named, WorkPhases
<1>4. ASSUME NEW ok \in BOOLEAN, Stop(ok) PROVE WorkTypeOK'
  <2>1. approval' \in ApprovalType
    BY <1>4, EndedTyped DEF Stop, EndApproval
  <2>2. journal' \in [of : Named, status : Statuses]
    BY <1>4, <2>1, JournalTyped DEF Stop, EndApproval, WorkTypeOK
  <2>3. control' \in ControlType /\ workBounds' \in BoundsType
    BY <1>4, WritesTyped DEF Stop, WorkTypeOK, ControlType, Tokens
  <2> QED
    BY <1>4, <2>1, <2>2, <2>3 DEF Stop, WorkTypeOK
<1>5. ASSUME NEW o \in Operations, StartRefused(o) PROVE WorkTypeOK'
  BY <1>5 DEF StartRefused, Answered, WorkTypeOK, WorkPhases
<1>6. ASSUME NEW o \in Operations, NEW same \in BOOLEAN, StartRecorded(o, same) PROVE WorkTypeOK'
  BY <1>6 DEF StartRecorded, Answered, WorkTypeOK, WorkPhases
<1>7. ASSUME NEW o \in Operations, NEW written \in 0 .. 2, StartNew(o, written) PROVE WorkTypeOK'
  <2>1. /\ taskFile' \in [Operations -> WorkPhases] /\ latest' \in [of : Named, phase : WorkPhases]
        /\ workBounds' \in BoundsType
    BY <1>7, SaveRecordTyped DEF StartNew, Named, WorkPhases
  <2>2. control' \in ControlType /\ worker' \in WorkerType /\ asker' \in Named
    <3>1. CASE written = 2
      <4>1. control' = [control EXCEPT !.of = o, !.phase = "running", !.active = "live"]
        BY <1>7, <3>1 DEF StartNew
      <4>2. control' \in ControlType
        BY <4>1 DEF WorkTypeOK, ControlType, Named, WorkPhases, Tokens
      <4>3. worker' = [pc |-> "session", result |-> "none"] /\ asker' = o
        BY <1>7, <3>1 DEF StartNew
      <4> QED
        BY <4>2, <4>3 DEF WorkerType, Named
    <3>2. CASE written # 2
      BY <1>7, <3>2 DEF StartNew, WorkTypeOK
    <3> QED
      BY <3>1, <3>2
  <2>3. told' \in [Operations -> WorkPhases]
    BY <1>7 DEF StartNew, WorkTypeOK, WorkPhases
  <2> QED
    BY <1>7, <2>1, <2>2, <2>3 DEF StartNew, WorkTypeOK
<1>8. ASSUME NEW mode \in {"manual", "auto"}, NEW ok \in BOOLEAN, WorkRestart(mode, ok) PROVE WorkTypeOK'
  <2>1. latest' \in [of : Named, phase : WorkPhases]
    BY <1>8 DEF WorkRestart, WorkTypeOK, WorkPhases
  <2>2. control' \in ControlType
    <3>1. latest'.of \in Named /\ latest'.phase \in WorkPhases
      BY <2>1
    <3>2. \/ control' = [NoControl EXCEPT !.of = latest'.of, !.phase = latest'.phase]
          \/ control' = [NoControl EXCEPT !.loaded = FALSE]
      BY <1>8 DEF WorkRestart
    <3> QED
      BY <3>1, <3>2, NoControlTyped DEF ControlType
  <2>3. approval' \in ApprovalType /\ worker' \in WorkerType
    BY <1>8 DEF WorkRestart, NewApproval, ApprovalType, NoWorker, WorkerType, Named, Statuses, Reasons, Tokens
  <2>4. workBounds' \in BoundsType
    <3> DEFINE l == workBounds.lives + 1
               f == IF ok THEN workBounds.faults ELSE workBounds.faults + 1
    <3>1. workBounds' = [workBounds EXCEPT !.lives = l, !.faults = f]
      BY <1>8 DEF WorkRestart
    <3>2. workBounds.lives < MaxLives /\ (ok \/ workBounds.faults < MaxWorkFaults)
      BY <1>8 DEF WorkRestart
    <3>3. workBounds \in BoundsType
      BY DEF WorkTypeOK
    <3>4. l \in 1 .. MaxLives /\ f \in 0 .. MaxWorkFaults
      BY <3>2, <3>3, BoundsRoom
    <3>5. 0 \in 0 .. MaxModeChanges
      BY WorkAssumption
    <3> HIDE DEF l, f
    <3> QED
      BY <3>1, <3>3, <3>4, <3>5, BoundsMove
  <2> QED
    BY <1>8, <2>1, <2>2, <2>3, <2>4 DEF WorkRestart, WorkTypeOK, Named
<1>9. ASSUME NEW ok \in BOOLEAN, Request(ok) PROVE WorkTypeOK'
  <2>1. approval' \in ApprovalType
    <3>1. CASE ok
      <4>1. approval' = [approval EXCEPT !.of = control.of, !.status = "awaiting", !.reason = "none",
                                         !.auto = FALSE, !.revised = TRUE]
        BY <1>9, <3>1 DEF Request
      <4>2. control.of \in Named
        BY DEF WorkTypeOK, ControlType
      <4> QED
        BY <4>1, <4>2 DEF WorkTypeOK, ApprovalType, Statuses, Reasons
    <3>2. CASE ~ok
      BY <1>9, <3>2 DEF Request, WorkTypeOK
    <3> QED
      BY <3>1, <3>2
  <2>2. journal' \in [of : Named, status : Statuses]
    BY <1>9, <2>1, JournalTyped DEF Request, WorkTypeOK
  <2>3. worker' \in WorkerType
    <3>1. worker' = [worker EXCEPT !.pc = "wait"] \/ worker' = [pc |-> "end", result |-> "error"]
      BY <1>9 DEF Request, ToWorker, Fails
    <3> QED
      BY <3>1 DEF WorkTypeOK, WorkerType
  <2> QED
    BY <1>9, <2>1, <2>2, <2>3 DEF Request, WorkTypeOK
<1>10. CASE WaitEnds \/ DropReview \/ RunAuthorized
  <2>1. worker' \in WorkerType
    BY <1>10 DEF WaitEnds, DropReview, RunAuthorized, WorkTypeOK, ToWorker, Fails, WorkerType
  <2> QED
    BY <1>10, <2>1 DEF WaitEnds, DropReview, RunAuthorized, WorkTypeOK
<1>11. CASE StartReview
  BY <1>11 DEF StartReview, WorkTypeOK, ToWorker, WorkerType, ApprovalType, Statuses
<1>12. CASE BeginCall
  <2>1. approval' \in ApprovalType /\ worker' \in WorkerType
    BY <1>12 DEF BeginCall, WorkTypeOK, ToWorker, WorkerType, ApprovalType, Tokens
  <2>2. ran' \in [Operations -> SUBSET (1 .. MaxLives)]
    BY <1>12 DEF BeginCall, WorkTypeOK, BoundsType
  <2> QED
    BY <1>12, <2>1, <2>2 DEF BeginCall, WorkTypeOK
<1>13. ASSUME NEW status \in Statuses, NEW ok \in BOOLEAN, FinishReview(status, ok) PROVE WorkTypeOK'
  <2> DEFINE judged == [approval EXCEPT !.status = status,
                                        !.reason = IF status = "awaiting" THEN "unsure" ELSE "review"]
             unsure == [approval EXCEPT !.status = "awaiting", !.reason = "unsure"]
             next == IF ok THEN judged ELSE unsure
  <2>1. judged \in ApprovalType /\ next \in ApprovalType
    BY DEF WorkTypeOK, ApprovalType, Statuses, Reasons
  <2>2. CASE Cancelled
    <3>1. approval' \in ApprovalType
      BY <1>13, <2>2, EndedTyped DEF FinishReview, EndApproval
    <3>2. journal' \in [of : Named, status : Statuses]
      BY <1>13, <2>2, <3>1, JournalTyped DEF FinishReview, EndApproval, WorkTypeOK
    <3>3. worker' \in WorkerType /\ workBounds' \in BoundsType
      BY <1>13, <2>2, WritesTyped DEF FinishReview, Fails, WorkerType
    <3> QED
      BY <1>13, <3>1, <3>2, <3>3 DEF FinishReview, WorkTypeOK
  <2>3. CASE ~Cancelled /\ Revised
    <3>1. worker' \in WorkerType /\ workBounds' \in BoundsType
      BY <1>13, <2>3, WritesTyped DEF FinishReview, ToWorker, WorkTypeOK, WorkerType
    <3> QED
      BY <1>13, <2>3, <3>1 DEF FinishReview, WorkTypeOK
  <2>4. CASE ~Cancelled /\ ~Revised
    <3>1. approval' = [next EXCEPT !.auto = next.status = "approved", !.revised = TRUE] /\ Journal(ok, judged)
      BY <1>13, <2>4 DEF FinishReview
    <3>2. approval' \in ApprovalType
      <4> DEFINE b == next.status = "approved"
      <4>1. b \in BOOLEAN /\ approval' = [next EXCEPT !.auto = b, !.revised = TRUE]
        BY <3>1
      <4> HIDE DEF next, b
      <4> QED
        BY <2>1, <4>1, JudgedTyped
    <3>3. journal' \in [of : Named, status : Statuses]
      BY <1>13, <2>1, <3>1, JournalTyped
    <3>4. worker' \in WorkerType /\ workBounds' \in BoundsType
      BY <1>13, <2>4, WritesTyped DEF FinishReview, ToWorker, WorkTypeOK, WorkerType
    <3> QED
      BY <1>13, <3>2, <3>3, <3>4 DEF FinishReview, WorkTypeOK
  <2> QED
    BY <2>2, <2>3, <2>4
<1>14. ASSUME NEW result \in {"ok", "error"}, HarnessEnds(result) PROVE WorkTypeOK'
  BY <1>14 DEF HarnessEnds, WorkTypeOK, WorkerType
<1>15. ASSUME NEW written \in 0 .. 2, FinishWork(written) PROVE WorkTypeOK'
  <2>1. approval' \in ApprovalType
    BY <1>15, EndedTyped DEF FinishWork, EndApproval, Cancelled
  <2>2. journal' \in [of : Named, status : Statuses]
    BY <1>15, <2>1, JournalTyped DEF FinishWork, EndApproval, WorkTypeOK
  <2>3. /\ taskFile' \in [Operations -> WorkPhases] /\ latest' \in [of : Named, phase : WorkPhases]
        /\ workBounds' \in BoundsType
    BY <1>15, SaveRecordTyped, PhaseTyped DEF FinishWork, WorkTypeOK, ControlType
  <2>4. control' \in ControlType
    BY <1>15, PhaseTyped DEF FinishWork, WorkTypeOK, ControlType, Outcome, WorkPhases, Tokens
  <2> QED
    BY <1>15, <2>1, <2>2, <2>3, <2>4 DEF FinishWork, WorkTypeOK, NoWorker, WorkerType
<1>16. CASE WorkerStep
  BY <1>16, <1>9, <1>10, <1>11, <1>12, <1>13, <1>14, <1>15 DEF WorkerStep
<1>17. ASSUME NEW mode \in {"manual", "auto"}, NEW ok \in BOOLEAN, SetMode(mode, ok) PROVE WorkTypeOK'
  BY <1>17, SetModeTyped
<1> QED
  BY <1>1, <1>2, <1>3, <1>4, <1>5, <1>6, <1>7, <1>8, <1>16, <1>17 DEF WorkNext

----------------------------------------------------------------------------
(* The records.                                                            *)

LEMMA Saved ==
    ASSUME WorkTypeOK, NEW o \in Operations, NEW phase \in WorkPhases, NEW written,
           SaveRecord(o, phase, written)
    PROVE  /\ \A p \in Operations : p # o => taskFile'[p] = taskFile[p]
           /\ taskFile'[o] \in {taskFile[o], phase}
           /\ written # 0 => taskFile'[o] = phase
           /\ latest' = latest \/ (written = 2 /\ latest' = [of |-> o, phase |-> phase])
           /\ workBounds'.lives = workBounds.lives
BY WritesTyped DEF WorkTypeOK, SaveRecord

LEMMA PhaseIsEnd == Phase \notin {"absent", "running"}
BY DEF Phase, Cancelled

\* A record changes only from absent, or from running to an end.
TaskFileMoves ==
    \A o \in Operations : /\ taskFile'[o] # taskFile[o] => taskFile[o] \in {"absent", "running"}
                          /\ taskFile'[o] = "absent" => taskFile[o] = "absent"

LEMMA RecordsMove ==
    ASSUME WorkTypeOK, WorkerOK, [WorkNext]_workVars PROVE TaskFileMoves
<1>1. CASE UNCHANGED taskFile
  BY <1>1 DEF TaskFileMoves
<1>2. ASSUME NEW o \in Operations, NEW same \in BOOLEAN, StartRecorded(o, same) PROVE TaskFileMoves
  <2>1. taskFile' = [taskFile EXCEPT ![o] = IF taskFile[o] = "running" THEN "interrupted" ELSE taskFile[o]]
    BY <1>2 DEF StartRecorded
  <2> QED
    BY <2>1 DEF TaskFileMoves, WorkTypeOK
<1>3. ASSUME NEW o \in Operations, NEW written \in 0 .. 2, StartNew(o, written) PROVE TaskFileMoves
  <2>1. taskFile[o] = "absent" /\ SaveRecord(o, "running", written)
    BY <1>3 DEF StartNew, Recorded
  <2>2. "running" \in WorkPhases
    BY DEF WorkPhases
  <2> QED
    BY <2>1, <2>2, Saved DEF TaskFileMoves
<1>4. ASSUME NEW written \in 0 .. 2, FinishWork(written) PROVE TaskFileMoves
  <2>1. control.of \in Operations /\ taskFile[control.of] = "running" /\ SaveRecord(control.of, Phase, written)
    BY <1>4 DEF FinishWork, WorkerOK
  <2> QED
    BY <2>1, Saved, PhaseTyped, PhaseIsEnd DEF TaskFileMoves
<1>5. CASE WorkerStep
  BY <1>1, <1>4, <1>5
     DEF WorkerStep, Request, WaitEnds, StartReview, DropReview, BeginCall, RunAuthorized, FinishReview, HarnessEnds
<1> QED
  BY <1>1, <1>2, <1>3, <1>5
     DEF WorkNext, workVars, CancelToken, TakeResult, Stop, StartRefused, SetMode, WorkRestart, Decide

LEMMA SuccessStep ==
    ASSUME WorkTypeOK, WorkerOK, SuccessOK, [WorkNext]_workVars PROVE SuccessOK'
<1>1. TaskFileMoves
  BY RecordsMove
<1>2. CASE UNCHANGED <<told, control, latest>>
  BY <1>1, <1>2 DEF SuccessOK, TaskFileMoves
<1>3. CASE UNCHANGED <<told, latest>> /\ control'.of = control.of /\ control'.phase = control.phase
  BY <1>1, <1>3 DEF SuccessOK, TaskFileMoves
<1>4. CASE TakeResult
  <2>1. asker \in Operations
    BY <1>4 DEF TakeResult, WorkTypeOK, Named
  <2>2. told' = [told EXCEPT ![asker] = IF control.of = asker THEN control.phase ELSE "interrupted"]
        /\ UNCHANGED <<control, latest, taskFile>>
    BY <1>4 DEF TakeResult
  <2> QED
    BY <2>1, <2>2 DEF SuccessOK, WorkTypeOK
<1>5. ASSUME NEW o \in Operations, StartRefused(o) PROVE SuccessOK'
  BY <1>5 DEF StartRefused, Answered, SuccessOK, WorkTypeOK
<1>6. ASSUME NEW o \in Operations, NEW same \in BOOLEAN, StartRecorded(o, same) PROVE SuccessOK'
  <2> DEFINE phase == IF taskFile[o] = "running" THEN "interrupted" ELSE taskFile[o]
  <2>1. /\ taskFile' = [taskFile EXCEPT ![o] = phase] /\ UNCHANGED <<control, latest>>
        /\ told' = [told EXCEPT ![o] = IF same THEN phase ELSE "interrupted"]
    BY <1>6 DEF StartRecorded, Answered
  <2>2. \A p \in Operations : told'[p] = "succeeded" => taskFile'[p] = "succeeded"
    BY <2>1 DEF SuccessOK, WorkTypeOK
  <2> QED
    BY <1>1, <2>1, <2>2 DEF SuccessOK, TaskFileMoves
<1>7. ASSUME NEW o \in Operations, NEW written \in 0 .. 2, StartNew(o, written) PROVE SuccessOK'
  <2>1. "running" \in WorkPhases /\ SaveRecord(o, "running", written)
    BY <1>7 DEF StartNew, WorkPhases
  <2>2. latest' = latest \/ latest'.phase = "running"
    BY <2>1, Saved
  <2>3. told' = told \/ told' = [told EXCEPT ![o] = "interrupted"]
    BY <1>7 DEF StartNew
  <2>4. control' = control \/ control' = [control EXCEPT !.of = o, !.phase = "running", !.active = "live"]
    BY <1>7 DEF StartNew
  <2>5. control' = control \/ control'.phase = "running"
    BY <2>4 DEF WorkTypeOK, ControlType
  <2> QED
    BY <1>1, <2>2, <2>3, <2>5 DEF SuccessOK, TaskFileMoves, WorkTypeOK
<1>8. ASSUME NEW mode \in {"manual", "auto"}, NEW ok \in BOOLEAN, WorkRestart(mode, ok) PROVE SuccessOK'
  <2>1. latest' = latest \/ latest' = [latest EXCEPT !.phase = "interrupted"]
    BY <1>8 DEF WorkRestart
  <2>2. /\ latest'.phase = "succeeded" => latest' = latest
        /\ control'.phase \in {"absent", latest'.phase}
        /\ control'.phase # "absent" => control'.of = latest'.of
    BY <1>8, <2>1 DEF WorkRestart, NoControl, WorkTypeOK
  <2>3. UNCHANGED <<taskFile, told>>
    BY <1>8 DEF WorkRestart
  <2> QED
    BY <2>2, <2>3 DEF SuccessOK
<1>9. ASSUME NEW written \in 0 .. 2, FinishWork(written) PROVE SuccessOK'
  <2>1. control.of \in Operations /\ SaveRecord(control.of, Phase, written)
    BY <1>9 DEF FinishWork, WorkerOK
  <2>2. control' = [control EXCEPT !.active = "none", !.phase = Outcome(written)] /\ UNCHANGED told
    BY <1>9 DEF FinishWork
  <2>3. control'.of = control.of /\ control'.phase = Outcome(written)
    BY <2>2 DEF WorkTypeOK, ControlType
  <2>4. written = 2 => taskFile'[control.of] = Phase
    BY <2>1, PhaseTyped, Saved
  <2>5. Outcome(written) = "succeeded" => taskFile'[control.of] = "succeeded"
    BY <2>4 DEF Outcome
  <2>6. latest' = latest \/ (written = 2 /\ latest' = [of |-> control.of, phase |-> Phase])
    BY <2>1, PhaseTyped, Saved
  <2>7. latest'.phase = "succeeded" /\ latest'.of \in Operations => taskFile'[latest'.of] = "succeeded"
    BY <1>1, <2>4, <2>6 DEF SuccessOK, TaskFileMoves
  <2> QED
    BY <1>1, <2>2, <2>3, <2>5, <2>7 DEF SuccessOK, TaskFileMoves
<1>10. CASE WorkerStep
  BY <1>2, <1>9, <1>10
     DEF WorkerStep, Request, WaitEnds, StartReview, DropReview, BeginCall, RunAuthorized, FinishReview, HarnessEnds
<1>11. CASE CancelToken \/ \E ok \in BOOLEAN : Stop(ok)
  BY <1>3, <1>11 DEF CancelToken, Stop, WorkTypeOK, ControlType
<1>12. CASE \/ \E mode \in {"manual", "auto"}, ok \in BOOLEAN : SetMode(mode, ok)
            \/ \E status \in {"approved", "denied"} : Decide(status)
  BY <1>2, <1>12 DEF SetMode, Decide
<1>13. CASE UNCHANGED workVars
  BY <1>2, <1>13 DEF workVars
<1> QED
  BY <1>4, <1>5, <1>6, <1>7, <1>8, <1>10, <1>11, <1>12, <1>13 DEF WorkNext

----------------------------------------------------------------------------
(* The worker.                                                             *)

Holding == {"wait", "review", "begin", "run", "after"}

LEMMA EndedKeeps ==
    ASSUME WorkTypeOK, NEW o, NEW c
    PROVE  Ended(o, c).of = approval.of
BY DEF Ended, WorkTypeOK, ApprovalType

LEMMA WorkerOKStep ==
    ASSUME WorkTypeOK, WorkerOK, RanOK, [WorkNext]_workVars PROVE WorkerOK'
<1>1. CASE worker'.pc = "none"
  BY <1>1 DEF WorkerOK
<1>2. CASE UNCHANGED workVars
  BY <1>2 DEF WorkerOK, workVars
<1>3. CASE /\ UNCHANGED <<worker, taskFile, ran>>
           /\ control'.of = control.of /\ (control.active # "none" => control'.active # "none")
           /\ approval'.of = approval.of /\ workBounds'.lives = workBounds.lives
  BY <1>3 DEF WorkerOK
<1>4. CASE CancelToken \/ TakeResult
  BY <1>3, <1>4 DEF CancelToken, TakeResult, WorkTypeOK, ControlType
<1>5. ASSUME NEW ok \in BOOLEAN, Stop(ok) PROVE WorkerOK'
  <2>1. approval'.of = approval.of
    BY <1>5, EndedKeeps DEF Stop, EndApproval
  <2>2. workBounds'.lives = workBounds.lives
    BY <1>5, WritesTyped DEF Stop
  <2>3. control' = [control EXCEPT !.active = "cancelled"] /\ UNCHANGED <<worker, taskFile, ran>>
    BY <1>5 DEF Stop
  <2> QED
    BY <1>3, <2>1, <2>2, <2>3 DEF WorkTypeOK, ControlType
<1>6. ASSUME NEW status \in {"approved", "denied"}, Decide(status) PROVE WorkerOK'
  BY <1>3, <1>6 DEF Decide, WorkTypeOK, ApprovalType
<1>7. ASSUME NEW mode \in {"manual", "auto"}, NEW ok \in BOOLEAN, SetMode(mode, ok) PROVE WorkerOK'
  <2>1. approval'.of = approval.of
    BY <1>7 DEF SetMode, WorkTypeOK, ApprovalType
  <2>2. workBounds'.lives = workBounds.lives
    BY <1>7 DEF SetMode, WorkTypeOK, BoundsType
  <2> QED
    BY <1>3, <1>7, <2>1, <2>2 DEF SetMode
<1>8. ASSUME control.active = "none", UNCHANGED worker PROVE WorkerOK'
  BY <1>1, <1>8 DEF WorkerOK
<1>9. CASE \/ \E o \in Operations : StartRefused(o)
           \/ \E o \in Operations, same \in BOOLEAN : StartRecorded(o, same)
  BY <1>3, <1>8, <1>9 DEF StartRefused, StartRecorded, Answered
<1>10. ASSUME NEW o \in Operations, NEW written \in 0 .. 2, StartNew(o, written) PROVE WorkerOK'
  <2>1. CASE written = 2
    <3>1. "running" \in WorkPhases /\ SaveRecord(o, "running", written) /\ taskFile[o] = "absent"
      BY <1>10 DEF StartNew, WorkPhases, Recorded
    <3>2. taskFile'[o] = "running"
      BY <2>1, <3>1, Saved
    <3>3. /\ control' = [control EXCEPT !.of = o, !.phase = "running", !.active = "live"]
          /\ worker' = [pc |-> "session", result |-> "none"] /\ ran' = ran
      BY <1>10, <2>1 DEF StartNew
    <3>4. control'.of = o /\ control'.active = "live" /\ worker'.pc = "session"
      BY <3>3 DEF WorkTypeOK, ControlType
    <3>5. ran'[o] = {}
      BY <3>1, <3>3 DEF RanOK
    <3> QED
      BY <3>2, <3>4, <3>5 DEF WorkerOK
  <2>2. CASE written # 2
    BY <1>8, <1>10, <2>2 DEF StartNew
  <2> QED
    BY <2>1, <2>2
<1>11. ASSUME NEW mode \in {"manual", "auto"}, NEW ok \in BOOLEAN, WorkRestart(mode, ok) PROVE WorkerOK'
  BY <1>1, <1>11 DEF WorkRestart, NoWorker
<1>12. ASSUME UNCHANGED <<control, taskFile, ran>>, workBounds'.lives = workBounds.lives, worker.pc # "none",
              worker'.pc \in Holding => approval'.of = control.of
       PROVE  WorkerOK'
  BY <1>12 DEF WorkerOK, Holding
<1>13. ASSUME NEW ok \in BOOLEAN, Request(ok) PROVE WorkerOK'
  <2>1. worker'.pc \in Holding => approval'.of = control.of
    <3>1. CASE ok
      <4>1. approval' = [approval EXCEPT !.of = control.of, !.status = "awaiting", !.reason = "none",
                                         !.auto = FALSE, !.revised = TRUE]
        BY <1>13, <3>1 DEF Request
      <4> QED
        BY <4>1 DEF WorkTypeOK, ApprovalType
    <3>2. CASE ~ok
      <4>1. worker' = [pc |-> "end", result |-> "error"]
        BY <1>13, <3>2 DEF Request, Fails
      <4> QED
        BY <4>1 DEF Holding
    <3> QED
      BY <3>1, <3>2
  <2> QED
    BY <1>12, <1>13, <2>1 DEF Request
<1>14. CASE WaitEnds \/ DropReview \/ RunAuthorized \/ \E result \in {"ok", "error"} : HarnessEnds(result)
  BY <1>12, <1>14 DEF WaitEnds, DropReview, RunAuthorized, HarnessEnds, WorkerOK
<1>15. CASE StartReview
  BY <1>12, <1>15 DEF StartReview, WorkerOK, WorkTypeOK, ApprovalType
<1>16. CASE BeginCall
  <2>1. CASE UNCHANGED <<approval, ran>>
    BY <1>12, <1>16, <2>1 DEF BeginCall, WorkerOK
  <2>2. CASE /\ approval' = [approval EXCEPT !.operation = "live"]
             /\ ran' = [ran EXCEPT ![control.of] = @ \cup {workBounds.lives}]
    <3>1. approval'.of = control.of /\ control.of \in Operations /\ ran[control.of] \subseteq {workBounds.lives}
          /\ control.active # "none" /\ taskFile[control.of] = "running"
      BY <1>16, <2>2 DEF BeginCall, WorkerOK, WorkTypeOK, ApprovalType
    <3>2. ran'[control.of] \subseteq {workBounds.lives}
      BY <2>2, <3>1 DEF WorkTypeOK
    <3>3. UNCHANGED <<control, taskFile, workBounds>>
      BY <1>16 DEF BeginCall
    <3> QED
      BY <3>1, <3>2, <3>3 DEF WorkerOK
  <2> QED
    BY <1>16, <2>1, <2>2 DEF BeginCall
<1>17. ASSUME NEW status \in Statuses, NEW ok \in BOOLEAN, FinishReview(status, ok) PROVE WorkerOK'
  <2>1. approval'.of = approval.of
    <3>1. CASE Cancelled
      BY <1>17, <3>1, EndedKeeps DEF FinishReview, EndApproval
    <3>2. CASE ~Cancelled /\ Revised
      BY <1>17, <3>2 DEF FinishReview
    <3>3. CASE ~Cancelled /\ ~Revised
      <4> DEFINE unsure == [approval EXCEPT !.status = "awaiting", !.reason = "unsure"]
                 judged == [approval EXCEPT !.status = status,
                                            !.reason = IF status = "awaiting" THEN "unsure" ELSE "review"]
                 next == IF ok THEN judged ELSE unsure
      <4>1. next \in ApprovalType /\ next.of = approval.of
        BY DEF WorkTypeOK, ApprovalType, Statuses, Reasons
      <4>2. approval' = [next EXCEPT !.auto = next.status = "approved", !.revised = TRUE]
        BY <1>17, <3>3 DEF FinishReview
      <4> QED
        BY <4>1, <4>2 DEF ApprovalType
    <3> QED
      BY <3>1, <3>2, <3>3
  <2>2. workBounds'.lives = workBounds.lives
    BY <1>17, WritesTyped DEF FinishReview
  <2> QED
    BY <1>12, <1>17, <2>1, <2>2 DEF FinishReview, WorkerOK
<1>18. ASSUME NEW written \in 0 .. 2, FinishWork(written) PROVE WorkerOK'
  BY <1>1, <1>18 DEF FinishWork, NoWorker
<1>19. CASE WorkerStep
  BY <1>13, <1>14, <1>15, <1>16, <1>17, <1>18, <1>19 DEF WorkerStep
<1> QED
  BY <1>2, <1>4, <1>5, <1>6, <1>7, <1>9, <1>10, <1>11, <1>19 DEF WorkNext

LEMMA RanOKStep ==
    ASSUME WorkTypeOK, WorkerOK, RanOK, [WorkNext]_workVars PROVE RanOK'
<1>1. TaskFileMoves
  BY RecordsMove
<1>2. CASE UNCHANGED ran
  BY <1>1, <1>2 DEF RanOK, TaskFileMoves
<1>3. CASE BeginCall /\ ~UNCHANGED ran
  <2>1. /\ ran' = [ran EXCEPT ![control.of] = @ \cup {workBounds.lives}]
        /\ UNCHANGED <<taskFile, control, workBounds>>
    BY <1>3 DEF BeginCall
  <2>2. control.of \in Operations /\ taskFile[control.of] = "running" /\ ran[control.of] \subseteq {workBounds.lives}
    BY <1>3 DEF BeginCall, WorkerOK
  <2>3. ran'[control.of] \subseteq {workBounds.lives}
    BY <2>1, <2>2 DEF WorkTypeOK
  <2>4. workBounds.lives \in 1 .. MaxLives
    BY BoundsRoom DEF WorkTypeOK
  <2>5. \A o \in Operations : o # control.of => ran'[o] = ran[o]
    BY <2>1 DEF WorkTypeOK
  <2> QED
    BY <2>1, <2>2, <2>3, <2>4, <2>5 DEF RanOK
<1> QED
  BY <1>2, <1>3
     DEF WorkNext, workVars, WorkerStep, CancelToken, TakeResult, Stop, StartRefused, StartRecorded, StartNew,
         SetMode, WorkRestart, Decide, Request, WaitEnds, StartReview, DropReview, RunAuthorized, FinishReview,
         HarnessEnds, FinishWork

----------------------------------------------------------------------------
(* The approval.                                                           *)

LEMMA EndedFacts ==
    ASSUME WorkTypeOK, NEW o \in Operations, NEW c \in BOOLEAN
    PROVE  /\ Ended(o, c).of = approval.of /\ Ended(o, c).mode = approval.mode
           /\ Ended(o, c).reason = approval.reason
           /\ Ended(o, c).status \in {approval.status, "cancelled"}
           /\ Ended(o, c).revised = approval.revised \/ Ended(o, c).revised = TRUE
           /\ Ended(o, c).operation = "live" => Ended(o, c) = approval
           /\ c /\ approval.of = o => Ended(o, c).status # "approved"
           /\ approval.of # o => Ended(o, c) = approval
BY DEF Ended, Cut, WorkTypeOK, ApprovalType, Tokens

LEMMA EndKeepsApproval ==
    ASSUME WorkTypeOK, ApprovalOK, NEW o \in Operations, NEW c \in BOOLEAN, NEW ok \in BOOLEAN,
           EndApproval(o, c, ok)
    PROVE  approval'.status = "approved" => /\ approval.status = "approved"
                                            /\ journal' = [of |-> approval'.of, status |-> "approved"]
BY EndedFacts DEF EndApproval, ApprovalOK

LEMMA ApprovalStep ==
    ASSUME WorkTypeOK, WorkerOK, ApprovalOK, [WorkNext]_workVars PROVE ApprovalOK'
<1>1. ASSUME UNCHANGED <<approval, journal>>, control'.active = "live" => control.active = "live",
             worker'.pc \in {"wait", "review", "begin", "run", "after"}
                => worker.pc \in {"wait", "review", "begin", "run", "after"},
             worker'.pc = "review" => worker.pc = "review",
             worker'.pc = "run" => worker.pc = "run"
      PROVE  ApprovalOK'
  BY <1>1 DEF ApprovalOK
<1>2. ASSUME UNCHANGED <<approval, journal>>, worker'.pc = "none" PROVE ApprovalOK'
  BY <1>2 DEF ApprovalOK
<1>3. CASE UNCHANGED workVars
  BY <1>1, <1>3 DEF workVars
<1>4. CASE CancelToken \/ TakeResult
  BY <1>1, <1>4 DEF CancelToken, TakeResult, WorkTypeOK, ControlType
<1>5. CASE \/ \E o \in Operations : StartRefused(o)
           \/ \E o \in Operations, same \in BOOLEAN : StartRecorded(o, same)
  BY <1>1, <1>5 DEF StartRefused, StartRecorded, Answered
<1>6. ASSUME NEW o \in Operations, NEW written \in 0 .. 2, StartNew(o, written) PROVE ApprovalOK'
  <2>1. worker'.pc \in {worker.pc, "session"} /\ (worker'.pc = "session" \/ control' = control)
    BY <1>6 DEF StartNew
  <2>2. UNCHANGED <<approval, journal>>
    BY <1>6 DEF StartNew
  <2>3. worker.pc = "none"
    BY <1>6 DEF StartNew, WorkerOK
  <2> QED
    BY <2>1, <2>2, <2>3 DEF ApprovalOK
<1>7. ASSUME NEW ok \in BOOLEAN, Stop(ok) PROVE ApprovalOK'
  <2>1. CASE worker.pc = "none"
    <3>1. approval'.status = "approved" => journal' = [of |-> approval'.of, status |-> "approved"]
      <4>1. CASE control.of \in Operations
        BY <1>7, <4>1, EndKeepsApproval DEF Stop
      <4>2. CASE control.of \notin Operations
        BY <1>7 DEF Stop, EndApproval, Ended, ApprovalOK, WorkTypeOK, ApprovalType, Journal
      <4> QED
        BY <4>1, <4>2
    <3> QED
      BY <1>7, <2>1, <3>1 DEF Stop, ApprovalOK
  <2>2. CASE worker.pc # "none"
    <3>1. control.of \in Operations /\ EndApproval(control.of, TRUE, ok) /\ worker' = worker
      BY <1>7, <2>2 DEF WorkerOK, Stop
    <3>2. approval' = Ended(control.of, TRUE)
      BY <3>1 DEF EndApproval
    <3>3. /\ approval'.of = approval.of /\ approval'.mode = approval.mode /\ approval'.reason = approval.reason
          /\ approval'.revised = approval.revised \/ approval'.revised = TRUE
          /\ approval.of = control.of => approval'.status # "approved"
          /\ approval'.status = "approved" => journal' = [of |-> approval'.of, status |-> "approved"]
      BY <3>1, <3>2, EndedFacts, EndKeepsApproval
    <3>4. control'.active # "live"
      BY <1>7 DEF Stop, WorkTypeOK, ControlType
    <3> QED
      BY <3>1, <3>3, <3>4 DEF ApprovalOK, WorkerOK
  <2> QED
    BY <2>1, <2>2
<1>8. ASSUME NEW status \in {"approved", "denied"}, Decide(status) PROVE ApprovalOK'
  <2>1. /\ approval' = [approval EXCEPT !.status = status, !.reason = "user", !.auto = FALSE, !.revised = TRUE]
        /\ journal' = [of |-> approval'.of, status |-> approval'.status]
        /\ UNCHANGED <<worker, control>> /\ approval.status # "approved"
    BY <1>8 DEF Decide, Journal, Undecided
  <2>2. /\ approval'.reason = "user" /\ approval'.revised = TRUE
        /\ approval'.operation = approval.operation
    BY <2>1 DEF WorkTypeOK, ApprovalType
  <2> QED
    BY <2>1, <2>2 DEF ApprovalOK
<1>9. ASSUME NEW mode \in {"manual", "auto"}, NEW ok \in BOOLEAN, SetMode(mode, ok) PROVE ApprovalOK'
  <2> DEFINE revoke == mode = "manual" /\ approval.auto
             asksAgain == Undecided(approval) \/ (revoke /\ approval.status = "approved")
             asked == [approval EXCEPT !.status = "awaiting", !.reason = IF ok THEN "none" ELSE "unsure"]
             next == IF asksAgain THEN asked ELSE approval
  <2>1. /\ approval' = [next EXCEPT !.mode = mode, !.auto = FALSE, !.revised = TRUE,
                                    !.operation = IF revoke THEN Cut(next.operation) ELSE next.operation]
        /\ ~asksAgain => journal' = journal
        /\ UNCHANGED <<worker, control>> /\ mode # approval.mode
    BY <1>9 DEF SetMode
  <2>2. next \in ApprovalType /\ next.of = approval.of /\ next.operation = approval.operation
    BY DEF WorkTypeOK, ApprovalType, Statuses, Reasons
  <2>3. /\ approval'.status = next.status /\ approval'.of = approval.of /\ approval'.reason = next.reason
        /\ approval'.revised = TRUE
        /\ approval'.operation = IF revoke THEN Cut(next.operation) ELSE next.operation
    BY <2>1, <2>2 DEF ApprovalType
  <2>4. CASE asksAgain
    <3>1. next.status = "awaiting"
      BY <2>4 DEF WorkTypeOK, ApprovalType
    <3>2. approval'.operation = "live" => approval.operation = "live" /\ ~revoke
      BY <2>2, <2>3 DEF Cut
    <3>3. approval.status # "approved" \/ revoke
      BY <2>4 DEF Undecided
    <3> QED
      BY <2>1, <2>3, <3>1, <3>2, <3>3 DEF ApprovalOK
  <2>5. CASE ~asksAgain
    <3>1. next = approval
      BY <2>5
    <3>2. approval'.operation = "live" => approval.operation = "live"
      BY <2>2, <2>3 DEF Cut
    <3>3. approval.status = "approved" => ~revoke
      BY <2>5
    <3>4. approval.status = "approved" /\ worker.pc \in {"wait", "review", "begin", "run", "after"}
             => approval.reason = "user"
      BY <2>1, <3>3 DEF ApprovalOK
    <3> QED
      BY <2>1, <2>3, <2>5, <3>1, <3>2, <3>4 DEF ApprovalOK
  <2> QED
    BY <2>4, <2>5
<1>10. ASSUME NEW mode \in {"manual", "auto"}, NEW ok \in BOOLEAN, WorkRestart(mode, ok) PROVE ApprovalOK'
  BY <1>10 DEF WorkRestart, NewApproval, NoWorker, ApprovalOK
<1>11. ASSUME NEW ok \in BOOLEAN, Request(ok) PROVE ApprovalOK'
  <2>1. CASE ok
    <3>1. approval'.status = "awaiting" /\ worker' = [worker EXCEPT !.pc = "wait"]
      BY <1>11, <2>1 DEF Request, ToWorker, WorkTypeOK, ApprovalType
    <3> QED
      BY <3>1 DEF ApprovalOK, WorkTypeOK, WorkerType
  <2>2. CASE ~ok
    BY <1>1, <1>11, <2>2 DEF Request, Fails
  <2> QED
    BY <2>1, <2>2
<1>12. CASE WaitEnds \/ DropReview \/ RunAuthorized \/ \E result \in {"ok", "error"} : HarnessEnds(result)
  <2>1. UNCHANGED <<approval, journal, control>>
    BY <1>12 DEF WaitEnds, DropReview, RunAuthorized, HarnessEnds
  <2>2. worker.pc \in {"wait", "review", "after", "run"} /\ worker'.pc \in {"begin", "end", "wait", "after"}
    BY <1>12 DEF WaitEnds, DropReview, RunAuthorized, HarnessEnds, ToWorker, Fails, WorkTypeOK, WorkerType
  <2> QED
    BY <1>1, <2>1, <2>2
<1>13. CASE StartReview
  <2>1. /\ approval' = [approval EXCEPT !.status = "reviewing", !.revised = FALSE] /\ MayReview
        /\ worker' = [worker EXCEPT !.pc = "review"]
    BY <1>13 DEF StartReview, ToWorker
  <2>2. /\ approval'.status = "reviewing" /\ approval'.mode = approval.mode /\ approval'.of = approval.of
        /\ worker'.pc = "review"
    BY <2>1 DEF WorkTypeOK, ApprovalType, WorkerType
  <2> QED
    BY <2>1, <2>2 DEF MayReview, ApprovalOK
<1>14. CASE BeginCall
  <2>1. CASE Cancelled \/ approval.status # "approved"
    <3>1. worker' = [worker EXCEPT !.pc = "wait"] /\ UNCHANGED <<approval, journal, control>> /\ worker.pc = "begin"
      BY <1>14, <2>1 DEF BeginCall, ToWorker
    <3> QED
      BY <1>1, <3>1 DEF WorkTypeOK, WorkerType
  <2>2. CASE ~(Cancelled \/ approval.status # "approved")
    <3>1. /\ approval' = [approval EXCEPT !.operation = "live"] /\ worker' = [worker EXCEPT !.pc = "run"]
          /\ UNCHANGED <<journal, control>> /\ worker.pc = "begin"
      BY <1>14, <2>2 DEF BeginCall, ToWorker
    <3>2. /\ approval'.status = "approved" /\ approval'.of = approval.of /\ approval'.reason = approval.reason
          /\ approval'.auto = approval.auto /\ approval'.mode = approval.mode
          /\ worker'.pc = "run"
      BY <2>2, <3>1 DEF WorkTypeOK, ApprovalType, WorkerType
    <3> QED
      BY <2>2, <3>1, <3>2 DEF ApprovalOK
  <2> QED
    BY <2>1, <2>2
<1>15. ASSUME NEW status \in Statuses, NEW ok \in BOOLEAN, FinishReview(status, ok) PROVE ApprovalOK'
  <2>1. CASE Cancelled
    <3>1. /\ control.of \in Operations /\ EndApproval(control.of, TRUE, ok)
          /\ worker' = [pc |-> "end", result |-> "error"]
      BY <1>15, <2>1 DEF FinishReview, Fails, WorkerOK
    <3> QED
      BY <3>1, EndKeepsApproval DEF ApprovalOK
  <2>2. CASE ~Cancelled /\ Revised
    <3>1. worker' = [worker EXCEPT !.pc = "wait"] /\ UNCHANGED <<approval, journal, control>>
          /\ worker.pc = "review"
      BY <1>15, <2>2 DEF FinishReview, ToWorker
    <3> QED
      BY <1>1, <3>1 DEF WorkTypeOK, WorkerType
  <2>3. CASE ~Cancelled /\ ~Revised
    <3> DEFINE unsure == [approval EXCEPT !.status = "awaiting", !.reason = "unsure"]
               judged == [approval EXCEPT !.status = status,
                                          !.reason = IF status = "awaiting" THEN "unsure" ELSE "review"]
               next == IF ok THEN judged ELSE unsure
    <3>1. /\ approval' = [next EXCEPT !.auto = next.status = "approved", !.revised = TRUE] /\ Journal(ok, judged)
          /\ worker' = [worker EXCEPT !.pc = "wait"]
      BY <1>15, <2>3 DEF FinishReview, ToWorker
    <3>2. /\ next \in ApprovalType /\ next.of = approval.of /\ next.mode = approval.mode
          /\ next.status = "approved" => ok
          /\ judged.status = status /\ judged.of = approval.of
      BY DEF WorkTypeOK, ApprovalType, Statuses, Reasons
    <3>3. /\ approval'.status = next.status /\ approval'.of = approval.of /\ approval'.mode = approval.mode
          /\ approval'.auto = (next.status = "approved") /\ worker'.pc = "wait"
      BY <3>1, <3>2 DEF ApprovalType, WorkTypeOK, WorkerType
    <3>4. approval.mode = "auto" /\ approval.of \in InsideRoot
      BY <1>15, <2>3 DEF FinishReview, Revised, ApprovalOK
    <3>5. next.status = "approved" => journal' = [of |-> approval.of, status |-> "approved"]
      BY <3>1, <3>2 DEF Journal
    <3> QED
      BY <3>3, <3>4, <3>5 DEF ApprovalOK
  <2> QED
    BY <2>1, <2>2, <2>3
<1>16. ASSUME NEW written \in 0 .. 2, FinishWork(written) PROVE ApprovalOK'
  <2>1. control.of \in Operations /\ EndApproval(control.of, Cancelled, TRUE) /\ Cancelled \in BOOLEAN
    BY <1>16 DEF FinishWork, WorkerOK, Cancelled
  <2>2. worker'.pc = "none"
    BY <1>16 DEF FinishWork, NoWorker
  <2> QED
    BY <2>1, <2>2, EndKeepsApproval DEF ApprovalOK
<1>17. CASE WorkerStep
  BY <1>11, <1>12, <1>13, <1>14, <1>15, <1>16, <1>17 DEF WorkerStep
<1> QED
  BY <1>3, <1>4, <1>5, <1>6, <1>7, <1>8, <1>9, <1>10, <1>17 DEF WorkNext

----------------------------------------------------------------------------
(* The theorems.                                                           *)

WorkInv == WorkTypeOK /\ WorkerOK /\ RanOK /\ ApprovalOK /\ SuccessOK

LEMMA WorkInvInit == WorkInit => WorkInv
<1> SUFFICES ASSUME WorkInit PROVE WorkInv
  OBVIOUS
<1>1. PICK mode \in {"manual", "auto"} : approval = NewApproval(mode)
  BY DEF WorkInit
<1>2. approval \in ApprovalType
  BY <1>1 DEF NewApproval, ApprovalType, Named, Statuses, Reasons, Tokens
<1>3. control \in ControlType /\ worker \in WorkerType
  BY DEF WorkInit, NoControl, ControlType, NoWorker, WorkerType, Named, WorkPhases, Tokens
<1>4. workBounds \in BoundsType /\ workBounds.lives \in 1 .. MaxLives
  BY WorkAssumption DEF WorkInit, BoundsType
<1>5. WorkTypeOK
  BY <1>2, <1>3, <1>4 DEF WorkInit, WorkTypeOK, Named, Statuses, WorkPhases
<1>6. WorkerOK /\ SuccessOK
  BY DEF WorkInit, WorkerOK, SuccessOK, NoWorker, NoControl
<1>7. RanOK
  BY <1>4 DEF WorkInit, RanOK
<1>8. ApprovalOK
  BY <1>1 DEF WorkInit, ApprovalOK, NewApproval, NoWorker
<1> QED
  BY <1>5, <1>6, <1>7, <1>8 DEF WorkInv

LEMMA WorkInvStep == WorkInv /\ [WorkNext]_workVars => WorkInv'
BY WorkTypeStep, WorkerOKStep, RanOKStep, ApprovalStep, SuccessStep DEF WorkInv

LEMMA WorkInvAlways == WorkSpec => []WorkInv
BY WorkInvInit, WorkInvStep, PTL DEF WorkSpec

(* Every variable of the work keeps its type, whatever the user, the turn, *)
(* the reviewer, the harness and the disk do.                              *)
THEOREM WorkTypeCorrect == WorkSpec => []WorkTypeOK
<1>1. WorkInv => WorkTypeOK
  BY DEF WorkInv
<1> QED
  BY <1>1, WorkInvAlways, PTL

(* However often the program ends and a turn asks again, and whichever of  *)
(* the two writes of a record fails, a harness runs an operation in one    *)
(* life of the program at most: start answers from the record.             *)
THEOREM RunsOnce == WorkSpec => []RunsInOneLife
<1>1. RanOK => RunsInOneLife
  <2> SUFFICES ASSUME RanOK, NEW o \in Operations PROVE Cardinality(ran[o]) <= 1
    BY DEF RunsInOneLife
  <2>1. PICK l \in 1 .. MaxLives : ran[o] \subseteq {l}
    BY DEF RanOK
  <2>2. IsFiniteSet({l}) /\ Cardinality({l}) = 1
    BY FS_Singleton
  <2> QED
    BY <2>1, <2>2, FS_Subset
<1>2. WorkInv => RunsInOneLife
  BY <1>1 DEF WorkInv
<1> QED
  BY <1>2, WorkInvAlways, PTL

(* Whatever the user decides, and whenever the approval mode changes while *)
(* a reviewer is asked, a harness that may go on has an approval that is   *)
(* on record, and the user's own where no review may give one.             *)
THEOREM WorksApproved == WorkSpec => []WorksOnApproval
<1>1. WorkerOK /\ ApprovalOK => WorksOnApproval
  BY DEF WorkerOK, ApprovalOK, WorksOnApproval
<1>2. WorkInv => WorksOnApproval
  BY <1>1 DEF WorkInv
<1> QED
  BY <1>2, WorkInvAlways, PTL

(* A success that was saved or told is never taken back, by a later        *)
(* operation, by a restart or by a write that fails.                       *)
THEOREM SuccessStays == WorkSpec => SuccessIsDurable
<1> DEFINE Stays == \A o \in Operations :
                       /\ told'[o] = "succeeded" => taskFile'[o] = "succeeded"
                       /\ taskFile[o] = "succeeded" => taskFile'[o] = "succeeded"
<1>1. WorkInv /\ [WorkNext]_workVars => [Stays]_workVars
  <2> SUFFICES ASSUME WorkInv, [WorkNext]_workVars PROVE Stays
    OBVIOUS
  <2>1. TaskFileMoves /\ SuccessOK'
    BY RecordsMove, SuccessStep DEF WorkInv
  <2> QED
    BY <2>1 DEF TaskFileMoves, SuccessOK
<1> QED
  BY <1>1, WorkInvAlways, PTL DEF WorkSpec, SuccessIsDurable
==============================================================================
