---------------------------- MODULE ProactiveTurn ----------------------------
(***************************************************************************)
(* What the companion says of its own accord (crates/core/src/companion.rs,*)
(* companion_persistence.rs, companion_delivery.rs, usage.rs) and the work *)
(* it offers with it (work/offer.rs, companion_work.rs).                   *)
(*                                                                         *)
(* A turn looks at observations, calls the provider and commits what came  *)
(* of it in several files, unless the user has spoken meanwhile: the user  *)
(* epoch of the cursor fences the commit, and the offer store has an epoch *)
(* of its own that follows it.  A commit cut short by an error or a crash  *)
(* leaves a marker that recovery finishes or gives up.                     *)
(*                                                                         *)
(* One conversation and one day; the queue of user messages is the one of  *)
(* UserTurn, reduced to the messages it holds.                             *)
(***************************************************************************)
EXTENDS Integers, FiniteSets

CONSTANTS Observations,
          MaxTurns,       \* bound: proactive turns
          MaxMessages,    \* bound: messages the user sends
          MaxTurnFaults   \* bound: failed writes and crashes

ASSUME TurnAssumption == MaxTurns \in Nat /\ MaxMessages \in Nat

VARIABLES inbox,     \* cursor: user_epoch and runnable pending_inputs; answered or cancelled ones
          marker,    \* cursor: active_turn_commit
          delivery,  \* cursor: pending_deliveries, by turn
          done,      \* cursor: ids of completed observations
          spoken,    \* conversation log: remarks
          sent,      \* outbox: remarks
          usage,     \* companion usage: proactive_calls and proactive_emit_ids
          offers,    \* WorkOfferStore
          candidate, \* what each turn has come up with
          lane,      \* the companion, working on one thing at a time
          arrival,   \* a user action under turn_commit_lock, or its recovery
          turnBounds, \* messages and faults so far
          counted, taken \* history: remarks counted, inputs newly queued per offer

turnVars == <<inbox, marker, delivery, done, spoken, sent, usage, offers, candidate, lane,
              arrival, turnBounds, counted, taken>>

Turns == 1 .. MaxTurns
Messages == 1 .. MaxMessages
Acceptance(t) == MaxMessages + t   \* accepted_input_id
Inputs == Messages \cup {Acceptance(t) : t \in Turns}
NoTurn == 0

LockedSteps == {"mark", "quiet", "prepare", "offer", "count", "append", "publish", "marked",
                "complete", "forget", "void", "final"}
LaneSteps == LockedSteps \cup {"down", "start", "idle", "call", "recover", "restore",
                               "resume", "clear", "retry"}
OfferStatuses == {"none", "proposed", "accepted", "declined", "ignored", "invalidated"}

TurnTypeOK ==
    /\ inbox.epoch \in 0 .. (MaxMessages + MaxTurns)
    /\ inbox.users \subseteq Inputs /\ inbox.answered \subseteq Inputs
    /\ inbox.cancelled \subseteq Inputs
    /\ marker \in [turn : 0 .. MaxTurns, phase : {"none", "reserved", "persisting"},
                   epoch : 0 .. (MaxMessages + MaxTurns)]
    /\ delivery \in [Turns -> {"none", "pending", "enqueued"}]
    /\ done \subseteq Observations /\ spoken \subseteq Turns /\ sent \subseteq Turns
    /\ usage.calls \in 0 .. MaxTurns /\ usage.ids \subseteq Turns /\ usage.limit \in {1, MaxTurns}
    /\ offers.status \in [Turns -> OfferStatuses] /\ offers.owed \subseteq Turns
    /\ offers.epoch \in 0 .. (MaxMessages + MaxTurns)
    /\ lane.pc \in LaneSteps /\ lane.turn \in 0 .. MaxTurns
    /\ lane.then \in {"final", "clear", "retry"} /\ lane.blocked \in BOOLEAN
    /\ lane.ready \in BOOLEAN
    /\ arrival.input \in {0} \cup Inputs
    /\ arrival.step \in {"none", "enqueue", "reconcile", "settle"}

TurnInit ==
    /\ inbox = [epoch |-> 0, users |-> {}, answered |-> {}, cancelled |-> {}]
    /\ marker = [turn |-> NoTurn, phase |-> "none", epoch |-> 0]
    /\ delivery = [t \in Turns |-> "none"]
    /\ done = {} /\ spoken = {} /\ sent = {}
    /\ usage = [calls |-> 0, ids |-> {}, limit |-> MaxTurns]
    /\ offers = [epoch |-> 0, status |-> [t \in Turns |-> "none"],
                 at |-> [t \in Turns |-> 0], owed |-> {}]
    /\ candidate = [t \in Turns |-> [obs |-> {}, emit |-> FALSE, offer |-> FALSE]]
    /\ lane = [pc |-> "idle", turn |-> NoTurn, last |-> 0, epoch |-> 0, then |-> "retry",
               blocked |-> FALSE, ready |-> TRUE]
    /\ arrival = [input |-> 0, step |-> "none"]
    /\ turnBounds = [messages |-> 0, faults |-> 0]
    /\ counted = {} /\ taken = [t \in Turns |-> 0]

NoMarker == [turn |-> NoTurn, phase |-> "none", epoch |-> 0]
Go(pc) == lane' = [lane EXCEPT !.pc = pc]
PendingRemarks == {t \in Turns : delivery[t] # "none"}
TurnFault == /\ turnBounds.faults < MaxTurnFaults
             /\ turnBounds' = [turnBounds EXCEPT !.faults = @ + 1]

----------------------------------------------------------------------------
(* The offer store.                                                        *)

\* Mutant: the open offer survives the message.
ReconciledEpoch(s, epoch) == IF s.epoch >= epoch THEN s ELSE [s EXCEPT !.epoch = epoch]

\* reconcile_user_epoch: the user has spoken since the open offer was made.
Reconciled(s, epoch) ==
    IF s.epoch >= epoch THEN s
    ELSE [s EXCEPT !.epoch = epoch, !.status =
             [t \in Turns |-> IF @[t] = "proposed" THEN "ignored" ELSE @[t]]]

\* propose: none from an old epoch, none beside another of this epoch or an
\* open one; the same turn gets back what it made.
MayPropose(s, t, epoch) ==
    /\ s.epoch = epoch
    /\ \A u \in Turns : s.status[u] # "none" /\ u # t => s.status[u] # "proposed" /\ s.at[u] # epoch

Proposed(s, t, epoch) ==
    IF s.status[t] = "none" /\ MayPropose(s, t, epoch)
    THEN [s EXCEPT !.status[t] = "proposed", !.at[t] = epoch] ELSE s

\* commit_work_offer: whether the turn has an open offer afterwards.
Propose(t, epoch) == offers' = Proposed(offers, t, epoch)
IsOpen(s, t, epoch) == s.epoch = epoch /\ s.status[t] = "proposed"

----------------------------------------------------------------------------
(* The user.                                                               *)

\* What the user does is excluded from a commit by turn_commit_lock.
Unlocked == arrival.step = "none" /\ ~(lane.pc \in LockedSteps /\ lane.then = "final")
Up == lane.pc \notin {"down", "start"}

Queued(i) == [inbox EXCEPT !.epoch = @ + 1, !.users = @ \cup {i}]

\* prepare_for_runtime: enqueue_user_input, and then the offer store follows.
UserSpeaks ==
    LET m == turnBounds.messages + 1
    IN
    /\ Up /\ Unlocked /\ m <= MaxMessages
    /\ turnBounds' = [turnBounds EXCEPT !.messages = m]
    /\ inbox' = Queued(m)
    /\ arrival' = [input |-> m, step |-> "reconcile"]
    /\ UNCHANGED <<marker, delivery, done, spoken, sent, usage, offers, candidate, lane,
                   counted, taken>>

\* accept_work_offer: store.accept.
AcceptOffer(t) ==
    /\ Up /\ Unlocked /\ offers.status[t] = "proposed"
    /\ offers' = [offers EXCEPT !.status[t] = "accepted", !.owed = @ \cup {t}]
    /\ arrival' = [input |-> Acceptance(t), step |-> "enqueue"]
    /\ UNCHANGED <<inbox, marker, delivery, done, spoken, sent, usage, candidate, lane,
                   turnBounds, counted, taken>>

\* decline_work_offer
DeclineOffer(t) ==
    /\ Up /\ Unlocked /\ offers.status[t] = "proposed"
    /\ offers' = [offers EXCEPT !.status[t] = "declined"]
    /\ UNCHANGED <<inbox, marker, delivery, done, spoken, sent, usage, candidate, lane,
                   arrival, turnBounds, counted, taken>>

\* persist_accepted_work_offer_input: the input is queued once under its id.
EnqueueAccepted ==
    /\ arrival.step = "enqueue" /\ arrival.input \notin inbox.cancelled
    /\ arrival' = [arrival EXCEPT !.step = "reconcile"]
    /\ IF arrival.input \in inbox.users
       THEN UNCHANGED <<inbox, taken>>
       ELSE /\ inbox' = Queued(arrival.input)
            /\ taken' = [taken EXCEPT ![arrival.input - MaxMessages] = @ + 1]
    /\ UNCHANGED <<marker, delivery, done, spoken, sent, usage, offers, candidate, lane,
                   turnBounds, counted>>

ReconcileArrival ==
    /\ arrival.step = "reconcile"
    /\ offers' = Reconciled(offers, inbox.epoch)
    /\ arrival' = IF arrival.input \in Messages THEN [input |-> 0, step |-> "none"]
                  ELSE [arrival EXCEPT !.step = "settle"]
    /\ UNCHANGED <<inbox, marker, delivery, done, spoken, sent, usage, candidate, lane,
                   turnBounds, counted, taken>>

\* complete_acceptance_enqueue
SettleAccepted ==
    /\ arrival.step = "settle"
    /\ offers' = [offers EXCEPT !.owed = @ \ {arrival.input - MaxMessages}]
    /\ arrival' = [input |-> 0, step |-> "none"]
    /\ UNCHANGED <<inbox, marker, delivery, done, spoken, sent, usage, candidate, lane,
                   turnBounds, counted, taken>>

\* A user turn takes and answers a message, once recover_active_turn_commit has
\* left no commit in its way.
AnswerUser(i) ==
    /\ lane.pc = "idle" /\ marker.phase = "none" /\ i \in inbox.users
    /\ inbox' = [inbox EXCEPT !.users = @ \ {i}, !.answered = @ \cup {i}]
    /\ UNCHANGED <<marker, delivery, done, spoken, sent, usage, offers, candidate, lane,
                   arrival, turnBounds, counted, taken>>

\* The user takes back a message the desktop knows of.
CancelUser(i) ==
    /\ Up /\ arrival.step = "none" /\ i \in inbox.users
    /\ inbox' = [inbox EXCEPT !.users = @ \ {i}, !.cancelled = @ \cup {i}]
    /\ UNCHANGED <<marker, delivery, done, spoken, sent, usage, offers, candidate, lane,
                   arrival, turnBounds, counted, taken>>

\* The daily limit is reconfigured.
LowerLimit ==
    /\ Up /\ usage.limit = MaxTurns /\ lane.pc \notin LockedSteps
    /\ usage' = [usage EXCEPT !.limit = 1]
    /\ UNCHANGED <<inbox, marker, delivery, done, spoken, sent, offers, candidate, lane,
                   arrival, turnBounds, counted, taken>>

----------------------------------------------------------------------------
(* A turn and its commit.                                                  *)

\* Mutant: completed observations are looked at again.
UnseenOrDone == Observations

Unseen == Observations \ done

\* process_observations_candidate: some observations that are neither completed
\* nor part of a pending remark; the epoch is read before the call.  At the
\* limit the turn stays silent.
BeginProactive(obs, emit, offer) ==
    LET t == lane.last + 1
    IN
    /\ lane.pc = "idle" /\ t \in Turns
    /\ marker.phase = "none" /\ PendingRemarks = {} /\ ~lane.blocked /\ inbox.users = {}
    /\ obs # {} /\ obs \subseteq Unseen
    /\ emit => usage.calls < usage.limit
    /\ offer => emit
    /\ candidate' = [candidate EXCEPT ![t] = [obs |-> obs, emit |-> emit, offer |-> offer]]
    /\ lane' = [lane EXCEPT !.pc = "call", !.turn = t, !.last = t, !.epoch = inbox.epoch,
                            !.then = "final"]
    /\ UNCHANGED <<inbox, marker, delivery, done, spoken, sent, usage, offers, arrival,
                   turnBounds, counted, taken>>

\* The call fails, or the candidate is discarded because the user came first;
\* reserve_proactive_commit otherwise.
ReserveTurn ==
    /\ lane.pc = "call"
    /\ \/ Go("idle") /\ UNCHANGED marker
       \/ /\ Unlocked
          /\ inbox.epoch = lane.epoch /\ inbox.users = {} /\ marker.phase = "none"
          /\ marker' = [turn |-> lane.turn, phase |-> "reserved", epoch |-> lane.epoch]
          /\ Go("mark")
    /\ UNCHANGED <<inbox, delivery, done, spoken, sent, usage, offers, candidate, arrival,
                   turnBounds, counted, taken>>

\* mark_turn_commit_persisting
MarkTurn ==
    /\ lane.pc = "mark"
    /\ marker' = [marker EXCEPT !.phase = "persisting"]
    /\ Go(IF candidate[lane.turn].emit THEN "prepare" ELSE "quiet")
    /\ UNCHANGED <<inbox, delivery, done, spoken, sent, usage, offers, candidate, arrival,
                   turnBounds, counted, taken>>

\* complete_observations_for_turn, when nothing is said.
CompleteQuietly ==
    /\ lane.pc = "quiet"
    /\ done' = done \cup candidate[lane.turn].obs
    /\ Go("final")
    /\ UNCHANGED <<inbox, marker, delivery, spoken, sent, usage, offers, candidate, arrival,
                   turnBounds, counted, taken>>

\* prepare_pending_remark
PrepareRemark ==
    /\ lane.pc = "prepare"
    /\ delivery' = [delivery EXCEPT ![lane.turn] = "pending"]
    /\ Go(IF candidate[lane.turn].offer THEN "offer" ELSE "count")
    /\ UNCHANGED <<inbox, marker, done, spoken, sent, usage, offers, candidate, arrival,
                   turnBounds, counted, taken>>

\* commit_work_offer: without its offer the remark is not made.
OfferWork ==
    /\ lane.pc = "offer"
    /\ Propose(lane.turn, lane.epoch)
    /\ Go(IF IsOpen(offers', lane.turn, lane.epoch) THEN "count" ELSE "complete")
    /\ UNCHANGED <<inbox, marker, delivery, done, spoken, sent, usage, candidate, arrival,
                   turnBounds, counted, taken>>

\* Mutant: the id is not remembered.
CountedWithoutId(t) == [usage EXCEPT !.calls = @ + 1]

Counted(t) == [usage EXCEPT !.calls = @ + 1, !.ids = @ \cup {t}]

\* ensure_pending_remark_counted (try_record_proactive_emit): once per id, up
\* to the limit; a refused remark is completed unsaid.
CountRemark ==
    LET t == lane.turn
        known == t \in usage.ids
        refused == ~known /\ usage.calls >= usage.limit
    IN
    /\ lane.pc = "count"
    /\ IF known \/ refused THEN UNCHANGED <<usage, counted>>
       ELSE /\ usage' = Counted(t)
            /\ counted' = counted \cup {t}
    /\ Go(IF ~refused THEN "append"
          ELSE IF lane.then = "final" /\ candidate[t].offer THEN "void" ELSE "complete")
    /\ UNCHANGED <<inbox, marker, delivery, done, spoken, sent, offers, candidate, arrival,
                   turnBounds, taken>>

\* invalidate_current
VoidOffer ==
    /\ lane.pc = "void"
    /\ offers' = [offers EXCEPT !.status =
                     [t \in Turns |-> IF @[t] = "proposed" THEN "invalidated" ELSE @[t]]]
    /\ Go("complete")
    /\ UNCHANGED <<inbox, marker, delivery, done, spoken, sent, usage, candidate, arrival,
                   turnBounds, counted, taken>>

\* append_pending_remark_conversation
AppendRemark ==
    /\ lane.pc = "append"
    /\ spoken' = spoken \cup {lane.turn}
    /\ Go(IF delivery[lane.turn] = "enqueued" THEN "complete" ELSE "publish")
    /\ UNCHANGED <<inbox, marker, delivery, done, sent, usage, offers, candidate, arrival,
                   turnBounds, counted, taken>>

\* publish_remark: enqueued in the outbox, or left pending and the companion
\* blocked until a retry.
PublishRemark ==
    /\ lane.pc = "publish"
    /\ \/ sent' = sent \cup {lane.turn} /\ Go("marked") /\ UNCHANGED turnBounds
       \/ /\ TurnFault
          /\ lane' = [lane EXCEPT !.blocked = TRUE,
                          !.pc = IF lane.then = "retry" THEN "idle" ELSE lane.then]
          /\ UNCHANGED sent
    /\ UNCHANGED <<inbox, marker, delivery, done, spoken, usage, offers, candidate, arrival,
                   counted, taken>>

\* mark_pending_remark_enqueued
MarkEnqueued ==
    /\ lane.pc = "marked"
    /\ delivery' = [delivery EXCEPT ![lane.turn] = "enqueued"]
    /\ Go("complete")
    /\ UNCHANGED <<inbox, marker, done, spoken, sent, usage, offers, candidate, arrival,
                   turnBounds, counted, taken>>

\* complete_pending_remark: the cursor first, ...
CompleteRemark ==
    /\ lane.pc = "complete"
    /\ delivery' = [delivery EXCEPT ![lane.turn] = "none"]
    /\ done' = done \cup candidate[lane.turn].obs
    /\ Go("forget")
    /\ UNCHANGED <<inbox, marker, spoken, sent, usage, offers, candidate, arrival,
                   turnBounds, counted, taken>>

\* ... then forget_proactive_emit_id, whose failure is only logged.
ForgetEmit ==
    /\ lane.pc = "forget"
    /\ usage' = [usage EXCEPT !.ids = @ \ {lane.turn}]
    /\ Go(lane.then)
    /\ UNCHANGED <<inbox, marker, delivery, done, spoken, sent, offers, candidate, arrival,
                   turnBounds, counted, taken>>

\* finalize_proactive_commit
FinalizeTurn ==
    /\ lane.pc = "final"
    /\ marker' = IF inbox.epoch = lane.epoch /\ inbox.users = {} THEN NoMarker ELSE marker
    /\ Go("idle")
    /\ UNCHANGED <<inbox, delivery, done, spoken, sent, usage, offers, candidate, arrival,
                   turnBounds, counted, taken>>

----------------------------------------------------------------------------
(* Recovery.                                                               *)

\* Mutant: an input answered before the crash is not recognised.
RespondedNever(t) == FALSE

\* completed_user_response
Responded(t) == Acceptance(t) \in inbox.answered

\* recover_accepted_work_offers, at the start: inputs still owed are queued.
RecoverAccepted ==
    /\ lane.pc = "start" /\ arrival.step = "none"
    /\ IF offers.owed = {}
       THEN Go("recover") /\ UNCHANGED <<offers, arrival>>
       ELSE \E t \in offers.owed :
               /\ UNCHANGED lane
               /\ IF Responded(t)
                  THEN offers' = [offers EXCEPT !.owed = @ \ {t}] /\ UNCHANGED arrival
                  ELSE arrival' = [input |-> Acceptance(t), step |-> "enqueue"] /\ UNCHANGED offers
    /\ UNCHANGED <<inbox, marker, delivery, done, spoken, sent, usage, candidate, turnBounds,
                   counted, taken>>

\* Before a turn or a user turn, if something is left over.
BeginRecovery ==
    /\ lane.pc = "idle" /\ (marker.phase # "none" \/ PendingRemarks # {} \/ lane.blocked)
    /\ Go("recover")
    /\ UNCHANGED <<inbox, marker, delivery, done, spoken, sent, usage, offers, candidate,
                   arrival, turnBounds, counted, taken>>

\* prepare_turn_commit_recovery and reconcile_user_epoch.
PrepareTurnRecovery ==
    /\ lane.pc = "recover"
    /\ offers' = Reconciled(offers, inbox.epoch)
    /\ IF marker.phase = "persisting"
       THEN lane' = [lane EXCEPT !.pc = "restore", !.ready = TRUE] /\ UNCHANGED marker
       ELSE marker' = NoMarker /\ lane' = [lane EXCEPT !.pc = "retry", !.ready = TRUE]
    /\ UNCHANGED <<inbox, delivery, done, spoken, sent, usage, candidate, arrival, turnBounds,
                   counted, taken>>

\* recover_persisting_proactive_commit: finished, outrun by the user, to be
\* retried with its offer, or quarantined because it got nowhere.
ResumeCommit ==
    LET t == marker.turn
        resume(pc) == lane' = [lane EXCEPT !.pc = pc, !.turn = t, !.epoch = marker.epoch,
                                           !.then = "clear"]
        pending == delivery[t] # "none"
    IN
    /\ lane.pc = "restore"
    /\ \/ /\ candidate[t].obs \subseteq done \/ ~pending
          /\ resume("clear") /\ UNCHANGED offers
       \/ /\ ~(candidate[t].obs \subseteq done) /\ pending /\ marker.epoch # inbox.epoch
          /\ resume("complete") /\ UNCHANGED offers
       \/ /\ ~(candidate[t].obs \subseteq done) /\ pending /\ marker.epoch = inbox.epoch
          /\ IF candidate[t].offer
             THEN /\ Propose(t, marker.epoch)
                  /\ resume(IF IsOpen(offers', t, marker.epoch) THEN "count" ELSE "complete")
             ELSE resume("count") /\ UNCHANGED offers
    /\ UNCHANGED <<inbox, marker, delivery, done, spoken, sent, usage, candidate, arrival,
                   turnBounds, counted, taken>>

\* Mutant: a commit the user has outrun is not cleared.
ClearCurrentMarker ==
    /\ lane.pc = "clear"
    /\ marker' = IF marker.epoch = inbox.epoch THEN NoMarker ELSE marker
    /\ Go("retry")
    /\ UNCHANGED <<inbox, delivery, done, spoken, sent, usage, offers, candidate, arrival,
                   turnBounds, counted, taken>>

\* clear_active_turn_commit, or the release after a quarantine.
ClearMarker ==
    /\ lane.pc = "clear"
    /\ marker' = NoMarker
    /\ Go("retry")
    /\ UNCHANGED <<inbox, delivery, done, spoken, sent, usage, offers, candidate, arrival,
                   turnBounds, counted, taken>>

\* retry_pending_remarks: counted, appended and published again.
RetryRemark ==
    /\ lane.pc = "retry"
    /\ IF PendingRemarks = {}
       THEN lane' = [lane EXCEPT !.pc = "idle", !.blocked = FALSE]
       ELSE \E t \in PendingRemarks : lane' = [lane EXCEPT !.pc = "count", !.turn = t,
                                                    !.then = "retry", !.blocked = FALSE]
    /\ UNCHANGED <<inbox, marker, delivery, done, spoken, sent, usage, offers, candidate,
                   arrival, turnBounds, counted, taken>>

\* A write fails: the step returns an error.  A reserved commit is cleared, a
\* retry for a commit under recovery quarantines it, everything else stays for
\* the next recovery.
WriteError ==
    /\ lane.pc \in (LockedSteps \ {"publish", "forget"}) \cup {"clear"}
    /\ TurnFault
    /\ marker' = IF lane.pc = "mark" THEN NoMarker ELSE marker
    /\ Go(IF lane.then = "clear" /\ lane.pc \in {"count", "append", "marked"} THEN "clear"
          ELSE "idle")
    /\ UNCHANGED <<inbox, delivery, done, spoken, sent, usage, offers, candidate, arrival,
                   counted, taken>>

\* The program ends at any point, and starts again.
TurnCrash ==
    /\ Up /\ TurnFault
    /\ lane' = [lane EXCEPT !.pc = "down", !.turn = NoTurn, !.blocked = FALSE,
                          !.ready = FALSE]
    /\ arrival' = [input |-> 0, step |-> "none"]
    /\ UNCHANGED <<inbox, marker, delivery, done, spoken, sent, usage, offers, candidate,
                   counted, taken>>

\* initialize_storage up to restore_pending_deliveries: what the outbox holds
\* counts as enqueued.
StartUp ==
    /\ lane.pc = "down"
    /\ delivery' = [t \in Turns |-> IF delivery[t] = "none" THEN "none"
                                    ELSE IF t \in sent THEN "enqueued" ELSE "pending"]
    /\ Go("start")
    /\ UNCHANGED <<inbox, marker, done, spoken, sent, usage, offers, candidate, arrival,
                   turnBounds, counted, taken>>

----------------------------------------------------------------------------
LaneStep ==
    \/ ReserveTurn \/ MarkTurn \/ CompleteQuietly \/ PrepareRemark \/ OfferWork \/ CountRemark
    \/ VoidOffer \/ AppendRemark \/ PublishRemark \/ MarkEnqueued \/ CompleteRemark
    \/ ForgetEmit \/ FinalizeTurn \/ RecoverAccepted \/ BeginRecovery \/ PrepareTurnRecovery
    \/ ResumeCommit \/ ClearMarker \/ RetryRemark \/ StartUp

ArrivalStep == EnqueueAccepted \/ ReconcileArrival \/ SettleAccepted

TurnNext ==
    \/ LaneStep \/ ArrivalStep
    \/ \E obs \in SUBSET Observations, emit \in BOOLEAN, offer \in BOOLEAN :
          BeginProactive(obs, emit, offer)
    \/ UserSpeaks \/ LowerLimit \/ WriteError \/ TurnCrash
    \/ \E t \in Turns : AcceptOffer(t) \/ DeclineOffer(t)
    \/ \E i \in Inputs : AnswerUser(i) \/ CancelUser(i)

TurnSpec == TurnInit /\ [][TurnNext]_turnVars

----------------------------------------------------------------------------
(* An observation is spoken of at most once, whatever was retried,         *)
(* quarantined or recovered in between; a remark the user can see has been *)
(* counted against the daily limit, and none was counted twice.            *)
SpokenOnceAndCounted ==
    /\ \A t, u \in sent : t # u => candidate[t].obs \cap candidate[u].obs = {}
    /\ spoken \cup sent \subseteq counted
    /\ usage.calls = Cardinality(counted)

(* The user's consent to an offer queues its work exactly once: not again  *)
(* after a crash, and an offer that is no longer owed has been queued.     *)
AcceptedQueuedOnce ==
    \A t \in Turns :
        /\ taken[t] <= 1
        /\ (offers.status[t] = "accepted" /\ t \notin offers.owed) => taken[t] = 1

(* Nobody consents to an offer made before the last message: in the step   *)
(* that accepts it, its epoch is that of the queue.  Not so between a      *)
(* start and its recovery: a crash after enqueue_user_input leaves the     *)
(* offer open until reconcile_user_epoch, and the handle accepts it.       *)
AcceptsCurrentOffer ==
    [][\A t \in Turns :
          /\ lane.ready
          /\ offers.status[t] # "accepted" /\ offers'.status[t] = "accepted"
          => offers.at[t] = inbox.epoch]_turnVars
=============================================================================
