---------------------------- MODULE RemarkDelivery ----------------------------
(***************************************************************************)
(* How a remark of the companion reaches the surfaces that show it.        *)
(*                                                                         *)
(* The owner (the CompanionAgent of the one process that holds the watch   *)
(* lock) writes a remark down in cursor.json, in the conversation log and  *)
(* in the outbox, and the outbox into a mailbox per recipient. A consumer  *)
(* per recipient claims envelopes, shows them and accepts them. Owner and  *)
(* consumers share only files, and a crash takes all of them at once.      *)
(*                                                                         *)
(* Remarks are numbered in the order they are made, which is the order of  *)
(* created_at that the outbox and the mailboxes sort by. A conversation    *)
(* generation is pinned when the owner starts; the cursor shows it only    *)
(* the pending deliveries of that generation.                              *)
(***************************************************************************)
EXTENDS Integers, Sequences, FiniteSets

CONSTANTS MaxRemarks,     \* bound: remarks ever made
          Recipients,
          Generations,    \* conversations that can be selected
          FirstGeneration,
          Quiet,          \* remarks below the minimum priority
          ProcessedLimit, \* PROCESSED_ID_LIMIT
          MaxFaults       \* bound: crashes, I/O errors, refused presentations

Remarks == 1 .. MaxRemarks

ASSUME DeliveryAssumption ==
    /\ MaxRemarks \in Nat \ {0} /\ MaxFaults \in Nat
    /\ ProcessedLimit \in Nat \ {0}
    /\ FirstGeneration \in Generations
    /\ Quiet \subseteq Remarks

VARIABLES
    deliveries,  \* cursor.json pending_deliveries: remark -> its progress
    committing,  \* cursor.json active_turn_commit: the remark of that turn
    outrun,      \* the user has spoken since that turn, or its offer is gone
    generationOf,\* remark -> the conversation it was made in
    stamp,       \* remark -> the generation its envelope carries
    logged,      \* remarks in the conversation log
    outbox,      \* remark -> the directory of its outbox entry
    delivered,   \* remark -> delivered_recipients of the entry on disk
    place,       \* recipient -> remark -> the mailbox directory of its envelope
    processed,   \* notification-processed.json, shared by the consumers
    generation,  \* selected conversation generation
    owner,       \* where the owner is
    consumer,    \* recipient -> where its consumer is
    accepted,    \* history: pairs a consumer noted as processed
    unsaid,      \* history: remarks completed without writing them down
    faults       \* faults so far

files == <<deliveries, committing, outrun, generationOf, stamp, logged, outbox, delivered, place,
           processed, generation>>
vars == <<deliveries, committing, outrun, generationOf, stamp, logged, outbox,
          delivered, place, processed, generation, owner, consumer, accepted,
          unsaid, faults>>

Pairs == Recipients \X Remarks
Progress == {"none", "pending", "enqueued", "complete"}
OwnerSteps == {"off", "idle", "resume", "scan", "publish", "move", "retry", "ready",
               "count", "log", "enqueue", "mark", "complete", "drop", "clear", "final"}
ConsumerSteps == {"off", "idle", "claimed", "showing", "shown", "noted", "refused"}

Owner == [at : OwnerSteps,
          pinned : Generations,          \* pinned_conversation_generation
          remark : {0} \cup Remarks,     \* the remark being written down
          todo : SUBSET Remarks,         \* pending_remarks left in this pass
          lost : SUBSET Remarks,         \* pending, but gone from pending_remarks
          turn : BOOLEAN,                \* a turn waits for the commit left over
          then : {"idle", "ready", "clear", "final"}, \* what follows this pass
          entry : {0} \cup Remarks,      \* the outbox entry being delivered
          sent : SUBSET Recipients,      \* its delivered_recipients in memory
          blocked : BOOLEAN]             \* outbox_enqueue_blocked

OwnerOff == [at |-> "off", pinned |-> FirstGeneration, remark |-> 0, todo |-> {},
             lost |-> {}, turn |-> FALSE, then |-> "idle", entry |-> 0, sent |-> {}, blocked |-> FALSE]

Consumer == [at : ConsumerSteps,
             remark : {0} \cup Remarks,    \* the claimed envelope
             left : SUBSET Remarks]        \* claims it failed to finish

ConsumerOff == [at |-> "off", remark |-> 0, left |-> {}]

Init ==
    /\ deliveries = [m \in Remarks |-> "none"]
    /\ committing = 0 /\ outrun = FALSE /\ unsaid = {}
    /\ generationOf = [m \in Remarks |-> FirstGeneration]
    /\ stamp = [m \in Remarks |-> FirstGeneration]
    /\ logged = {} /\ outbox = [m \in Remarks |-> "none"]
    /\ delivered = [m \in Remarks |-> {}]
    /\ place = [r \in Recipients |-> [m \in Remarks |-> "none"]]
    /\ processed = <<>> /\ generation = FirstGeneration
    /\ owner = OwnerOff
    /\ consumer = [r \in Recipients |-> ConsumerOff]
    /\ accepted = {} /\ faults = 0

----------------------------------------------------------------------------
(* The owner: starting, and the pass every turn begins with.               *)

Least(S) == CHOOSE m \in S : \A k \in S : m <= k

Made == {m \in Remarks : deliveries[m] # "none"}
Pending == {m \in Remarks : outbox[m] = "pending"}

\* Mutant: the cursor shows the deliveries of every conversation.
VisibleInAll(g) == {m \in Remarks : deliveries[m] \in {"pending", "enqueued"}}

MadeIn(g) == {m \in Made : generationOf[m] = g}

\* pending_deliveries as the pinned generation sees them.
Visible(g) == {m \in MadeIn(g) : deliveries[m] # "complete"}

OwnerFrame == UNCHANGED <<generationOf, processed, generation, consumer, accepted, faults>>
Uncommitted == UNCHANGED <<committing, outrun, unsaid>>
Unwritten == UNCHANGED <<deliveries, stamp, logged, outbox, delivered, place>> /\ Uncommitted

\* Mutant: whatever is pending is taken to be in the outbox.
StartOwnerTrusting ==
    /\ owner.at = "off"
    /\ deliveries' = [m \in Remarks |->
           IF m \in Visible(generation) THEN "enqueued" ELSE deliveries[m]]
    /\ owner' = [OwnerOff EXCEPT !.at = "resume", !.pinned = generation]
    /\ UNCHANGED <<stamp, logged, outbox, delivered, place>> /\ Uncommitted /\ OwnerFrame

\* restore_pending_deliveries: the outbox, not the flag, says what is enqueued.
StartOwner ==
    /\ owner.at = "off"
    /\ deliveries' = [m \in Remarks |->
           IF m \in Visible(generation)
           THEN IF outbox[m] = "none" THEN "pending" ELSE "enqueued"
           ELSE deliveries[m]]
    /\ owner' = [OwnerOff EXCEPT !.at = "resume", !.pinned = generation]
    /\ UNCHANGED <<stamp, logged, outbox, delivered, place>> /\ Uncommitted /\ OwnerFrame

\* process_incoming_mailbox_decision: first what a turn left over.
BeginTurn ==
    /\ owner.at = "idle"
    /\ owner' = [owner EXCEPT !.at = "resume", !.turn = TRUE]
    /\ Unwritten /\ OwnerFrame

\* Then the outbox; whether it was blocked is read before it is retried.
ToScan ==
    owner' = [owner EXCEPT !.at = "scan", !.turn = FALSE,
                           !.then = IF owner.turn /\ ~owner.blocked THEN "ready" ELSE "idle"]

\* recover_persisting_proactive_commit, which the cursor hides from another
\* conversation: nothing is pending for the turn; or the user has spoken since
\* it, or its offer is gone, and its remark is given up however far it had come;
\* or the pending remarks are tried again for it.
TakeUpCommit ==
    /\ owner.at = "resume"
    /\ \/ /\ committing \notin Visible(owner.pinned)
          /\ committing' = IF committing \in MadeIn(owner.pinned) THEN 0 ELSE committing
          /\ outrun' = (outrun /\ committing' # 0)
          /\ ToScan
       \/ /\ committing \in Visible(owner.pinned)
          /\ outrun' = TRUE
          /\ owner' = [owner EXCEPT !.at = "drop", !.remark = committing, !.then = "clear"]
          /\ UNCHANGED committing
       \/ /\ committing \in Visible(owner.pinned) /\ ~outrun
          /\ owner' = [owner EXCEPT !.at = "retry", !.then = "clear"]
          /\ UNCHANGED <<committing, outrun>>
    /\ UNCHANGED <<deliveries, unsaid, stamp, logged, outbox, delivered, place>> /\ OwnerFrame

\* clear_active_turn_commit, or the release after a quarantine.
ReleaseCommit ==
    /\ owner.at = "clear"
    /\ committing' = 0 /\ outrun' = FALSE
    /\ ToScan
    /\ UNCHANGED <<deliveries, unsaid, stamp, logged, outbox, delivered, place>>
    /\ OwnerFrame

\* deliver_pending, whose oldest entry comes first.
NextEntry ==
    /\ owner.at = "scan"
    /\ owner' = IF Pending # {}
                THEN LET m == Least(Pending) IN
                     [owner EXCEPT !.at = "publish", !.entry = m, !.sent = delivered[m]]
                ELSE [owner EXCEPT !.at = IF owner.remark = 0 THEN "retry" ELSE "mark"]
    /\ Unwritten /\ OwnerFrame

\* Mutant: the mailbox is not asked whether it has the id.
PublishAgain(r) ==
    /\ owner.at = "publish" /\ r \notin owner.sent
    /\ owner' = [owner EXCEPT !.sent = owner.sent \cup {r}]
    /\ place' = [place EXCEPT ![r][owner.entry] = "inbox"]
    /\ UNCHANGED <<deliveries, stamp, logged, outbox, delivered>> /\ Uncommitted /\ OwnerFrame

\* deliver_entry holds the locks of all its mailboxes; publish_with_lock does
\* nothing for an id that the mailbox has.
Publish(r) ==
    /\ owner.at = "publish" /\ r \notin owner.sent
    /\ owner' = [owner EXCEPT !.sent = owner.sent \cup {r}]
    /\ place' = IF place[r][owner.entry] = "none"
                THEN [place EXCEPT ![r][owner.entry] = "inbox"] ELSE place
    /\ UNCHANGED <<deliveries, stamp, logged, outbox, delivered>> /\ Uncommitted /\ OwnerFrame

\* Mutant: the entry is finished when one recipient was reached.
WriteEntryEarly ==
    /\ owner.at = "publish" /\ owner.sent # {}
    /\ delivered' = [delivered EXCEPT ![owner.entry] = owner.sent]
    /\ owner' = [owner EXCEPT !.at = "move"]
    /\ UNCHANGED <<deliveries, stamp, logged, outbox, place>> /\ Uncommitted /\ OwnerFrame

\* The entry is written back, also when only some recipients were reached;
\* an error ends the delivery before any later entry.
WriteEntry ==
    /\ owner.at = "publish" /\ owner.sent = Recipients
    /\ delivered' = [delivered EXCEPT ![owner.entry] = owner.sent]
    /\ owner' = [owner EXCEPT !.at = "move"]
    /\ UNCHANGED <<deliveries, stamp, logged, outbox, place>> /\ Uncommitted /\ OwnerFrame

DeliveryFails ==
    /\ owner.at \in {"publish", "move"}
    /\ faults < MaxFaults /\ faults' = faults + 1
    /\ delivered' \in {delivered, [delivered EXCEPT ![owner.entry] = owner.sent]}
    /\ owner' = [owner EXCEPT !.at = IF owner.remark = 0 THEN "retry" ELSE "mark",
                              !.entry = 0, !.sent = {}]
    /\ UNCHANGED <<deliveries, generationOf, stamp, logged, outbox, place, processed,
                   generation, consumer, accepted>>
    /\ Uncommitted

MoveEntry ==
    /\ owner.at = "move"
    /\ outbox' = [outbox EXCEPT ![owner.entry] = "done"]
    /\ owner' = [owner EXCEPT !.at = "scan", !.entry = 0, !.sent = {}]
    /\ UNCHANGED <<deliveries, stamp, logged, delivered, place>> /\ Uncommitted /\ OwnerFrame

\* retry_pending_remarks, which takes the list out of memory to go through it.
BeginRetry ==
    /\ owner.at = "retry"
    /\ LET todo == Visible(owner.pinned) \ owner.lost IN
       owner' = [owner EXCEPT !.blocked = FALSE, !.todo = todo,
                     !.remark = IF todo = {} THEN 0 ELSE Least(todo),
                     !.at = IF todo # {} THEN "count" ELSE owner.then]
    /\ Unwritten /\ OwnerFrame

----------------------------------------------------------------------------
(* The owner: writing a remark down.                                       *)

\* prepare_pending_remark, under the marker of its turn.  No turn starts while
\* a commit is left over, in any conversation.
Make ==
    /\ owner.at = "ready" /\ Made # Remarks /\ committing = 0
    /\ LET m == Least(Remarks \ Made) IN
       /\ deliveries' = [deliveries EXCEPT ![m] = "pending"]
       /\ committing' = m
       /\ generationOf' = [generationOf EXCEPT ![m] = owner.pinned]
       /\ owner' = [owner EXCEPT !.at = "count", !.remark = m, !.todo = {m}, !.then = "final"]
    /\ UNCHANGED <<stamp, logged, outbox, delivered, place, processed, generation,
                   consumer, accepted, outrun, unsaid, faults>>

\* Nothing worth saying.
StaySilent ==
    /\ owner.at = "ready"
    /\ owner' = [owner EXCEPT !.at = "idle", !.then = "idle"]
    /\ Unwritten /\ OwnerFrame

\* finalize_proactive_commit, which leaves the marker if the user has spoken.
EndOwnTurn ==
    /\ owner.at = "final"
    /\ outrun' \in BOOLEAN
    /\ committing' = IF outrun' THEN committing ELSE 0
    /\ owner' = [owner EXCEPT !.at = "idle", !.then = "idle"]
    /\ UNCHANGED <<deliveries, unsaid, stamp, logged, outbox, delivered, place>>
    /\ OwnerFrame

\* ensure_pending_remark_counted: what the day's limit refuses, or has lost the
\* offer it came with, is given up.  A remark counted before is refused too if
\* the count has since been of another day, whose ids the file does not keep.
Charge ==
    /\ owner.at = "count"
    /\ owner' \in {[owner EXCEPT !.at = "log"], [owner EXCEPT !.at = "drop"]}
    /\ Unwritten /\ OwnerFrame

\* append_pending_remark_conversation, an id at most once.
Log ==
    /\ owner.at = "log"
    /\ logged' = logged \cup {owner.remark}
    /\ owner' = [owner EXCEPT !.at =
                     IF deliveries[owner.remark] = "enqueued" THEN "complete" ELSE "enqueue"]
    /\ UNCHANGED <<deliveries, stamp, outbox, delivered, place>> /\ Uncommitted /\ OwnerFrame

\* publish_remark: an entry that is there already is left as it is; what
\* deliver_pending then does of it does not matter to the remark.
Enqueue ==
    /\ owner.at = "enqueue"
    /\ IF outbox[owner.remark] = "none"
       THEN /\ outbox' = [outbox EXCEPT ![owner.remark] = "pending"]
            /\ stamp' = [stamp EXCEPT ![owner.remark] = owner.pinned]
       ELSE UNCHANGED <<outbox, stamp>>
    /\ owner' = [owner EXCEPT !.at = "scan"]
    /\ UNCHANGED <<deliveries, logged, delivered, place>> /\ Uncommitted /\ OwnerFrame

Mark ==
    /\ owner.at = "mark"
    /\ deliveries' = [deliveries EXCEPT ![owner.remark] = "enqueued"]
    /\ owner' = [owner EXCEPT !.at = "complete"]
    /\ UNCHANGED <<stamp, logged, outbox, delivered, place>> /\ Uncommitted /\ OwnerFrame

\* What follows a remark that is done: the next one of the pass.
Onward ==
    LET rest == owner.todo \ {owner.remark} IN
    owner' = [owner EXCEPT !.todo = rest,
                  !.remark = IF rest = {} THEN 0 ELSE Least(rest),
                  !.at = IF rest # {} THEN "count" ELSE owner.then]

\* complete_pending_remark of what was written down, and of what was given up.
Complete ==
    /\ owner.at \in {"complete", "drop"}
    /\ deliveries' = [deliveries EXCEPT ![owner.remark] = "complete"]
    /\ unsaid' = IF owner.at = "drop" THEN unsaid \cup {owner.remark} ELSE unsaid
    /\ Onward
    /\ UNCHANGED <<committing, outrun, stamp, logged, outbox, delivered, place>> /\ OwnerFrame

\* An error before the remark in hand passed the count forgets what the pass
\* took out of memory; a turn's own remark stays there.
TakenOut ==
    owner.at \in {"count", "drop"} /\ owner.then # "final" /\ owner.remark \in owner.todo

\* A file refuses.  The rest of the pass is left for the next one; a refusal of
\* the outbox keeps turns from starting, and is no error for a turn that ends
\* or is taken up.  What fails for a turn that is taken up is quarantined.
WriteFails ==
    LET after == IF \/ owner.at = "enqueue" /\ owner.then = "final"
                    \/ owner.then = "clear" /\ owner.remark \in owner.todo
                 THEN owner.then ELSE "idle"
    IN
    /\ owner.at \in {"count", "log", "enqueue", "mark", "complete", "drop", "clear", "final"}
    /\ faults < MaxFaults /\ faults' = faults + 1
    /\ owner' = [OwnerOff EXCEPT
                    !.at = after, !.pinned = owner.pinned,
                    !.then = after, !.turn = owner.turn /\ after = "clear",
                    !.lost = owner.lost \cup (IF TakenOut THEN owner.todo ELSE {}),
                    !.blocked = owner.blocked \/ owner.at = "enqueue"]
    /\ UNCHANGED <<files, consumer, accepted, unsaid>>

OwnerNext ==
    \/ StartOwner \/ BeginTurn \/ TakeUpCommit \/ ReleaseCommit \/ NextEntry
    \/ \E r \in Recipients : Publish(r)
    \/ WriteEntry \/ MoveEntry \/ BeginRetry
    \/ StaySilent \/ Charge \/ Log \/ Enqueue \/ Mark \/ Complete \/ EndOwnTurn

\* switch_conversation_generation: the runtime is quiesced and built anew.
SwitchConversation(g) ==
    /\ owner.at = "idle" /\ g # generation
    /\ generation' = g
    /\ owner' = OwnerOff
    /\ UNCHANGED <<deliveries, generationOf, stamp, logged, outbox, delivered, place,
                   processed, consumer, accepted, faults>>
    /\ Uncommitted

----------------------------------------------------------------------------
(* The consumers.                                                          *)

MailboxLocked == owner.at = "publish"

Inbox(r) == {m \in Remarks : place[r][m] = "inbox"}
Noted(r, m) == \E n \in DOMAIN processed : processed[n] = <<r, m>>
Current(m) == stamp[m] = generation

ConsumerFrame == UNCHANGED <<deliveries, generationOf, stamp, logged, outbox,
                             delivered, generation, owner, faults>> /\ Uncommitted

Goes(r, step, m) ==
    consumer' = [consumer EXCEPT ![r].at = step, ![r].remark = m]

Holding(r, steps) == consumer[r].at \in steps

\* acknowledge: the rename fails when the envelope is no longer in processing.
Acknowledge(r, phase) ==
    place' = [place EXCEPT ![r][consumer[r].remark] = phase]

\* Mutant: what was in processing stays there.
StartConsumerForgetful(r) ==
    /\ Holding(r, {"off"}) /\ ~MailboxLocked
    /\ Goes(r, "idle", 0)
    /\ UNCHANGED <<place, processed, accepted>> /\ ConsumerFrame

\* NotificationConsumer::new recovers what a previous consumer held.
StartConsumer(r) ==
    /\ Holding(r, {"off"}) /\ ~MailboxLocked
    /\ place' = [place EXCEPT ![r] = [m \in Remarks |->
           IF place[r][m] = "processing" THEN "inbox" ELSE place[r][m]]]
    /\ Goes(r, "idle", 0)
    /\ UNCHANGED <<processed, accepted>> /\ ConsumerFrame

Claim(r) ==
    /\ Holding(r, {"idle"}) /\ ~MailboxLocked /\ Inbox(r) # {}
    /\ LET m == Least(Inbox(r)) IN
       /\ place' = [place EXCEPT ![r][m] = "processing"]
       /\ Goes(r, "claimed", m)
    /\ UNCHANGED <<processed, accepted>> /\ ConsumerFrame

\* claim_displayable and the checks after it throw away what was accepted
\* before, belongs to another conversation or is not important enough.
ToThrowAway(r, m) == Noted(r, m) \/ ~Current(m) \/ m \in Quiet

Discard(r) ==
    /\ Holding(r, {"claimed"}) /\ ~MailboxLocked
    /\ ToThrowAway(r, consumer[r].remark)
    /\ Acknowledge(r, "done")
    /\ Goes(r, "idle", 0)
    /\ UNCHANGED <<processed, accepted>> /\ ConsumerFrame

Display(r) ==
    /\ Holding(r, {"claimed"}) /\ ~ToThrowAway(r, consumer[r].remark)
    /\ Goes(r, "showing", consumer[r].remark)
    /\ UNCHANGED <<place, processed, accepted>> /\ ConsumerFrame

\* present_notification: no lock is held while the user interface answers.
Presented(r) ==
    /\ Holding(r, {"showing"})
    /\ Goes(r, "shown", consumer[r].remark)
    /\ UNCHANGED <<place, processed, accepted>> /\ ConsumerFrame

Refused(r) ==
    /\ Holding(r, {"showing"})
    /\ faults < MaxFaults /\ faults' = faults + 1
    /\ Goes(r, "refused", consumer[r].remark)
    /\ UNCHANGED <<files, owner, accepted, unsaid>>

\* What went stale meanwhile is skipped, whether it was shown or refused.
Skip(r) ==
    /\ Holding(r, {"shown", "refused"}) /\ ~MailboxLocked
    /\ ~Current(consumer[r].remark)
    /\ Acknowledge(r, "done")
    /\ Goes(r, "idle", 0)
    /\ UNCHANGED <<processed, accepted>> /\ ConsumerFrame

\* Mutant: one id too many.
LastOfLate(s, n) == IF Len(s) > n + 1 THEN SubSeq(s, Len(s) - n, Len(s)) ELSE s

LastOf(s, n) == IF Len(s) > n THEN SubSeq(s, Len(s) - n + 1, Len(s)) ELSE s

\* ProcessedIds::claim, then the mailbox: in this order a crash in between
\* cannot show the remark again.
Accept(r) ==
    LET m == consumer[r].remark IN
    /\ Holding(r, {"shown"}) /\ Current(m)
    /\ processed' = IF Noted(r, m) THEN processed
                    ELSE LastOf(Append(processed, <<r, m>>), ProcessedLimit)
    /\ accepted' = accepted \cup {<<r, m>>}
    /\ Goes(r, "noted", m)
    /\ UNCHANGED place /\ ConsumerFrame

Finish(r) ==
    /\ Holding(r, {"noted"}) /\ ~MailboxLocked
    /\ Acknowledge(r, "done")
    /\ Goes(r, "idle", 0)
    /\ UNCHANGED <<processed, accepted>> /\ ConsumerFrame

Retry(r) ==
    /\ Holding(r, {"refused"}) /\ ~MailboxLocked /\ Current(consumer[r].remark)
    /\ Acknowledge(r, "inbox")
    /\ Goes(r, "idle", 0)
    /\ UNCHANGED <<processed, accepted>> /\ ConsumerFrame

ConsumerNext(r) ==
    \/ StartConsumer(r) \/ Claim(r) \/ Discard(r) \/ Display(r) \/ Presented(r)
    \/ Skip(r) \/ Accept(r) \/ Finish(r) \/ Retry(r)

\* A lock or a file refuses after the claim: the envelope stays in processing,
\* where nothing looks at it until a consumer starts again.
ConsumerFails(r) ==
    /\ Holding(r, {"claimed", "shown", "noted", "refused"})
    /\ faults < MaxFaults /\ faults' = faults + 1
    /\ consumer' = [consumer EXCEPT ![r] =
           [at |-> "idle", remark |-> 0, left |-> @.left \cup {@.remark}]]
    /\ UNCHANGED <<files, owner, accepted, unsaid>>

Crash ==
    /\ faults < MaxFaults /\ faults' = faults + 1
    /\ owner' = OwnerOff
    /\ consumer' = [r \in Recipients |-> ConsumerOff]
    /\ UNCHANGED <<files, accepted, unsaid>>

FaultNext ==
    \/ DeliveryFails \/ WriteFails \/ Crash
    \/ \E r \in Recipients : Refused(r) \/ ConsumerFails(r)

Next ==
    \/ OwnerNext \/ Make
    \/ \E g \in Generations : SwitchConversation(g)
    \/ \E r \in Recipients : ConsumerNext(r)
    \/ FaultNext

Spec == Init /\ [][Next]_vars

----------------------------------------------------------------------------
(* Properties.                                                             *)

Settled == accepted \cup {p \in Pairs : place[p[1]][p[2]] = "done"}

TypeOK ==
    /\ deliveries \in [Remarks -> Progress]
    /\ committing \in {0} \cup Remarks /\ outrun \in BOOLEAN /\ unsaid \subseteq Remarks
    /\ generationOf \in [Remarks -> Generations] /\ stamp \in [Remarks -> Generations]
    /\ logged \subseteq Remarks
    /\ outbox \in [Remarks -> {"none", "pending", "done"}]
    /\ delivered \in [Remarks -> SUBSET Recipients]
    /\ place \in [Recipients -> [Remarks -> {"none", "inbox", "processing", "done"}]]
    /\ processed \in Seq(Pairs) /\ Len(processed) <= ProcessedLimit
    /\ generation \in Generations
    /\ owner \in Owner /\ consumer \in [Recipients -> Consumer]
    /\ accepted \subseteq Pairs /\ faults \in 0 .. MaxFaults

\* The outbox never claims a delivery that did not happen: whoever an entry
\* names as delivered has the envelope, and an entry in done is with every
\* recipient, across crashes between the mailbox and the entry.
OutboxTellsTheTruth ==
    \A m \in Remarks :
        /\ \A r \in delivered[m] : place[r][m] # "none"
        /\ outbox[m] = "done" => \A r \in Recipients : place[r][m] # "none"

Written(m) == m \in logged /\ outbox[m] # "none"

\* A remark that cursor.json counts as enqueued is in the conversation log and
\* in the outbox, and so is one it no longer lists, unless the day's limit, the
\* user or the loss of its offer had it given up: forgetting a remark because
\* it was said loses nothing.  Nothing is in the outbox that is not in the log.
ForgottenOnlyWhenEnqueued ==
    \A m \in Remarks :
        /\ deliveries[m] = "enqueued" => Written(m)
        /\ deliveries[m] = "complete" /\ m \notin unsaid => Written(m)
        /\ outbox[m] # "none" => m \in logged

\* The envelope of a remark carries the conversation the remark was made in,
\* though it is stamped with the conversation pinned when it is enqueued:
\* otherwise it would be shown in a conversation it does not belong to.
StampedWithItsConversation ==
    \A m \in Remarks : outbox[m] # "none" => stamp[m] = generationOf[m]

Fanout ==
    INSTANCE OrderedFanout WITH
        Items <- Remarks, Receivers <- Recipients,
        sent <- {m \in Remarks : outbox[m] # "none"},
        arrived <- {p \in Pairs : place[p[1]][p[2]] # "none"},
        held <- {p \in Pairs : place[p[1]][p[2]] = "processing"} \ Settled,
        settled <- Settled,
        showing <- [r \in Recipients |->
            IF consumer[r].at \in {"showing", "shown", "refused"}
            THEN consumer[r].remark ELSE 0]

\* The pipeline is an ordered fan-out: no remark overtakes an earlier one on
\* the way to a recipient, and a remark a recipient accepted is never shown
\* to it again, whatever is retried, redelivered or recovered.
DeliversInOrder == Fanout!Spec

\* Every remark made is settled at every recipient or given up unsaid, unless
\* its conversation is not selected, the consumer failed after claiming it
\* (then it waits for a consumer to start again), or the owner failed while it
\* had taken it out of its memory (then it waits for the owner to start again).
EveryRemarkSettles ==
    \A r \in Recipients, m \in Remarks :
        deliveries[m] # "none" ~> \/ <<r, m>> \in Settled
                                  \/ m \in unsaid /\ outbox[m] = "none"
                                  \/ generationOf[m] # generation
                                  \/ m \in consumer[r].left
                                  \/ m \in owner.lost

----------------------------------------------------------------------------
(* The owner's loop turns on a timer and the consumers poll. Making a      *)
(* remark, switching conversations and faults owe nothing.                 *)
FairSpec ==
    /\ Spec
    /\ WF_vars(OwnerNext)
    /\ \A r \in Recipients : WF_vars(ConsumerNext(r))
=============================================================================
