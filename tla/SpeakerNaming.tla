----------------------------- MODULE SpeakerNaming -----------------------------
(***************************************************************************)
(* How a voice gets its name: proposals the companion makes                *)
(* (crates/core/src/speaker_name_proposals.rs), and the confirmation,      *)
(* registration, result card and undo the desktop makes of them            *)
(* (apps/desktop/src-tauri/src/commands_speaker.rs).                       *)
(*                                                                         *)
(* The companion's turn changes the store of proposals under its lock; the *)
(* desktop runs one job at a time from a queue, each of several durable    *)
(* steps; cards live in the memory of the user interface.  One speaker.  A *)
(* click during a job is as one before it or after it, so the user acts    *)
(* while no job runs.                                                      *)
(***************************************************************************)
EXTENDS Integers, Sequences, FiniteSets

CONSTANTS VoiceNames,           \* names a speaker may be given
          MaxProposals,    \* bound: proposals ever made
          MaxNameVersions,     \* bound: versions of a proposal
          MaxJobs,         \* bound: jobs waiting
          MaxNamingEvents  \* bound: turns with a proposal, clicks, changes around and faults

\* A name is of at most SPEAKER_NAME_MAX_CHARS characters.
ASSUME NamingAssumption ==
    /\ IsFiniteSet(VoiceNames)
    /\ MaxProposals \in Nat /\ MaxNameVersions \in Nat \ {0} /\ MaxNamingEvents \in Nat

VARIABLES proposals,  \* speaker-name-proposals.json
          options,    \* its pending conflict: the names to choose from
          named,      \* the current name of the speaker, speaker-names.json
          registry,   \* whether the active registry has the speaker
          evidence,   \* whether the transcripts and requests behind a proposal still stand
          late,       \* whether its seven days are over
          core,       \* the companion's turn between its two updates of the store
          root,       \* cards shown
          queue,      \* SpeakerManagementQueue
          job,        \* the job running
          granted,    \* history: names the user confirmed or typed
          shown,      \* history: how often the result card of a proposal was shown
          refused,    \* history: an undo the store did not take
          namingEvents

namingVars == <<proposals, options, named, registry, evidence, late, core, root, queue,
                job, granted, shown, refused, namingEvents>>

Asks == 1 .. MaxProposals
NoName == "no name"
Bubbles == [kind : {"confirm", "result"}, of : Asks, version : 1 .. MaxNameVersions]
NoBubble == [kind |-> "none", of |-> 0, version |-> 0]

NamingStatuses == {"absent", "proposed", "rejected", "applying", "applied", "conflict", "expired"}
Cards == {"unknown", "pending", "delivering", "delivered", "dismissed", "expired", "resolved"}

\* StoredSpeakerNameProposal.  The operation's names are the proposal's.
Proposal == [status : NamingStatuses, version : 0 .. MaxNameVersions,
             source : {"request", "inferred"}, name : VoiceNames \cup {NoName},
             candidate : VoiceNames \cup {NoName}, before : VoiceNames \cup {NoName},
             suppressed : BOOLEAN, grounds : BOOLEAN, operation : BOOLEAN,
             card : Cards, record : {"none", "pending", "recorded"},
             bubble : Bubbles \cup {NoBubble}, dismissal : Bubbles \cup {NoBubble}]

NoProposal == [status |-> "absent", version |-> 0, source |-> "request", name |-> NoName,
               candidate |-> NoName, before |-> NoName, suppressed |-> FALSE,
               grounds |-> FALSE, operation |-> FALSE, card |-> "unknown", record |-> "none",
               bubble |-> NoBubble, dismissal |-> NoBubble]

JobKinds == {"register", "edit", "submit", "reject", "undo", "close", "dismiss", "recover",
             "rename", "sync"}
CardJob == [kind : JobKinds, bubble : Bubbles \cup {NoBubble}, name : VoiceNames \cup {NoName}]
CardRequest(kind, bubble, name) == [kind |-> kind, bubble |-> bubble, name |-> name]

NoInsert == [busy |-> FALSE, name |-> NoName, source |-> "request"]
NoMemo == [p \in Asks |-> NoProposal]
NoCardJob == [kind |-> "idle", bubble |-> NoBubble, name |-> NoName, at |-> "none", i |-> 0,
                old |-> NoMemo, mine |-> NoMemo, todo |-> {}]

NamingTypeOK ==
    /\ proposals \in [Asks -> Proposal]
    /\ options \subseteq VoiceNames /\ Cardinality(options) # 1
    /\ named \in VoiceNames \cup {NoName}
    /\ registry \in {"has", "lacks", "none"}
    /\ evidence \in [Asks -> {"sound", "unsourced", "lost"}]
    /\ late \in [Asks -> BOOLEAN]
    /\ core \in [busy : BOOLEAN, name : VoiceNames \cup {NoName}, source : {"request", "inferred"}]
    /\ root \subseteq [id : Bubbles, name : VoiceNames]
    /\ queue \in Seq(CardJob)
    /\ job.kind \in JobKinds \cup {"idle"} /\ job.i \in 0 .. MaxProposals
    /\ job.old \in [Asks -> Proposal] /\ job.mine \in [Asks -> Proposal] /\ job.todo \subseteq Asks
    /\ granted \subseteq VoiceNames
    /\ shown \in [Asks -> 0 .. 2]
    /\ refused \in BOOLEAN
    /\ namingEvents \in 0 .. MaxNamingEvents

NamingInit ==
    /\ proposals = NoMemo /\ options = {} /\ named = NoName
    /\ registry = "has"
    /\ evidence = [p \in Asks |-> "sound"]
    /\ late = [p \in Asks |-> FALSE]
    /\ core = NoInsert
    /\ root = {} /\ queue = <<>> /\ job = NoCardJob
    /\ granted = {} /\ shown = [p \in Asks |-> 0] /\ refused = FALSE
    /\ namingEvents = 0

----------------------------------------------------------------------------
(* The store.                                                              *)

Terminal == {"rejected", "applied", "conflict", "expired"}

\* redact_terminal_evidence
Redacted(q) == IF q.status \in Terminal THEN [q EXCEPT !.grounds = FALSE] ELSE q

\* validate_store
Acceptable(q) ==
    /\ q.status \in {"proposed", "applying", "undoing"}
          => q.grounds /\ (q.source = "inferred" => q.before = NoName)
    /\ q.status \in {"applying", "applied", "undoing"} => q.operation

\* update_speaker_name_proposals takes a change that passes the validation.
Takes(ps) == \A p \in Asks : Acceptable(Redacted(ps[p]))
Store(ps) == proposals' = [p \in Asks |-> Redacted(ps[p])]

Happens == namingEvents < MaxNamingEvents /\ namingEvents' = namingEvents + 1

CanUndo(p, q) == q.status = "applied" /\ q.operation /\ ~late[p]

ConfirmId(p, v) == [kind |-> "confirm", of |-> p, version |-> v]
ResultId(p, v) == [kind |-> "result", of |-> p, version |-> v]

\* verify_stored_speaker_name_proposal
Verified(p) == registry = "has" /\ evidence[p] = "sound" /\ ~late[p]

----------------------------------------------------------------------------
(* The companion's turn.                                                   *)

Fresh == {p \in Asks : /\ proposals[p].status = "absent"
                        /\ \A q \in 1 .. p - 1 : proposals[q].status # "absent"}

Suggestion(name, source, current) ==
    [NoProposal EXCEPT !.status = "proposed", !.version = 1, !.source = source, !.name = name,
                       !.candidate = name, !.before = current, !.grounds = TRUE]

Inferred(p, status) == proposals[p].source = "inferred" /\ proposals[p].status = status
Conflicted(ps) == [p \in Asks |-> IF p \in ps THEN [proposals[p] EXCEPT !.status = "conflict"] ELSE proposals[p]]

CoreStays == UNCHANGED <<named, registry, evidence, late, root, queue, job, granted, shown,
                         refused>>

ToInsert(name, source) == core' = [busy |-> TRUE, name |-> name, source |-> source]

\* accept_speaker_name_proposals_with_conflicts: what the user asked for ends a
\* pending conflict; ...
AskedByUser(name) ==
    /\ ~core.busy /\ registry = "has" /\ Fresh # {}
    /\ options' = {}
    /\ ToInsert(name, "request")
    /\ UNCHANGED proposals /\ CoreStays

\* ... two names inferred at once are a conflict, with those already proposed; ...
InferredTwo(names) ==
    LET open == {p \in Asks : Inferred(p, "proposed")}
    IN
    /\ ~core.busy /\ registry = "has" /\ named = NoName /\ Cardinality(names) = 2
    /\ ~\E p \in Asks : Inferred(p, "applying")
    /\ options' = options \cup names \cup {proposals[p].name : p \in open}
    /\ Store(Conflicted(open))
    /\ UNCHANGED core /\ CoreStays

\* ... and one name inferred is a conflict with another one proposed, unless one
\* is being registered.
InferredOne(name) ==
    LET rival == {p \in Asks : Inferred(p, "proposed") /\ proposals[p].name # name}
        newest == {p \in rival : \A r \in rival : r <= p}
        applying == \E p \in Asks : Inferred(p, "applying")
    IN
    /\ ~core.busy /\ registry = "has" /\ named = NoName /\ Fresh # {} /\ options = {}
    /\ IF rival # {} /\ ~applying
       THEN /\ Store(Conflicted(newest)) /\ UNCHANGED core
            /\ options' = {name} \cup {proposals[p].name : p \in newest}
       ELSE /\ ToInsert(name, "inferred") /\ UNCHANGED <<options, proposals>>
    /\ CoreStays

\* A name registered meanwhile ends the conflict.
ForgetRegistered ==
    /\ ~core.busy /\ options # {} /\ named # NoName
    /\ options' = {}
    /\ UNCHANGED <<proposals, core>> /\ CoreStays

Claims(p) ==
    proposals[p].source = "request" /\ proposals[p].status \in {"proposed", "applying"}

\* The second update: what is inferred gives way to what was asked for, rejected
\* or registered meanwhile, and stops what else was inferred.
Insert(again) ==
    LET name == core.name
        inferred == core.source = "inferred"
        turned == {p \in Asks : /\ proposals[p].source = "inferred" /\ proposals[p].candidate = name
                               /\ proposals[p].status = "rejected" /\ proposals[p].suppressed}
        rivals == {p \in Asks : proposals[p].source = "inferred" /\ proposals[p].name # name}
        stopped == {p \in rivals : proposals[p].status = "proposed"}
        blocked == \/ \E p \in Asks : Claims(p)
                   \/ stopped # {} \/ \E p \in rivals : proposals[p].status = "applying"
        heard == [p \in Asks |-> IF p \in turned THEN [proposals[p] EXCEPT !.suppressed = FALSE]
                                ELSE proposals[p]]
    IN
    /\ core.busy
    /\ core' = NoInsert
    /\ CASE inferred /\ turned # {} /\ ~again -> UNCHANGED proposals
         [] inferred /\ (turned = {} \/ again) /\ blocked -> Store(Conflicted(stopped))
         [] OTHER -> IF named = name \/ (inferred /\ named # NoName) THEN Store(heard)
                     ELSE \E p \in Fresh : Store([heard EXCEPT ![p] = Suggestion(name, core.source, named)])
    /\ UNCHANGED options /\ CoreStays

\* resolve_pending_speaker_name_conflict
Resolve(name) ==
    /\ ~core.busy /\ registry = "has" /\ name \in options /\ Fresh # {}
    /\ options' = {}
    /\ IF named # NoName THEN UNCHANGED proposals
       ELSE \E p \in Fresh : Store([proposals EXCEPT ![p] = Suggestion(name, "inferred", NoName)])
    /\ UNCHANGED core /\ CoreStays

CoreTurn ==
    \/ /\ Happens
       /\ \/ \E name \in VoiceNames : AskedByUser(name) \/ InferredOne(name) \/ Resolve(name)
          \/ \E names \in SUBSET VoiceNames : InferredTwo(names)
    \/ /\ ForgetRegistered \/ \E again \in BOOLEAN : Insert(again)
       /\ UNCHANGED namingEvents

----------------------------------------------------------------------------
(* Jobs.                                                                   *)

Clicks == {"register", "edit", "submit", "reject", "undo"}
Clicked == job.bubble.of
Found == job.mine[Clicked]

InJob(kind, at) == job.kind = kind /\ job.at = at
GoTo(at) == job' = [job EXCEPT !.at = at]
End(next) == job' = NoCardJob /\ queue' = queue \o next
Refresh == <<CardRequest("dismiss", job.bubble, NoName), CardRequest("sync", NoBubble, NoName)>>

\* recover_speaker_proposal_card_after_action_error follows a click that failed.
Fail == End(IF job.kind \in Clicks THEN <<CardRequest("recover", job.bubble, NoName)>> ELSE <<>>)

World == <<registry, evidence, late>>
Untouched == <<"has", [p \in Asks |-> "sound"], [p \in Asks |-> FALSE]>>
History == <<granted, shown>>
Elsewhere == <<options, core, World, History, namingEvents>>

TakeJob ==
    /\ job.kind = "idle" /\ queue # <<>>
    /\ job' = [NoCardJob EXCEPT !.kind = Head(queue).kind, !.bubble = Head(queue).bubble,
                                  !.name = Head(queue).name,
                                  !.at = "load"]
    /\ queue' = Tail(queue)
    /\ UNCHANGED <<proposals, named, root, refused, Elsewhere>>

\* dismiss_speaker_name_proposal_bubble_from_root
ForgetsCard(q, ids) ==
    /\ q.bubble \in ids
    /\ \/ q.status = "applied" /\ q.card \in {"dismissed", "expired", "resolved"}
       \/ q.status \in {"rejected", "conflict", "expired"}
Dismissed(ps, ids) ==
    [p \in Asks |-> [ps[p] EXCEPT !.dismissal = IF @ \in ids THEN NoBubble ELSE @,
                                 !.bubble = IF ForgetsCard(ps[p], ids) THEN NoBubble ELSE @]]
WithoutCards(ids) == {c \in root : c.id \notin ids}
Dismissals(ps) == {ps[p].dismissal : p \in Asks} \ {NoBubble}
Dismiss(ps, ids) == root' = WithoutCards(ids) /\ Store(Dismissed(ps, ids))

\* mark_proposal_conflict and the error that follows.
ConflictAndFail ==
    /\ Store([proposals EXCEPT ![Clicked].status =
                 IF proposals[Clicked].version = job.bubble.version THEN "conflict" ELSE @])
    /\ Fail
    /\ UNCHANGED <<named, root, refused, Elsewhere>>

FailUnchanged == Fail /\ UNCHANGED <<proposals, named, root, refused, Elsewhere>>

\* An update of one's proposal: by id and version, with the card that was clicked.
OwnCard(statuses) ==
    /\ proposals[Clicked].version = job.bubble.version /\ proposals[Clicked].bubble = job.bubble
    /\ proposals[Clicked].status \in statuses

----------------------------------------------------------------------------
(* The click of a card: process_proposal_action.                           *)

\* mark_result_card_delivered, mark_result_card_delivering
StaleCard(q, b) == IF q.dismissal = NoBubble THEN [q EXCEPT !.dismissal = b] ELSE q
Delivery(p, b, from, to) ==
    LET q == proposals[p]
    IN
    IF q.status # "applied" \/ q.bubble # b THEN StaleCard(q, b)
    ELSE IF ~CanUndo(p, q) THEN [q EXCEPT !.card = "expired", !.dismissal = b]
    ELSE IF q.card \in from THEN [q EXCEPT !.card = to]
    ELSE IF q.card \in {"delivering", "delivered"} THEN q
    ELSE StaleCard(q, b)

\* proposal_for_action
CardOfAction ==
    IF proposals[Clicked].version = job.bubble.version /\ proposals[Clicked].bubble = job.bubble
    THEN proposals[Clicked] ELSE NoProposal

\* A result card whose delivery was cut off is confirmed first.
ClickLoad ==
    /\ job.kind \in Clicks /\ job.at = "load"
    /\ LET q == CardOfAction
           cutOff == job.kind = "undo" /\ q.status = "applied" /\ q.card = "delivering"
           delivered == [proposals EXCEPT ![Clicked] =
                            Delivery(Clicked, job.bubble, {"delivering"}, "delivered")]
           hasCard == \E c \in root : c.id = job.bubble
       IN IF q.status = "absent" THEN FailUnchanged
          ELSE IF cutOff
          THEN /\ IF late[Clicked] THEN Dismiss(delivered, {job.bubble}) /\ Fail
                  ELSE /\ Store(delivered) /\ UNCHANGED root
                       /\ IF hasCard THEN UNCHANGED <<job, queue>> ELSE Fail
               /\ UNCHANGED <<named, refused, Elsewhere>>
          ELSE /\ job' = [job EXCEPT !.at = "begin", !.mine[Clicked] = q]
               /\ UNCHANGED <<proposals, named, root, queue, refused, Elsewhere>>

\* Edit, EditCancel: only the fields of the card change, unless the grounds are gone.
Edit ==
    /\ InJob("edit", "begin")
    /\ IF Found.status # "proposed" THEN FailUnchanged
       ELSE IF ~Verified(Clicked) THEN ConflictAndFail
       ELSE End(<<>>) /\ UNCHANGED <<proposals, named, root, refused, Elsewhere>>

\* Mutant: the edited name keeps its version.
EditedInPlace(q) == [q EXCEPT !.name = job.name, !.operation = FALSE, !.dismissal = job.bubble]

Edited(q) ==
    [q EXCEPT !.name = job.name, !.version = @ + 1, !.operation = FALSE,
              !.dismissal = job.bubble, !.bubble = ConfirmId(Clicked, q.version + 1)]

EditSubmit ==
    /\ InJob("submit", "begin")
    /\ IF Found.status # "proposed" \/ job.name \in {Found.name, Found.before} THEN FailUnchanged
       ELSE IF ~Verified(Clicked) \/ named # Found.before THEN ConflictAndFail
       ELSE IF ~OwnCard({"proposed"}) THEN FailUnchanged
       ELSE /\ Found.version < MaxNameVersions
            /\ Store([proposals EXCEPT ![Clicked] = Edited(Found)])
            /\ End(Refresh)
            /\ UNCHANGED <<named, root, refused, Elsewhere>>

Reject ==
    /\ InJob("reject", "begin")
    /\ IF ~OwnCard({"proposed"}) THEN FailUnchanged
       ELSE /\ Store([proposals EXCEPT ![Clicked] = [@ EXCEPT !.status = "rejected", !.bubble = NoBubble,
                         !.dismissal = job.bubble, !.suppressed = (Found.source = "inferred")]])
            /\ End(<<CardRequest("dismiss", job.bubble, NoName)>>)
            /\ UNCHANGED <<named, root, refused, Elsewhere>>

\* Register: the operation is noted, the name saved and the result noted, one
\* durable step each; a name saved by an attempt cut off is only noted.
RegisterBegin ==
    /\ InJob("register", "begin")
    /\ IF Found.status \notin {"proposed", "applying"} THEN FailUnchanged
       ELSE IF ~Verified(Clicked) \/ (Found.status = "proposed" /\ named # Found.before) THEN ConflictAndFail
       ELSE IF named = Found.name
       THEN GoTo("finish") /\ UNCHANGED <<proposals, named, root, queue, refused, Elsewhere>>
       ELSE IF named # Found.before THEN ConflictAndFail
       ELSE IF ~OwnCard({"proposed", "applying"}) THEN FailUnchanged
       ELSE /\ Store([proposals EXCEPT ![Clicked].status = "applying", ![Clicked].operation = TRUE])
            /\ GoTo("save")
            /\ UNCHANGED <<named, root, queue, refused, Elsewhere>>

RegisterSave ==
    /\ InJob("register", "save")
    /\ named' = Found.name
    /\ GoTo("finish")
    /\ UNCHANGED <<proposals, root, queue, refused, Elsewhere>>

\* initialize_applied_result_state
Applied(p, q) ==
    [q EXCEPT !.status = "applied", !.operation = TRUE, !.bubble = ResultId(p, q.version),
              !.dismissal = q.bubble, !.record = "pending", !.card = "pending"]

RegisterFinish ==
    /\ InJob("register", "finish")
    /\ IF /\ proposals[Clicked].version = job.bubble.version /\ proposals[Clicked].operation
          /\ proposals[Clicked].status \in {"applying", "applied"}
       THEN Store([proposals EXCEPT ![Clicked] = Applied(Clicked, Found)]) /\ End(Refresh)
       ELSE Fail /\ UNCHANGED proposals
    /\ UNCHANGED <<named, root, refused, Elsewhere>>

\* Undo, up to the update that begins it, which the store has to take; no state
\* is known in which it does, so what follows it is not here.
Undoing ==
    [Found EXCEPT !.status = "undoing", !.card = "resolved", !.dismissal = job.bubble, !.bubble = NoBubble]

UndoBegin ==
    /\ InJob("undo", "begin")
    /\ LET expired == [proposals EXCEPT ![Clicked].card = "expired", ![Clicked].dismissal = job.bubble]
           begun == [proposals EXCEPT ![Clicked] = Undoing]
       IN IF Found.status # "applied" THEN FailUnchanged
          ELSE IF ~CanUndo(Clicked, Found)
          THEN /\ IF OwnCard({"applied"}) THEN Store(expired) ELSE UNCHANGED proposals
               /\ End(<<CardRequest("dismiss", job.bubble, NoName)>>)
               /\ UNCHANGED <<named, root, refused, Elsewhere>>
          ELSE IF Found.card \notin {"unknown", "pending", "delivered"} THEN FailUnchanged
          ELSE IF registry # "has" \/ named # Found.name THEN ConflictAndFail
          ELSE /\ OwnCard({"applied"}) /\ ~Takes(begun)
               /\ refused' = TRUE
               /\ Fail
               /\ UNCHANGED <<proposals, named, root, Elsewhere>>

----------------------------------------------------------------------------
(* The other jobs.                                                         *)

\* mark_result_card_dismissed_at, when the user closed the card.
CloseMark ==
    /\ InJob("close", "load")
    /\ LET q == proposals[Clicked]
           card == CASE q.card \in {"dismissed", "expired", "resolved"} -> q.card
                     [] OTHER -> IF CanUndo(Clicked, q) THEN "dismissed" ELSE "expired"
       IN IF q.status = "applied" /\ q.bubble = job.bubble
          THEN Store([proposals EXCEPT ![Clicked].card = card, ![Clicked].dismissal = job.bubble])
          ELSE UNCHANGED proposals
    /\ GoTo("dismiss")
    /\ UNCHANGED <<named, root, queue, refused, Elsewhere>>

DismissCard ==
    /\ InJob("close", "dismiss") \/ InJob("dismiss", "load")
    /\ Dismiss(proposals, {job.bubble})
    /\ End(<<>>)
    /\ UNCHANGED <<named, refused, Elsewhere>>

\* dismiss_conflicted_speaker_name_proposal_bubble and the pending dismissals.
RecoverCard ==
    /\ InJob("recover", "load")
    /\ LET own == IF OwnCard({"conflict"}) THEN {job.bubble} ELSE {}
       IN Dismiss(proposals, own \cup Dismissals(proposals))
    /\ End(<<>>)
    /\ UNCHANGED <<named, refused, Elsewhere>>

\* rename_speaker: from the list of speakers.
Rename ==
    /\ InJob("rename", "load")
    /\ named' = IF registry = "has" THEN job.name ELSE named
    /\ End(<<>>)
    /\ UNCHANGED <<proposals, root, refused, Elsewhere>>

----------------------------------------------------------------------------
(* run_speaker_name_proposal_bubble_sync                                   *)

\* The proposals in hand are gone through from the newest.
Newest(ps) == IF ps = {} THEN 0 ELSE CHOOSE p \in ps : \A q \in ps : q <= p
Below(i, ps) == Newest({p \in ps : p < i})
Stored == {p \in Asks : proposals[p].status # "absent"}
InHand == {p \in Asks : job.old[p].status # "absent"}
Registered(ps) == {p \in Asks : ps[p].status = "applied"}

\* What was to be taken away is, and the store is read.
SyncLoad ==
    LET ps == Dismissed(proposals, Dismissals(proposals))
    IN
    /\ InJob("sync", "load")
    /\ Dismiss(proposals, Dismissals(proposals))
    /\ IF Stored = {} THEN End(<<>>)
       ELSE /\ job' = [job EXCEPT !.at = "scan", !.i = Newest(Stored), !.old = ps, !.mine = ps]
            /\ UNCHANGED queue
    /\ UNCHANGED <<named, refused, Elsewhere>>

SyncEnd ==
    /\ InJob("sync", "end")
    /\ Dismiss(proposals, Dismissals(proposals))
    /\ End(<<>>)
    /\ UNCHANGED <<named, refused, Elsewhere>>

\* replace_unchanged_speaker_name_proposals: what another hand changed stays.
Unchanged(p) == proposals[p] = job.old[p]
Replaced(ps) == [p \in Asks |-> IF Unchanged(p) THEN ps[p] ELSE proposals[p]]

\* No registry: every proposal in hand is a conflict.
SyncWithoutRegistry ==
    LET live == {"proposed", "applying", "applied"}
        dropped(q) == IF q.status \in live
                      THEN [q EXCEPT !.status = "conflict", !.dismissal = q.bubble, !.bubble = NoBubble]
                      ELSE [q EXCEPT !.dismissal = IF @ = NoBubble THEN q.bubble ELSE @]
        ids == {job.old[p].bubble : p \in Asks} \ {NoBubble}
    IN
    /\ InJob("sync", "scan") /\ registry = "none" /\ job.todo = {} /\ job.mine = job.old
    /\ Dismiss(Replaced([p \in Asks |-> dropped(job.old[p])]), ids)
    /\ GoTo("end")
    /\ UNCHANGED <<named, queue, refused, Elsewhere>>

\* recover_applying_proposal
SavesName(q) == q.status = "applying" /\ registry = "has" /\ named = q.before

InConflict(q) == [q EXCEPT !.status = "conflict", !.bubble = NoBubble]

\* What sync_speaker_name_proposals makes of one proposal.
Scanned(p, q) ==
    CASE q.status = "proposed" /\ late[p] -> [q EXCEPT !.status = "expired", !.bubble = NoBubble]
      [] q.status = "proposed" /\ ~late[p] /\ evidence[p] = "unsourced" -> q
      [] q.status = "proposed" /\ ~late[p] /\ evidence[p] # "unsourced" ->
            IF Verified(p) /\ named = q.before
            THEN [q EXCEPT !.bubble = ConfirmId(p, q.version)] ELSE InConflict(q)
      [] q.status = "applying" ->
            IF registry = "has" /\ (SavesName(q) \/ named = q.name) THEN Applied(p, q) ELSE InConflict(q)
      [] q.status = "applied" ->
            IF registry # "has" THEN InConflict(q)
            ELSE IF named # q.name THEN [InConflict(q) EXCEPT !.card = "resolved"]
            ELSE IF ~CanUndo(p, q) /\ (q.card # "expired" \/ q.dismissal # q.bubble)
            THEN [q EXCEPT !.card = "expired", !.dismissal = q.bubble] ELSE q
      [] OTHER -> q

SyncScan ==
    /\ InJob("sync", "scan") /\ registry # "none"
    /\ LET p == job.i
           q == job.mine[p]
           to == Scanned(p, q)
           asks == to.status = "proposed" /\ evidence[p] # "unsourced"
       IN /\ named' = IF SavesName(q) THEN q.name ELSE named
          /\ job' = [job EXCEPT !.mine[p] = to, !.todo = IF asks THEN @ \cup {p} ELSE @,
                                !.i = Below(p, InHand),
                                !.at = IF Below(p, InHand) = 0 THEN "write" ELSE "scan"]
    /\ UNCHANGED <<proposals, root, queue, refused, Elsewhere>>

\* Mutant: the card a change took from its proposal is not remembered.
Unparted(p) == job.mine[p]

\* The card a change took from its proposal is noted, to be taken away later.
Parted(p) ==
    IF job.mine[p].dismissal = NoBubble /\ job.mine[p].bubble # job.old[p].bubble
    THEN [job.mine[p] EXCEPT !.dismissal = job.old[p].bubble] ELSE job.mine[p]

SyncWrite ==
    LET p == Newest(Registered(job.mine))
    IN
    /\ InJob("sync", "write")
    /\ Store(Replaced([r \in Asks |-> Parted(r)]))
    /\ job' = [job EXCEPT !.at = IF p = 0 THEN "obsolete" ELSE "record", !.i = p,
                          !.todo = {r \in @ : Unchanged(r)}]
    /\ UNCHANGED <<named, root, queue, refused, Elsewhere>>

\* persist_result_record_state, and whether a card is due.
ResultRecord ==
    LET p == job.i
        q == job.mine[p]
        to == IF CanUndo(p, q) THEN [q EXCEPT !.record = "recorded"]
              ELSE [q EXCEPT !.record = "recorded", !.card = "expired",
                             !.dismissal = IF q.card # "expired" THEN q.bubble ELSE @]
        below == Below(p, Registered(job.mine))
        next == [job EXCEPT !.i = below, !.at = IF below = 0 THEN "obsolete" ELSE "record"]
    IN
    /\ InJob("sync", "record")
    /\ IF to # q /\ ~(proposals[p].version = q.version /\ proposals[p].operation)
       THEN Fail /\ UNCHANGED proposals
       ELSE /\ Store([proposals EXCEPT ![p] =
                         IF to = q THEN @ ELSE [@ EXCEPT !.record = to.record, !.card = to.card,
                                                        !.bubble = to.bubble, !.dismissal = to.dismissal]])
            /\ job' = [next EXCEPT !.mine[p] = to, !.todo =
                          IF CanUndo(p, q) /\ q.card \in {"pending", "delivering"} THEN @ \cup {p} ELSE @]
            /\ UNCHANGED queue
    /\ UNCHANGED <<named, root, refused, Elsewhere>>

\* Cards of proposals that are not to be seen any more.
SyncObsolete ==
    LET open == {p \in Asks : /\ CanUndo(p, job.mine[p])
                             /\ job.mine[p].card \in {"pending", "delivering", "delivered"}}
        visible == {job.mine[p].bubble : p \in job.todo \cup open}
    IN
    /\ InJob("sync", "obsolete")
    /\ Dismiss(proposals, {job.old[p].bubble : p \in Asks} \ (visible \cup {NoBubble}))
    /\ GoTo("deliver")
    /\ UNCHANGED <<named, queue, refused, Elsewhere>>

\* Mutant: a delivery that was cut off is begun again.
DeliverAgain(p) == proposals[p].card \in {"pending", "delivering"}

\* mark_result_card_delivering: only a card never delivered before is shown.
DeliversCard(p) == proposals[p].card = "pending"

StepTo(p, at) == job' = [job EXCEPT !.i = p, !.at = at]
NextCard(p) == job' = [job EXCEPT !.todo = @ \ {p}, !.i = 0, !.at = "deliver"]

SyncDeliver ==
    /\ InJob("sync", "deliver")
    /\ IF job.todo = {} THEN GoTo("end") /\ UNCHANGED <<proposals, root>>
       ELSE \E p \in job.todo :
               LET b == job.mine[p].bubble
                   result == job.mine[p].status = "applied"
                   replaced == {job.old[p].bubble} \ {b, NoBubble}
                   deliverable == proposals[p].bubble = b /\ CanUndo(p, proposals[p])
               IN IF ~result THEN Dismiss(proposals, replaced) /\ StepTo(p, "show")
                  ELSE /\ Store([proposals EXCEPT ![p] = Delivery(p, b, {"pending"}, "delivering")])
                       /\ UNCHANGED root
                       /\ IF deliverable /\ DeliversCard(p) THEN StepTo(p, "show")
                          ELSE IF deliverable /\ proposals[p].card = "delivering" THEN StepTo(p, "commit")
                          ELSE NextCard(p)
    /\ UNCHANGED <<named, queue, refused, Elsewhere>>

\* The card is shown unless it is already, and the delivery of a result noted.
SyncShow ==
    LET p == job.i
        b == job.mine[p].bubble
        result == job.mine[p].status = "applied"
        hasCard == \E c \in root : c.id = b
    IN
    /\ InJob("sync", "show")
    /\ IF hasCard THEN UNCHANGED <<root, shown>>
       ELSE /\ root' = root \cup {[id |-> b, name |-> job.mine[p].name]}
            /\ shown' = IF result /\ shown[p] < 2 THEN [shown EXCEPT ![p] = @ + 1] ELSE shown
    /\ IF result THEN GoTo("commit") ELSE NextCard(p)
    /\ UNCHANGED <<proposals, named, queue, refused, options, core, World, granted, namingEvents>>

SyncCommit ==
    LET p == job.i
        b == job.mine[p].bubble
        expires == proposals[p].status = "applied" /\ proposals[p].bubble = b /\ ~CanUndo(p, proposals[p])
        ps == [proposals EXCEPT ![p] = Delivery(p, b, {"pending", "delivering"}, "delivered")]
    IN
    /\ InJob("sync", "commit")
    /\ IF expires THEN Dismiss(ps, {b}) ELSE Store(ps) /\ UNCHANGED root
    /\ NextCard(p)
    /\ UNCHANGED <<named, queue, refused, Elsewhere>>

SyncStep ==
    \/ SyncLoad \/ SyncWithoutRegistry \/ SyncScan \/ SyncWrite \/ ResultRecord \/ SyncObsolete
    \/ SyncDeliver \/ SyncShow \/ SyncCommit \/ SyncEnd

ClickStep ==
    \/ ClickLoad \/ Edit \/ EditSubmit \/ Reject
    \/ RegisterBegin \/ RegisterSave \/ RegisterFinish \/ UndoBegin

OtherStep == CloseMark \/ DismissCard \/ RecoverCard \/ Rename

----------------------------------------------------------------------------
(* The user, the world and faults.                                         *)

Acts == job.kind = "idle" /\ Len(queue) < MaxJobs /\ Happens
Outside == UNCHANGED <<proposals, options, named, core, root, job, shown, refused>>

Click(c, kind, name) ==
    /\ Acts
    /\ IF c.id.kind = "confirm" THEN kind \in {"register", "edit", "submit", "reject", "close"}
       ELSE kind \in {"undo", "close"}
    /\ (name = NoName) <=> (kind # "submit")
    /\ queue' = Append(queue, CardRequest(kind, c.id, name))
    /\ granted' = IF kind = "register" THEN granted \cup {c.name} ELSE granted
    /\ UNCHANGED World /\ Outside

AskRename(name) ==
    /\ Acts
    /\ queue' = Append(queue, CardRequest("rename", NoBubble, name))
    /\ granted' = granted \cup ({name} \ {NoName})
    /\ UNCHANGED World /\ Outside

\* schedule_speaker_name_proposal_bubble_sync, after every refresh of the conversation.
AskSync ==
    /\ job.kind = "idle" /\ queue = <<>>
    /\ queue' = Append(queue, CardRequest("sync", NoBubble, NoName))
    /\ UNCHANGED <<World, granted, namingEvents>> /\ Outside

Drift ==
    /\ Happens /\ World = Untouched
    /\ \/ \E p \in Stored : late' = [late EXCEPT ![p] = TRUE] /\ UNCHANGED <<registry, evidence>>
       \/ \E p \in Stored, e \in {"unsourced", "lost"} :
             evidence' = [evidence EXCEPT ![p] = e] /\ UNCHANGED <<registry, late>>
       \/ \E r \in {"lacks", "none"} : registry' = r /\ UNCHANGED <<evidence, late>>
    /\ UNCHANGED <<queue, granted>> /\ Outside

\* A job meets an error: what it wrote before stays.
StepFails ==
    /\ job.kind # "idle" /\ Happens
    /\ Fail
    /\ root' = IF job.at = "dismiss" THEN WithoutCards({job.bubble})
               ELSE IF job.kind = "sync" /\ job.at \in {"load", "end"}
               THEN WithoutCards(Dismissals(proposals)) ELSE root
    /\ UNCHANGED <<proposals, named, refused, options, core, World, History>>

NamingCrash ==
    /\ Happens
    /\ root' = {} /\ queue' = <<>> /\ job' = NoCardJob
    /\ core' = NoInsert
    /\ UNCHANGED <<proposals, options, named, refused, World, History>>

NamingNext ==
    \/ CoreTurn
    \/ TakeJob \/ ClickStep \/ OtherStep \/ SyncStep
    \/ \E c \in root, kind \in JobKinds, name \in VoiceNames \cup {NoName} : Click(c, kind, name)
    \/ \E name \in VoiceNames \cup {NoName} : AskRename(name)
    \/ AskSync \/ Drift \/ StepFails \/ NamingCrash

NamingSpec == NamingInit /\ [][NamingNext]_namingVars

----------------------------------------------------------------------------
(* A voice carries only a name the user confirmed, on the card that showed *)
(* it, or typed: whatever other version of the proposal is confirmed in    *)
(* the end, and whatever a recovery completes.                             *)
OnlyGrantedNames == named \in granted \cup {NoName}

(* The result card of a registration is shown at most once: one that the   *)
(* user saw does not come back though the cards are lost with the program  *)
(* (commands_speaker.rs, run_speaker_name_proposal_bubble_sync).  And every *)
(* card in view, once the queue has come to rest and before the seven days *)
(* of its proposal are over, belongs to a proposal that still asks, has a  *)
(* result to show or waits to take it away.                                *)
CardsAreTrue ==
    /\ \A p \in Asks : shown[p] <= 1
    /\ job.kind = "idle" /\ queue = <<>>
          => \A c \in root : \/ late[c.id.of]
                             \/ \E p \in Asks : c.id \in {proposals[p].bubble, proposals[p].dismissal}

(* Undoing a registration within its seven days is possible: the store     *)
(* keeps what the operations after the confirmation need.                  *)
UndoIsTaken == ~refused
=============================================================================
