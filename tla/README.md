# Verification of the companion core

TLA+ models of the parts of CooSenpAI that must keep their promises across
threads, crashes and retries: the life of a **user message** (`UserTurn` over
`CompanionCursor`), the way of a **remark** to the screen (`RemarkDelivery`,
which implements `OrderedFanout`), and the **services** around them, one module
each, put together by `MCServices`. All of them are checked by TLC and
proved about with TLAPS, for any number of messages, turns, processes, sessions,
crashes and retries.

    tlc -config UserTurnAppend.cfg MCUserTurn       # one .cfg per run, see section 3
    tlapm UserTurn_proofs.tla                       # one call per *_proofs module

`PROJECT.json` lists the components, the runs, a mutant of the code for every
checked property, the source lines behind every definition (`map`), the hazards
of the code and the theorems. Paths below are relative to `src/`; files without
a directory are in `crates/core/src`.

## 1. The system

One process owns the companion at a time: the desktop application or the
command line, whichever holds the watch lock. In it run

- the **runtime actor** (`runtime.rs`), a loop over channels that starts and
  collects one companion operation and one observer operation at a time,
- the **tasks** of those operations, which call a provider through one **bridge
  process** they share,
- the **handles** through which the user interface says, cancels, retries and
  replaces the configuration,
- the **consumers** that show what the companion said (desktop monitor, the
  notifier), which share nothing but files with the actor,
- the desktop's own tasks: the **capture** of the screen, the **hearing
  sessions**, the **worker** of a coding task, the **speaker queue**, and the
  **memory service**.

What survives a crash is files: `cursor.json` (every update atomic under the
cursor lock), the conversation log (JSONL, an entry with a known id is appended
once), the outbox and mailbox directories (a file is moved between `inbox`,
`processing` and `done`), and small JSON stores for the rest.

### Components

| Component | State | Operations | Interaction and difficulty | What makes it correct | Model |
|---|---|---|---|---|---|
| User queue of the cursor (`companion_cursor`, `companion_storage`, `companion_reconcile`) | `pending_inputs`, lease, commit marker, cancelled ids, operation counter | enqueue, reconcile, lease, extend, begin, fail, give up, cancel, retry, reserve … finalize; a read validates and quarantines | every other part writes it; legal updates in an unexpected order may leave what no read accepts | always readable; nothing leaves unsettled; order kept | CompanionCursor |
| User turn (`companion_user*`) | the operation in memory | prepare, dispatch, append to a running call, commit in six durable steps, give up, retry | handle, actor and task interleave; a crash between any two steps | answered at most once, never lost, attempts charged rightly | UserTurn |
| Runtime actor and its handles (`runtime*`) | lanes, tokens and causes, start gate, agents, deadlines, command queues | accept, start, collect, preempt, cancel, retry, replace, rebuild | commands race the end of a task; tokens are renewed while others hold the old ones; an agent may be lost with its task | every message is eventually dealt with; a blocked gate is quiet; a lost agent comes back | RuntimeLanes, UserTurn |
| Proactive turn (`companion`, `companion_persistence`), incoming mailbox, `usage` | marker, pending deliveries, completed observations, counters | reserve, commit in nine steps, recover, give up | user speaks in the middle; six files; crash between any two | an observation is spoken of once and counted once | ProactiveTurn |
| Remark delivery (`companion_delivery`), outbox, mailbox | pending deliveries, the commit they belong to, outbox entries, envelopes | make, count, log, enqueue, mark, complete, retry, give up; deliver to each recipient; claim, acknowledge | partial delivery, redelivery, order, a count refused or a commit outrun half-way | no remark forgotten as said, repeated or overtaken | RemarkDelivery |
| Consumers (`notification`, desktop `state_runtime`) | claims, shared list of processed ids | claim, throw away, show, accept, skip, retry | crash between noting and completing; bounded list of ids | not shown again after acceptance | RemarkDelivery |
| Work offers and tasks (`work/`, `companion_work`, desktop `work.rs`) | offers and epochs; approval, journal, task file | offer, accept, void; ask, review, decide, revoke, run, record, restore | acceptance crosses two files; approval withdrawn while a review or a harness runs; restart | queued once; runs in one life; works on a standing approval | ProactiveTurn, WorkTask |
| Provider bridge (`provider/bridge`) | pending requests, process generation, lent stdin, reaping | start, request, append, cancel, fail, replace, shut down | one process for many requests; answer, acknowledgement, limit and exit race | every call returns; nothing stays pending; no process starts while another is being ended or written to | ProviderBridge |
| Memory (`memory/`) | job per period, summaries | reserve, claim, generate, save, commit, release, recover | preemption and crash between phases; consent | an answer paid for is used, two periods at most in a day or a week, each called for once a day | MemoryJobs |
| Conversations (`conversation_archive*`), attachments | live files, archives, generations, reset intent | reset, archive, carry over, select, replay the intent | replay after a crash or an error | nothing is lost; replay finds room | ConversationReset |
| Speaker names (`speaker_name_proposals`, desktop `commands_speaker`) | proposals, conflicts, names, cards, queue | propose, edit, register, reject, undo, recover, expire, show, dismiss | card, store and file of names change apart; crash inside a registration | only confirmed names; a result shown once; no orphaned card | SpeakerNaming |
| Observer, watch coordination, watch worker (`observer*`, `runtime_watch_scope`, `recent_observations`, desktop `watch`) | watch scope and its generation, buffered captures, frame contexts, journal of observations, outbox, what is to be retried | read the scope, capture, register, flush, observe, store, decide, hand over, retry, recover; change the allowlist; claim what a user saw | capture and call outlive the scope they began in; user, observer and companion take from one cursor | nothing of an old scope stored; what a user saw not said again while the cursor remembers it; no observation lost | ScreenWatch |
| Desktop hearing sessions (`hearing*`) | lifecycle, pending exit, tasks, helper, restarts, view | reconcile, start, attach, fail, restart, stop, delete a day | one lock, spawned tasks, late exits | one helper; deleted stays deleted; the view is true; hearing comes | HearingSession |

Not modelled, with the reason, are listed in section 6. The hazards of the code,
each at its line, are in `PROJECT.json`.

## 2. Modules

| Module | Contents |
|---|---|
| `CompanionCursor` | the queue, lease and commit marker of `cursor.json`; the validation of a read; one operator per update closure of `companion_storage.rs` |
| `UserTurn` | handle, actor, task, recovery, user commands and faults over one cursor; properties |
| `OrderedFanout` | the abstract promise: items reach every receiver in order and a settled item is not shown again |
| `RemarkDelivery` | owner, outbox, mailboxes, consumers, faults; refinement of `OrderedFanout` |
| `RuntimeLanes`, `ProactiveTurn`, `ProviderBridge`, `WorkTask`, `HearingSession`, `ConversationReset`, `MemoryJobs`, `SpeakerNaming`, `ScreenWatch` | one service each |
| `MCUserTurn`, `MCRemarkDelivery` | numbers of messages and attempts, recipients and conversations for TLC |
| `MCServices` | the services side by side: `part` names the one a behaviour is of, the others stay put |
| `MCServicesLive` | the same with the delivery of remarks, and the fairness of every task |
| `LeastNumbers` | every nonempty set of naturals has a least element |
| `UserTurn_proofs` | every update preserves the type of the cursor; type correctness of `UserTurn`; the queue keeps its order; no message is answered twice and none is lost; without images every read of the cursor succeeds and no message is given up early |
| `RemarkDelivery_proofs` | invariants of `RemarkDelivery`; that it implements `OrderedFanout` |
| `Runtime_proofs` | what runs in the process: `RuntimeLanes`, `ProviderBridge` and the lock of its standard input |
| `Initiative_proofs` | what the companion does on its own: `ProactiveTurn`, `WorkTask` |
| `Senses_proofs` | what it sees and hears: `ScreenWatch`, `HearingSession` |
| `Records_proofs` | what is kept: `ConversationReset`, `MemoryJobs`, `SpeakerNaming` (its names and its cards) |
| `Services_proofs` | what the four modules above it prove of each service holds of `MCServices` |

### CompanionCursor and UserTurn

A message is its position in the log of user entries, a response the number of
the operation that produced it. `pending_inputs` is a slot per message: the code
only pushes the largest sequence number and retains, so the vector is determined
by the numbers. `Read` is what every load does: it quarantines a commit marker
it cannot trust; `Readable` is what makes a load fail, which nothing repairs.
Emotions, texts, tutorial keys, work offers and the conversation generation are
left out of the record.

Three processes run at once. `HandleNext` is `prepare_parts`: append to the log,
then enqueue, as two steps with the turn-commit lock held. `ActorNext` is the
loop: boot (`initialize_storage`), reconcile, recover a commit, settle what is
exhausted, lease, begin, take commands, collect, and commit through *mark,
prepare, respond, log, publish, finalize*, one durable step each. `TaskNext` is
the provider call with every way it can end. `pc` is the place in the actor's
code, `job` what the actor and its task hold in memory, `commands` the queued
Enqueue commands. `UserNext` is cancel and retry. `FaultNext` is a crash, an
interruption by another priority command, and a durable step that fails.

A step that meets an unreadable cursor returns the read's error and changes
nothing, so such actions are guarded by `Readable`. `AppendMode` is
`chat.whileThinking = "append"`; `MidTurn` says whether the provider takes input
while it works, otherwise the call is restarted; `WithImages` allows images that
must be read first. `spent` is a history variable: how often a message was
really dispatched without an answer.

### RemarkDelivery

The owner is `CompanionAgent`: it takes up the commit a turn left over
(`resume`), passes over the outbox (`scan`, `publish` to one recipient, `move` to
done), and writes remarks down one at a time (`count`, `log`, `enqueue`, `mark`,
`complete`); its conversation is pinned when it starts. A remark is written for
the turn that made it, for a commit that is taken up, or in the retry of what is
pending, and `then` says which of them goes on after it (`final`, `clear`, or the
next turn). A remark can be given up unsaid at every one of these places
(`drop`): `Charge` refuses it because of the limit of the day or because the offer it
came with is gone, also after it was counted when the date changes between
two attempts; `TakeUpCommit` gives up the one whose turn the user has outrun.
`committing` is the remark of `active_turn_commit` and `outrun` that the user has
spoken since; the cursor hides both from another conversation, and no turn starts
while they are there. `lost` is what the owner had taken out of its list in memory
when the count failed: it waits for a new owner. `unsaid` is a history variable,
the remarks given up.

Consumers claim in the order of the file names, throw away what belongs to
another conversation, show, and accept: the id is noted in the shared list
first and the envelope completed afterwards. The desktop serves its two targets
in one loop; the model lets consumers interleave freely, which includes that
order. User answers bypass the outbox and belong to `UserTurn` (`mailbox`).

`Fanout` maps an outbox entry to *sent*, an envelope anywhere to *arrived*, one
in `processing` to *held*, a noted or completed one to *settled*, and the
consumer's place to *showing*.

### RuntimeLanes

An iteration of the actor's `select!` loop is a step; handles act between steps.
`source` is `OperationCancellationState` (a token and a cause per lane), `op` the
two running operations with the token each was given, `gate`
`provider_starts_blocked`, `agents` where the observer and the companion are
(with the actor, out with an operation, gone), `actor` the flags and deadlines
of `RuntimeActor`, `mail` its three channels. Actions: `AcceptMessage`, `AskObserve`
and the other requests of handles; `StartUser`, `StartRecovery`, `StartObserve`,
`StartWake`, `StartInitialization`, `RetryDue`; `FinishObserve` and `FinishCoo` with
every outcome, panics and overruns of the ten-second limit included; `DoCommand`.
What a user turn does with its messages is `UserTurn`'s matter.

### ProactiveTurn

`lane` walks through the code of `CompanionAgent`: start, recovery, idle, call,
and the commit as *mark, (quiet | prepare, offer, count, append, publish, marked,
complete), finalize*; `inbox` holds the user epoch and the messages, `marker` is
`active_turn_commit`, `usage` the counter with its remembered ids, `offers` the
store of work offers with the epoch it follows. `arrival` is a message or an
acceptance under the turn-commit lock. A write may fail and the program may end
at every step; `BeginRecovery` … `RetryRemark` are what the next start does.

### ProviderBridge

`bridge` is `BridgeState` (generation, the child's stdin, the reaping handle, the
environment, shutdown), `pending` its map, `process` what the operating system
runs for each generation, `slot` each request's oneshot channel, `writers` the
FIFO of `write_lock`. A caller opens, writes, waits, adds, cancels and waits for
the grace of 100 ms; each of its steps runs from one await to the next, so a
cancellation may drop its future at any of them.

### WorkTask

`approval` is `WorkApprovals.State`, `journal` its file, `worker` the task in
`execution.rs`, `control` the controller's record and token, `taskFile` the durable
phase of each operation, `asker` the turn that waits. The user decides, changes
the mode and cancels at any time; a review is a provider call that may come back
after the mode changed; the program may end at any time and starts again with
what the files say.

### HearingSession

`holder` is the code that holds the projection lock (reconcile, stop, start,
proceed), `asked` the tasks that wait for it, `session` the initialisation task,
the session task and the helper of each generation, `helperExit` the deferred
start behind a helper that does not end, `restarts` the attempts and timers,
`panel` the view. Requests change the configuration, pause, delete a day.

### ConversationReset

`reset.step` walks through `execute_intent`: archive the log, archive the
attachments, carry over, rebase, update the cursor, open the generation, remove
the intent. `live` and `shelf` are folders by the name of a day, before and after
the move. A crash leaves the intent, which the next start executes again; an
error leaves the program running with it.

### MemoryJobs

`jobs` is the file of each period with its phase, `summaries` the file of each
summary, `memory` the service in the middle of its run (`RunDue`, then per period
read, reserve, generate, keep, save, commit), `bought` what was paid for. A user
preempts, consent is withdrawn, logs change, the program ends.

### SpeakerNaming

`proposals` and `options` are the store of proposals and its conflict, `core` the
companion's turn between its two updates of it, `root` the cards in view, `queue`
and `job` the desktop's speaker queue and the job it runs step by step (click,
close, dismiss, recover, rename, or the pass that recovers, expires, records and
shows). One speaker. Clicks happen while no job runs: one during a job is as one
before it or after it.

### ScreenWatch

A capture is its number and has one frame; an observation is its number in the
journal. `watchScope` is the configuration published and the one on disk,
`watch_scope_generation`, the last `watch_context_since` (`cut`) and
`user_input_sequence`. `camera` is the capture under way, `shotBuffer` what
`WatchMemory` keeps until it is sent, `look` the work it started and the operation
*observe* that comes of it, `screenCursor` the parts of `cursor.json` about frames
and observations, with the two lists that are bounded at 500 ids, of frames an answer
had and of observations that are done (`KeepsLast`), and what they have dropped
(`gone` and `goneFrames`, history variables), `backlog` `pending_observations` of the runtime, `unsent` and
`recovered` what the observer's agent knows and loses with it. `asking` is the
message of the user with what of the screen it took, at its preparation and again
at its start, and `chat` the turn of the companion. A change of the allowlist is
`InvalidateScope`, `SaveConfig`, `CutContext`, `PublishScope`; the lock of the scope
is `ScopeLockFree`. `seenByUser` and `saidOfScreen` are history variables.

`KeepsLast` keeps the last `MaxCursorIds` ids that entered a list, and leaves open
which of the older ones is the older, as the vector's order would say: that is more
than the code may do. A reading of the mailbox is one step with what it hands over,
because the observer and the companion are both with the actor then. Not there: the
limit of the observations that wait (`MAX_PENDING_OBSERVATIONS`), the audio frames, stopping and starting
the watch, the roll-back of a failed update, the limits of the recent
observations in bytes and minutes, the sounds in an observation.

## 3. Runs

| Run | Instance | Shows |
|---|---|---|
| `turn_append` | 3 messages, 5 operations, 1 fault, append by restart | `CursorReadable`, `GivenUpAfterAttempts`: three messages are the fewest where one is leased, one added and one withdrawn |
| `turn_images` | 2 messages with images, 6 operations, mid-turn input, 1 fault | `AnsweredOnce`, `AnsweredKeepsPreparation`, `QuarantineLosesNoAnswer`, `LeavesQueueSettled`, `TypeOK` |
| `turn_live` | 2 messages, 9 operations, 1 fault, `FairSpec` | `EverySaidSettles` |
| `remark_safety` | 2 remarks, 2 recipients, 2 conversations, 1 fault, limit 3; 0.9 million states up to the exchange of recipients | outbox, cursor and stamp invariants, with remarks refused by the count and commits outrun anywhere; `DeliversInOrder`, the refinement |
| `services` | every service on its own, bounds below; 0.9 million states | the safety of each service: no process started while one is being ended or written to, one helper at a time, nothing pending that returned, a task in one life and on an approval, a remark once and counted, consent queued once and only to the current offer, a quiet gate, a companion that comes back, deleted sounds, a true view, nothing lost in a reset, paid calls used, confirmed names, cards shown once and taken away, nothing of the screen stored under another allowlist, lost, or said to who saw it while the cursor remembers |
| `services_live` | the same services but reset, memory, names and screen; remarks (2, one quiet, 1 recipient, 1 conversation, 2 faults); fairness; 64 thousand states | `EveryRemarkSettles`, `EveryCallReturns`, `EveryAskEnds`, `UsersAreServed`, `MessagesEnd`, `HearingComes` |
| `turn_withdrawn`, `turn_rejoined`, `turn_retry_image`, `turn_reading`, `reset_replay`, `naming_undo` | the smallest instance of each | the disagreements of section 5, as counterexamples |

*Bounds of the user turn and of remarks.* Two messages give an order and a batch;
three give a message that is neither head nor last while an operation is added
to. One fault may fall between any two steps, including those of the recovery
from an earlier cancellation or retry. The operation bound allows more
operations than two messages have attempts, so that giving up is reached in
every run that is about it. Two recipients are the fewest of which one is
reached and the other not; both run the same code, and `remark_safety` exchanges
them (`SurfaceSymmetry`; it checks no liveness). Deadlock is checked for remarks; the other runs stop
when their bounds are spent and say `CHECK_DEADLOCK FALSE`.

*Bounds of the services.* `bridge`: two callers, so that one fails or blocks
behind the other, two generations, one fault. `work`: an operation inside the
allowed root and one outside, two lives, of which the first begins in auto mode and the second in either,
one change of the mode, one failed write. `turn`: one observation and two turns, so that it comes up again after a
turn was given up; one message; one fault. `lanes`: two messages, two events
(another request, a panic, an overrun). `hearing`: three sessions, one restart
attempt, two requests and two faults, one sentence. `reset`: two days, a message
with an image, two resets and two faults, which is a replay of a replay.
`memory`: four days in weeks of two, so that a week closes while a day is
summarised and three days wait on one; two runs, one fault. `naming`: two names, two proposals of two versions, two
queued jobs, three events (turns, clicks, changes around, faults). `screen`: two
captures, so that one is buffered, observed or taken by the user while another is
of a later scope, one observation, two events (messages, changes of the
allowlist, crashes, failed calls), and lists of one id in the cursor
(`MaxCursorIds`, 500 in the code), so that the frame of a second answer pushes out
that of the first; the theorems of section 4 are about any number. In `services_live`
the remarks are of one conversation: what a switch hides from the owner owes
nothing, and `remark_safety` has two.

*What the bounds leave out.* With two messages `turn_live` cannot reach the
livelock of `turn_rejoined`, which takes a batch of two and a copy: the property
is claimed for its instance only. In `RemarkDelivery` the list of processed ids
must be at least as long as the number of envelopes in flight. With a limit of 3
and two faults TLC shows a remark a second time: its completion fails, three
later acceptances evict its id, and a restart takes the envelope up again. That
is what `PROCESSED_ID_LIMIT` (200) buys; with a limit of 4 and the same faults
(one conversation) the refinement holds, and section 4 proves it for every limit
that has room for what was accepted.

*What the properties except.* A remark may be given up on purpose: one that the
count refused or whose turn was outrun is in `unsaid`, `ForgottenOnlyWhenEnqueued`
asks of it no log and no outbox, and `EveryRemarkSettles` nothing as long as no
outbox entry of it exists. Whoever is only forgotten as enqueued must be written.
`EveryRemarkSettles` also excepts a remark of another conversation, one a consumer
failed on after claiming it, and one the owner lost from its memory (`lost`): the
last two wait for a restart. `SeenIsNotSpoken` asks that what the companion speaks of
is not what an answer had, unless the id of the observation, or one of its frames,
has meanwhile been pushed out of the cursor (`gone`, `goneFrames`): without that
exception TLC shows it violated, by an agent that starts after the eviction.
`StartsAfterReap` is about processes that were told to end and lines that are being
written; it does not say that there is one process (section 5, *Bridge*).

*Fairness.* Every task the runtime spawned goes on, and every timer fires; users,
configuration changes, conversation switches and faults owe nothing.
`UserTurn`: the handle finishes what it began, the loop takes every step it can
(its timer ends a backoff), the task ends (it has a timeout). `RemarkDelivery`: the
owner's loop turns on its timer, each consumer polls. `RuntimeLanes`: each branch
of the loop that stays ready is taken, because `select!` polls all of them and
the loop tries every start after each; an operation ends, because a cancelled
one is aborted after ten seconds. `ProviderBridge`: each caller, and the exit of a
process that was killed; not the answer of a live one, which may never come.
`WorkTask`: worker, listener and token; not the decision of the user.
`HearingSession`: whoever holds the lock, the tasks, the timers, and a helper that
was told to end.

## 4. Proofs

- **`UserTurn_proofs!TypeCorrect`**: `Spec => []TypeOK`. Not inductive alone: a
  commit writes under the id of its response and a copy takes the next place in
  the log. `OperationKnown` says that both are known by then. Every update of
  the cursor has its lemma in the module's first part, on any cursor.
- **`UserTurn_proofs!QueueKeepsOrder`**: `Spec => []ValidPending(cursor)`,
  the part of every read's validation that concerns `pending_inputs`, in all
  modes and under all faults. Updates either keep the numbers or take inputs out
  (`QueueKept`), or insert behind the counter: `EnqueueValid`, and
  `ReconcileValidPending`, where the ranks of the inserted messages are distinct.
- **`UserTurn_proofs`, answers**: `AnswersAreSingle` (`Spec => []AnsweredOnce`),
  `AnswersStayPrepared`, `QuarantineIsHarmless` and `NothingSaidIsLost`
  (`Spec => LeavesQueueSettled`), in every mode, with images and under all faults,
  from `AnswerInv`. Its core is what the files promise whatever the actor does
  (`StoreFits`): an answer in the log of which no message was withdrawn has either
  left the queue whole, or is whole in it, prepared and started, and the marker
  names exactly this batch (`AnswersHeld`). Such a marker passes every read, so no
  quarantine meets it, and the batch leaves the queue only together with it. What
  the actor holds has to agree at each step: the marker is the one its commit wrote
  (`CommitFits`), a recovery is of the marker or of one that a read has forgotten
  with its preparation (`RecoveryFits`), nothing is dispatched while a marker is
  left (`Unmarked`), the response is a new one or the one prepared before
  (`OperationFits`), what is given up was not answered (`GivingUpFits`), and what is
  being said is in no answer yet (`HandleFits`). Every update of the cursor is
  classified once (`Tame`, `Mild`, `Grows`) by what it may do to this, and the
  proof of a step names the class.
- **`UserTurn_proofs`, the lease**: `TextIsReadable` (`~WithImages => (Spec =>
  []CursorReadable)`), for any numbers and in the four modes without images; with
  images it is false (disagreement 3). That the lease is the head of the queue is
  not inductive: it grows by whatever is new, and would leave a gap if an older
  message were left out. `LeaseInv` says why none is. Without images nothing leaves the
  queue's runnable part but by leaving the queue (`TextOnly`). What is prepared
  is itself a head (`PreparedFirst`), so a lease of the oldest runnable message and of
  the unprepared after it, which is what `next_pending_user_messages` takes, leaves
  none out unless a prepared message is its head, and then it takes that one only. A
  lease or a marker of several messages covers all that is prepared (`Covers`), so
  that what stays prepared when a read throws the marker away is a head still; and
  the lease is what is left of the marker in the queue (`MarkerLeased`).
  A running operation has in its lease what it was begun with and what it is
  adding (`OperationLeased`). `QueueFits` is the part about the cursor, and every
  update has a lemma that keeps it.
- **`UserTurn_proofs`, the attempts**: `GivenUpIsSpent` (`~WithImages /\ ~MidTurn =>
  (Spec => []GivenUpAfterAttempts)`); with images (disagreement 4) and with mid-turn
  input (below) it is false. A message has at most one attempt more than it spent, and that
  one only while the operation that began it is under way (`ChargedBy`,
  `Dispatched`), so that whatever ends an operation must charge the attempt or give it back.
  That it does is `OperationCharged`: the batch has at most one attempt more than
  when the operation began, none once the call was asked to start again or was superseded,
  and one that could not be given back was never taken, because an answer was
  prepared. Until then the lease is the batch and what is being added, so that a
  failure that forbids another attempt forbids it to nobody outside the batch it is charged to.
  Every other update is `Cheap`: it adds no attempt and forbids none.
- **`RemarkDelivery_proofs`**: `TypeCorrect`, `OutboxTruthful`,
  `NothingForgottenEarly` and `StampIsRight` from one invariant. What the files
  promise holds between the owner's steps only because of what the owner has in
  memory, so `IInv` adds: the entry it delivers exists and whom it counts as
  reached has it (`EntryInHand`), how far the remark it writes has come
  (`RemarkWritten`), that it works on remarks of its own conversation
  (`WorksOnItsConversation`), and that an outbox entry was made and logged
  (`SentWereWritten`). Each place at which a remark can be given up is a step of its
  own in them: what is completed without having been written is completed from
  `drop` and is in `unsaid`, and nothing else is. They hold for every set of recipients and conversations and
  every number of remarks, remembered ids and faults.

- **`RemarkDelivery_proofs`, the ordered fan-out**: `InOrderWhileRemembered`
  (`Spec /\ []Remembered => DeliversInOrder`) and `InOrderWithinTheList`
  (`Spec /\ []FewAccepted => DeliversInOrder`). Each step of owner, consumer or
  fault is a step of `OrderedFanout` or none, from `IInv` and `FanoutInv`: the entry
  being published is the oldest one pending (`NextInLine`), what a consumer has
  claimed stays in processing until it is done with it (`ClaimsInHand`), and what
  it shows it has not accepted (`ShownOnce`). `Remembered`, that the id of whatever
  was accepted and is not completed is in the list, is a condition on the behaviour
  and not an invariant: the list keeps the last 200 ids whatever became of their
  envelopes, and a failed completion leaves one in processing until a restart. With
  a shorter list than section 3 takes, TLC shows the refinement fail. `FewAccepted`
  is a condition that is simple to judge: no more envelopes accepted than the list
  has room for. The list then drops nothing (`ListComplete`), so `Remembered` holds.

- **`Senses_proofs`, what is seen**: `ScreenTypeCorrect`, `SightingDelivered`,
  `OldScopeStaysOut` (`ScreenSpec => OldScopeNotStored`) and `SeenStaysUnspoken`
  (`ScreenSpec => SeenIsNotSpoken`), for any number of captures, observations and
  events, from `ScreenInv`: the types; `ScopeOK`, that a capture of the generation
  there is now was taken of the configuration there is now, because every change
  of the configuration advances the generation with it; `SeenOK`, that between
  turns the cursor knows what the user saw, that in between the message that took
  it does, and that what a turn of the companion is about stays unclaimed because
  no message starts meanwhile (what the cursor knows is taken with what its lists
  have dropped, `EverDone` and `EverConsumed`, since a bounded list alone keeps
  nothing: `KeptEntered`, `ClaimRemembers`, `EndRemembers`); and `SightingIsDelivered` itself, which leans on
  `SeenOK`: an observation that is dropped because its frames are consumed was
  seen by the user.

- **`Initiative_proofs`, work**: `WorkTypeCorrect`, `RunsOnce`
  (`WorkSpec => []RunsInOneLife`), `WorksApproved` (`[]WorksOnApproval`) and
  `SuccessStays` (`SuccessIsDurable`), for any operations, allowed roots, faults,
  changes of the mode and starts of the program, from `WorkInv`: the types;
  `WorkerOK`, that whoever works does so on an operation whose task file says
  running, that ran in no life but this one, and whose request is the one the
  approval is of; `RanOK`, that what has no task file never ran; `ApprovalOK`, that
  what is approved is in `approval.json`, and that a review nothing came between
  was begun in auto mode inside an allowed root; `SuccessOK`, that the turn, the
  record and the latest record know of no success the task file has not. The step
  they share is `RecordsMove`: a task file changes only from absent, or from
  running to an end.

- **`Initiative_proofs`, turns of the companion's own**: `SpokenOnce`
  (`TurnSpec => []SpokenOnceAndCounted`), `ConsentCountsOnce`
  (`[]AcceptedQueuedOnce`), `NoStaleConsent` (`AcceptsCurrentOffer`) and `TurnTyped`,
  for any observations, turns, messages and faults, from `TurnInv`. `LaneOK` ties the
  place in the turn's code to what is prepared and counted; `RemarkOK` says that
  one remark at most is pending and that nobody was told by another what it
  speaks of; `ConsentOK` that the input of an accepted offer is known to the
  cursor, on its way there, or owed by the delivery record; `EpochOK` that between
  recovery and a crash the offers are of the epoch of the queue, so that nothing
  proposed is older than the user's last message. `CountsOK`, for the bounds of the
  types, says what the epoch counts: each message, and each accepted offer once.

- **`Runtime_proofs`, lanes**: `LanesTyped`, `BlockedLanesAreQuiet`
  (`LaneSpec => []BlockedIsQuiet`) and `LostCompanionIsRebuilt`
  (`[]LostIsRebuilt`), for any messages and events. `CompanionOK`: the companion is
  out exactly while the operation on its lane holds it, and one that is gone has
  its rebuilding before it. `QuietOK`: while the gate is closed both lanes are
  cancelled, and an operation that no longer follows its lane, because the lane
  was renewed under it, was cancelled itself or its relay is due.

- **`Runtime_proofs`, bridge**: `BridgeTyped`, `CallsAreForgotten` (`BridgeSpec =>
  []ReturnedIsForgotten`), `ProcessesTakeTurns` (`StartsAfterReap`) and
  `WritersTakeTurns` (`[]OneWriter`), for any callers and generations. `CallOK` follows one call: no trace before it is made,
  an empty slot while it is pending, nothing pending once it returned. `DyingOK`:
  a process that was told to end and has not is the one being reaped and the one
  the next start waits for; that no line is being written then follows from `LockInv`. `LockInv`: whoever writes, or failed to and has to end
  the process, is at the head of the queue for the lock, also when callers behind
  it give up and queue anew for their cancellation.

- **`Senses_proofs`, what is heard**: `HearingTyped`, `HelpersTakeTurns`
  (`HearingSpec => []OneHelper`), `DeletionWaits` (`[]DeletedStaysDeleted`) and
  `ViewTellsTheTruth` (`[]ViewIsTrue`), for any number of sessions, requests,
  faults and sentences. `TaskInv` is about the tasks and the lock: which places of
  the initialisation and of the helper go together, that whatever can run a helper
  is of the last session, that the phase or the awaited exit remembers it, what
  the holder of the lock still waits for, and that unsaved sentences are of a
  session that goes on, is being stopped, or was given up. `PanelOK` and `ClaimOK`
  are about the view: a claim of a session that is over has somebody who corrects
  it, a queued sync, the stop under way, or a task that is failing.

- **`Records_proofs`, resets**: `ResetTyped` and `ResetLosesNothing`
  (`ResetSpec => []NothingIsLost`), for any days, messages, resets and faults,
  from `ResetInv`. Until the cursor is written the queue is what was read before
  the first move (`CarriedOK`), the intent on disk and the step agree
  (`IntentOK`), and between the steps of a replay an image is where the message
  says or in the folder it is being moved from (`ImagesReachable`,
  `ImagesShelved`).

- **`Records_proofs`, memory**: `MemoryTyped` and `CallsAreWellSpent`
  (`MemorySpec => []CallsWellSpent`), for any days, weeks, versions of the log and
  runs, from `MemoryInv`. `CallsOK`: a call was made for the job there is now or
  for one of an earlier day it replaced (`CallOnce`), so that who was called for in
  the slot of today holds a job of it, of which there are two, and the slots
  behind stay as they are; `RunOK`: only the job at hand is out for an answer;
  `AnswersOK`: what was answered and not used is in its job.

- **`Records_proofs`, names**: `NamingTyped` and `NamesAreGranted` (`NamingSpec =>
  []OnlyGrantedNames`), for any names, proposals, versions, queued jobs and events,
  from `NamingInv`. A name is written a version of the proposal at a time, and
  versions only grow; so whatever is held outside the store, a copy of a job
  (`CopiesFollow`), a request in the queue (`Fits`), a card in view (`Shows`), is
  either of an older version, which every step refuses, or still carries the name
  the store has. That is why a confirmation that waited behind other jobs can only
  register what its card showed, and why the recovery of a registration that was
  cut short (`Sound`: what is being applied was confirmed) completes no other.
  `CardsHoldTrue` (`NamingSpec => []CardsAreTrue`) adds `CardsInv`. A card in view
  is the one of its proposal or the one it is about to take away (`CardsHeld`),
  which says nothing yet of the next step: a sync works for many steps on copies
  while the companion's turn goes on. So the invariant also says of every card
  seen, in view or clicked on, that it is of no later version and shows a result
  only once there is one (`AllSeenRight`), which makes every new card one nobody
  has seen; of a click that its card is still the one of the proposal
  (`ClickStands`); and of a sync that the cards in view are those it read, that
  each copy it makes remembers the card it took (`SyncReads`, `CopiesKeep`), and
  that a registration it read is not changed under it (`AllRegisteredStay`). A
  result not shown yet has been shown no time (`ShownOnce`).

- **`Services_proofs`, the services together**: the runs `services` and
  `services_live` check the services side by side (`MCServices`), the theorems
  above speak of each alone. `EachPart` closes the gap: a step of one leaves the
  variables of the others unchanged, so a behaviour of `ServicesSpec` is one of each
  specification. `ServicesTyped` (all nine type invariants, of which
  `ServicesTypeOK` looks only at that of the component that moves) and
  `ServicesSafe`, every other invariant and action property that `services` checks,
  follow for all values of the constants.

The assumptions are `BoundsAssumption`, `ModeAssumption`, `DeliveryAssumption`,
`ScreenAssumption`, `WorkAssumption`, `TurnAssumption`, `BridgeAssumption`,
`HearingAssumption`, `ResetAssumption`, `MemoryAssumption` and `NamingAssumption`:
bounds are natural numbers, modes are Booleans, the names a voice may be given
are finitely many (they are of at most `SPEAKER_NAME_MAX_CHARS` characters), the first
conversation is one of the conversations, there is at least one day, a week has one,
the program starts at least once and the name for no operation is none of them.
Nothing is assumed about how many. Four theorems say of which behaviours they
speak: `TextIsReadable` of conversations without images, `GivenUpIsSpent` of those
without images and mid-turn input, `InOrderWhileRemembered` and
`InOrderWithinTheList` of behaviours in which the list of processed ids is long
enough. Without images excluded the runs `turn_retry_image` and `turn_reading`
show the first two fail, and TLC with a short list the refinement; that no more is
accepted than the list holds is enough for it, and more than it needs.

Every invariant and action property the passing runs check is the subject of a
theorem. Only model-checked are the liveness properties, `EverySaidSettles`,
`EveryRemarkSettles`, `EveryCallReturns` and the others of `turn_live` and
`services_live`: they need fairness and ENABLED, beyond the prover.

## 5. Disagreements found

1. *A retry withdraws an answered message* (`turn_withdrawn`). Cancelling refuses
   once the answer is being saved (`companion_user_preparer.rs:444`); a retry
   after a commit that failed late does not look, and the copy is answered again.
2. *The rest of the batch cannot be committed* (`turn_rejoined`). After such a
   retry the other message keeps the prepared response, whose logged entry names
   both. `append_conversation_once` takes the difference for a corruption
   (`companion_persistence.rs:955`), and so does every later recovery.
3. *Retrying an image breaks the lease* (`turn_retry_image`). A given-up image
   becomes runnable in its place while a later message holds the lease; every
   read then fails (`companion_storage.rs:2397`).
4. *Reading images costs attempts* (`turn_reading`), of the other messages of the
   batch, though `companion_user_retry.rs:124` says it does not.
5. *A reset meets its own folder* (`reset_replay`). Carrying an image over creates
   the folder of today again after it was archived; a reset that stops there is
   replayed and finds the name taken (`conversation_archive.rs:506`), at every
   start from then on.
6. *Undo is offered and never taken* (`naming_undo`). The store drops the grounds
   of a registered name and refuses a proposal that is being undone without them
   (`speaker_name_proposals.rs:563`, `:2131`).

Seen in the code or in the models, and stated by no run:

- *User turn.* The properties of answers except responses of which a message was
  withdrawn after they were logged (disagreement 1), and need to: after such a retry
  the marker is forgotten while the others of the batch stay prepared. If a given-up
  image is then tried again at the head of the queue, they are added to its call,
  since neither `append_pending_inputs` (`runtime_operation_state.rs:484`) nor
  `extend_user_dispatch` (`companion_storage.rs:1001`) looks for prepared messages;
  the next marker holds two preparations, is thrown away, and they are answered
  again. The runs are too small for it; the proof met it. Adding to a message between the end of its call and the collection
  costs an attempt, though `companion_user_operation.rs:70` says it does not.
  Between the append and the enqueue of the handle the actor may run a message
  and give it up; the enqueue takes it in once more. A crash between the
  withdrawal and the copy of a retry loses the message.
- *Bridge.* A cancellation drops the future of an append that holds the stdin; the
  next request sees none and starts another process while the first still runs
  (`bridge.rs:670`). The first has no stdin and nothing is sent to it; what it still
  answers is of an older generation and ends no call.
- *Work.* A comment of `execution.rs` promises that a withdrawn automatic approval
  returns the task to the user's confirmation; withdrawn after the harness has
  ended, the task fails instead.
- *Proactive turn.* Retrying yesterday's remark resets today's counters. A retry
  refused by a lowered limit completes the remark and leaves its offer open. An
  acceptance whose completion failed and whose message is then cancelled makes
  every recovery of accepted offers fail.
- *Lanes.* A companion whose task was aborted after ten seconds comes back only
  with the next configuration. A panic of the observer while a user waits clears
  the time of its rebuild. A failed retry leaves both tokens cancelled. A
  cancellation is validated against one message and applied to the operation
  that is active later (`runtime_support.rs:732`).
- *Hearing.* The save before the deletion of a day is waited for four seconds;
  what takes longer is written after it. An error of `update_audio_config`
  returns before the runtime is marked active.
- *Memory.* A weekly job that failed once is not made again by the schedule,
  though `retry_for` keeps it a week and the error speaks of the next day's slot.
  `reserve_job` counts job files, of which there is one per period, and replaces a
  job of an earlier day: a weekly memory asked for on the command line every day of
  a week is generated every day, although the count lets two a week
  (`memory/service_jobs.rs:19`). A summary once stale stays so when its source
  comes back to what it was made of, and is generated again.
- *Names.* A registration whose last update failed stays *applying* with the name
  saved; clicked again after its grounds expired it is called a conflict. The
  recovery of an *applying* proposal writes its name over two later renames that
  cancel out. Of several rivals only the newest is marked as a conflict on one of
  two paths. A card that waits to be taken away when its seven days end stays if
  the recovery then fails.
- *Delivery.* A remark the count refuses in a retry or in a recovery is completed
  without the log or the outbox (`companion_delivery.rs:118`,
  `companion_persistence.rs:617`), and so is one whose commit the user has outrun
  or whose offer is gone (`companion_persistence.rs:380`, `:399`), also when an earlier attempt
  had it in the log or in the outbox already: then it is shown although the turn
  counts it as given up. An error of the count in a retry returns while the list of
  what is pending is out of memory, which a restart brings back. A turn commit
  that is left over in another conversation is hidden by the selected one and keeps
  its turns from starting until that conversation is selected again
  (`companion_storage.rs:877`). The desktop checks the conversation of a remark before it shows it
  and again afterwards without the lock that `deliver_one` holds
  (`state_runtime.rs:224`), so that it can be on the screen while conversations
  are switched, until the deck reconciles.
- *Screen.* The cursor remembers the last 500 ids of what was done with and 500 of
  frames an answer had (`companion_storage.rs:30`, `:1551`, `:1580`). An observation of
  frames the user was answered with never enters the outbox; once one of the frames
  is pushed out, the next agent recovers it from the journal (`observer.rs:1455`), and
  the companion may speak of it. A frame taken after the contexts were cut and before the new
  allowlist is published was taken under the old one and counts as current: its
  context reaches the next message of the user (not the journal). A crash between
  the saving of a new allowlist and the cut starts with that allowlist and keeps
  the contexts and observations of the old one. An observation that the judge held
  back is stored without an outbox entry, and the next agent, which reads the
  journal for what the outbox lacks, delivers it after all (`observer.rs:1455`).
  Dropping only the comparison of the generation in `observe_inner` would break
  nothing in the model: whatever advances it cancels the observation as well.
- *Watch.* The full-screen `capture` (`apps/desktop/src-tauri/src/watch.rs`) notes
  the fingerprint of the screen before the steps that may fail: after an error
  the screen counts as unchanged and is not observed.

## 6. Not modelled

| Part | Why |
|---|---|
| Provider call, its stream and schema checks; judge; prompts | what they compute is data to the models; their protocol is the lane they run on, the task of `UserTurn` or the call of `ProviderBridge` |
| Coordinator and stagnation detector, capture manager, frame buffer | one thread under one lock, timers around native calls, and files kept for ten minutes |
| Durable files, conversation log | atomic replacement and append by id are assumed: what rename and fsync promise is the file system's |
| Processes | `ProviderBridge` and `HearingSession` have the life of the two that matter most |
| Emotions, personas, onboarding, configuration, feedback, locale, logging | sequential, I/O or wording |
| Hearing in the core | classification of what was heard, in one thread |
| Desktop bubbles, state, commands, updates, user interface; command line; macOS platform; helper tools | views over snapshots, thin layers, native calls; `RemarkDelivery` and `SpeakerNaming` have the hand-over of cards |
| `vendor` (habitua) | third-party simulation |

Inside the modelled parts are left out: the audio parts of the cursor and old
formats, the change of the date and the bound of 500 completed observations in
`ProactiveTurn`, which also takes a remark up again that a failed count dropped from
the owner's memory, archives of
the outbox and the mailbox, facts and retention of memory, offers older than one
conversation, duplicates and limits of proposals; a failed write of `MemoryJobs`
while a summary is being generated leaves what a crash there does. Each module names what it
leaves out at its head.

What would be worth adding next: a second conversation in `UserTurn`, for the lease
that a switch leaves behind (`companion_storage.rs:877`), and a condition of the
refinement in terms of the envelopes that wait in processing and of how many were
accepted since, instead of all that were accepted.
