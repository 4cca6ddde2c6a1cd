------------------------------- MODULE UserTurn -------------------------------
(***************************************************************************)
(* The life of a user message in the owning runtime of crates/core: the    *)
(* handle that accepts it, the actor that leases, dispatches and commits   *)
(* it, the task that calls the provider, and the recovery that runs when   *)
(* the process starts again or an earlier commit was left half done.       *)
(*                                                                         *)
(* Three things run at once: the handle thread (HandleNext), the actor     *)
(* (ActorNext) and the task of the running operation (TaskNext). They meet *)
(* in cursor.json, whose every update is atomic under the cursor lock, in  *)
(* the conversation log and in the outgoing mailbox. A crash (FaultNext)   *)
(* keeps those three and loses everything else.                            *)
(***************************************************************************)
EXTENDS CompanionCursor

CONSTANTS AppendMode,   \* chat.whileThinking = "append"
          MidTurn,      \* the provider takes input in the middle of a call
          WithImages,   \* messages may carry an image the provider needs as text
          MaxFaults     \* bound: crashes, I/O errors, interruptions, OCR retries

ASSUME ModeAssumption ==
    /\ {AppendMode, MidTurn, WithImages} \subseteq BOOLEAN
    /\ MaxFaults \in Nat

VARIABLES
    cursor,     \* cursor.json
    said,       \* number of user entries in the conversation log
    images,     \* the user entries that carry an image
    answers,    \* response -> the inputs its conversation entry is caused by
    failures,   \* inputs with a response-failure entry in the log
    mailbox,    \* responses published to the outgoing mailboxes
    pc,         \* where the actor is
    job,        \* the actor's operation, commit or recovery
    preparing,  \* the input the handle appended and has not enqueued yet, or 0
    commands,   \* Enqueue commands the actor has not received yet
    backoff,    \* user_retry_at is set
    spent,      \* history: dispatches of an input that ended without an answer and
                \*          not because the user added to the message; a failure
                \*          that forbids a retry counts for all that were left
    faults      \* faults so far

durable == <<cursor, said, images, answers, failures, mailbox>>
volatile == <<pc, job, preparing, commands, backoff>>
vars == <<cursor, said, images, answers, failures, mailbox,
          pc, job, preparing, commands, backoff, spent, faults>>

CommitSteps == {"mark", "prepare", "respond", "log", "publish", "finalize"}
ActorSteps == CommitSteps \cup
    {"boot", "reconcile", "recover", "idle", "settle", "remove", "lease",
     "begin", "run", "copy", "copyEnqueue"}
TaskStates == {"none", "preparing", "calling", "answered", "failed", "stopped",
               "broken", "unread", "unreadable", "superseded"}
Working == {"preparing", "calling"}
Origins == {"none", "boot", "start", "finish"}

Job == [ids : SUBSET Inputs,          \* the batch, then the commit's targets
        active : {0} \cup Inputs,     \* active_user_message_id
        gen : 0 .. MaxOps,            \* operation_generation
        seq : Nat,                    \* dispatch_seq
        turn : {0} \cup Responses,    \* the prepared response
        before : [Inputs -> 0 .. MaxAttempts],
        tracked : SUBSET Inputs,      \* tracked_input_ids
        sent : SUBSET Inputs,         \* mid-turn inputs handed to the task
        accepted : SUBSET Inputs,     \* accepted_mid_turn_ids
        adding : SUBSET Inputs,       \* being appended by the actor right now
        restart : BOOLEAN,            \* restart_requested
        task : TaskStates,
        origin : Origins,             \* who asked for the commit or the settling
        due : SUBSET Inputs,          \* being given up
        copy : {0} \cup Inputs]       \* the message being said again

NoJob == [ids |-> {}, active |-> 0, gen |-> 0, seq |-> 0, turn |-> 0,
          before |-> [i \in Inputs |-> 0], tracked |-> {}, sent |-> {},
          accepted |-> {}, adding |-> {}, restart |-> FALSE, task |-> "none",
          origin |-> "none", due |-> {}, copy |-> 0]

Answered == {i \in Inputs : \E r \in Responses : i \in answers[r]}
Settled == Answered \cup failures

\* The handle prepares a message, and the actor commits one, under the same lock.
TurnCommitLocked == pc \in CommitSteps /\ job.origin = "finish"

Init ==
    /\ cursor = DefaultCursor /\ said = 0 /\ images = {}
    /\ answers = [r \in Responses |-> {}] /\ failures = {} /\ mailbox = {}
    /\ pc = "boot" /\ job = NoJob /\ preparing = 0 /\ commands = 0 /\ backoff = FALSE
    /\ spent = [i \in Inputs |-> 0] /\ faults = 0

----------------------------------------------------------------------------
(* The handle: prepare_parts, with the turn commit lock held throughout.   *)

Say(image) ==
    /\ preparing = 0 /\ ~TurnCommitLocked
    /\ said + (IF pc = "copy" THEN 1 ELSE 0) < MaxInputs
    /\ image => WithImages
    /\ said' = said + 1
    /\ images' = IF image THEN images \cup {said + 1} ELSE images
    /\ preparing' = said + 1
    /\ UNCHANGED <<cursor, answers, failures, mailbox, pc, job, commands, backoff,
                   spent, faults>>

\* An input already in the queue is left as it is; a cancelled one, and an
\* unreadable cursor, are errors the caller sees. The actor is told.
EnqueueSaid ==
    /\ preparing # 0
    /\ preparing' = 0
    /\ LET c == Read(cursor) IN
       IF Readable(cursor) /\ preparing \notin c.cancelled
       THEN /\ cursor' = IF preparing \in Pending(c) THEN c ELSE Enqueue(c, preparing)
            /\ commands' = commands + 1
       ELSE UNCHANGED <<cursor, commands>>
    /\ UNCHANGED <<said, images, answers, failures, mailbox, pc, job, backoff, spent, faults>>

HandleNext == (\E image \in BOOLEAN : Say(image)) \/ EnqueueSaid

----------------------------------------------------------------------------
(* Starting, and recovering the commit a previous run left behind. Every   *)
(* step of the actor that touches an unreadable cursor returns the read's  *)
(* error and is tried again later: it is a step that changes nothing.      *)

Keep(c) == [NoJob EXCEPT !.ids = c.ids, !.seq = c.seq, !.turn = c.turn]

\* initialize_storage: prepare_turn_commit_recovery ...
Boot ==
    /\ pc = "boot" /\ Readable(cursor)
    /\ LET c == PrepareRecovery(Read(cursor)) IN
       /\ cursor' = c
       /\ job' = [Keep(c.commit) EXCEPT !.origin = "boot"]
    /\ pc' = "reconcile"
    /\ UNCHANGED <<said, images, answers, failures, mailbox, preparing, commands, backoff, spent, faults>>

\* ... then reconcile_pending_user_inputs.
BootReconcile ==
    /\ pc = "reconcile" /\ Readable(cursor)
    /\ cursor' = Reconcile(Read(cursor), said, Settled)
    /\ IF job.ids = {} THEN pc' = "idle" /\ job' = NoJob
                       ELSE pc' = "recover" /\ UNCHANGED job
    /\ UNCHANGED <<said, images, answers, failures, mailbox, preparing, commands, backoff, spent, faults>>

\* The loop looks for runnable inputs, in the log as well, and starts with
\* recover_active_turn_commit.
StartTurn ==
    /\ pc = "idle" /\ Readable(cursor)
    /\ LET d == Reconcile(Read(cursor), said, Settled)
           c == PrepareRecovery(d)
       IN
       /\ Runnable(d) # {}
       /\ cursor' = c
       /\ job' = [Keep(c.commit) EXCEPT !.origin = "start"]
       /\ pc' = IF c.commit = NoCommit THEN "settle" ELSE "recover"
    /\ backoff' = FALSE
    /\ UNCHANGED <<said, images, answers, failures, mailbox, preparing, commands, spent, faults>>

AfterRecovery ==
    IF job.origin = "boot" THEN pc' = "idle" /\ job' = NoJob
    ELSE pc' = "settle" /\ job' = [NoJob EXCEPT !.origin = "start"]

\* A commit step that fails ends the commit: a fresh one counts against its
\* inputs and goes on to settle them, a recovery is tried again later.
Spend(S) ==
    spent' = [i \in Inputs |-> IF i \in S /\ spent[i] < MaxAttempts
                               THEN spent[i] + 1 ELSE spent[i]]

SpendAll(S) == spent' = [i \in Inputs |-> IF i \in S THEN MaxAttempts ELSE spent[i]]

FailCommit ==
    /\ CASE job.origin = "finish" ->
                /\ pc' = "settle"
                /\ job' = [NoJob EXCEPT !.origin = "finish", !.active = job.active]
                /\ Spend(job.ids \cup job.sent)
         [] job.origin = "start" -> pc' = "idle" /\ job' = NoJob /\ UNCHANGED spent
         [] OTHER -> pc' = "boot" /\ job' = NoJob /\ UNCHANGED spent
    /\ backoff' = (job.origin # "boot")

\* recover_persisting_user_commit: what is left of the marker's inputs decides.
Recover ==
    /\ pc = "recover" /\ Readable(cursor)
    /\ LET c == Read(cursor)
           held == [phase |-> "persisting", ids |-> job.ids,
                    seq |-> job.seq, turn |-> job.turn]
           present == job.ids \cap Pending(c)
           prepared == {c.inputs[i].prepared : i \in present}
           done == present = {} /\ answers[job.turn] = job.ids
           whole == /\ present = job.ids
                    /\ Cardinality(prepared) = 1 /\ prepared # {0}
       IN \/ /\ done
             /\ IF CanFinalize(c, job.seq, job.ids, job.turn)
                THEN cursor' = Finalize(c, job.ids) /\ AfterRecovery /\ UNCHANGED <<spent, backoff>>
                ELSE cursor' = c /\ FailCommit
          \/ /\ ~done /\ ~whole
             /\ cursor' = ReleaseRecovery(c, held)
             /\ AfterRecovery
             /\ UNCHANGED <<spent, backoff>>
          \/ /\ ~done /\ whole
             /\ cursor' = c
             /\ pc' = "respond"
             /\ \E r \in prepared : job' = [job EXCEPT !.turn = r]
             /\ UNCHANGED <<spent, backoff>>
    /\ UNCHANGED <<said, images, answers, failures, mailbox, preparing, commands, faults>>

----------------------------------------------------------------------------
(* Giving up: settle_exhausted_user_responses writes the failure entries   *)
(* first and removes the inputs afterwards.                                *)

AfterSettling ==
    IF job.origin = "start" THEN pc' = "lease" /\ job' = [NoJob EXCEPT !.origin = "start"]
    ELSE pc' = "idle" /\ job' = NoJob

Settle ==
    /\ pc = "settle" /\ Readable(cursor)
    /\ LET c == Read(cursor) IN
       /\ cursor' = c
       /\ failures' = failures \cup Exhausted(c)
       /\ IF Exhausted(c) = {} THEN AfterSettling
          ELSE pc' = "remove" /\ job' = [job EXCEPT !.due = Exhausted(c)]
    /\ UNCHANGED <<said, images, answers, mailbox, preparing, commands, backoff, spent, faults>>

RemoveExhausted ==
    /\ pc = "remove" /\ Readable(cursor)
    /\ cursor' = RemoveSettled(Read(cursor), job.due)
    /\ AfterSettling
    /\ backoff' = (backoff /\ job.active \notin job.due)
    /\ UNCHANGED <<said, images, answers, failures, mailbox, preparing, commands, spent, faults>>

----------------------------------------------------------------------------
(* Dispatching: next_pending_user_messages and begin_operation.            *)

\* The lease takes the oldest runnable input, or is the one already there;
\* in append mode it grows by as many of the following as the bridge carries.
TakeLease ==
    /\ pc = "lease" /\ Readable(cursor)
    /\ LET c == Reconcile(Read(cursor), said, Settled) IN
       IF Runnable(c) = {} THEN cursor' = c /\ pc' = "idle" /\ job' = NoJob
       ELSE LET d == Lease(c, {First(c, Runnable(c))})
                head == First(d, d.lease)
                eligible == {i \in Runnable(d) \ d.lease : d.inputs[i].prepared = 0}
            IN \E more \in SUBSET eligible :
               /\ more # {} => AppendMode /\ d.inputs[head].prepared = 0
               /\ \A i \in more : \A j \in eligible : Before(d, j, i) => j \in more
               /\ cursor' = Extend(d, more)
               /\ job' = [NoJob EXCEPT !.ids = d.lease \cup more, !.active = head,
                                       !.seq = d.leaseSeq, !.origin = "start"]
               /\ pc' = "begin"
    /\ UNCHANGED <<said, images, answers, failures, mailbox, preparing, commands, backoff, spent, faults>>

BeginOperation ==
    /\ pc = "begin" /\ Readable(cursor) /\ cursor.opGen < MaxOps
    /\ LET c == Read(cursor)
           ok == /\ job.ids \cap c.cancelled = {} /\ job.ids \subseteq Pending(c)
                 /\ \A i \in job.ids : CanBegin(c.inputs[i])
       IN IF ok
          THEN /\ cursor' = Begin(c, job.ids)
               /\ job' = [job EXCEPT !.gen = c.opGen + 1, !.tracked = job.ids,
                                     !.before = [i \in Inputs |-> c.inputs[i].attempts],
                                     !.task = "preparing", !.origin = "finish"]
               /\ pc' = "run"
               /\ UNCHANGED backoff
          ELSE cursor' = c /\ job' = NoJob /\ pc' = "idle" /\ backoff' = TRUE
    /\ UNCHANGED <<said, images, answers, failures, mailbox, preparing, commands, spent, faults>>

----------------------------------------------------------------------------
(* The task: process_user_messages_streaming, concurrent with the actor.   *)

Task(state) == job' = [job EXCEPT !.task = state]

TaskFrame == UNCHANGED <<said, images, answers, failures, mailbox,
                         pc, preparing, commands, backoff, spent, faults>>

\* A prepared answer is used again; otherwise the images are read first, and
\* a batch that was waiting for its images starts its attempt only now.
PrepareCall ==
    /\ pc = "run" /\ job.task = "preparing" /\ Readable(cursor)
    /\ LET c == Read(cursor)
           prepared == {c.inputs[i].prepared : i \in job.ids}
       IN IF prepared # {0}
          THEN /\ cursor' = c
               /\ IF Cardinality(prepared) = 1
                  THEN \E r \in prepared :
                           job' = [job EXCEPT !.task = "answered", !.turn = r]
                  ELSE Task("broken")
          ELSE IF /\ job.ids \subseteq Pending(c)
                  /\ \A i \in job.ids : c.inputs[i].attempts < MaxAttempts
                                        \/ c.inputs[i].attachment # "retrying"
          THEN cursor' = CompleteAttachments(c, job.ids) /\ Task("calling")
          ELSE cursor' = c /\ Task("broken")
    /\ TaskFrame

ReadingFails(state) ==
    /\ pc = "run" /\ job.task = "preparing"
    /\ job.ids \cap images # {}
    /\ \A i \in job.ids : cursor.inputs[i].prepared = 0
    /\ state = "unread" => faults < MaxFaults
    /\ faults' = IF state = "unread" THEN faults + 1 ELSE faults
    /\ Task(state)
    /\ UNCHANGED <<cursor, said, images, answers, failures, mailbox,
                   pc, preparing, commands, backoff, spent>>

AcceptMidTurn(i) ==
    /\ pc = "run" /\ job.task = "calling"
    /\ i \in job.sent \ job.accepted
    /\ job' = [job EXCEPT !.accepted = job.accepted \cup {i}]
    /\ UNCHANGED cursor /\ TaskFrame

\* complete_turn_input_ids, then the check of the operation generation.
Answer ==
    /\ pc = "run" /\ job.task = "calling" /\ Readable(cursor)
    /\ LET c == IF job.accepted = {} THEN Read(cursor)
                ELSE Reconcile(Read(cursor), said, Settled)
       IN /\ cursor' = c
          /\ IF job.accepted \subseteq Pending(c) /\ c.opGen = job.gen
             THEN job' = [job EXCEPT !.task = "answered", !.turn = job.gen,
                                     !.ids = job.ids \cup job.accepted]
             ELSE Task("broken")
    /\ TaskFrame

CallFails(state) ==
    /\ pc = "run" /\ job.task = "calling"
    /\ Task(state)
    /\ UNCHANGED cursor /\ TaskFrame

\* refresh_interrupted_dispatch: a message that quotes interrupted ones is
\* sent only while its lease and its generation are still the current ones.
DispatchSuperseded ==
    /\ pc = "run" /\ job.task = "calling" /\ Readable(cursor)
    /\ LET c == Read(cursor) IN
       /\ c.cancelled # {}
       /\ \/ c.opGen # job.gen
          \/ c.leaseSeq # job.seq
          \/ ~(job.ids \subseteq c.lease)
       /\ cursor' = ReleaseAttempts(c, job.ids, job.before)
    /\ Task("superseded")
    /\ TaskFrame

TaskNext ==
    \/ PrepareCall
    \/ \E state \in {"unread", "unreadable"} : ReadingFails(state)
    \/ \E i \in Inputs : AcceptMidTurn(i)
    \/ Answer
    \/ \E state \in {"failed", "stopped"} : CallFails(state)
    \/ DispatchSuperseded

----------------------------------------------------------------------------
(* Receiving a command: accept_user_command. While a user operation runs,  *)
(* what is new in the queue is added to it (append_pending_inputs), also    *)
(* when its task has ended and has not been collected yet.                 *)

ActorFrame == UNCHANGED <<said, images, answers, failures, mailbox,
                          preparing, spent, faults>>

AcceptCommand ==
    /\ commands > 0 /\ commands' = commands - 1
    /\ pc \in {"idle", "run"} /\ job.adding = {} /\ Readable(cursor)
    /\ LET adds == pc = "run" /\ AppendMode
           c == IF adds \/ pc = "idle" THEN Reconcile(Read(cursor), said, Settled)
                                      ELSE cursor
           new == IF adds THEN Runnable(c) \ job.tracked ELSE {}
           leased == c.lease # {} /\ c.leaseSeq = job.seq
       IN /\ cursor' = IF leased THEN Extend(c, new) ELSE c
          /\ job' = IF leased THEN [job EXCEPT !.adding = new] ELSE job
          /\ backoff' = (backoff \/ (new # {} /\ ~leased))
    /\ UNCHANGED pc /\ ActorFrame

\* A provider that cannot take them in is asked again from the start.
AppendRestarts ==
    /\ pc = "run" /\ job.adding # {} /\ ~MidTurn
    /\ Readable(cursor) /\ cursor.opGen < MaxOps
    /\ LET c == Read(cursor) IN
       IF CanRestart(c, job.gen, job.ids)
       THEN /\ cursor' = RequestRestart(c, job.ids)
            /\ job' = [job EXCEPT !.adding = {}, !.restart = TRUE,
                                  !.tracked = job.tracked \cup job.adding]
       ELSE /\ cursor' = c
            /\ job' = [job EXCEPT !.adding = {}, !.tracked = job.tracked \cup job.adding]
    /\ UNCHANGED <<pc, commands, backoff>> /\ ActorFrame

\* One by one they are handed to the call; the channel of a call that has
\* returned is closed, and then the answer it returned is thrown away.
AppendSends ==
    /\ pc = "run" /\ job.adding # {} /\ MidTurn /\ Readable(cursor)
    /\ LET c == Read(cursor)
           i == First(c, job.adding)
       IN IF i \in Pending(c) /\ CanBegin(c.inputs[i])
          THEN /\ cursor' = [c EXCEPT !.inputs =
                                [c.inputs EXCEPT ![i] = BeginAttempt(c.inputs[i])]]
               /\ job' = IF job.task \in Working
                         THEN [job EXCEPT !.adding = job.adding \ {i},
                                          !.sent = job.sent \cup {i},
                                          !.tracked = job.tracked \cup {i}]
                         ELSE [job EXCEPT !.adding = {}, !.restart = TRUE]
               /\ UNCHANGED backoff
          ELSE /\ cursor' = c
               /\ job' = [job EXCEPT !.adding = {}]
               /\ backoff' = TRUE
    /\ UNCHANGED <<pc, commands>> /\ ActorFrame

----------------------------------------------------------------------------
(* Collecting the finished task: finish_operation.                         *)

Collectable == pc = "run" /\ job.adding = {} /\ job.task \notin Working

Collect(states) == Collectable /\ ~job.restart /\ job.task \in states

Settling == pc' = "settle" /\ job' = [NoJob EXCEPT !.origin = "finish", !.active = job.active]

CollectRestart ==
    /\ Collectable /\ (job.restart \/ job.task = "superseded")
    /\ pc' = "idle" /\ job' = NoJob
    /\ UNCHANGED <<cursor, commands, backoff>> /\ ActorFrame

\* record_user_response_failure; a broken task is no provider failure.
CollectFailure ==
    /\ Collect({"failed", "stopped", "broken"}) /\ Readable(cursor)
    /\ cursor' = IF job.task = "broken" THEN Read(cursor)
                 ELSE RecordFailure(Read(cursor), job.active, job.task = "stopped")
    /\ Settling
    /\ IF job.task = "stopped" THEN SpendAll(job.ids \cup job.sent)
                               ELSE Spend(job.ids \cup job.sent)
    /\ backoff' = TRUE
    /\ UNCHANGED <<said, images, answers, failures, mailbox, preparing, commands, faults>>

\* record_attachment_failure, for the first input of the batch.
CollectUnread ==
    /\ Collect({"unread", "unreadable"}) /\ Readable(cursor)
    /\ cursor' = LET c == Read(cursor) IN
                 IF job.active \in Pending(c)
                 THEN RecordAttachmentFailure(c, job.active,
                          IF job.task = "unread" THEN "retrying" ELSE "terminal")
                 ELSE c
    /\ Settling
    /\ backoff' = (job.task = "unread")
    /\ UNCHANGED commands /\ ActorFrame

\* commit_user_candidate: reserve_user_commit compares the lease with what
\* the call answered.
ReserveCommit ==
    /\ Collect({"answered"}) /\ preparing = 0 /\ Readable(cursor)
    /\ LET c == Read(cursor) IN
       IF CanReserve(c, job.gen, job.seq, job.ids)
       THEN /\ cursor' = Reserve(c, job.seq, job.ids, job.turn)
            /\ pc' = "mark" /\ UNCHANGED <<job, spent, backoff>>
       ELSE cursor' = c /\ FailCommit
    /\ UNCHANGED <<said, images, answers, failures, mailbox, preparing, commands, faults>>

----------------------------------------------------------------------------
(* The commit, one durable step at a time.                                 *)

CommitFrame == UNCHANGED <<said, images, failures, preparing, commands, faults>>
Continue(next) == pc' = next /\ UNCHANGED <<job, spent, backoff>>

MarkCommit ==
    /\ pc = "mark" /\ Readable(cursor)
    /\ LET c == Read(cursor) IN
       IF c.commit.phase # "none" /\ c.commit.turn = job.turn
       THEN cursor' = MarkPersisting(c) /\ Continue("prepare")
       ELSE cursor' = PrepareRecovery(c) /\ FailCommit
    /\ UNCHANGED <<answers, mailbox>> /\ CommitFrame

PrepareResponse ==
    /\ pc = "prepare" /\ Readable(cursor)
    /\ LET c == Read(cursor) IN
       IF c.opGen = job.gen /\ CanPrepare(c, job.ids, job.turn)
       THEN cursor' = Prepare(c, job.ids, job.turn) /\ Continue("respond")
       ELSE cursor' = c /\ FailCommit
    /\ UNCHANGED <<answers, mailbox>> /\ CommitFrame

\* commit_user_response: past this point the answer can no longer be refused.
StartResponse ==
    /\ pc = "respond" /\ Readable(cursor)
    /\ LET c == Read(cursor) IN
       IF CanStart(c, job.ids, job.turn)
       THEN cursor' = Start(c, job.ids) /\ Continue("log")
       ELSE cursor' = c /\ FailCommit
    /\ UNCHANGED <<answers, mailbox>> /\ CommitFrame

\* append_conversation_once: an entry with the id of the response is left as
\* it is, and one that answers other inputs is an error.
LogResponse ==
    /\ pc = "log"
    /\ IF answers[job.turn] \in {{}, job.ids}
       THEN answers' = [answers EXCEPT ![job.turn] = job.ids] /\ Continue("publish")
       ELSE UNCHANGED answers /\ FailCommit
    /\ UNCHANGED <<cursor, mailbox>> /\ CommitFrame

PublishResponse ==
    /\ pc = "publish"
    /\ mailbox' = mailbox \cup {job.turn}
    /\ Continue("finalize")
    /\ UNCHANGED <<cursor, answers>> /\ CommitFrame

\* finalize_user_turn_commit; a fresh commit normalises the queue as well.
FinalizeCommit ==
    /\ pc = "finalize" /\ Readable(cursor)
    /\ LET c == Read(cursor) IN
       IF CanFinalize(c, job.seq, job.ids, job.turn)
       THEN IF job.origin = "finish"
            THEN /\ cursor' = Reconcile(Finalize(c, job.ids), said, Settled)
                 /\ pc' = "idle" /\ job' = NoJob /\ backoff' = FALSE
                 /\ UNCHANGED spent
            ELSE /\ cursor' = Finalize(c, job.ids)
                 /\ AfterRecovery /\ UNCHANGED <<spent, backoff>>
       ELSE cursor' = c /\ FailCommit
    /\ UNCHANGED <<answers, mailbox>> /\ CommitFrame

CommitNext == MarkCommit \/ PrepareResponse \/ StartResponse \/ LogResponse
              \/ PublishResponse \/ FinalizeCommit

----------------------------------------------------------------------------
(* What the user asks of the actor.                                        *)

\* CancelUser while an operation runs: the task is stopped and its outcome,
\* an answer perhaps, is dropped; its other inputs keep their lease.
CancelActive ==
    /\ pc = "run" /\ job.adding = {} /\ Readable(cursor)
    /\ cursor' = Cancel(Read(cursor), job.active)
    /\ pc' = "idle" /\ job' = NoJob
    /\ IF job.restart THEN UNCHANGED spent ELSE Spend(job.ids \cup job.sent)
    /\ UNCHANGED <<said, images, answers, failures, mailbox, preparing, commands, backoff, faults>>

GivenUp == (failures \ cursor.cancelled)
           \cup {i \in Pending(cursor) : Terminal(cursor, i)}

CancelGivenUp(i) ==
    /\ pc = "idle" /\ Readable(cursor)
    /\ i \in GivenUp
    /\ cursor' = Cancel(Read(cursor), i)
    /\ backoff' \in {FALSE, backoff}
    /\ UNCHANGED <<pc, job, commands>> /\ ActorFrame

\* retry_user_input: a given-up image is tried again where it stands ...
RetryAttachment(i) ==
    /\ pc = "idle" /\ Readable(cursor) /\ faults < MaxFaults
    /\ i \in Pending(cursor) /\ Terminal(cursor, i)
    /\ cursor' = RetryInPlace(Read(cursor), i)
    /\ faults' = faults + 1
    /\ backoff' = FALSE
    /\ UNCHANGED <<said, images, answers, failures, mailbox, pc, job, preparing, commands, spent>>

\* ... and any other message is withdrawn and said again.
RetryAsCopy(i) ==
    /\ pc = "idle" /\ Readable(cursor) /\ said < MaxInputs
    /\ ~(i \in Pending(cursor) /\ Terminal(cursor, i))
    /\ \/ i \in failures \ cursor.cancelled
       \/ backoff /\ Runnable(cursor) # {} /\ i = First(cursor, Runnable(cursor))
    /\ cursor' = CancelAfterTermination(Read(cursor), i)
    /\ pc' = "copy" /\ job' = [NoJob EXCEPT !.copy = i]
    /\ backoff' = FALSE
    /\ UNCHANGED commands /\ ActorFrame

SayCopy ==
    /\ pc = "copy"
    /\ said' = said + 1
    /\ images' = IF job.copy \in images THEN images \cup {said + 1} ELSE images
    /\ pc' = "copyEnqueue" /\ job' = [job EXCEPT !.copy = said + 1]
    /\ UNCHANGED <<cursor, answers, failures, mailbox, preparing, commands, backoff, spent, faults>>

EnqueueCopy ==
    /\ pc = "copyEnqueue" /\ Readable(cursor)
    /\ cursor' = LET c == Read(cursor) IN
                 IF job.copy \in Pending(c) \cup c.cancelled THEN c
                 ELSE Enqueue(c, job.copy)
    /\ pc' = "idle" /\ job' = NoJob
    /\ UNCHANGED <<commands, backoff>> /\ ActorFrame

UserNext ==
    \/ CancelActive
    \/ \E i \in Inputs : CancelGivenUp(i)
    \/ \E i \in Inputs : RetryAttachment(i)
    \/ \E i \in Inputs : RetryAsCopy(i)

----------------------------------------------------------------------------
(* Faults, all of them counted.                                            *)

Fault == faults < MaxFaults /\ faults' = faults + 1

\* The inputs an operation that ends here had been dispatched with.
Dispatched ==
    IF (pc = "run" /\ ~job.restart) \/ TurnCommitLocked
    THEN job.ids \cup job.sent ELSE {}

Crash ==
    /\ Fault
    /\ pc' = "boot" /\ job' = NoJob
    /\ preparing' = 0 /\ commands' = 0 /\ backoff' = FALSE
    /\ Spend(Dispatched)
    /\ UNCHANGED durable

\* Another priority command stops the operation; its lease stays.
Interrupt ==
    /\ Fault
    /\ pc = "run" /\ job.adding = {}
    /\ pc' = "idle" /\ job' = NoJob
    /\ Spend(Dispatched)
    /\ UNCHANGED <<durable, preparing, commands, backoff>>

\* The lock, the disk or the mailbox refuses a step of a commit. A marker
\* that could not be made persisting is forgotten at once.
CommitStepFails ==
    /\ Fault
    /\ pc \in CommitSteps
    /\ cursor' = IF pc = "mark" /\ Readable(cursor)
                 THEN PrepareRecovery(Read(cursor)) ELSE cursor
    /\ FailCommit
    /\ UNCHANGED <<said, images, answers, failures, mailbox, preparing, commands>>

\* ... or a step of the start or of the settling.
StartStepFails ==
    /\ Fault
    /\ pc \in {"settle", "remove", "lease", "begin"}
    /\ pc' = "idle" /\ job' = NoJob /\ backoff' = TRUE
    /\ UNCHANGED <<durable, preparing, commands, spent>>

FaultNext == Crash \/ Interrupt \/ CommitStepFails \/ StartStepFails

----------------------------------------------------------------------------

ActorNext ==
    \/ Boot \/ BootReconcile \/ StartTurn \/ Recover
    \/ Settle \/ RemoveExhausted \/ TakeLease \/ BeginOperation
    \/ AcceptCommand \/ AppendRestarts \/ AppendSends
    \/ CollectRestart \/ CollectFailure \/ CollectUnread \/ ReserveCommit
    \/ CommitNext \/ SayCopy \/ EnqueueCopy

Next == HandleNext \/ ActorNext \/ TaskNext \/ UserNext \/ FaultNext

Spec == Init /\ [][Next]_vars

----------------------------------------------------------------------------
(* Properties.                                                             *)

TypeOK ==
    /\ cursor \in Cursor
    /\ said \in 0 .. MaxInputs /\ images \subseteq Inputs
    /\ answers \in [Responses -> SUBSET Inputs]
    /\ failures \subseteq Inputs /\ mailbox \subseteq Responses
    /\ pc \in ActorSteps /\ job \in Job
    /\ preparing \in {0} \cup Inputs /\ commands \in Nat /\ backoff \in BOOLEAN
    /\ spent \in [Inputs -> 0 .. MaxAttempts] /\ faults \in 0 .. MaxFaults

\* Every read of cursor.json succeeds: the lease is the head of the runnable
\* queue and the queue is well formed. validate_user_dispatch and
\* validate_pending_inputs refuse anything else, and nothing repairs it.
CursorReadable == Readable(cursor)

\* A response none of whose messages was withdrawn: a retry after a commit that
\* failed late withdraws a message though its answer is in the log (see
\* AnsweredNotWithdrawn), and nothing is promised of the rest of its batch.
Intact(r) == answers[r] \cap cursor.cancelled = {}

\* A commit marker that the next read would quarantine, throwing the answer
\* of its inputs away, is never about an answer that is in the log already,
\* nor is such an answer waiting elsewhere in the queue: its inputs would be
\* answered a second time.
QuarantineLosesNoAnswer ==
    ~ValidCommit(cursor) =>
        /\ cursor.commit.turn # 0
        /\ \A r \in Responses : Intact(r) =>
               answers[r] \cap (cursor.commit.ids \cup Pending(cursor)) = {}

\* No message is answered by two different responses, whatever crashed, was
\* retried or was recovered between the log, the mailbox and the cursor, unless
\* a message of one of the two was withdrawn from an answer that was logged.
AnsweredOnce ==
    \A q, r \in Responses :
        answers[q] \cap answers[r] # {} => q = r \/ ~Intact(q) \/ ~Intact(r)

\* A message that is still in the queue although its answer is in the log
\* keeps that very answer prepared, so that the turn that was cut short ends
\* with it and the provider is not asked again.
AnsweredKeepsPreparation ==
    \A r \in Responses : Intact(r) =>
        \A i \in answers[r] \cap Pending(cursor) :
            cursor.inputs[i].prepared = r /\ cursor.inputs[i].started

\* An input given up was dispatched MaxAttempts times without an answer, or
\* met a failure that forbids a retry: restarts the user caused by adding to
\* the message, and images that were being read, cost it nothing.
GivenUpAfterAttempts == \A i \in failures : spent[i] >= MaxAttempts

\* A message whose answer is in the log is not withdrawn: cancelling refuses
\* a message once the answer is being saved.
AnsweredNotWithdrawn == Answered \cap cursor.cancelled = {}

\* What a commit is about to write under the id of an answer is what the log
\* holds under that id, if it holds anything: append_conversation_once refuses
\* an entry of the same id that is caused by other inputs, and a commit that
\* is refused there is taken up and refused again by every recovery.
LoggedForThisBatch == pc = "log" => answers[job.turn] \in {{}, job.ids}

\* No step loses a message: one that leaves the queue has an answer in the
\* log and in the mailbox, a failure entry in the log, or was withdrawn.
LeavesQueueSettled ==
    [][\A i \in Pending(cursor) \ Pending(cursor') :
           \/ \E r \in mailbox : i \in answers[r]
           \/ i \in failures
           \/ i \in cursor'.cancelled]_vars

\* Every message said is answered, given up in the log or withdrawn, unless
\* its image was given up and it waits for the user.
EverySaidSettles ==
    \A i \in Inputs :
        said >= i ~> \/ i \in Settled \cup cursor.cancelled
                    \/ Terminal(cursor, i)

----------------------------------------------------------------------------
(* The handle thread finishes what it began, the actor's loop takes every  *)
(* step it can (its timer ends a backoff), and the provider process ends:  *)
(* the task has a timeout. The user and the faults owe nothing.            *)
FairSpec ==
    /\ Spec
    /\ WF_vars(EnqueueSaid)
    /\ WF_vars(ActorNext)
    /\ WF_vars(TaskNext)
============================================================================
