------------------------------ MODULE WorkTask ------------------------------
(***************************************************************************)
(* Work done for the user by a coding harness: its approval                *)
(* (crates/core/src/work/approval.rs), its execution (work/execution.rs)   *)
(* and the controller that records it on disk and never runs it twice      *)
(* (apps/desktop/src-tauri/src/work.rs).                                   *)
(*                                                                         *)
(* Four actors: the turn that asks for the work and waits for it, the      *)
(* worker task, the user (decisions, the approval mode, cancellation) and  *)
(* the reviewer, a provider call.  The program may end at any time.        *)
(***************************************************************************)
EXTENDS Integers, FiniteSets

CONSTANTS Operations,      \* operation ids a turn may ask for
          InsideRoot,      \* those whose directory lies in an allowed root
          MaxModeChanges,  \* bound: changes of the approval mode
          MaxLives,        \* bound: starts of the program
          MaxWorkFaults    \* bound: writes that fail

VARIABLES approval,    \* WorkApprovals.State: mode, request and what it authorises
          journal,     \* approval.json
          worker,      \* the worker task
          control,     \* WorkController.State: record and active token
          taskFile,    \* phase in the task file of each operation
          latest,      \* work record restored at the start
          asker,       \* the turn that waits in DesktopChatWork.execute
          ran,         \* history: lives in which the harness ran an operation
          told,        \* history: last outcome given to a turn
          workBounds   \* lives, mode changes and faults so far

workVars == <<approval, journal, worker, control, taskFile, latest, asker, ran, told, workBounds>>

Statuses == {"none", "awaiting", "reviewing", "approved", "denied", "cancelled"}
Reasons == {"none", "user", "review", "unsure"}
Tokens == {"none", "live", "cancelled"}
NoOperation == "no operation"
WorkPhases == {"absent", "running", "succeeded", "failed", "cancelled", "denied", "interrupted"}

ASSUME WorkAssumption ==
    /\ MaxModeChanges \in Nat /\ MaxLives \in Nat \ {0} /\ MaxWorkFaults \in Nat
    /\ NoOperation \notin Operations

Named == Operations \cup {NoOperation}
ApprovalType == [mode : {"manual", "auto"}, of : Named, status : Statuses, reason : Reasons,
                 auto : BOOLEAN, operation : Tokens, revised : BOOLEAN]
WorkerType == [pc : {"none", "session", "wait", "review", "begin", "run", "after", "end"},
               result : {"none", "ok", "error"}]
ControlType == [of : Named, phase : WorkPhases, active : Tokens, loaded : BOOLEAN]
BoundsType == [lives : 1 .. MaxLives, modes : 0 .. MaxModeChanges, faults : 0 .. MaxWorkFaults]

WorkTypeOK ==
    /\ approval \in ApprovalType
    /\ journal \in [of : Named, status : Statuses]
    /\ worker \in WorkerType
    /\ control \in ControlType
    /\ taskFile \in [Operations -> WorkPhases]
    /\ latest \in [of : Named, phase : WorkPhases]
    /\ asker \in Named
    /\ ran \in [Operations -> SUBSET (1 .. MaxLives)]
    /\ told \in [Operations -> WorkPhases]
    /\ workBounds \in BoundsType

NewApproval(mode) ==
    [mode |-> mode, of |-> NoOperation, status |-> "none", reason |-> "none",
     auto |-> FALSE, operation |-> "none", revised |-> FALSE]

NoWorker == [pc |-> "none", result |-> "none"]
NoControl == [of |-> NoOperation, phase |-> "absent", active |-> "none", loaded |-> TRUE]

WorkInit ==
    /\ \E mode \in {"manual", "auto"} : approval = NewApproval(mode)
    /\ journal = [of |-> NoOperation, status |-> "none"]
    /\ worker = NoWorker
    /\ control = NoControl
    /\ taskFile = [o \in Operations |-> "absent"]
    /\ latest = [of |-> NoOperation, phase |-> "absent"]
    /\ asker = NoOperation
    /\ ran = [o \in Operations |-> {}]
    /\ told = [o \in Operations |-> "absent"]
    /\ workBounds = [lives |-> 1, modes |-> 0, faults |-> 0]

----------------------------------------------------------------------------
(* Writing.                                                                *)

\* A write succeeds or, within the bound, fails.
Writes(ok) ==
    IF ok THEN UNCHANGED workBounds
    ELSE /\ workBounds.faults < MaxWorkFaults
         /\ workBounds' = [workBounds EXCEPT !.faults = @ + 1]

Undecided(a) == a.status \in {"awaiting", "reviewing"}

\* persist
Journal(ok, a) ==
    journal' = IF ok THEN [of |-> a.of, status |-> a.status] ELSE journal

\* save_record: the task file, then the latest record; either may fail.
SaveRecord(o, phase, written) ==
    /\ written \in 0 .. 2
    /\ Writes(written = 2)
    /\ taskFile' = IF written = 0 THEN taskFile ELSE [taskFile EXCEPT ![o] = phase]
    /\ latest' = IF written = 2 THEN [of |-> o, phase |-> phase] ELSE latest

Cut(token) == IF token = "live" THEN "cancelled" ELSE token

----------------------------------------------------------------------------
(* The approval.                                                           *)

\* set_mode: going back to manual takes back what a review had approved.
SetMode(mode, ok) ==
    LET revoke == mode = "manual" /\ approval.auto
        asksAgain == Undecided(approval) \/ (revoke /\ approval.status = "approved")
        asked == [approval EXCEPT !.status = "awaiting",
                                  !.reason = IF ok THEN "none" ELSE "unsure"]
        next == IF asksAgain THEN asked ELSE approval
    IN
    /\ mode # approval.mode /\ workBounds.modes < MaxModeChanges
    /\ ok \/ (asksAgain /\ workBounds.faults < MaxWorkFaults)
    /\ approval' = [next EXCEPT !.mode = mode, !.auto = FALSE, !.revised = TRUE,
                                !.operation = IF revoke THEN Cut(@) ELSE @]
    /\ IF asksAgain THEN Journal(ok, asked) ELSE UNCHANGED journal
    /\ workBounds' = [workBounds EXCEPT !.modes = @ + 1, !.faults = IF ok THEN @ ELSE @ + 1]
    /\ UNCHANGED <<worker, control, taskFile, latest, asker, ran, told>>

\* decide: the user's answer to the pending request; unsaved, it changes nothing.
Decide(status) ==
    LET decided == [approval EXCEPT !.status = status, !.reason = "user",
                                    !.auto = FALSE, !.revised = TRUE]
    IN
    /\ Undecided(approval)
    /\ approval' = decided
    /\ Journal(TRUE, decided)
    /\ UNCHANGED <<worker, control, taskFile, latest, asker, ran, told, workBounds>>

\* end, as cancel and finish call it.
Ended(o, cancelApproved) ==
    LET ends == Undecided(approval) \/ (cancelApproved /\ approval.status = "approved")
    IN IF approval.of # o THEN approval
       ELSE [approval EXCEPT !.status = IF ends THEN "cancelled" ELSE @, !.auto = FALSE,
                             !.operation = Cut(@), !.revised = TRUE]

EndApproval(o, cancelApproved, ok) ==
    /\ approval' = Ended(o, cancelApproved)
    /\ IF approval'.status # approval.status THEN Journal(ok, approval') ELSE UNCHANGED journal

----------------------------------------------------------------------------
(* The turn that asks, and the controller.                                 *)

\* Mutant: a record left running counts as none.
RecordedUnlessRunning(o) == taskFile[o] \notin {"absent", "running"}

\* execute, start: an operation that was recorded is answered from its record
\* (one left running by an earlier life as interrupted), a new one is recorded
\* and given to a worker.
Recorded(o) == taskFile[o] # "absent"

Answered(o, phase) ==
    /\ told' = [told EXCEPT ![o] = phase]
    /\ UNCHANGED <<worker, control, latest, asker>>

StartRefused(o) ==
    /\ asker = NoOperation /\ (~control.loaded \/ control.active # "none")
    /\ Answered(o, "interrupted")
    /\ UNCHANGED <<approval, journal, taskFile, ran, workBounds>>

StartRecorded(o, sameRequest) ==
    /\ asker = NoOperation /\ control.loaded /\ control.active = "none"
    /\ Recorded(o)
    /\ LET phase == IF taskFile[o] = "running" THEN "interrupted" ELSE taskFile[o]
       IN /\ taskFile' = [taskFile EXCEPT ![o] = phase]
          /\ Answered(o, IF sameRequest THEN phase ELSE "interrupted")
    /\ UNCHANGED <<approval, journal, ran, workBounds>>

StartNew(o, written) ==
    /\ asker = NoOperation /\ control.loaded /\ control.active = "none"
    /\ ~Recorded(o)
    /\ SaveRecord(o, "running", written)
    /\ IF written = 2
       THEN /\ control' = [control EXCEPT !.of = o, !.phase = "running", !.active = "live"]
            /\ worker' = [pc |-> "session", result |-> "none"]
            /\ asker' = o
            /\ UNCHANGED told
       ELSE /\ told' = [told EXCEPT ![o] = "interrupted"]
            /\ UNCHANGED <<control, worker, asker>>
    /\ UNCHANGED <<approval, journal, ran>>

\* The token of the turn is cancelled, or the timer of the worker fires.
CancelToken ==
    /\ control.active = "live"
    /\ control' = [control EXCEPT !.active = "cancelled"]
    /\ UNCHANGED <<approval, journal, worker, taskFile, latest, asker, ran, told, workBounds>>

\* stop, by the turn that saw its token cancelled, and shutdown.
Stop(ok) ==
    /\ control.active # "none"
    /\ Writes(ok)
    /\ control' = [control EXCEPT !.active = "cancelled"]
    /\ EndApproval(control.of, TRUE, ok)
    /\ UNCHANGED <<worker, taskFile, latest, asker, ran, told>>

\* await_completion and recorded_result.
TakeResult ==
    /\ asker # NoOperation /\ control.active = "none"
    /\ told' = [told EXCEPT ![asker] = IF control.of = asker THEN control.phase ELSE "interrupted"]
    /\ asker' = NoOperation
    /\ UNCHANGED <<approval, journal, worker, control, taskFile, latest, ran, workBounds>>

----------------------------------------------------------------------------
(* The worker.                                                             *)

ToWorker(pc) == worker' = [worker EXCEPT !.pc = pc]
Fails == worker' = [pc |-> "end", result |-> "error"]
Cancelled == control.active = "cancelled"

\* work_session and execute up to the request for approval, which is refused
\* when the harness or the directory cannot be had or the journal not written.
Request(ok) ==
    /\ worker.pc = "session"
    /\ IF ok
       THEN /\ approval' = [approval EXCEPT !.of = control.of, !.status = "awaiting",
                                !.reason = "none", !.auto = FALSE, !.revised = TRUE]
            /\ Journal(TRUE, approval')
            /\ ToWorker("wait")
       ELSE Fails /\ UNCHANGED <<approval, journal>>
    /\ UNCHANGED <<control, taskFile, latest, asker, ran, told, workBounds>>

\* Mutant: a cancellation does not end the wait.
WaitEndsDecided ==
    /\ worker.pc = "wait" /\ ~Cancelled
    /\ \/ approval.status = "approved" /\ ToWorker("begin")
       \/ approval.status \in {"denied", "cancelled"} /\ Fails
    /\ UNCHANGED <<approval, journal, control, taskFile, latest, asker, ran, told, workBounds>>

\* wait: the request is decided, or the work cancelled.
WaitEnds ==
    /\ worker.pc = "wait"
    /\ \/ Cancelled /\ Fails
       \/ ~Cancelled /\ approval.status = "approved" /\ ToWorker("begin")
       \/ ~Cancelled /\ approval.status \in {"denied", "cancelled"} /\ Fails
    /\ UNCHANGED <<approval, journal, control, taskFile, latest, asker, ran, told, workBounds>>

MayReview ==
    /\ approval.status = "awaiting" /\ approval.reason = "none"
    /\ approval.mode = "auto" /\ approval.of \in InsideRoot

\* wait: in auto mode, and inside an allowed root only, a reviewer is asked.
StartReview ==
    /\ worker.pc = "wait" /\ ~Cancelled /\ MayReview
    /\ approval' = [approval EXCEPT !.status = "reviewing", !.revised = FALSE]
    /\ ToWorker("review")
    /\ UNCHANGED <<journal, control, taskFile, latest, asker, ran, told, workBounds>>

\* Mutant: the revision is not compared.
RevisedNever == FALSE

\* The revision read before the review is not the one found after it.
Revised == approval.revised

\* wait: the state has changed meanwhile, or the work is cancelled.
DropReview ==
    /\ worker.pc = "review" /\ (Cancelled \/ Revised)
    /\ ToWorker("wait")
    /\ UNCHANGED <<approval, journal, control, taskFile, latest, asker, ran, told, workBounds>>

\* wait: the verdict is saved, unless the work was cancelled or anything about
\* the approval has changed since the review began.
FinishReview(status, ok) ==
    LET unsure == [approval EXCEPT !.status = "awaiting", !.reason = "unsure"]
        judged == [approval EXCEPT !.status = status, !.reason =
                      IF status = "awaiting" THEN "unsure" ELSE "review"]
        next == IF ok THEN judged ELSE unsure
    IN
    /\ worker.pc = "review" /\ status \in {"approved", "denied", "awaiting"}
    /\ Writes(ok)
    /\ IF Cancelled
       THEN EndApproval(control.of, TRUE, ok) /\ Fails
       ELSE IF Revised
       THEN ToWorker("wait") /\ UNCHANGED <<approval, journal>>
       ELSE /\ approval' = [next EXCEPT !.auto = next.status = "approved", !.revised = TRUE]
            /\ Journal(ok, judged)
            /\ ToWorker("wait")
    /\ UNCHANGED <<control, taskFile, latest, asker, ran, told>>

\* begin_call and the start of the harness, or back to waiting.
BeginCall ==
    /\ worker.pc = "begin"
    /\ IF Cancelled \/ approval.status # "approved"
       THEN ToWorker("wait") /\ UNCHANGED <<approval, ran>>
       ELSE /\ approval' = [approval EXCEPT !.operation = "live"]
            /\ ToWorker("run")
            /\ ran' = [ran EXCEPT ![control.of] = @ \cup {workBounds.lives}]
    /\ UNCHANGED <<journal, control, taskFile, latest, asker, told, workBounds>>

\* run: the harness ends by itself or is stopped with its token; what was taken
\* back is asked for again.
HarnessEnds(result) ==
    /\ worker.pc = "run" /\ result \in {"ok", "error"}
    /\ worker' = IF Cancelled THEN [pc |-> "end", result |-> "error"]
                 ELSE IF approval.operation # "live" THEN [worker EXCEPT !.pc = "wait"]
                 ELSE IF result = "error" THEN [pc |-> "end", result |-> "error"]
                 ELSE [worker EXCEPT !.pc = "after"]
    /\ UNCHANGED <<approval, journal, control, taskFile, latest, asker, ran, told, workBounds>>

\* run_authorized, after the changed files were listed.
RunAuthorized ==
    /\ worker.pc = "after"
    /\ worker' = [pc |-> "end", result |->
                     IF Cancelled \/ approval.status # "approved" THEN "error" ELSE "ok"]
    /\ UNCHANGED <<approval, journal, control, taskFile, latest, asker, ran, told, workBounds>>

\* Mutant: the phase is whatever became of the approval.
PhaseOfApproval ==
    CASE Cancelled -> "cancelled"
      [] ~Cancelled /\ worker.result = "ok" -> "succeeded"
      [] OTHER -> approval.status

\* finish: the phase the work ended in; unsaved, it counts as interrupted.
Phase ==
    CASE Cancelled -> "cancelled"
      [] ~Cancelled /\ worker.result = "ok" -> "succeeded"
      [] OTHER -> IF approval.status \in {"denied", "cancelled"} /\ approval.of = control.of
                  THEN approval.status ELSE "failed"

\* Mutant: the outcome counts though it was not saved.
OutcomeUnsaved(written) == Phase

Outcome(written) == IF written = 2 THEN Phase ELSE "interrupted"

FinishWork(written) ==
    /\ worker.pc = "end"
    /\ SaveRecord(control.of, Phase, written)
    /\ EndApproval(control.of, Cancelled, TRUE)
    /\ control' = [control EXCEPT !.active = "none", !.phase = Outcome(written)]
    /\ worker' = NoWorker
    /\ UNCHANGED <<asker, ran, told>>

----------------------------------------------------------------------------
\* The program ends and starts again: the latest record is restored, a running
\* one as interrupted; if that cannot be written the controller is unusable.
WorkRestart(mode, ok) ==
    /\ workBounds.lives < MaxLives
    /\ ok \/ (latest.phase = "running" /\ workBounds.faults < MaxWorkFaults)
    /\ workBounds' = [workBounds EXCEPT !.lives = @ + 1, !.faults = IF ok THEN @ ELSE @ + 1]
    /\ latest' = IF ok /\ latest.phase = "running"
                 THEN [latest EXCEPT !.phase = "interrupted"] ELSE latest
    /\ control' = IF ok THEN [NoControl EXCEPT !.of = latest'.of, !.phase = latest'.phase]
                  ELSE [NoControl EXCEPT !.loaded = FALSE]
    /\ approval' = NewApproval(mode)
    /\ worker' = NoWorker
    /\ asker' = NoOperation
    /\ UNCHANGED <<journal, taskFile, ran, told>>

WorkerStep ==
    \/ \E ok \in BOOLEAN : Request(ok)
    \/ WaitEnds \/ StartReview \/ DropReview \/ BeginCall \/ RunAuthorized
    \/ \E status \in Statuses, ok \in BOOLEAN : FinishReview(status, ok)
    \/ \E result \in {"ok", "error"} : HarnessEnds(result)
    \/ \E written \in 0 .. 2 : FinishWork(written)

WorkNext ==
    \/ WorkerStep \/ CancelToken \/ TakeResult
    \/ \E ok \in BOOLEAN : Stop(ok)
    \/ \E o \in Operations, same \in BOOLEAN : StartRecorded(o, same)
    \/ \E o \in Operations : StartRefused(o)
    \/ \E o \in Operations, written \in 0 .. 2 : StartNew(o, written)
    \/ \E mode \in {"manual", "auto"}, ok \in BOOLEAN : SetMode(mode, ok) \/ WorkRestart(mode, ok)
    \/ \E status \in {"approved", "denied"} : Decide(status)

WorkSpec == WorkInit /\ [][WorkNext]_workVars

----------------------------------------------------------------------------
(* An operation runs in at most one life of the program: after a crash a   *)
(* turn that is retried asks for it again and is told what became of it.   *)
RunsInOneLife == \A o \in Operations : Cardinality(ran[o]) <= 1

(* A harness that may go on (its token is not cancelled) works with an     *)
(* approval that is on record, and in manual mode, or outside the allowed  *)
(* roots, with the user's own: a review that ends after the mode was       *)
(* changed approves nothing.                                               *)
WorksOnApproval ==
    (worker.pc = "run" /\ approval.operation = "live" /\ control.active = "live")
        => /\ approval.of = control.of /\ approval.status = "approved"
           /\ journal = [of |-> control.of, status |-> "approved"]
           /\ (approval.mode = "manual" \/ control.of \notin InsideRoot)
                 => approval.reason = "user"

(* What a turn was told stays true: an operation reported as done is done  *)
(* on disk, and no later answer calls it anything else.                    *)
SuccessIsDurable ==
    [][\A o \in Operations :
          /\ told'[o] = "succeeded" => taskFile'[o] = "succeeded"
          /\ taskFile[o] = "succeeded" => taskFile'[o] = "succeeded"]_workVars
=============================================================================
