---------------------------- MODULE HearingSession ----------------------------
(***************************************************************************)
(* Listening to the microphone and the speaker                             *)
(* (apps/desktop/src-tauri/src/hearing.rs, hearing_lifecycle.rs): one      *)
(* helper process at a time, started by an initialisation task, read by a  *)
(* session task, ended by whoever holds the projection lock, and replaced  *)
(* when it fails, is no longer wanted or is wanted with other settings.    *)
(*                                                                         *)
(* Tasks run from one await to the next.  What is heard is only that a     *)
(* confirmed sentence was queued and saved; the sources, the devices and   *)
(* the classification of commands are left out.                            *)
(***************************************************************************)
EXTENDS Integers, FiniteSets

CONSTANTS Settings,             \* configurations of a session
          RestartLimit,         \* MAX_RESTART_ATTEMPTS
          MaxSessions,          \* bound: sessions ever started
          MaxHearingRequests,   \* bound: changes and requests from outside
          MaxHearingFaults,     \* bound: failures and waits that reach their limit
          MaxFinals             \* bound: confirmed sentences

ASSUME HearingAssumption ==
    Settings # {} /\ RestartLimit \in Nat /\ MaxSessions \in Nat /\ MaxFinals \in Nat

VARIABLES wanted,     \* configuration, runtime_active and voice_output
          lifecycle,  \* HearingLifecycle.state and next_generation
          helperExit, \* HearingLifecycle.pending_helper_exit
          session,    \* the tasks and the helper of each generation
          holder,     \* what the holder of the projection lock is doing
          asked,      \* tasks that wait for the projection lock
          restarts,   \* restart_attempts, and the timers of schedule_restart
          panel,      \* phase and generation of the audio view
          wiped,      \* history: last generation before a deletion of the day
          overdue,    \* history: generations whose saving was not waited for
          hearingBounds

hearingVars == <<wanted, lifecycle, helperExit, session, holder, asked, restarts, panel,
                 wiped, overdue, hearingBounds>>

Sessions == 1 .. MaxSessions
NoExit == [of |-> 0, task |-> "none", waiting |-> FALSE]
NewSession == [init |-> "none", run |-> "none", helper |-> "none", cancelled |-> FALSE,
               settings |-> CHOOSE s \in Settings : TRUE, retry |-> FALSE, queue |-> 0]
FreeLock == [pc |-> "free", gen |-> 0, next |-> "none", late |-> {}]

Wanted == wanted.enabled /\ wanted.active

HearingTypeOK ==
    /\ wanted.enabled \in BOOLEAN /\ wanted.active \in BOOLEAN /\ wanted.settings \in Settings
    /\ lifecycle.phase \in {"idle", "starting", "listening", "stopping"}
    /\ lifecycle.gen \in 0 .. MaxSessions
    /\ helperExit.of \in 0 .. MaxSessions /\ helperExit.waiting \in BOOLEAN
    /\ \A g \in Sessions :
          /\ session[g].init \in {"none", "permission", "start", "attach", "cut", "failing", "ended"}
          /\ session[g].run \in {"none", "run", "drain", "check", "failing", "ended"}
          /\ session[g].helper \in {"none", "running", "exited"}
          /\ session[g].queue \in 0 .. MaxFinals
    /\ holder.pc \in {"free", "helper", "init", "saving", "finish", "next"}
    /\ restarts.attempts \in 0 .. RestartLimit /\ restarts.timers \subseteq Settings
    /\ panel.phase \in {"off", "starting", "listening", "stopping", "error"}

HearingInit ==
    /\ wanted = [enabled |-> TRUE, active |-> FALSE, settings |-> CHOOSE s \in Settings : TRUE]
    /\ lifecycle = [phase |-> "idle", gen |-> 0]
    /\ helperExit = NoExit
    /\ session = [g \in Sessions |-> NewSession]
    /\ holder = FreeLock
    /\ asked = {}
    /\ restarts = [attempts |-> 0, timers |-> {}]
    /\ panel = [phase |-> "off", gen |-> 0]
    /\ wiped = 0
    /\ overdue = {}
    /\ hearingBounds = [requests |-> 0, faults |-> 0, finals |-> 0]

HearingFault ==
    /\ hearingBounds.faults < MaxHearingFaults
    /\ hearingBounds' = [hearingBounds EXCEPT !.faults = @ + 1]

HearingRequest ==
    /\ hearingBounds.requests < MaxHearingRequests
    /\ hearingBounds' = [hearingBounds EXCEPT !.requests = @ + 1]

----------------------------------------------------------------------------
(* The view: a result of another generation, or one the phase has overtaken, *)
(* changes nothing (hearing_presenter.rs).                                 *)

Shown(g, from, phase) == IF panel.gen = g /\ panel.phase \in from
                         THEN [panel EXCEPT !.phase = phase] ELSE panel

AnyPhase == {"off", "starting", "listening", "stopping", "error"}

\* Mutant: only a start that failed is shown.
StartFailureShown(g) == panel' = Shown(g, {"starting"}, "error")

\* HearingResult::Failed is shown only while the view has hearing enabled.
FailureShown(g) ==
    \/ panel' = Shown(g, AnyPhase, "error")
    \/ ~wanted.enabled /\ UNCHANGED panel

\* take_failure
Failing(g) == lifecycle.gen = g /\ lifecycle.phase # "idle"

\* complete_stop
Completed(g) ==
    IF lifecycle.gen = g /\ lifecycle.phase = "stopping"
    THEN [lifecycle EXCEPT !.phase = "idle"] ELSE lifecycle

\* schedule_restart
RestartLater(s) ==
    restarts' = IF restarts.attempts < RestartLimit
                THEN [attempts |-> restarts.attempts + 1, timers |-> restarts.timers \cup {s}]
                ELSE restarts

----------------------------------------------------------------------------
(* Requests.  A spawned reconcile waits for the lock like the others.      *)

\* Requests that stop hearing and have it reconciled when they are done: a voice
\* output or the management of speakers, a changed configuration, the deletion of
\* a day, a speaker that resumes.
Interruptions == {"stop", "cancel", "delete", "resume"}

\* The configuration changes or the runtime is activated, which it is after every
\* change, then sync.  A deactivation is awaited before.
Want(enabled, s) ==
    /\ wanted # [enabled |-> enabled, active |-> TRUE, settings |-> s]
    /\ "deactivate" \notin asked /\ holder.next # "deactivate"
    /\ HearingRequest
    /\ wanted' = [enabled |-> enabled, active |-> TRUE, settings |-> s]
    /\ restarts' = [restarts EXCEPT !.attempts = IF enabled THEN @ ELSE 0]
    /\ asked' = asked \cup {"sync"}
    /\ UNCHANGED <<lifecycle, helperExit, session, holder, panel, wiped, overdue>>

\* deactivate_runtime: stopped without another sync.
Deactivate ==
    /\ wanted.active
    /\ HearingRequest
    /\ wanted' = [wanted EXCEPT !.active = FALSE]
    /\ asked' = asked \cup {"deactivate"}
    /\ UNCHANGED <<lifecycle, helperExit, session, holder, restarts, panel, wiped, overdue>>

\* cancel_and_wait, cancel, delete_conversation_log_day, resume_speaker
Ask(request) ==
    /\ request \in Interruptions \ asked
    /\ HearingRequest
    /\ asked' = asked \cup {request}
    /\ UNCHANGED <<wanted, lifecycle, helperExit, session, holder, restarts, panel, wiped, overdue>>

\* The timer of schedule_restart: only for the settings it was set for.
RestartDue(s) ==
    /\ s \in restarts.timers
    /\ restarts' = [restarts EXCEPT !.timers = @ \ {s}]
    /\ asked' = IF wanted.enabled /\ wanted.settings = s THEN asked \cup {"sync"} ELSE asked
    /\ UNCHANGED <<wanted, lifecycle, helperExit, session, holder, panel, wiped, overdue, hearingBounds>>

----------------------------------------------------------------------------
(* The holder of the projection lock.                                      *)

Active == lifecycle.phase \in {"starting", "listening"}

\* take_stop: what runs is told to end, and waited for.
StopThen(next) ==
    LET g == lifecycle.gen
    IN IF Active
       THEN /\ lifecycle' = [lifecycle EXCEPT !.phase = "stopping"]
            /\ session' = [session EXCEPT ![g].cancelled = TRUE]
            /\ panel' = Shown(g, AnyPhase, IF next = "cancel" THEN "off" ELSE "stopping")
            /\ holder' = [pc |-> IF lifecycle.phase = "listening" THEN "helper" ELSE "init",
                          gen |-> g, next |-> next, late |-> {}]
       ELSE /\ holder' = [FreeLock EXCEPT !.pc = "next", !.next = next]
            /\ UNCHANGED <<lifecycle, session, panel>>

\* same_settings
SameSettings == Active /\ session[lifecycle.gen].settings = wanted.settings

\* reconcile
Reconcile ==
    /\ holder.pc = "free" /\ "sync" \in asked
    /\ asked' = asked \ {"sync"}
    /\ restarts' = [restarts EXCEPT !.attempts = IF wanted.enabled THEN @ ELSE 0]
    /\ IF Wanted /\ SameSettings
       THEN UNCHANGED <<lifecycle, session, holder, panel>>
       ELSE StopThen(IF Wanted THEN "start" ELSE "inactive")
    /\ UNCHANGED <<wanted, helperExit, wiped, overdue, hearingBounds>>

TakeLock(request) ==
    /\ holder.pc = "free" /\ request \in asked \ {"sync"}
    /\ asked' = asked \ {request}
    /\ StopThen(request)
    /\ UNCHANGED <<wanted, helperExit, restarts, wiped, overdue, hearingBounds>>

\* stop_session: each wait ends with what it waits for, or at its limit.
HelperStopped(late) ==
    /\ holder.pc = "helper"
    /\ IF late THEN HearingFault
       ELSE session[holder.gen].helper = "exited" /\ UNCHANGED hearingBounds
    /\ holder' = [holder EXCEPT !.pc = "saving", !.late = IF late THEN {"helper"} ELSE {}]
    /\ UNCHANGED <<wanted, lifecycle, helperExit, session, asked, restarts, panel, wiped, overdue>>

InitializationStopped(late) ==
    /\ holder.pc = "init"
    /\ IF late THEN HearingFault
       ELSE session[holder.gen].init = "ended" /\ UNCHANGED hearingBounds
    /\ holder' = [holder EXCEPT !.pc = "finish", !.late = IF late THEN {"init"} ELSE {}]
    /\ UNCHANGED <<wanted, lifecycle, helperExit, session, asked, restarts, panel, wiped, overdue>>

\* Mutant: the sentences still queued are not waited for.
IngestedSoon(g) == session[g].run \notin {"run", "none"}

\* The result worker has read everything the ingestion of the session saved.
Ingested(g) == session[g].run \notin {"run", "none"} /\ session[g].queue = 0

SavingStopped(late) ==
    /\ holder.pc = "saving"
    /\ IF late THEN HearingFault ELSE Ingested(holder.gen) /\ UNCHANGED hearingBounds
    /\ overdue' = IF late THEN overdue \cup {holder.gen} ELSE overdue
    /\ holder' = [holder EXCEPT !.pc = "finish"]
    /\ UNCHANGED <<wanted, lifecycle, helperExit, session, asked, restarts, panel, wiped>>

\* Mutant: a helper that did not end in time is forgotten.
ExitForgotten(g) == helperExit

ExitToAwait(g) ==
    IF holder.late = {} THEN helperExit
    ELSE [of |-> g, task |-> CHOOSE task \in holder.late : TRUE, waiting |-> FALSE]

\* The end of stop_session and of finish_stop: a helper that may still run is
\* remembered before the next session may start.
FinishStop ==
    LET g == holder.gen
    IN
    /\ holder.pc = "finish"
    /\ helperExit' = ExitToAwait(g)
    /\ lifecycle' = Completed(g)
    /\ panel' = IF holder.late # {} \/ g \in overdue THEN Shown(g, AnyPhase, "off")
                ELSE Shown(g, {"stopping"}, "off")
    /\ holder' = [holder EXCEPT !.pc = "next"]
    /\ UNCHANGED <<wanted, session, asked, restarts, wiped, overdue, hearingBounds>>

\* start_locked: a start waits for the helper that may still run, once.
StartLocked ==
    LET g == lifecycle.gen + 1
    IN
    /\ holder.pc = "next" /\ holder.next = "start"
    /\ holder' = FreeLock
    /\ IF helperExit.of # 0
       THEN helperExit' = [helperExit EXCEPT !.waiting = TRUE] /\ UNCHANGED <<lifecycle, session, panel>>
       ELSE /\ lifecycle.phase = "idle" /\ g \in Sessions
            /\ lifecycle' = [phase |-> "starting", gen |-> g]
            /\ session' = [session EXCEPT ![g] =
                              [NewSession EXCEPT !.init = "permission", !.settings = wanted.settings]]
            /\ panel' = [phase |-> "starting", gen |-> g]
            /\ UNCHANGED helperExit
    /\ UNCHANGED <<wanted, asked, restarts, wiped, overdue, hearingBounds>>

\* What the others do once everything has stopped: publish Inactive, delete the
\* day, or start over with the attempts forgotten.
Proceed ==
    /\ holder.pc = "next" /\ holder.next # "start"
    /\ holder' = FreeLock
    /\ panel' = IF holder.next = "inactive" THEN [panel EXCEPT !.phase = "off"] ELSE panel
    /\ wiped' = IF holder.next = "delete" THEN lifecycle.gen ELSE wiped
    /\ restarts' = IF holder.next = "resume" THEN [restarts EXCEPT !.attempts = 0] ELSE restarts
    /\ asked' = IF holder.next \in Interruptions THEN asked \cup {"sync"} ELSE asked
    /\ UNCHANGED <<wanted, lifecycle, helperExit, session, overdue, hearingBounds>>

\* Mutant: nobody is asked to start again.
HelperExitNoted ==
    LET s == session[helperExit.of]
    IN
    /\ helperExit.of # 0 /\ helperExit.waiting
    /\ IF helperExit.task = "helper" THEN s.helper = "exited" ELSE s.init = "ended"
    /\ helperExit' = NoExit
    /\ UNCHANGED <<wanted, lifecycle, session, holder, asked, restarts, panel, wiped, overdue,
                   hearingBounds>>

\* The task of start_locked: the helper is gone, and hearing is reconciled again.
HelperExitConfirmed ==
    LET s == session[helperExit.of]
    IN
    /\ helperExit.of # 0 /\ helperExit.waiting
    /\ IF helperExit.task = "helper" THEN s.helper = "exited" ELSE s.init = "ended"
    /\ helperExit' = NoExit
    /\ asked' = asked \cup {"sync"}
    /\ UNCHANGED <<wanted, lifecycle, session, holder, restarts, panel, wiped, overdue, hearingBounds>>

----------------------------------------------------------------------------
(* initialize_session                                                      *)

InitEnds(g, completed) ==
    /\ session' = [session EXCEPT ![g].init = "ended"]
    /\ lifecycle' = IF completed THEN Completed(g) ELSE lifecycle

\* Permissions and the context of the session: the next await sees a
\* cancellation, on some of them after completing the stop.
Prepared(g) ==
    /\ session[g].init = "permission"
    /\ IF session[g].cancelled
       THEN \E completed \in BOOLEAN : InitEnds(g, completed)
       ELSE session' = [session EXCEPT ![g].init = "start"] /\ UNCHANGED lifecycle
    /\ UNCHANGED <<wanted, helperExit, holder, asked, restarts, panel, wiped, overdue, hearingBounds>>

\* port.start_with_options
HelperStarts(g) ==
    /\ session[g].init = "start"
    /\ \/ /\ session' = [session EXCEPT ![g].init = "attach", ![g].helper = "running"]
          /\ UNCHANGED lifecycle
       \/ session[g].cancelled /\ InitEnds(g, TRUE)
    /\ UNCHANGED <<wanted, helperExit, holder, asked, restarts, panel, wiped, overdue, hearingBounds>>

\* attach_session: the session begins, or the helper is told to end again.
Attach(g) ==
    /\ session[g].init = "attach"
    /\ IF lifecycle = [phase |-> "starting", gen |-> g]
       THEN /\ lifecycle' = [lifecycle EXCEPT !.phase = "listening"]
            /\ session' = [session EXCEPT ![g].init = "ended", ![g].run = "run"]
       ELSE /\ session' = [session EXCEPT ![g].init = "cut", ![g].cancelled = TRUE]
            /\ UNCHANGED lifecycle
    /\ UNCHANGED <<wanted, helperExit, holder, asked, restarts, panel, wiped, overdue, hearingBounds>>

CutEnds(g) ==
    /\ session[g].init = "cut" /\ session[g].helper = "exited"
    /\ InitEnds(g, TRUE)
    /\ UNCHANGED <<wanted, helperExit, holder, asked, restarts, panel, wiped, overdue, hearingBounds>>

\* publish_audio_failure: a denied permission is final, a helper that did not
\* start is tried again; nothing is said of a session that was cancelled.
InitFails(g) ==
    /\ session[g].init \in {"permission", "start"}
    /\ IF session[g].cancelled THEN UNCHANGED hearingBounds ELSE HearingFault
    /\ IF Failing(g)
       THEN /\ lifecycle' = [lifecycle EXCEPT !.phase = "idle"]
            /\ session' = [session EXCEPT ![g].cancelled = TRUE,
                              ![g].init = IF session[g].cancelled THEN "ended" ELSE "failing",
                              ![g].retry = (session[g].init = "start")]
       ELSE session' = [session EXCEPT ![g].init = "ended"] /\ UNCHANGED lifecycle
    /\ UNCHANGED <<wanted, helperExit, holder, asked, restarts, panel, wiped, overdue>>

InitFailureShown(g) ==
    /\ session[g].init = "failing"
    /\ session' = [session EXCEPT ![g].init = "ended"]
    /\ FailureShown(g)
    /\ IF session[g].retry THEN RestartLater(session[g].settings) ELSE UNCHANGED restarts
    /\ UNCHANGED <<wanted, lifecycle, helperExit, holder, asked, wiped, overdue, hearingBounds>>

----------------------------------------------------------------------------
(* run_session, the helper and the ingestion                               *)

\* HearingEvent::Ready; that the session is accepted was looked at before.
Ready(g) ==
    /\ session[g].run = "run" /\ session[g].helper = "running"
    /\ panel' = Shown(g, {"starting", "error"}, "listening")
    /\ UNCHANGED <<wanted, lifecycle, helperExit, session, holder, asked, restarts, wiped, overdue, hearingBounds>>

\* HearingEvent::Final: a confirmed sentence is queued to be saved.
Hear(g) ==
    /\ session[g].run = "run" /\ session[g].helper = "running"
    /\ lifecycle = [phase |-> "listening", gen |-> g]
    /\ hearingBounds.finals < MaxFinals
    /\ hearingBounds' = [hearingBounds EXCEPT !.finals = @ + 1]
    /\ session' = [session EXCEPT ![g].queue = @ + 1]
    /\ UNCHANGED <<wanted, lifecycle, helperExit, holder, asked, restarts, panel, wiped, overdue>>

\* run_audio_ingestion, handle_audio_result: saved also after the session ended.
Save(g) ==
    /\ session[g].queue > 0
    /\ session' = [session EXCEPT ![g].queue = @ - 1]
    /\ restarts' = IF lifecycle = [phase |-> "listening", gen |-> g] /\ ~session[g].cancelled
                   THEN [restarts EXCEPT !.attempts = 0] ELSE restarts
    /\ UNCHANGED <<wanted, lifecycle, helperExit, holder, asked, panel, wiped, overdue, hearingBounds>>

\* The helper ends, told to (HearingSessionControl) or by itself.
HelperEnds(g) ==
    /\ session[g].helper = "running"
    /\ IF session[g].cancelled THEN UNCHANGED hearingBounds ELSE HearingFault
    /\ session' = [session EXCEPT ![g].helper = "exited"]
    /\ UNCHANGED <<wanted, lifecycle, helperExit, holder, asked, restarts, panel, wiped, overdue>>

\* No event is left, or stop_events was sent once the helper was waited for.
RunEnds(g) ==
    /\ session[g].run = "run"
    /\ session[g].helper = "exited" \/ (holder.gen = g /\ holder.pc \in {"saving", "finish", "next"})
    /\ session' = [session EXCEPT ![g].run = "drain"]
    /\ UNCHANGED <<wanted, lifecycle, helperExit, holder, asked, restarts, panel, wiped, overdue, hearingBounds>>

\* finish_audio_ingestion, and whether the session ended by itself.
Drained(g) ==
    /\ session[g].run = "drain" /\ session[g].queue = 0
    /\ session' = [session EXCEPT ![g].run =
          IF session[g].cancelled \/ lifecycle = [phase |-> "stopping", gen |-> g]
          THEN "ended" ELSE "check"]
    /\ UNCHANGED <<wanted, lifecycle, helperExit, holder, asked, restarts, panel, wiped, overdue, hearingBounds>>

\* handle_session_failure: what kind of error it was decides on a restart.
SessionFails(g) ==
    /\ session[g].run = "check"
    /\ IF Failing(g)
       THEN /\ lifecycle' = [lifecycle EXCEPT !.phase = "idle"]
            /\ \E retry \in BOOLEAN :
                  session' = [session EXCEPT ![g].run = "failing", ![g].cancelled = TRUE, ![g].retry = retry]
       ELSE session' = [session EXCEPT ![g].run = "ended"] /\ UNCHANGED lifecycle
    /\ UNCHANGED <<wanted, helperExit, holder, asked, restarts, panel, wiped, overdue, hearingBounds>>

SessionFailureShown(g) ==
    /\ session[g].run = "failing"
    /\ session' = [session EXCEPT ![g].run = "ended"]
    /\ FailureShown(g)
    /\ IF session[g].retry THEN RestartLater(session[g].settings) ELSE UNCHANGED restarts
    /\ UNCHANGED <<wanted, lifecycle, helperExit, holder, asked, wiped, overdue, hearingBounds>>

----------------------------------------------------------------------------
LockHolder ==
    \/ Reconcile
    \/ \E request \in Interruptions \cup {"deactivate"} : TakeLock(request)
    \/ \E late \in BOOLEAN : HelperStopped(late) \/ InitializationStopped(late) \/ SavingStopped(late)
    \/ FinishStop \/ StartLocked \/ Proceed

SessionTask(g) ==
    \/ Prepared(g) \/ HelperStarts(g) \/ Attach(g) \/ CutEnds(g) \/ InitFails(g) \/ InitFailureShown(g)
    \/ RunEnds(g) \/ Drained(g) \/ SessionFails(g) \/ SessionFailureShown(g)

HearingNext ==
    \/ LockHolder \/ HelperExitConfirmed
    \/ \E s \in Settings : RestartDue(s) \/ \E enabled \in BOOLEAN : Want(enabled, s)
    \/ Deactivate \/ \E request \in Interruptions : Ask(request)
    \/ \E g \in Sessions : SessionTask(g) \/ Ready(g) \/ Hear(g) \/ Save(g) \/ HelperEnds(g)

HearingSpec == HearingInit /\ [][HearingNext]_hearingVars

----------------------------------------------------------------------------
(* Two helpers never listen at once: the next one is started when the last *)
(* is known to be gone, however its stop, its start or its failure went.   *)
OneHelper == Cardinality({g \in Sessions : session[g].helper = "running"}) <= 1

(* After a day of the log was deleted nothing heard before is still to be  *)
(* saved, unless the stop before the deletion gave up waiting for it.      *)
DeletedStaysDeleted == \A g \in Sessions : g <= wiped /\ session[g].queue > 0 => g \in overdue

(* The view never goes on claiming a session that is over: a failure is    *)
(* about to be shown, or somebody is stopping it or about to.              *)
ViewIsTrue ==
    panel.phase \in {"starting", "listening", "stopping"} /\ lifecycle.phase = "idle"
        => \/ holder.pc # "free" \/ "sync" \in asked
           \/ \E g \in Sessions : session[g].init = "failing" \/ session[g].run = "failing"

\* Hearing is wanted and neither there nor known to have failed.
Deaf == Wanted /\ ~SameSettings /\ panel.phase # "error" /\ lifecycle.gen < MaxSessions

(* When hearing is wanted it comes, or its failure is shown: no handover   *)
(* between the lock, the exit of a helper and a restart timer loses it.    *)
HearingComes == Deaf ~> ~Deaf
=============================================================================
