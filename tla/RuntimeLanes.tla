----------------------------- MODULE RuntimeLanes -----------------------------
(***************************************************************************)
(* The runtime actor (crates/core/src/runtime.rs, runtime_operation.rs,    *)
(* runtime_operation_state.rs, runtime_support.rs): one task that hands    *)
(* the observer and the companion to operations on two lanes, preempts     *)
(* them for the user, cancels them for configuration updates, and takes    *)
(* the agents back from whatever an operation came to.                     *)
(*                                                                         *)
(* An iteration of the actor's loop is a step; handles act between steps.  *)
(* What a user turn does with its messages is UserTurn's matter: here a    *)
(* turn answers them, fails for now, fails for good or has to be repeated. *)
(***************************************************************************)
EXTENDS Integers, FiniteSets

CONSTANTS LaneMessages,
          MaxLaneEvents   \* bound: requests besides messages, and turns that fail
                          \* for now, panics and overruns, together

VARIABLES source,   \* OperationCancellationState: token and cause of each lane
          op,       \* running_observer and running_coo
          gate,     \* provider_starts_blocked
          agents,   \* observer, companion: in the actor, out with an operation, or gone
          message,  \* the durable queue of user messages
          actor,    \* the flags and deadlines of RuntimeActor
          mail,     \* user_rx, priority_rx and control_rx
          waiters,  \* user_waiters
          laneEvents

laneVars == <<source, op, gate, agents, message, actor, mail, waiters, laneEvents>>

Lanes == {"observer", "coo"}
Causes == {"none", "other", "config", "user"}
OpKinds == {"none", "observe", "user", "wake", "recovery", "init", "build"}
NoMessage == "no message"
NoOp == [kind |-> "none", cancelled |-> FALSE, cause |-> "none", own |-> FALSE, due |-> FALSE,
         inputs |-> {}, restart |-> FALSE]
NoCommand == [type |-> "none", target |-> NoMessage]

Linked(o) == o.kind \in {"observe", "wake"}            \* RunningOperation::linked, relay_stop
HoldsCompanion(o) == o.kind \in {"user", "wake", "recovery", "init"}

LaneTypeOK ==
    /\ source \in [Lanes -> [cancelled : BOOLEAN, cause : Causes]]
    /\ \A l \in Lanes : /\ op[l].kind \in OpKinds /\ op[l].cause \in Causes
                        /\ op[l].inputs \subseteq LaneMessages
    /\ gate \in BOOLEAN
    /\ agents \in [{"observer", "companion"} -> {"here", "out", "gone"}]
    /\ message \in [LaneMessages -> {"new", "queued", "failed", "answered", "cancelled"}]
    /\ actor.active \in LaneMessages \cup {NoMessage}
    /\ actor.failed \in LaneMessages \cup {NoMessage}
    /\ mail.users \subseteq LaneMessages /\ waiters \subseteq LaneMessages
    /\ mail.command.type \in {"none", "cancel", "retry", "replace"}
    /\ (agents["companion"] = "out") <=> HoldsCompanion(op["coo"])

LaneInit ==
    /\ source = [l \in Lanes |-> [cancelled |-> FALSE, cause |-> "none"]]
    /\ op = [l \in Lanes |-> NoOp]
    /\ gate = FALSE
    /\ agents = [a \in {"observer", "companion"} |-> "here"]
    /\ message = [m \in LaneMessages |-> "new"]
    /\ actor = [pending |-> FALSE,      \* user_work_pending
                retry |-> FALSE,        \* user_retry_at
                initialize |-> TRUE,    \* initialization_retry_at
                rebuild |-> FALSE,      \* agent_rebuild_pending
                recover |-> FALSE,      \* companion_recovery_pending
                active |-> NoMessage,   \* active_user_message_id
                failed |-> NoMessage,   \* terminal message of last_error
                unrecorded |-> NoMessage, \* user_cancel_recovery
                overrun |-> FALSE]      \* history: an operation was aborted with the companion
    /\ mail = [users |-> {}, command |-> NoCommand, control |-> {}]
    /\ waiters = {}
    /\ laneEvents = 0

----------------------------------------------------------------------------
(* Tokens and causes.  An operation shares the token and the cause of its  *)
(* lane until they are renewed; a linked one has a token of its own, which *)
(* a relay task cancels.                                                   *)

Caused(cause, reason) == IF cause = "none" THEN reason ELSE cause   \* OperationCancellationCause

\* Mutant: a renewed lane forgets that starts are blocked.
RenewedOpen(l) == [cancelled |-> FALSE, cause |-> "none"]

Renewed(l) == [cancelled |-> gate, cause |-> "none"]

CancelSource(s, reason) == [cancelled |-> TRUE, cause |-> Caused(s.cause, reason)]

\* What the operation on a lane sees of a cancellation of its source.
Follow(o, reason) ==
    IF o.kind = "none" \/ ~o.own THEN o
    ELSE [o EXCEPT !.cause = Caused(@, reason), !.cancelled = @ \/ ~Linked(o),
                   !.due = Linked(o) /\ ~o.cancelled]

\* renew_lane with nothing running on it (the operation was taken before).
RenewLane(l) == source' = [source EXCEPT ![l] = Renewed(l)]

\* cancel_current_with_reason
CancelCurrent(reason) ==
    /\ source' = [l \in Lanes |-> CancelSource(source[l], reason)]
    /\ op' = [l \in Lanes |-> Follow(op[l], reason)]

\* cancellation_for_start_lane, and linked_cancellation for linked operations.
StartOp(l, kind, inputs) ==
    op' = [op EXCEPT ![l] = [kind |-> kind, cancelled |-> source[l].cancelled,
                             cause |-> IF kind \in {"observe", "wake"} /\ source[l].cancelled
                                       THEN Caused(source[l].cause, "other") ELSE source[l].cause,
                             own |-> TRUE, due |-> FALSE, inputs |-> inputs, restart |-> FALSE]]

\* The relay of a linked operation, which keeps the token it was made for.
Relay(l) ==
    /\ op[l].due
    /\ op' = [op EXCEPT ![l].cancelled = TRUE, ![l].due = FALSE]
    /\ UNCHANGED <<source, gate, agents, message, actor, mail, waiters, laneEvents>>

----------------------------------------------------------------------------
(* Handles.                                                                *)

Queue == {m \in LaneMessages : message[m] = "queued"}
Failed == {m \in LaneMessages : message[m] = "failed"}
MayAsk == mail.command = NoCommand
LaneEvent == laneEvents < MaxLaneEvents /\ laneEvents' = laneEvents + 1

\* send_user_message: queued durably by the preparer, then told to the actor.
SendMessage(m) ==
    /\ message[m] = "new"
    /\ message' = [message EXCEPT ![m] = "queued"]
    /\ mail' = [mail EXCEPT !.users = @ \cup {m}]
    /\ UNCHANGED <<source, op, gate, agents, actor, waiters, laneEvents>>

\* cancel_user_message_for, retry_user_message_for: a message the user sees as
\* being answered or as failed.
AskUser(type, m) ==
    /\ MayAsk /\ LaneEvent
    /\ m \in Failed \/ (type = "cancel" /\ m = actor.active)
    /\ mail' = [mail EXCEPT !.command = [type |-> type, target |-> m]]
    /\ UNCHANGED <<source, op, gate, agents, message, actor, waiters>>

\* replace_config: what runs is cancelled at once.
AskReplace ==
    /\ MayAsk /\ LaneEvent
    /\ CancelCurrent("config")
    /\ mail' = [mail EXCEPT !.command = [type |-> "replace", target |-> NoMessage]]
    /\ UNCHANGED <<gate, agents, message, actor, waiters>>

\* observe, companion_observations
AskControl(kind) ==
    /\ kind \notin mail.control
    /\ LaneEvent
    /\ mail' = [mail EXCEPT !.control = @ \cup {kind}]
    /\ UNCHANGED <<source, op, gate, agents, message, actor, waiters>>

\* The requester cancels its observation.
CancelRequest(l) ==
    /\ Linked(op[l]) /\ ~op[l].cancelled
    /\ LaneEvent
    /\ op' = [op EXCEPT ![l].cancelled = TRUE, ![l].due = FALSE,
                       ![l].cause = Caused(@, "other")]
    /\ source' = [source EXCEPT ![l].cause = IF op[l].own THEN Caused(@, "other") ELSE @]
    /\ UNCHANGED <<gate, agents, message, actor, mail, waiters>>

\* ProviderStartGate::new_for_config_update
BlockStarts ==
    /\ ~gate /\ MayAsk /\ LaneEvent
    /\ gate' = TRUE
    /\ CancelCurrent("config")
    /\ UNCHANGED <<agents, message, actor, mail, waiters>>

\* ProviderStartGate::drop: both lanes get new tokens.
ReleaseStarts ==
    /\ gate
    /\ gate' = FALSE
    /\ source' = [l \in Lanes |-> [cancelled |-> FALSE, cause |-> "none"]]
    /\ op' = [l \in Lanes |-> [op[l] EXCEPT !.own = FALSE]]
    /\ UNCHANGED <<agents, message, actor, mail, waiters, laneEvents>>

----------------------------------------------------------------------------
(* The loop of the actor.                                                  *)

Idle(l) == op[l].kind = "none"
QueuedUserWork == agents["companion"] = "here" /\ Queue # {}
UserWorkIsPending == actor.pending \/ QueuedUserWork

\* preempt_for_user: not a user turn, nothing cancelled, nothing caused already.
Preemptible(o) == /\ o.kind \notin {"none", "user"} /\ ~o.cancelled /\ o.cause = "none"

\* accept_user_command: whatever is not a user turn makes way; a running turn
\* takes the message in, is restarted with it, or leaves it to the next one.
AcceptUser(m, how) ==
    LET preempted == {l \in Lanes : Preemptible(op[l])}
        joins == /\ op["coo"].kind = "user" /\ ~op["coo"].restart
                 /\ message[m] = "queued" /\ m \notin op["coo"].inputs
    IN
    /\ m \in mail.users /\ (how # "wait" => joins)
    /\ mail' = [mail EXCEPT !.users = @ \ {m}]
    /\ waiters' = IF message[m] = "queued" THEN waiters \cup {m} ELSE waiters
    /\ actor' = [actor EXCEPT !.pending = TRUE, !.recover = @ \/ "coo" \in preempted]
    /\ op' = [l \in Lanes |->
          IF l \in preempted THEN [op[l] EXCEPT !.cancelled = TRUE, !.due = FALSE, !.cause = "user"]
          ELSE IF l = "coo" /\ how = "append" THEN [op[l] EXCEPT !.inputs = @ \cup {m}]
          ELSE IF l = "coo" /\ how = "restart"
               THEN [op[l] EXCEPT !.restart = TRUE, !.cancelled = TRUE]
          ELSE op[l]]
    /\ source' = [l \in Lanes |->
          IF ~op[l].own THEN source[l]
          ELSE [cancelled |-> source[l].cancelled \/ (op'[l].cancelled /\ ~Linked(op[l])),
                cause |-> IF l \in preempted THEN "user" ELSE source[l].cause]]
    /\ UNCHANGED <<gate, agents, message, laneEvents>>

\* The loop looks at user work first, ...
StartsUser ==
    /\ Idle("coo") /\ ~gate /\ UserWorkIsPending
    /\ actor.unrecorded = NoMessage /\ ~actor.retry
    /\ Idle("observer") \/ op["observer"].cause = "user"

\* start_pending_user_operation, spawn_user_operation
StartUser ==
    /\ StartsUser
    /\ IF agents["companion"] # "here" \/ Queue = {}
       THEN /\ actor' = [actor EXCEPT !.pending = FALSE,
                            !.failed = IF agents["companion"] # "here" THEN @
                                       ELSE IF @ = NoMessage /\ Failed # {}
                                            THEN CHOOSE m \in Failed : TRUE ELSE @]
            /\ UNCHANGED <<op, agents>>
       ELSE \E inputs \in {{m} : m \in Queue} \cup {Queue} :
               /\ StartOp("coo", "user", inputs)
               /\ agents' = [agents EXCEPT !["companion"] = "out"]
               /\ actor' = [actor EXCEPT !.active = CHOOSE m \in inputs : TRUE,
                                         !.pending = TRUE, !.initialize = FALSE]
    /\ UNCHANGED <<source, gate, message, mail, waiters, laneEvents>>

\* ... then at a recovery of the companion, ...
StartRecovery ==
    /\ Idle("coo") /\ ~gate /\ ~UserWorkIsPending
    /\ actor.recover /\ agents["companion"] = "here"
    /\ StartOp("coo", "recovery", {})
    /\ agents' = [agents EXCEPT !["companion"] = "out"]
    /\ actor' = [actor EXCEPT !.recover = FALSE]
    /\ UNCHANGED <<source, gate, message, mail, waiters, laneEvents>>

\* ... and then at the control queue: start_observe.
StartObserve ==
    /\ "observe" \in mail.control /\ Idle("observer") /\ ~StartsUser
    /\ mail' = [mail EXCEPT !.control = @ \ {"observe"}]
    /\ IF gate \/ agents["observer"] # "here" THEN UNCHANGED <<op, agents>>
       ELSE /\ StartOp("observer", "observe", {})
            /\ agents' = [agents EXCEPT !["observer"] = "out"]
    /\ UNCHANGED <<source, gate, message, actor, waiters, laneEvents>>

\* start_companion_observations, or defer_companion_observation_wake while the
\* user has the companion.
StartWake ==
    /\ "wake" \in mail.control /\ ~StartsUser
    /\ UserWorkIsPending \/ Idle("coo")
    /\ mail' = [mail EXCEPT !.control = @ \ {"wake"}]
    /\ IF UserWorkIsPending \/ gate \/ agents["companion"] # "here"
       THEN UNCHANGED <<op, agents>>
       ELSE /\ StartOp("coo", "wake", {})
            /\ agents' = [agents EXCEPT !["companion"] = "out"]
    /\ UNCHANGED <<source, gate, message, actor, waiters, laneEvents>>

\* start_initialization_operation, when its deadline has come.
StartInitialization ==
    /\ Idle("coo") /\ ~gate /\ actor.initialize
    /\ actor.rebuild \/ ~UserWorkIsPending \/ agents["companion"] # "here"
    /\ IF actor.rebuild THEN StartOp("coo", "build", {}) /\ UNCHANGED <<agents, actor>>
       ELSE IF agents["companion"] = "here"
            THEN /\ StartOp("coo", "init", {}) /\ UNCHANGED actor
                 /\ agents' = [agents EXCEPT !["companion"] = "out"]
            ELSE actor' = [actor EXCEPT !.initialize = FALSE] /\ UNCHANGED <<op, agents>>
    /\ UNCHANGED <<source, gate, message, mail, waiters, laneEvents>>

\* Mutant: the deadline stays set.
RetryDueAgain ==
    /\ Idle("coo") /\ ~gate /\ actor.retry
    /\ actor' = [actor EXCEPT !.pending = TRUE, !.unrecorded = NoMessage]
    /\ message' = IF actor.unrecorded = NoMessage THEN message
                  ELSE [message EXCEPT ![actor.unrecorded] = "cancelled"]
    /\ UNCHANGED <<source, op, gate, agents, mail, waiters, laneEvents>>

\* The deadline of user_retry_at: a cancellation not yet recorded comes first.
RetryDue ==
    /\ Idle("coo") /\ ~gate /\ actor.retry
    /\ actor' = [actor EXCEPT !.retry = FALSE, !.pending = TRUE, !.unrecorded = NoMessage]
    /\ message' = IF actor.unrecorded = NoMessage THEN message
                  ELSE [message EXCEPT ![actor.unrecorded] = "cancelled"]
    /\ UNCHANGED <<source, op, gate, agents, mail, waiters, laneEvents>>

----------------------------------------------------------------------------
(* The end of an operation: finish_operation and apply_operation_outcome.  *)

\* A lane is renewed when the operation that ended on it had been cancelled.
RenewAfter(l) ==
    source' = IF op[l].cancelled THEN [source EXCEPT ![l] = Renewed(l)] ELSE source

FinishObserve ==
    /\ op["observer"].kind = "observe" /\ mail.command = NoCommand
    /\ RenewAfter("observer")
    /\ op' = [op EXCEPT !["observer"] = NoOp]
    /\ agents' = [agents EXCEPT !["observer"] = "here"]
    /\ actor' = [actor EXCEPT !.pending = @ \/ QueuedUserWork]
    /\ UNCHANGED <<gate, message, mail, waiters, laneEvents>>

\* A user turn ends: answered, to be repeated with what joined it, failed for
\* now or for good.
FinishUser(result) ==
    LET inputs == op["coo"].inputs
        settled == CASE result = "answered" -> inputs [] result = "failed" -> {actor.active}
                     [] OTHER -> {}
    IN
    /\ op["coo"].kind = "user" /\ (op["coo"].restart <=> result = "repeat")
    /\ IF result = "retry" /\ ~op["coo"].cancelled THEN LaneEvent ELSE UNCHANGED laneEvents
    /\ message' = [m \in LaneMessages |->
                      IF m \in settled /\ message[m] = "queued" THEN result ELSE message[m]]
    /\ waiters' = IF result = "repeat" THEN waiters ELSE waiters \ inputs
    /\ actor' = [actor EXCEPT !.active = NoMessage, !.retry = (result = "retry"),
                              !.pending = (result = "failed") \/ Queue \ settled # {},
                              !.failed = CASE result = "failed" -> actor.active
                                           [] result = "answered" -> NoMessage [] OTHER -> @]
    /\ agents' = [agents EXCEPT !["companion"] = "here"]
    /\ op' = [op EXCEPT !["coo"] = NoOp]
    /\ RenewAfter("coo")
    /\ UNCHANGED <<gate, mail>>

\* An operation of the companion's own: a commit or not, recovered if the user
\* or a configuration came first; an initialisation lets the user's turns go on.
FinishCompanion(ok) ==
    LET o == op["coo"]
        outrun == o.kind # "init" /\ o.cause \in {"user", "config"}
    IN
    /\ o.kind \in {"wake", "recovery", "init"}
    /\ IF ok \/ o.cancelled THEN UNCHANGED laneEvents ELSE LaneEvent
    /\ actor' = [actor EXCEPT
          !.recover = @ \/ outrun \/ (o.kind = "init" /\ ok),
          !.pending = @ \/ o.kind = "init",
          !.initialize = IF o.kind = "init" THEN ~ok ELSE @ \/ (~ok /\ ~outrun)]
    /\ agents' = [agents EXCEPT !["companion"] = "here"]
    /\ op' = [op EXCEPT !["coo"] = NoOp]
    /\ RenewAfter("coo")
    /\ UNCHANGED <<gate, message, mail, waiters>>

\* BuildAgents: new agents, then an initialisation; or another attempt later.
FinishBuild(ok) ==
    /\ op["coo"].kind = "build"
    /\ IF ok THEN UNCHANGED laneEvents ELSE LaneEvent
    /\ actor' = [actor EXCEPT !.rebuild = @ /\ ~ok, !.initialize = TRUE]
    /\ agents' = IF ok THEN [a \in DOMAIN agents |-> "here"] ELSE agents
    /\ op' = [op EXCEPT !["coo"] = NoOp]
    /\ RenewAfter("coo")
    /\ UNCHANGED <<gate, message, mail, waiters>>

\* Mutant: no deadline is set.
RebuildSometime(a) == [a EXCEPT !.rebuild = TRUE]

Rebuild(a) == [a EXCEPT !.rebuild = TRUE, !.initialize = TRUE]

\* The task ended without an outcome: the agent is lost with it, and rebuilt.
Panic(l) ==
    /\ ~Idle(l) /\ LaneEvent
    /\ actor' = [Rebuild(actor) EXCEPT
                              !.retry = @ \/ op[l].kind = "user",
                              !.pending = @ \/ (l = "observer" /\ QueuedUserWork)]
    /\ agents' = [agents EXCEPT ![IF l = "observer" THEN "observer" ELSE "companion"] =
                     IF op[l].kind = "build" THEN @ ELSE "gone"]
    /\ waiters' = waiters \ op[l].inputs
    /\ op' = [op EXCEPT ![l] = NoOp]
    /\ RenewAfter(l)
    /\ UNCHANGED <<gate, message, mail>>

----------------------------------------------------------------------------
(* Priority commands.                                                      *)

\* cancel_and_wait followed by restore_cancelled_operation: the agents come back,
\* and a user turn is to be repeated; or, after ten seconds, the task is aborted.
Restored(a, lanes, aborted) ==
    [x \in DOMAIN a |->
        IF x = "observer" /\ "observer" \in lanes /\ ~Idle("observer") THEN "here"
        ELSE IF x = "companion" /\ "coo" \in lanes /\ HoldsCompanion(op["coo"])
             THEN IF aborted THEN "gone" ELSE "here"
        ELSE a[x]]

MayOverrun(aborted) ==
    IF aborted THEN LaneEvent /\ HoldsCompanion(op["coo"]) ELSE UNCHANGED laneEvents

\* A proactive operation that was interrupted is to be recovered.
Interrupted(a) ==
    [a EXCEPT !.recover = @ \/ op["coo"].kind \in {"wake", "recovery"},
              !.pending = @ \/ op["coo"].kind = "user",
              !.active = IF op["coo"].kind = "user" THEN NoMessage ELSE @]

\* terminal_user_input_id
TerminalInput ==
    IF actor.failed # NoMessage THEN actor.failed
    ELSE IF agents["companion"] = "here" /\ Failed # {} THEN CHOOSE m \in Failed : TRUE
    ELSE NoMessage

CurrentMessage == IF actor.active # NoMessage THEN actor.active ELSE TerminalInput

\* validate_user_target
ValidTarget(c) ==
    \/ c.type = "cancel" /\ c.target = CurrentMessage
    \/ c.type = "retry" /\ c.target = TerminalInput /\ actor.active \in {NoMessage, c.target}
    \/ /\ agents["companion"] = "here" /\ c.target \in Failed
       /\ c.type = "retry" => actor.active \in {NoMessage, c.target}

RefuseCommand ==
    /\ mail.command.type \in {"cancel", "retry"} /\ ~ValidTarget(mail.command)
    /\ mail' = [mail EXCEPT !.command = NoCommand]
    /\ UNCHANGED <<source, op, gate, agents, message, actor, waiters, laneEvents>>

\* PriorityCommand::CancelUserMessage: it ends whatever runs on the companion's lane,
\* then the message being answered, or the failed one.
CancelUserMessage(aborted, recorded) ==
    LET input == CurrentMessage
    IN
    /\ mail.command.type = "cancel" /\ ValidTarget(mail.command)
    /\ mail' = [mail EXCEPT !.command = NoCommand]
    /\ MayOverrun(aborted) /\ (~recorded => aborted)
    /\ agents' = Restored(agents, {"coo"}, aborted)
    /\ op' = [op EXCEPT !["coo"] = NoOp]
    /\ RenewLane("coo")
    /\ waiters' = waiters \ {input}
    /\ message' = IF recorded THEN [message EXCEPT ![input] = "cancelled"] ELSE message
    /\ actor' = [Interrupted(actor) EXCEPT
          !.active = IF recorded THEN NoMessage ELSE actor.active,
          !.pending = @ \/ (recorded /\ actor.failed = input),
          !.failed = IF recorded /\ @ = input THEN NoMessage ELSE @,
          !.unrecorded = IF recorded THEN @ ELSE input,
          !.retry = (@ /\ ~(recorded /\ actor.failed = input)) \/ ~recorded,
          !.overrun = @ \/ aborted]
    /\ UNCHANGED gate

\* Mutant: nobody is told.
EndAllSilently(aborted) ==
    /\ mail' = [mail EXCEPT !.command = NoCommand]
    /\ MayOverrun(aborted)
    /\ op' = [l \in Lanes |-> NoOp]
    /\ source' = [l \in Lanes |-> Renewed(l)]
    /\ UNCHANGED waiters

\* Every other priority command ends both lanes first: the waiters of the
\* messages being answered are told, and an aborted turn's messages are cancelled.
EndAll(aborted) ==
    /\ mail' = [mail EXCEPT !.command = NoCommand]
    /\ MayOverrun(aborted)
    /\ op' = [l \in Lanes |-> NoOp]
    /\ source' = [l \in Lanes |-> Renewed(l)]
    /\ waiters' = waiters \ op["coo"].inputs

CutOff(aborted) == IF aborted THEN op["coo"].inputs ELSE {}

\* PriorityCommand::RetryUser: a failed message goes back to the queue.
RetryUser(aborted) ==
    LET target == mail.command.target
    IN
    /\ mail.command.type = "retry" /\ ValidTarget(mail.command)
    /\ EndAll(aborted)
    /\ agents' = Restored(agents, Lanes, aborted)
    /\ message' = [m \in LaneMessages |->
          IF m = target /\ message[m] = "failed" THEN "queued"
          ELSE IF m \in CutOff(aborted) THEN "cancelled" ELSE message[m]]
    /\ actor' = [Interrupted(actor) EXCEPT
          !.pending = TRUE, !.active = NoMessage, !.retry = FALSE,
          !.failed = IF @ = target THEN NoMessage ELSE @, !.overrun = @ \/ aborted]
    /\ UNCHANGED gate

\* PriorityCommand::ReplaceConfig: new agents take the place of the old ones.
ReplaceConfig(aborted) ==
    /\ mail.command.type = "replace"
    /\ EndAll(aborted)
    /\ agents' = [a \in DOMAIN agents |-> "here"]
    /\ message' = [m \in LaneMessages |->
          IF m \in CutOff(aborted) THEN "cancelled" ELSE message[m]]
    /\ actor' = [Interrupted(actor) EXCEPT !.initialize = TRUE]
    /\ UNCHANGED gate

----------------------------------------------------------------------------
FinishCoo ==
    \/ \E result \in {"answered", "repeat", "retry", "failed"} : FinishUser(result)
    \/ \E ok \in BOOLEAN : FinishCompanion(ok) \/ FinishBuild(ok)

DoCommand ==
    \/ RefuseCommand
    \/ \E aborted, recorded \in BOOLEAN : CancelUserMessage(aborted, recorded)
    \/ \E aborted \in BOOLEAN : RetryUser(aborted) \/ ReplaceConfig(aborted)

AcceptMessage(m) == \E how \in {"append", "restart", "wait"} : AcceptUser(m, how)

LaneNext ==
    \/ \E m \in LaneMessages : AcceptMessage(m) \/ SendMessage(m) \/ AskUser("cancel", m) \/ AskUser("retry", m)
    \/ StartUser \/ StartRecovery \/ StartObserve \/ StartWake \/ StartInitialization \/ RetryDue
    \/ FinishObserve \/ FinishCoo \/ DoCommand
    \/ \E l \in Lanes : Relay(l) \/ CancelRequest(l) \/ Panic(l)
    \/ \E kind \in {"observe", "wake"} : AskControl(kind)
    \/ AskReplace \/ BlockStarts \/ ReleaseStarts

LaneSpec == LaneInit /\ [][LaneNext]_laneVars

----------------------------------------------------------------------------
(* While a configuration is being put in place nothing is started and      *)
(* nothing goes on: the tokens stay cancelled through every renewal.       *)
BlockedIsQuiet ==
    gate => \A l \in Lanes :
                /\ source[l].cancelled
                /\ ~Idle(l) => op[l].cancelled \/ op[l].due

(* A companion lost with its operation is being rebuilt, or will be at a   *)
(* deadline that is set (runtime_operation.rs, finish_operation), unless   *)
(* the operation was aborted after ten seconds: nothing rebuilds it then.  *)
LostIsRebuilt ==
    agents["companion"] = "gone" /\ ~actor.overrun
        => actor.rebuild /\ (actor.initialize \/ op["coo"].kind = "build")

\* The companion is out of reach until the next configuration.
Stranded == agents["companion"] = "gone" /\ actor.overrun

(* Every message in the queue is settled, whatever holds the companion at  *)
(* the time, preempts or outlives it: answered, failed or cancelled.  And  *)
(* whoever waits for its answer hears of that, unless its turn did not end *)
(* within ten seconds of a cancellation.                                   *)
MessagesEnd ==
    \A m \in LaneMessages :
        /\ message[m] = "queued" ~> (message[m] # "queued" \/ Stranded)
        /\ m \in waiters ~> (m \notin waiters \/ actor.overrun)
=============================================================================
