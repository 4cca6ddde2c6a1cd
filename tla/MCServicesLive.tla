---------------------------- MODULE MCServicesLive ----------------------------
(***************************************************************************)
(* What eventually happens in the components of MCServices and in the      *)
(* delivery of remarks, each on its own, under the fairness of its tasks.  *)
(* The instance has one conversation: what a switch hides owes nothing, and *)
(* RemarkSafety has two.                                                   *)
(***************************************************************************)
EXTENDS MCServices, MCRemarkDelivery

LiveInit == ServicesInit /\ Init

LiveNext ==
    \/ ServicesNext /\ UNCHANGED vars
    \/ part = "remark" /\ Next /\ UNCHANGED services

(* Every task the runtime spawned goes on: callers of the bridge and the   *)
(* exit of a process told to end; the worker of a task, its listener and   *)
(* the token that ends it; the turn and the arrivals behind it; the steps  *)
(* of the runtime's loop; the holder of the projection lock, the tasks and *)
(* timers of hearing, and a helper told to end; the owner of the remarks *)
(* and their consumers.                                                    *)
Fairness ==
    /\ WF_vars(part = "remark" /\ OwnerNext)
    /\ \A r \in Recipients : WF_vars(part = "remark" /\ ConsumerNext(r))
    /\ \A c \in Callers : WF_bridgeVars(part = "bridge" /\ CallerStep(c))
    /\ \A g \in Gens : WF_bridgeVars(part = "bridge" /\ process[g] = "dying" /\ Exit(g))
    /\ WF_workVars(part = "work" /\ WorkerStep)
    /\ WF_workVars(part = "work" /\ TakeResult)
    /\ WF_workVars(part = "work" /\ CancelToken)
    /\ WF_turnVars(part = "turn" /\ LaneStep)
    /\ WF_turnVars(part = "turn" /\ ArrivalStep)
    /\ \A i \in Inputs : WF_turnVars(part = "turn" /\ AnswerUser(i))
    /\ \A m \in LaneMessages : WF_laneVars(part = "lanes" /\ AcceptMessage(m))
    /\ WF_laneVars(part = "lanes" /\ StartUser)
    /\ WF_laneVars(part = "lanes" /\ StartInitialization)
    /\ WF_laneVars(part = "lanes" /\ RetryDue)
    /\ WF_laneVars(part = "lanes" /\ FinishObserve)
    /\ WF_laneVars(part = "lanes" /\ FinishCoo)
    /\ WF_laneVars(part = "lanes" /\ DoCommand)
    /\ WF_laneVars(part = "lanes" /\ ReleaseStarts)
    /\ WF_hearingVars(part = "hearing" /\ LockHolder)
    /\ WF_hearingVars(part = "hearing" /\ HelperExitConfirmed)
    /\ \A g \in Sessions :
          /\ WF_hearingVars(part = "hearing" /\ SessionTask(g))
          /\ WF_hearingVars(part = "hearing" /\ Save(g))
          /\ WF_hearingVars(part = "hearing" /\ session[g].cancelled /\ HelperEnds(g))
    /\ \A s \in Settings : WF_hearingVars(part = "hearing" /\ RestartDue(s))

LiveSpec == LiveInit /\ [][LiveNext]_<<services, vars>> /\ Fairness

----------------------------------------------------------------------------
(* Every call of the provider returns to its caller, with an answer, a     *)
(* refusal or a cancellation, whichever of the answer, the acknowledgement, *)
(* the limit and the end of the process comes first.                       *)
EveryCallReturns == \A c \in Callers : Called(c) ~> Returned(c)

(* Whoever asks for an approval gets an answer: a decision, a change of    *)
(* mode, a cancellation or the end of the task.                            *)
EveryAskEnds == asker # NoOperation ~> asker = NoOperation

(* A message that arrives during a turn of the companion's own is answered *)
(* after it, also when the turn left a commit to recover.                  *)
UsersAreServed == \A i \in Inputs : i \in inbox.users ~> i \notin inbox.users
=============================================================================
