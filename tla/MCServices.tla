------------------------------ MODULE MCServices ------------------------------
(***************************************************************************)
(* The components around the queue of the user and the delivery of remarks, *)
(* each checked on its own: a behaviour is one of the component `part'     *)
(* names, and the others stay where they start.                            *)
(***************************************************************************)
EXTENDS ProviderBridge, WorkTask, ProactiveTurn, RuntimeLanes, HearingSession,
        ConversationReset, MemoryJobs, SpeakerNaming, ScreenWatch

CONSTANT Parts    \* the components looked at

VARIABLE part    \* the component this behaviour is of

services == <<part, bridgeVars, workVars, turnVars, laneVars, hearingVars, resetVars, memoryVars,
              namingVars, screenVars>>

\* The first life of the program begins in auto mode, a later one in either.
ServicesInit ==
    /\ part \in Parts
    /\ BridgeInit /\ WorkInit /\ TurnInit /\ LaneInit /\ HearingInit /\ ResetInit
    /\ MemoryInit /\ NamingInit /\ ScreenInit
    /\ approval.mode = "auto"

ServicesNext ==
    \/ /\ part = "bridge" /\ BridgeNext
       /\ UNCHANGED <<part, workVars, turnVars, laneVars, hearingVars, resetVars,
                      memoryVars, namingVars, screenVars>>
    \/ /\ part = "work" /\ WorkNext
       /\ UNCHANGED <<part, bridgeVars, turnVars, laneVars, hearingVars, resetVars,
                      memoryVars, namingVars, screenVars>>
    \/ /\ part = "turn" /\ TurnNext
       /\ UNCHANGED <<part, bridgeVars, workVars, laneVars, hearingVars, resetVars,
                      memoryVars, namingVars, screenVars>>
    \/ /\ part = "lanes" /\ LaneNext
       /\ UNCHANGED <<part, bridgeVars, workVars, turnVars, hearingVars, resetVars,
                      memoryVars, namingVars, screenVars>>
    \/ /\ part = "hearing" /\ HearingNext
       /\ UNCHANGED <<part, bridgeVars, workVars, turnVars, laneVars, resetVars,
                      memoryVars, namingVars, screenVars>>
    \/ /\ part = "reset" /\ ResetNext
       /\ UNCHANGED <<part, bridgeVars, workVars, turnVars, laneVars, hearingVars,
                      memoryVars, namingVars, screenVars>>
    \/ /\ part = "memory" /\ MemoryNext
       /\ UNCHANGED <<part, bridgeVars, workVars, turnVars, laneVars, hearingVars,
                      resetVars, namingVars, screenVars>>
    \/ /\ part = "naming" /\ NamingNext
       /\ UNCHANGED <<part, bridgeVars, workVars, turnVars, laneVars, hearingVars, resetVars,
                      memoryVars, screenVars>>
    \/ /\ part = "screen" /\ ScreenNext
       /\ UNCHANGED <<part, bridgeVars, workVars, turnVars, laneVars, hearingVars, resetVars,
                      memoryVars, namingVars>>

ServicesSpec == ServicesInit /\ [][ServicesNext]_services

----------------------------------------------------------------------------
(* The state of each component has its type.  Only the component that the  *)
(* behaviour is of is looked at, whichever that is: the others never move. *)
ServicesTypeOK ==
    /\ part = "bridge" => BridgeTypeOK
    /\ part = "work" => WorkTypeOK
    /\ part = "turn" => TurnTypeOK
    /\ part = "lanes" => LaneTypeOK
    /\ part = "hearing" => HearingTypeOK
    /\ part = "reset" => ResetTypeOK
    /\ part = "memory" => MemoryTypeOK
    /\ part = "naming" => NamingTypeOK
    /\ part = "screen" => ScreenTypeOK
=============================================================================
