--------------------------- MODULE Services_proofs ---------------------------
(***************************************************************************)
(* What is proved of each component holds of the components together, as   *)
(* MCServices runs them: a behaviour of all is a behaviour of each, since  *)
(* a step of one leaves the state of the others alone, and a behaviour     *)
(* that is not of a component leaves it where it starts.                   *)
(***************************************************************************)
EXTENDS MCServices, Initiative_proofs, Runtime_proofs, Records_proofs, Senses_proofs

\* All parts start together.
LEMMA EachPartStarts ==
    ASSUME ServicesInit
    PROVE  /\ BridgeInit /\ WorkInit /\ TurnInit /\ LaneInit /\ HearingInit /\ ResetInit
           /\ MemoryInit /\ NamingInit /\ ScreenInit
BY DEF ServicesInit

\* A step is of one part, or of none.
LEMMA EachPartSteps ==
    ASSUME [ServicesNext]_services
    PROVE  /\ [BridgeNext]_bridgeVars /\ [WorkNext]_workVars /\ [TurnNext]_turnVars
           /\ [LaneNext]_laneVars /\ [HearingNext]_hearingVars /\ [ResetNext]_resetVars
           /\ [MemoryNext]_memoryVars /\ [NamingNext]_namingVars /\ [ScreenNext]_screenVars
BY DEF ServicesNext, services

(* A behaviour of the components together is one of each of them.          *)
THEOREM EachPart ==
    ServicesSpec => /\ BridgeSpec /\ WorkSpec /\ TurnSpec /\ LaneSpec /\ HearingSpec
                    /\ ResetSpec /\ MemorySpec /\ NamingSpec /\ ScreenSpec
BY EachPartStarts, EachPartSteps, PTL
   DEF ServicesSpec, BridgeSpec, WorkSpec, TurnSpec, LaneSpec, HearingSpec, ResetSpec, MemorySpec,
       NamingSpec, ScreenSpec

(* The state of every component has its type: the lock and the slots of    *)
(* the provider bridge, the task of the work, the epochs of a turn, the    *)
(* operations of the runtime, the sessions of hearing, the files of a      *)
(* reset, the jobs of the memory, the names of voices and the captures.    *)
THEOREM ServicesTyped ==
    ServicesSpec => /\ []ServicesTypeOK
                    /\ [](BridgeTypeOK /\ WorkTypeOK /\ TurnTypeOK /\ LaneTypeOK /\ HearingTypeOK)
                    /\ [](ResetTypeOK /\ MemoryTypeOK /\ NamingTypeOK /\ ScreenTypeOK)
<1>1. /\ BridgeTypeOK /\ WorkTypeOK /\ TurnTypeOK /\ LaneTypeOK /\ HearingTypeOK
      /\ ResetTypeOK /\ MemoryTypeOK /\ NamingTypeOK /\ ScreenTypeOK
      => ServicesTypeOK
  BY DEF ServicesTypeOK
<1> QED
  BY <1>1, EachPart, BridgeTyped, WorkTypeCorrect, TurnTyped, LanesTyped, HearingTyped, ResetTyped,
     MemoryTyped, NamingTyped, ScreenTypeCorrect, PTL

(* What Services.cfg checks on a small instance, of any: no call of the    *)
(* provider leaves its id behind, and no process starts beside one that is *)
(* being ended or written to; work runs once, on an approval, and its      *)
(* success is durable; a remark is said and counted once and consent       *)
(* queues its work once; a blocked lane is quiet and a lost companion      *)
(* rebuilt; one helper hears, a deleted day stays deleted and the view is  *)
(* true; a reset loses nothing; calls of the memory are well spent; voices *)
(* carry granted names and true cards; what the screen showed is neither   *)
(* lost, nor stored under another allowlist, nor told to who saw it while  *)
(* the cursor remembers that.                                              *)
THEOREM ServicesSafe ==
    ServicesSpec => /\ [](ReturnedIsForgotten /\ RunsInOneLife /\ WorksOnApproval)
                    /\ [](SpokenOnceAndCounted /\ AcceptedQueuedOnce)
                    /\ [](BlockedIsQuiet /\ LostIsRebuilt)
                    /\ [](OneHelper /\ DeletedStaysDeleted /\ ViewIsTrue)
                    /\ [](NothingIsLost /\ CallsWellSpent /\ OnlyGrantedNames /\ CardsAreTrue)
                    /\ []SightingIsDelivered
                    /\ StartsAfterReap /\ SuccessIsDurable /\ AcceptsCurrentOffer
                    /\ SeenIsNotSpoken /\ OldScopeNotStored
<1>1. BridgeSpec => []ReturnedIsForgotten /\ StartsAfterReap
  BY CallsAreForgotten, ProcessesTakeTurns
<1>2. WorkSpec => []RunsInOneLife /\ []WorksOnApproval /\ SuccessIsDurable
  BY RunsOnce, WorksApproved, SuccessStays
<1>3. TurnSpec => []SpokenOnceAndCounted /\ []AcceptedQueuedOnce /\ AcceptsCurrentOffer
  BY SpokenOnce, ConsentCountsOnce, NoStaleConsent
<1>4. LaneSpec => []BlockedIsQuiet /\ []LostIsRebuilt
  BY BlockedLanesAreQuiet, LostCompanionIsRebuilt
<1>5. HearingSpec => []OneHelper /\ []DeletedStaysDeleted /\ []ViewIsTrue
  BY HelpersTakeTurns, DeletionWaits, ViewTellsTheTruth
<1>6. /\ ResetSpec => []NothingIsLost
      /\ MemorySpec => []CallsWellSpent
      /\ NamingSpec => []OnlyGrantedNames /\ []CardsAreTrue
  BY ResetLosesNothing, CallsAreWellSpent, NamesAreGranted, CardsHoldTrue
<1>7. ScreenSpec => []SightingIsDelivered /\ SeenIsNotSpoken /\ OldScopeNotStored
  BY SightingDelivered, SeenStaysUnspoken, OldScopeStaysOut
<1> QED
  BY <1>1, <1>2, <1>3, <1>4, <1>5, <1>6, <1>7, EachPart, PTL
=============================================================================
