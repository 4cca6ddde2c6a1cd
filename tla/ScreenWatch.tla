------------------------------ MODULE ScreenWatch ------------------------------
(***************************************************************************)
(* The way of what is on the screen, from a capture to what the companion  *)
(* says of it: the capture under a generation of the watch scope, the      *)
(* buffer of one capture per target, the observation at the provider, its  *)
(* journal and its outbox, the message of the user that takes frames and   *)
(* observations into its own prompt, the turn of the companion, the change *)
(* of the allowlist that ends a scope, and a restart.  A capture is its    *)
(* number, and so is an observation; a capture has one frame.              *)
(***************************************************************************)
EXTENDS Integers, Sequences, FiniteSets

CONSTANTS MaxShots,           \* captures
          MaxSightings,       \* observations
          MaxCursorIds,       \* MAX_CURSOR_IDS: ids a list of the cursor keeps
          MaxScreenEvents     \* messages of the user, changes of the allowlist, crashes, failed calls

ASSUME ScreenAssumption ==
    /\ MaxShots \in Nat /\ MaxSightings \in Nat /\ MaxScreenEvents \in Nat
    /\ MaxCursorIds \in Nat \ {0}

VARIABLES
    watchScope,      \* config and disk: the allowlist published and the one saved;
                     \* gen: watch_scope_generation; cut: the last watch_context_since;
                     \* seq: user_input_sequence; change: how far a change of the allowlist is
    shots,           \* captures taken: config and gen read before it, cut and seq at it
    camera,          \* the capture under way
    shotBuffer,      \* WatchMemory.pending
    look,            \* WatchMemory.active_work and the operation Observe it asked for
    sightings,       \* the journal of observations: frames, when it was stored, held back or not
    screenOutbox,    \* observations the outbox knows
    unsent,          \* Observer.pending_outbox, lost with the agent
    recovered,       \* observation_outbox_recovered of the agent
    screenCursor,    \* contexts, consumed: pending_frame_contexts, consumed_frame_context_ids;
                     \* done, queued: ids, pending; finished: completed_observation_ids of the
                     \* agent; gone, goneFrames: what done and consumed have dropped since (history)
    backlog,         \* pending_observations of the runtime
    asking,          \* the message of the user, and what of the screen it took
    chat,            \* the turn of the companion, and what it is about
    seenByUser,      \* frames and observations answers to the user were given with
    saidOfScreen,    \* observations the companion spoke of on its own
    screenEvents

screenVars == <<watchScope, shots, camera, shotBuffer, look, sightings, screenOutbox, unsent,
                recovered, screenCursor, backlog, asking, chat, seenByUser, saidOfScreen, screenEvents>>

\* What the companion keeps and what it said, which a capture does not touch.
talkVars == <<asking, chat, seenByUser, saidOfScreen>>
journalVars == <<sightings, screenOutbox, unsent, recovered>>
cameraVars == <<shots, camera, shotBuffer>>

NoLook == [step |-> "none", frames |-> {}, cancelled |-> FALSE]
NoCamera == [step |-> "idle", config |-> 0, gen |-> 0]
NoChat == [on |-> FALSE, about |-> {}, mailbox |-> FALSE, cancelled |-> FALSE]

Shots == DOMAIN shots
Sighted == DOMAIN sightings

(* A capture is of the scope as it is now: its generation, its configuration *)
(* and the messages of the user that were there when it was taken.          *)
ShotIsCurrent(n) ==
    /\ shots[n].gen = watchScope.gen
    /\ shots[n].config = watchScope.config
    /\ shots[n].seq = watchScope.seq

(* observation_is_current and frame_context_is_current: made after the last *)
(* change of the allowlist.                                                *)
CurrentFrames(F) == {n \in F : shots[n].cut = watchScope.cut}
CurrentSightings(S) == {s \in S : sightings[s].cut = watchScope.cut}

\* Mutant: only what the companion itself is done with.
ClaimedByCompanion(s) == s \in screenCursor.done

(* observation_claimed_by_user: the companion is done with it, or a message *)
(* of the user took every frame it was made of.                            *)
ClaimedByUser(s) ==
    \/ s \in screenCursor.done
    \/ sightings[s].frames \subseteq screenCursor.consumed

(* A list of the cursor keeps the last MaxCursorIds ids that entered it: a  *)
(* new one stays before an older one.  Which of the older ones is older is  *)
(* left open.                                                              *)
KeepsLast(old, new) ==
    {kept \in SUBSET (old \cup new) :
        IF Cardinality(old \cup new) <= MaxCursorIds
        THEN kept = old \cup new
        ELSE /\ Cardinality(kept) = MaxCursorIds
             /\ new \ old \subseteq kept \/ kept \subseteq new}

FramesOf(S) == UNION {sightings[s].frames : s \in S}

(* The lock of the scope is held while an observation is stored and handed *)
(* to the outbox; the actor is busy while it replaces the configuration.   *)
ScopeLockFree == look.step \notin {"decide", "enqueue"}
ActorFree == watchScope.change # "cut"
ObserverIsHome == look.step \in {"none", "ready", "queued"}
CompanionIsHome == ~chat.on /\ asking.step \notin {"asked", "answered"}
UserIsPending == asking.step \in {"prepared", "accepted"}

----------------------------------------------------------------------------
(* The watch takes a picture.                                              *)

ReadScope ==
    /\ camera.step = "idle"
    /\ Len(shots) < MaxShots
    /\ ScopeLockFree
    /\ camera' = [step |-> "read", config |-> watchScope.config, gen |-> watchScope.gen]
    /\ UNCHANGED <<watchScope, shots, shotBuffer, look, screenCursor, backlog, journalVars, talkVars,
                   screenEvents>>

TakeShot ==
    /\ camera.step = "read"
    /\ shots' = Append(shots, [config |-> camera.config, gen |-> camera.gen,
                               seq |-> watchScope.seq, cut |-> watchScope.cut])
    /\ camera' = [camera EXCEPT !.step = "taken"]
    /\ UNCHANGED <<watchScope, shotBuffer, look, screenCursor, backlog, journalVars, talkVars, screenEvents>>

(* The context of the frame goes to the cursor under the lock of the scope, *)
(* if the scope is still the one read; then the capture replaces the one   *)
(* buffered for its target, unless the change cannot be noted.             *)
RegisterShot ==
    /\ camera.step = "taken"
    /\ ScopeLockFree
    /\ camera.gen = watchScope.gen
    /\ screenCursor' = [screenCursor EXCEPT !.contexts = @ \cup {Len(shots)}]
    /\ \/ UNCHANGED shotBuffer
       \/ shotBuffer' = shotBuffer \cup {Len(shots)}
       \/ \E n \in shotBuffer : shotBuffer' = (shotBuffer \ {n}) \cup {Len(shots)}
    /\ camera' = NoCamera
    /\ UNCHANGED <<watchScope, shots, look, backlog, journalVars, talkVars, screenEvents>>

(* An unchanged screen, a failed or cancelled capture, a scope that changed. *)
DropShot ==
    /\ camera.step # "idle"
    /\ camera' = NoCamera
    /\ UNCHANGED <<watchScope, shots, shotBuffer, look, screenCursor, backlog, journalVars, talkVars,
                   screenEvents>>

----------------------------------------------------------------------------
(* The watch sends what it buffered to the runtime.                        *)

FlushBuffer ==
    LET kept == {n \in shotBuffer : ShotIsCurrent(n)} IN
    /\ look.step = "none"
    /\ shotBuffer # {}
    /\ shotBuffer' = {}
    /\ look' = IF kept = {} THEN NoLook ELSE [NoLook EXCEPT !.step = "ready", !.frames = kept]
    /\ UNCHANGED <<watchScope, shots, camera, screenCursor, backlog, journalVars, talkVars, screenEvents>>

SendBatch ==
    /\ look.step = "ready"
    /\ look' = IF \A n \in look.frames : ShotIsCurrent(n)
               THEN [look EXCEPT !.step = "queued"]
               ELSE NoLook
    /\ UNCHANGED <<watchScope, cameraVars, screenCursor, backlog, journalVars, talkVars, screenEvents>>

(* What the outbox does not know yet and no user took: a new agent reads   *)
(* the whole journal once, and tries what an earlier call could not hand   *)
(* over.  A failure may come anywhere.                                     *)
Undelivered == (IF recovered THEN {} ELSE {s \in Sighted : s \notin screenOutbox}) \cup unsent

\* Mutant: what could not be handed over is not kept for another try.
HandOverOnce(tried) ==
    /\ screenOutbox' = screenOutbox \cup {s \in tried : ~ClaimedByUser(s)}
    /\ unsent' = {}

HandOver(tried) ==
    /\ screenOutbox' = screenOutbox \cup {s \in tried : ~ClaimedByUser(s)}
    /\ unsent' = unsent \ tried

RefuseObserve ==
    \/ \E n \in look.frames : shots[n].seq # watchScope.seq
    \/ \E n \in look.frames : shots[n].gen # watchScope.gen
    \/ watchScope.change # "none"

StartLook ==
    /\ look.step = "queued" /\ ActorFree
    /\ \/ /\ RefuseObserve
          /\ look' = NoLook
          /\ UNCHANGED <<screenOutbox, unsent, recovered, screenCursor>>
       \/ /\ ~RefuseObserve
          /\ look' = [look EXCEPT !.step = "call"]
          /\ \E tried \in SUBSET Undelivered :
                /\ HandOver(tried)
                /\ screenCursor' = [screenCursor EXCEPT !.contexts = @ \ FramesOf(tried)]
                /\ recovered' = (recovered \/ Undelivered \ unsent \subseteq tried)
    /\ UNCHANGED <<watchScope, cameraVars, sightings, backlog, talkVars, screenEvents>>

(* The provider answers.  A cancelled observation is dropped, and so is one *)
(* of an older scope: it is compared under the lock of the scope, which    *)
(* stays held until the outbox has it.  Without companion_delivery (the    *)
(* judge holds it back) the journal is all that keeps it.                  *)
PersistSighting ==
    /\ look.step = "call"
    /\ ~look.cancelled
    /\ Len(sightings) < MaxSightings
    /\ \A n \in look.frames : shots[n].gen = watchScope.gen
    /\ \E held \in BOOLEAN :
          /\ sightings' = Append(sightings, [frames |-> look.frames, cut |-> watchScope.cut, held |-> held])
          /\ look' = [look EXCEPT !.step = IF held THEN "finish" ELSE "decide"]
    /\ UNCHANGED <<watchScope, cameraVars, screenOutbox, unsent, recovered, screenCursor, backlog, talkVars,
                   screenEvents>>

DropObservation ==
    /\ look.step = "call"
    /\ \/ /\ look.cancelled \/ \E n \in look.frames : shots[n].gen # watchScope.gen
          /\ UNCHANGED screenEvents
       \/ /\ screenEvents < MaxScreenEvents
          /\ screenEvents' = screenEvents + 1
    /\ look' = NoLook
    /\ UNCHANGED <<watchScope, cameraVars, screenCursor, backlog, journalVars, talkVars>>

(* frame_context_delivery_decision: from here the observation speaks for   *)
(* its frames, and their contexts leave the cursor; if the user took all   *)
(* of them, it is not handed over.  An error leaves it for later.          *)
DecideClaim ==
    LET s == Len(sightings) IN
    /\ look.step = "decide"
    /\ \/ /\ screenCursor' = [screenCursor EXCEPT !.contexts = @ \ look.frames]
          /\ look' = [look EXCEPT !.step = IF ClaimedByUser(s) THEN "finish" ELSE "enqueue"]
          /\ UNCHANGED unsent
       \/ /\ unsent' = unsent \cup {s}
          /\ look' = [look EXCEPT !.step = "finish"]
          /\ UNCHANGED screenCursor
    /\ UNCHANGED <<watchScope, cameraVars, sightings, screenOutbox, recovered, backlog, talkVars, screenEvents>>

EnqueueSighting ==
    LET s == Len(sightings) IN
    /\ look.step = "enqueue"
    /\ \/ screenOutbox' = screenOutbox \cup {s} /\ UNCHANGED unsent
       \/ unsent' = unsent \cup {s} /\ UNCHANGED screenOutbox
    /\ look' = [look EXCEPT !.step = "finish"]
    /\ UNCHANGED <<watchScope, cameraVars, sightings, recovered, screenCursor, backlog, talkVars, screenEvents>>

(* The runtime takes the observation back: for the next turn of the        *)
(* companion, and on disk if the companion is not in a turn.               *)
FinishLook ==
    LET s == Len(sightings) IN
    /\ look.step = "finish" /\ ActorFree
    /\ look' = NoLook
    /\ \/ /\ look.cancelled \/ sightings[s].held
          /\ UNCHANGED <<backlog, screenCursor>>
       \/ /\ ~look.cancelled /\ ~sightings[s].held
          /\ backlog' = backlog \cup {s}
          /\ screenCursor' = IF CompanionIsHome
                             THEN [screenCursor EXCEPT !.queued = @ \cup ({s} \ screenCursor.finished)]
                             ELSE screenCursor
    /\ UNCHANGED <<watchScope, cameraVars, journalVars, talkVars, screenEvents>>

----------------------------------------------------------------------------
(* The user writes while all this goes on.                                 *)

(* The preparer, outside the runtime, gives the message the observations of *)
(* the last minutes and the frames not observed yet.                       *)
MessagePrepares ==
    /\ asking.step = "none"
    /\ screenEvents < MaxScreenEvents
    /\ screenEvents' = screenEvents + 1
    /\ asking' = [step |-> "prepared", about |-> Sighted,
                  frames |-> screenCursor.contexts]
    /\ UNCHANGED <<watchScope, cameraVars, look, journalVars, screenCursor, backlog, chat, seenByUser,
                   saidOfScreen>>

(* A message cancels the observation and the turn that are running.        *)
MessageArrives ==
    /\ asking.step = "prepared" /\ ActorFree
    /\ asking' = [asking EXCEPT !.step = "accepted"]
    /\ watchScope' = [watchScope EXCEPT !.seq = @ + 1]
    /\ look' = IF ObserverIsHome THEN look ELSE [look EXCEPT !.cancelled = TRUE]
    /\ chat' = IF chat.on THEN [chat EXCEPT !.cancelled = TRUE] ELSE chat
    /\ UNCHANGED <<cameraVars, journalVars, screenCursor, backlog, seenByUser, saidOfScreen, screenEvents>>

(* The operation of the user starts: what the runtime kept is queued, and  *)
(* the message gets what the companion knows of the screen now.            *)
StartAsking ==
    /\ asking.step = "accepted" /\ CompanionIsHome
    /\ watchScope.change = "none"
    /\ screenCursor' = [screenCursor EXCEPT !.queued = @ \cup (backlog \ screenCursor.finished)]
    /\ \E recent \in {{}, Sighted} :
          asking' = [asking EXCEPT !.step = "asked",
                         !.about = CurrentSightings(@ \cup recent \cup screenCursor'.queued),
                         !.frames = CurrentFrames(@ \cup screenCursor.contexts)]
    /\ UNCHANGED <<watchScope, cameraVars, look, journalVars, backlog, chat, seenByUser, saidOfScreen,
                   screenEvents>>

AnswerAsked ==
    /\ asking.step = "asked"
    /\ watchScope.change = "none"
    /\ asking' = [asking EXCEPT !.step = "answered"]
    /\ seenByUser' = [frames |-> seenByUser.frames \cup asking.frames,
                      about |-> seenByUser.about \cup asking.about]
    /\ UNCHANGED <<watchScope, cameraVars, look, journalVars, screenCursor, backlog, chat, saidOfScreen,
                   screenEvents>>

(* claim_input_context_for_turn, also by the recovery of the commit, which  *)
(* leaves the observations of the runtime as they are.  What is entered    *)
(* pushes the oldest out of the two lists.                                 *)
ClaimContext ==
    LET consumed == screenCursor.consumed \cup asking.frames
        claimed == asking.about
                   \cup {s \in screenCursor.queued : sightings[s].frames \subseteq consumed} IN
    /\ asking.step = "answered" /\ ActorFree
    /\ \E done \in KeepsLast(screenCursor.done, claimed),
          frames \in KeepsLast(screenCursor.consumed, asking.frames) :
          screenCursor' = [contexts |-> screenCursor.contexts \ asking.frames,
                           consumed |-> frames,
                           done |-> done,
                           queued |-> screenCursor.queued \ claimed,
                           finished |-> screenCursor.finished \cup (screenCursor.queued \cap claimed),
                           gone |-> (screenCursor.gone \cup screenCursor.done \cup claimed) \ done,
                           goneFrames |-> (screenCursor.goneFrames \cup consumed) \ frames]
    /\ backlog' \in {backlog, backlog \ (screenCursor.queued \cap claimed)}
    /\ asking' = [asking EXCEPT !.step = "none", !.about = {}, !.frames = {}]
    /\ UNCHANGED <<watchScope, cameraVars, look, journalVars, chat, seenByUser, saidOfScreen,
                   screenEvents>>

AskFails ==
    /\ asking.step = "asked"
    /\ \/ watchScope.change # "none" /\ UNCHANGED screenEvents
       \/ screenEvents < MaxScreenEvents /\ screenEvents' = screenEvents + 1
    /\ asking' = [asking EXCEPT !.step = "accepted"]
    /\ UNCHANGED <<watchScope, cameraVars, look, journalVars, screenCursor, backlog, chat, seenByUser,
                   saidOfScreen>>

----------------------------------------------------------------------------
(* The companion speaks on its own.                                        *)

(* A turn is about what it is given, less what is too old, what a message  *)
(* of the user took and what the agent is finished with.  Asking whether a *)
(* user took them drops the contexts of the frames, as it does for what was *)
(* tried before, and the agent is finished with those that were; the call  *)
(* notes on disk what it is about.                                         *)
Speakable(S) == {s \in CurrentSightings(S) : ~ClaimedByUser(s) /\ s \notin screenCursor.finished}

TurnAbout(S, tried, mailbox) ==
    /\ chat' = [on |-> Speakable(S) # {}, about |-> Speakable(S), mailbox |-> mailbox /\ Speakable(S) # {},
                cancelled |-> FALSE]
    /\ screenCursor' = [screenCursor EXCEPT !.contexts = @ \ FramesOf(tried \cup CurrentSightings(S)),
                                            !.queued = @ \cup Speakable(S),
                                            !.finished = @ \cup {s \in CurrentSightings(S) : ClaimedByUser(s)}]

(* The recovery of the companion: what is queued and what the runtime kept. *)
StartChat ==
    /\ CompanionIsHome /\ asking.step # "accepted"
    /\ watchScope.change = "none"
    /\ TurnAbout(screenCursor.queued \cup backlog, {}, FALSE)
    /\ UNCHANGED <<watchScope, cameraVars, look, journalVars, backlog, asking, seenByUser, saidOfScreen,
                   screenEvents>>

(* A turn of the mailbox.  The observer first hands over what it could not; *)
(* then a message is read, with what the agent has queued.  Which messages *)
(* are acknowledged is left open: one the agent is not finished with may be *)
(* there.  An operation that ends well, also one with nothing to say, lets *)
(* the runtime forget what it kept.                                        *)
ReadScreenMailbox ==
    /\ CompanionIsHome /\ asking.step # "accepted"
    /\ watchScope.change = "none"
    /\ \E tried \in SUBSET (IF ObserverIsHome THEN unsent ELSE {}) :
          /\ HandOver(tried)
          /\ \/ TurnAbout({}, tried, TRUE)
             \/ \E s \in screenOutbox' \ screenCursor.finished, queued \in SUBSET screenCursor.queued :
                   TurnAbout(queued \cup {s}, tried, TRUE)
    /\ backlog' = IF chat'.on THEN backlog ELSE {}
    /\ UNCHANGED <<watchScope, cameraVars, look, sightings, recovered, asking, seenByUser, saidOfScreen,
                   screenEvents>>

(* A turn that was cancelled or failed, or that ends after a message of the *)
(* user came, leaves what it was about queued; one that ends well enters it *)
(* as done, which pushes the oldest out.                                   *)
EndChat ==
    /\ chat.on /\ ActorFree
    /\ chat' = NoChat
    /\ \/ UNCHANGED <<screenCursor, saidOfScreen, backlog>>
       \/ /\ chat.mailbox /\ ~chat.cancelled
          /\ backlog' = {}
          /\ UNCHANGED <<screenCursor, saidOfScreen>>
       \/ /\ ~chat.cancelled /\ ~UserIsPending
          /\ saidOfScreen' \in {saidOfScreen, saidOfScreen \cup chat.about}
          /\ \E done \in KeepsLast(screenCursor.done, chat.about) :
                screenCursor' = [screenCursor EXCEPT !.done = done, !.queued = @ \ chat.about,
                                                     !.finished = @ \cup chat.about,
                                                     !.gone = (@ \cup screenCursor.done \cup chat.about) \ done]
          /\ backlog' = IF chat.mailbox THEN {} ELSE backlog \ chat.about
    /\ UNCHANGED <<watchScope, cameraVars, look, journalVars, asking, seenByUser, screenEvents>>

----------------------------------------------------------------------------
(* The allowlist changes while providers may not start.                    *)

InvalidateScope ==
    /\ watchScope.change = "none"
    /\ screenEvents < MaxScreenEvents
    /\ screenEvents' = screenEvents + 1
    /\ ScopeLockFree
    /\ watchScope' = [watchScope EXCEPT !.gen = @ + 1, !.change = "advanced"]
    /\ look' = IF ObserverIsHome THEN look ELSE [look EXCEPT !.cancelled = TRUE]
    /\ chat' = IF chat.on THEN [chat EXCEPT !.cancelled = TRUE] ELSE chat
    /\ UNCHANGED <<cameraVars, journalVars, screenCursor, backlog, asking, seenByUser, saidOfScreen>>

SaveConfig ==
    /\ watchScope.change = "advanced"
    /\ watchScope' \in {[watchScope EXCEPT !.disk = watchScope.config + 1, !.change = "saved"],
                        [watchScope EXCEPT !.change = "none"]}
    /\ UNCHANGED <<cameraVars, look, journalVars, screenCursor, backlog, talkVars, screenEvents>>

(* replace_config, once every operation has ended: new agents, and nothing *)
(* of the screen seen before this moment stays.                            *)
CutContext ==
    /\ watchScope.change = "saved"
    /\ ObserverIsHome /\ CompanionIsHome
    /\ watchScope' = [watchScope EXCEPT !.cut = @ + 1, !.change = "cut"]
    /\ screenCursor' = [screenCursor EXCEPT !.contexts = {}, !.queued = {}, !.finished = screenCursor.done]
    /\ backlog' = {}
    /\ asking' = [asking EXCEPT !.about = {}, !.frames = {}]
    /\ unsent' = {}
    /\ recovered' = FALSE
    /\ UNCHANGED <<cameraVars, look, sightings, screenOutbox, chat, seenByUser, saidOfScreen, screenEvents>>

\* Mutant: the new configuration without a new generation.
PublishScopeInPlace ==
    /\ watchScope.change = "cut"
    /\ watchScope' = [watchScope EXCEPT !.config = watchScope.disk, !.change = "none"]
    /\ UNCHANGED <<cameraVars, look, journalVars, screenCursor, backlog, talkVars, screenEvents>>

PublishScope ==
    /\ watchScope.change = "cut"
    /\ watchScope' = [watchScope EXCEPT !.config = watchScope.disk, !.gen = @ + 1, !.change = "none"]
    /\ UNCHANGED <<cameraVars, look, journalVars, screenCursor, backlog, talkVars, screenEvents>>

(* The program ends at any point and starts again from its files: the agent *)
(* is finished with what the cursor still names.                           *)
RestartWatch ==
    /\ screenEvents < MaxScreenEvents
    /\ screenEvents' = screenEvents + 1
    /\ watchScope' = [watchScope EXCEPT !.config = watchScope.disk, !.gen = @ + 1, !.change = "none"]
    /\ camera' = NoCamera /\ shotBuffer' = {} /\ look' = NoLook
    /\ unsent' = {} /\ recovered' = FALSE /\ backlog' = {} /\ chat' = NoChat
    /\ asking' = [asking EXCEPT !.step = IF @ \in {"prepared", "asked"} THEN "accepted" ELSE @]
    /\ screenCursor' = [screenCursor EXCEPT !.finished = screenCursor.done]
    /\ UNCHANGED <<shots, sightings, screenOutbox, seenByUser, saidOfScreen>>

----------------------------------------------------------------------------
ScreenInit ==
    /\ watchScope = [config |-> 0, disk |-> 0, gen |-> 0, cut |-> 0, seq |-> 0, change |-> "none"]
    /\ shots = << >> /\ sightings = << >>
    /\ camera = NoCamera /\ shotBuffer = {} /\ look = NoLook
    /\ screenOutbox = {} /\ unsent = {} /\ recovered = FALSE
    /\ screenCursor = [contexts |-> {}, consumed |-> {}, done |-> {}, queued |-> {}, finished |-> {},
                       gone |-> {}, goneFrames |-> {}]
    /\ backlog = {}
    /\ asking = [step |-> "none", about |-> {}, frames |-> {}]
    /\ chat = NoChat
    /\ seenByUser = [frames |-> {}, about |-> {}]
    /\ saidOfScreen = {}
    /\ screenEvents = 0

ScreenNext ==
    \/ ReadScope
    \/ TakeShot \/ RegisterShot \/ DropShot
    \/ FlushBuffer \/ SendBatch \/ StartLook
    \/ PersistSighting \/ DropObservation \/ DecideClaim \/ EnqueueSighting \/ FinishLook
    \/ MessagePrepares \/ MessageArrives \/ StartAsking \/ AnswerAsked \/ ClaimContext \/ AskFails
    \/ StartChat \/ ReadScreenMailbox \/ EndChat
    \/ InvalidateScope \/ SaveConfig \/ CutContext \/ PublishScope
    \/ RestartWatch

ScreenSpec == ScreenInit /\ [][ScreenNext]_screenVars

----------------------------------------------------------------------------
ScopeType == [config : Nat, disk : Nat, gen : Nat, cut : Nat, seq : Nat,
              change : {"none", "advanced", "saved", "cut"}]
ShotType == [config : Nat, gen : Nat, seq : Nat, cut : Nat]
CameraType == [step : {"idle", "read", "taken"}, config : Nat, gen : Nat]
LookType(F) == [step : {"none", "ready", "queued", "call", "decide", "enqueue", "finish"},
                frames : SUBSET F, cancelled : BOOLEAN]
SightingType(F) == [frames : SUBSET F, cut : Nat, held : BOOLEAN]
CursorType(F, S) == [contexts : SUBSET F, consumed : SUBSET F, done : SUBSET S, queued : SUBSET S,
                     finished : SUBSET S, gone : SUBSET S, goneFrames : SUBSET F]
AskingType(F, S) == [step : {"none", "prepared", "accepted", "asked", "answered"},
                     about : SUBSET S, frames : SUBSET F]
ChatType(S) == [on : BOOLEAN, about : SUBSET S, mailbox : BOOLEAN, cancelled : BOOLEAN]
SeenType(F, S) == [frames : SUBSET F, about : SUBSET S]

ScreenTypeOK ==
    /\ watchScope \in ScopeType
    /\ shots \in Seq(ShotType)
    /\ camera \in CameraType
    /\ camera.step = "taken" => shots # << >>
    /\ shotBuffer \subseteq Shots
    /\ look \in LookType(Shots)
    /\ look.step \in {"decide", "enqueue", "finish"} => sightings # << >>
    /\ sightings \in Seq(SightingType(Shots))
    /\ screenOutbox \subseteq Sighted
    /\ unsent \subseteq Sighted
    /\ recovered \in BOOLEAN
    /\ screenCursor \in CursorType(Shots, Sighted)
    /\ backlog \subseteq Sighted
    /\ asking \in AskingType(Shots, Sighted)
    /\ chat \in ChatType(Sighted)
    /\ seenByUser \in SeenType(Shots, Sighted)
    /\ saidOfScreen \subseteq Sighted
    /\ screenEvents \in 0 .. MaxScreenEvents

(* What a message of the user was answered with is not brought up again by *)
(* the companion on its own, neither an observation the answer had nor one *)
(* made only of frames the answer had, as long as the cursor remembers: an *)
(* observation the companion speaks of all the same is one whose id, or one *)
(* of whose frames, has since been pushed out of the cursor.               *)
SeenIsNotSpoken ==
    [][\A s \in saidOfScreen' \ saidOfScreen :
          /\ s \in seenByUser.about => s \in screenCursor.gone
          /\ sightings[s].frames \subseteq seenByUser.frames
             => sightings[s].frames \cap screenCursor.goneFrames # {}]_screenVars

(* What was captured under one allowlist does not reach the journal under  *)
(* another, however the capture, the call and the change interleave.       *)
OldScopeNotStored ==
    [][\A s \in DOMAIN sightings' \ DOMAIN sightings :
          \A n \in sightings'[s].frames : shots[n].config = watchScope.config]_screenVars

(* An observation in the journal reaches the companion: the outbox has it, *)
(* or the agent will try, or the companion was done with it, or the user   *)
(* was answered with every frame of it.                                    *)
SightingIsDelivered ==
    \A s \in Sighted :
       \/ sightings[s].held
       \/ s \in screenOutbox \cup unsent
       \/ ~recovered
       \/ look.step \in {"decide", "enqueue"} /\ s = Len(sightings)
       \/ s \in screenCursor.done \cup screenCursor.gone
       \/ sightings[s].frames \subseteq seenByUser.frames
=============================================================================
