---------------------------- MODULE Senses_proofs ----------------------------
(***************************************************************************)
(* Proofs about ScreenWatch and HearingSession, for any captures, sessions and *)
(* bounds: what the screen showed is neither stored under another allowlist, *)
(* nor lost, nor said to a user who saw it while the cursor remembers;     *)
(* what is heard is heard by one helper, saved before a day is deleted,    *)
(* and shown as it is.                                                     *)
(***************************************************************************)
EXTENDS ScreenWatch, HearingSession, FiniteSetTheorems, TLAPS

----------------------------------------------------------------------------
(* ScreenWatch.                                                            *)

(* A capture of the generation there is now was taken of the configuration *)
(* there is now.                                                           *)
ScopeOK ==
    /\ \A n \in Shots : /\ shots[n].gen <= watchScope.gen
                        /\ shots[n].gen = watchScope.gen => shots[n].config = watchScope.config
    /\ camera.step # "idle" => /\ camera.gen <= watchScope.gen
                               /\ camera.gen = watchScope.gen => camera.config = watchScope.config

(* What the cursor names, or has named, as done and as consumed.           *)
EverDone == screenCursor.done \cup screenCursor.gone
EverConsumed == screenCursor.consumed \cup screenCursor.goneFrames

(* Once an answer is committed the cursor knows what the user saw, or has  *)
(* known it, and a turn of the companion is about nothing the cursor names *)
(* as taken by a user.                                                     *)
SeenOK ==
    /\ asking.step # "answered" => /\ seenByUser.about \subseteq EverDone
                                   /\ seenByUser.frames \subseteq EverConsumed
    /\ asking.step = "answered" => /\ seenByUser.about \subseteq EverDone \cup asking.about
                                   /\ seenByUser.frames \subseteq EverConsumed \cup asking.frames
                                   /\ asking.frames \subseteq seenByUser.frames
    /\ chat.on => /\ asking.step \notin {"asked", "answered"}
                  /\ \A s \in chat.about : ~ClaimedByUser(s)
    /\ screenCursor.consumed \subseteq seenByUser.frames

----------------------------------------------------------------------------
(* Sequences.                                                              *)

LEMMA AppendFacts ==
    ASSUME NEW T, NEW s \in Seq(T), NEW e \in T
    PROVE  /\ Append(s, e) \in Seq(T)
           /\ DOMAIN Append(s, e) = DOMAIN s \cup {Len(s) + 1}
           /\ Len(s) + 1 \notin DOMAIN s
           /\ \A i \in DOMAIN s : Append(s, e)[i] = s[i]
           /\ Append(s, e)[Len(s) + 1] = e
           /\ Append(s, e) # << >>
           /\ Len(Append(s, e)) = Len(s) + 1
OBVIOUS

LEMMA LastIsThere ==
    ASSUME NEW T, NEW s \in Seq(T), s # << >>
    PROVE  Len(s) \in DOMAIN s
OBVIOUS

LEMMA SeqGrows ==
    ASSUME NEW T, NEW U, T \subseteq U, NEW s \in Seq(T)
    PROVE  s \in Seq(U)
OBVIOUS

----------------------------------------------------------------------------
(* Types.  They grow with the captures and the observations.               *)

LEMMA TypesGrow ==
    ASSUME NEW F, NEW G, F \subseteq G, NEW S, NEW R, S \subseteq R
    PROVE  /\ LookType(F) \subseteq LookType(G)
           /\ SightingType(F) \subseteq SightingType(G)
           /\ CursorType(F, S) \subseteq CursorType(G, R)
           /\ AskingType(F, S) \subseteq AskingType(G, R)
           /\ ChatType(S) \subseteq ChatType(R)
           /\ SeenType(F, S) \subseteq SeenType(G, R)
BY DEF LookType, SightingType, CursorType, AskingType, ChatType, SeenType

(* A list holds nothing that was not in it and did not enter it.           *)
LEMMA KeptEntered ==
    ASSUME NEW old, NEW new, NEW kept \in KeepsLast(old, new)
    PROVE  kept \subseteq old \cup new
BY DEF KeepsLast

LEMMA NothingTyped ==
    /\ \A F : NoLook \in LookType(F) /\ NoLook.step = "none"
    /\ \A S : NoChat \in ChatType(S)
    /\ NoCamera \in CameraType /\ NoCamera.step = "idle"
BY DEF NoLook, LookType, NoChat, ChatType, NoCamera, CameraType

LEMMA ScopeTyped ==
    ASSUME NEW w \in ScopeType
    PROVE  /\ w.gen + 1 \in Nat /\ w.cut + 1 \in Nat /\ w.config + 1 \in Nat
           /\ w.disk \in Nat /\ w.config \in Nat /\ w.gen \in Nat /\ w.cut \in Nat
BY DEF ScopeType

LEMMA ScopeMoves ==
    ASSUME NEW w \in ScopeType, NEW c \in {"none", "advanced", "saved", "cut"}, NEW n \in Nat, NEW d \in Nat
    PROVE  /\ [w EXCEPT !.change = c] \in ScopeType
           /\ [w EXCEPT !.gen = n, !.change = c] \in ScopeType
           /\ [w EXCEPT !.cut = n, !.change = c] \in ScopeType
           /\ [w EXCEPT !.disk = n, !.change = c] \in ScopeType
           /\ [w EXCEPT !.config = d, !.gen = n, !.change = c] \in ScopeType
BY DEF ScopeType

LEMMA SightingTurnTyped ==
    ASSUME ScreenTypeOK, NEW S, S \subseteq Sighted, NEW tried, NEW mailbox \in BOOLEAN, TurnAbout(S, tried, mailbox)
    PROVE  chat' \in ChatType(Sighted) /\ screenCursor' \in CursorType(Shots, Sighted)
<1>1. Speakable(S) \subseteq Sighted
  BY DEF Speakable, CurrentSightings
<1>2. chat' \in ChatType(Sighted)
  BY <1>1 DEF TurnAbout, ChatType
<1>3. screenCursor' \in CursorType(Shots, Sighted)
  <2> DEFINE claimed == {s \in CurrentSightings(S) : ClaimedByUser(s)}
  <2>1. claimed \subseteq Sighted
    BY DEF CurrentSightings
  <2>2. /\ screenCursor \in CursorType(Shots, Sighted)
        /\ screenCursor' = [screenCursor EXCEPT !.contexts = @ \ FramesOf(tried \cup CurrentSightings(S)),
                                                !.queued = @ \cup Speakable(S),
                                                !.finished = @ \cup claimed]
    BY DEF TurnAbout, ScreenTypeOK
  <2> HIDE DEF claimed
  <2> QED
    BY <1>1, <2>1, <2>2 DEF CursorType
<1> QED
  BY <1>2, <1>3

LEMMA ReadScopeTyped ==
    ASSUME ScreenTypeOK, ReadScope PROVE ScreenTypeOK'
<1>1. Shots' = Shots /\ Sighted' = Sighted
  BY DEF ReadScope, cameraVars, journalVars, Shots, Sighted
<1>2. camera' \in CameraType /\ camera'.step = "read"
  BY DEF ReadScope, ScreenTypeOK, CameraType, ScopeType
<1> QED
  BY <1>1, <1>2, NothingTyped, ScreenAssumption DEF ScreenTypeOK, ReadScope, cameraVars, journalVars, talkVars

LEMMA RegisterShotTyped ==
    ASSUME ScreenTypeOK, RegisterShot PROVE ScreenTypeOK'
<1>1. Shots' = Shots /\ Sighted' = Sighted
  BY DEF RegisterShot, cameraVars, journalVars, Shots, Sighted
<1>2. Len(shots) \in Shots
  BY LastIsThere DEF RegisterShot, ScreenTypeOK, Shots
<1>3. screenCursor' \in CursorType(Shots, Sighted)
  BY <1>2 DEF RegisterShot, ScreenTypeOK, CursorType
<1> QED
  BY <1>1, <1>2, <1>3, NothingTyped, ScreenAssumption DEF ScreenTypeOK, RegisterShot, cameraVars, journalVars, talkVars

LEMMA DropShotTyped ==
    ASSUME ScreenTypeOK, DropShot PROVE ScreenTypeOK'
<1>1. Shots' = Shots /\ Sighted' = Sighted
  BY DEF DropShot, cameraVars, journalVars, Shots, Sighted
<1> QED
  BY <1>1, NothingTyped, ScreenAssumption DEF ScreenTypeOK, DropShot, cameraVars, journalVars, talkVars

LEMMA FlushBufferTyped ==
    ASSUME ScreenTypeOK, FlushBuffer PROVE ScreenTypeOK'
<1>1. Shots' = Shots /\ Sighted' = Sighted
  BY DEF FlushBuffer, cameraVars, journalVars, Shots, Sighted
<1>2. look' \in LookType(Shots) /\ look'.step \in {"none", "ready"}
  BY DEF FlushBuffer, ScreenTypeOK, LookType, NoLook
<1> QED
  BY <1>1, <1>2, NothingTyped, ScreenAssumption DEF ScreenTypeOK, FlushBuffer, cameraVars, journalVars, talkVars

LEMMA SendBatchTyped ==
    ASSUME ScreenTypeOK, SendBatch PROVE ScreenTypeOK'
<1>1. Shots' = Shots /\ Sighted' = Sighted
  BY DEF SendBatch, cameraVars, journalVars, Shots, Sighted
<1>2. look' \in LookType(Shots) /\ look'.step \in {"none", "queued"}
  BY DEF SendBatch, ScreenTypeOK, LookType, NoLook
<1> QED
  BY <1>1, <1>2, NothingTyped, ScreenAssumption DEF ScreenTypeOK, SendBatch, cameraVars, journalVars, talkVars

LEMMA StartLookTyped ==
    ASSUME ScreenTypeOK, StartLook PROVE ScreenTypeOK'
<1>1. Shots' = Shots /\ Sighted' = Sighted
  BY DEF StartLook, cameraVars, journalVars, Shots, Sighted
<1>2. look' = NoLook \/ look' = [look EXCEPT !.step = "call"]
  BY DEF StartLook, ScreenTypeOK
<1>3. look' \in LookType(Shots) /\ look'.step \in {"none", "call"}
  BY <1>2, NothingTyped DEF StartLook, ScreenTypeOK, LookType
<1>4. Undelivered \subseteq Sighted
  BY DEF StartLook, ScreenTypeOK, Undelivered
<1>5. screenOutbox' \subseteq Sighted /\ unsent' \subseteq Sighted
  BY <1>4 DEF StartLook, ScreenTypeOK, HandOver
<1>6. screenCursor' \in CursorType(Shots, Sighted)
  BY DEF StartLook, ScreenTypeOK, CursorType
<1>7. recovered' \in BOOLEAN
  BY DEF StartLook, ScreenTypeOK
<1> QED
  BY <1>1, <1>2, <1>3, <1>4, <1>5, <1>6, <1>7, NothingTyped, ScreenAssumption DEF ScreenTypeOK, StartLook, cameraVars, journalVars, talkVars

LEMMA DropObservationTyped ==
    ASSUME ScreenTypeOK, DropObservation PROVE ScreenTypeOK'
<1>1. Shots' = Shots /\ Sighted' = Sighted
  BY DEF DropObservation, cameraVars, journalVars, Shots, Sighted
<1> QED
  BY <1>1, NothingTyped, ScreenAssumption DEF ScreenTypeOK, DropObservation, cameraVars, journalVars, talkVars

LEMMA DecideClaimTyped ==
    ASSUME ScreenTypeOK, DecideClaim PROVE ScreenTypeOK'
<1>1. Shots' = Shots /\ Sighted' = Sighted
  BY DEF DecideClaim, cameraVars, journalVars, Shots, Sighted
<1>2. Len(sightings) \in Sighted
  BY LastIsThere DEF DecideClaim, ScreenTypeOK, Sighted
<1>3. look' \in LookType(Shots)
  BY DEF DecideClaim, ScreenTypeOK, LookType
<1>4. screenCursor' \in CursorType(Shots, Sighted)
  BY DEF DecideClaim, ScreenTypeOK, CursorType
<1>5. unsent' \subseteq Sighted
  BY <1>2 DEF DecideClaim, ScreenTypeOK
<1> QED
  BY <1>1, <1>2, <1>3, <1>4, <1>5, NothingTyped, ScreenAssumption DEF ScreenTypeOK, DecideClaim, cameraVars, journalVars, talkVars

LEMMA EnqueueSightingTyped ==
    ASSUME ScreenTypeOK, EnqueueSighting PROVE ScreenTypeOK'
<1>1. Shots' = Shots /\ Sighted' = Sighted
  BY DEF EnqueueSighting, cameraVars, journalVars, Shots, Sighted
<1>2. Len(sightings) \in Sighted
  BY LastIsThere DEF EnqueueSighting, ScreenTypeOK, Sighted
<1>3. look' \in LookType(Shots)
  BY DEF EnqueueSighting, ScreenTypeOK, LookType
<1>4. unsent' \subseteq Sighted /\ screenOutbox' \subseteq Sighted
  BY <1>2 DEF EnqueueSighting, ScreenTypeOK
<1> QED
  BY <1>1, <1>2, <1>3, <1>4, NothingTyped, ScreenAssumption DEF ScreenTypeOK, EnqueueSighting, cameraVars, journalVars, talkVars

LEMMA FinishLookTyped ==
    ASSUME ScreenTypeOK, FinishLook PROVE ScreenTypeOK'
<1>1. Shots' = Shots /\ Sighted' = Sighted
  BY DEF FinishLook, cameraVars, journalVars, Shots, Sighted
<1>2. Len(sightings) \in Sighted
  BY LastIsThere DEF FinishLook, ScreenTypeOK, Sighted
<1>3. screenCursor' \in CursorType(Shots, Sighted)
  BY <1>2 DEF FinishLook, ScreenTypeOK, CursorType
<1>4. backlog' \subseteq Sighted
  BY <1>2 DEF FinishLook, ScreenTypeOK
<1> QED
  BY <1>1, <1>2, <1>3, <1>4, NothingTyped, ScreenAssumption DEF ScreenTypeOK, FinishLook, cameraVars, journalVars, talkVars

LEMMA MessagePreparesTyped ==
    ASSUME ScreenTypeOK, MessagePrepares PROVE ScreenTypeOK'
<1>1. Shots' = Shots /\ Sighted' = Sighted
  BY DEF MessagePrepares, cameraVars, journalVars, Shots, Sighted
<1>2. asking' \in AskingType(Shots, Sighted)
  BY DEF MessagePrepares, ScreenTypeOK, AskingType, CursorType
<1> QED
  BY <1>1, <1>2, NothingTyped, ScreenAssumption DEF ScreenTypeOK, MessagePrepares, cameraVars, journalVars, talkVars

LEMMA MessageArrivesTyped ==
    ASSUME ScreenTypeOK, MessageArrives PROVE ScreenTypeOK'
<1>1. Shots' = Shots /\ Sighted' = Sighted
  BY DEF MessageArrives, cameraVars, journalVars, Shots, Sighted
<1>2. asking' \in AskingType(Shots, Sighted)
  BY DEF MessageArrives, ScreenTypeOK, AskingType
<1>3. watchScope' \in ScopeType
  BY DEF MessageArrives, ScreenTypeOK, ScopeType
<1>4. look' \in LookType(Shots) /\ look'.step = look.step
  BY DEF MessageArrives, ScreenTypeOK, LookType
<1>5. chat' \in ChatType(Sighted)
  BY DEF MessageArrives, ScreenTypeOK, ChatType
<1> QED
  BY <1>1, <1>2, <1>3, <1>4, <1>5, NothingTyped, ScreenAssumption DEF ScreenTypeOK, MessageArrives, cameraVars, journalVars, talkVars

LEMMA StartAskingTyped ==
    ASSUME ScreenTypeOK, StartAsking PROVE ScreenTypeOK'
<1>1. Shots' = Shots /\ Sighted' = Sighted
  BY DEF StartAsking, cameraVars, journalVars, Shots, Sighted
<1>2. screenCursor' \in CursorType(Shots, Sighted)
  BY DEF StartAsking, ScreenTypeOK, CursorType
<1>3. PICK recent \in {{}, Sighted} :
         asking' = [asking EXCEPT !.step = "asked",
                       !.about = CurrentSightings(asking.about \cup recent \cup screenCursor'.queued),
                       !.frames = CurrentFrames(asking.frames \cup screenCursor.contexts)]
  BY DEF StartAsking
<1>4. CurrentSightings(asking.about \cup recent \cup screenCursor'.queued) \subseteq Sighted
  BY <1>2 DEF ScreenTypeOK, AskingType, CursorType, CurrentSightings
<1>5. CurrentFrames(asking.frames \cup screenCursor.contexts) \subseteq Shots
  BY DEF ScreenTypeOK, AskingType, CursorType, CurrentFrames
<1>6. asking' \in AskingType(Shots, Sighted)
  BY <1>3, <1>4, <1>5 DEF ScreenTypeOK, AskingType
<1> QED
  BY <1>1, <1>2, <1>6 DEF ScreenTypeOK, StartAsking, cameraVars, journalVars

LEMMA AnswerAskedTyped ==
    ASSUME ScreenTypeOK, AnswerAsked PROVE ScreenTypeOK'
<1>1. Shots' = Shots /\ Sighted' = Sighted
  BY DEF AnswerAsked, cameraVars, journalVars, Shots, Sighted
<1>2. asking' \in AskingType(Shots, Sighted)
  BY DEF AnswerAsked, ScreenTypeOK, AskingType
<1>3. seenByUser' \in SeenType(Shots, Sighted)
  BY DEF AnswerAsked, ScreenTypeOK, SeenType, AskingType
<1> QED
  BY <1>1, <1>2, <1>3, NothingTyped, ScreenAssumption DEF ScreenTypeOK, AnswerAsked, cameraVars, journalVars, talkVars

LEMMA ClaimContextTyped ==
    ASSUME ScreenTypeOK, ClaimContext PROVE ScreenTypeOK'
<1>1. Shots' = Shots /\ Sighted' = Sighted
  BY DEF ClaimContext, cameraVars, journalVars, Shots, Sighted
<1>2. screenCursor' \in CursorType(Shots, Sighted)
  <2>1. /\ screenCursor \in CursorType(Shots, Sighted)
        /\ asking.about \subseteq Sighted /\ asking.frames \subseteq Shots
    BY DEF ScreenTypeOK, AskingType
  <2> DEFINE consumed == screenCursor.consumed \cup asking.frames
             claimed == asking.about
                        \cup {s \in screenCursor.queued : sightings[s].frames \subseteq consumed}
  <2>2. PICK done \in KeepsLast(screenCursor.done, claimed),
             frames \in KeepsLast(screenCursor.consumed, asking.frames) :
           screenCursor' = [contexts |-> screenCursor.contexts \ asking.frames,
                            consumed |-> frames,
                            done |-> done,
                            queued |-> screenCursor.queued \ claimed,
                            finished |-> screenCursor.finished \cup (screenCursor.queued \cap claimed),
                            gone |-> (screenCursor.gone \cup screenCursor.done \cup claimed) \ done,
                            goneFrames |-> (screenCursor.goneFrames \cup consumed) \ frames]
    BY DEF ClaimContext
  <2>3. claimed \subseteq Sighted /\ consumed \subseteq Shots
    BY <2>1 DEF CursorType
  <2>4. done \subseteq Sighted /\ frames \subseteq Shots
    <3>1. done \subseteq screenCursor.done \cup claimed /\ frames \subseteq consumed
      BY KeptEntered
    <3> QED
      BY <2>1, <2>3, <3>1 DEF CursorType
  <2> HIDE DEF claimed, consumed
  <2> QED
    BY <2>1, <2>2, <2>3, <2>4 DEF CursorType
<1>3. asking' \in AskingType(Shots, Sighted)
  BY DEF ClaimContext, ScreenTypeOK, AskingType
<1>4. backlog' \subseteq Sighted
  BY DEF ClaimContext, ScreenTypeOK
<1> QED
  BY <1>1, <1>2, <1>3, <1>4, NothingTyped, ScreenAssumption DEF ScreenTypeOK, ClaimContext, cameraVars, journalVars, talkVars

LEMMA AskFailsTyped ==
    ASSUME ScreenTypeOK, AskFails PROVE ScreenTypeOK'
<1>1. Shots' = Shots /\ Sighted' = Sighted
  BY DEF AskFails, cameraVars, journalVars, Shots, Sighted
<1>2. asking' \in AskingType(Shots, Sighted)
  BY DEF AskFails, ScreenTypeOK, AskingType
<1> QED
  BY <1>1, <1>2, NothingTyped, ScreenAssumption DEF ScreenTypeOK, AskFails, cameraVars, journalVars, talkVars

LEMMA StartChatTyped ==
    ASSUME ScreenTypeOK, StartChat PROVE ScreenTypeOK'
<1>1. Shots' = Shots /\ Sighted' = Sighted
  BY DEF StartChat, cameraVars, journalVars, Shots, Sighted
<1>2. screenCursor.queued \cup backlog \subseteq Sighted
  BY DEF StartChat, ScreenTypeOK, CursorType
<1>3. chat' \in ChatType(Sighted) /\ screenCursor' \in CursorType(Shots, Sighted)
  BY <1>2, SightingTurnTyped DEF StartChat, ScreenTypeOK
<1> QED
  BY <1>1, <1>2, <1>3, NothingTyped, ScreenAssumption DEF ScreenTypeOK, StartChat, cameraVars, journalVars, talkVars

LEMMA ReadScreenMailboxTyped ==
    ASSUME ScreenTypeOK, ReadScreenMailbox PROVE ScreenTypeOK'
<1>1. Shots' = Shots /\ Sighted' = Sighted
  BY DEF ReadScreenMailbox, cameraVars, Shots, Sighted
<1>2. screenOutbox' \subseteq Sighted /\ unsent' \subseteq Sighted
  BY DEF ReadScreenMailbox, HandOver, ScreenTypeOK
<1>3. screenCursor.queued \subseteq Sighted
  BY DEF ScreenTypeOK, CursorType
<1>4. PICK tried :
         \/ TurnAbout({}, tried, TRUE)
         \/ \E s \in screenOutbox' \ screenCursor.finished, queued \in SUBSET screenCursor.queued :
               TurnAbout(queued \cup {s}, tried, TRUE)
  BY DEF ReadScreenMailbox
<1>5. PICK S \in SUBSET Sighted : TurnAbout(S, tried, TRUE)
  <2>1. CASE TurnAbout({}, tried, TRUE)
    BY <2>1
  <2>2. ASSUME NEW s \in screenOutbox' \ screenCursor.finished, NEW queued \in SUBSET screenCursor.queued,
               TurnAbout(queued \cup {s}, tried, TRUE)
        PROVE  \E S \in SUBSET Sighted : TurnAbout(S, tried, TRUE)
    <3>1. queued \cup {s} \in SUBSET Sighted
      BY <1>2, <1>3
    <3> QED
      BY <2>2, <3>1
  <2> QED
    BY <1>4, <2>1, <2>2
<1>6. chat' \in ChatType(Sighted) /\ screenCursor' \in CursorType(Shots, Sighted)
  BY <1>5, SightingTurnTyped
<1>7. backlog' \subseteq Sighted
  BY DEF ReadScreenMailbox, ScreenTypeOK
<1> QED
  BY <1>1, <1>2, <1>6, <1>7 DEF ScreenTypeOK, ReadScreenMailbox, cameraVars

LEMMA EndChatTyped ==
    ASSUME ScreenTypeOK, EndChat PROVE ScreenTypeOK'
<1>1. Shots' = Shots /\ Sighted' = Sighted
  BY DEF EndChat, cameraVars, journalVars, Shots, Sighted
<1>2. chat.about \subseteq Sighted
  BY DEF EndChat, ScreenTypeOK, ChatType
<1>3. screenCursor' \in CursorType(Shots, Sighted)
  <2>1. screenCursor \in CursorType(Shots, Sighted)
    BY DEF ScreenTypeOK
  <2>2. ASSUME NEW done \in KeepsLast(screenCursor.done, chat.about),
               screenCursor' = [screenCursor EXCEPT !.done = done, !.queued = @ \ chat.about,
                                                    !.finished = @ \cup chat.about,
                                                    !.gone = (@ \cup screenCursor.done \cup chat.about) \ done]
        PROVE  screenCursor' \in CursorType(Shots, Sighted)
    <3>1. done \subseteq screenCursor.done \cup chat.about
      BY KeptEntered
    <3>2. done \subseteq Sighted
      BY <1>2, <2>1, <3>1 DEF CursorType
    <3> QED
      BY <1>2, <2>1, <2>2, <3>2 DEF CursorType
  <2> QED
    BY <2>1, <2>2 DEF EndChat
<1>4. backlog' \subseteq Sighted /\ saidOfScreen' \subseteq Sighted
  BY <1>2 DEF EndChat, ScreenTypeOK
<1> QED
  BY <1>1, <1>2, <1>3, <1>4, NothingTyped, ScreenAssumption DEF ScreenTypeOK, EndChat, cameraVars, journalVars, talkVars

LEMMA InvalidateScopeTyped ==
    ASSUME ScreenTypeOK, InvalidateScope PROVE ScreenTypeOK'
<1>1. Shots' = Shots /\ Sighted' = Sighted
  BY DEF InvalidateScope, cameraVars, journalVars, Shots, Sighted
<1>2. watchScope \in ScopeType
  BY DEF InvalidateScope, ScreenTypeOK
<1>3. watchScope' \in ScopeType
  BY <1>2, ScopeTyped, ScopeMoves DEF InvalidateScope, ScreenTypeOK
<1>4. look' \in LookType(Shots) /\ look'.step = look.step
  BY DEF InvalidateScope, ScreenTypeOK, LookType
<1>5. chat' \in ChatType(Sighted)
  BY DEF InvalidateScope, ScreenTypeOK, ChatType
<1> QED
  BY <1>1, <1>2, <1>3, <1>4, <1>5, NothingTyped, ScreenAssumption DEF ScreenTypeOK, InvalidateScope, cameraVars, journalVars, talkVars

LEMMA SaveConfigTyped ==
    ASSUME ScreenTypeOK, SaveConfig PROVE ScreenTypeOK'
<1>1. Shots' = Shots /\ Sighted' = Sighted
  BY DEF SaveConfig, cameraVars, journalVars, Shots, Sighted
<1>2. watchScope \in ScopeType
  BY DEF SaveConfig, ScreenTypeOK
<1>3. watchScope' \in ScopeType
  BY <1>2, ScopeTyped, ScopeMoves DEF SaveConfig, ScreenTypeOK
<1> QED
  BY <1>1, <1>2, <1>3, NothingTyped, ScreenAssumption DEF ScreenTypeOK, SaveConfig, cameraVars, journalVars, talkVars

LEMMA CutContextTyped ==
    ASSUME ScreenTypeOK, CutContext PROVE ScreenTypeOK'
<1>1. Shots' = Shots /\ Sighted' = Sighted
  BY DEF CutContext, cameraVars, journalVars, Shots, Sighted
<1>2. watchScope \in ScopeType
  BY DEF CutContext, ScreenTypeOK
<1>3. watchScope' \in ScopeType
  BY <1>2, ScopeTyped, ScopeMoves DEF CutContext, ScreenTypeOK
<1>4. screenCursor' \in CursorType(Shots, Sighted)
  BY DEF CutContext, ScreenTypeOK, CursorType
<1>5. asking' \in AskingType(Shots, Sighted)
  BY DEF CutContext, ScreenTypeOK, AskingType
<1> QED
  BY <1>1, <1>2, <1>3, <1>4, <1>5, NothingTyped, ScreenAssumption DEF ScreenTypeOK, CutContext, cameraVars, journalVars, talkVars

LEMMA PublishScopeTyped ==
    ASSUME ScreenTypeOK, PublishScope PROVE ScreenTypeOK'
<1>1. Shots' = Shots /\ Sighted' = Sighted
  BY DEF PublishScope, cameraVars, journalVars, Shots, Sighted
<1>2. watchScope \in ScopeType
  BY DEF PublishScope, ScreenTypeOK
<1>3. watchScope' \in ScopeType
  BY <1>2, ScopeTyped, ScopeMoves DEF PublishScope, ScreenTypeOK
<1> QED
  BY <1>1, <1>2, <1>3, NothingTyped, ScreenAssumption DEF ScreenTypeOK, PublishScope, cameraVars, journalVars, talkVars

LEMMA RestartWatchTyped ==
    ASSUME ScreenTypeOK, RestartWatch PROVE ScreenTypeOK'
<1>1. Shots' = Shots /\ Sighted' = Sighted
  BY DEF RestartWatch, Shots, Sighted
<1>2. watchScope \in ScopeType
  BY DEF ScreenTypeOK
<1>3. watchScope' \in ScopeType
  BY <1>2, ScopeTyped, ScopeMoves DEF RestartWatch
<1>4. asking' \in AskingType(Shots, Sighted)
  BY DEF RestartWatch, ScreenTypeOK, AskingType
<1>5. /\ camera' \in CameraType /\ camera'.step = "idle"
      /\ look' \in LookType(Shots) /\ look'.step = "none"
      /\ chat' \in ChatType(Sighted)
  BY NothingTyped DEF RestartWatch
<1>6. screenEvents' \in 0 .. MaxScreenEvents
  BY ScreenAssumption DEF RestartWatch, ScreenTypeOK
<1>7. screenCursor' \in CursorType(Shots, Sighted)
  BY DEF RestartWatch, ScreenTypeOK, CursorType
<1> QED
  BY <1>1, <1>3, <1>4, <1>5, <1>6, <1>7 DEF ScreenTypeOK, RestartWatch

LEMMA TakeShotTyped ==
    ASSUME ScreenTypeOK, TakeShot PROVE ScreenTypeOK'
<1> DEFINE shot == [config |-> camera.config, gen |-> camera.gen, seq |-> watchScope.seq, cut |-> watchScope.cut]
<1>1. shot \in ShotType
  BY DEF ScreenTypeOK, CameraType, ScopeType, ShotType
<1>2. /\ shots' \in Seq(ShotType) /\ shots' # << >>
      /\ Shots \subseteq Shots' /\ Sighted' = Sighted
  BY <1>1, AppendFacts DEF TakeShot, ScreenTypeOK, Shots, Sighted, journalVars
<1>3. camera' \in CameraType
  BY DEF TakeShot, ScreenTypeOK, CameraType
<1>4. /\ look' \in LookType(Shots') /\ look' = look
      /\ screenCursor' \in CursorType(Shots', Sighted)
      /\ asking' \in AskingType(Shots', Sighted) /\ chat' \in ChatType(Sighted)
      /\ seenByUser' \in SeenType(Shots', Sighted)
  BY <1>2, TypesGrow DEF TakeShot, ScreenTypeOK, talkVars
<1>5. sightings' \in Seq(SightingType(Shots')) /\ sightings' = sightings
  BY <1>2, TypesGrow, SeqGrows DEF TakeShot, ScreenTypeOK, journalVars
<1> QED
  BY <1>2, <1>3, <1>4, <1>5 DEF ScreenTypeOK, TakeShot, journalVars, talkVars

LEMMA PersistSightingTyped ==
    ASSUME ScreenTypeOK, PersistSighting PROVE ScreenTypeOK'
<1>1. PICK held \in BOOLEAN :
         /\ sightings' = Append(sightings, [frames |-> look.frames, cut |-> watchScope.cut, held |-> held])
         /\ look' = [look EXCEPT !.step = IF held THEN "finish" ELSE "decide"]
  BY DEF PersistSighting
<1> DEFINE sighting == [frames |-> look.frames, cut |-> watchScope.cut, held |-> held]
<1>2. sighting \in SightingType(Shots)
  BY DEF ScreenTypeOK, LookType, ScopeType, SightingType
<1>3. /\ sightings' \in Seq(SightingType(Shots)) /\ sightings' # << >>
      /\ Sighted \subseteq Sighted' /\ Shots' = Shots
  BY <1>1, <1>2, AppendFacts DEF PersistSighting, ScreenTypeOK, Shots, Sighted, cameraVars
<1>4. look' \in LookType(Shots)
  BY <1>1 DEF ScreenTypeOK, LookType
<1>5. /\ screenCursor' \in CursorType(Shots, Sighted')
      /\ asking' \in AskingType(Shots, Sighted') /\ chat' \in ChatType(Sighted')
      /\ seenByUser' \in SeenType(Shots, Sighted')
  BY <1>3, TypesGrow DEF PersistSighting, ScreenTypeOK, talkVars
<1> QED
  BY <1>3, <1>4, <1>5 DEF ScreenTypeOK, PersistSighting, cameraVars, talkVars

LEMMA TypeStep ==
    ASSUME ScreenTypeOK, [ScreenNext]_screenVars PROVE ScreenTypeOK'
<1>1. CASE UNCHANGED screenVars
  BY <1>1 DEF ScreenTypeOK, screenVars, Shots, Sighted
<1>2. CASE ScreenNext
  BY <1>2, ReadScopeTyped, TakeShotTyped, RegisterShotTyped, DropShotTyped, FlushBufferTyped, SendBatchTyped, StartLookTyped, PersistSightingTyped, DropObservationTyped, DecideClaimTyped, EnqueueSightingTyped, FinishLookTyped, MessagePreparesTyped, MessageArrivesTyped, StartAskingTyped, AnswerAskedTyped, ClaimContextTyped, AskFailsTyped, StartChatTyped, ReadScreenMailboxTyped, EndChatTyped, InvalidateScopeTyped, SaveConfigTyped, CutContextTyped, PublishScopeTyped, RestartWatchTyped DEF ScreenNext
<1> QED
  BY <1>1, <1>2

LEMMA TypeInit == ScreenInit => ScreenTypeOK
<1> SUFFICES ASSUME ScreenInit PROVE ScreenTypeOK
  OBVIOUS
<1>1. watchScope \in ScopeType
  BY DEF ScreenInit, ScopeType
<1>2. screenCursor \in CursorType(Shots, Sighted) /\ asking \in AskingType(Shots, Sighted)
      /\ seenByUser \in SeenType(Shots, Sighted)
  BY DEF ScreenInit, CursorType, AskingType, SeenType
<1>3. shots \in Seq(ShotType) /\ sightings \in Seq(SightingType(Shots))
  BY DEF ScreenInit
<1>4. camera \in CameraType /\ camera.step = "idle" /\ look \in LookType(Shots) /\ look.step = "none"
      /\ chat \in ChatType(Sighted)
  BY NothingTyped DEF ScreenInit
<1>5. screenEvents \in 0 .. MaxScreenEvents
  BY ScreenAssumption DEF ScreenInit
<1> QED
  BY <1>1, <1>2, <1>3, <1>4, <1>5 DEF ScreenInit, ScreenTypeOK

----------------------------------------------------------------------------
(* The scope: a change of the allowlist leaves no capture of its generation. *)

LEMMA ScopeStep ==
    ASSUME ScreenTypeOK, ScopeOK, [ScreenNext]_screenVars PROVE ScopeOK'
<1>1. /\ \A n \in Shots : shots[n] \in ShotType
      /\ watchScope \in ScopeType /\ camera \in CameraType
  BY DEF ScreenTypeOK, Shots
<1>2. ASSUME shots' = shots, camera' = camera \/ camera'.step = "idle",
             watchScope'.gen = watchScope.gen, watchScope'.config = watchScope.config
      PROVE  ScopeOK'
  BY <1>2 DEF ScopeOK, Shots
<1>3. ASSUME shots' = shots, camera' = camera \/ camera'.step = "idle",
             watchScope'.gen = watchScope.gen + 1
      PROVE  ScopeOK'
  BY <1>1, <1>3 DEF ScopeOK, Shots, ShotType, ScopeType, CameraType
<1>4. CASE UNCHANGED <<shots, camera, watchScope>>
  BY <1>2, <1>4
<1>5. CASE ReadScope
  BY <1>1, <1>5 DEF ReadScope, ScopeOK, Shots, ScopeType
<1>6. CASE TakeShot
  <2> DEFINE shot == [config |-> camera.config, gen |-> camera.gen, seq |-> watchScope.seq,
                      cut |-> watchScope.cut]
  <2>1. shot \in ShotType /\ shots \in Seq(ShotType) /\ shots' = Append(shots, shot)
    BY <1>1, <1>6 DEF TakeShot, ShotType, ScopeType, CameraType, ScreenTypeOK
  <2>2. /\ Shots' = Shots \cup {Len(shots) + 1}
        /\ \A n \in Shots : shots'[n] = shots[n]
        /\ shots'[Len(shots) + 1] = shot
    BY <2>1, AppendFacts DEF Shots
  <2>3. /\ watchScope' = watchScope
        /\ camera'.gen = camera.gen /\ camera'.config = camera.config /\ camera.step = "read"
    BY <1>1, <1>6 DEF TakeShot, CameraType
  <2> QED
    BY <2>2, <2>3 DEF ScopeOK
<1>7. CASE RegisterShot \/ DropShot
  BY <1>2, <1>7, NothingTyped DEF RegisterShot, DropShot
<1>8. CASE MessageArrives \/ SaveConfig \/ CutContext
  BY <1>1, <1>2, <1>8 DEF MessageArrives, SaveConfig, CutContext, cameraVars, ScopeType
<1>9. CASE InvalidateScope \/ PublishScope \/ RestartWatch
  BY <1>1, <1>3, <1>9, NothingTyped DEF InvalidateScope, PublishScope, RestartWatch, cameraVars, ScopeType
<1> QED
  BY <1>4, <1>5, <1>6, <1>7, <1>8, <1>9
     DEF ScreenNext, screenVars, cameraVars, FlushBuffer, SendBatch, StartLook, PersistSighting,
         DropObservation, DecideClaim, EnqueueSighting, FinishLook, MessagePrepares, StartAsking,
         AnswerAsked, ClaimContext, AskFails, StartChat, ReadScreenMailbox, EndChat

----------------------------------------------------------------------------
(* What the user saw.                                                      *)

LEMMA TurnAboutUnclaimed ==
    ASSUME ScreenTypeOK, SeenOK, CompanionIsHome,
           NEW S, NEW tried, NEW mailbox, TurnAbout(S, tried, mailbox),
           UNCHANGED <<seenByUser, asking, sightings>>
    PROVE  SeenOK'
<1>1. /\ screenCursor'.done = screenCursor.done /\ screenCursor'.consumed = screenCursor.consumed
      /\ screenCursor'.gone = screenCursor.gone /\ screenCursor'.goneFrames = screenCursor.goneFrames
  BY DEF TurnAbout, ScreenTypeOK, CursorType
<1>2. chat'.about = Speakable(S)
  BY DEF TurnAbout
<1>3. \A s \in chat'.about : ~ClaimedByUser(s)
  BY <1>2 DEF Speakable
<1> QED
  BY <1>1, <1>3 DEF SeenOK, EverDone, EverConsumed, ClaimedByUser, CompanionIsHome

(* What an answer had is known to the cursor from then on, or has been.    *)
LEMMA ClaimRemembers ==
    ASSUME ClaimContext
    PROVE  /\ EverDone \cup asking.about \subseteq EverDone'
           /\ EverConsumed \cup asking.frames \subseteq EverConsumed'
           /\ screenCursor'.consumed \subseteq screenCursor.consumed \cup asking.frames
<1> DEFINE consumed == screenCursor.consumed \cup asking.frames
           claimed == asking.about
                      \cup {s \in screenCursor.queued : sightings[s].frames \subseteq consumed}
<1>1. PICK done \in KeepsLast(screenCursor.done, claimed),
           frames \in KeepsLast(screenCursor.consumed, asking.frames) :
         /\ screenCursor'.consumed = frames /\ screenCursor'.done = done
         /\ screenCursor'.gone = (screenCursor.gone \cup screenCursor.done \cup claimed) \ done
         /\ screenCursor'.goneFrames = (screenCursor.goneFrames \cup consumed) \ frames
  <2>1. PICK done \in KeepsLast(screenCursor.done, claimed),
             frames \in KeepsLast(screenCursor.consumed, asking.frames) :
           screenCursor' = [contexts |-> screenCursor.contexts \ asking.frames,
                            consumed |-> frames,
                            done |-> done,
                            queued |-> screenCursor.queued \ claimed,
                            finished |-> screenCursor.finished \cup (screenCursor.queued \cap claimed),
                            gone |-> (screenCursor.gone \cup screenCursor.done \cup claimed) \ done,
                            goneFrames |-> (screenCursor.goneFrames \cup consumed) \ frames]
    BY DEF ClaimContext
  <2> HIDE DEF claimed, consumed
  <2> QED
    BY <2>1
<1>2. frames \subseteq consumed
  BY KeptEntered
<1>3. EverDone \cup asking.about \subseteq EverDone' /\ EverConsumed \cup asking.frames \subseteq EverConsumed'
  BY <1>1 DEF EverDone, EverConsumed
<1> QED
  BY <1>1, <1>2, <1>3

(* A turn of the companion that ends takes nothing from what the cursor    *)
(* names or has named.                                                     *)
LEMMA EndRemembers ==
    ASSUME ScreenTypeOK, EndChat
    PROVE  /\ EverDone \subseteq EverDone' /\ EverConsumed \subseteq EverConsumed'
           /\ screenCursor'.consumed = screenCursor.consumed
<1>1. screenCursor \in CursorType(Shots, Sighted)
  BY DEF ScreenTypeOK
<1>2. CASE UNCHANGED screenCursor
  BY <1>2 DEF EverDone, EverConsumed
<1>3. ASSUME NEW done \in KeepsLast(screenCursor.done, chat.about),
             screenCursor' = [screenCursor EXCEPT !.done = done, !.queued = @ \ chat.about,
                                                  !.finished = @ \cup chat.about,
                                                  !.gone = (@ \cup screenCursor.done \cup chat.about) \ done]
      PROVE  /\ EverDone \subseteq EverDone' /\ EverConsumed \subseteq EverConsumed'
             /\ screenCursor'.consumed = screenCursor.consumed
  BY <1>1, <1>3 DEF CursorType, EverDone, EverConsumed
<1> QED
  BY <1>2, <1>3 DEF EndChat

LEMMA SeenStep ==
    ASSUME ScreenTypeOK, SeenOK, [ScreenNext]_screenVars PROVE SeenOK'
<1>1. screenCursor \in CursorType(Shots, Sighted) /\ asking \in AskingType(Shots, Sighted)
      /\ chat \in ChatType(Sighted) /\ seenByUser \in SeenType(Shots, Sighted)
  BY DEF ScreenTypeOK
<1>2. ASSUME seenByUser' = seenByUser, sightings' = sightings,
             asking' = asking \/ (/\ asking.step \notin {"asked", "answered"}
                                  /\ asking'.step \notin {"asked", "answered"}),
             chat' = NoChat \/ (chat'.on = chat.on /\ chat'.about = chat.about),
             screenCursor'.done = screenCursor.done, screenCursor'.consumed = screenCursor.consumed,
             screenCursor'.gone = screenCursor.gone, screenCursor'.goneFrames = screenCursor.goneFrames
      PROVE  SeenOK'
  BY <1>2 DEF SeenOK, EverDone, EverConsumed, ClaimedByUser, NoChat
<1>3. CASE UNCHANGED <<seenByUser, asking, chat, sightings, screenCursor>>
  BY <1>2, <1>3
<1>4. CASE \/ RegisterShot \/ StartLook \/ DecideClaim \/ FinishLook
           \/ MessagePrepares \/ MessageArrives \/ InvalidateScope \/ CutContext \/ RestartWatch
  <2>1. CASE RegisterShot
    BY <1>1, <1>2, <2>1 DEF RegisterShot, talkVars, journalVars, CursorType, AskingType, CompanionIsHome
  <2>2. CASE StartLook
    BY <1>1, <1>2, <2>2 DEF StartLook, talkVars, journalVars, CursorType, AskingType, CompanionIsHome
  <2>3. CASE DecideClaim
    BY <1>1, <1>2, <2>3 DEF DecideClaim, talkVars, journalVars, CursorType, AskingType, CompanionIsHome
  <2>4. CASE FinishLook
    BY <1>1, <1>2, <2>4 DEF FinishLook, talkVars, journalVars, CursorType, AskingType, CompanionIsHome
  <2>5. CASE MessagePrepares
    BY <1>1, <1>2, <2>5 DEF MessagePrepares, talkVars, journalVars, CursorType, AskingType, CompanionIsHome
  <2>6. CASE MessageArrives
    BY <1>1, <1>2, <2>6 DEF MessageArrives, talkVars, journalVars, CursorType, AskingType, CompanionIsHome
  <2>7. CASE InvalidateScope
    BY <1>1, <1>2, <2>7 DEF InvalidateScope, talkVars, journalVars, CursorType, AskingType, CompanionIsHome
  <2>8. CASE CutContext
    BY <1>1, <1>2, <2>8 DEF CutContext, talkVars, journalVars, CursorType, AskingType, CompanionIsHome
  <2>9. CASE RestartWatch
    <3>1. /\ UNCHANGED <<seenByUser, sightings>> /\ chat' = NoChat
          /\ EverDone' = EverDone /\ EverConsumed' = EverConsumed
          /\ screenCursor'.consumed = screenCursor.consumed
          /\ asking'.about = asking.about /\ asking'.frames = asking.frames
          /\ asking'.step = IF asking.step \in {"prepared", "asked"} THEN "accepted" ELSE asking.step
      BY <1>1, <2>9 DEF RestartWatch, AskingType, CursorType, EverDone, EverConsumed
    <3> QED
      BY <3>1 DEF SeenOK, NoChat
  <2> QED
    BY <1>4, <2>1, <2>2, <2>3, <2>4, <2>5, <2>6, <2>7, <2>8, <2>9
<1>5. CASE PersistSighting
  <2>1. PICK held \in BOOLEAN :
           sightings' = Append(sightings, [frames |-> look.frames, cut |-> watchScope.cut, held |-> held])
    BY <1>5 DEF PersistSighting
  <2>2. /\ [frames |-> look.frames, cut |-> watchScope.cut, held |-> held] \in SightingType(Shots)
        /\ sightings \in Seq(SightingType(Shots))
    BY DEF ScreenTypeOK, LookType, ScopeType, SightingType
  <2>3. \A s \in Sighted : sightings'[s] = sightings[s]
    BY <2>1, <2>2, AppendFacts DEF Sighted
  <2>4. chat.about \subseteq Sighted
    BY <1>1 DEF ChatType
  <2>5. UNCHANGED <<asking, chat, seenByUser, screenCursor>>
    BY <1>5 DEF PersistSighting, talkVars
  <2> QED
    BY <2>3, <2>4, <2>5 DEF SeenOK, EverDone, EverConsumed, ClaimedByUser
<1>6. CASE StartAsking
  BY <1>1, <1>6
     DEF StartAsking, SeenOK, EverDone, EverConsumed, CompanionIsHome, CursorType, AskingType, journalVars
<1>7. CASE AskFails
  BY <1>1, <1>7 DEF AskFails, SeenOK, EverDone, EverConsumed, ClaimedByUser, AskingType, journalVars
<1>8. CASE AnswerAsked
  BY <1>1, <1>8 DEF AnswerAsked, SeenOK, EverDone, EverConsumed, ClaimedByUser, AskingType, SeenType, journalVars
<1>9. CASE ClaimContext
  <2>1. asking.step = "answered" /\ asking'.step = "none" /\ UNCHANGED <<chat, seenByUser, sightings>>
    BY <1>1, <1>9 DEF ClaimContext, AskingType, journalVars
  <2>2. screenCursor'.consumed \subseteq seenByUser.frames
    BY <1>9, <2>1, ClaimRemembers DEF SeenOK
  <2>3. ~chat.on
    BY <2>1 DEF SeenOK
  <2> QED
    BY <1>9, <2>1, <2>2, <2>3, ClaimRemembers DEF SeenOK
<1>10. CASE StartChat \/ ReadScreenMailbox
  BY <1>10, TurnAboutUnclaimed DEF StartChat, ReadScreenMailbox, journalVars
<1>11. CASE EndChat
  <2>1. UNCHANGED <<asking, seenByUser>> /\ ~chat'.on
    BY <1>11 DEF EndChat, NoChat
  <2> QED
    BY <1>11, <2>1, EndRemembers DEF SeenOK
<1> QED
  BY <1>3, <1>4, <1>5, <1>6, <1>7, <1>8, <1>9, <1>10, <1>11
     DEF ScreenNext, screenVars, talkVars, journalVars, ReadScope, TakeShot, DropShot, FlushBuffer,
         SendBatch, DropObservation, EnqueueSighting, SaveConfig, PublishScope

----------------------------------------------------------------------------
(* An observation in the journal is on its way to the companion.           *)

(* An observation that was tried is in the outbox now, or the companion or *)
(* the user is done with it.                                               *)
LEMMA TriedIsDelivered ==
    ASSUME SeenOK, NEW tried, NEW s \in tried, s \in Sighted, HandOver(tried)
    PROVE  \/ s \in screenOutbox'
           \/ s \in EverDone
           \/ sightings[s].frames \subseteq seenByUser.frames
BY DEF EverDone, HandOver, ClaimedByUser, SeenOK

LEMMA DeliveryStep ==
    ASSUME ScreenTypeOK, SeenOK, SightingIsDelivered, [ScreenNext]_screenVars
    PROVE  SightingIsDelivered'
<1>1. screenCursor \in CursorType(Shots, Sighted) /\ look \in LookType(Shots)
      /\ sightings \in Seq(SightingType(Shots)) /\ seenByUser \in SeenType(Shots, Sighted)
  BY DEF ScreenTypeOK
<1>2. ASSUME sightings' = sightings, screenOutbox \cup unsent \subseteq screenOutbox' \cup unsent',
             recovered' = recovered, look'.step = look.step \/ look.step \notin {"decide", "enqueue"},
             EverDone \subseteq EverDone', seenByUser.frames \subseteq seenByUser'.frames
      PROVE  SightingIsDelivered'
  BY <1>2 DEF SightingIsDelivered, Sighted, EverDone
<1>3. CASE UNCHANGED <<sightings, screenOutbox, unsent, recovered, look, screenCursor, seenByUser>>
  BY <1>2, <1>3 DEF EverDone
<1>4. CASE FlushBuffer \/ SendBatch \/ DropObservation
  BY <1>2, <1>4 DEF FlushBuffer, SendBatch, DropObservation, journalVars, talkVars, EverDone
<1>5. CASE FinishLook
  BY <1>1, <1>2, <1>5 DEF FinishLook, journalVars, talkVars, CursorType, EverDone
<1>6. CASE MessageArrives \/ InvalidateScope
  BY <1>1, <1>2, <1>6 DEF MessageArrives, InvalidateScope, journalVars, LookType, EverDone
<1>7. CASE RegisterShot \/ StartAsking
  BY <1>1, <1>2, <1>7 DEF RegisterShot, StartAsking, journalVars, talkVars, CursorType, EverDone
<1>8. CASE AnswerAsked \/ ClaimContext
  <2>1. CASE AnswerAsked
    BY <1>1, <1>2, <2>1 DEF AnswerAsked, journalVars, SeenType, EverDone
  <2>2. CASE ClaimContext
    <3>1. UNCHANGED <<sightings, screenOutbox, unsent, recovered, look, seenByUser>>
      BY <2>2 DEF ClaimContext, journalVars
    <3> QED
      BY <1>2, <2>2, <3>1, ClaimRemembers
  <2> QED
    BY <1>8, <2>1, <2>2
<1>9. CASE EndChat
  <2>1. UNCHANGED <<sightings, screenOutbox, unsent, recovered, look, seenByUser>>
    BY <1>9 DEF EndChat, journalVars
  <2> QED
    BY <1>2, <1>9, <2>1, EndRemembers
<1>10. CASE StartChat
  BY <1>1, <1>2, <1>10 DEF StartChat, TurnAbout, journalVars, CursorType, EverDone
<1>11. CASE CutContext \/ RestartWatch
  BY <1>11 DEF CutContext, RestartWatch, SightingIsDelivered, Sighted
<1>12. CASE StartLook
  <2>1. /\ sightings' = sightings /\ seenByUser' = seenByUser /\ EverDone' = EverDone
        /\ look.step = "queued"
    BY <1>1, <1>12 DEF StartLook, talkVars, CursorType, EverDone
  <2>2. CASE UNCHANGED <<screenOutbox, unsent, recovered>>
    BY <2>1, <2>2 DEF SightingIsDelivered, Sighted, EverDone
  <2>3. ASSUME NEW tried, HandOver(tried), recovered' = (recovered \/ Undelivered \ unsent \subseteq tried)
        PROVE  SightingIsDelivered'
    BY <2>1, <2>3, TriedIsDelivered DEF SightingIsDelivered, Sighted, Undelivered, HandOver, EverDone
  <2> QED
    BY <1>12, <2>2, <2>3 DEF StartLook
<1>13. CASE ReadScreenMailbox
  <2>1. /\ sightings' = sightings /\ seenByUser' = seenByUser /\ EverDone' = EverDone
        /\ look' = look /\ recovered' = recovered
    BY <1>1, <1>13 DEF ReadScreenMailbox, TurnAbout, CursorType, EverDone
  <2>2. PICK tried : HandOver(tried)
    BY <1>13 DEF ReadScreenMailbox
  <2> QED
    BY <2>1, <2>2, TriedIsDelivered DEF SightingIsDelivered, Sighted, HandOver, EverDone
<1>14. CASE PersistSighting
  <2>1. PICK held \in BOOLEAN :
           /\ sightings' = Append(sightings, [frames |-> look.frames, cut |-> watchScope.cut, held |-> held])
           /\ look' = [look EXCEPT !.step = IF held THEN "finish" ELSE "decide"]
    BY <1>14 DEF PersistSighting
  <2> DEFINE sighting == [frames |-> look.frames, cut |-> watchScope.cut, held |-> held]
  <2>2. sighting \in SightingType(Shots)
    BY DEF ScreenTypeOK, LookType, ScopeType, SightingType
  <2>3. /\ Sighted' = Sighted \cup {Len(sightings) + 1} /\ Len(sightings') = Len(sightings) + 1
        /\ \A s \in Sighted : sightings'[s] = sightings[s]
        /\ sightings'[Len(sightings) + 1] = sighting
    BY <1>1, <2>1, <2>2, AppendFacts DEF Sighted
  <2>4. UNCHANGED <<screenOutbox, unsent, recovered, screenCursor, seenByUser>> /\ look.step = "call"
    BY <1>14 DEF PersistSighting, talkVars
  <2>5. sighting.held \/ look'.step = "decide"
    BY <1>1, <2>1 DEF LookType
  <2> QED
    BY <2>3, <2>4, <2>5 DEF SightingIsDelivered
<1>15. CASE DecideClaim
  BY <1>1, <1>15 DEF DecideClaim, SightingIsDelivered, SeenOK, ClaimedByUser, Sighted, LookType, CursorType, talkVars
<1>16. CASE EnqueueSighting
  BY <1>1, <1>16 DEF EnqueueSighting, SightingIsDelivered, Sighted, LookType, talkVars
<1> QED
  BY <1>3, <1>4, <1>5, <1>6, <1>7, <1>8, <1>9, <1>10, <1>11, <1>12, <1>13, <1>14, <1>15, <1>16
     DEF ScreenNext, screenVars, talkVars, journalVars, ReadScope, TakeShot, DropShot,
         MessagePrepares, AskFails, SaveConfig, PublishScope

----------------------------------------------------------------------------
(* The inductive invariant.                                                *)

ScreenInv == ScreenTypeOK /\ ScopeOK /\ SeenOK /\ SightingIsDelivered

LEMMA ScreenInvInit == ScreenInit => ScreenInv
<1>1. ScreenInit => ScopeOK
  BY DEF ScreenInit, ScopeOK, Shots, NoCamera
<1>2. ScreenInit => SeenOK
  BY DEF ScreenInit, SeenOK, NoChat
<1>3. ScreenInit => SightingIsDelivered
  BY DEF ScreenInit, SightingIsDelivered, Sighted
<1> QED
  BY <1>1, <1>2, <1>3, TypeInit DEF ScreenInv

LEMMA ScreenInvStep == ScreenInv /\ [ScreenNext]_screenVars => ScreenInv'
BY TypeStep, ScopeStep, SeenStep, DeliveryStep DEF ScreenInv

(* Whatever is captured, observed, asked and changed, the state of the      *)
(* screen keeps its form: an observation names captures that were taken,   *)
(* and the cursor names observations that were stored.                     *)
THEOREM ScreenTypeCorrect == ScreenSpec => []ScreenTypeOK
<1>1. ScreenInv => ScreenTypeOK
  BY DEF ScreenInv
<1> QED
  BY <1>1, ScreenInvInit, ScreenInvStep, PTL DEF ScreenSpec

(* No observation stored by the observer is lost to the companion, however *)
(* its delivery fails and whenever the agent is replaced or restarted.     *)
THEOREM SightingDelivered == ScreenSpec => []SightingIsDelivered
<1>1. ScreenInv => SightingIsDelivered
  BY DEF ScreenInv
<1> QED
  BY <1>1, ScreenInvInit, ScreenInvStep, PTL DEF ScreenSpec

(* What was captured under one allowlist is not stored under another.      *)
THEOREM OldScopeStaysOut == ScreenSpec => OldScopeNotStored
<1> DEFINE Stored == \A s \in DOMAIN sightings' \ DOMAIN sightings :
                        \A n \in sightings'[s].frames : shots[n].config = watchScope.config
<1>1. ASSUME ScreenInv, [ScreenNext]_screenVars PROVE [Stored]_screenVars
  <2>1. CASE sightings' = sightings
    BY <2>1
  <2>2. CASE PersistSighting
    <3>1. PICK held \in BOOLEAN :
             sightings' = Append(sightings, [frames |-> look.frames, cut |-> watchScope.cut, held |-> held])
      BY <2>2 DEF PersistSighting
    <3> DEFINE sighting == [frames |-> look.frames, cut |-> watchScope.cut, held |-> held]
    <3>2. sighting \in SightingType(Shots) /\ sightings \in Seq(SightingType(Shots))
      BY <1>1 DEF ScreenInv, ScreenTypeOK, LookType, ScopeType, SightingType
    <3>3. \A s \in DOMAIN sightings' \ DOMAIN sightings : sightings'[s].frames = look.frames
      BY <3>1, <3>2, AppendFacts
    <3>4. look.frames \subseteq Shots /\ \A n \in look.frames : shots[n].gen = watchScope.gen
      BY <1>1, <2>2 DEF PersistSighting, ScreenInv, ScreenTypeOK, LookType
    <3> QED
      BY <1>1, <3>3, <3>4 DEF ScreenInv, ScopeOK
  <2> QED
    BY <1>1, <2>1, <2>2
       DEF ScreenNext, screenVars, talkVars, journalVars, ReadScope, TakeShot, RegisterShot, DropShot,
           FlushBuffer, SendBatch, StartLook, DropObservation, DecideClaim, EnqueueSighting, FinishLook,
           MessagePrepares, MessageArrives, StartAsking, AnswerAsked, ClaimContext, AskFails, StartChat,
           ReadScreenMailbox, EndChat, InvalidateScope, SaveConfig, CutContext, PublishScope, RestartWatch
<1> QED
  BY <1>1, ScreenInvInit, ScreenInvStep, PTL DEF ScreenSpec, OldScopeNotStored

(* The companion does not speak on its own of what a user was answered with *)
(* as long as the cursor remembers it, in whatever order its turn, the     *)
(* message and its commit come, whatever number of ids the cursor keeps.   *)
THEOREM SeenStaysUnspoken == ScreenSpec => SeenIsNotSpoken
<1> DEFINE Unspoken == \A s \in saidOfScreen' \ saidOfScreen :
                          /\ s \in seenByUser.about => s \in screenCursor.gone
                          /\ sightings[s].frames \subseteq seenByUser.frames
                             => sightings[s].frames \cap screenCursor.goneFrames # {}
<1>1. ASSUME ScreenInv, [ScreenNext]_screenVars PROVE [Unspoken]_screenVars
  <2>1. CASE saidOfScreen' = saidOfScreen
    BY <2>1
  <2>2. CASE EndChat
    <3>1. saidOfScreen' \subseteq saidOfScreen \cup chat.about /\ chat.on
      BY <2>2 DEF EndChat
    <3>2. /\ seenByUser.about \subseteq EverDone
          /\ seenByUser.frames \subseteq EverConsumed
          /\ \A s \in chat.about : ~ClaimedByUser(s)
      BY <1>1, <3>1 DEF ScreenInv, SeenOK
    <3> QED
      BY <3>1, <3>2 DEF ClaimedByUser, EverDone, EverConsumed
  <2> QED
    BY <1>1, <2>1, <2>2
       DEF ScreenNext, screenVars, talkVars, ReadScope, TakeShot, RegisterShot, DropShot,
           FlushBuffer, SendBatch, StartLook, PersistSighting, DropObservation, DecideClaim,
           EnqueueSighting, FinishLook, MessagePrepares, MessageArrives, StartAsking, AnswerAsked,
           ClaimContext, AskFails, StartChat, ReadScreenMailbox, InvalidateScope, SaveConfig, CutContext,
           PublishScope, RestartWatch
<1> QED
  BY <1>1, ScreenInvInit, ScreenInvStep, PTL DEF ScreenSpec, SeenIsNotSpoken

----------------------------------------------------------------------------
(* HearingSession.                                                         *)

InitSteps == {"none", "permission", "start", "attach", "cut", "failing", "ended"}
RunSteps == {"none", "run", "drain", "check", "failing", "ended"}
PanelPhases == {"off", "starting", "listening", "stopping", "error"}
Stops == {"helper", "init", "saving", "finish"}      \* the steps of stop_session
StopReasons == {"start", "inactive", "deactivate"} \cup Interruptions
SessionType == [init : InitSteps, run : RunSteps, helper : {"none", "running", "exited"}, cancelled : BOOLEAN,
                settings : Settings, retry : BOOLEAN, queue : Nat]

HearingTypes ==
    /\ wanted \in [enabled : BOOLEAN, active : BOOLEAN, settings : Settings]
    /\ lifecycle \in [phase : {"idle", "starting", "listening", "stopping"}, gen : 0 .. MaxSessions]
    /\ helperExit \in [of : 0 .. MaxSessions, task : {"none", "helper", "init"}, waiting : BOOLEAN]
    /\ session \in [Sessions -> SessionType]
    /\ holder \in [pc : {"free", "next"} \cup Stops, gen : 0 .. MaxSessions,
                   next : {"none"} \cup StopReasons, late : SUBSET {"helper", "init"}]
    /\ asked \subseteq {"sync", "deactivate"} \cup Interruptions
    /\ restarts \in [attempts : 0 .. RestartLimit, timers : SUBSET Settings]
    /\ panel \in [phase : PanelPhases, gen : 0 .. MaxSessions]
    /\ wiped \in 0 .. MaxSessions
    /\ overdue \subseteq Sessions
    /\ hearingBounds \in [requests : Nat, faults : Nat, finals : 0 .. MaxFinals]
    /\ \A g \in Sessions : session[g].queue <= hearingBounds.finals

(* The tasks of a session: the session task begins when the initialisation *)
(* is over, and one that looks whether it failed has seen its helper end.  *)
TasksOK(s) ==
    /\ s.run # "none" => s.init = "ended"
    /\ s.init \in {"none", "permission", "start", "failing"} => s.helper = "none"
    /\ s.helper = "running" /\ s.run = "none" => s.init \in {"attach", "cut"}
    /\ s.run \in {"check", "failing"} => s.helper = "exited"
    /\ s.run = "drain" /\ ~s.cancelled => s.helper = "exited"
    /\ s.queue > 0 => s.run \in {"run", "drain"}

(* A session that has a helper or may still start one is the last, and     *)
(* what remembers it is the phase or the exit that is waited for.          *)
Alive(s) == s.helper = "running" \/ s.init \in {"permission", "start", "attach", "cut"}

AliveOK ==
    \A g \in Sessions : Alive(session[g]) => /\ g = lifecycle.gen
                                             /\ lifecycle.phase = "idle" => helperExit.of = g

PhaseOK ==
    /\ lifecycle.phase # "idle" => lifecycle.gen \in Sessions /\ helperExit.of = 0 /\ wiped < lifecycle.gen
    /\ lifecycle.phase = "starting" => /\ session[lifecycle.gen].init \in {"permission", "start", "attach"}
                                       /\ ~session[lifecycle.gen].cancelled
    /\ lifecycle.phase = "listening" => /\ session[lifecycle.gen].run \in {"run", "drain", "check"}
                                        /\ ~session[lifecycle.gen].cancelled
    /\ lifecycle.phase = "stopping" => holder.pc \in Stops
    /\ wiped <= lifecycle.gen

ExitOK ==
    helperExit.of # 0 => /\ lifecycle.gen = helperExit.of
                         /\ helperExit.task \in {"helper", "init"}
                         /\ helperExit.task = "init" => session[helperExit.of].run = "none"
                         /\ helperExit.task = "helper" => session[helperExit.of].init = "ended"

(* What the holder of the lock waits for, and what it knows when it ends.  *)
HolderOK ==
    /\ holder.pc \in Stops => /\ holder.gen \in Sessions /\ lifecycle.gen = holder.gen
                              /\ lifecycle.phase \in {"stopping", "idle"}
                              /\ helperExit.of = 0
    /\ holder.pc = "next" => lifecycle.phase = "idle"
    /\ holder.pc # "free" => holder.next # "none"
    /\ holder.gen \in Sessions => session[holder.gen].cancelled
    /\ holder.pc \in {"helper", "saving"} => session[holder.gen].run # "none"
    /\ holder.pc = "init" => session[holder.gen].run = "none"
    /\ holder.pc = "saving" => \/ holder.late = {} /\ ~Alive(session[holder.gen])
                               \/ holder.late = {"helper"}
    /\ holder.pc = "finish" => \/ holder.late = {} /\ ~Alive(session[holder.gen])
                               \/ holder.late = {"helper"} /\ session[holder.gen].init = "ended"
                               \/ holder.late = {"init"} /\ session[holder.gen].run = "none"

(* What is still to be saved is of the session that goes on or is being    *)
(* stopped, or the stop of its session gave up waiting for it.             *)
QueueOK ==
    \A g \in Sessions :
        session[g].queue > 0 => \/ g \in overdue
                                \/ /\ g = lifecycle.gen /\ lifecycle.phase \in {"listening", "stopping"}
                                   /\ holder.pc # "finish"

(* The view of the last session: an error of it is final, a stop takes the *)
(* claim back, and a claim that is over has somebody who will.             *)
ClaimsHearing == panel.phase \in {"starting", "listening", "stopping"}
Handled == \/ "sync" \in asked \/ holder.pc \in Stops
           \/ holder.pc = "next" /\ holder.next # "deactivate"
PanelOK ==
    /\ panel.gen = lifecycle.gen
    /\ panel.phase = "error" /\ panel.gen \in Sessions
          => /\ session[panel.gen].run # "run"
             /\ session[panel.gen].init \notin {"permission", "start", "attach"}
    /\ holder.pc \in Stops => panel.phase \in {"stopping", "off", "error"}
    /\ helperExit.of # 0 => panel.phase \in {"off", "error"}
ClaimOK ==
    /\ ~wanted.enabled /\ lifecycle.phase \in {"starting", "listening"} => "sync" \in asked
    /\ ~wanted.enabled /\ holder.pc # "free" /\ holder.next = "start" => "sync" \in asked
    /\ ClaimsHearing /\ lifecycle.phase = "idle"
          => \/ Handled
             \/ /\ wanted.enabled /\ lifecycle.gen \in Sessions
                /\ session[lifecycle.gen].init = "failing" \/ session[lifecycle.gen].run = "failing"

TaskInv ==
    /\ HearingTypes /\ \A g \in Sessions : TasksOK(session[g])
    /\ AliveOK /\ PhaseOK /\ ExitOK /\ HolderOK /\ QueueOK /\ DeletedStaysDeleted

HearingInv == TaskInv /\ PanelOK /\ ClaimOK

----------------------------------------------------------------------------
LEMMA NewSessionTyped == NewSession \in SessionType
<1>1. (CHOOSE s \in Settings : TRUE) \in Settings
  BY HearingAssumption
<1> QED
  BY <1>1 DEF NewSession, SessionType, InitSteps, RunSteps

(* A task of a session moves, and with it the phase if it ends the session: *)
(* no helper comes alive and nothing is taken back.                        *)
LEMMA TaskMoves ==
    ASSUME TaskInv, NEW g \in Sessions, NEW t \in SessionType, session' = [session EXCEPT ![g] = t],
           \/ lifecycle' = lifecycle
           \/ /\ lifecycle' = [lifecycle EXCEPT !.phase = "idle"] /\ lifecycle.phase # "idle"
              /\ g = lifecycle.gen /\ ~Alive(t) /\ t.run \notin {"run", "drain"},
           asked' = asked, panel' \in [phase : PanelPhases, gen : 0 .. MaxSessions],
           UNCHANGED <<wanted, helperExit, holder, wiped, overdue>>,
           restarts' \in [attempts : 0 .. RestartLimit, timers : SUBSET Settings],
           hearingBounds' \in [requests : Nat, faults : Nat, finals : 0 .. MaxFinals],
           hearingBounds'.finals >= hearingBounds.finals, t.queue <= hearingBounds'.finals,
           TasksOK(t), Alive(t) => Alive(session[g]),
           session[g].cancelled => t.cancelled,
           t.cancelled => session[g].cancelled \/ g # lifecycle.gen \/ lifecycle'.phase \in {"idle", "stopping"},
           lifecycle'.phase = "starting" /\ g = lifecycle.gen => t.init \in {"permission", "start", "attach"},
           lifecycle'.phase = "listening" /\ g = lifecycle.gen => t.run \in {"run", "drain", "check"},
           session[g].run = "none" <=> t.run = "none",
           session[g].init = "ended" => t.init = "ended",
           t.queue > 0 => session[g].queue > 0 \/ (g = lifecycle.gen /\ lifecycle.phase = "listening")
    PROVE  TaskInv'
<1>1. session'[g] = t /\ \A h \in Sessions : h # g => session'[h] = session[h]
  BY DEF TaskInv, HearingTypes
<1>2. /\ lifecycle' \in [phase : {"idle", "starting", "listening", "stopping"}, gen : 0 .. MaxSessions]
      /\ lifecycle'.gen = lifecycle.gen
      /\ lifecycle'.phase = lifecycle.phase \/ lifecycle'.phase = "idle"
      /\ lifecycle'.phase # lifecycle.phase
            => g = lifecycle.gen /\ ~Alive(t) /\ t.run \notin {"run", "drain"}
  BY DEF TaskInv, HearingTypes
<1>3. HearingTypes'
  <2>1. session' \in [Sessions -> SessionType]
    BY DEF TaskInv, HearingTypes
  <2>2. \A h \in Sessions : session'[h].queue <= hearingBounds'.finals
    <3>1. \A h \in Sessions : session[h].queue \in Nat /\ session[h].queue <= hearingBounds.finals
      BY DEF TaskInv, HearingTypes, SessionType
    <3>2. hearingBounds.finals \in Nat /\ hearingBounds'.finals \in Nat
      BY HearingAssumption DEF TaskInv, HearingTypes
    <3> QED
      BY <1>1, <3>1, <3>2
  <2> QED
    BY <1>2, <2>1, <2>2 DEF TaskInv, HearingTypes
<1>4. (\A h \in Sessions : TasksOK(session[h]))'
  BY <1>1 DEF TaskInv, TasksOK
<1>5. AliveOK'
  <2>1. \A h \in Sessions : Alive(session'[h]) => Alive(session[h])
    BY <1>1
  <2>2. \A h \in Sessions : Alive(session'[h]) => h = lifecycle.gen /\ (lifecycle'.phase = "idle" => helperExit.of = h)
    BY <1>1, <1>2, <2>1 DEF TaskInv, AliveOK
  <2> QED
    BY <1>2, <2>2 DEF AliveOK, Alive
<1>6. PhaseOK'
  BY <1>1, <1>2 DEF TaskInv, PhaseOK
<1>7. ExitOK'
  BY <1>1, <1>2 DEF TaskInv, ExitOK
<1>8. HolderOK'
  <2>1. \A h \in Sessions : Alive(session'[h]) => Alive(session[h])
    BY <1>1
  <2>2. ASSUME NEW h \in Sessions
        PROVE  /\ session[h].cancelled => session'[h].cancelled
               /\ session[h].run = "none" <=> session'[h].run = "none"
               /\ session[h].init = "ended" => session'[h].init = "ended"
    <3>1. CASE h = g
      BY <1>1, <3>1
    <3>2. CASE h # g
      BY <1>1, <3>2
    <3> QED
      BY <3>1, <3>2
  <2> QED
    BY <1>2, <2>1, <2>2 DEF TaskInv, HolderOK, Alive, Stops
<1>9. QueueOK'
  <2> SUFFICES ASSUME NEW h \in Sessions, session'[h].queue > 0, h \notin overdue
               PROVE  /\ h = lifecycle.gen /\ lifecycle'.phase \in {"listening", "stopping"}
                      /\ holder.pc # "finish"
    BY <1>2 DEF QueueOK
  <2>1. session[h].queue > 0 \/ (h = g /\ g = lifecycle.gen /\ lifecycle.phase = "listening")
    BY <1>1
  <2>2. h = lifecycle.gen /\ lifecycle.phase \in {"listening", "stopping"} /\ holder.pc # "finish"
    BY <2>1 DEF TaskInv, QueueOK, HolderOK, Stops
  <2>3. lifecycle'.phase = lifecycle.phase
    BY <1>1, <1>2, <2>2 DEF TasksOK
  <2> QED
    BY <2>2, <2>3
<1>10. DeletedStaysDeleted'
  <2> SUFFICES ASSUME NEW h \in Sessions, h <= wiped, session'[h].queue > 0 PROVE h \in overdue
    BY DEF DeletedStaysDeleted
  <2>1. session[h].queue > 0 \/ (h = lifecycle.gen /\ lifecycle.phase = "listening")
    BY <1>1
  <2> QED
    BY <2>1 DEF TaskInv, DeletedStaysDeleted, PhaseOK, HearingTypes, Sessions
<1> QED
  BY <1>3, <1>4, <1>5, <1>6, <1>7, <1>8, <1>9, <1>10 DEF TaskInv

(* If what is still to be shown of a session that is over stays to be      *)
(* shown, the view is right as well.                                       *)
LEMMA TaskKeeps ==
    ASSUME HearingInv, NEW g \in Sessions, NEW t \in SessionType, session' = [session EXCEPT ![g] = t],
           \/ lifecycle' = lifecycle
           \/ /\ lifecycle' = [lifecycle EXCEPT !.phase = "idle"] /\ lifecycle.phase # "idle"
              /\ g = lifecycle.gen /\ ~Alive(t) /\ t.run \notin {"run", "drain"}
              /\ lifecycle.phase = "stopping" \/ t.init = "failing" \/ t.run = "failing",
           UNCHANGED <<wanted, helperExit, holder, asked, panel, wiped, overdue>>,
           restarts' \in [attempts : 0 .. RestartLimit, timers : SUBSET Settings],
           hearingBounds' \in [requests : Nat, faults : Nat, finals : 0 .. MaxFinals],
           hearingBounds'.finals >= hearingBounds.finals, t.queue <= hearingBounds'.finals,
           TasksOK(t), Alive(t) => Alive(session[g]),
           session[g].cancelled => t.cancelled,
           t.cancelled => session[g].cancelled \/ g # lifecycle.gen \/ lifecycle'.phase \in {"idle", "stopping"},
           lifecycle'.phase = "starting" /\ g = lifecycle.gen => t.init \in {"permission", "start", "attach"},
           lifecycle'.phase = "listening" /\ g = lifecycle.gen => t.run \in {"run", "drain", "check"},
           session[g].run = "none" <=> t.run = "none",
           session[g].init = "ended" => t.init = "ended",
           t.queue > 0 => session[g].queue > 0 \/ (g = lifecycle.gen /\ lifecycle.phase = "listening"),
           t.run = "run" => session[g].run = "run",
           t.init \in {"permission", "start", "attach"} => session[g].init \in {"permission", "start", "attach"},
           lifecycle.phase = "idle" /\ session[g].init = "failing" => t.init = "failing",
           lifecycle.phase = "idle" /\ session[g].run = "failing" => t.run = "failing"
    PROVE  HearingInv'
<1>1. session'[g] = t /\ \A h \in Sessions : h # g => session'[h] = session[h]
  BY DEF HearingInv, TaskInv, HearingTypes
<1>2. /\ lifecycle' \in [phase : {"idle", "starting", "listening", "stopping"}, gen : 0 .. MaxSessions]
      /\ lifecycle'.gen = lifecycle.gen
      /\ lifecycle'.phase = lifecycle.phase \/ lifecycle'.phase = "idle"
      /\ lifecycle'.phase # lifecycle.phase
            => /\ g = lifecycle.gen /\ ~Alive(t) /\ t.run \notin {"run", "drain"}
               /\ lifecycle.phase = "stopping" \/ t.init = "failing" \/ t.run = "failing"
  BY DEF HearingInv, TaskInv, HearingTypes
<1>3. TaskInv'
  <2>1. panel' \in [phase : PanelPhases, gen : 0 .. MaxSessions]
    BY DEF HearingInv, TaskInv, HearingTypes
  <2> QED
    BY <2>1, TaskMoves DEF HearingInv
<1>4. PanelOK'
  BY <1>1, <1>2 DEF HearingInv, PanelOK
<1>5. ClaimOK'
  <2>1. CASE lifecycle'.phase = lifecycle.phase
    BY <1>1, <1>2, <2>1 DEF HearingInv, ClaimOK, ClaimsHearing, Handled
  <2>2. CASE lifecycle'.phase # lifecycle.phase
    <3>1. lifecycle.phase \in {"starting", "listening"} \/ holder.pc \in Stops
      BY <1>2, <2>2 DEF HearingInv, TaskInv, HearingTypes, PhaseOK
    <3> QED
      BY <1>1, <1>2, <2>2, <3>1 DEF HearingInv, TaskInv, ClaimOK, ClaimsHearing, Handled, PhaseOK
  <2> QED
    BY <2>1, <2>2
<1> QED
  BY <1>3, <1>4, <1>5 DEF HearingInv

----------------------------------------------------------------------------
(* The initialisation of a session.                                        *)

LEMMA HearingBoundsMove ==
    ASSUME HearingTypes
    PROVE  /\ hearingBounds.finals \in Nat
           /\ HearingFault \/ UNCHANGED hearingBounds \/ HearingRequest
                => /\ hearingBounds' \in [requests : Nat, faults : Nat, finals : 0 .. MaxFinals]
                   /\ hearingBounds'.finals = hearingBounds.finals
BY HearingAssumption DEF HearingTypes, HearingFault, HearingRequest

LEMMA BoundsKept ==
    ASSUME HearingInv, UNCHANGED restarts, HearingFault \/ UNCHANGED hearingBounds
    PROVE  /\ restarts' \in [attempts : 0 .. RestartLimit, timers : SUBSET Settings]
           /\ hearingBounds' \in [requests : Nat, faults : Nat, finals : 0 .. MaxFinals]
           /\ hearingBounds'.finals >= hearingBounds.finals /\ hearingBounds'.finals = hearingBounds.finals
BY HearingBoundsMove DEF HearingInv, TaskInv, HearingTypes

(* What is known of a session in each state of its tasks.                  *)
LEMMA TaskFacts ==
    ASSUME HearingInv, NEW g \in Sessions
    PROVE  /\ session[g] \in SessionType /\ TasksOK(session[g])
           /\ session[g].queue <= hearingBounds.finals
           /\ g = lifecycle.gen /\ lifecycle.phase = "starting"
                => /\ session[g].init \in {"permission", "start", "attach"} /\ session[g].run = "none"
                   /\ ~session[g].cancelled
           /\ g = lifecycle.gen /\ lifecycle.phase = "listening"
                => /\ session[g].init = "ended" /\ session[g].run \in {"run", "drain", "check"}
                   /\ ~session[g].cancelled
           /\ lifecycle.phase \in {"idle", "starting", "listening", "stopping"}
           /\ Completed(g) = lifecycle
              \/ /\ Completed(g) = [lifecycle EXCEPT !.phase = "idle"] /\ lifecycle.phase = "stopping"
                 /\ g = lifecycle.gen
           /\ [lifecycle EXCEPT !.phase = "idle"].phase = "idle"
BY DEF HearingInv, TaskInv, HearingTypes, TasksOK, PhaseOK, Completed

(* The initialisation of a session ends without one, as the session was    *)
(* cancelled or its helper is gone.                                        *)
MayEnd(s) == \/ s.init \in {"permission", "start"} /\ s.cancelled
             \/ s.init = "cut" /\ s.helper = "exited"

LEMMA InitEndsKeeps ==
    ASSUME HearingInv, NEW g \in Sessions, NEW completed \in BOOLEAN, InitEnds(g, completed),
           MayEnd(session[g]),
           UNCHANGED <<wanted, helperExit, holder, asked, restarts, panel, wiped, overdue, hearingBounds>>
    PROVE  HearingInv'
<1> DEFINE s == session[g]
           t == [s EXCEPT !.init = "ended"]
<1>1. session' = [session EXCEPT ![g] = t] /\ lifecycle' = IF completed THEN Completed(g) ELSE lifecycle
  BY DEF InitEnds
<1>2. s \in SessionType /\ TasksOK(s) /\ s.queue <= hearingBounds.finals
  BY TaskFacts
<1>3. /\ t \in SessionType /\ t.init = "ended" /\ t.run = s.run /\ t.helper = s.helper
      /\ t.cancelled = s.cancelled /\ t.queue = s.queue
  BY <1>2 DEF SessionType, InitSteps
<1>4. (s.init \in {"permission", "start"} /\ s.cancelled) \/ (s.init = "cut" /\ s.helper = "exited")
  BY DEF MayEnd
<1>5. ~Alive(t) /\ t.run = "none" /\ TasksOK(t)
  BY <1>2, <1>3, <1>4 DEF Alive, TasksOK
<1> HIDE DEF t
<1>6. g = lifecycle.gen => lifecycle.phase \notin {"starting", "listening"}
  BY <1>4, TaskFacts
<1>7. /\ restarts' \in [attempts : 0 .. RestartLimit, timers : SUBSET Settings]
      /\ hearingBounds' \in [requests : Nat, faults : Nat, finals : 0 .. MaxFinals]
      /\ hearingBounds'.finals >= hearingBounds.finals
  BY HearingBoundsMove DEF HearingInv, TaskInv, HearingTypes
<1>8. lifecycle' = lifecycle
      \/ /\ lifecycle' = [lifecycle EXCEPT !.phase = "idle"] /\ lifecycle.phase = "stopping"
         /\ g = lifecycle.gen
  BY <1>1, TaskFacts
<1>9. lifecycle'.phase \in {"starting", "listening"} => g # lifecycle.gen
  BY <1>6, <1>8, TaskFacts
<1> QED
  BY <1>1, <1>2, <1>3, <1>4, <1>5, <1>6, <1>7, <1>8, <1>9, TaskKeeps

LEMMA PreparedKeeps ==
    ASSUME HearingInv, NEW g \in Sessions, Prepared(g) PROVE HearingInv'
<1>1. CASE session[g].cancelled
  <2>1. PICK completed \in BOOLEAN : InitEnds(g, completed)
    BY <1>1 DEF Prepared
  <2>2. /\ session[g].init = "permission"
        /\ UNCHANGED <<wanted, helperExit, holder, asked, restarts, panel, wiped, overdue, hearingBounds>>
    BY DEF Prepared
  <2>3. MayEnd(session[g])
    BY <1>1, <2>2 DEF MayEnd
  <2> QED
    BY <2>1, <2>2, <2>3, InitEndsKeeps
<1>2. CASE ~session[g].cancelled
  <2> DEFINE s == session[g]
             t == [s EXCEPT !.init = "start"]
  <2>1. session' = [session EXCEPT ![g] = t] /\ s.init = "permission"
        /\ UNCHANGED <<wanted, lifecycle, helperExit, holder, asked, restarts, panel, wiped, overdue, hearingBounds>>
    BY <1>2 DEF Prepared
  <2>2. s \in SessionType /\ TasksOK(s) /\ s.queue <= hearingBounds.finals
    BY TaskFacts
  <2>3. /\ t \in SessionType /\ t.init = "start" /\ t.run = s.run /\ t.helper = s.helper
        /\ t.cancelled = s.cancelled /\ t.queue = s.queue
    BY <2>2 DEF SessionType, InitSteps
  <2>4. Alive(s) /\ t.run = "none" /\ TasksOK(t)
    BY <2>1, <2>2, <2>3 DEF Alive, TasksOK
  <2> HIDE DEF t
  <2>5. g = lifecycle.gen => lifecycle.phase # "listening"
    BY <2>1, TaskFacts
  <2>6. /\ restarts' \in [attempts : 0 .. RestartLimit, timers : SUBSET Settings]
        /\ hearingBounds' \in [requests : Nat, faults : Nat, finals : 0 .. MaxFinals]
        /\ hearingBounds'.finals >= hearingBounds.finals /\ hearingBounds'.finals = hearingBounds.finals
    BY <2>1, BoundsKept
  <2> QED
    BY <2>1, <2>2, <2>3, <2>4, <2>5, <2>6, TaskKeeps
<1> QED
  BY <1>1, <1>2

LEMMA HelperStartsKeeps ==
    ASSUME HearingInv, NEW g \in Sessions, HelperStarts(g) PROVE HearingInv'
<1>1. /\ session[g].init = "start"
      /\ UNCHANGED <<wanted, helperExit, holder, asked, restarts, panel, wiped, overdue, hearingBounds>>
  BY DEF HelperStarts
<1>2. CASE session[g].cancelled /\ InitEnds(g, TRUE)
  <2>1. MayEnd(session[g])
    BY <1>1, <1>2 DEF MayEnd
  <2> QED
    BY <1>1, <1>2, <2>1, InitEndsKeeps
<1> DEFINE s == session[g]
           t == [s EXCEPT !.init = "attach", !.helper = "running"]
<1>3. CASE session' = [session EXCEPT ![g].init = "attach", ![g].helper = "running"] /\ UNCHANGED lifecycle
  <2>0. s \in SessionType /\ TasksOK(s) /\ s.queue <= hearingBounds.finals
    BY TaskFacts
  <2>1. session' = [session EXCEPT ![g] = t]
    BY <1>3 DEF HearingInv, TaskInv, HearingTypes
  <2>2. /\ t \in SessionType /\ t.init = "attach" /\ t.run = s.run /\ t.helper = "running"
        /\ t.cancelled = s.cancelled /\ t.queue = s.queue
    BY <2>0 DEF SessionType, InitSteps
  <2>3. Alive(s) /\ t.run = "none" /\ TasksOK(t)
    BY <1>1, <2>0, <2>2 DEF Alive, TasksOK
  <2> HIDE DEF t
  <2>4. g = lifecycle.gen => lifecycle.phase # "listening"
    BY <1>1, TaskFacts
  <2>5. /\ restarts' \in [attempts : 0 .. RestartLimit, timers : SUBSET Settings]
        /\ hearingBounds' \in [requests : Nat, faults : Nat, finals : 0 .. MaxFinals]
        /\ hearingBounds'.finals >= hearingBounds.finals /\ hearingBounds'.finals = hearingBounds.finals
    BY <1>1, BoundsKept
  <2> QED
    BY <1>1, <1>3, <2>0, <2>1, <2>2, <2>3, <2>4, <2>5, TaskKeeps
<1> QED
  BY <1>2, <1>3 DEF HelperStarts

(* A session whose initialisation was overtaken: its helper is told to end. *)
LEMMA AttachCutKeeps ==
    ASSUME HearingInv, NEW g \in Sessions, Attach(g), lifecycle # [phase |-> "starting", gen |-> g]
    PROVE  HearingInv'
<1> DEFINE s == session[g]
           t == [s EXCEPT !.init = "cut", !.cancelled = TRUE]
<1>1. /\ session' = [session EXCEPT ![g].init = "cut", ![g].cancelled = TRUE] /\ s.init = "attach"
      /\ UNCHANGED <<wanted, lifecycle, helperExit, holder, asked, restarts, panel, wiped, overdue, hearingBounds>>
  BY DEF Attach
<1>2. s \in SessionType /\ TasksOK(s) /\ s.queue <= hearingBounds.finals
  BY TaskFacts
<1>3. session' = [session EXCEPT ![g] = t]
  BY <1>1 DEF HearingInv, TaskInv, HearingTypes
<1>4. /\ t \in SessionType /\ t.init = "cut" /\ t.run = s.run /\ t.helper = s.helper
      /\ t.cancelled /\ t.queue = s.queue
  BY <1>2 DEF SessionType, InitSteps
<1>5. Alive(s) /\ t.run = "none" /\ TasksOK(t)
  BY <1>1, <1>2, <1>4 DEF Alive, TasksOK
<1>6. g = lifecycle.gen => lifecycle.phase # "starting"
  BY DEF HearingInv, TaskInv, HearingTypes
<1> HIDE DEF t
<1>7. g = lifecycle.gen => lifecycle.phase \notin {"starting", "listening"}
  BY <1>1, <1>6, TaskFacts
<1>8. g # lifecycle.gen \/ lifecycle'.phase \in {"idle", "stopping"}
  BY <1>1, <1>7, TaskFacts
<1>9. /\ restarts' \in [attempts : 0 .. RestartLimit, timers : SUBSET Settings]
      /\ hearingBounds' \in [requests : Nat, faults : Nat, finals : 0 .. MaxFinals]
      /\ hearingBounds'.finals >= hearingBounds.finals /\ hearingBounds'.finals = hearingBounds.finals
  BY <1>1, BoundsKept
<1> QED
  BY <1>1, <1>2, <1>3, <1>4, <1>5, <1>7, <1>8, <1>9, TaskKeeps

LEMMA CutEndsKeeps ==
    ASSUME HearingInv, NEW g \in Sessions, CutEnds(g) PROVE HearingInv'
<1>1. /\ MayEnd(session[g]) /\ InitEnds(g, TRUE)
      /\ UNCHANGED <<wanted, helperExit, holder, asked, restarts, panel, wiped, overdue, hearingBounds>>
  BY DEF CutEnds, MayEnd
<1> QED
  BY <1>1, InitEndsKeeps

LEMMA InitFailsKeeps ==
    ASSUME HearingInv, NEW g \in Sessions, InitFails(g) PROVE HearingInv'
<1> DEFINE s == session[g]
           i == IF s.cancelled THEN "ended" ELSE "failing"
           r == s.init = "start"
<1>1. /\ s.init \in {"permission", "start"}
      /\ UNCHANGED <<wanted, helperExit, holder, asked, restarts, panel, wiped, overdue>>
      /\ HearingFault \/ UNCHANGED hearingBounds
  BY DEF InitFails
<1>2. s \in SessionType /\ TasksOK(s) /\ s.queue <= hearingBounds.finals /\ s.helper = "none" /\ s.run = "none"
  BY <1>1, TaskFacts DEF TasksOK
<1>3. /\ restarts' \in [attempts : 0 .. RestartLimit, timers : SUBSET Settings]
      /\ hearingBounds' \in [requests : Nat, faults : Nat, finals : 0 .. MaxFinals]
      /\ hearingBounds'.finals >= hearingBounds.finals /\ hearingBounds'.finals = hearingBounds.finals
  BY <1>1, BoundsKept
<1>4. CASE Failing(g)
  <2> DEFINE t == [s EXCEPT !.cancelled = TRUE, !.init = i, !.retry = r]
  <2>1. /\ lifecycle' = [lifecycle EXCEPT !.phase = "idle"] /\ lifecycle.phase # "idle" /\ g = lifecycle.gen
        /\ session' = [session EXCEPT ![g] = t]
    BY <1>4 DEF InitFails, Failing, HearingInv, TaskInv, HearingTypes
  <2>2. i \in {"ended", "failing"} /\ r \in BOOLEAN
    OBVIOUS
  <2>3. lifecycle.phase # "stopping" => i = "failing"
    <3>1. lifecycle.phase # "stopping" => lifecycle.phase \in {"starting", "listening"}
      BY <2>1, TaskFacts
    <3> QED
      BY <2>1, <3>1, TaskFacts
  <2> HIDE DEF i, r
  <2>4. /\ t \in SessionType /\ t.init = i /\ t.run = "none" /\ t.helper = "none"
        /\ t.cancelled /\ t.queue = s.queue
    BY <1>2, <2>2 DEF SessionType, InitSteps
  <2>5. ~Alive(t) /\ TasksOK(t)
    BY <1>2, <2>2, <2>4 DEF Alive, TasksOK
  <2> HIDE DEF t
  <2>6. lifecycle'.phase = "idle"
    BY <2>1, TaskFacts
  <2> QED
    BY <1>1, <1>2, <1>3, <2>1, <2>2, <2>3, <2>4, <2>5, <2>6, TaskKeeps
<1>5. CASE ~Failing(g)
  <2> DEFINE t == [s EXCEPT !.init = "ended"]
  <2>1. UNCHANGED lifecycle /\ session' = [session EXCEPT ![g] = t]
    BY <1>5 DEF InitFails
  <2>2. g # lifecycle.gen \/ lifecycle.phase = "idle"
    BY <1>5 DEF Failing
  <2>3. /\ t \in SessionType /\ t.init = "ended" /\ t.run = "none" /\ t.helper = "none"
        /\ t.cancelled = s.cancelled /\ t.queue = s.queue
    BY <1>2 DEF SessionType, InitSteps
  <2>4. ~Alive(t) /\ TasksOK(t)
    BY <1>2, <2>3 DEF Alive, TasksOK
  <2> HIDE DEF t
  <2> QED
    BY <1>1, <1>2, <1>3, <2>1, <2>2, <2>3, <2>4, TaskKeeps
<1> QED
  BY <1>4, <1>5

----------------------------------------------------------------------------
(* The session, its helper and what is heard.                              *)

LEMMA HearKeeps ==
    ASSUME HearingInv, NEW g \in Sessions, Hear(g) PROVE HearingInv'
<1> DEFINE s == session[g]
           q == s.queue + 1
           t == [s EXCEPT !.queue = q]
           n == hearingBounds.finals + 1
<1>1. /\ s.run = "run" /\ lifecycle = [phase |-> "listening", gen |-> g]
      /\ hearingBounds.finals < MaxFinals /\ hearingBounds' = [hearingBounds EXCEPT !.finals = n]
      /\ session' = [session EXCEPT ![g] = t]
      /\ UNCHANGED <<wanted, lifecycle, helperExit, holder, asked, restarts, panel, wiped, overdue>>
  BY DEF Hear
<1>2. s \in SessionType /\ TasksOK(s) /\ s.queue <= hearingBounds.finals
  BY TaskFacts
<1>3. /\ hearingBounds \in [requests : Nat, faults : Nat, finals : 0 .. MaxFinals]
      /\ restarts \in [attempts : 0 .. RestartLimit, timers : SUBSET Settings]
  BY DEF HearingInv, TaskInv, HearingTypes
<1>4. s.queue \in Nat /\ q \in Nat /\ n \in 0 .. MaxFinals /\ q <= n /\ n >= hearingBounds.finals
  BY <1>1, <1>2, <1>3, HearingAssumption DEF SessionType
<1> HIDE DEF q, n
<1>5. hearingBounds' \in [requests : Nat, faults : Nat, finals : 0 .. MaxFinals] /\ hearingBounds'.finals = n
  BY <1>1, <1>3, <1>4
<1>6. /\ t \in SessionType /\ t.init = s.init /\ t.run = s.run /\ t.helper = s.helper
      /\ t.cancelled = s.cancelled /\ t.queue = q
  BY <1>2, <1>4 DEF SessionType
<1>7. TasksOK(t) /\ (Alive(t) => Alive(s))
  BY <1>1, <1>2, <1>6 DEF Alive, TasksOK
<1> HIDE DEF t
<1>8. g = lifecycle.gen /\ lifecycle.phase = "listening"
  BY <1>1
<1> QED
  BY <1>1, <1>2, <1>3, <1>4, <1>5, <1>6, <1>7, <1>8, TaskKeeps

LEMMA SaveKeeps ==
    ASSUME HearingInv, NEW g \in Sessions, Save(g) PROVE HearingInv'
<1> DEFINE s == session[g]
           q == s.queue - 1
           t == [s EXCEPT !.queue = q]
<1>1. /\ s.queue > 0 /\ session' = [session EXCEPT ![g] = t]
      /\ UNCHANGED <<wanted, lifecycle, helperExit, holder, asked, panel, wiped, overdue, hearingBounds>>
  BY DEF Save
<1>2. s \in SessionType /\ TasksOK(s) /\ s.queue <= hearingBounds.finals
  BY TaskFacts
<1>3. /\ restarts' \in [attempts : 0 .. RestartLimit, timers : SUBSET Settings]
      /\ hearingBounds' \in [requests : Nat, faults : Nat, finals : 0 .. MaxFinals]
      /\ hearingBounds.finals \in Nat
  BY HearingBoundsMove, HearingAssumption DEF Save, HearingInv, TaskInv, HearingTypes
<1>4. s.queue \in Nat /\ q \in Nat /\ q <= hearingBounds'.finals /\ hearingBounds'.finals >= hearingBounds.finals
  BY <1>1, <1>2, <1>3 DEF SessionType
<1> HIDE DEF q
<1>5. /\ t \in SessionType /\ t.init = s.init /\ t.run = s.run /\ t.helper = s.helper
      /\ t.cancelled = s.cancelled /\ t.queue = q
  BY <1>2, <1>4 DEF SessionType
<1>6. TasksOK(t) /\ (Alive(t) => Alive(s))
  BY <1>1, <1>2, <1>5 DEF Alive, TasksOK
<1> HIDE DEF t
<1>7. /\ g = lifecycle.gen /\ lifecycle.phase = "starting" => s.init \in {"permission", "start", "attach"}
      /\ g = lifecycle.gen /\ lifecycle.phase = "listening" => s.run \in {"run", "drain", "check"}
  BY TaskFacts
<1> QED
  BY <1>1, <1>2, <1>3, <1>4, <1>5, <1>6, <1>7, TaskKeeps

LEMMA HelperEndsKeeps ==
    ASSUME HearingInv, NEW g \in Sessions, HelperEnds(g) PROVE HearingInv'
<1> DEFINE s == session[g]
           t == [s EXCEPT !.helper = "exited"]
<1>1. /\ s.helper = "running" /\ session' = [session EXCEPT ![g] = t]
      /\ UNCHANGED <<wanted, lifecycle, helperExit, holder, asked, restarts, panel, wiped, overdue>>
      /\ HearingFault \/ UNCHANGED hearingBounds
  BY DEF HelperEnds
<1>2. s \in SessionType /\ TasksOK(s) /\ s.queue <= hearingBounds.finals
  BY TaskFacts
<1>3. /\ restarts' \in [attempts : 0 .. RestartLimit, timers : SUBSET Settings]
      /\ hearingBounds' \in [requests : Nat, faults : Nat, finals : 0 .. MaxFinals]
      /\ hearingBounds'.finals >= hearingBounds.finals /\ hearingBounds'.finals = hearingBounds.finals
  BY <1>1, BoundsKept
<1>4. /\ t \in SessionType /\ t.init = s.init /\ t.run = s.run /\ t.helper = "exited"
      /\ t.cancelled = s.cancelled /\ t.queue = s.queue
  BY <1>2 DEF SessionType
<1>5. TasksOK(t) /\ (Alive(t) => Alive(s))
  BY <1>1, <1>2, <1>4 DEF Alive, TasksOK
<1> HIDE DEF t
<1>6. /\ g = lifecycle.gen /\ lifecycle.phase = "starting" => s.init \in {"permission", "start", "attach"}
      /\ g = lifecycle.gen /\ lifecycle.phase = "listening" => s.run \in {"run", "drain", "check"}
  BY TaskFacts
<1> QED
  BY <1>1, <1>2, <1>3, <1>4, <1>5, <1>6, TaskKeeps

LEMMA RunEndsKeeps ==
    ASSUME HearingInv, NEW g \in Sessions, RunEnds(g) PROVE HearingInv'
<1> DEFINE s == session[g]
           t == [s EXCEPT !.run = "drain"]
<1>1. /\ s.run = "run" /\ session' = [session EXCEPT ![g] = t]
      /\ s.helper = "exited" \/ holder.gen = g
      /\ UNCHANGED <<wanted, lifecycle, helperExit, holder, asked, restarts, panel, wiped, overdue, hearingBounds>>
  BY DEF RunEnds
<1>2. s \in SessionType /\ TasksOK(s) /\ s.queue <= hearingBounds.finals
  BY TaskFacts
<1>3. /\ restarts' \in [attempts : 0 .. RestartLimit, timers : SUBSET Settings]
      /\ hearingBounds' \in [requests : Nat, faults : Nat, finals : 0 .. MaxFinals]
      /\ hearingBounds'.finals >= hearingBounds.finals /\ hearingBounds'.finals = hearingBounds.finals
  BY <1>1, BoundsKept
<1>4. /\ t \in SessionType /\ t.init = s.init /\ t.run = "drain" /\ t.helper = s.helper
      /\ t.cancelled = s.cancelled /\ t.queue = s.queue
  BY <1>2 DEF SessionType, RunSteps
<1>5. s.helper = "exited" \/ s.cancelled
  BY <1>1 DEF HearingInv, TaskInv, HolderOK
<1>6. TasksOK(t) /\ (Alive(t) => Alive(s))
  BY <1>1, <1>2, <1>4, <1>5 DEF Alive, TasksOK
<1> HIDE DEF t
<1>7. g = lifecycle.gen => lifecycle.phase # "starting"
  BY <1>1, TaskFacts
<1> QED
  BY <1>1, <1>2, <1>3, <1>4, <1>5, <1>6, <1>7, TaskKeeps

LEMMA DrainedKeeps ==
    ASSUME HearingInv, NEW g \in Sessions, Drained(g) PROVE HearingInv'
<1> DEFINE s == session[g]
           r == IF s.cancelled \/ lifecycle = [phase |-> "stopping", gen |-> g] THEN "ended" ELSE "check"
           t == [s EXCEPT !.run = r]
<1>1. /\ s.run = "drain" /\ s.queue = 0 /\ session' = [session EXCEPT ![g] = t]
      /\ UNCHANGED <<wanted, lifecycle, helperExit, holder, asked, restarts, panel, wiped, overdue, hearingBounds>>
  BY DEF Drained
<1>2. s \in SessionType /\ TasksOK(s) /\ s.queue <= hearingBounds.finals
  BY TaskFacts
<1>3. /\ restarts' \in [attempts : 0 .. RestartLimit, timers : SUBSET Settings]
      /\ hearingBounds' \in [requests : Nat, faults : Nat, finals : 0 .. MaxFinals]
      /\ hearingBounds'.finals >= hearingBounds.finals /\ hearingBounds'.finals = hearingBounds.finals
  BY <1>1, BoundsKept
<1>4. r \in {"ended", "check"} /\ (r = "check" => s.helper = "exited")
  BY <1>1, <1>2 DEF TasksOK
<1>5. g = lifecycle.gen /\ lifecycle.phase = "listening" => r = "check"
  BY TaskFacts
<1> HIDE DEF r
<1>6. /\ t \in SessionType /\ t.init = s.init /\ t.run = r /\ t.helper = s.helper
      /\ t.cancelled = s.cancelled /\ t.queue = s.queue
  BY <1>2, <1>4 DEF SessionType, RunSteps
<1>7. TasksOK(t) /\ (Alive(t) => Alive(s))
  BY <1>1, <1>2, <1>4, <1>6 DEF Alive, TasksOK
<1> HIDE DEF t
<1>8. g = lifecycle.gen => lifecycle.phase # "starting"
  BY <1>1, TaskFacts
<1> QED
  BY <1>1, <1>2, <1>3, <1>4, <1>5, <1>6, <1>7, <1>8, TaskKeeps

LEMMA SessionFailsKeeps ==
    ASSUME HearingInv, NEW g \in Sessions, SessionFails(g) PROVE HearingInv'
<1> DEFINE s == session[g]
<1>1. /\ s.run = "check"
      /\ UNCHANGED <<wanted, helperExit, holder, asked, restarts, panel, wiped, overdue, hearingBounds>>
  BY DEF SessionFails
<1>2. s \in SessionType /\ TasksOK(s) /\ s.queue <= hearingBounds.finals /\ s.helper = "exited" /\ s.init = "ended"
  BY <1>1, TaskFacts DEF TasksOK
<1>3. /\ restarts' \in [attempts : 0 .. RestartLimit, timers : SUBSET Settings]
      /\ hearingBounds' \in [requests : Nat, faults : Nat, finals : 0 .. MaxFinals]
      /\ hearingBounds'.finals >= hearingBounds.finals /\ hearingBounds'.finals = hearingBounds.finals
  BY <1>1, BoundsKept
<1>4. CASE Failing(g)
  <2>1. PICK retry \in BOOLEAN :
           session' = [session EXCEPT ![g].run = "failing", ![g].cancelled = TRUE, ![g].retry = retry]
    BY <1>4 DEF SessionFails
  <2> DEFINE t == [s EXCEPT !.run = "failing", !.cancelled = TRUE, !.retry = retry]
  <2>2. /\ lifecycle' = [lifecycle EXCEPT !.phase = "idle"] /\ lifecycle.phase # "idle" /\ g = lifecycle.gen
        /\ session' = [session EXCEPT ![g] = t]
    BY <1>4, <2>1 DEF SessionFails, Failing, HearingInv, TaskInv, HearingTypes
  <2>3. /\ t \in SessionType /\ t.init = "ended" /\ t.run = "failing" /\ t.helper = "exited"
        /\ t.cancelled /\ t.queue = s.queue
    BY <1>2 DEF SessionType, RunSteps
  <2>4. ~Alive(t) /\ TasksOK(t)
    BY <1>1, <1>2, <2>3 DEF Alive, TasksOK
  <2> HIDE DEF t
  <2>5. lifecycle'.phase = "idle"
    BY <2>2, TaskFacts
  <2> QED
    BY <1>1, <1>2, <1>3, <2>2, <2>3, <2>4, <2>5, TaskKeeps
<1>5. CASE ~Failing(g)
  <2> DEFINE t == [s EXCEPT !.run = "ended"]
  <2>1. UNCHANGED lifecycle /\ session' = [session EXCEPT ![g] = t]
    BY <1>5 DEF SessionFails
  <2>2. g # lifecycle.gen \/ lifecycle.phase = "idle"
    BY <1>5 DEF Failing
  <2>3. /\ t \in SessionType /\ t.init = "ended" /\ t.run = "ended" /\ t.helper = "exited"
        /\ t.cancelled = s.cancelled /\ t.queue = s.queue
    BY <1>2 DEF SessionType, RunSteps
  <2>4. ~Alive(t) /\ TasksOK(t)
    BY <1>1, <1>2, <2>3 DEF Alive, TasksOK
  <2> HIDE DEF t
  <2> QED
    BY <1>1, <1>2, <1>3, <2>1, <2>2, <2>3, <2>4, TaskKeeps
<1> QED
  BY <1>4, <1>5

(* A failure is shown, or the view has hearing turned off and somebody is  *)
(* about to reconcile it.                                                  *)
LEMMA FailureShownKeeps ==
    ASSUME HearingInv, NEW g \in Sessions, NEW t \in SessionType, session' = [session EXCEPT ![g] = t],
           FailureShown(g),
           \/ session[g].init = "failing" /\ t = [session[g] EXCEPT !.init = "ended"]
           \/ session[g].run = "failing" /\ t = [session[g] EXCEPT !.run = "ended"],
           UNCHANGED <<wanted, lifecycle, helperExit, holder, asked, wiped, overdue, hearingBounds>>,
           restarts' \in [attempts : 0 .. RestartLimit, timers : SUBSET Settings]
    PROVE  HearingInv'
<1> DEFINE s == session[g]
<1>1. s \in SessionType /\ TasksOK(s) /\ s.queue <= hearingBounds.finals
  BY TaskFacts
<1>2. /\ t.init = "ended" /\ t.run \in {"none", "ended"} /\ (t.run = "none" <=> s.run = "none")
      /\ t.helper = s.helper /\ t.cancelled = s.cancelled /\ t.queue = s.queue
      /\ s.helper # "running" /\ s.queue = 0
      /\ s.init = "failing" \/ s.run = "failing"
  <2>1. CASE s.init = "failing" /\ t = [session[g] EXCEPT !.init = "ended"]
    <3>1. /\ t.init = "ended" /\ t.run = s.run /\ t.helper = s.helper /\ t.cancelled = s.cancelled
          /\ t.queue = s.queue
      BY <1>1, <2>1 DEF SessionType
    <3> QED
      BY <1>1, <2>1, <3>1 DEF TasksOK, SessionType
  <2>2. CASE s.run = "failing" /\ t = [session[g] EXCEPT !.run = "ended"]
    <3>1. /\ t.run = "ended" /\ t.init = s.init /\ t.helper = s.helper /\ t.cancelled = s.cancelled
          /\ t.queue = s.queue
      BY <1>1, <2>2 DEF SessionType
    <3> QED
      BY <1>1, <2>2, <3>1 DEF TasksOK, SessionType
  <2> QED
    BY <2>1, <2>2
<1>3. TasksOK(t) /\ ~Alive(t)
  BY <1>2 DEF TasksOK, Alive
<1>4. g = lifecycle.gen => lifecycle.phase \notin {"starting", "listening"}
  BY <1>2, TaskFacts
<1>5. panel \in [phase : PanelPhases, gen : 0 .. MaxSessions]
  BY DEF HearingInv, TaskInv, HearingTypes
<1>6. /\ panel' \in [phase : PanelPhases, gen : 0 .. MaxSessions] /\ panel'.gen = panel.gen
      /\ \/ panel.gen = g /\ panel'.phase = "error"
         \/ panel' = panel /\ (panel.gen = g => ~wanted.enabled)
  BY <1>5 DEF FailureShown, Shown, AnyPhase, PanelPhases
<1>7. /\ hearingBounds' \in [requests : Nat, faults : Nat, finals : 0 .. MaxFinals]
      /\ hearingBounds'.finals >= hearingBounds.finals /\ hearingBounds'.finals = hearingBounds.finals
  BY HearingBoundsMove DEF HearingInv, TaskInv
<1>8. TaskInv'
  BY <1>1, <1>2, <1>3, <1>4, <1>6, <1>7, TaskMoves DEF HearingInv
<1>9. session'[g] = t /\ \A h \in Sessions : h # g => session'[h] = session[h]
  BY DEF HearingInv, TaskInv, HearingTypes
<1>10. PanelOK'
  BY <1>2, <1>6, <1>9 DEF HearingInv, PanelOK
<1>11. ClaimOK'
  BY <1>2, <1>6, <1>9 DEF HearingInv, PanelOK, ClaimOK, ClaimsHearing, Handled
<1> QED
  BY <1>8, <1>10, <1>11 DEF HearingInv

LEMMA RestartLaterTyped ==
    ASSUME HearingInv, NEW s \in Settings, RestartLater(s)
    PROVE  restarts' \in [attempts : 0 .. RestartLimit, timers : SUBSET Settings]
BY HearingAssumption DEF HearingInv, TaskInv, HearingTypes, RestartLater

LEMMA ShownKeeps ==
    ASSUME HearingInv, NEW g \in Sessions, InitFailureShown(g) \/ SessionFailureShown(g)
    PROVE  HearingInv'
<1>1. session[g] \in SessionType /\ session[g].settings \in Settings
  BY TaskFacts DEF SessionType
<1>2. /\ FailureShown(g)
      /\ UNCHANGED <<wanted, lifecycle, helperExit, holder, asked, wiped, overdue, hearingBounds>>
      /\ RestartLater(session[g].settings) \/ UNCHANGED restarts
  BY DEF InitFailureShown, SessionFailureShown
<1>3. restarts' \in [attempts : 0 .. RestartLimit, timers : SUBSET Settings]
  BY <1>1, <1>2, RestartLaterTyped DEF HearingInv, TaskInv, HearingTypes
<1>4. CASE InitFailureShown(g)
  <2> DEFINE t == [session[g] EXCEPT !.init = "ended"]
  <2>1. t \in SessionType /\ session' = [session EXCEPT ![g] = t] /\ session[g].init = "failing"
    BY <1>1, <1>4 DEF InitFailureShown, SessionType, InitSteps
  <2> QED
    BY <1>2, <1>3, <2>1, FailureShownKeeps
<1>5. CASE SessionFailureShown(g)
  <2> DEFINE t == [session[g] EXCEPT !.run = "ended"]
  <2>1. t \in SessionType /\ session' = [session EXCEPT ![g] = t] /\ session[g].run = "failing"
    BY <1>1, <1>5 DEF SessionFailureShown, SessionType, RunSteps
  <2> QED
    BY <1>2, <1>3, <2>1, FailureShownKeeps
<1> QED
  BY <1>4, <1>5

(* The session begins.                                                     *)
LEMMA AttachKeeps ==
    ASSUME HearingInv, NEW g \in Sessions, Attach(g) PROVE HearingInv'
<1>1. CASE lifecycle # [phase |-> "starting", gen |-> g]
  BY <1>1, AttachCutKeeps
<1>2. CASE lifecycle = [phase |-> "starting", gen |-> g]
  <2> DEFINE s == session[g]
             t == [s EXCEPT !.init = "ended", !.run = "run"]
  <2>1. /\ lifecycle' = [lifecycle EXCEPT !.phase = "listening"] /\ s.init = "attach"
        /\ session' = [session EXCEPT ![g].init = "ended", ![g].run = "run"]
        /\ UNCHANGED <<wanted, helperExit, holder, asked, restarts, panel, wiped, overdue, hearingBounds>>
    BY <1>2 DEF Attach
  <2>2. /\ s \in SessionType /\ TasksOK(s) /\ s.queue <= hearingBounds.finals /\ ~s.cancelled
        /\ lifecycle.gen = g /\ lifecycle.phase = "starting"
    BY <1>2, TaskFacts
  <2>3. session' = [session EXCEPT ![g] = t]
    BY <2>1 DEF HearingInv, TaskInv, HearingTypes
  <2>4. /\ t \in SessionType /\ t.init = "ended" /\ t.run = "run" /\ t.helper = s.helper
        /\ ~t.cancelled /\ t.queue = s.queue
    BY <2>2 DEF SessionType, InitSteps, RunSteps
  <2>5. TasksOK(t) /\ Alive(s)
    BY <2>1, <2>2, <2>4 DEF TasksOK, Alive
  <2> HIDE DEF t
  <2>6. session'[g] = t /\ \A h \in Sessions : h # g => session'[h] = session[h]
    BY <2>3 DEF HearingInv, TaskInv, HearingTypes
  <2>7. /\ lifecycle' \in [phase : {"idle", "starting", "listening", "stopping"}, gen : 0 .. MaxSessions]
        /\ lifecycle'.gen = g /\ lifecycle'.phase = "listening"
    BY <1>2, <2>1 DEF HearingInv, TaskInv, HearingTypes
  <2>8. HearingTypes'
    <3>1. session' \in [Sessions -> SessionType]
      BY <2>3, <2>4 DEF HearingInv, TaskInv, HearingTypes
    <3>2. \A h \in Sessions : session'[h].queue <= hearingBounds'.finals
      BY <2>1, <2>2, <2>4, <2>6 DEF HearingInv, TaskInv, HearingTypes
    <3> QED
      BY <2>1, <2>7, <3>1, <3>2 DEF HearingInv, TaskInv, HearingTypes
  <2>9. (\A h \in Sessions : TasksOK(session[h]))'
    BY <2>5, <2>6 DEF HearingInv, TaskInv, TasksOK
  <2>10. AliveOK'
    <3>1. ASSUME NEW h \in Sessions, Alive(session'[h]) PROVE h = g
      BY <2>2, <2>6, <3>1 DEF HearingInv, TaskInv, AliveOK
    <3> QED
      BY <2>7, <3>1 DEF AliveOK, Alive
  <2>11. PhaseOK'
    BY <2>1, <2>2, <2>4, <2>6, <2>7 DEF HearingInv, TaskInv, PhaseOK
  <2>12. ExitOK' /\ helperExit.of = 0
    BY <2>1, <2>2 DEF HearingInv, TaskInv, ExitOK, PhaseOK
  <2>13. holder.pc = "free" /\ holder.gen # g
    BY <2>2 DEF HearingInv, TaskInv, HolderOK, HearingTypes
  <2>14. HolderOK'
    BY <2>1, <2>6, <2>13 DEF HearingInv, TaskInv, HolderOK, Stops
  <2>15. QueueOK'
    <3> SUFFICES ASSUME NEW h \in Sessions, session'[h].queue > 0 PROVE h \in overdue
      BY <2>1 DEF QueueOK
    <3>1. h # g
      BY <2>1, <2>2, <2>4, <2>6 DEF TasksOK
    <3> QED
      BY <2>2, <2>6, <3>1 DEF HearingInv, TaskInv, QueueOK
  <2>16. DeletedStaysDeleted'
    BY <2>1, <2>4, <2>6 DEF HearingInv, TaskInv, DeletedStaysDeleted
  <2>17. PanelOK'
    BY <2>1, <2>2, <2>6, <2>7, <2>12, <2>13 DEF HearingInv, TaskInv, PanelOK, Stops
  <2>18. ClaimOK'
    BY <2>1, <2>2, <2>7 DEF HearingInv, ClaimOK
  <2> QED
    BY <2>8, <2>9, <2>10, <2>11, <2>12, <2>14, <2>15, <2>16, <2>17, <2>18 DEF HearingInv, TaskInv
<1> QED
  BY <1>1, <1>2

----------------------------------------------------------------------------
(* The holder of the projection lock.                                      *)

(* Nobody moves but whoever asks or shows.                                 *)
LEMMA TasksStay ==
    ASSUME TaskInv, UNCHANGED <<lifecycle, helperExit, session, holder, wiped, overdue>>,
           wanted' \in [enabled : BOOLEAN, active : BOOLEAN, settings : Settings],
           asked' \subseteq {"sync", "deactivate"} \cup Interruptions,
           restarts' \in [attempts : 0 .. RestartLimit, timers : SUBSET Settings],
           panel' \in [phase : PanelPhases, gen : 0 .. MaxSessions],
           HearingFault \/ UNCHANGED hearingBounds \/ HearingRequest
    PROVE  TaskInv'
<1>1. HearingTypes'
  BY HearingBoundsMove DEF TaskInv, HearingTypes
<1>2. AliveOK' /\ PhaseOK' /\ ExitOK'
  BY DEF TaskInv, AliveOK, Alive, PhaseOK, ExitOK
<1>3. HolderOK' /\ QueueOK' /\ DeletedStaysDeleted'
  BY DEF TaskInv, HolderOK, Alive, QueueOK, DeletedStaysDeleted
<1>4. (\A g \in Sessions : TasksOK(session[g]))'
  BY DEF TaskInv, TasksOK
<1> QED
  BY <1>1, <1>2, <1>3, <1>4 DEF TaskInv

LEMMA ReadyKeeps ==
    ASSUME HearingInv, NEW g \in Sessions, Ready(g) PROVE HearingInv'
<1>1. /\ session[g].run = "run" /\ session[g].helper = "running"
      /\ UNCHANGED <<wanted, lifecycle, helperExit, session, holder, asked, restarts, wiped, overdue, hearingBounds>>
      /\ panel' = Shown(g, {"starting", "error"}, "listening")
  BY DEF Ready
<1>2. panel \in [phase : PanelPhases, gen : 0 .. MaxSessions] /\ panel.gen = lifecycle.gen
  BY DEF HearingInv, TaskInv, HearingTypes, PanelOK
<1>3. ~(panel.gen = g /\ panel.phase = "error")
  BY <1>1 DEF HearingInv, PanelOK
<1>4. /\ panel' \in [phase : PanelPhases, gen : 0 .. MaxSessions] /\ panel'.gen = panel.gen
      /\ panel' = panel \/ (panel.phase = "starting" /\ panel'.phase = "listening")
  BY <1>1, <1>2, <1>3 DEF Shown, PanelPhases
<1>5. TaskInv'
  BY <1>1, <1>4, TasksStay DEF HearingInv, TaskInv, HearingTypes
<1>6. PanelOK' /\ ClaimOK'
  BY <1>1, <1>4 DEF HearingInv, PanelOK, ClaimOK, ClaimsHearing, Handled
<1> QED
  BY <1>5, <1>6 DEF HearingInv

(* Somebody asks: what was promised stays promised.                        *)
LEMMA AskedOfHearingKeeps ==
    ASSUME HearingInv, UNCHANGED <<lifecycle, helperExit, session, holder, panel, wiped, overdue>>,
           wanted' \in [enabled : BOOLEAN, active : BOOLEAN, settings : Settings],
           asked \subseteq asked', asked' \subseteq {"sync", "deactivate"} \cup Interruptions,
           wanted'.enabled = wanted.enabled \/ "sync" \in asked',
           restarts' \in [attempts : 0 .. RestartLimit, timers : SUBSET Settings],
           UNCHANGED hearingBounds \/ HearingRequest
    PROVE  HearingInv'
<1>1. TaskInv'
  BY TasksStay DEF HearingInv, TaskInv, HearingTypes
<1>2. PanelOK'
  BY DEF HearingInv, PanelOK
<1>3. ClaimOK'
  BY DEF HearingInv, ClaimOK, ClaimsHearing, Handled
<1> QED
  BY <1>1, <1>2, <1>3 DEF HearingInv

LEMMA HearingRequestKeeps ==
    ASSUME HearingInv,
           \/ \E s \in Settings : RestartDue(s) \/ \E enabled \in BOOLEAN : Want(enabled, s)
           \/ Deactivate \/ \E request \in Interruptions : Ask(request)
    PROVE  HearingInv'
<1> USE HearingAssumption
<1>1. CASE \E s \in Settings : RestartDue(s)
  <2>1. /\ UNCHANGED <<wanted, lifecycle, helperExit, session, holder, panel, wiped, overdue, hearingBounds>>
        /\ restarts' \in [attempts : 0 .. RestartLimit, timers : SUBSET Settings]
        /\ asked' \in {asked, asked \cup {"sync"}}
    BY <1>1 DEF RestartDue, HearingInv, TaskInv, HearingTypes
  <2> QED
    BY <2>1, AskedOfHearingKeeps DEF HearingInv, TaskInv, HearingTypes
<1>2. CASE \E s \in Settings : \E enabled \in BOOLEAN : Want(enabled, s)
  <2>1. PICK s \in Settings, enabled \in BOOLEAN : Want(enabled, s)
    BY <1>2
  <2>2. /\ UNCHANGED <<lifecycle, helperExit, session, holder, panel, wiped, overdue>> /\ HearingRequest
        /\ wanted' \in [enabled : BOOLEAN, active : BOOLEAN, settings : Settings]
        /\ restarts' \in [attempts : 0 .. RestartLimit, timers : SUBSET Settings]
        /\ asked' = asked \cup {"sync"}
    BY <2>1 DEF Want, HearingInv, TaskInv, HearingTypes
  <2> QED
    BY <2>2, AskedOfHearingKeeps DEF HearingInv, TaskInv, HearingTypes
<1>3. CASE Deactivate
  <2>1. /\ UNCHANGED <<lifecycle, helperExit, session, holder, restarts, panel, wiped, overdue>> /\ HearingRequest
        /\ wanted' \in [enabled : BOOLEAN, active : BOOLEAN, settings : Settings]
        /\ wanted'.enabled = wanted.enabled /\ asked' = asked \cup {"deactivate"}
    BY <1>3 DEF Deactivate, HearingInv, TaskInv, HearingTypes
  <2> QED
    BY <2>1, AskedOfHearingKeeps DEF HearingInv, TaskInv, HearingTypes
<1>4. CASE \E request \in Interruptions : Ask(request)
  <2>1. PICK request \in Interruptions : Ask(request)
    BY <1>4
  <2>2. /\ UNCHANGED <<wanted, lifecycle, helperExit, session, holder, restarts, panel, wiped, overdue>>
        /\ HearingRequest /\ asked' = asked \cup {request}
    BY <2>1 DEF Ask
  <2> QED
    BY <2>2, AskedOfHearingKeeps DEF HearingInv, TaskInv, HearingTypes
<1> QED
  BY <1>1, <1>2, <1>3, <1>4

(* take_stop: what runs is cancelled, and stopping it begins.              *)
LEMMA StopKeeps ==
    ASSUME HearingInv, NEW next \in StopReasons, StopThen(next), holder.pc = "free", asked' \subseteq asked,
           next = "start" => wanted.enabled, next = "deactivate" /\ "sync" \in asked => "sync" \in asked',
           restarts' \in [attempts : 0 .. RestartLimit, timers : SUBSET Settings],
           UNCHANGED <<wanted, helperExit, wiped, overdue, hearingBounds>>
    PROVE  HearingInv'
<1>1. /\ lifecycle.phase \in {"idle", "starting", "listening"}
      /\ lifecycle \in [phase : {"idle", "starting", "listening", "stopping"}, gen : 0 .. MaxSessions]
      /\ panel \in [phase : PanelPhases, gen : 0 .. MaxSessions] /\ panel.gen = lifecycle.gen
      /\ holder \in [pc : {"free", "next"} \cup Stops, gen : 0 .. MaxSessions,
                     next : {"none"} \cup StopReasons, late : SUBSET {"helper", "init"}]
  BY DEF HearingInv, TaskInv, HearingTypes, PhaseOK, PanelOK, Stops
<1>2. CASE ~Active
  <2>1. /\ UNCHANGED <<lifecycle, session, panel>> /\ lifecycle.phase = "idle"
        /\ holder' = [pc |-> "next", gen |-> 0, next |-> next, late |-> {}]
    BY <1>1, <1>2 DEF StopThen, Active, FreeLock
  <2>2. /\ holder' \in [pc : {"free", "next"} \cup Stops, gen : 0 .. MaxSessions,
                        next : {"none"} \cup StopReasons, late : SUBSET {"helper", "init"}]
        /\ holder'.pc = "next" /\ holder'.gen = 0 /\ holder'.next = next /\ next # "none"
    <3>1. 0 \in 0 .. MaxSessions
      BY HearingAssumption
    <3> QED
      BY <2>1, <3>1 DEF StopReasons, Interruptions
  <2>3. HearingTypes' /\ (\A g \in Sessions : TasksOK(session[g]))'
    BY <2>1, <2>2 DEF HearingInv, TaskInv, HearingTypes, TasksOK
  <2>4. AliveOK' /\ PhaseOK' /\ ExitOK' /\ DeletedStaysDeleted'
    BY <2>1 DEF HearingInv, TaskInv, AliveOK, Alive, PhaseOK, ExitOK, DeletedStaysDeleted
  <2>5. HolderOK' /\ QueueOK'
    BY <2>1, <2>2 DEF HearingInv, TaskInv, HolderOK, QueueOK, Sessions, Stops
  <2>6. PanelOK'
    BY <2>1, <2>2 DEF HearingInv, PanelOK, Stops
  <2>7. ClaimOK'
    BY <1>1, <2>1, <2>2 DEF HearingInv, ClaimOK, ClaimsHearing, Handled, Stops
  <2> QED
    BY <2>3, <2>4, <2>5, <2>6, <2>7 DEF HearingInv, TaskInv
<1>3. CASE Active
  <2> DEFINE g == lifecycle.gen
             s == session[g]
             t == [s EXCEPT !.cancelled = TRUE]
             w == IF lifecycle.phase = "listening" THEN "helper" ELSE "init"
  <2>1. /\ lifecycle' = [lifecycle EXCEPT !.phase = "stopping"] /\ session' = [session EXCEPT ![g] = t]
        /\ panel' = Shown(g, AnyPhase, IF next = "cancel" THEN "off" ELSE "stopping")
        /\ holder' = [pc |-> w, gen |-> g, next |-> next, late |-> {}]
        /\ lifecycle.phase \in {"starting", "listening"}
    BY <1>3 DEF StopThen, Active
  <2>2. g \in Sessions /\ g \in 0 .. MaxSessions /\ helperExit.of = 0 /\ wiped < g
    BY <1>1, <2>1 DEF HearingInv, TaskInv, PhaseOK
  <2>3. /\ s \in SessionType /\ TasksOK(s) /\ s.queue <= hearingBounds.finals
        /\ w = "helper" => s.run # "none"
        /\ w = "init" => s.run = "none"
        /\ w \in {"helper", "init"}
    BY <2>1, <2>2, TaskFacts
  <2>4. /\ t \in SessionType /\ t.init = s.init /\ t.run = s.run /\ t.helper = s.helper
        /\ t.cancelled /\ t.queue = s.queue
    BY <2>3 DEF SessionType
  <2>5. TasksOK(t)
    BY <2>3, <2>4 DEF TasksOK
  <2> HIDE DEF t, w
  <2>6. session'[g] = t /\ \A h \in Sessions : h # g => session'[h] = session[h]
    BY <2>1, <2>2 DEF HearingInv, TaskInv, HearingTypes
  <2>7. /\ lifecycle' \in [phase : {"idle", "starting", "listening", "stopping"}, gen : 0 .. MaxSessions]
        /\ lifecycle'.phase = "stopping" /\ lifecycle'.gen = g
    BY <1>1, <2>1
  <2>8. /\ holder' \in [pc : {"free", "next"} \cup Stops, gen : 0 .. MaxSessions,
                        next : {"none"} \cup StopReasons, late : SUBSET {"helper", "init"}]
        /\ holder'.pc = w /\ holder'.gen = g /\ holder'.next = next /\ next # "none"
    BY <2>1, <2>2, <2>3 DEF Stops, StopReasons, Interruptions
  <2>9. /\ panel' \in [phase : PanelPhases, gen : 0 .. MaxSessions] /\ panel'.gen = g
        /\ panel'.phase \in {"off", "stopping"}
    BY <1>1, <2>1 DEF Shown, AnyPhase, PanelPhases
  <2>10. HearingTypes'
    <3>1. session' \in [Sessions -> SessionType]
      BY <2>1, <2>4 DEF HearingInv, TaskInv, HearingTypes
    <3>2. \A h \in Sessions : session'[h].queue <= hearingBounds'.finals
      BY <2>3, <2>4, <2>6 DEF HearingInv, TaskInv, HearingTypes
    <3> QED
      BY <2>7, <2>8, <2>9, <3>1, <3>2 DEF HearingInv, TaskInv, HearingTypes
  <2>11. (\A h \in Sessions : TasksOK(session[h]))'
    BY <2>5, <2>6 DEF HearingInv, TaskInv, TasksOK
  <2>12. AliveOK'
    <3>1. ASSUME NEW h \in Sessions, Alive(session'[h]) PROVE h = g
      BY <2>6, <3>1 DEF HearingInv, TaskInv, AliveOK
    <3> QED
      BY <2>7, <3>1 DEF AliveOK, Alive
  <2>13. PhaseOK' /\ ExitOK'
    BY <2>2, <2>3, <2>7, <2>8 DEF HearingInv, TaskInv, PhaseOK, ExitOK, Stops
  <2>14. HolderOK'
    BY <2>2, <2>3, <2>4, <2>6, <2>7, <2>8 DEF HolderOK
  <2>15. QueueOK'
    <3>1. ASSUME NEW h \in Sessions, session'[h].queue > 0, h \notin overdue PROVE h = g
      BY <2>4, <2>6, <3>1 DEF HearingInv, TaskInv, QueueOK
    <3> QED
      BY <2>3, <2>7, <2>8, <3>1 DEF QueueOK
  <2>16. DeletedStaysDeleted'
    BY <2>4, <2>6 DEF HearingInv, TaskInv, DeletedStaysDeleted
  <2>17. PanelOK'
    BY <2>2, <2>7, <2>9 DEF PanelOK
  <2>18. ClaimOK'
    BY <2>7, <2>8 DEF HearingInv, ClaimOK
  <2> QED
    BY <2>10, <2>11, <2>12, <2>13, <2>14, <2>15, <2>16, <2>17, <2>18 DEF HearingInv, TaskInv
<1> QED
  BY <1>2, <1>3

LEMMA LockTakenKeeps ==
    ASSUME HearingInv, Reconcile \/ \E request \in Interruptions \cup {"deactivate"} : TakeLock(request)
    PROVE  HearingInv'
<1>1. CASE Reconcile
  <2>1. /\ holder.pc = "free" /\ asked' = asked \ {"sync"}
        /\ restarts' \in [attempts : 0 .. RestartLimit, timers : SUBSET Settings]
        /\ UNCHANGED <<wanted, helperExit, wiped, overdue, hearingBounds>>
    BY <1>1, HearingAssumption DEF Reconcile, HearingInv, TaskInv, HearingTypes
  <2>2. CASE Wanted /\ SameSettings
    <3>1. UNCHANGED <<lifecycle, session, holder, panel>> /\ wanted.enabled /\ lifecycle.phase # "idle"
      BY <1>1, <2>2 DEF Reconcile, Wanted, SameSettings, Active
    <3>2. TaskInv'
      BY <2>1, <3>1, TasksStay DEF HearingInv, TaskInv, HearingTypes
    <3>3. PanelOK' /\ ClaimOK'
      BY <2>1, <3>1 DEF HearingInv, PanelOK, ClaimOK
    <3> QED
      BY <3>2, <3>3 DEF HearingInv
  <2>3. CASE ~(Wanted /\ SameSettings)
    <3> DEFINE next == IF Wanted THEN "start" ELSE "inactive"
    <3>1. /\ StopThen(next) /\ next \in StopReasons /\ (next = "start" => wanted.enabled)
          /\ next # "deactivate" /\ asked' \subseteq asked
      BY <1>1, <2>1, <2>3 DEF Reconcile, Wanted, StopReasons
    <3> HIDE DEF next
    <3> QED
      BY <2>1, <3>1, StopKeeps
  <2> QED
    BY <2>2, <2>3
<1>2. CASE \E request \in Interruptions \cup {"deactivate"} : TakeLock(request)
  <2>1. PICK request \in Interruptions \cup {"deactivate"} : TakeLock(request)
    BY <1>2
  <2>2. /\ holder.pc = "free" /\ StopThen(request) /\ request \in StopReasons /\ request # "start"
        /\ asked' \subseteq asked /\ ("sync" \in asked => "sync" \in asked')
        /\ UNCHANGED <<wanted, helperExit, restarts, wiped, overdue, hearingBounds>>
    BY <2>1 DEF TakeLock, StopReasons, Interruptions
  <2>3. restarts' \in [attempts : 0 .. RestartLimit, timers : SUBSET Settings]
    BY <2>2 DEF HearingInv, TaskInv, HearingTypes
  <2> QED
    BY <2>2, <2>3, StopKeeps
<1> QED
  BY <1>1, <1>2

(* The holder waits: the sessions and the phase stay as they are.          *)
LEMMA WaitKeeps ==
    ASSUME HearingInv, NEW late \in BOOLEAN,
           HelperStopped(late) \/ InitializationStopped(late) \/ SavingStopped(late)
    PROVE  HearingInv'
<1>1. /\ UNCHANGED <<wanted, lifecycle, helperExit, session, asked, restarts, panel, wiped>>
      /\ HearingFault \/ UNCHANGED hearingBounds
      /\ holder.pc \in Stops
  BY DEF HelperStopped, InitializationStopped, SavingStopped, Stops
<1>2. /\ holder \in [pc : {"free", "next"} \cup Stops, gen : 0 .. MaxSessions,
                     next : {"none"} \cup StopReasons, late : SUBSET {"helper", "init"}]
      /\ holder.gen \in Sessions /\ lifecycle.gen = holder.gen /\ overdue \subseteq Sessions
      /\ hearingBounds' \in [requests : Nat, faults : Nat, finals : 0 .. MaxFinals]
      /\ hearingBounds'.finals = hearingBounds.finals
  BY <1>1, HearingBoundsMove DEF HearingInv, TaskInv, HearingTypes, HolderOK
<1> DEFINE s == session[holder.gen]
<1>3. s \in SessionType /\ TasksOK(s)
  BY <1>2, TaskFacts
<1>4. /\ holder' \in [pc : {"free", "next"} \cup Stops, gen : 0 .. MaxSessions,
                      next : {"none"} \cup StopReasons, late : SUBSET {"helper", "init"}]
      /\ holder'.gen = holder.gen /\ holder'.next = holder.next /\ holder'.pc \in {"saving", "finish"}
  <2>1. PICK pc \in {"saving", "finish"}, l \in {holder.late, {}, {"helper"}, {"init"}} :
           holder' = [holder EXCEPT !.pc = pc, !.late = l]
    <3>1. HelperStopped(late) => holder' = [holder EXCEPT !.pc = "saving", !.late = IF late THEN {"helper"} ELSE {}]
      BY DEF HelperStopped
    <3>2. InitializationStopped(late)
             => holder' = [holder EXCEPT !.pc = "finish", !.late = IF late THEN {"init"} ELSE {}]
      BY DEF InitializationStopped
    <3>3. SavingStopped(late) => holder' = [holder EXCEPT !.pc = "finish", !.late = holder.late]
      BY <1>2 DEF SavingStopped
    <3> QED
      BY <3>1, <3>2, <3>3
  <2> QED
    BY <1>2, <2>1 DEF Stops
<1>5. overdue \subseteq overdue' /\ overdue' \subseteq Sessions
  BY <1>2 DEF HelperStopped, InitializationStopped, SavingStopped
<1>6. ASSUME HelperStopped(late) PROVE HolderOK' /\ QueueOK'
  <2>1. /\ holder.pc = "helper" /\ holder'.pc = "saving" /\ holder'.late \in {{}, {"helper"}}
        /\ holder'.late = {} => s.helper = "exited"
        /\ overdue' = overdue
    BY <1>2, <1>6 DEF HelperStopped
  <2>2. s.run # "none" /\ s.cancelled
    BY <1>2, <2>1 DEF HearingInv, TaskInv, HolderOK
  <2>3. holder'.late = {} => ~Alive(s)
    BY <1>3, <2>1, <2>2 DEF TasksOK, Alive
  <2>4. HolderOK'
    BY <1>1, <1>2, <1>4, <2>1, <2>2, <2>3 DEF HearingInv, TaskInv, HolderOK, Stops, Alive
  <2>5. QueueOK'
    BY <1>1, <2>1 DEF HearingInv, TaskInv, QueueOK
  <2> QED
    BY <2>4, <2>5
<1>7. ASSUME InitializationStopped(late) PROVE HolderOK' /\ QueueOK'
  <2>1. /\ holder.pc = "init" /\ holder'.pc = "finish" /\ holder'.late \in {{}, {"init"}}
        /\ holder'.late = {} => s.init = "ended"
        /\ overdue' = overdue
    BY <1>2, <1>7 DEF InitializationStopped
  <2>2. s.run = "none" /\ s.cancelled
    BY <1>2, <2>1 DEF HearingInv, TaskInv, HolderOK
  <2>3. (holder'.late = {} => ~Alive(s)) /\ ~(s.queue > 0)
    BY <1>3, <2>1, <2>2 DEF TasksOK, Alive
  <2>4. HolderOK'
    BY <1>1, <1>2, <1>4, <2>1, <2>2, <2>3 DEF HearingInv, TaskInv, HolderOK, Stops, Alive
  <2>5. QueueOK'
    BY <1>1, <1>2, <2>1, <2>3 DEF HearingInv, TaskInv, QueueOK
  <2> QED
    BY <2>4, <2>5
<1>8. ASSUME SavingStopped(late) PROVE HolderOK' /\ QueueOK'
  <2>1. /\ holder.pc = "saving" /\ holder'.pc = "finish" /\ holder'.late = holder.late
        /\ holder.gen \in overdue' \/ s.queue = 0
    BY <1>2, <1>8 DEF SavingStopped, Ingested
  <2>2. /\ s.run # "none" /\ s.cancelled
        /\ \/ holder.late = {} /\ ~Alive(s)
           \/ holder.late = {"helper"}
    BY <1>2, <2>1 DEF HearingInv, TaskInv, HolderOK
  <2>3. s.init = "ended" /\ s.queue \in Nat
    BY <1>3, <2>2 DEF TasksOK, SessionType
  <2>4. HolderOK'
    BY <1>1, <1>2, <1>4, <2>1, <2>2, <2>3 DEF HearingInv, TaskInv, HolderOK, Stops, Alive
  <2>5. QueueOK'
    BY <1>1, <1>2, <1>5, <2>1, <2>3 DEF HearingInv, TaskInv, QueueOK
  <2> QED
    BY <2>4, <2>5
<1>9. HolderOK' /\ QueueOK'
  BY <1>6, <1>7, <1>8
<1>10. HearingTypes' /\ (\A g \in Sessions : TasksOK(session[g]))'
  BY <1>1, <1>2, <1>4, <1>5 DEF HearingInv, TaskInv, HearingTypes, TasksOK
<1>11. AliveOK' /\ ExitOK' /\ DeletedStaysDeleted'
  BY <1>1, <1>5 DEF HearingInv, TaskInv, AliveOK, Alive, ExitOK, DeletedStaysDeleted
<1>12. PhaseOK'
  BY <1>1, <1>4 DEF HearingInv, TaskInv, PhaseOK, Stops
<1>13. PanelOK'
  BY <1>1 DEF HearingInv, PanelOK
<1>14. ClaimOK'
  BY <1>1, <1>4 DEF HearingInv, ClaimOK, ClaimsHearing, Handled, Stops
<1> QED
  BY <1>9, <1>10, <1>11, <1>12, <1>13, <1>14 DEF HearingInv, TaskInv

(* A helper that may still run is remembered when its session is over.     *)
LEMMA FinishStopKeeps == ASSUME HearingInv, FinishStop PROVE HearingInv'
<1> DEFINE g == holder.gen
           s == session[g]
<1>1. /\ holder.pc = "finish" /\ holder' = [holder EXCEPT !.pc = "next"]
      /\ helperExit' = ExitToAwait(g) /\ lifecycle' = Completed(g)
      /\ panel' = Shown(g, AnyPhase, "off") \/ panel' = Shown(g, {"stopping"}, "off")
      /\ UNCHANGED <<wanted, session, asked, restarts, wiped, overdue, hearingBounds>>
  BY DEF FinishStop
<1>2. /\ holder \in [pc : {"free", "next"} \cup Stops, gen : 0 .. MaxSessions,
                     next : {"none"} \cup StopReasons, late : SUBSET {"helper", "init"}]
      /\ lifecycle \in [phase : {"idle", "starting", "listening", "stopping"}, gen : 0 .. MaxSessions]
      /\ panel \in [phase : PanelPhases, gen : 0 .. MaxSessions]
  BY DEF HearingInv, TaskInv, HearingTypes
<1>3. /\ g \in Sessions /\ lifecycle.gen = g /\ lifecycle.phase \in {"stopping", "idle"} /\ helperExit.of = 0
      /\ s.cancelled
      /\ \/ holder.late = {} /\ ~Alive(s)
         \/ holder.late = {"helper"} /\ s.init = "ended"
         \/ holder.late = {"init"} /\ s.run = "none"
  BY <1>1 DEF HearingInv, TaskInv, HolderOK, Stops
<1>4. s \in SessionType /\ TasksOK(s)
  BY <1>3, TaskFacts
<1>5. /\ lifecycle' \in [phase : {"idle", "starting", "listening", "stopping"}, gen : 0 .. MaxSessions]
      /\ lifecycle'.phase = "idle" /\ lifecycle'.gen = g
  BY <1>1, <1>2, <1>3 DEF Completed
<1>6. /\ holder' \in [pc : {"free", "next"} \cup Stops, gen : 0 .. MaxSessions,
                      next : {"none"} \cup StopReasons, late : SUBSET {"helper", "init"}]
      /\ holder'.gen = g /\ holder'.next = holder.next /\ holder'.pc = "next"
  BY <1>1, <1>2
<1>7. /\ panel' \in [phase : PanelPhases, gen : 0 .. MaxSessions] /\ panel'.gen = g
      /\ panel'.phase = "off" \/ (panel' = panel /\ panel.phase \in {"off", "error"})
  <2>1. panel.gen = g /\ panel.phase \in {"stopping", "off", "error"}
    BY <1>1, <1>3 DEF HearingInv, PanelOK, Stops
  <2> QED
    BY <1>1, <1>2, <2>1 DEF Shown, AnyPhase, PanelPhases
<1>8. /\ helperExit' \in [of : 0 .. MaxSessions, task : {"none", "helper", "init"}, waiting : BOOLEAN]
      /\ \/ helperExit'.of = 0 /\ ~Alive(s)
         \/ helperExit'.of = g /\ helperExit'.task = "helper" /\ s.init = "ended"
         \/ helperExit'.of = g /\ helperExit'.task = "init" /\ s.run = "none"
  <2>1. CASE holder.late = {}
    BY <1>1, <1>3, <2>1 DEF ExitToAwait, HearingInv, TaskInv, HearingTypes, Alive
  <2>2. CASE holder.late # {}
    <3> DEFINE task == CHOOSE x \in holder.late : TRUE
    <3>1. task \in holder.late
      BY <2>2
    <3>2. g \in 0 .. MaxSessions
      BY <1>2
    <3> HIDE DEF task
    <3>3. helperExit' = [of |-> g, task |-> task, waiting |-> FALSE]
      BY <1>1, <2>2 DEF ExitToAwait, task
    <3>4. \/ task = "helper" /\ s.init = "ended"
          \/ task = "init" /\ s.run = "none"
      BY <1>3, <2>2, <3>1
    <3> QED
      BY <3>2, <3>3, <3>4
  <2> QED
    BY <2>1, <2>2
<1>9. HearingTypes' /\ (\A h \in Sessions : TasksOK(session[h]))'
  BY <1>1, <1>5, <1>6, <1>7, <1>8 DEF HearingInv, TaskInv, HearingTypes, TasksOK
<1>10. AliveOK'
  <2>1. ASSUME NEW h \in Sessions, Alive(session[h]) PROVE h = g
    BY <1>3, <2>1 DEF HearingInv, TaskInv, AliveOK
  <2> QED
    BY <1>1, <1>5, <1>8, <2>1 DEF AliveOK, Alive
<1>11. PhaseOK'
  BY <1>1, <1>3, <1>5 DEF HearingInv, TaskInv, PhaseOK
<1>12. ExitOK'
  BY <1>1, <1>5, <1>8 DEF ExitOK
<1>13. HolderOK'
  BY <1>1, <1>3, <1>5, <1>6 DEF HearingInv, TaskInv, HolderOK, Stops
<1>14. QueueOK' /\ DeletedStaysDeleted'
  BY <1>1 DEF HearingInv, TaskInv, QueueOK, DeletedStaysDeleted
<1>15. PanelOK'
  BY <1>1, <1>3, <1>5, <1>6, <1>7 DEF HearingInv, PanelOK, Stops
<1>16. ClaimOK'
  BY <1>1, <1>5, <1>6, <1>7 DEF HearingInv, ClaimOK, ClaimsHearing
<1> QED
  BY <1>9, <1>10, <1>11, <1>12, <1>13, <1>14, <1>15, <1>16 DEF HearingInv, TaskInv

LEMMA FreeLockTyped ==
    /\ FreeLock \in [pc : {"free", "next"} \cup Stops, gen : 0 .. MaxSessions,
                     next : {"none"} \cup StopReasons, late : SUBSET {"helper", "init"}]
    /\ FreeLock.pc = "free" /\ FreeLock.gen = 0
<1>1. 0 \in 0 .. MaxSessions
  BY HearingAssumption
<1> QED
  BY <1>1 DEF FreeLock

(* A new session starts when nothing of the last may still run.            *)
LEMMA StartLockedKeeps == ASSUME HearingInv, StartLocked PROVE HearingInv'
<1>1. /\ holder.pc = "next" /\ holder.next = "start" /\ holder' = FreeLock
      /\ UNCHANGED <<wanted, asked, restarts, wiped, overdue, hearingBounds>>
  BY DEF StartLocked
<1>2. lifecycle.phase = "idle"
  BY <1>1 DEF HearingInv, TaskInv, HolderOK
<1>3. /\ holder' \in [pc : {"free", "next"} \cup Stops, gen : 0 .. MaxSessions,
                      next : {"none"} \cup StopReasons, late : SUBSET {"helper", "init"}]
      /\ holder'.pc = "free" /\ holder'.gen \notin Sessions
  BY <1>1, FreeLockTyped DEF Sessions
<1>4. CASE helperExit.of # 0
  <2>1. helperExit' = [helperExit EXCEPT !.waiting = TRUE] /\ UNCHANGED <<lifecycle, session, panel>>
    BY <1>4 DEF StartLocked
  <2>2. /\ helperExit' \in [of : 0 .. MaxSessions, task : {"none", "helper", "init"}, waiting : BOOLEAN]
        /\ helperExit'.of = helperExit.of /\ helperExit'.task = helperExit.task
    BY <2>1 DEF HearingInv, TaskInv, HearingTypes
  <2>3. HearingTypes' /\ (\A h \in Sessions : TasksOK(session[h]))'
    BY <1>1, <1>3, <2>1, <2>2 DEF HearingInv, TaskInv, HearingTypes, TasksOK
  <2>4. AliveOK' /\ PhaseOK' /\ ExitOK'
    BY <1>1, <1>2, <2>1, <2>2 DEF HearingInv, TaskInv, AliveOK, Alive, PhaseOK, ExitOK
  <2>5. HolderOK' /\ QueueOK' /\ DeletedStaysDeleted'
    BY <1>1, <1>2, <1>3, <2>1 DEF HearingInv, TaskInv, HolderOK, QueueOK, DeletedStaysDeleted, Stops
  <2>6. PanelOK' /\ ClaimOK'
    BY <1>1, <1>2, <1>3, <1>4, <2>1, <2>2 DEF HearingInv, PanelOK, ClaimOK, ClaimsHearing, Stops
  <2> QED
    BY <2>3, <2>4, <2>5, <2>6 DEF HearingInv, TaskInv
<1>5. CASE helperExit.of = 0
  <2> DEFINE g == lifecycle.gen + 1
             t == [NewSession EXCEPT !.init = "permission", !.settings = wanted.settings]
  <2>1. /\ g \in Sessions /\ lifecycle' = [phase |-> "starting", gen |-> g]
        /\ session' = [session EXCEPT ![g] = t]
        /\ panel' = [phase |-> "starting", gen |-> g] /\ UNCHANGED helperExit
    BY <1>5 DEF StartLocked
  <2>2. /\ t \in SessionType /\ t.init = "permission" /\ t.run = "none" /\ t.helper = "none"
        /\ ~t.cancelled /\ t.queue = 0
    <3>1. NewSession \in SessionType /\ wanted.settings \in Settings
      BY NewSessionTyped DEF HearingInv, TaskInv, HearingTypes
    <3>2. /\ NewSession.run = "none" /\ NewSession.helper = "none" /\ ~NewSession.cancelled
          /\ NewSession.queue = 0
      BY DEF NewSession
    <3> QED
      BY <3>1, <3>2 DEF SessionType, InitSteps
  <2>3. TasksOK(t)
    BY <2>2 DEF TasksOK
  <2> HIDE DEF t
  <2>4. lifecycle.gen \in Nat /\ wiped \in Nat /\ wiped <= lifecycle.gen /\ wiped < g
        /\ g # lifecycle.gen /\ g \in 0 .. MaxSessions
    BY <2>1, HearingAssumption DEF HearingInv, TaskInv, HearingTypes, PhaseOK, Sessions
  <2> HIDE DEF g
  <2>5. session'[g] = t /\ \A h \in Sessions : h # g => session'[h] = session[h]
    BY <2>1 DEF HearingInv, TaskInv, HearingTypes
  <2>6. ASSUME NEW h \in Sessions PROVE ~Alive(session[h])
    BY <1>2, <1>5 DEF HearingInv, TaskInv, AliveOK, Sessions
  <2>7. HearingTypes'
    <3>1. session' \in [Sessions -> SessionType]
      BY <2>1, <2>2 DEF HearingInv, TaskInv, HearingTypes
    <3>2. \A h \in Sessions : session'[h].queue <= hearingBounds'.finals
      BY <1>1, <2>2, <2>5, HearingAssumption DEF HearingInv, TaskInv, HearingTypes
    <3>3. /\ lifecycle' \in [phase : {"idle", "starting", "listening", "stopping"}, gen : 0 .. MaxSessions]
          /\ panel' \in [phase : PanelPhases, gen : 0 .. MaxSessions]
      BY <2>1, <2>4 DEF PanelPhases
    <3> QED
      BY <1>1, <1>3, <2>1, <3>1, <3>2, <3>3 DEF HearingInv, TaskInv, HearingTypes
  <2>8. (\A h \in Sessions : TasksOK(session[h]))'
    BY <2>3, <2>5 DEF HearingInv, TaskInv, TasksOK
  <2>9. AliveOK'
    <3>1. ASSUME NEW h \in Sessions, Alive(session'[h]) PROVE h = g
      BY <2>5, <2>6, <3>1
    <3> QED
      BY <2>1, <3>1 DEF AliveOK, Alive
  <2>10. PhaseOK'
    BY <1>1, <1>5, <2>1, <2>2, <2>4, <2>5 DEF PhaseOK
  <2>11. ExitOK'
    BY <1>5, <2>1 DEF ExitOK
  <2>12. HolderOK'
    BY <1>3 DEF HolderOK, Stops
  <2>13. ASSUME NEW h \in Sessions, session'[h].queue > 0 PROVE h # g /\ h \in overdue
    BY <1>2, <2>2, <2>5, <2>13 DEF HearingInv, TaskInv, QueueOK
  <2>14. QueueOK' /\ DeletedStaysDeleted'
    BY <1>1, <2>13 DEF QueueOK, DeletedStaysDeleted
  <2>15. PanelOK'
    BY <1>3, <1>5, <2>1 DEF PanelOK, Stops
  <2>16. ClaimOK'
    BY <1>1, <1>3, <2>1 DEF HearingInv, ClaimOK
  <2> QED
    BY <2>7, <2>8, <2>9, <2>10, <2>11, <2>12, <2>14, <2>15, <2>16 DEF HearingInv, TaskInv
<1> QED
  BY <1>4, <1>5

(* The day is deleted, hearing is off, or it starts over.                  *)
LEMMA ProceedKeeps == ASSUME HearingInv, Proceed PROVE HearingInv'
<1>1. /\ holder.pc = "next" /\ holder' = FreeLock /\ wiped' \in {wiped, lifecycle.gen}
      /\ panel' = panel \/ panel' = [panel EXCEPT !.phase = "off"]
      /\ UNCHANGED <<wanted, lifecycle, helperExit, session, overdue, hearingBounds>>
      /\ asked' \in {asked, asked \cup {"sync"}}
  BY DEF Proceed
<1>2. lifecycle.phase = "idle" /\ holder.next # "none"
  BY <1>1 DEF HearingInv, TaskInv, HolderOK
<1>3. /\ holder' \in [pc : {"free", "next"} \cup Stops, gen : 0 .. MaxSessions,
                      next : {"none"} \cup StopReasons, late : SUBSET {"helper", "init"}]
      /\ holder'.pc = "free" /\ holder'.gen \notin Sessions
  BY <1>1, FreeLockTyped DEF Sessions
<1>4. /\ panel' \in [phase : PanelPhases, gen : 0 .. MaxSessions] /\ panel'.gen = panel.gen
      /\ panel' = panel \/ panel'.phase = "off"
  BY <1>1 DEF HearingInv, TaskInv, HearingTypes, PanelPhases
<1>5. restarts' \in [attempts : 0 .. RestartLimit, timers : SUBSET Settings]
  BY HearingAssumption DEF Proceed, HearingInv, TaskInv, HearingTypes
<1>6. HearingTypes' /\ (\A h \in Sessions : TasksOK(session[h]))'
  BY <1>1, <1>3, <1>4, <1>5 DEF HearingInv, TaskInv, HearingTypes, TasksOK
<1>7. AliveOK' /\ ExitOK'
  BY <1>1 DEF HearingInv, TaskInv, AliveOK, Alive, ExitOK
<1>8. PhaseOK'
  BY <1>1, <1>2 DEF HearingInv, TaskInv, HearingTypes, PhaseOK
<1>9. HolderOK' /\ QueueOK'
  BY <1>1, <1>2, <1>3 DEF HearingInv, TaskInv, HolderOK, QueueOK, Stops
<1>10. DeletedStaysDeleted'
  BY <1>1, <1>2 DEF HearingInv, TaskInv, QueueOK, DeletedStaysDeleted
<1>11. PanelOK'
  BY <1>1, <1>3, <1>4 DEF HearingInv, PanelOK, Stops
<1>12. ClaimOK'
  <2>1. /\ holder.next = "inactive" => panel'.phase = "off"
        /\ holder.next \in Interruptions => "sync" \in asked'
        /\ holder.next # "start"
    BY DEF Proceed, HearingInv, TaskInv, HearingTypes
  <2>2. holder.next \in StopReasons
    BY <1>2 DEF HearingInv, TaskInv, HearingTypes
  <2>3. holder.next \in {"inactive", "deactivate"} \cup Interruptions
    BY <2>1, <2>2 DEF StopReasons
  <2> QED
    BY <1>1, <1>2, <1>3, <1>4, <2>1, <2>3 DEF HearingInv, ClaimOK, ClaimsHearing, Handled, Stops
<1> QED
  BY <1>6, <1>7, <1>8, <1>9, <1>10, <1>11, <1>12 DEF HearingInv, TaskInv

(* What may still have run is gone, and hearing is reconciled.             *)
LEMMA ExitKeeps == ASSUME HearingInv, HelperExitConfirmed PROVE HearingInv'
<1> DEFINE s == session[helperExit.of]
<1>1. /\ helperExit.of # 0 /\ helperExit' = NoExit /\ asked' = asked \cup {"sync"}
      /\ IF helperExit.task = "helper" THEN s.helper = "exited" ELSE s.init = "ended"
      /\ UNCHANGED <<wanted, lifecycle, session, holder, restarts, panel, wiped, overdue, hearingBounds>>
  BY DEF HelperExitConfirmed
<1>2. /\ helperExit.of \in Sessions /\ helperExit.task \in {"helper", "init"} /\ lifecycle.phase = "idle"
      /\ helperExit.task = "init" => s.run = "none"
      /\ helperExit.task = "helper" => s.init = "ended"
  BY <1>1, HearingAssumption DEF HearingInv, TaskInv, HearingTypes, ExitOK, PhaseOK, Sessions
<1>3. ~Alive(s)
  BY <1>1, <1>2, TaskFacts DEF TasksOK, Alive
<1>4. /\ helperExit' \in [of : 0 .. MaxSessions, task : {"none", "helper", "init"}, waiting : BOOLEAN]
      /\ helperExit'.of = 0
  BY <1>1, HearingAssumption DEF NoExit
<1>5. HearingTypes' /\ (\A h \in Sessions : TasksOK(session[h]))'
  BY <1>1, <1>4 DEF HearingInv, TaskInv, HearingTypes, TasksOK
<1>6. AliveOK'
  <2>1. ASSUME NEW h \in Sessions PROVE ~Alive(session[h])
    BY <1>2, <1>3 DEF HearingInv, TaskInv, AliveOK
  <2> QED
    BY <1>1, <2>1 DEF AliveOK, Alive
<1>7. PhaseOK' /\ ExitOK'
  BY <1>1, <1>4 DEF HearingInv, TaskInv, PhaseOK, ExitOK
<1>8. HolderOK'
  BY <1>1, <1>4 DEF HearingInv, TaskInv, HolderOK, Alive
<1>9. QueueOK' /\ DeletedStaysDeleted'
  BY <1>1 DEF HearingInv, TaskInv, QueueOK, DeletedStaysDeleted
<1>10. PanelOK'
  BY <1>1, <1>4 DEF HearingInv, PanelOK
<1>11. ClaimOK'
  BY <1>1 DEF ClaimOK, Handled
<1> QED
  BY <1>5, <1>6, <1>7, <1>8, <1>9, <1>10, <1>11 DEF HearingInv, TaskInv

----------------------------------------------------------------------------
LEMMA HearingInitially == HearingInit => HearingInv
<1> SUFFICES ASSUME HearingInit PROVE HearingInv
  OBVIOUS
<1>1. session = [g \in Sessions |-> NewSession] /\ lifecycle = [phase |-> "idle", gen |-> 0]
      /\ holder = FreeLock /\ helperExit = NoExit /\ asked = {} /\ wiped = 0 /\ overdue = {}
      /\ panel = [phase |-> "off", gen |-> 0] /\ restarts = [attempts |-> 0, timers |-> {}]
      /\ hearingBounds = [requests |-> 0, faults |-> 0, finals |-> 0]
  BY DEF HearingInit
<1>2. 0 \in 0 .. MaxSessions /\ 0 \notin Sessions /\ 0 \in 0 .. RestartLimit /\ 0 \in 0 .. MaxFinals
  BY HearingAssumption DEF Sessions
<1>3. /\ NewSession.init = "none" /\ NewSession.run = "none" /\ NewSession.helper = "none"
      /\ ~NewSession.cancelled /\ NewSession.queue = 0
  BY DEF NewSession
<1>4. wanted \in [enabled : BOOLEAN, active : BOOLEAN, settings : Settings]
  <2>1. (CHOOSE s \in Settings : TRUE) \in Settings
    BY HearingAssumption
  <2> QED
    BY <2>1 DEF HearingInit
<1>5. HearingTypes
  <2>1. session \in [Sessions -> SessionType] /\ \A g \in Sessions : session[g].queue <= hearingBounds.finals
    BY <1>1, <1>3, NewSessionTyped
  <2>2. /\ helperExit \in [of : 0 .. MaxSessions, task : {"none", "helper", "init"}, waiting : BOOLEAN]
        /\ panel \in [phase : PanelPhases, gen : 0 .. MaxSessions]
    BY <1>1, <1>2 DEF NoExit, PanelPhases
  <2>3. /\ lifecycle \in [phase : {"idle", "starting", "listening", "stopping"}, gen : 0 .. MaxSessions]
        /\ restarts \in [attempts : 0 .. RestartLimit, timers : SUBSET Settings]
        /\ hearingBounds \in [requests : Nat, faults : Nat, finals : 0 .. MaxFinals]
    BY <1>1, <1>2
  <2> QED
    BY <1>1, <1>2, <1>4, <2>1, <2>2, <2>3, FreeLockTyped DEF HearingTypes
<1>6. \A g \in Sessions : TasksOK(session[g]) /\ ~Alive(session[g])
  BY <1>1, <1>3 DEF TasksOK, Alive
<1>7. AliveOK /\ PhaseOK /\ ExitOK
  BY <1>1, <1>2, <1>6 DEF AliveOK, PhaseOK, ExitOK, NoExit
<1>8. HolderOK /\ QueueOK /\ DeletedStaysDeleted
  BY <1>1, <1>2, <1>3, FreeLockTyped DEF HolderOK, QueueOK, DeletedStaysDeleted, Stops
<1>9. PanelOK /\ ClaimOK
  BY <1>1, <1>2, FreeLockTyped DEF PanelOK, ClaimOK, ClaimsHearing, Stops, NoExit
<1> QED
  BY <1>5, <1>6, <1>7, <1>8, <1>9 DEF HearingInv, TaskInv

LEMMA HearingStep == HearingInv /\ [HearingNext]_hearingVars => HearingInv'
<1> SUFFICES ASSUME HearingInv, [HearingNext]_hearingVars PROVE HearingInv'
  OBVIOUS
<1>1. CASE LockHolder
  BY <1>1, LockTakenKeeps, WaitKeeps, FinishStopKeeps, StartLockedKeeps, ProceedKeeps DEF LockHolder
<1>2. CASE HelperExitConfirmed
  BY <1>2, ExitKeeps
<1>3. CASE \/ \E s \in Settings : RestartDue(s) \/ \E enabled \in BOOLEAN : Want(enabled, s)
           \/ Deactivate \/ \E request \in Interruptions : Ask(request)
  BY <1>3, HearingRequestKeeps
<1>4. CASE \E g \in Sessions : SessionTask(g) \/ Ready(g) \/ Hear(g) \/ Save(g) \/ HelperEnds(g)
  <2>1. PICK g \in Sessions : SessionTask(g) \/ Ready(g) \/ Hear(g) \/ Save(g) \/ HelperEnds(g)
    BY <1>4
  <2>2. CASE SessionTask(g)
    BY <2>2, PreparedKeeps, HelperStartsKeeps, AttachKeeps, CutEndsKeeps, InitFailsKeeps, ShownKeeps,
       RunEndsKeeps, DrainedKeeps, SessionFailsKeeps DEF SessionTask
  <2> QED
    BY <2>1, <2>2, ReadyKeeps, HearKeeps, SaveKeeps, HelperEndsKeeps
<1>5. CASE UNCHANGED hearingVars
  <2>1. UNCHANGED <<wanted, lifecycle, helperExit, session, holder, asked, restarts, panel,
                    wiped, overdue, hearingBounds>>
    BY <1>5 DEF hearingVars
  <2> QED
    BY <2>1, AskedOfHearingKeeps DEF HearingInv, TaskInv, HearingTypes
<1> QED
  BY <1>1, <1>2, <1>3, <1>4, <1>5 DEF HearingNext

(* The tasks, the lock and the view stay in step.                          *)
LEMMA HearingInvariant == HearingSpec => []HearingInv
BY HearingInitially, HearingStep, PTL DEF HearingSpec

(* Every variable of hearing keeps its type, whatever the requests, the    *)
(* failures and the waits that reach their limit.                          *)
THEOREM HearingTyped == HearingSpec => []HearingTypeOK
<1>1. HearingInv => HearingTypeOK
  <2> SUFFICES ASSUME HearingInv PROVE HearingTypeOK
    OBVIOUS
  <2>1. /\ wanted \in [enabled : BOOLEAN, active : BOOLEAN, settings : Settings]
        /\ lifecycle \in [phase : {"idle", "starting", "listening", "stopping"}, gen : 0 .. MaxSessions]
        /\ helperExit \in [of : 0 .. MaxSessions, task : {"none", "helper", "init"}, waiting : BOOLEAN]
        /\ restarts \in [attempts : 0 .. RestartLimit, timers : SUBSET Settings]
        /\ panel.phase \in PanelPhases
    BY DEF HearingInv, TaskInv, HearingTypes
  <2>2. holder.pc \in {"free", "helper", "init", "saving", "finish", "next"}
    BY DEF HearingInv, TaskInv, HearingTypes, Stops
  <2>3. ASSUME NEW g \in Sessions
        PROVE  /\ session[g].init \in InitSteps /\ session[g].run \in RunSteps
               /\ session[g].helper \in {"none", "running", "exited"}
               /\ session[g].queue \in 0 .. MaxFinals
    <3>1. session[g] \in SessionType /\ session[g].queue <= hearingBounds.finals
          /\ hearingBounds.finals \in 0 .. MaxFinals
      BY DEF HearingInv, TaskInv, HearingTypes
    <3> QED
      BY <3>1, HearingAssumption DEF SessionType
  <2> QED
    BY <2>1, <2>2, <2>3 DEF HearingTypeOK, InitSteps, RunSteps, PanelPhases
<1> QED
  BY <1>1, HearingInvariant, PTL

(* Two helpers never listen at once: one that runs is of the last session, *)
(* and another begins only when nothing that could run is left.            *)
THEOREM HelpersTakeTurns == HearingSpec => []OneHelper
<1>1. HearingInv => OneHelper
  <2> SUFFICES ASSUME HearingInv PROVE OneHelper
    OBVIOUS
  <2> DEFINE running == {g \in Sessions : session[g].helper = "running"}
  <2>1. running \subseteq {lifecycle.gen}
    BY DEF HearingInv, TaskInv, AliveOK, Alive
  <2>2. IsFiniteSet({lifecycle.gen}) /\ Cardinality({lifecycle.gen}) = 1
    BY FS_Singleton
  <2>3. Cardinality(running) <= Cardinality({lifecycle.gen})
    BY <2>1, <2>2, FS_Subset
  <2> QED
    BY <2>2, <2>3 DEF OneHelper
<1> QED
  BY <1>1, HearingInvariant, PTL

(* What was heard before a day was deleted is saved before the deletion, or *)
(* its session was given up waiting for.                                   *)
THEOREM DeletionWaits == HearingSpec => []DeletedStaysDeleted
<1>1. HearingInv => DeletedStaysDeleted
  BY DEF HearingInv, TaskInv
<1> QED
  BY <1>1, HearingInvariant, PTL

(* A view that claims a session which is over is about to be corrected.    *)
THEOREM ViewTellsTheTruth == HearingSpec => []ViewIsTrue
<1>1. HearingInv => ViewIsTrue
  BY DEF HearingInv, ClaimOK, ClaimsHearing, Handled, ViewIsTrue, Stops
<1> QED
  BY <1>1, HearingInvariant, PTL
==============================================================================
