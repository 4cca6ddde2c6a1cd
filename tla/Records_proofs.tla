--------------------------- MODULE Records_proofs ----------------------------
(***************************************************************************)
(* Proofs about ConversationReset, for any attachments, days and resets:   *)
(* what a reset of the conversation that is cut short, repeated or refused *)
(* may not lose; about MemoryJobs, for any days, weeks and runs: what the  *)
(* calls of the memory are spent on; and about SpeakerNaming, for any      *)
(* names, proposals, versions and faults: which name a voice may carry,    *)
(* and that the cards of the proposals are true.                           *)
(***************************************************************************)
EXTENDS ConversationReset, MemoryJobs, SpeakerNaming, LeastNumbers, FiniteSetTheorems, TLAPS


WaitingType == [Pictured -> [image : 0 .. MaxDays, generation : 0 .. MaxResets]]
ResetSteps == {"down", "up", "refused", "conversation", "attachments", "carry", "cursor", "generation",
          "finish", "again"}

ResetTypes ==
    /\ today \in Days
    /\ live \in Folders /\ shelf \in [Keys -> Folders]
    /\ waiting \in WaitingType
    /\ generations \in [latest : 0 .. MaxResets, selected : 0 .. MaxResets, mark : 0 .. MaxResets]
    /\ intent \in [key : 0 .. MaxResets, target : 0 .. MaxResets, mark : 0 .. MaxResets,
                   archive : BOOLEAN, carry : BOOLEAN]
    /\ reset \in [step : ResetSteps, carried : WaitingType, starting : BOOLEAN,
                  asked : {"none", "reset", "archive"}]
    /\ resetBounds \in [resets : 0 .. MaxResets, faults : Nat, entries : 0 .. MaxEntries,
                        sent : SUBSET Pictured]
    /\ generations.selected <= generations.latest
    /\ generations.latest <= resetBounds.resets /\ generations.mark <= resetBounds.resets
    /\ intent.target <= resetBounds.resets /\ intent.mark <= resetBounds.resets

(* The messages of a queue that wait find their images where they say: in  *)
(* the folders of the conversation, or in the archive of a key.            *)
ImagesLive(items) ==
    \A i \in Pictured : items[i] # NotWaiting
        => items[i].image \in Days /\ i \in live.attachments[items[i].image]
ImagesShelved(items, k) ==
    \A i \in Pictured : items[i] # NotWaiting
        => items[i].image \in Days /\ i \in shelf[k].attachments[items[i].image]
ImagesReachable(items, k) ==
    \A i \in Pictured : items[i] # NotWaiting
        => /\ items[i].image \in Days
           /\ \/ i \in live.attachments[items[i].image]
              \/ i \in shelf[k].attachments[items[i].image]

(* Every step but the first of a repeated request is one of the intent.    *)
IntentOK ==
    /\ intent # NoIntent => intent.key \in Keys
    /\ intent.carry => intent # NoIntent
    /\ reset.step \in {"conversation", "attachments", "carry", "cursor", "generation", "finish"}
          => intent # NoIntent
    /\ reset.step = "again" => intent = NoIntent
    /\ reset.step = "carry" => intent.carry
    /\ intent.carry => intent.archive

(* Until the cursor is reset the queue is what was read before the first   *)
(* move, or nothing is carried; what is carried is rebased before that.    *)
CarriedOK ==
    /\ reset.step \in {"conversation", "attachments", "carry"}
          => reset.carried = IF intent.carry THEN waiting ELSE NoReset.carried
    /\ reset.step = "carry" => ImagesShelved(waiting, intent.key)
    /\ reset.step = "cursor" => ImagesLive(reset.carried)
    /\ reset.step \in {"generation", "finish"} => ImagesLive(waiting)

WaitingOK ==
    /\ intent = NoIntent => ImagesLive(waiting)
    /\ intent.carry => ImagesReachable(waiting, intent.key)

StoredOK ==
    /\ 1 .. resetBounds.entries \subseteq Kept("conversation")
    /\ resetBounds.sent \subseteq Kept("attachments")

ResetInv == ResetTypes /\ IntentOK /\ CarriedOK /\ WaitingOK /\ StoredOK

----------------------------------------------------------------------------
LEMMA NoResetTyped ==
    /\ NotWaiting \in [image : 0 .. MaxDays, generation : 0 .. MaxResets]
    /\ NoReset.carried \in WaitingType
    /\ \A i \in Pictured : NoReset.carried[i] = NotWaiting
    /\ NoIntent \in [key : 0 .. MaxResets, target : 0 .. MaxResets, mark : 0 .. MaxResets,
                     archive : BOOLEAN, carry : BOOLEAN]
    /\ ~NoIntent.carry
BY ResetAssumption DEF NotWaiting, NoReset, WaitingType, NoIntent

LEMMA StepTyped ==
    ASSUME NEW s \in ResetSteps, NEW a \in {"none", "reset", "archive"}
    PROVE  /\ [NoReset EXCEPT !.step = s] \in [step : ResetSteps, carried : WaitingType, starting : BOOLEAN,
                                               asked : {"none", "reset", "archive"}]
           /\ [NoReset EXCEPT !.step = s].step = s
           /\ [NoReset EXCEPT !.step = s, !.asked = a]
                  \in [step : ResetSteps, carried : WaitingType, starting : BOOLEAN,
                       asked : {"none", "reset", "archive"}]
           /\ [NoReset EXCEPT !.step = s, !.asked = a].step = s
BY NoResetTyped DEF NoReset

LEMMA ExecutingMoves ==
    ASSUME ResetTypes, NEW i \in [key : 0 .. MaxResets, target : 0 .. MaxResets, mark : 0 .. MaxResets,
                                  archive : BOOLEAN, carry : BOOLEAN],
           NEW starting \in BOOLEAN, NEW asked \in {"none", "reset", "archive"},
           Executing(i, starting, asked)
    PROVE  /\ reset' \in [step : ResetSteps, carried : WaitingType, starting : BOOLEAN,
                          asked : {"none", "reset", "archive"}]
           /\ reset'.step = IF i.archive THEN "conversation" ELSE "cursor"
           /\ reset'.carried = IF i.carry THEN waiting ELSE NoReset.carried
<1>1. (IF i.carry THEN waiting ELSE NoReset.carried) \in WaitingType
  BY NoResetTyped DEF ResetTypes
<1>2. (IF i.archive THEN "conversation" ELSE "cursor") \in ResetSteps
  BY DEF ResetSteps
<1> QED
  BY <1>1, <1>2 DEF Executing

(* An intent that is executed anew, whether it was left or is new.         *)
LEMMA ExecutingKeeps ==
    ASSUME ResetTypes, IntentOK, WaitingOK, StoredOK,
           NEW starting \in BOOLEAN, NEW asked \in {"none", "reset", "archive"},
           Executing(intent', starting, asked), UNCHANGED <<today, live, shelf, waiting, generations>>,
           intent' \in [key : 0 .. MaxResets, target : 0 .. MaxResets, mark : 0 .. MaxResets,
                        archive : BOOLEAN, carry : BOOLEAN],
           intent' # NoIntent, intent'.key \in Keys, intent'.carry => intent'.archive,
           intent'.carry => ImagesReachable(waiting, intent'.key),
           resetBounds' \in [resets : 0 .. MaxResets, faults : Nat, entries : 0 .. MaxEntries,
                             sent : SUBSET Pictured],
           resetBounds'.resets >= resetBounds.resets,
           resetBounds'.entries = resetBounds.entries, resetBounds'.sent = resetBounds.sent,
           intent'.target <= resetBounds'.resets, intent'.mark <= resetBounds'.resets
    PROVE  ResetInv'
<1>1. /\ reset' \in [step : ResetSteps, carried : WaitingType, starting : BOOLEAN,
                     asked : {"none", "reset", "archive"}]
      /\ reset'.step = IF intent'.archive THEN "conversation" ELSE "cursor"
      /\ reset'.carried = IF intent'.carry THEN waiting ELSE NoReset.carried
  BY ExecutingMoves
<1>2. ResetTypes'
  <2>1. generations'.latest <= resetBounds'.resets /\ generations'.mark <= resetBounds'.resets
    BY ResetAssumption DEF ResetTypes
  <2> QED
    BY <1>1, <2>1 DEF ResetTypes
<1>3. IntentOK'
  BY <1>1 DEF IntentOK
<1>4. CarriedOK'
  <2>1. ~intent'.carry => ImagesLive(reset.carried)'
    BY <1>1, NoResetTyped DEF ImagesLive
  <2> QED
    BY <1>1, <2>1 DEF CarriedOK, ImagesLive
<1>5. WaitingOK' /\ StoredOK'
  BY DEF WaitingOK, StoredOK, ImagesReachable, Kept
<1> QED
  BY <1>2, <1>3, <1>4, <1>5 DEF ResetInv

LEMMA NewIntentKeeps ==
    ASSUME ResetInv, intent = NoIntent, NEW archive \in BOOLEAN, NEW carry \in BOOLEAN,
           carry => archive, NewIntent(archive, carry), UNCHANGED <<today, live, shelf, waiting, generations>>
    PROVE  ResetInv'
<1> DEFINE n == resetBounds.resets + 1
<1>1. n \in 0 .. MaxResets /\ n \in Keys /\ n > resetBounds.resets
  <2>1. resetBounds.resets \in 0 .. MaxResets /\ resetBounds.resets < MaxResets
    BY DEF NewIntent, ResetInv, ResetTypes
  <2> QED
    BY <2>1, ResetAssumption DEF Keys
<1>2. /\ generations.latest + 1 \in 0 .. MaxResets /\ generations.mark + 1 \in 0 .. MaxResets
      /\ generations.latest + 1 <= n /\ generations.mark + 1 <= n
  BY <1>1, ResetAssumption DEF ResetInv, ResetTypes
<1>3. /\ intent' = [key |-> n, target |-> generations.latest + 1, mark |-> generations.mark + 1,
                    archive |-> archive, carry |-> carry]
      /\ resetBounds' = [resetBounds EXCEPT !.resets = n]
      /\ Executing(intent', FALSE, "none")
  BY DEF NewIntent, ResetInv, ResetTypes
<1>4. resetBounds' \in [resets : 0 .. MaxResets, faults : Nat, entries : 0 .. MaxEntries,
                        sent : SUBSET Pictured]
      /\ resetBounds'.resets = n
      /\ resetBounds'.entries = resetBounds.entries /\ resetBounds'.sent = resetBounds.sent
  BY <1>1, <1>3 DEF ResetInv, ResetTypes
<1>5. /\ intent' \in [key : 0 .. MaxResets, target : 0 .. MaxResets, mark : 0 .. MaxResets,
                      archive : BOOLEAN, carry : BOOLEAN]
      /\ intent'.key = n /\ intent'.target <= n /\ intent'.mark <= n
      /\ intent'.carry = carry /\ intent'.archive = archive /\ intent' # NoIntent
  <2> HIDE DEF n
  <2> QED
    BY <1>1, <1>2, <1>3 DEF NoIntent, Keys
<1>6. ImagesReachable(waiting, n)
  BY DEF ResetInv, WaitingOK, ImagesLive, ImagesReachable
<1> HIDE DEF n
<1>7. resetBounds'.resets >= resetBounds.resets /\ "none" \in {"none", "reset", "archive"} /\ FALSE \in BOOLEAN
  BY <1>1, <1>4 DEF ResetInv, ResetTypes
<1> QED
  BY <1>1, <1>3, <1>4, <1>5, <1>6, <1>7, ExecutingKeeps DEF ResetInv

(* The intent left behind is executed again.                               *)
LEMMA ReplayKeeps ==
    ASSUME ResetInv, intent # NoIntent, NEW starting \in BOOLEAN, NEW asked \in {"none", "reset", "archive"},
           Executing(intent, starting, asked),
           UNCHANGED <<today, live, shelf, waiting, generations, intent, resetBounds>>
    PROVE  ResetInv'
<1>1. resetBounds'.resets >= resetBounds.resets
  BY DEF ResetInv, ResetTypes
<1>2. /\ ResetTypes' => resetBounds.resets \in 0 .. MaxResets
      /\ intent' \in [key : 0 .. MaxResets, target : 0 .. MaxResets, mark : 0 .. MaxResets,
                      archive : BOOLEAN, carry : BOOLEAN]
      /\ intent' # NoIntent /\ intent'.key \in Keys /\ (intent'.carry => intent'.archive)
      /\ (intent'.carry => ImagesReachable(waiting, intent'.key))
      /\ intent'.target <= resetBounds'.resets /\ intent'.mark <= resetBounds'.resets
      /\ resetBounds' \in [resets : 0 .. MaxResets, faults : Nat, entries : 0 .. MaxEntries,
                           sent : SUBSET Pictured]
  BY DEF ResetInv, ResetTypes, IntentOK, WaitingOK
<1> QED
  BY <1>1, <1>2, ExecutingKeeps DEF ResetInv

LEMMA AskKeeps ==
    ASSUME ResetInv, NEW archive \in BOOLEAN, AskReset(archive) PROVE ResetInv'
<1>1. UNCHANGED <<today, live, shelf, waiting, generations>>
  BY DEF AskReset
<1>2. CASE intent = NoIntent
  BY <1>1, <1>2, NewIntentKeeps DEF AskReset
<1>3. CASE intent # NoIntent
  <2>1. Executing(intent, FALSE, IF archive THEN "archive" ELSE "reset") /\ UNCHANGED <<intent, resetBounds>>
    BY <1>3 DEF AskReset
  <2>2. (IF archive THEN "archive" ELSE "reset") \in {"none", "reset", "archive"}
    OBVIOUS
  <2> QED
    BY <1>1, <1>3, <2>1, <2>2, ReplayKeeps
<1> QED
  BY <1>2, <1>3

LEMMA AskedKeeps ==
    ASSUME ResetInv, AskedReset PROVE ResetInv'
<1>1. /\ UNCHANGED <<today, live, shelf, waiting, generations>>
      /\ NewIntent(reset.asked = "archive", FALSE) /\ intent = NoIntent
  BY DEF AskedReset, ResetInv, IntentOK
<1> QED
  BY <1>1, NewIntentKeeps

(* A change of the step alone, to one that needs nothing.                  *)
LEMMA StepKeeps ==
    ASSUME ResetInv, NEW s \in {"down", "up", "refused"}, reset' = [NoReset EXCEPT !.step = s],
           UNCHANGED <<today, live, shelf, waiting, generations, intent>>,
           resetBounds' = resetBounds \/ ResetFault
    PROVE  ResetInv'
<1>1. s \in ResetSteps /\ "none" \in {"none", "reset", "archive"}
  BY DEF ResetSteps
<1>2. reset' \in [step : ResetSteps, carried : WaitingType, starting : BOOLEAN,
                  asked : {"none", "reset", "archive"}] /\ reset'.step = s
  BY <1>1, StepTyped
<1>3. /\ resetBounds' \in [resets : 0 .. MaxResets, faults : Nat, entries : 0 .. MaxEntries,
                           sent : SUBSET Pictured]
      /\ resetBounds'.resets = resetBounds.resets
      /\ resetBounds'.entries = resetBounds.entries /\ resetBounds'.sent = resetBounds.sent
  BY DEF ResetFault, ResetInv, ResetTypes
<1>4. ResetTypes'
  BY <1>2, <1>3 DEF ResetInv, ResetTypes
<1>5. IntentOK' /\ CarriedOK'
  BY <1>2 DEF ResetInv, IntentOK, CarriedOK
<1>6. WaitingOK' /\ StoredOK'
  BY <1>3 DEF ResetInv, WaitingOK, StoredOK, ImagesLive, ImagesReachable, Kept
<1> QED
  BY <1>4, <1>5, <1>6 DEF ResetInv

LEMMA StartKeeps ==
    ASSUME ResetInv, NEW archive \in BOOLEAN, StartProgram(archive) PROVE ResetInv'
<1>1. UNCHANGED <<today, live, shelf, waiting, generations>>
  BY DEF StartProgram
<1>2. CASE intent # NoIntent
  BY <1>1, <1>2, ReplayKeeps DEF StartProgram
<1>3. CASE intent = NoIntent /\ archive
  BY <1>1, <1>3, NewIntentKeeps DEF StartProgram
<1>4. CASE intent = NoIntent /\ ~archive
  <2>1. reset' = NoReset /\ UNCHANGED <<intent, resetBounds>>
    BY <1>4 DEF StartProgram
  <2>2. NoReset = [NoReset EXCEPT !.step = "up"]
    <3>1. NoReset \in [step : {"up"}, carried : {NoReset.carried}, starting : {FALSE}, asked : {"none"}]
      BY DEF NoReset
    <3> QED
      BY <3>1
  <2> QED
    BY <1>1, <2>1, <2>2, StepKeeps
<1> QED
  BY <1>2, <1>3, <1>4

LEMMA EndKeeps ==
    ASSUME ResetInv, ResetFails \/ ResetCrash PROVE ResetInv'
<1>1. CASE ResetFails
  <2>1. reset' = [NoReset EXCEPT !.step = IF reset.starting THEN "refused" ELSE "up"]
    BY <1>1 DEF ResetFails, Refusal
  <2> QED
    BY <1>1, <2>1, StepKeeps DEF ResetFails
<1>2. CASE ResetCrash
  BY <1>2, StepKeeps DEF ResetCrash
<1> QED
  BY <1>1, <1>2

----------------------------------------------------------------------------
(* The conversation while the program runs.                                *)

LEMMA DayKeeps ==
    ASSUME ResetInv, DayPasses PROVE ResetInv'
<1>1. today' \in Days
  BY ResetAssumption DEF DayPasses, ResetInv, ResetTypes, Days
<1>2. ResetTypes'
  BY <1>1 DEF DayPasses, ResetInv, ResetTypes
<1> QED
  BY <1>2 DEF DayPasses, ResetInv, IntentOK, CarriedOK, WaitingOK, StoredOK, ImagesLive,
              ImagesShelved, ImagesReachable, Kept

LEMMA SelectKeeps ==
    ASSUME ResetInv, NEW g \in 0 .. MaxResets, SelectGeneration(g) PROVE ResetInv'
<1>1. ResetTypes'
  BY DEF SelectGeneration, ResetInv, ResetTypes
<1> QED
  BY <1>1 DEF SelectGeneration, ResetInv, IntentOK, CarriedOK, WaitingOK, StoredOK, ImagesLive,
              ImagesShelved, ImagesReachable, Kept

LEMMA SendKeeps ==
    ASSUME ResetInv, NEW i \in Pictured, Send(i) PROVE ResetInv'
<1> DEFINE grown == [live EXCEPT !.attachments[today] = live.attachments[today] \cup {i}]
           entry == [image |-> today, generation |-> generations.selected]
<1>1. /\ live' = grown /\ waiting' = [waiting EXCEPT ![i] = entry]
      /\ resetBounds' = [resetBounds EXCEPT !.sent = @ \cup {i}]
      /\ UNCHANGED <<today, shelf, generations, intent, reset>>
      /\ reset.step = "up"
  BY DEF Send
<1>2. /\ grown \in Folders /\ grown.conversation = live.conversation
      /\ grown.attachments = [live.attachments EXCEPT ![today] = live.attachments[today] \cup {i}]
  BY DEF ResetInv, ResetTypes, Folders
<1>3. live.attachments \in [Days -> SUBSET Pictured] /\ today \in Days
  BY DEF ResetInv, ResetTypes, Folders
<1>4. entry \in [image : 0 .. MaxDays, generation : 0 .. MaxResets] /\ entry.image = today
  BY DEF ResetInv, ResetTypes, Days
<1> HIDE DEF grown, entry
<1>5. \A d \in Days : live.attachments[d] \subseteq live'.attachments[d]
  BY <1>1, <1>2, <1>3
<1>6. i \in live'.attachments[today]
  BY <1>1, <1>2, <1>3
<1>7. /\ waiting' \in WaitingType
      /\ waiting'[i] = entry /\ \A j \in Pictured : j # i => waiting'[j] = waiting[j]
  BY <1>1, <1>4 DEF ResetInv, ResetTypes, WaitingType
<1>8. /\ resetBounds' \in [resets : 0 .. MaxResets, faults : Nat, entries : 0 .. MaxEntries,
                           sent : SUBSET Pictured]
      /\ resetBounds'.resets = resetBounds.resets /\ resetBounds'.entries = resetBounds.entries
      /\ resetBounds'.sent = resetBounds.sent \cup {i}
  BY <1>1 DEF ResetInv, ResetTypes
<1>9. ResetTypes'
  BY <1>1, <1>2, <1>7, <1>8 DEF ResetInv, ResetTypes
<1>10. IntentOK' /\ CarriedOK'
  BY <1>1 DEF ResetInv, IntentOK, CarriedOK
<1>11. WaitingOK'
  BY <1>1, <1>3, <1>4, <1>5, <1>6, <1>7 DEF ResetInv, WaitingOK, ImagesLive, ImagesReachable
<1>12. StoredOK'
  <2>1. Kept("conversation")' = Kept("conversation")
    BY <1>1, <1>2 DEF Kept
  <2>2. Kept("attachments") \cup {i} \subseteq Kept("attachments")'
    BY <1>1, <1>3, <1>5, <1>6 DEF Kept
  <2> QED
    BY <1>8, <2>1, <2>2 DEF ResetInv, StoredOK
<1> QED
  BY <1>9, <1>10, <1>11, <1>12 DEF ResetInv

LEMMA SayKeeps ==
    ASSUME ResetInv, NEW answered \in SUBSET Pictured, Say(answered) PROVE ResetInv'
<1> DEFINE n == resetBounds.entries + 1
           grown == [live EXCEPT !.conversation[today] = live.conversation[today] \cup {n}]
<1>1. /\ live' = grown /\ waiting' = [i \in Pictured |-> IF i \in answered THEN NotWaiting ELSE waiting[i]]
      /\ resetBounds' = [resetBounds EXCEPT !.entries = n]
      /\ UNCHANGED <<today, shelf, generations, intent, reset>>
      /\ reset.step = "up"
  BY DEF Say
<1>2. n \in 1 .. MaxEntries /\ n \in Nat /\ 1 .. n = (1 .. resetBounds.entries) \cup {n}
  BY ResetAssumption DEF Say, ResetInv, ResetTypes
<1> HIDE DEF n
<1>3. /\ grown \in Folders /\ grown.attachments = live.attachments
      /\ grown.conversation = [live.conversation EXCEPT ![today] = live.conversation[today] \cup {n}]
  BY <1>2 DEF ResetInv, ResetTypes, Folders
<1>4. live.conversation \in [Days -> SUBSET (1 .. MaxEntries)] /\ today \in Days
  BY DEF ResetInv, ResetTypes, Folders
<1> HIDE DEF grown
<1>5. /\ \A d \in Days : live.conversation[d] \subseteq live'.conversation[d]
      /\ n \in live'.conversation[today]
  BY <1>1, <1>3, <1>4
<1>6. /\ waiting' \in WaitingType
      /\ \A j \in Pictured : waiting'[j] # NotWaiting => waiting'[j] = waiting[j]
  BY <1>1, NoResetTyped DEF ResetInv, ResetTypes, WaitingType
<1>7. /\ resetBounds' \in [resets : 0 .. MaxResets, faults : Nat, entries : 0 .. MaxEntries,
                           sent : SUBSET Pictured]
      /\ resetBounds'.resets = resetBounds.resets /\ resetBounds'.entries = n
      /\ resetBounds'.sent = resetBounds.sent
  BY <1>1, <1>2 DEF ResetInv, ResetTypes
<1>8. ResetTypes'
  BY <1>1, <1>3, <1>6, <1>7 DEF ResetInv, ResetTypes
<1>9. IntentOK' /\ CarriedOK'
  BY <1>1 DEF ResetInv, IntentOK, CarriedOK
<1>10. WaitingOK'
  BY <1>1, <1>3, <1>6 DEF ResetInv, WaitingOK, ImagesLive, ImagesReachable
<1>11. StoredOK'
  <2>1. Kept("attachments")' = Kept("attachments")
    BY <1>1, <1>3 DEF Kept
  <2>2. Kept("conversation") \cup {n} \subseteq Kept("conversation")'
    BY <1>1, <1>4, <1>5 DEF Kept
  <2> QED
    BY <1>2, <1>7, <2>1, <2>2 DEF ResetInv, StoredOK
<1> QED
  BY <1>8, <1>9, <1>10, <1>11 DEF ResetInv

----------------------------------------------------------------------------
(* execute_intent.                                                         *)

LEMMA MoveFolderKeeps ==
    ASSUME ResetInv, NEW folder \in {"conversation", "attachments"}, NEW d \in Days, MoveFolder(folder, d)
    PROVE  ResetInv'
<1>1. CASE shelf[intent.key][folder][d] # {}
  <2>1. reset' = [NoReset EXCEPT !.step = IF reset.starting THEN "refused" ELSE "up"]
    BY <1>1 DEF MoveFolder, Refusal
  <2>2. UNCHANGED <<today, live, shelf, waiting, generations, intent>> /\ resetBounds' = resetBounds
    BY <1>1 DEF MoveFolder
  <2> QED
    BY <2>1, <2>2, StepKeeps
<1>2. CASE shelf[intent.key][folder][d] = {}
  <2> DEFINE k0 == intent.key
  <2>1. /\ live' = [live EXCEPT ![folder][d] = {}]
        /\ shelf' = [shelf EXCEPT ![k0][folder][d] = live[folder][d]]
        /\ UNCHANGED <<today, waiting, generations, intent, reset, resetBounds>>
        /\ reset.step = folder
    BY <1>2 DEF MoveFolder
  <2>2. k0 \in Keys /\ intent # NoIntent
    BY <2>1 DEF ResetInv, IntentOK
  <2>3. live \in Folders /\ shelf \in [Keys -> Folders]
    BY DEF ResetInv, ResetTypes
  <2> HIDE DEF k0
  <2>4. live' \in Folders
    BY <2>1, <2>3 DEF Folders
  <2>5. [shelf[k0] EXCEPT ![folder][d] = live[folder][d]] \in Folders
    BY <2>2, <2>3 DEF Folders
  <2>6. shelf' = [shelf EXCEPT ![k0] = [shelf[k0] EXCEPT ![folder][d] = live[folder][d]]]
    BY <2>1
  <2>7. shelf' \in [Keys -> Folders]
    BY <2>2, <2>3, <2>5, <2>6
  <2>8. \A f \in {"conversation", "attachments"}, e \in Days :
           live'[f][e] = IF f = folder /\ e = d THEN {} ELSE live[f][e]
    BY <2>1, <2>3 DEF Folders
  <2>9. \A f \in {"conversation", "attachments"}, e \in Days :
           shelf'[k0][f][e] = IF f = folder /\ e = d THEN live[f][e] ELSE shelf[k0][f][e]
    <3>1. shelf[k0] \in Folders /\ shelf'[k0] = [shelf[k0] EXCEPT ![folder][d] = live[folder][d]]
      BY <2>2, <2>3, <2>6
    <3> QED
      BY <3>1 DEF Folders
  <2>10. \A k \in Keys : k # k0 => shelf'[k] = shelf[k]
    BY <2>3, <2>6
  <2>11. \A f \in {"conversation", "attachments"}, e \in Days :
            /\ live[f][e] \subseteq live'[f][e] \cup shelf'[k0][f][e]
            /\ \A k \in Keys : shelf[k][f][e] \subseteq shelf'[k][f][e]
    BY <1>2, <2>8, <2>9, <2>10 DEF k0
  <2>12. ASSUME NEW f \in {"conversation", "attachments"} PROVE Kept(f) \subseteq Kept(f)'
    <3>1. ASSUME NEW x, NEW e \in Days, x \in live[f][e] PROVE x \in Kept(f)'
      <4>1. x \in live'[f][e] \/ x \in shelf'[k0][f][e]
        BY <2>11, <3>1
      <4> QED
        BY <2>2, <4>1 DEF Kept
    <3>2. ASSUME NEW x, NEW k \in Keys, NEW e \in Days, x \in shelf[k][f][e] PROVE x \in Kept(f)'
      <4>1. x \in shelf'[k][f][e]
        BY <2>11, <3>2
      <4> QED
        BY <4>1 DEF Kept
    <3> QED
      BY <3>1, <3>2 DEF Kept
  <2>13. StoredOK'
    BY <2>1, <2>12 DEF ResetInv, StoredOK
  <2>14. ResetTypes'
    BY <2>1, <2>4, <2>7 DEF ResetInv, ResetTypes
  <2>15. IntentOK' /\ CarriedOK'
    BY <2>1 DEF ResetInv, IntentOK, CarriedOK
  <2>16. WaitingOK'
    <3>1. ImagesReachable(waiting, k0) => ImagesReachable(waiting, k0)'
      <4>1. \A e \in Days : /\ live.attachments[e] \subseteq live'.attachments[e] \cup shelf'[k0].attachments[e]
                            /\ shelf[k0].attachments[e] \subseteq shelf'[k0].attachments[e]
        BY <2>2, <2>11
      <4> QED
        BY <2>1, <4>1 DEF ImagesReachable, k0
    <3> QED
      BY <2>1, <2>2, <3>1 DEF ResetInv, WaitingOK, k0
  <2> QED
    BY <2>13, <2>14, <2>15, <2>16 DEF ResetInv
<1> QED
  BY <1>1, <1>2

LEMMA MovedKeeps ==
    ASSUME ResetInv, NEW folder \in {"conversation", "attachments"}, Moved(folder) PROVE ResetInv'
<1> DEFINE s == IF folder = "conversation" THEN "attachments" ELSE IF intent.carry THEN "carry" ELSE "cursor"
<1>1. /\ reset' = [reset EXCEPT !.step = s] /\ reset.step = folder
      /\ UNCHANGED <<today, live, shelf, waiting, generations, intent, resetBounds>>
      /\ \A d \in Days : live[folder][d] = {}
  BY DEF Moved
<1>2. s \in ResetSteps
  BY DEF ResetSteps
<1>3. /\ s \in {"attachments", "carry", "cursor"}
      /\ s = "carry" => folder = "attachments" /\ intent.carry
      /\ s = "cursor" => ~intent.carry
  OBVIOUS
<1> HIDE DEF s
<1>4. /\ reset' \in [step : ResetSteps, carried : WaitingType, starting : BOOLEAN,
                     asked : {"none", "reset", "archive"}]
      /\ reset'.step = s /\ reset'.carried = reset.carried
  BY <1>1, <1>2 DEF ResetInv, ResetTypes
<1>5. ResetTypes'
  BY <1>1, <1>4 DEF ResetInv, ResetTypes
<1>6. IntentOK'
  BY <1>1, <1>3, <1>4 DEF ResetInv, IntentOK
<1>7. CarriedOK'
  <2>1. reset.carried = IF intent.carry THEN waiting ELSE NoReset.carried
    BY <1>1 DEF ResetInv, CarriedOK
  <2>2. s = "carry" => ImagesShelved(waiting, intent.key)'
    <3>1. ASSUME s = "carry" PROVE ImagesReachable(waiting, intent.key) /\ \A d \in Days : live.attachments[d] = {}
      BY <1>1, <1>3, <3>1 DEF ResetInv, WaitingOK
    <3> QED
      BY <1>1, <3>1 DEF ImagesReachable, ImagesShelved
  <2>3. s = "cursor" => ImagesLive(reset.carried)'
    BY <1>3, <1>4, <2>1, NoResetTyped DEF ImagesLive
  <2> QED
    BY <1>1, <1>3, <1>4, <2>1, <2>2, <2>3 DEF CarriedOK
<1>8. WaitingOK' /\ StoredOK'
  BY <1>1 DEF ResetInv, WaitingOK, StoredOK, ImagesLive, ImagesReachable, Kept
<1> QED
  BY <1>5, <1>6, <1>7, <1>8 DEF ResetInv

LEMMA RebaseKeeps ==
    ASSUME ResetInv, NEW i \in Pictured, Rebase(i) PROVE ResetInv'
<1> DEFINE grown == [live EXCEPT !.attachments[today] = live.attachments[today] \cup {i}]
<1>1. /\ live' = grown /\ UNCHANGED <<today, shelf, waiting, generations, intent, reset, resetBounds>>
      /\ reset.step = "carry"
  BY DEF Rebase
<1>2. /\ grown \in Folders /\ grown.conversation = live.conversation
      /\ grown.attachments = [live.attachments EXCEPT ![today] = live.attachments[today] \cup {i}]
  BY DEF ResetInv, ResetTypes, Folders
<1>3. live.attachments \in [Days -> SUBSET Pictured] /\ today \in Days
  BY DEF ResetInv, ResetTypes, Folders
<1> HIDE DEF grown
<1>4. \A d \in Days : live.attachments[d] \subseteq live'.attachments[d]
  BY <1>1, <1>2, <1>3
<1>5. ResetTypes'
  BY <1>1, <1>2 DEF ResetInv, ResetTypes
<1>6. IntentOK' /\ CarriedOK'
  BY <1>1 DEF ResetInv, IntentOK, CarriedOK, ImagesShelved
<1>7. WaitingOK'
  BY <1>1, <1>4 DEF ResetInv, WaitingOK, ImagesLive, ImagesReachable
<1>8. StoredOK'
  <2>1. Kept("conversation")' = Kept("conversation")
    BY <1>1, <1>2 DEF Kept
  <2>2. Kept("attachments") \subseteq Kept("attachments")'
    BY <1>1, <1>4 DEF Kept
  <2> QED
    BY <1>1, <2>1, <2>2 DEF ResetInv, StoredOK
<1> QED
  BY <1>5, <1>6, <1>7, <1>8 DEF ResetInv

LEMMA RebasedKeeps ==
    ASSUME ResetInv, Rebased PROVE ResetInv'
<1> DEFINE at(i) == IF i \in ToRebase THEN [reset.carried[i] EXCEPT !.image = today] ELSE reset.carried[i]
           carried == [i \in Pictured |-> at(i)]
<1>1. /\ reset' = [reset EXCEPT !.step = "cursor", !.carried = carried]
      /\ UNCHANGED <<today, live, shelf, waiting, generations, intent, resetBounds>>
      /\ reset.step = "carry" /\ ToRebase \subseteq live.attachments[today]
  BY DEF Rebased
<1>2. ASSUME NEW i \in Pictured
      PROVE  /\ at(i) \in [image : 0 .. MaxDays, generation : 0 .. MaxResets]
             /\ at(i) # NotWaiting => at(i).image \in Days /\ i \in live.attachments[at(i).image]
  <2>1. reset.carried = waiting /\ ImagesShelved(waiting, intent.key)
    BY <1>1 DEF ResetInv, IntentOK, CarriedOK
  <2>2. waiting[i] \in [image : 0 .. MaxDays, generation : 0 .. MaxResets] /\ today \in Days
    BY DEF ResetInv, ResetTypes, WaitingType
  <2>3. CASE i \in ToRebase
    <3>1. at(i) = [waiting[i] EXCEPT !.image = today]
      BY <2>1, <2>3
    <3>2. at(i).image = today
      BY <2>2, <3>1
    <3> HIDE DEF at
    <3> QED
      BY <1>1, <2>2, <2>3, <3>1, <3>2 DEF Days
  <2>4. CASE i \notin ToRebase
    <3>1. waiting[i] = NotWaiting
      BY <2>1, <2>4 DEF ToRebase, InArchive, ImagesShelved
    <3> QED
      BY <2>1, <2>2, <2>4, <3>1
  <2> QED
    BY <2>3, <2>4
<1> HIDE DEF at
<1>3. carried \in WaitingType /\ \A i \in Pictured : carried[i] = at(i)
  BY <1>2 DEF WaitingType
<1> HIDE DEF carried
<1>4. /\ reset' \in [step : ResetSteps, carried : WaitingType, starting : BOOLEAN,
                     asked : {"none", "reset", "archive"}]
      /\ reset'.step = "cursor" /\ reset'.carried = carried
  BY <1>1, <1>3 DEF ResetInv, ResetTypes, ResetSteps
<1>5. ResetTypes'
  BY <1>1, <1>4 DEF ResetInv, ResetTypes
<1>6. IntentOK'
  BY <1>1, <1>4 DEF ResetInv, IntentOK
<1>7. CarriedOK'
  BY <1>1, <1>2, <1>3, <1>4 DEF CarriedOK, ImagesLive
<1>8. WaitingOK' /\ StoredOK'
  BY <1>1 DEF ResetInv, WaitingOK, StoredOK, ImagesLive, ImagesReachable, Kept
<1> QED
  BY <1>5, <1>6, <1>7, <1>8 DEF ResetInv

LEMMA ResetCursorKeeps ==
    ASSUME ResetInv, ResetCursor PROVE ResetInv'
<1> DEFINE at(i) == IF reset.carried[i] # NotWaiting
                    THEN [reset.carried[i] EXCEPT !.generation = intent.target] ELSE NotWaiting
<1>1. /\ reset' = [reset EXCEPT !.step = "generation"]
      /\ waiting' = [i \in Pictured |-> at(i)]
      /\ generations' = [generations EXCEPT !.mark = intent.mark]
      /\ UNCHANGED <<today, live, shelf, intent, resetBounds>>
      /\ reset.step = "cursor"
  BY DEF ResetCursor
<1>2. ASSUME NEW i \in Pictured
      PROVE  /\ at(i) \in [image : 0 .. MaxDays, generation : 0 .. MaxResets]
             /\ at(i) # NotWaiting => at(i).image \in Days /\ i \in live.attachments[at(i).image]
  <2>1. reset.carried[i] \in [image : 0 .. MaxDays, generation : 0 .. MaxResets]
        /\ intent.target \in 0 .. MaxResets
    BY DEF ResetInv, ResetTypes, WaitingType
  <2>2. ImagesLive(reset.carried)
    BY <1>1 DEF ResetInv, CarriedOK
  <2>3. CASE reset.carried[i] # NotWaiting
    <3>1. at(i) = [reset.carried[i] EXCEPT !.generation = intent.target]
      BY <2>3
    <3>2. at(i).image = reset.carried[i].image
      BY <2>1, <3>1
    <3> HIDE DEF at
    <3> QED
      BY <2>1, <2>2, <2>3, <3>1, <3>2 DEF ImagesLive
  <2>4. CASE reset.carried[i] = NotWaiting
    BY <2>4, NoResetTyped
  <2> QED
    BY <2>3, <2>4
<1> HIDE DEF at
<1>3. waiting' \in WaitingType /\ \A i \in Pictured : waiting'[i] = at(i)
  BY <1>1, <1>2 DEF WaitingType
<1>4. /\ reset' \in [step : ResetSteps, carried : WaitingType, starting : BOOLEAN,
                     asked : {"none", "reset", "archive"}]
      /\ reset'.step = "generation"
  BY <1>1 DEF ResetInv, ResetTypes, ResetSteps
<1>5. ResetTypes'
  <2>1. /\ generations' \in [latest : 0 .. MaxResets, selected : 0 .. MaxResets, mark : 0 .. MaxResets]
        /\ generations'.latest = generations.latest /\ generations'.selected = generations.selected
        /\ generations'.mark = intent.mark
    BY <1>1 DEF ResetInv, ResetTypes
  <2> QED
    BY <1>1, <1>3, <1>4, <2>1 DEF ResetInv, ResetTypes
<1>6. IntentOK'
  BY <1>1, <1>4 DEF ResetInv, IntentOK
<1>7. ImagesLive(waiting)'
  BY <1>1, <1>2, <1>3 DEF ImagesLive
<1>8. CarriedOK'
  BY <1>4, <1>7 DEF CarriedOK
<1>9. WaitingOK'
  BY <1>7 DEF WaitingOK, ImagesLive, ImagesReachable
<1>10. StoredOK'
  BY <1>1 DEF ResetInv, StoredOK, Kept
<1> QED
  BY <1>5, <1>6, <1>8, <1>9, <1>10 DEF ResetInv

LEMMA OpenGenerationKeeps ==
    ASSUME ResetInv, OpenGeneration PROVE ResetInv'
<1> DEFINE n == IF intent.target > generations.latest THEN intent.target ELSE generations.latest
<1>1. /\ reset' = [reset EXCEPT !.step = "finish"]
      /\ generations' = [generations EXCEPT !.selected = intent.target, !.latest = n]
      /\ UNCHANGED <<today, live, shelf, waiting, intent, resetBounds>>
      /\ reset.step = "generation"
  BY DEF OpenGeneration
<1>2. /\ n \in 0 .. MaxResets /\ intent.target \in 0 .. MaxResets /\ intent.target <= n
      /\ n <= resetBounds.resets
  BY DEF ResetInv, ResetTypes
<1> HIDE DEF n
<1>3. /\ generations' \in [latest : 0 .. MaxResets, selected : 0 .. MaxResets, mark : 0 .. MaxResets]
      /\ generations'.latest = n /\ generations'.selected = intent.target
      /\ generations'.mark = generations.mark
  BY <1>1, <1>2 DEF ResetInv, ResetTypes
<1>4. /\ reset' \in [step : ResetSteps, carried : WaitingType, starting : BOOLEAN,
                     asked : {"none", "reset", "archive"}]
      /\ reset'.step = "finish"
  BY <1>1 DEF ResetInv, ResetTypes, ResetSteps
<1>5. ResetTypes'
  BY <1>1, <1>2, <1>3, <1>4 DEF ResetInv, ResetTypes
<1>6. IntentOK' /\ CarriedOK'
  BY <1>1, <1>4 DEF ResetInv, IntentOK, CarriedOK, ImagesLive
<1>7. WaitingOK' /\ StoredOK'
  BY <1>1 DEF ResetInv, WaitingOK, StoredOK, ImagesLive, ImagesReachable, Kept
<1> QED
  BY <1>5, <1>6, <1>7 DEF ResetInv

LEMMA RemoveIntentKeeps ==
    ASSUME ResetInv, RemoveIntent PROVE ResetInv'
<1> DEFINE s == IF reset.starting THEN "down" ELSE IF reset.asked = "none" THEN "up" ELSE "again"
<1>1. /\ reset' = [NoReset EXCEPT !.step = s, !.asked = reset.asked] /\ intent' = NoIntent
      /\ UNCHANGED <<today, live, shelf, waiting, generations, resetBounds>>
      /\ reset.step = "finish"
  BY DEF RemoveIntent
<1>2. s \in ResetSteps /\ s \in {"down", "up", "again"} /\ reset.asked \in {"none", "reset", "archive"}
  BY DEF ResetSteps, ResetInv, ResetTypes
<1> HIDE DEF s
<1>3. /\ reset' \in [step : ResetSteps, carried : WaitingType, starting : BOOLEAN,
                     asked : {"none", "reset", "archive"}]
      /\ reset'.step = s
  BY <1>1, <1>2, StepTyped
<1>4. ResetTypes'
  <2>1. intent'.target <= resetBounds'.resets /\ intent'.mark <= resetBounds'.resets
    BY <1>1 DEF NoIntent, ResetInv, ResetTypes
  <2> QED
    BY <1>1, <1>3, <2>1, NoResetTyped DEF ResetInv, ResetTypes
<1>5. IntentOK' /\ CarriedOK'
  BY <1>1, <1>2, <1>3, NoResetTyped DEF IntentOK, CarriedOK
<1>6. WaitingOK' /\ StoredOK'
  BY <1>1, NoResetTyped DEF ResetInv, CarriedOK, WaitingOK, StoredOK, ImagesLive, Kept
<1> QED
  BY <1>4, <1>5, <1>6 DEF ResetInv

----------------------------------------------------------------------------
LEMMA ResetInitInv == ResetInit => ResetInv
<1> SUFFICES ASSUME ResetInit PROVE ResetInv
  OBVIOUS
<1>1. Empty \in Folders
  BY DEF Empty, Folders
<1>2. ResetTypes
  BY <1>1, NoResetTyped, ResetAssumption
     DEF ResetInit, ResetTypes, Days, NoReset, NoIntent, ResetSteps, WaitingType
<1>3. IntentOK /\ CarriedOK
  BY NoResetTyped DEF ResetInit, IntentOK, CarriedOK, NoReset
<1>4. WaitingOK /\ StoredOK
  BY NoResetTyped DEF ResetInit, WaitingOK, StoredOK, ImagesLive
<1> QED
  BY <1>2, <1>3, <1>4 DEF ResetInv

LEMMA ResetStepInv == ResetInv /\ [ResetNext]_resetVars => ResetInv'
<1> SUFFICES ASSUME ResetInv, [ResetNext]_resetVars PROVE ResetInv'
  OBVIOUS
<1>1. CASE DayPasses
  BY <1>1, DayKeeps
<1>2. CASE ResetStep
  BY <1>2, MovedKeeps, MoveFolderKeeps, RebaseKeeps, AskedKeeps, RebasedKeeps, ResetCursorKeeps,
     OpenGenerationKeeps, RemoveIntentKeeps DEF ResetStep
<1>3. CASE ResetFails \/ ResetCrash
  BY <1>3, EndKeeps
<1>4. CASE \E i \in Pictured : Send(i)
  BY <1>4, SendKeeps
<1>5. CASE \E answered \in SUBSET Pictured : Cardinality(answered) <= 1 /\ Say(answered)
  BY <1>5, SayKeeps
<1>6. CASE \E g \in 0 .. MaxResets : SelectGeneration(g)
  BY <1>6, SelectKeeps
<1>7. CASE \E archive \in BOOLEAN : AskReset(archive) \/ StartProgram(archive)
  BY <1>7, AskKeeps, StartKeeps
<1>8. CASE UNCHANGED resetVars
  <2>1. ResetTypes' /\ IntentOK'
    BY <1>8 DEF resetVars, ResetInv, ResetTypes, IntentOK
  <2>2. CarriedOK' /\ WaitingOK'
    BY <1>8 DEF resetVars, ResetInv, CarriedOK, WaitingOK, ImagesLive, ImagesShelved, ImagesReachable
  <2>3. StoredOK'
    BY <1>8 DEF resetVars, ResetInv, StoredOK, Kept
  <2> QED
    BY <2>1, <2>2, <2>3 DEF ResetInv
<1> QED
  BY <1>1, <1>2, <1>3, <1>4, <1>5, <1>6, <1>7, <1>8 DEF ResetNext

LEMMA ResetInvariant == ResetSpec => []ResetInv
<1> QED
  BY ResetInitInv, ResetStepInv, PTL DEF ResetSpec

(* The folders, the queue and the intent keep their types, and no more     *)
(* generations are opened than were asked for (conversation_archive.rs).   *)
THEOREM ResetTyped == ResetSpec => []ResetTypeOK
<1>1. ResetInv => ResetTypeOK
  BY DEF ResetInv, ResetTypes, ResetTypeOK, WaitingType, ResetSteps
<1> QED
  BY <1>1, ResetInvariant, PTL

(* However a reset is cut short, fails, is replayed or asked for again     *)
(* (execute_intent, move_entries), nothing that was said and no image is   *)
(* lost, and once it is over every message still to be answered finds its  *)
(* image where it says.                                                    *)
THEOREM ResetLosesNothing == ResetSpec => []NothingIsLost
<1>1. ResetInv => NothingIsLost
  BY DEF ResetInv, StoredOK, WaitingOK, NothingIsLost, ImagesLive, Unsent
<1> QED
  BY <1>1, ResetInvariant, PTL

----------------------------------------------------------------------------
(* MemoryJobs.                                                             *)

JobType == [phase : {"none", "reserved", "calling", "generated", "committed", "failed"},
            day : 0 .. MaxMemoryDay, digest : SUBSET Versions, text : SUBSET Versions]
SummaryType == [digest : SUBSET Versions, text : SUBSET Versions, current : BOOLEAN]
RunType == [pc : {"idle", "next", "reserve", "generate", "calling", "save", "commit"},
            stage : {"none", "generated", "reserved", "scheduled", "consolidate"},
            todo : Seq(Periods), source : SUBSET Versions, cancelled : BOOLEAN]
Kinds == {"daily", "weekly"}

MemoryTypes ==
    /\ day \in MemoryDays /\ dayLog \in [MemoryDays -> 0 .. MaxVersions]
    /\ jobs \in [Periods -> JobType] /\ summaries \in [Periods -> SummaryType]
    /\ consent \in BOOLEAN /\ memory \in RunType
    /\ bought \in [calls : [Periods -> [MemoryDays -> Nat]],
                   unused : SUBSET [period : Periods, source : SUBSET Versions]]

(* A job that is not answered has no text, and none is of a day to come.   *)
JobsOK ==
    \A p \in Periods : /\ jobs[p].day <= day
                       /\ jobs[p].phase = "none" <=> jobs[p].day = 0
                       /\ jobs[p].phase \in {"none", "reserved", "calling"} => jobs[p].text = {}
                       /\ jobs[p].phase = "generated" => jobs[p].text # {}

(* The service has a job at hand, and no other is out for an answer.       *)
RunOK ==
    /\ memory.pc \notin {"idle", "next"} => memory.todo # <<>> /\ memory.source # {}
    /\ memory.pc \notin {"idle", "calling"} => \A p \in Periods : jobs[p].phase # "calling"
    /\ memory.pc = "generate" => Job.phase = "generated" \/ (Job.phase = "reserved" /\ Job.day = day)
    /\ memory.pc = "calling" => /\ Job.phase = "calling" /\ Job.day = day
                                /\ bought.calls[memory.todo[1]][day] = 1
                                /\ \A p \in Periods : jobs[p].phase = "calling" => p = memory.todo[1]
    /\ memory.pc \in {"save", "commit"} => Job.phase = "generated"
    /\ memory.pc = "commit" => \A a \in bought.unused : a.period # memory.todo[1]

(* A call was made for the job there is now, or for one it replaced.       *)
CallOnce(p, d) ==
    \/ bought.calls[p][d] = 0
    \/ /\ bought.calls[p][d] = 1
       /\ d <= jobs[p].day
       /\ d = jobs[p].day => jobs[p].phase \notin {"none", "reserved"}
SlotsHeld(kind) == {p \in Periods : /\ p.kind = kind /\ jobs[p].phase # "none"
                               /\ Slot(kind, jobs[p].day) = Slot(kind, day)}
CallsOnce == \A p \in Periods, d \in MemoryDays : CallOnce(p, d)
CalledHold == \A kind \in Kinds : CalledIn(kind, Slot(kind, day)) \subseteq SlotsHeld(kind)
CallsOK ==
    /\ CallsOnce
    /\ \A kind \in Kinds : Cardinality(SlotsHeld(kind)) <= 2
    /\ \A kind \in Kinds, d \in MemoryDays : Cardinality(CalledIn(kind, Slot(kind, d))) <= 2
AnswersOK ==
    \A a \in bought.unused : jobs[a.period].phase = "generated" /\ jobs[a.period].text = a.source

MemoryInv == MemoryTypes /\ JobsOK /\ RunOK /\ CallsOK /\ AnswersOK

LEMMA WeeksGrow ==
    ASSUME NEW a \in MemoryDays, NEW b \in MemoryDays, a <= b
    PROVE  Week(a) \in Int /\ Week(b) \in Int /\ Week(a) <= Week(b)
<1> DEFINE W == DaysPerWeek  x == a + W - 1  y == b + W - 1
<1>1. W \in Nat /\ W > 0 /\ x \in Nat /\ y \in Nat /\ x <= y
  BY MemoryAssumption DEF MemoryDays
<1> DEFINE q == x \div W  r == y \div W
<1>2. q \in Int /\ r \in Int /\ W * q <= x /\ y < W * r + W
  BY <1>1
<1> HIDE DEF W, x, y, q, r
<1>3. ASSUME r < q PROVE FALSE
  <2>1. r + 1 <= q /\ W * (r + 1) <= W * q
    BY <1>1, <1>2, <1>3
  <2>2. W * (r + 1) = W * r + W
    BY <1>1, <1>2
  <2> QED
    BY <2>1, <2>2, <1>1, <1>2
<1> QED
  BY <1>2, <1>3 DEF W, x, y, q, r, Week

LEMMA PeriodsFinite == IsFiniteSet(Periods) /\ \A S \in SUBSET Periods : IsFiniteSet(S) /\ Cardinality(S) \in Nat
<1>1. IsFiniteSet([kind : {"daily"}, of : MemoryDays])
  <2>1. IsFiniteSet(MemoryDays)
    BY FS_Interval, MemoryAssumption DEF MemoryDays
  <2> DEFINE f == [r \in [kind : {"daily"}, of : MemoryDays] |-> r.of]
  <2>2. f \in Injection([kind : {"daily"}, of : MemoryDays], MemoryDays)
    BY DEF Injection, IsInjective
  <2> QED
    BY <2>1, <2>2, FS_Injection
<1>2. IsFiniteSet([kind : {"weekly"}, of : Weeks])
  <2>1. IsFiniteSet(Weeks)
    <3>1. MaxMemoryDay \in MemoryDays
      BY MemoryAssumption DEF MemoryDays
    <3>2. MaxMemoryDay <= MaxMemoryDay
      BY MemoryAssumption
    <3>3. Week(MaxMemoryDay) \in Int
      BY <3>1, <3>2, WeeksGrow
    <3> QED
      BY <3>3, FS_Interval DEF Weeks
  <2> DEFINE f == [r \in [kind : {"weekly"}, of : Weeks] |-> r.of]
  <2>2. f \in Injection([kind : {"weekly"}, of : Weeks], Weeks)
    BY DEF Injection, IsInjective
  <2> QED
    BY <2>1, <2>2, FS_Injection
<1>3. IsFiniteSet(Periods)
  BY <1>1, <1>2, FS_Union DEF Periods
<1> QED
  BY <1>3, FS_Subset, FS_CardinalityType

(* The jobs of a set are put in the order of their files.                  *)
LEMMA JobsInOrder == ASSUME NEW ps \in SUBSET Periods PROVE Jobs(ps) \in Seq(Periods)
<1> DEFINE Before(p) == {q \in ps : Earlier(q, p)}
           n == Cardinality(ps)
           f == [p \in ps |-> Cardinality(Before(p)) + 1]
<1>1. IsFiniteSet(ps) /\ n \in Nat /\ \A p \in ps : IsFiniteSet(Before(p)) /\ Cardinality(Before(p)) \in Nat
  BY PeriodsFinite
<1>2. \A p \in ps : Cardinality(Before(p)) < n
  <2> TAKE p \in ps
  <2>1. p \notin Before(p)
    BY DEF Periods, Earlier, MemoryDays, Weeks
  <2>2. Before(p) \in SUBSET ps /\ Before(p) # ps
    BY <2>1
  <2> QED
    BY <1>1, <2>2, FS_Subset
<1>3. \A p, q \in ps : p # q => f[p] # f[q]
  <2>1. ASSUME NEW p \in ps, NEW q \in ps, Earlier(p, q) PROVE f[p] # f[q]
    <3>1. Before(p) \subseteq Before(q) /\ p \in Before(q) /\ p \notin Before(p)
      BY <2>1 DEF Periods, Earlier, MemoryDays, Weeks
    <3>2. Before(p) \in SUBSET Before(q) /\ Before(p) # Before(q)
      BY <3>1
    <3>3. Cardinality(Before(p)) # Cardinality(Before(q))
      BY <1>1, <3>2, FS_Subset
    <3> QED
      BY <1>1, <3>3
  <2>2. \A p, q \in ps : p # q => Earlier(p, q) \/ Earlier(q, p)
    BY DEF Periods, Earlier, MemoryDays, Weeks
  <2> QED
    BY <2>1, <2>2
<1>4. f \in [ps -> 1 .. n]
  BY <1>1, <1>2
<1>5. f \in Injection(ps, 1 .. n)
  <2> HIDE DEF f
  <2> QED
    BY <1>3, <1>4 DEF Injection, IsInjective
<1>6. IsFiniteSet(1 .. n) /\ Cardinality(1 .. n) = n
  BY <1>1, FS_Interval
<1>7. f \in Surjection(ps, 1 .. n)
  <2> HIDE DEF f
  <2> QED
    BY <1>1, <1>5, <1>6, FS_Injection
<1>8. \A i \in 1 .. n : \E p \in ps : Cardinality(Before(p)) + 1 = i
  <2>1. \A i \in 1 .. n : \E p \in ps : f[p] = i
    <3> HIDE DEF f
    <3> QED
      BY <1>7 DEF Surjection
  <2> QED
    BY <2>1
<1>9. Jobs(ps) = [i \in 1 .. n |-> CHOOSE p \in ps : Cardinality(Before(p)) + 1 = i]
  BY DEF Jobs
<1> HIDE DEF n, Before
<1>10. Jobs(ps) \in [1 .. n -> Periods]
  BY <1>8, <1>9
<1> QED
  BY <1>1, <1>10

LEMMA ScheduleTyped == ASSUME NEW held PROVE Schedule(held) \in Seq(Periods)
<1>1. ASSUME NEW S \in SUBSET MemoryDays PROVE Scheduled("daily", S) \in Seq(Periods)
  <2> DEFINE n == CHOOSE m \in Unrun("daily", S) : TRUE
  <2>1. Unrun("daily", S) \subseteq MemoryDays
    BY DEF Unrun
  <2>2. Unrun("daily", S) # {} => n \in MemoryDays
    BY <2>1
  <2> HIDE DEF n
  <2>3. Unrun("daily", S) # {} => [kind |-> "daily", of |-> n] \in Periods
    BY <2>2 DEF Periods
  <2> QED
    BY <2>3 DEF Scheduled, n
<1>2. ASSUME NEW S \in SUBSET Weeks PROVE Scheduled("weekly", S) \in Seq(Periods)
  <2> DEFINE n == CHOOSE m \in Unrun("weekly", S) : TRUE
  <2>1. Unrun("weekly", S) \subseteq Weeks
    BY DEF Unrun
  <2>2. Unrun("weekly", S) # {} => n \in Weeks
    BY <2>1
  <2> HIDE DEF n
  <2>3. Unrun("weekly", S) # {} => [kind |-> "weekly", of |-> n] \in Periods
    BY <2>2 DEF Periods
  <2> QED
    BY <2>3 DEF Scheduled, n
<1>3. /\ Missing(held) \cap {day - 1} \in SUBSET MemoryDays
      /\ First(Missing(held) \ {day - 1}) \in SUBSET MemoryDays
      /\ Unrun("weekly", LastWeek) \in SUBSET Weeks
      /\ First(StaleWeeks(held) \ Unrun("weekly", LastWeek)) \in SUBSET Weeks
  BY DEF Missing, First, Unrun, LastWeek, StaleWeeks
<1>4. /\ Scheduled("daily", Missing(held) \cap {day - 1}) \in Seq(Periods)
      /\ Scheduled("daily", First(Missing(held) \ {day - 1})) \in Seq(Periods)
      /\ Scheduled("weekly", Unrun("weekly", LastWeek)) \in Seq(Periods)
      /\ Scheduled("weekly", First(StaleWeeks(held) \ Unrun("weekly", LastWeek))) \in Seq(Periods)
  BY <1>1, <1>2, <1>3
<1> QED
  BY <1>4 DEF Schedule

LEMMA SourceTyped ==
    ASSUME dayLog \in [MemoryDays -> 0 .. MaxVersions], NEW held \in [Periods -> SummaryType], NEW p \in Periods
    PROVE  SourceIn(p, held) \in SUBSET Versions
<1>1. CASE p.kind = "daily"
  <2>1. p.of \in MemoryDays
    BY <1>1 DEF Periods
  <2> QED
    BY <1>1, <2>1, MemoryAssumption DEF SourceIn, Versions
<1>2. CASE p.kind # "daily"
  <2>1. \A q \in Periods : held[q].text \subseteq Versions
    BY DEF SummaryType
  <2> QED
    BY <1>2, <2>1 DEF SourceIn
<1> QED
  BY <1>1, <1>2

LEMMA RefreshedTyped ==
    ASSUME dayLog \in [MemoryDays -> 0 .. MaxVersions], summaries \in [Periods -> SummaryType]
    PROVE  Refreshed \in [Periods -> SummaryType]
<1> DEFINE Stale(p, held) == [held[p] EXCEPT !.current = @ /\ held[p].digest = SourceIn(p, held)]
           daily == [p \in Periods |-> IF p.kind = "daily" /\ dayLog[p.of] # 0
                                    THEN Stale(p, summaries) ELSE summaries[p]]
<1>1. ASSUME NEW held \in [Periods -> SummaryType], NEW p \in Periods PROVE Stale(p, held) \in SummaryType
  <2>1. held[p] \in SummaryType
    OBVIOUS
  <2>2. (held[p].current /\ held[p].digest = SourceIn(p, held)) \in BOOLEAN
    OBVIOUS
  <2> QED
    BY <2>1, <2>2 DEF SummaryType
<1>2. \A p \in Periods : Stale(p, summaries) \in SummaryType
  BY <1>1
<1> HIDE DEF Stale
<1>3. daily \in [Periods -> SummaryType]
  BY <1>2
<1> HIDE DEF daily
<1>4. \A p \in Periods : Stale(p, daily) \in SummaryType
  BY <1>1, <1>3
<1>5. [p \in Periods |-> IF p.kind = "weekly" THEN Stale(p, daily) ELSE daily[p]] \in [Periods -> SummaryType]
  BY <1>3, <1>4
<1> QED
  BY <1>5 DEF Refreshed, Stale, daily

----------------------------------------------------------------------------
LEMMA SlotsGrow ==
    ASSUME NEW kind \in Kinds, NEW a \in MemoryDays, NEW b \in MemoryDays, a <= b
    PROVE  Slot(kind, a) \in Int /\ Slot(kind, b) \in Int /\ Slot(kind, a) <= Slot(kind, b)
BY WeeksGrow DEF Slot, Kinds, MemoryDays

(* Who was called for in the slot of today has a job of it.                *)
LEMMA CalledAreHeld == MemoryTypes /\ JobsOK /\ CallsOnce => CalledHold
<1> SUFFICES ASSUME MemoryTypes, JobsOK, CallsOnce, NEW kind \in Kinds
             PROVE  CalledIn(kind, Slot(kind, day)) \subseteq SlotsHeld(kind)
  BY DEF CalledHold
<1> SUFFICES ASSUME NEW p \in CalledIn(kind, Slot(kind, day)) PROVE p \in SlotsHeld(kind)
  OBVIOUS
<1>1. p \in Periods /\ p.kind = kind
  BY DEF CalledIn
<1>2. PICK d \in MemoryDays : Slot(kind, d) = Slot(kind, day) /\ bought.calls[p][d] > 0
  BY DEF CalledIn
<1>3. jobs[p].day \in 0 .. MaxMemoryDay /\ jobs[p].phase \in {"none", "reserved", "calling", "generated", "committed", "failed"}
  BY <1>1 DEF MemoryTypes, JobType
<1>4. CallOnce(p, d)
  BY <1>1 DEF CallsOnce
<1>5. d <= jobs[p].day /\ (d = jobs[p].day => jobs[p].phase # "none")
  BY <1>2, <1>4 DEF CallOnce
<1>6. jobs[p].day \in MemoryDays /\ jobs[p].day <= day /\ day \in MemoryDays
  BY <1>1, <1>3, <1>5, MemoryAssumption DEF MemoryTypes, MemoryDays, JobsOK
<1>7. Slot(kind, d) <= Slot(kind, jobs[p].day) /\ Slot(kind, jobs[p].day) <= Slot(kind, day)
  BY <1>5, <1>6, SlotsGrow
<1>8. Slot(kind, jobs[p].day) = Slot(kind, day)
  <2>1. Slot(kind, d) \in Int /\ Slot(kind, jobs[p].day) \in Int
    BY <1>5, <1>6, SlotsGrow
  <2> QED
    BY <1>2, <1>7, <2>1
<1>9. jobs[p].phase # "none"
  BY <1>1, <1>6 DEF JobsOK, MemoryDays
<1> QED
  BY <1>1, <1>8, <1>9 DEF SlotsHeld

(* A step of the service that replaces no job of a call it counts keeps    *)
(* what is known of the calls.                                             *)
LEMMA CallsStay ==
    ASSUME MemoryTypes, JobsOK, CallsOK, MemoryTypes', JobsOK', day' = day,
           CallsOnce',
           \A p \in Periods, d \in MemoryDays :
               bought'.calls[p][d] > bought.calls[p][d] => d = day,
           \A kind \in Kinds : SlotsHeld(kind)' \subseteq SlotsHeld(kind) \/ Cardinality(SlotsHeld(kind)') <= 2
    PROVE  CallsOK'
<1> USE DEF Kinds
<1>1. \A kind \in Kinds : Cardinality(SlotsHeld(kind)') <= 2
  <2> TAKE kind \in Kinds
  <2>1. CASE SlotsHeld(kind)' \subseteq SlotsHeld(kind)
    <3>1. SlotsHeld(kind) \in SUBSET Periods /\ SlotsHeld(kind)' \in SUBSET SlotsHeld(kind)
      BY <2>1 DEF SlotsHeld
    <3>2. IsFiniteSet(SlotsHeld(kind)) /\ Cardinality(SlotsHeld(kind)) \in Nat /\ Cardinality(SlotsHeld(kind)) <= 2
      BY <3>1, PeriodsFinite DEF CallsOK
    <3>3. SlotsHeld(kind)' \in SUBSET Periods
      BY <3>1
    <3>4. Cardinality(SlotsHeld(kind)') \in Nat
      BY <3>3, PeriodsFinite
    <3>5. Cardinality(SlotsHeld(kind)') <= Cardinality(SlotsHeld(kind))
      BY <3>1, <3>2, FS_Subset
    <3> QED
      BY <3>2, <3>4, <3>5
  <2> QED
    BY <2>1
<1>2. \A kind \in Kinds, d \in MemoryDays : Cardinality(CalledIn(kind, Slot(kind, d))') <= 2
  <2> TAKE kind \in Kinds, d \in MemoryDays
  <2>1. CASE Slot(kind, d) = Slot(kind, day)
    <3>1. CalledHold'
      BY CalledAreHeld, PTL
    <3>2. CalledIn(kind, Slot(kind, d))' \subseteq SlotsHeld(kind)'
      BY <2>1, <3>1 DEF CalledHold
    <3>3. SlotsHeld(kind)' \in SUBSET Periods
      BY DEF SlotsHeld
    <3>4. /\ IsFiniteSet(SlotsHeld(kind)') /\ Cardinality(SlotsHeld(kind)') \in Nat
          /\ Cardinality(CalledIn(kind, Slot(kind, d))') \in Nat
      BY <3>2, <3>3, PeriodsFinite
    <3>5. Cardinality(CalledIn(kind, Slot(kind, d))') <= Cardinality(SlotsHeld(kind)')
      BY <3>2, <3>4, FS_Subset
    <3> QED
      BY <1>1, <3>4, <3>5
  <2>2. CASE Slot(kind, d) # Slot(kind, day)
    <3>1. \A p \in Periods, e \in MemoryDays : /\ bought.calls[p][e] \in Nat /\ bought'.calls[p][e] \in Nat
                                               /\ e # day => bought'.calls[p][e] <= bought.calls[p][e]
      BY DEF MemoryTypes
    <3>2. CalledIn(kind, Slot(kind, d))' \subseteq CalledIn(kind, Slot(kind, d))
      BY <2>2, <3>1 DEF CalledIn
    <3>3. CalledIn(kind, Slot(kind, d)) \in SUBSET Periods
      BY DEF CalledIn
    <3>4. /\ IsFiniteSet(CalledIn(kind, Slot(kind, d)))
          /\ Cardinality(CalledIn(kind, Slot(kind, d))) \in Nat
          /\ Cardinality(CalledIn(kind, Slot(kind, d))') \in Nat
      BY <3>2, <3>3, PeriodsFinite
    <3>5. Cardinality(CalledIn(kind, Slot(kind, d))') <= Cardinality(CalledIn(kind, Slot(kind, d)))
      BY <3>2, <3>4, FS_Subset
    <3> QED
      BY <3>4, <3>5 DEF CallsOK
  <2> QED
    BY <2>1, <2>2
<1> QED
  BY <1>1, <1>2 DEF CallsOK, Slot, Week

----------------------------------------------------------------------------
LEMMA JobAtHand ==
    ASSUME MemoryInv, memory.todo # <<>>
    PROVE  memory.todo[1] \in Periods /\ Tail(memory.todo) \in Seq(Periods) /\ Job \in JobType
<1>1. memory.todo \in Seq(Periods)
  BY DEF MemoryInv, MemoryTypes, RunType
<1>2. memory.todo[1] \in Periods /\ Tail(memory.todo) \in Seq(Periods)
  BY <1>1
<1> QED
  BY <1>2 DEF MemoryInv, MemoryTypes, Job

LEMMA Continues ==
    ASSUME MemoryInv, memory.todo # <<>>, Continue
    PROVE  memory' \in RunType /\ memory'.pc = "next"
<1>1. Tail(memory.todo) \in Seq(Periods) /\ memory \in RunType
  BY JobAtHand DEF MemoryInv, MemoryTypes
<1> QED
  BY <1>1 DEF Continue, RunType

LEMMA SetsJob ==
    ASSUME MemoryInv, memory.todo # <<>>, NEW j \in JobType, SetJob(j)
    PROVE  /\ jobs' \in [Periods -> JobType]
           /\ jobs'[memory.todo[1]] = j
           /\ \A p \in Periods : p # memory.todo[1] => jobs'[p] = jobs[p]
<1>1. memory.todo[1] \in Periods /\ jobs \in [Periods -> JobType]
  BY JobAtHand DEF MemoryInv, MemoryTypes
<1> QED
  BY <1>1 DEF SetJob

(* A step that only lets jobs fail which are not answered keeps the calls  *)
(* and the answers.                                                        *)
FailsOnly == \A p \in Periods : \/ jobs'[p] = jobs[p]
                                \/ /\ jobs[p].phase \in {"reserved", "calling"}
                                   /\ jobs'[p] = [jobs[p] EXCEPT !.phase = "failed"]
LEMMA FailuresKeep ==
    ASSUME MemoryInv, MemoryTypes', UNCHANGED <<day, bought>>, FailsOnly
    PROVE  JobsOK' /\ CallsOK' /\ AnswersOK'
<1>1. \A p \in Periods : /\ jobs'[p].day = jobs[p].day
                         /\ jobs'[p].phase = "none" <=> jobs[p].phase = "none"
                         /\ jobs[p].phase \notin {"none", "reserved"} => jobs'[p].phase \notin {"none", "reserved"}
                         /\ jobs'[p].phase \in {"reserved", "calling", "generated"} => jobs'[p] = jobs[p]
                         /\ jobs[p].phase = "generated" => jobs'[p] = jobs[p]
  <2>1. \A p \in Periods : jobs[p] \in JobType
    BY DEF MemoryInv, MemoryTypes
  <2> QED
    BY <2>1 DEF FailsOnly, JobType
<1>2. JobsOK'
  BY <1>1 DEF FailsOnly, MemoryInv, JobsOK
<1>3. CallsOnce'
  BY <1>1 DEF MemoryInv, CallsOK, CallsOnce, CallOnce
<1>4. \A kind \in Kinds : SlotsHeld(kind)' \subseteq SlotsHeld(kind)
  BY <1>1 DEF SlotsHeld
<1>5. \A p \in Periods, d \in MemoryDays : ~(bought'.calls[p][d] > bought.calls[p][d])
  BY DEF MemoryInv, MemoryTypes
<1>6. CallsOK'
  BY <1>2, <1>3, <1>4, <1>5, CallsStay DEF MemoryInv
<1>7. AnswersOK'
  <2>1. \A a \in bought.unused : a.period \in Periods
    BY DEF MemoryInv, MemoryTypes
  <2> QED
    BY <1>1, <2>1 DEF MemoryInv, AnswersOK
<1> QED
  BY <1>2, <1>6, <1>7

LEMMA NothingFails ==
    ASSUME MemoryInv, MemoryTypes', UNCHANGED <<day, bought, jobs>>
    PROVE  JobsOK' /\ CallsOK' /\ AnswersOK'
BY FailuresKeep DEF FailsOnly

LEMMA MemoryStarts == MemoryInit => MemoryInv
<1> SUFFICES ASSUME MemoryInit PROVE MemoryInv
  OBVIOUS
<1>1. day \in MemoryDays
  BY MemoryAssumption DEF MemoryInit, MemoryDays
<1>2. MemoryTypes
  <2>1. NoJob \in JobType /\ NoSummary \in SummaryType /\ Asleep \in RunType
    BY MemoryAssumption DEF NoJob, JobType, NoSummary, SummaryType, Asleep, RunType
  <2> QED
    BY <1>1, <2>1, MemoryAssumption DEF MemoryInit, MemoryTypes
<1>3. \A p \in Periods : jobs[p] = NoJob
  BY DEF MemoryInit
<1>4. JobsOK
  BY <1>1, <1>3 DEF JobsOK, NoJob, MemoryDays
<1>5. RunOK
  BY DEF MemoryInit, RunOK, Asleep
<1>6. CallsOnce
  BY DEF MemoryInit, CallsOnce, CallOnce
<1>7. \A kind \in Kinds : SlotsHeld(kind) = {}
  BY <1>3 DEF SlotsHeld, NoJob
<1>8. \A kind \in Kinds, d \in MemoryDays : CalledIn(kind, Slot(kind, d)) = {}
  BY DEF MemoryInit, CalledIn
<1>9. CallsOK
  BY <1>6, <1>7, <1>8, FS_EmptySet DEF CallsOK
<1>10. AnswersOK
  BY DEF MemoryInit, AnswersOK
<1> QED
  BY <1>2, <1>4, <1>5, <1>9, <1>10 DEF MemoryInv

LEMMA AsleepTyped == Asleep \in RunType
BY DEF Asleep, RunType

LEMMA OutsideKeeps ==
    ASSUME MemoryInv, Consent \/ Preempt \/ MemoryCrash \/ \E d \in MemoryDays : LogDay(d)
    PROVE  MemoryInv'
<1>1. MemoryTypes'
  <2>1. CASE \E d \in MemoryDays : LogDay(d)
    <3>1. PICK d \in MemoryDays : LogDay(d)
      BY <2>1
    <3>2. dayLog \in [MemoryDays -> 0 .. MaxVersions] /\ dayLog[d] \in 0 .. MaxVersions
      BY DEF MemoryInv, MemoryTypes
    <3>3. \A n \in 0 .. MaxVersions : [dayLog EXCEPT ![d] = n] \in [MemoryDays -> 0 .. MaxVersions]
      BY <3>2
    <3>4. 0 \in 0 .. MaxVersions /\ (dayLog[d] < MaxVersions => dayLog[d] + 1 \in 0 .. MaxVersions)
      BY <3>2, MemoryAssumption
    <3>5. dayLog' \in [MemoryDays -> 0 .. MaxVersions]
      BY <3>1, <3>3, <3>4 DEF LogDay
    <3> QED
      BY <3>1, <3>5 DEF MemoryInv, MemoryTypes, LogDay
  <2>2. CASE Consent
    BY <2>2 DEF MemoryInv, MemoryTypes, Consent
  <2>3. CASE Preempt
    BY <2>3 DEF MemoryInv, MemoryTypes, RunType, Preempt
  <2>4. CASE MemoryCrash
    BY <2>4 DEF MemoryInv, MemoryTypes, RunType, Asleep, MemoryCrash
  <2> QED
    BY <2>1, <2>2, <2>3, <2>4
<1>2. UNCHANGED <<day, jobs, bought>>
  BY DEF LogDay, Consent, Preempt, MemoryCrash
<1>3. memory' = memory \/ memory' = [memory EXCEPT !.cancelled = TRUE] \/ memory' = Asleep
  BY DEF LogDay, Consent, Preempt, MemoryCrash
<1>4. RunOK'
  <2>1. memory \in RunType
    BY DEF MemoryInv, MemoryTypes
  <2>2. CASE memory' = Asleep
    BY <2>2 DEF RunOK, Asleep
  <2>3. CASE memory' = memory \/ memory' = [memory EXCEPT !.cancelled = TRUE]
    <3>1. memory'.pc = memory.pc /\ memory'.todo = memory.todo /\ memory'.source = memory.source
      BY <2>1, <2>3 DEF RunType
    <3>2. Job' = Job
      BY <1>2, <3>1 DEF Job
    <3> QED
      BY <1>2, <3>1, <3>2 DEF MemoryInv, RunOK
  <2> QED
    BY <1>3, <2>2, <2>3
<1> QED
  BY <1>1, <1>2, <1>4, NothingFails DEF MemoryInv

LEMMA NextDayKeeps == ASSUME MemoryInv, NextDay PROVE MemoryInv'
<1> USE DEF NextDay
<1>1. MemoryTypes' /\ day' = day + 1 /\ UNCHANGED <<jobs, bought, memory>>
  BY MemoryAssumption DEF MemoryInv, MemoryTypes, MemoryDays
<1>2. \A p \in Periods : jobs[p].day \in 0 .. MaxMemoryDay /\ jobs[p].day <= day
  BY DEF MemoryInv, MemoryTypes, JobType, JobsOK
<1>3. day \in MemoryDays /\ day' \in MemoryDays /\ day <= day'
  BY <1>1, MemoryAssumption DEF MemoryInv, MemoryTypes, MemoryDays
<1>4. JobsOK'
  BY <1>1, <1>2, <1>3 DEF MemoryInv, JobsOK, MemoryDays
<1>5. RunOK'
  BY <1>1 DEF RunOK
<1>6. ASSUME NEW kind \in Kinds PROVE Cardinality(SlotsHeld(kind)') <= 2
  <2>1. ASSUME NEW p \in SlotsHeld(kind)' PROVE p \in SlotsHeld(kind)
    <3>1. p \in Periods /\ p.kind = kind /\ jobs[p].phase # "none" /\ Slot(kind, jobs[p].day) = Slot(kind, day')
      BY <1>1 DEF SlotsHeld
    <3>2. jobs[p].day \in MemoryDays /\ jobs[p].day <= day
      BY <1>2, <3>1 DEF MemoryInv, JobsOK, MemoryDays
    <3>3. /\ Slot(kind, jobs[p].day) \in Int /\ Slot(kind, day) \in Int /\ Slot(kind, day') \in Int
          /\ Slot(kind, jobs[p].day) <= Slot(kind, day) /\ Slot(kind, day) <= Slot(kind, day')
      BY <1>3, <3>2, SlotsGrow
    <3>4. Slot(kind, jobs[p].day) = Slot(kind, day)
      BY <3>1, <3>3
    <3> QED
      BY <3>1, <3>4 DEF SlotsHeld
  <2>2. SlotsHeld(kind) \in SUBSET Periods /\ SlotsHeld(kind)' \in SUBSET SlotsHeld(kind)
    BY <2>1 DEF SlotsHeld
  <2>3. IsFiniteSet(SlotsHeld(kind)) /\ Cardinality(SlotsHeld(kind)) \in Nat /\ Cardinality(SlotsHeld(kind)') \in Nat
    BY <2>2, PeriodsFinite
  <2>4. Cardinality(SlotsHeld(kind)') <= Cardinality(SlotsHeld(kind))
    BY <2>2, <2>3, FS_Subset
  <2> QED
    BY <2>3, <2>4 DEF MemoryInv, CallsOK
<1>7. CallsOK'
  <2>1. CallsOnce'
    BY <1>1 DEF MemoryInv, CallsOK, CallsOnce, CallOnce
  <2>2. \A kind \in Kinds, d \in MemoryDays : CalledIn(kind, Slot(kind, d))' = CalledIn(kind, Slot(kind, d))
    BY <1>1 DEF CalledIn, Slot, Week
  <2>3. \A kind \in Kinds, d \in MemoryDays : Cardinality(CalledIn(kind, Slot(kind, d))') <= 2
    BY <2>2 DEF MemoryInv, CallsOK
  <2> QED
    BY <1>6, <2>1, <2>3 DEF CallsOK, Slot, Week
<1>8. AnswersOK'
  BY <1>1 DEF MemoryInv, AnswersOK
<1> QED
  BY <1>1, <1>4, <1>5, <1>7, <1>8 DEF MemoryInv

LEMMA RecoveredJobs ==
    ASSUME MemoryInv, JobsReconciled
    PROVE  /\ jobs' \in [Periods -> JobType]
           /\ FailsOnly
           /\ \A p \in Periods : jobs'[p].phase # "calling"
<1>1. \A p \in Periods : jobs[p] \in JobType /\ jobs'[p] = Recovered(jobs[p])
  BY DEF MemoryInv, MemoryTypes, JobsReconciled
<1>2. \A p \in Periods : Recovered(jobs[p]) \in JobType
  BY <1>1 DEF Recovered, JobType
<1>3. jobs' \in [Periods -> JobType]
  BY <1>2 DEF JobsReconciled
<1>4. FailsOnly
  BY <1>1 DEF FailsOnly, Recovered
<1>5. \A p \in Periods : jobs'[p].phase # "calling"
  BY <1>1 DEF Recovered, JobType
<1> QED
  BY <1>3, <1>4, <1>5

LEMMA RunsKeep ==
    ASSUME MemoryInv, RunDue \/ \E p \in Periods : Consolidate(p)
    PROVE  MemoryInv'
<1>1. JobsReconciled /\ UNCHANGED <<day, dayLog, consent, bought>> /\ summaries' \in {summaries, Refreshed}
  BY DEF RunDue, Consolidate
<1>2. jobs' \in [Periods -> JobType] /\ FailsOnly /\ \A p \in Periods : jobs'[p].phase # "calling"
  BY <1>1, RecoveredJobs
<1>3. memory' \in RunType /\ memory'.pc = "next"
  <2>1. CASE RunDue
    <3>1. Jobs({p \in Periods : IsGenerated(jobs[p])}) \in Seq(Periods)
      BY JobsInOrder
    <3> QED
      BY <2>1, <3>1 DEF RunDue, Asleep, RunType
  <2>2. CASE \E p \in Periods : Consolidate(p)
    <3>1. PICK p \in Periods : memory' = [Asleep EXCEPT !.pc = "next", !.stage = "consolidate", !.todo = <<p>>]
      BY <2>2 DEF Consolidate
    <3>2. <<p>> \in Seq(Periods)
      OBVIOUS
    <3> QED
      BY <3>1, <3>2, AsleepTyped DEF RunType
  <2> QED
    BY <2>1, <2>2
<1>4. summaries' \in [Periods -> SummaryType]
  BY <1>1, RefreshedTyped DEF MemoryInv, MemoryTypes
<1>5. MemoryTypes'
  BY <1>1, <1>2, <1>3, <1>4 DEF MemoryInv, MemoryTypes
<1>6. RunOK'
  BY <1>2, <1>3 DEF RunOK
<1> QED
  BY <1>1, <1>2, <1>5, <1>6, FailuresKeep DEF MemoryInv

LEMMA StageEndsKeeps == ASSUME MemoryInv, StageEnds PROVE MemoryInv'
<1> USE DEF StageEnds
<1>1. UNCHANGED <<day, dayLog, consent, bought>> /\ summaries' \in {summaries, Refreshed} /\ memory.pc = "next"
  OBVIOUS
<1>2. jobs' \in [Periods -> JobType] /\ FailsOnly
  <2>1. \A p \in Periods : jobs[p] \in JobType /\ [jobs[p] EXCEPT !.phase = "failed"] \in JobType
    BY DEF MemoryInv, MemoryTypes, JobType
  <2>2. \/ jobs' = jobs
        \/ jobs' = [p \in Periods |-> IF jobs[p].phase \in {"reserved", "calling"}
                                      THEN [jobs[p] EXCEPT !.phase = "failed"] ELSE jobs[p]]
    OBVIOUS
  <2>3. jobs' \in [Periods -> JobType]
    BY <2>1, <2>2 DEF MemoryInv, MemoryTypes
  <2> QED
    BY <2>1, <2>2, <2>3 DEF FailsOnly
<1>3. memory' \in RunType /\ memory'.pc \in {"idle", "next"}
  <2>1. Jobs({p \in Periods : IsReservedToday(jobs[p])}) \in Seq(Periods) /\ Schedule(summaries') \in Seq(Periods)
    BY JobsInOrder, ScheduleTyped
  <2>2. memory \in RunType
    BY DEF MemoryInv, MemoryTypes
  <2>3. CASE memory' = Asleep
    <3>1. Asleep.pc = "idle"
      BY DEF Asleep
    <3> HIDE DEF StageEnds
    <3> QED
      BY <2>3, <3>1, AsleepTyped
  <2>4. CASE memory' # Asleep
    <3>1. \E st \in {"reserved", "scheduled"}, todo \in Seq(Periods) :
              memory' = [memory EXCEPT !.stage = st, !.todo = todo]
      BY <2>1, <2>4
    <3> QED
      BY <1>1, <2>2, <3>1 DEF RunType
  <2> QED
    BY <2>3, <2>4
<1>4. summaries' \in [Periods -> SummaryType]
  BY <1>1, RefreshedTyped DEF MemoryInv, MemoryTypes
<1>5. MemoryTypes'
  BY <1>1, <1>2, <1>3, <1>4 DEF MemoryInv, MemoryTypes
<1>6. RunOK'
  <2>1. \A p \in Periods : jobs'[p].phase # "calling"
    <3>1. \A p \in Periods : jobs[p] \in JobType /\ jobs[p].phase # "calling"
      BY <1>1 DEF MemoryInv, MemoryTypes, RunOK
    <3> QED
      BY <1>2, <3>1 DEF FailsOnly, JobType
  <2> QED
    BY <1>3, <2>1 DEF RunOK
<1> QED
  BY <1>1, <1>2, <1>5, <1>6, FailuresKeep DEF MemoryInv

LEMMA ReadSourceKeeps == ASSUME MemoryInv, ReadSource PROVE MemoryInv'
<1> USE DEF ReadSource
<1>1. UNCHANGED <<day, dayLog, jobs, summaries, consent, bought>> /\ memory.todo # <<>> /\ memory.pc = "next"
  OBVIOUS
<1>2. \A p \in Periods : jobs'[p].phase # "calling"
  BY <1>1 DEF MemoryInv, RunOK
<1>3. memory' \in RunType /\ RunOK'
  <2>1. CASE Source(memory.todo[1]) = {}
    <3>1. memory' \in RunType /\ memory'.pc = "next"
      BY <1>1, <2>1, Continues
    <3> QED
      BY <1>2, <3>1 DEF RunOK
  <2>2. CASE Source(memory.todo[1]) # {}
    <3>1. Source(memory.todo[1]) \in SUBSET Versions
      BY <1>1, JobAtHand, SourceTyped DEF MemoryInv, MemoryTypes, Source
    <3>2. memory \in RunType /\ memory' = [memory EXCEPT !.pc = "reserve", !.source = Source(memory.todo[1])]
      BY <2>2 DEF MemoryInv, MemoryTypes
    <3>3. /\ memory' \in RunType /\ memory'.pc = "reserve" /\ memory'.source = Source(memory.todo[1])
          /\ memory'.todo = memory.todo
      BY <3>1, <3>2 DEF RunType
    <3> QED
      BY <1>1, <1>2, <2>2, <3>3 DEF RunOK
  <2> QED
    BY <2>1, <2>2
<1>4. MemoryTypes'
  BY <1>1, <1>3 DEF MemoryInv, MemoryTypes
<1> QED
  BY <1>1, <1>3, <1>4, NothingFails DEF MemoryInv

(* reserve_job.                                                            *)
LEMMA ReserveJobKeeps == ASSUME MemoryInv, ReserveJob PROVE MemoryInv'
<1> DEFINE t == memory.todo[1]
           fresh == [phase |-> "reserved", day |-> day, digest |-> memory.source, text |-> {}]
<1>1. /\ UNCHANGED <<day, dayLog, summaries, consent, bought>> /\ memory.pc = "reserve"
      /\ memory.todo # <<>> /\ memory.source # {} /\ \A p \in Periods : jobs[p].phase # "calling"
  BY DEF ReserveJob, MemoryInv, RunOK
<1>2. /\ t \in Periods /\ Job \in JobType /\ Job = jobs[t] /\ memory \in RunType
      /\ jobs \in [Periods -> JobType] /\ day \in MemoryDays
  BY <1>1, JobAtHand DEF MemoryInv, MemoryTypes, Job
<1> HIDE DEF t
<1>3. CASE Job.phase = "reserved" /\ SetJob([Job EXCEPT !.phase = "failed"]) /\ Continue
  <2>1. [Job EXCEPT !.phase = "failed"] \in JobType
    BY <1>2 DEF JobType
  <2>2. /\ jobs' \in [Periods -> JobType] /\ jobs'[t] = [Job EXCEPT !.phase = "failed"]
        /\ \A p \in Periods : p # t => jobs'[p] = jobs[p]
    BY <1>1, <1>3, <2>1, SetsJob DEF t
  <2>3. FailsOnly
    BY <1>2, <1>3, <2>2 DEF FailsOnly
  <2>4. memory' \in RunType /\ memory'.pc = "next"
    BY <1>1, <1>3, Continues
  <2>5. MemoryTypes'
    BY <1>1, <2>2, <2>4 DEF MemoryInv, MemoryTypes
  <2>6. \A p \in Periods : jobs'[p].phase # "calling"
    BY <1>1, <1>2, <2>2 DEF JobType
  <2>7. RunOK'
    BY <2>4, <2>6 DEF RunOK
  <2> QED
    BY <1>1, <2>3, <2>5, <2>7, FailuresKeep DEF MemoryInv
<1>4. CASE jobs' = jobs /\ Continue
  <2>1. memory' \in RunType /\ memory'.pc = "next"
    BY <1>1, <1>4, Continues
  <2>2. MemoryTypes' /\ RunOK'
    BY <1>1, <1>4, <2>1 DEF MemoryInv, MemoryTypes, RunOK
  <2> QED
    BY <1>1, <1>4, <2>2, NothingFails DEF MemoryInv
<1>5. CASE /\ jobs' = jobs /\ KeptJob(Job) /\ Job.phase \notin {"committed", "failed"}
           /\ memory' = [memory EXCEPT !.pc = "generate"]
  <2>1. /\ memory' \in RunType /\ memory'.pc = "generate" /\ memory'.todo = memory.todo
        /\ memory'.source = memory.source
    BY <1>2, <1>5 DEF RunType
  <2>2. Job' = Job
    BY <1>5, <2>1 DEF Job
  <2>3. Job.phase = "generated" \/ (Job.phase = "reserved" /\ Job.day = day)
    BY <1>1, <1>2, <1>5 DEF KeptJob, JobType
  <2>4. MemoryTypes'
    BY <1>1, <1>5, <2>1 DEF MemoryInv, MemoryTypes
  <2>5. RunOK'
    BY <1>1, <1>5, <2>1, <2>2, <2>3 DEF RunOK
  <2> QED
    BY <1>1, <1>5, <2>4, <2>5, NothingFails DEF MemoryInv
<1>6. CASE /\ ~KeptJob(Job) /\ Used(t.kind) < 2 /\ SetJob(fresh) /\ memory' = [memory EXCEPT !.pc = "generate"]
  <2>1. fresh \in JobType
    BY <1>2 DEF JobType, MemoryTypes, RunType, MemoryDays
  <2>2. /\ jobs' \in [Periods -> JobType] /\ jobs'[t] = fresh
        /\ \A p \in Periods : p # t => jobs'[p] = jobs[p]
    BY <1>1, <1>6, <2>1, SetsJob DEF t
  <2>3. /\ memory' \in RunType /\ memory'.pc = "generate" /\ memory'.todo = memory.todo
        /\ memory'.source = memory.source
    BY <1>2, <1>6 DEF RunType
  <2>4. Job' = fresh
    BY <2>2, <2>3 DEF Job, t
  <2>5. MemoryTypes'
    BY <1>1, <2>2, <2>3 DEF MemoryInv, MemoryTypes
  <2>6. RunOK'
    <3>1. \A p \in Periods : jobs'[p].phase # "calling"
      BY <1>1, <2>2
    <3> QED
      BY <1>1, <2>3, <2>4, <3>1 DEF RunOK
  <2>7. jobs[t].phase # "generated" /\ (jobs[t].phase = "none" \/ jobs[t].day < day) /\ jobs[t].day <= day
    BY <1>2, <1>6 DEF KeptJob, MemoryInv, JobsOK, JobType, MemoryDays
  <2>8. JobsOK'
    <3>1. day' = day /\ day # 0 /\ day <= day
      BY <1>1, <1>2 DEF MemoryDays
    <3> QED
      BY <2>2, <3>1 DEF MemoryInv, JobsOK
  <2>9. CallsOnce'
    <3>1. ASSUME NEW p \in Periods, NEW d \in MemoryDays PROVE CallOnce(p, d)'
      <4>1. CallOnce(p, d) /\ bought' = bought
        BY <1>1 DEF MemoryInv, CallsOK, CallsOnce
      <4>2. CASE p # t
        BY <2>2, <4>1, <4>2 DEF CallOnce
      <4>3. CASE p = t
        <5>1. jobs[t].phase = "none" => bought.calls[p][d] = 0
          BY <1>2, <4>1, <4>3 DEF CallOnce, MemoryInv, JobsOK, MemoryDays
        <5>2. bought.calls[p][d] = 0 \/ (bought.calls[p][d] = 1 /\ d < day)
          BY <1>2, <2>7, <4>1, <4>3, <5>1 DEF CallOnce, MemoryDays, JobType
        <5>3. jobs'[p].day = day
          BY <2>2, <4>3
        <5>4. d < day => d <= day /\ d # day
          BY <1>2 DEF MemoryDays
        <5> QED
          BY <4>1, <5>2, <5>3, <5>4 DEF CallOnce
      <4> QED
        BY <4>2, <4>3
    <3> QED
      BY <3>1 DEF CallsOnce
  <2>10. \A kind \in Kinds : SlotsHeld(kind)' \subseteq SlotsHeld(kind) \/ Cardinality(SlotsHeld(kind)') <= 2
    <3> TAKE kind \in Kinds
    <3>1. CASE kind # t.kind
      BY <1>1, <2>2, <3>1 DEF SlotsHeld
    <3>2. CASE kind = t.kind
      <4>1. SlotsHeld(kind)' \subseteq SlotsHeld(kind) \cup {t}
        BY <1>1, <2>2 DEF SlotsHeld
      <4>2. SlotsHeld(kind) \in SUBSET Periods /\ SlotsHeld(kind)' \in SUBSET Periods
        BY DEF SlotsHeld
      <4>3. IsFiniteSet(SlotsHeld(kind)) /\ Cardinality(SlotsHeld(kind)) \in Nat /\ Cardinality(SlotsHeld(kind)') \in Nat
        BY <4>2, PeriodsFinite
      <4>4. Cardinality(SlotsHeld(kind)) < 2
        BY <1>6, <3>2 DEF SlotsHeld, Used
      <4>5. /\ IsFiniteSet(SlotsHeld(kind) \cup {t})
            /\ Cardinality(SlotsHeld(kind) \cup {t}) <= Cardinality(SlotsHeld(kind)) + 1
        BY <4>3, FS_AddElement
      <4>6. Cardinality(SlotsHeld(kind)') <= Cardinality(SlotsHeld(kind) \cup {t})
        BY <4>1, <4>5, FS_Subset
      <4>7. Cardinality(SlotsHeld(kind) \cup {t}) \in Nat
        BY <4>5, FS_CardinalityType
      <4> QED
        BY <4>3, <4>4, <4>5, <4>6, <4>7
    <3> QED
      BY <3>1, <3>2
  <2>11. \A p \in Periods, d \in MemoryDays : ~(bought'.calls[p][d] > bought.calls[p][d])
    BY <1>1 DEF MemoryInv, MemoryTypes
  <2>12. CallsOK'
    BY <1>1, <2>5, <2>8, <2>9, <2>10, <2>11, CallsStay DEF MemoryInv
  <2>13. AnswersOK'
    <3>1. \A a \in bought.unused : a.period \in Periods /\ jobs[a.period].phase = "generated"
      BY DEF MemoryInv, MemoryTypes, AnswersOK
    <3> QED
      BY <1>1, <2>2, <2>7, <3>1 DEF MemoryInv, AnswersOK
  <2> QED
    BY <2>5, <2>6, <2>8, <2>12, <2>13 DEF MemoryInv
<1> QED
  BY <1>3, <1>4, <1>5, <1>6 DEF ReserveJob, t

(* A job at hand fails that is not answered.                               *)
LEMMA FailKeeps ==
    ASSUME MemoryInv, memory.todo # <<>>, Job.phase \in {"reserved", "calling"},
           SetJob([Job EXCEPT !.phase = "failed"]), Continue,
           UNCHANGED <<day, dayLog, summaries, consent, bought>>,
           \A p \in Periods : p # memory.todo[1] => jobs[p].phase # "calling"
    PROVE  MemoryInv'
<1> DEFINE t == memory.todo[1]
<1>1. t \in Periods /\ Job \in JobType /\ Job = jobs[t] /\ [Job EXCEPT !.phase = "failed"] \in JobType
  BY JobAtHand DEF Job, JobType
<1>2. /\ jobs' \in [Periods -> JobType] /\ jobs'[t] = [Job EXCEPT !.phase = "failed"]
      /\ \A p \in Periods : p # t => jobs'[p] = jobs[p]
  BY <1>1, SetsJob
<1> HIDE DEF t
<1>3. FailsOnly
  BY <1>1, <1>2 DEF FailsOnly
<1>4. memory' \in RunType /\ memory'.pc = "next"
  BY Continues
<1>5. MemoryTypes'
  BY <1>2, <1>4 DEF MemoryInv, MemoryTypes
<1>6. \A p \in Periods : jobs'[p].phase # "calling"
  BY <1>1, <1>2 DEF JobType, t
<1>7. RunOK'
  BY <1>4, <1>6 DEF RunOK
<1> QED
  BY <1>3, <1>5, <1>7, FailuresKeep DEF MemoryInv

(* The end of a period: whatever the job is, the next one comes.           *)
LEMMA PassesKeep ==
    ASSUME MemoryInv, memory.todo # <<>>, Continue, memory.pc \notin {"idle", "calling"},
           UNCHANGED <<day, dayLog, jobs, summaries, consent, bought>>
    PROVE  MemoryInv'
<1>1. memory' \in RunType /\ memory'.pc = "next"
  BY Continues
<1>2. MemoryTypes' /\ RunOK'
  BY <1>1 DEF MemoryInv, MemoryTypes, RunOK
<1> QED
  BY <1>2, NothingFails DEF MemoryInv

LEMMA PeriodFailsKeeps == ASSUME MemoryInv, PeriodFails \/ CallFails PROVE MemoryInv'
<1>1. CASE PeriodFails
  <2>1. memory.todo # <<>>
    BY <1>1 DEF PeriodFails, MemoryInv, RunOK
  <2> QED
    BY <1>1, <2>1, PassesKeep DEF PeriodFails
<1>2. CASE CallFails
  <2>1. memory.todo # <<>> /\ Job.phase = "calling" /\ \A p \in Periods : jobs[p].phase = "calling" => p = memory.todo[1]
    BY <1>2 DEF CallFails, MemoryInv, RunOK
  <2> QED
    BY <1>2, <2>1, FailKeeps DEF CallFails
<1> QED
  BY <1>1, <1>2

(* The job at hand goes on, and the calls made for it with it.             *)
LEMMA JobGoesOn ==
    ASSUME MemoryInv, memory.todo # <<>>, NEW j \in JobType, SetJob(j), MemoryTypes',
           UNCHANGED day, Job.phase # "none", j.phase # "none", j.day = Job.day,
           j.phase \in {"reserved", "calling"} => j.text = {}, j.phase = "generated" => j.text # {},
           \A p \in Periods, d \in MemoryDays : p = memory.todo[1] => CallOnce(p, d)',
           \A p \in Periods : p # memory.todo[1] => bought'.calls[p] = bought.calls[p],
           \A d \in MemoryDays :
               bought'.calls[memory.todo[1]][d] > bought.calls[memory.todo[1]][d] => d = day
    PROVE  JobsOK' /\ CallsOK'
<1> DEFINE t == memory.todo[1]
<1>1. t \in Periods /\ Job \in JobType /\ Job = jobs[t]
  BY JobAtHand DEF Job
<1>2. /\ jobs' \in [Periods -> JobType] /\ jobs'[t] = j
      /\ \A p \in Periods : p # t => jobs'[p] = jobs[p]
  BY <1>1, SetsJob
<1>3. /\ \A p \in Periods, d \in MemoryDays : p = t => CallOnce(p, d)'
      /\ \A p \in Periods : p # t => bought'.calls[p] = bought.calls[p]
      /\ \A d \in MemoryDays : bought'.calls[t][d] > bought.calls[t][d] => d = day
  OBVIOUS
<1> HIDE DEF t
<1>4. JobsOK'
  BY <1>1, <1>2 DEF MemoryInv, JobsOK
<1>5. CallsOnce'
  <2>1. ASSUME NEW p \in Periods, NEW d \in MemoryDays, p # t PROVE CallOnce(p, d)'
    <3>1. CallOnce(p, d) /\ jobs'[p] = jobs[p] /\ bought'.calls[p] = bought.calls[p]
      BY <1>2, <1>3, <2>1 DEF MemoryInv, CallsOK, CallsOnce
    <3> QED
      BY <3>1 DEF CallOnce
  <2> QED
    BY <1>3, <2>1 DEF CallsOnce
<1>6. \A kind \in Kinds : SlotsHeld(kind)' \subseteq SlotsHeld(kind)
  BY <1>1, <1>2 DEF SlotsHeld
<1>7. \A p \in Periods, d \in MemoryDays : bought'.calls[p][d] > bought.calls[p][d] => d = day
  <2>1. \A p \in Periods, d \in MemoryDays : bought.calls[p][d] \in Nat
    BY DEF MemoryInv, MemoryTypes
  <2> QED
    BY <1>1, <1>3, <2>1
<1>8. CallsOK'
  BY <1>4, <1>5, <1>6, <1>7, CallsStay DEF MemoryInv
<1> QED
  BY <1>4, <1>8

(* generate: the job is claimed for its call.                              *)
LEMMA GenerateKeeps == ASSUME MemoryInv, Generate PROVE MemoryInv'
<1> DEFINE t == memory.todo[1]
<1>1. /\ UNCHANGED <<day, dayLog, summaries, consent>> /\ memory.pc = "generate" /\ memory.todo # <<>>
      /\ memory.source # {} /\ \A p \in Periods : jobs[p].phase # "calling"
      /\ Job.phase = "generated" \/ (Job.phase = "reserved" /\ Job.day = day)
  BY DEF Generate, MemoryInv, RunOK
<1>2. /\ t \in Periods /\ Job \in JobType /\ Job = jobs[t] /\ memory \in RunType
      /\ jobs \in [Periods -> JobType] /\ day \in MemoryDays
  BY <1>1, JobAtHand DEF MemoryInv, MemoryTypes, Job
<1>3. (Job.phase = "generated" => Job.text # {}) /\ (Job.phase = "reserved" => Job.text = {})
  BY <1>2 DEF MemoryInv, JobsOK
<1> HIDE DEF t
<1>4. CASE Job.text # {} /\ memory' = [memory EXCEPT !.pc = "save"] /\ UNCHANGED <<jobs, bought>>
  <2>1. /\ memory' \in RunType /\ memory'.pc = "save" /\ memory'.todo = memory.todo
        /\ memory'.source = memory.source
    BY <1>2, <1>4 DEF RunType
  <2>2. Job' = Job /\ Job.phase = "generated"
    BY <1>1, <1>3, <1>4, <2>1 DEF Job
  <2>3. MemoryTypes'
    BY <1>1, <1>4, <2>1 DEF MemoryInv, MemoryTypes
  <2>4. RunOK'
    BY <1>1, <1>4, <2>1, <2>2 DEF RunOK
  <2> QED
    BY <1>1, <1>4, <2>3, <2>4, NothingFails DEF MemoryInv
<1>5. CASE Job.text = {} /\ SetJob([Job EXCEPT !.phase = "failed"]) /\ Continue /\ UNCHANGED bought
  BY <1>1, <1>3, <1>5, FailKeeps
<1>6. CASE /\ Job.phase = "reserved" /\ SetJob([Job EXCEPT !.phase = "calling"])
           /\ bought' = [bought EXCEPT !.calls[t][Job.day] = @ + 1]
           /\ memory' = [memory EXCEPT !.pc = "calling"]
  <2> DEFINE j == [Job EXCEPT !.phase = "calling"]
  <2>1. j \in JobType /\ j.phase = "calling" /\ j.day = day /\ j.day = Job.day /\ j.text = {} /\ Job.day = day
    BY <1>1, <1>2, <1>3, <1>6 DEF JobType
  <2>2. SetJob(j)
    BY <1>6
  <2> HIDE DEF j
  <2>3. /\ jobs' \in [Periods -> JobType] /\ jobs'[t] = j
        /\ \A p \in Periods : p # t => jobs'[p] = jobs[p]
    BY <1>1, <2>1, <2>2, SetsJob DEF t
  <2>4. /\ memory' \in RunType /\ memory'.pc = "calling" /\ memory'.todo = memory.todo
        /\ memory'.source = memory.source
    BY <1>2, <1>6 DEF RunType
  <2>5. bought.calls[t][day] = 0
    <3>1. CallOnce(t, day)
      BY <1>2 DEF MemoryInv, CallsOK, CallsOnce
    <3> QED
      BY <1>2, <1>6, <2>1, <3>1 DEF CallOnce
  <2>6. bought' = [bought EXCEPT !.calls[t][day] = 1]
    BY <1>6, <2>1, <2>5
  <2>7. /\ bought' \in [calls : [Periods -> [MemoryDays -> Nat]],
                        unused : SUBSET [period : Periods, source : SUBSET Versions]]
        /\ bought'.calls[t][day] = 1
        /\ \A d \in MemoryDays : d # day => bought'.calls[t][d] = bought.calls[t][d]
        /\ \A p \in Periods : p # t => bought'.calls[p] = bought.calls[p]
        /\ bought'.unused = bought.unused
    BY <1>2, <2>6 DEF MemoryInv, MemoryTypes
  <2>8. MemoryTypes'
    BY <1>1, <2>3, <2>4, <2>7 DEF MemoryInv, MemoryTypes
  <2>9. \A p \in Periods, d \in MemoryDays : p = t => CallOnce(p, d)'
    <3> SUFFICES ASSUME NEW p \in Periods, NEW d \in MemoryDays, p = t PROVE CallOnce(p, d)'
      OBVIOUS
    <3>1. CallOnce(p, d)
      BY DEF MemoryInv, CallsOK, CallsOnce
    <3>2. jobs'[p].day = day /\ jobs'[p].phase = "calling" /\ jobs[p].day = day /\ jobs[p].phase = "reserved"
      BY <1>2, <1>6, <2>1, <2>3
    <3>3. CASE d = day
      <4>1. bought'.calls[p][d] = 1
        BY <2>7, <3>3
      <4> QED
        BY <1>2, <4>1, <3>2, <3>3 DEF CallOnce, MemoryDays
    <3>4. CASE d # day
      <4>1. bought'.calls[p][d] = bought.calls[p][d]
        BY <2>7, <3>4
      <4> QED
        BY <4>1, <3>1, <3>2, <3>4 DEF CallOnce
    <3> QED
      BY <3>3, <3>4
  <2>10. JobsOK' /\ CallsOK'
    <3>1. \A d \in MemoryDays : bought'.calls[t][d] > bought.calls[t][d] => d = day
      <4>1. \A d \in MemoryDays : bought.calls[t][d] \in Nat
        BY <1>2 DEF MemoryInv, MemoryTypes
      <4> QED
        BY <2>7, <4>1
    <3> QED
      BY <1>1, <1>6, <2>1, <2>2, <2>7, <2>8, <2>9, <3>1, JobGoesOn DEF t
  <2>11. RunOK'
    <3>1. Job' = j
      BY <2>3, <2>4 DEF Job, t
    <3>2. \A p \in Periods : jobs'[p].phase = "calling" => p = memory'.todo[1]
      BY <1>1, <2>3, <2>4 DEF t
    <3>3. bought'.calls[memory'.todo[1]][day'] = 1
      BY <1>1, <2>4, <2>7 DEF t
    <3> QED
      BY <1>1, <2>1, <2>4, <3>1, <3>2, <3>3 DEF RunOK
  <2>12. AnswersOK'
    <3>1. \A a \in bought.unused : /\ a.period \in Periods /\ jobs[a.period].phase = "generated"
                                   /\ jobs[a.period].text = a.source
      BY DEF MemoryInv, MemoryTypes, AnswersOK
    <3>2. \A a \in bought.unused : jobs'[a.period] = jobs[a.period]
      BY <1>2, <1>6, <2>3, <3>1
    <3> QED
      BY <2>7, <3>1, <3>2 DEF AnswersOK
  <2> QED
    BY <2>8, <2>10, <2>11, <2>12 DEF MemoryInv
<1> QED
  BY <1>4, <1>5, <1>6 DEF Generate, t

(* mark_generated, release_job_after_preemption: the end of a call.        *)
LEMMA CallEnds ==
    ASSUME MemoryInv, AnswerKept \/ ReleaseJob
    PROVE  MemoryInv'
<1> DEFINE t == memory.todo[1]
<1>1. /\ UNCHANGED <<day, dayLog, summaries, consent>> /\ memory.pc = "calling" /\ memory.todo # <<>>
      /\ memory.source # {} /\ \A p \in Periods : jobs[p].phase = "calling" => p = t
      /\ Job.phase = "calling" /\ Job.day = day
  BY DEF AnswerKept, ReleaseJob, MemoryInv, RunOK
<1>2. /\ t \in Periods /\ Job \in JobType /\ Job = jobs[t] /\ memory \in RunType
      /\ jobs \in [Periods -> JobType] /\ day \in MemoryDays /\ Job.text = {}
  BY <1>1, JobAtHand DEF MemoryInv, MemoryTypes, JobsOK, Job
<1>3. bought.calls[t][day] = 1
  BY <1>1 DEF MemoryInv, RunOK
<1>4. \A a \in bought.unused : /\ a.period \in Periods /\ jobs[a.period].phase = "generated"
                               /\ jobs[a.period].text = a.source /\ a.period # t
  BY <1>1, <1>2 DEF MemoryInv, MemoryTypes, AnswersOK
<1> HIDE DEF t
<1>5. CASE AnswerKept
  <2> DEFINE j == [Job EXCEPT !.phase = "generated", !.text = memory.source]
             answer == Paid(t, memory.source)
  <2>1. /\ SetJob(j) /\ bought' = [bought EXCEPT !.unused = @ \cup {answer}]
        /\ memory' = [memory EXCEPT !.pc = "save"]
    BY <1>5 DEF AnswerKept, t
  <2>2. /\ j \in JobType /\ j.phase = "generated" /\ j.day = day /\ j.day = Job.day
        /\ j.text = memory.source /\ j.text # {}
    BY <1>1, <1>2 DEF JobType, RunType
  <2>3. answer \in [period : Periods, source : SUBSET Versions] /\ answer.period = t /\ answer.source = memory.source
    BY <1>2 DEF Paid, RunType
  <2> HIDE DEF j, answer
  <2>4. /\ jobs' \in [Periods -> JobType] /\ jobs'[t] = j
        /\ \A p \in Periods : p # t => jobs'[p] = jobs[p]
    BY <1>1, <2>1, <2>2, SetsJob DEF t
  <2>5. /\ memory' \in RunType /\ memory'.pc = "save" /\ memory'.todo = memory.todo
        /\ memory'.source = memory.source
    BY <1>2, <2>1 DEF RunType
  <2>6. /\ bought' \in [calls : [Periods -> [MemoryDays -> Nat]],
                        unused : SUBSET [period : Periods, source : SUBSET Versions]]
        /\ bought'.calls = bought.calls /\ bought'.unused = bought.unused \cup {answer}
    BY <2>1, <2>3 DEF MemoryInv, MemoryTypes
  <2>7. MemoryTypes'
    BY <1>1, <2>4, <2>5, <2>6 DEF MemoryInv, MemoryTypes
  <2>8. \A p \in Periods, d \in MemoryDays : p = t => CallOnce(p, d)'
    <3> SUFFICES ASSUME NEW p \in Periods, NEW d \in MemoryDays, p = t PROVE CallOnce(p, d)'
      OBVIOUS
    <3>1. CallOnce(p, d)
      BY DEF MemoryInv, CallsOK, CallsOnce
    <3>2. jobs'[p].day = day /\ jobs'[p].phase = "generated" /\ jobs[p].day = day
      BY <1>1, <1>2, <2>2, <2>4
    <3> QED
      BY <3>1, <3>2, <2>6 DEF CallOnce
  <2>9. JobsOK' /\ CallsOK'
    <3>1. /\ \A d \in MemoryDays : bought'.calls[t][d] > bought.calls[t][d] => d = day
          /\ \A p \in Periods : p # t => bought'.calls[p] = bought.calls[p]
      <4>1. \A d \in MemoryDays : bought.calls[t][d] \in Nat
        BY <1>2 DEF MemoryInv, MemoryTypes
      <4> QED
        BY <2>6, <4>1
    <3> QED
      BY <1>1, <2>1, <2>2, <2>7, <2>8, <3>1, JobGoesOn DEF t
  <2>10. RunOK'
    <3>1. Job' = j
      BY <2>4, <2>5 DEF Job, t
    <3>2. \A p \in Periods : jobs'[p].phase # "calling"
      BY <1>1, <2>2, <2>4 DEF t
    <3> QED
      BY <1>1, <2>2, <2>5, <3>1, <3>2 DEF RunOK
  <2>11. AnswersOK'
    <3>1. \A a \in bought.unused : jobs'[a.period] = jobs[a.period]
      BY <1>4, <2>4
    <3> QED
      BY <1>4, <2>2, <2>3, <2>4, <2>6, <3>1 DEF AnswersOK
  <2> QED
    BY <2>7, <2>9, <2>10, <2>11 DEF MemoryInv
<1>6. CASE ReleaseJob
  <2> DEFINE j == [Job EXCEPT !.phase = "reserved"]
  <2>1. /\ SetJob(j) /\ bought' = [bought EXCEPT !.calls[t][Job.day] = @ - 1] /\ Continue
    BY <1>6 DEF ReleaseJob, t
  <2>2. j \in JobType /\ j.phase = "reserved" /\ j.day = day /\ j.day = Job.day /\ j.text = {}
    BY <1>1, <1>2 DEF JobType
  <2> HIDE DEF j
  <2>3. /\ jobs' \in [Periods -> JobType] /\ jobs'[t] = j
        /\ \A p \in Periods : p # t => jobs'[p] = jobs[p]
    BY <1>1, <2>1, <2>2, SetsJob DEF t
  <2>4. memory' \in RunType /\ memory'.pc = "next"
    BY <1>1, <2>1, Continues
  <2>5. bought' = [bought EXCEPT !.calls[t][day] = 0]
    BY <1>1, <1>3, <2>1
  <2>6. /\ bought' \in [calls : [Periods -> [MemoryDays -> Nat]],
                        unused : SUBSET [period : Periods, source : SUBSET Versions]]
        /\ bought'.calls[t][day] = 0
        /\ \A d \in MemoryDays : d # day => bought'.calls[t][d] = bought.calls[t][d]
        /\ \A p \in Periods : p # t => bought'.calls[p] = bought.calls[p]
        /\ bought'.unused = bought.unused
    BY <1>2, <2>5 DEF MemoryInv, MemoryTypes
  <2>7. MemoryTypes'
    BY <1>1, <2>3, <2>4, <2>6 DEF MemoryInv, MemoryTypes
  <2>8. \A p \in Periods, d \in MemoryDays : p = t => CallOnce(p, d)'
    <3> SUFFICES ASSUME NEW p \in Periods, NEW d \in MemoryDays, p = t PROVE CallOnce(p, d)'
      OBVIOUS
    <3>1. CallOnce(p, d)
      BY DEF MemoryInv, CallsOK, CallsOnce
    <3>2. jobs'[p].day = day /\ jobs[p].day = day
      BY <1>1, <1>2, <2>2, <2>3
    <3>3. CASE d = day
      BY <2>6, <3>3 DEF CallOnce
    <3>4. CASE d # day
      <4>1. bought'.calls[p][d] = bought.calls[p][d]
        BY <2>6, <3>4
      <4> QED
        BY <4>1, <3>1, <3>2, <3>4 DEF CallOnce
    <3> QED
      BY <3>3, <3>4
  <2>9. JobsOK' /\ CallsOK'
    <3>1. \A d \in MemoryDays : ~(bought'.calls[t][d] > bought.calls[t][d])
      <4>1. \A d \in MemoryDays : bought.calls[t][d] \in Nat
        BY <1>2 DEF MemoryInv, MemoryTypes
      <4> QED
        BY <1>3, <2>6, <4>1
    <3> QED
      BY <1>1, <2>1, <2>2, <2>6, <2>7, <2>8, <3>1, JobGoesOn DEF t
  <2>10. RunOK'
    <3>1. \A p \in Periods : jobs'[p].phase # "calling"
      BY <1>1, <2>2, <2>3 DEF t
    <3> QED
      BY <2>4, <3>1 DEF RunOK
  <2>11. AnswersOK'
    <3>1. \A a \in bought.unused : jobs'[a.period] = jobs[a.period]
      BY <1>4, <2>3
    <3> QED
      BY <1>4, <2>6, <3>1 DEF AnswersOK
  <2> QED
    BY <2>7, <2>9, <2>10, <2>11 DEF MemoryInv
<1> QED
  BY <1>5, <1>6

(* An answer that is used: saved, or of a source that has changed.         *)
LEMMA AnswerUsed ==
    ASSUME MemoryInv, SaveSummary \/ CommitJob
    PROVE  MemoryInv'
<1> DEFINE t == memory.todo[1]
           used == Paid(t, Job.text)
<1>1. /\ UNCHANGED <<day, dayLog, consent>> /\ memory.pc \in {"save", "commit"} /\ memory.todo # <<>>
      /\ memory.source # {} /\ (\A p \in Periods : jobs[p].phase # "calling") /\ Job.phase = "generated"
  BY DEF SaveSummary, CommitJob, MemoryInv, RunOK
<1>2. /\ t \in Periods /\ Job \in JobType /\ Job = jobs[t] /\ memory \in RunType
      /\ jobs \in [Periods -> JobType] /\ day \in MemoryDays
  BY <1>1, JobAtHand DEF MemoryInv, MemoryTypes, Job
<1>3. \A a \in bought.unused : /\ a.period \in Periods /\ jobs[a.period].phase = "generated"
                               /\ jobs[a.period].text = a.source
                               /\ a = [period |-> a.period, source |-> a.source]
  BY DEF MemoryInv, MemoryTypes, AnswersOK
<1>4. \A a \in bought.unused : a.period = t => a = used
  BY <1>2, <1>3 DEF Paid
<1>5. /\ [bought EXCEPT !.unused = @ \ {used}] \in
              [calls : [Periods -> [MemoryDays -> Nat]], unused : SUBSET [period : Periods, source : SUBSET Versions]]
      /\ [bought EXCEPT !.unused = @ \ {used}].calls = bought.calls
      /\ [bought EXCEPT !.unused = @ \ {used}].unused = bought.unused \ {used}
  BY DEF MemoryInv, MemoryTypes
<1> HIDE DEF t, used
(* The job comes to its end, and nothing of it is left to be used.         *)
<1>6. ASSUME NEW phase \in {"failed", "committed"}, SetJob([Job EXCEPT !.phase = phase]), Continue,
             UNCHANGED summaries, bought' \in {bought, [bought EXCEPT !.unused = @ \ {used}]},
             \A a \in bought'.unused : a.period # t
      PROVE  MemoryInv'
  <2> DEFINE j == [Job EXCEPT !.phase = phase]
  <2>1. j \in JobType /\ j.phase = phase /\ j.day = Job.day
    BY <1>2 DEF JobType
  <2>2. SetJob(j)
    BY <1>6
  <2> HIDE DEF j
  <2>3. /\ jobs' \in [Periods -> JobType] /\ jobs'[t] = j
        /\ \A p \in Periods : p # t => jobs'[p] = jobs[p]
    BY <1>1, <2>1, <2>2, SetsJob DEF t
  <2>4. memory' \in RunType /\ memory'.pc = "next"
    BY <1>1, <1>6, Continues
  <2>5. /\ bought' \in [calls : [Periods -> [MemoryDays -> Nat]], unused : SUBSET [period : Periods, source : SUBSET Versions]]
        /\ bought'.calls = bought.calls /\ bought'.unused \subseteq bought.unused
    BY <1>5, <1>6 DEF MemoryInv, MemoryTypes
  <2>6. MemoryTypes'
    BY <1>1, <1>6, <2>3, <2>4, <2>5 DEF MemoryInv, MemoryTypes
  <2>7. \A p \in Periods, d \in MemoryDays : p = t => CallOnce(p, d)'
    <3> SUFFICES ASSUME NEW p \in Periods, NEW d \in MemoryDays, p = t PROVE CallOnce(p, d)'
      OBVIOUS
    <3>1. CallOnce(p, d)
      BY DEF MemoryInv, CallsOK, CallsOnce
    <3>2. jobs'[p].day = jobs[p].day /\ jobs'[p].phase \notin {"none", "reserved"}
      BY <1>2, <2>1, <2>3
    <3> QED
      BY <2>5, <3>1, <3>2 DEF CallOnce
  <2>8. JobsOK' /\ CallsOK'
    <3>1. \A d \in MemoryDays : bought'.calls[t][d] > bought.calls[t][d] => d = day
      <4>1. \A d \in MemoryDays : bought.calls[t][d] \in Nat
        BY <1>2 DEF MemoryInv, MemoryTypes
      <4> QED
        BY <2>5, <4>1
    <3>2. \A p \in Periods : p # t => bought'.calls[p] = bought.calls[p]
      BY <2>5
    <3> QED
      BY <1>1, <2>1, <2>2, <2>6, <2>7, <3>1, <3>2, JobGoesOn DEF t
  <2>9. RunOK'
    <3>1. \A p \in Periods : jobs'[p].phase # "calling"
      BY <1>1, <2>1, <2>3
    <3> QED
      BY <2>4, <3>1 DEF RunOK
  <2>10. AnswersOK'
    <3>1. \A a \in bought'.unused : jobs'[a.period] = jobs[a.period] /\ a \in bought.unused
      BY <1>3, <1>6, <2>3, <2>5
    <3> QED
      BY <1>3, <3>1 DEF AnswersOK
  <2> QED
    BY <2>6, <2>8, <2>9, <2>10 DEF MemoryInv
<1>7. CASE SaveSummary /\ Source(t) # Job.digest
  <2>1. /\ SetJob([Job EXCEPT !.phase = "failed"]) /\ Continue /\ UNCHANGED summaries
        /\ bought' = [bought EXCEPT !.unused = @ \ {used}]
    BY <1>7 DEF SaveSummary, t, used
  <2>2. \A a \in bought'.unused : a.period # t
    BY <1>4, <1>5, <2>1
  <2> QED
    BY <1>6, <2>1, <2>2
<1>8. CASE SaveSummary /\ Source(t) = Job.digest
  <2>1. /\ summaries' = [summaries EXCEPT ![t] = [digest |-> Job.digest, text |-> Job.text, current |-> TRUE]]
        /\ memory' = [memory EXCEPT !.pc = "commit"] /\ UNCHANGED jobs
        /\ bought' = [bought EXCEPT !.unused = @ \ {used}]
    BY <1>8 DEF SaveSummary, t, used
  <2>2. summaries' \in [Periods -> SummaryType]
    <3>1. [digest |-> Job.digest, text |-> Job.text, current |-> TRUE] \in SummaryType
      BY <1>2 DEF JobType, SummaryType
    <3> QED
      BY <2>1, <3>1 DEF MemoryInv, MemoryTypes
  <2>3. /\ memory' \in RunType /\ memory'.pc = "commit" /\ memory'.todo = memory.todo
        /\ memory'.source = memory.source
    BY <1>2, <2>1 DEF RunType
  <2>4. MemoryTypes'
    BY <1>1, <1>5, <2>1, <2>2, <2>3 DEF MemoryInv, MemoryTypes
  <2>5. /\ bought'.calls = bought.calls /\ bought'.unused \subseteq bought.unused
        /\ \A a \in bought'.unused : a.period # t
    BY <1>4, <1>5, <2>1
  <2>6. JobsOK' /\ RunOK'
    <3>1. Job' = Job
      BY <2>1, <2>3 DEF Job
    <3> QED
      BY <1>1, <2>1, <2>3, <2>5, <3>1 DEF MemoryInv, JobsOK, RunOK, t
  <2>7. CallsOK'
    <3>1. CallsOnce'
      BY <1>1, <2>1, <2>5 DEF MemoryInv, CallsOK, CallsOnce, CallOnce
    <3>2. \A kind \in Kinds : SlotsHeld(kind)' \subseteq SlotsHeld(kind)
      BY <1>1, <2>1 DEF SlotsHeld
    <3>3. \A p \in Periods, d \in MemoryDays : ~(bought'.calls[p][d] > bought.calls[p][d])
      <4>1. \A p \in Periods, d \in MemoryDays : bought.calls[p][d] \in Nat
        BY DEF MemoryInv, MemoryTypes
      <4> QED
        BY <2>5, <4>1
    <3> QED
      BY <1>1, <2>4, <2>6, <3>1, <3>2, <3>3, CallsStay DEF MemoryInv
  <2>8. AnswersOK'
    BY <1>3, <2>1, <2>5 DEF AnswersOK
  <2> QED
    BY <2>4, <2>6, <2>7, <2>8 DEF MemoryInv
<1>9. CASE CommitJob
  <2>1. SetJob([Job EXCEPT !.phase = "committed"]) /\ Continue /\ UNCHANGED <<summaries, bought>>
    BY <1>9 DEF CommitJob
  <2>2. \A a \in bought'.unused : a.period # t
    BY <1>9, <2>1 DEF CommitJob, MemoryInv, RunOK, t
  <2> QED
    BY <1>6, <2>1, <2>2
<1> QED
  BY <1>7, <1>8, <1>9

LEMMA MemoryInvStep == MemoryInv /\ [MemoryNext]_memoryVars => MemoryInv'
<1> SUFFICES ASSUME MemoryInv, [MemoryNext]_memoryVars PROVE MemoryInv'
  OBVIOUS
<1>1. CASE UNCHANGED memoryVars
  <2>1. MemoryTypes' /\ RunOK'
    BY <1>1 DEF memoryVars, MemoryInv, MemoryTypes, RunOK, Job
  <2> QED
    BY <1>1, <2>1, NothingFails DEF memoryVars, MemoryInv
<1>2. CASE (\E d \in MemoryDays : LogDay(d)) \/ Consent \/ Preempt \/ MemoryCrash
  BY <1>2, OutsideKeeps
<1>3. CASE NextDay
  BY <1>3, NextDayKeeps
<1>4. CASE RunDue \/ \E p \in Periods : Consolidate(p)
  BY <1>4, RunsKeep
<1>5. CASE MemoryStep
  BY <1>5, StageEndsKeeps, ReadSourceKeeps, ReserveJobKeeps, GenerateKeeps, CallEnds, AnswerUsed DEF MemoryStep
<1>6. CASE CallFails \/ PeriodFails
  BY <1>6, PeriodFailsKeeps
<1> QED
  BY <1>1, <1>2, <1>3, <1>4, <1>5, <1>6 DEF MemoryNext

LEMMA MemoryInvariant == MemorySpec => []MemoryInv
BY MemoryStarts, MemoryInvStep, PTL DEF MemorySpec

(* The jobs, the summaries and the service keep their types, whatever the  *)
(* log, the consent and the calls do (memory/service.rs).                  *)
THEOREM MemoryTyped == MemorySpec => []MemoryTypeOK
<1>1. MemoryInv => MemoryTypeOK
  <2> SUFFICES ASSUME MemoryInv PROVE MemoryTypeOK
    OBVIOUS
  <2>1. \A p \in Periods : jobs[p] \in JobType /\ summaries[p] \in SummaryType
    BY DEF MemoryInv, MemoryTypes
  <2> QED
    BY <2>1 DEF MemoryInv, MemoryTypes, MemoryTypeOK, JobType, SummaryType, RunType
<1> QED
  BY <1>1, MemoryInvariant, PTL

(* Two periods at most are called for in a day or a week (reserve_job), no *)
(* period twice a day unless the call was given up for a user, and no      *)
(* answer is lost between its arrival and its summary.                     *)
THEOREM CallsAreWellSpent == MemorySpec => []CallsWellSpent
<1>1. MemoryInv => CallsWellSpent
  <2> SUFFICES ASSUME MemoryInv PROVE CallsWellSpent
    OBVIOUS
  <2>1. \A p \in EverCalled, d \in MemoryDays : bought.calls[p][d] # 0 => bought.calls[p][d] = 1
    BY DEF MemoryInv, CallsOK, CallsOnce, CallOnce, EverCalled
  <2>2. \A p \in EverCalled : p.kind \in Kinds
    BY DEF EverCalled, Periods, Kinds
  <2> QED
    BY <2>1, <2>2 DEF MemoryInv, CallsOK, AnswersOK, CallsWellSpent
<1> QED
  BY <1>1, MemoryInvariant, PTL

----------------------------------------------------------------------------
(* SpeakerNaming.                                                          *)

MaybeName == VoiceNames \cup {NoName}
MaybeBubble == Bubbles \cup {NoBubble}
JobSteps == {"none", "load", "begin", "save", "finish", "dismiss", "scan", "end", "write",
             "record", "obsolete", "deliver", "show", "commit"}
JobRecords == [kind : JobKinds \cup {"idle"}, bubble : MaybeBubble, name : MaybeName,
              at : JobSteps, i : 0 .. MaxProposals, old : [Asks -> Proposal],
              mine : [Asks -> Proposal], todo : SUBSET Asks]

\* What holds of proposal p in the store, and of every copy of it: it has a name
\* and a card only once it is there, its confirmation is of this version, a result
\* that can be shown has its card, and what is being registered was confirmed.
Sound(p, q, names) ==
    /\ q \in Proposal
    /\ q.version = 0 => q.status = "absent" /\ q.name = NoName /\ q.bubble = NoBubble
    /\ q.version # 0 => q.status # "absent" /\ q.name \in VoiceNames
    /\ q.bubble.kind = "confirm" => q.bubble = ConfirmId(p, q.version)
    /\ q.status = "applied" /\ q.card \in {"pending", "delivering", "delivered"} => q.bubble \in Bubbles
    /\ q.status = "applying" => q.name \in names

\* A copy q of what is now r: no newer, and of the same name when of its version.
Follows(q, r) == q.version <= r.version /\ (q.version = r.version => q.name = r.name)

\* A request of the queue: a registration is of a version whose name was confirmed.
Fits(r, ps, names) ==
    /\ r \in CardJob
    /\ r.kind \in Clicks => r.bubble \in Bubbles
    /\ r.kind = "submit" => r.name \in VoiceNames
    /\ r.kind = "rename" => r.name \in names \cup {NoName}
    /\ r.kind = "register" => /\ r.bubble.version <= ps[r.bubble.of].version
                              /\ r.bubble.version = ps[r.bubble.of].version
                                    => ps[r.bubble.of].name \in names

\* A card in view: a confirmation shows the name of its version.
Shows(c, ps) ==
    /\ c \in [id : Bubbles, name : VoiceNames]
    /\ c.id.kind = "confirm" => /\ c.id.version <= ps[c.id.of].version
                                /\ c.id.version = ps[c.id.of].version => c.name = ps[c.id.of].name

StoreHeld == proposals \in [Asks -> Proposal] /\ \A p \in Asks : Sound(p, proposals[p], granted)

QueueFits ==
    /\ queue \in Seq(CardJob)
    /\ \A n \in 1 .. Len(queue) : Fits(queue[n], proposals, granted)

\* The job at hand and its copies of the proposals.
CopiesFollow ==
    \A p \in Asks : /\ Sound(p, job.mine[p], granted) /\ Follows(job.mine[p], proposals[p])
                    /\ Sound(p, job.old[p], granted) /\ Follows(job.old[p], proposals[p])
                    /\ job.kind = "sync" => job.mine[p].version = job.old[p].version
ClickHasItsCopy ==
    job.kind \in Clicks =>
        /\ job.at \in {"load", "begin", "save", "finish"}
        /\ job.at # "load" => Found.version = job.bubble.version
        /\ job.at # "load" /\ job.kind = "register" => Found.name \in granted
SyncKnowsItsPlace ==
    job.kind = "sync" =>
        /\ job.at = "load" => job.todo = {}
        /\ job.at \in {"scan", "record", "show", "commit"} => job.i \in Asks
        /\ \A p \in job.todo : job.mine[p].bubble \in Bubbles /\ (job.at = "scan" => p > job.i)
        /\ job.at = "record" => job.mine[job.i].status = "applied"
        /\ job.at = "show" => job.mine[job.i].bubble \in Bubbles
JobFits ==
    /\ job \in JobRecords
    /\ job.kind # "idle" => Fits(CardRequest(job.kind, job.bubble, job.name), proposals, granted)
    /\ CopiesFollow /\ ClickHasItsCopy /\ SyncKnowsItsPlace

CardsShow == \A c \in root : Shows(c, proposals)

OthersTyped ==
    /\ options \subseteq VoiceNames /\ Cardinality(options) # 1
    /\ named \in MaybeName /\ named \in granted \cup {NoName}
    /\ registry \in {"has", "lacks", "none"}
    /\ evidence \in [Asks -> {"sound", "unsourced", "lost"}] /\ late \in [Asks -> BOOLEAN]
    /\ core \in [busy : BOOLEAN, name : MaybeName, source : {"request", "inferred"}]
    /\ core.busy => core.name \in VoiceNames
    /\ granted \subseteq VoiceNames /\ shown \in [Asks -> 0 .. 2]
    /\ refused \in BOOLEAN /\ namingEvents \in 0 .. MaxNamingEvents

NamingInv == StoreHeld /\ QueueFits /\ JobFits /\ CardsShow /\ OthersTyped

----------------------------------------------------------------------------
(* What a change of the store does to one proposal.                        *)

USE DEF Asks

\* A change that takes proposal p from q to r: it stays held, and keeps its name
\* unless it gets a new version.
Moves(p, q, r, names) == Sound(p, r, names) /\ Follows(q, r)

LEMMA FieldsHeld ==
    ASSUME NEW p, NEW q, NEW names, Sound(p, q, names)
    PROVE  /\ q \in Proposal /\ q.version \in Nat /\ q.version <= MaxNameVersions
           /\ q.status \in NamingStatuses /\ q.bubble \in MaybeBubble /\ q.dismissal \in MaybeBubble
           /\ q.name \in MaybeName
           /\ q.version = 0 <=> q.status = "absent"
<1>1. q \in Proposal
  BY DEF Sound
<1>2. /\ q.status \in NamingStatuses /\ q.bubble \in MaybeBubble /\ q.dismissal \in MaybeBubble
      /\ q.name \in MaybeName /\ q.version \in 0 .. MaxNameVersions
  BY <1>1 DEF Proposal, MaybeBubble, MaybeName
<1>3. q.version \in Nat /\ q.version <= MaxNameVersions
  BY <1>2, NamingAssumption
<1>4. q.version = 0 <=> q.status = "absent"
  BY DEF Sound
<1> QED
  BY <1>1, <1>2, <1>3, <1>4

LEMMA MovesByFields ==
    ASSUME NEW p, NEW q, NEW r, NEW names, Sound(p, q, names), r \in Proposal,
           r.version = q.version, r.name = q.name, r.status = "absent" <=> q.status = "absent",
           r.bubble \in {q.bubble, NoBubble},
           r.status = "applied" /\ r.card \in {"pending", "delivering", "delivered"} => r.bubble \in Bubbles,
           r.status = "applying" => q.name \in names
    PROVE  Moves(p, q, r, names)
<1>1. q.version \in Nat
  BY FieldsHeld
<1>2. Follows(q, r)
  BY <1>1 DEF Follows
<1>3. r.version = 0 => r.status = "absent" /\ r.name = NoName /\ r.bubble = NoBubble
  BY DEF Sound
<1>4. r.version # 0 => r.status # "absent" /\ r.name \in VoiceNames
  BY DEF Sound
<1>5. NoBubble.kind # "confirm"
  BY DEF NoBubble
<1>6. r.bubble.kind = "confirm" => r.bubble = ConfirmId(p, r.version)
  BY <1>5 DEF Sound
<1> QED
  BY <1>2, <1>3, <1>4, <1>6 DEF Moves, Sound

LEMMA NamesGrow ==
    ASSUME NEW p, NEW q, NEW names, NEW more, names \subseteq more, Sound(p, q, names)
    PROVE  Sound(p, q, more)
BY DEF Sound

LEMMA RedactedHeld ==
    ASSUME NEW p, NEW q, NEW names, Sound(p, q, names)
    PROVE  /\ Sound(p, Redacted(q), names)
           /\ Redacted(q).version = q.version /\ Redacted(q).name = q.name
<1>1. q \in Proposal
  BY FieldsHeld
<1>2. /\ Redacted(q) \in Proposal /\ Redacted(q).version = q.version /\ Redacted(q).name = q.name
      /\ Redacted(q).status = q.status /\ Redacted(q).bubble = q.bubble /\ Redacted(q).card = q.card
  <2> DEFINE r == [q EXCEPT !.grounds = FALSE]
  <2>1. /\ r \in Proposal /\ r.version = q.version /\ r.name = q.name
        /\ r.status = q.status /\ r.bubble = q.bubble /\ r.card = q.card
    BY <1>1 DEF Proposal
  <2>2. Redacted(q) = r \/ Redacted(q) = q
    BY DEF Redacted
  <2> QED
    BY <1>1, <2>1, <2>2
<1>3. q.status = "applied" /\ q.card \in {"pending", "delivering", "delivered"} => q.bubble \in Bubbles
  BY DEF Sound
<1>4. q.status = "applying" => q.name \in names
  BY DEF Sound
<1> QED
  BY <1>2, <1>3, <1>4, MovesByFields DEF Moves

\* A proposal that ends, or loses its card, is held.
LEMMA EndedHeld ==
    ASSUME NEW p, NEW q, NEW names, Sound(p, q, names), q.status # "absent",
           NEW s \in {"rejected", "conflict", "expired"}
    PROVE  /\ Moves(p, q, [q EXCEPT !.status = s], names)
           /\ Moves(p, q, [q EXCEPT !.status = s, !.bubble = NoBubble], names)
<1> DEFINE r == [q EXCEPT !.status = s]
           t == [q EXCEPT !.status = s, !.bubble = NoBubble]
<1>1. q \in Proposal
  BY FieldsHeld
<1>2. /\ r \in Proposal /\ r.version = q.version /\ r.name = q.name /\ r.status = s /\ r.bubble = q.bubble
      /\ t \in Proposal /\ t.version = q.version /\ t.name = q.name /\ t.status = s /\ t.bubble = NoBubble
  BY <1>1 DEF Proposal, NamingStatuses
<1> HIDE DEF r, t
<1>3. Moves(p, q, r, names)
  BY <1>2, MovesByFields
<1>4. Moves(p, q, t, names)
  BY <1>2, MovesByFields
<1> QED
  BY <1>3, <1>4 DEF r, t

LEMMA DismissedHeld ==
    ASSUME NEW ps \in [Asks -> Proposal], NEW p \in Asks, NEW ids, NEW names, Sound(p, ps[p], names)
    PROVE  Moves(p, ps[p], Dismissed(ps, ids)[p], names)
<1> DEFINE q == ps[p]
           r == [q EXCEPT !.dismissal = IF @ \in ids THEN NoBubble ELSE @,
                          !.bubble = IF ForgetsCard(q, ids) THEN NoBubble ELSE @]
<1>1. Dismissed(ps, ids)[p] = r
  BY DEF Dismissed
<1>2. q \in Proposal /\ q.version \in Nat
  BY FieldsHeld
<1>3. r \in Proposal
  BY <1>2 DEF Proposal
<1>4. /\ r.version = q.version /\ r.name = q.name /\ r.status = q.status /\ r.card = q.card
      /\ r.bubble = IF ForgetsCard(q, ids) THEN NoBubble ELSE q.bubble
  BY <1>2 DEF Proposal
<1>5. ForgetsCard(q, ids) => ~(q.status = "applied" /\ q.card \in {"pending", "delivering", "delivered"})
  BY DEF ForgetsCard
<1>6. Sound(p, q, names)
  OBVIOUS
<1> HIDE DEF q, r
<1>7. Moves(p, q, r, names)
  <2>1. r.bubble \in {q.bubble, NoBubble}
    BY <1>4
  <2>2. q.status = "applied" /\ q.card \in {"pending", "delivering", "delivered"} => q.bubble \in Bubbles
    BY <1>6 DEF Sound
  <2>3. r.status = "applied" /\ r.card \in {"pending", "delivering", "delivered"} => r.bubble \in Bubbles
    BY <1>4, <1>5, <2>2
  <2>4. q.status = "applying" => q.name \in names
    BY <1>6 DEF Sound
  <2> QED
    BY <1>3, <1>4, <1>6, <2>1, <2>3, <2>4, MovesByFields
<1> QED
  BY <1>1, <1>7 DEF q

LEMMA StaleHeld ==
    ASSUME NEW p, NEW q, NEW names, Sound(p, q, names), NEW b \in MaybeBubble
    PROVE  Moves(p, q, [q EXCEPT !.dismissal = b], names)
<1> DEFINE r == [q EXCEPT !.dismissal = b]
<1>1. q \in Proposal
  BY FieldsHeld
<1>2. /\ r \in Proposal /\ r.version = q.version /\ r.name = q.name /\ r.status = q.status
      /\ r.bubble = q.bubble /\ r.card = q.card
  BY <1>1 DEF Proposal, MaybeBubble
<1>3. /\ q.status = "applied" /\ q.card \in {"pending", "delivering", "delivered"} => q.bubble \in Bubbles
      /\ q.status = "applying" => q.name \in names
  BY DEF Sound
<1> HIDE DEF r
<1>4. Moves(p, q, r, names)
  BY <1>2, <1>3, MovesByFields
<1> QED
  BY <1>4 DEF r

LEMMA StaysHeld ==
    ASSUME NEW p, NEW q, NEW names, Sound(p, q, names)
    PROVE  Moves(p, q, q, names)
BY FieldsHeld DEF Moves, Follows

LEMMA StaleCardHeld ==
    ASSUME NEW p, NEW q, NEW names, Sound(p, q, names), NEW b \in MaybeBubble
    PROVE  Moves(p, q, StaleCard(q, b), names)
BY StaleHeld, StaysHeld DEF StaleCard

\* The state of its result card: only one that it has is shown.
LEMMA CardHeld ==
    ASSUME NEW p, NEW q, NEW names, Sound(p, q, names), NEW c \in Cards,
           q.status = "applied" /\ c \in {"pending", "delivering", "delivered"} => q.bubble \in Bubbles
    PROVE  /\ Moves(p, q, [q EXCEPT !.card = c], names)
           /\ \A b \in MaybeBubble : Moves(p, q, [q EXCEPT !.card = c, !.dismissal = b], names)
<1> DEFINE r == [q EXCEPT !.card = c]
<1>1. q \in Proposal
  BY FieldsHeld
<1>2. /\ r \in Proposal /\ r.version = q.version /\ r.name = q.name /\ r.status = q.status
      /\ r.bubble = q.bubble /\ r.card = c
  BY <1>1 DEF Proposal
<1>3. q.status = "applying" => q.name \in names
  BY DEF Sound
<1>4. \A b : [q EXCEPT !.card = c, !.dismissal = b] = [r EXCEPT !.dismissal = b]
  OBVIOUS
<1> HIDE DEF r
<1>5. Moves(p, q, r, names)
  BY <1>2, <1>3, MovesByFields
<1>6. ASSUME NEW b \in MaybeBubble PROVE Moves(p, q, [r EXCEPT !.dismissal = b], names)
  <2>1. Sound(p, r, names)
    BY <1>5 DEF Moves
  <2>2. Moves(p, r, [r EXCEPT !.dismissal = b], names)
    BY <2>1, StaleHeld
  <2>3. [r EXCEPT !.dismissal = b].version = r.version /\ [r EXCEPT !.dismissal = b].name = r.name
    BY <1>2 DEF Proposal
  <2> QED
    BY <1>5, <2>2, <2>3 DEF Moves, Follows
<1> QED
  BY <1>4, <1>5, <1>6 DEF r

LEMMA DeliveryHeld ==
    ASSUME StoreHeld, NEW p \in Asks, NEW b \in MaybeBubble,
           NEW from \in SUBSET {"pending", "delivering", "delivered"}, NEW to \in {"delivering", "delivered"}
    PROVE  Moves(p, proposals[p], Delivery(p, b, from, to), granted)
<1> DEFINE q == proposals[p]
<1>1. Sound(p, q, granted)
  BY DEF StoreHeld
<1>2. Moves(p, q, q, granted)
  BY <1>1, StaysHeld
<1>3. Moves(p, q, StaleCard(q, b), granted)
  BY <1>1, StaleCardHeld
<1>4. Moves(p, q, [q EXCEPT !.card = "expired", !.dismissal = b], granted)
  BY <1>1, CardHeld DEF Cards
<1>5. q.status = "applied" /\ q.card \in from => Moves(p, q, [q EXCEPT !.card = to], granted)
  BY <1>1, CardHeld DEF Cards, Sound
<1> HIDE DEF q
<1>6. \/ Delivery(p, b, from, to) \in {q, StaleCard(q, b), [q EXCEPT !.card = "expired", !.dismissal = b]}
      \/ q.status = "applied" /\ q.card \in from /\ Delivery(p, b, from, to) = [q EXCEPT !.card = to]
  BY DEF Delivery, q
<1> QED
  BY <1>2, <1>3, <1>4, <1>5, <1>6 DEF q

LEMMA AppliedHeld ==
    ASSUME NEW p \in Asks, NEW q, NEW names, Sound(p, q, names), q.status # "absent"
    PROVE  Moves(p, q, Applied(p, q), names)
<1>1. q \in Proposal /\ q.version \in 1 .. MaxNameVersions
  <2>1. q \in Proposal /\ q.version \in Nat /\ q.version # 0 /\ q.version <= MaxNameVersions
    BY FieldsHeld
  <2> QED
    BY <2>1, NamingAssumption
<1>2. ResultId(p, q.version) \in Bubbles
  BY <1>1 DEF ResultId, Bubbles
<1>3. Applied(p, q) \in Proposal
  BY <1>1, <1>2 DEF Applied, Proposal, NamingStatuses, Cards
<1>4. /\ Applied(p, q).version = q.version /\ Applied(p, q).name = q.name
      /\ Applied(p, q).status = "applied" /\ Applied(p, q).bubble = ResultId(p, q.version)
  BY <1>1 DEF Applied, Proposal
<1>5. q.name \in VoiceNames
  BY <1>1 DEF Sound
<1> HIDE DEF Applied
<1>6. Follows(q, Applied(p, q))
  BY <1>1, <1>4 DEF Follows
<1>7. ResultId(p, q.version).kind # "confirm"
  BY DEF ResultId
<1> QED
  BY <1>1, <1>2, <1>3, <1>4, <1>5, <1>6, <1>7 DEF Moves, Sound

----------------------------------------------------------------------------
(* What a change of the store leaves true of the requests, copies and cards. *)

StoreMoves ==
    /\ proposals' \in [Asks -> Proposal]
    /\ \A p \in Asks : Moves(p, proposals[p], proposals'[p], granted)

LEMMA StoreTaken ==
    ASSUME StoreHeld, NEW ps, \A p \in Asks : Moves(p, proposals[p], ps[p], granted), Store(ps)
    PROVE  StoreMoves
<1>1. proposals' = [p \in Asks |-> Redacted(ps[p])]
  BY DEF Store
<1>2. ASSUME NEW p \in Asks PROVE Moves(p, proposals[p], proposals'[p], granted)
  <2>1. proposals'[p] = Redacted(ps[p])
    BY <1>1
  <2>2. Sound(p, ps[p], granted) /\ Follows(proposals[p], ps[p])
    BY DEF Moves
  <2>3. /\ Sound(p, Redacted(ps[p]), granted)
        /\ Redacted(ps[p]).version = ps[p].version /\ Redacted(ps[p]).name = ps[p].name
    BY <2>2, RedactedHeld
  <2> QED
    BY <2>1, <2>2, <2>3 DEF Moves, Follows
<1>3. \A p \in Asks : proposals'[p] \in Proposal
  BY <1>2 DEF Moves, Sound
<1>4. DOMAIN proposals' = Asks /\ proposals' = [p \in DOMAIN proposals' |-> proposals'[p]]
  BY <1>1
<1>5. proposals' \in [Asks -> Proposal]
  BY <1>3, <1>4
<1> QED
  BY <1>2, <1>5 DEF StoreMoves

LEMMA StoreOne ==
    ASSUME StoreHeld, NEW c, NEW x, c \in Asks => Moves(c, proposals[c], x, granted),
           Store([proposals EXCEPT ![c] = x])
    PROVE  StoreMoves
<1>1. ASSUME NEW p \in Asks PROVE Moves(p, proposals[p], [proposals EXCEPT ![c] = x][p], granted)
  <2>1. Moves(p, proposals[p], proposals[p], granted)
    BY StaysHeld DEF StoreHeld
  <2>2. [proposals EXCEPT ![c] = x][p] = IF p = c THEN x ELSE proposals[p]
    BY DEF StoreHeld
  <2> QED
    BY <2>1, <2>2
<1> QED
  BY <1>1, StoreTaken

LEMMA StoreStays ==
    ASSUME StoreHeld, proposals' = proposals
    PROVE  StoreMoves
BY StaysHeld DEF StoreHeld, StoreMoves

LEMMA StoreHeldOn ==
    ASSUME StoreMoves, granted \subseteq granted'
    PROVE  StoreHeld'
<1>1. ASSUME NEW p \in Asks PROVE Sound(p, proposals'[p], granted')
  BY NamesGrow DEF StoreMoves, Moves
<1> QED
  BY <1>1 DEF StoreMoves, StoreHeld

LEMMA VersionsOn ==
    ASSUME StoreHeld, StoreMoves, NEW p \in Asks
    PROVE  /\ proposals[p].version \in Nat /\ proposals'[p].version \in Nat
           /\ Follows(proposals[p], proposals'[p])
<1>1. Sound(p, proposals[p], granted) /\ Sound(p, proposals'[p], granted)
  BY DEF StoreHeld, StoreMoves, Moves
<1> QED
  BY <1>1, FieldsHeld DEF StoreMoves, Moves

LEMMA FitsOn ==
    ASSUME StoreHeld, StoreMoves, granted \subseteq granted', NEW r, Fits(r, proposals, granted)
    PROVE  Fits(r, proposals', granted')
<1>1. ASSUME r.kind = "register"
      PROVE  /\ r.bubble.version <= proposals'[r.bubble.of].version
             /\ r.bubble.version = proposals'[r.bubble.of].version
                   => proposals'[r.bubble.of].name \in granted'
  <2>1. r.bubble \in Bubbles
    BY <1>1 DEF Fits, Clicks
  <2>2. r.bubble.of \in Asks /\ r.bubble.version \in Nat
    BY <2>1, NamingAssumption DEF Bubbles
  <2>3. /\ proposals[r.bubble.of].version \in Nat /\ proposals'[r.bubble.of].version \in Nat
        /\ Follows(proposals[r.bubble.of], proposals'[r.bubble.of])
    BY <2>2, VersionsOn
  <2>4. /\ r.bubble.version <= proposals[r.bubble.of].version
        /\ r.bubble.version = proposals[r.bubble.of].version
              => proposals[r.bubble.of].name \in granted
    BY <1>1 DEF Fits
  <2> QED
    BY <2>2, <2>3, <2>4 DEF Follows
<1> QED
  BY <1>1 DEF Fits

LEMMA ShowsOn ==
    ASSUME StoreHeld, StoreMoves, NEW c, Shows(c, proposals)
    PROVE  Shows(c, proposals')
<1>1. c \in [id : Bubbles, name : VoiceNames]
  BY DEF Shows
<1>2. c.id.of \in Asks /\ c.id.version \in Nat
  BY <1>1, NamingAssumption DEF Bubbles
<1>3. /\ proposals[c.id.of].version \in Nat /\ proposals'[c.id.of].version \in Nat
      /\ Follows(proposals[c.id.of], proposals'[c.id.of])
  BY <1>2, VersionsOn
<1>4. ASSUME c.id.kind = "confirm"
      PROVE  /\ c.id.version <= proposals'[c.id.of].version
             /\ c.id.version = proposals'[c.id.of].version => c.name = proposals'[c.id.of].name
  BY <1>2, <1>3, <1>4 DEF Shows, Follows
<1> QED
  BY <1>1, <1>4 DEF Shows

LEMMA CardsOn ==
    ASSUME StoreHeld, StoreMoves, CardsShow, root' \subseteq root
    PROVE  CardsShow'
<1>1. ASSUME NEW c \in root' PROVE Shows(c, proposals')
  BY ShowsOn DEF CardsShow
<1> QED
  BY <1>1 DEF CardsShow

LEMMA QueueOn ==
    ASSUME StoreHeld, StoreMoves, granted \subseteq granted', QueueFits, queue' \in Seq(CardJob),
           \A n \in 1 .. Len(queue') : \/ \E m \in 1 .. Len(queue) : queue'[n] = queue[m]
                                       \/ Fits(queue'[n], proposals', granted')
    PROVE  QueueFits'
<1>1. ASSUME NEW n \in 1 .. Len(queue') PROVE Fits(queue'[n], proposals', granted')
  <2>1. ASSUME NEW m \in 1 .. Len(queue), queue'[n] = queue[m] PROVE Fits(queue'[n], proposals', granted')
    BY <2>1, FitsOn DEF QueueFits
  <2> QED
    BY <2>1
<1> QED
  BY <1>1 DEF QueueFits

LEMMA QueueStays ==
    ASSUME StoreHeld, StoreMoves, granted \subseteq granted', QueueFits, queue' = queue
    PROVE  QueueFits'
BY QueueOn DEF QueueFits

LEMMA CopyOn ==
    ASSUME StoreHeld, StoreMoves, granted \subseteq granted', NEW p \in Asks, NEW q,
           Sound(p, q, granted), Follows(q, proposals[p])
    PROVE  Sound(p, q, granted') /\ Follows(q, proposals'[p])
<1>1. Sound(p, q, granted')
  BY NamesGrow
<1>2. q.version \in Nat
  BY FieldsHeld
<1>3. /\ proposals[p].version \in Nat /\ proposals'[p].version \in Nat
      /\ Follows(proposals[p], proposals'[p])
  BY VersionsOn
<1> QED
  BY <1>1, <1>2, <1>3 DEF Follows

LEMMA CopiesOn ==
    ASSUME StoreHeld, StoreMoves, granted \subseteq granted', CopiesFollow,
           job'.kind = job.kind, job'.mine = job.mine, job'.old = job.old
    PROVE  CopiesFollow'
<1>1. ASSUME NEW p \in Asks
      PROVE  /\ Sound(p, job.mine[p], granted') /\ Follows(job.mine[p], proposals'[p])
             /\ Sound(p, job.old[p], granted') /\ Follows(job.old[p], proposals'[p])
             /\ job.kind = "sync" => job.mine[p].version = job.old[p].version
  BY CopyOn DEF CopiesFollow
<1> QED
  BY <1>1 DEF CopiesFollow

LEMMA JobStays ==
    ASSUME StoreHeld, StoreMoves, granted \subseteq granted', JobFits, job' = job
    PROVE  JobFits'
<1>1. CopiesFollow'
  BY CopiesOn DEF JobFits
<1>2. job.kind # "idle" => Fits(CardRequest(job.kind, job.bubble, job.name), proposals', granted')
  BY FitsOn DEF JobFits
<1>3. ClickHasItsCopy'
  BY DEF JobFits, ClickHasItsCopy, Found, Clicked
<1>4. SyncKnowsItsPlace'
  BY DEF JobFits, SyncKnowsItsPlace
<1> QED
  BY <1>1, <1>2, <1>3, <1>4 DEF JobFits

\* What a job asks for when it ends is no click.
AfterJob == {"dismiss", "sync", "recover"}

LEMMA NoJobFits ==
    ASSUME StoreHeld', job' = NoCardJob
    PROVE  JobFits'
<1>1. /\ NoCardJob.kind = "idle" /\ NoCardJob.todo = {} /\ NoCardJob.at = "none"
      /\ NoCardJob.mine = NoMemo /\ NoCardJob.old = NoMemo
  BY DEF NoCardJob
<1>2. NoProposal \in Proposal
  BY NamingAssumption DEF NoProposal, Proposal, NamingStatuses, Cards
<1>3. NoCardJob \in JobRecords
  <2>1. NoMemo \in [Asks -> Proposal]
    BY <1>2 DEF NoMemo
  <2>2. 0 \in 0 .. MaxProposals
    BY NamingAssumption
  <2>3. "idle" \in JobKinds \cup {"idle"} /\ NoBubble \in MaybeBubble /\ NoName \in MaybeName
        /\ "none" \in JobSteps /\ {} \in SUBSET Asks
    BY DEF MaybeBubble, MaybeName, JobSteps
  <2> QED
    BY <2>1, <2>2, <2>3 DEF NoCardJob, JobRecords
<1>4. /\ NoProposal.version = 0 /\ NoProposal.status = "absent" /\ NoProposal.name = NoName
      /\ NoProposal.bubble = NoBubble /\ NoBubble.kind = "none"
  BY DEF NoProposal, NoBubble
<1>5. ASSUME NEW p \in Asks
      PROVE  Sound(p, NoMemo[p], granted') /\ Follows(NoMemo[p], proposals'[p])
  <2>1. Sound(p, proposals'[p], granted')
    BY DEF StoreHeld
  <2>2. NoMemo[p] = NoProposal
    BY DEF NoMemo
  <2>3. Sound(p, NoProposal, granted')
    BY <1>2, <1>4 DEF Sound
  <2>4. proposals'[p].version \in Nat /\ (proposals'[p].version = 0 => proposals'[p].name = NoName)
    BY <2>1, FieldsHeld DEF Sound
  <2>5. 0 <= proposals'[p].version /\ (0 = proposals'[p].version => NoName = proposals'[p].name)
    BY <2>4
  <2>6. Follows(NoProposal, proposals'[p])
    BY <1>4, <2>5, Zenon DEF Follows
  <2> QED
    BY <2>2, <2>3, <2>6
<1>6. CopiesFollow'
  BY <1>1, <1>5 DEF CopiesFollow
<1> QED
  BY <1>1, <1>3, <1>6 DEF JobFits, ClickHasItsCopy, SyncKnowsItsPlace, Clicks

LEMMA EndingKeeps ==
    ASSUME StoreHeld, StoreMoves, granted' = granted, QueueFits, NEW next \in Seq(CardJob),
           \A n \in 1 .. Len(next) : next[n].kind \in AfterJob, End(next)
    PROVE  QueueFits' /\ JobFits'
<1>1. queue' = queue \o next /\ job' = NoCardJob /\ queue \in Seq(CardJob)
  BY DEF End, QueueFits
<1>2. queue' \in Seq(CardJob)
  BY <1>1
<1>3. ASSUME NEW n \in 1 .. Len(queue')
      PROVE  \/ \E m \in 1 .. Len(queue) : queue'[n] = queue[m]
             \/ Fits(queue'[n], proposals', granted')
  <2>1. Len(queue') = Len(queue) + Len(next)
    BY <1>1
  <2>2. CASE n <= Len(queue)
    BY <1>1, <2>2
  <2>3. CASE ~(n <= Len(queue))
    <3>1. n - Len(queue) \in 1 .. Len(next) /\ queue'[n] = next[n - Len(queue)]
      BY <1>1, <2>1, <2>3
    <3>2. queue'[n] \in CardJob /\ queue'[n].kind \in AfterJob
      BY <3>1
    <3> QED
      BY <3>2 DEF Fits, AfterJob, Clicks
  <2> QED
    BY <2>2, <2>3
<1>4. QueueFits'
  BY <1>2, <1>3, QueueOn
<1>5. StoreHeld'
  BY StoreHeldOn
<1> QED
  BY <1>1, <1>4, <1>5, NoJobFits

LEMMA AskedAfter ==
    ASSUME JobFits
    PROVE  /\ Refresh \in Seq(CardJob) /\ \A n \in 1 .. Len(Refresh) : Refresh[n].kind \in AfterJob
           /\ \A kind \in AfterJob : /\ <<CardRequest(kind, job.bubble, NoName)>> \in Seq(CardJob)
                                     /\ \A n \in 1 .. Len(<<CardRequest(kind, job.bubble, NoName)>>) :
                                           <<CardRequest(kind, job.bubble, NoName)>>[n].kind \in AfterJob
<1>1. job.bubble \in MaybeBubble
  BY DEF JobFits, JobRecords
<1>2. ASSUME NEW kind \in AfterJob, NEW b \in MaybeBubble
      PROVE  CardRequest(kind, b, NoName) \in CardJob /\ CardRequest(kind, b, NoName).kind = kind
  BY DEF CardRequest, CardJob, AfterJob, JobKinds, MaybeBubble
<1>3. NoBubble \in MaybeBubble
  BY DEF MaybeBubble
<1>4. ASSUME NEW r \in CardJob, r.kind \in AfterJob
      PROVE  <<r>> \in Seq(CardJob) /\ \A n \in 1 .. Len(<<r>>) : <<r>>[n].kind \in AfterJob
  BY <1>4
<1>5. ASSUME NEW r \in CardJob, r.kind \in AfterJob, NEW s \in CardJob, s.kind \in AfterJob
      PROVE  <<r, s>> \in Seq(CardJob) /\ \A n \in 1 .. Len(<<r, s>>) : <<r, s>>[n].kind \in AfterJob
  BY <1>5
<1> HIDE DEF AfterJob
<1>6. "dismiss" \in AfterJob /\ "sync" \in AfterJob
  BY DEF AfterJob
<1> QED
  BY <1>1, <1>2, <1>3, <1>4, <1>5, <1>6 DEF Refresh

LEMMA FailingKeeps ==
    ASSUME StoreHeld, StoreMoves, granted' = granted, QueueFits, JobFits, Fail
    PROVE  QueueFits' /\ JobFits'
<1>1. CASE job.kind \in Clicks
  <2>1. "recover" \in AfterJob
    BY DEF AfterJob
  <2>2. End(<<CardRequest("recover", job.bubble, NoName)>>)
    BY <1>1 DEF Fail
  <2> QED
    BY <2>1, <2>2, AskedAfter, EndingKeeps
<1>2. CASE job.kind \notin Clicks
  <2>1. End(<<>>)
    BY <1>2 DEF Fail
  <2>2. <<>> \in Seq(CardJob) /\ \A n \in 1 .. Len(<<>>) : <<>>[n].kind \in AfterJob
    OBVIOUS
  <2> QED
    BY <2>1, <2>2, EndingKeeps
<1> QED
  BY <1>1, <1>2

----------------------------------------------------------------------------
(* How a step of a job ends.                                               *)

LEMMA MovesOn ==
    ASSUME NEW p, NEW q, NEW r, NEW t, NEW names, Sound(p, q, names),
           Moves(p, q, r, names), Moves(p, r, t, names)
    PROVE  Moves(p, q, t, names)
<1>1. Sound(p, r, names) /\ Sound(p, t, names)
  BY DEF Moves
<1>2. q.version \in Nat /\ r.version \in Nat /\ t.version \in Nat
  BY <1>1, FieldsHeld
<1> QED
  BY <1>1, <1>2 DEF Moves, Follows

LEMMA DismissMoves ==
    ASSUME StoreHeld, NEW ps \in [Asks -> Proposal], NEW ids,
           \A p \in Asks : Moves(p, proposals[p], ps[p], granted), Dismiss(ps, ids)
    PROVE  StoreMoves /\ root' \subseteq root
<1>1. ASSUME NEW p \in Asks PROVE Moves(p, proposals[p], Dismissed(ps, ids)[p], granted)
  <2>1. Moves(p, ps[p], Dismissed(ps, ids)[p], granted)
    BY DismissedHeld DEF Moves
  <2>2. Sound(p, proposals[p], granted)
    BY DEF StoreHeld
  <2>3. Moves(p, proposals[p], ps[p], granted)
    OBVIOUS
  <2> QED
    BY <2>1, <2>2, <2>3, MovesOn
<1>2. Store(Dismissed(ps, ids)) /\ root' = WithoutCards(ids)
  BY DEF Dismiss
<1>3. StoreMoves
  BY <1>1, <1>2, StoreTaken
<1> QED
  BY <1>2, <1>3 DEF WithoutCards

LEMMA DismissAll ==
    ASSUME StoreHeld, NEW ids, Dismiss(proposals, ids)
    PROVE  StoreMoves /\ root' \subseteq root
<1>1. \A p \in Asks : Moves(p, proposals[p], proposals[p], granted)
  BY StaysHeld DEF StoreHeld
<1> QED
  BY <1>1, DismissMoves DEF StoreHeld

\* What a step of a job changes besides the store, the queue and the job.
Aside ==
    /\ UNCHANGED Elsewhere /\ root' \subseteq root
    /\ named' = named /\ refused' \in BOOLEAN

LEMMA OthersStay ==
    ASSUME OthersTyped, UNCHANGED Elsewhere, refused' \in BOOLEAN,
           named' \in MaybeName /\ named' \in granted \cup {NoName}
    PROVE  OthersTyped' /\ granted' = granted
BY DEF OthersTyped, Elsewhere, World, History

LEMMA JobStepKeeps ==
    ASSUME NamingInv, StoreMoves, Aside, QueueFits', JobFits'
    PROVE  NamingInv'
<1>1. OthersTyped' /\ granted' = granted
  BY OthersStay DEF NamingInv, Aside, OthersTyped
<1>2. StoreHeld'
  BY <1>1, StoreHeldOn
<1>3. CardsShow'
  BY CardsOn DEF NamingInv, Aside
<1> QED
  BY <1>1, <1>2, <1>3 DEF NamingInv

LEMMA GrantedStay == ASSUME Aside PROVE granted' = granted
BY DEF Aside, Elsewhere, History

LEMMA FailedKeeps ==
    ASSUME NamingInv, StoreMoves, Aside, Fail
    PROVE  NamingInv'
BY GrantedStay, FailingKeeps, JobStepKeeps DEF NamingInv

LEMMA EndedJobKeeps ==
    ASSUME NamingInv, StoreMoves, Aside,
           End(<<>>) \/ End(Refresh) \/ \E kind \in AfterJob : End(<<CardRequest(kind, job.bubble, NoName)>>)
    PROVE  NamingInv'
<1>1. CASE End(<<>>)
  <2>1. <<>> \in Seq(CardJob) /\ \A n \in 1 .. Len(<<>>) : <<>>[n].kind \in AfterJob
    OBVIOUS
  <2> QED
    BY <1>1, <2>1, GrantedStay, EndingKeeps, JobStepKeeps DEF NamingInv
<1>2. CASE End(Refresh)
  BY <1>2, AskedAfter, GrantedStay, EndingKeeps, JobStepKeeps DEF NamingInv
<1>3. ASSUME NEW kind \in AfterJob, End(<<CardRequest(kind, job.bubble, NoName)>>) PROVE NamingInv'
  BY <1>3, AskedAfter, GrantedStay, EndingKeeps, JobStepKeeps DEF NamingInv
<1> QED
  BY <1>1, <1>2, <1>3

LEMMA WaitingKeeps ==
    ASSUME NamingInv, StoreMoves, Aside, UNCHANGED <<job, queue>>
    PROVE  NamingInv'
BY GrantedStay, JobStays, QueueStays, JobStepKeeps DEF NamingInv

LEMMA GoToFits ==
    ASSUME NamingInv, StoreMoves, granted' = granted,
           NEW at \in {"save", "finish", "dismiss", "end", "deliver"}, GoTo(at),
           job.kind \in Clicks => job.at # "load" /\ at \in {"save", "finish"}
    PROVE  JobFits'
<1>1. /\ job \in JobRecords /\ CopiesFollow /\ ClickHasItsCopy /\ SyncKnowsItsPlace
      /\ job.kind # "idle" => Fits(CardRequest(job.kind, job.bubble, job.name), proposals, granted)
  BY DEF NamingInv, JobFits
<1>2. /\ job'.kind = job.kind /\ job'.bubble = job.bubble /\ job'.name = job.name /\ job'.at = at
      /\ job'.i = job.i /\ job'.old = job.old /\ job'.mine = job.mine /\ job'.todo = job.todo
  BY <1>1 DEF GoTo, JobRecords
<1>3. job' \in JobRecords
  BY <1>1 DEF GoTo, JobRecords, JobSteps
<1>4. CopiesFollow'
  BY <1>1, <1>2, CopiesOn DEF NamingInv
<1>5. job'.kind # "idle" => Fits(CardRequest(job'.kind, job'.bubble, job'.name), proposals', granted')
  BY <1>1, <1>2, FitsOn DEF NamingInv
<1>6. ClickHasItsCopy'
  BY <1>1, <1>2 DEF ClickHasItsCopy, Found, Clicked
<1>7. SyncKnowsItsPlace'
  BY <1>1, <1>2 DEF SyncKnowsItsPlace
<1> QED
  BY <1>3, <1>4, <1>5, <1>6, <1>7 DEF JobFits

LEMMA GoToKeeps ==
    ASSUME NamingInv, StoreMoves, Aside, queue' = queue,
           NEW at \in {"save", "finish", "dismiss", "end", "deliver"}, GoTo(at),
           job.kind \in Clicks => job.at # "load" /\ at \in {"save", "finish"}
    PROVE  NamingInv'
BY GrantedStay, GoToFits, QueueStays, JobStepKeeps DEF NamingInv

LEMMA FailUnchangedKeeps ==
    ASSUME NamingInv, FailUnchanged
    PROVE  NamingInv'
<1>1. StoreMoves
  BY StoreStays DEF NamingInv, FailUnchanged
<1>2. Aside /\ Fail
  BY DEF FailUnchanged, Aside, NamingInv, OthersTyped
<1> QED
  BY <1>1, <1>2, FailedKeeps

\* The proposal of a click, while it is of the version that was clicked.
LEMMA ClickedStands ==
    ASSUME NamingInv, job.kind \in Clicks
    PROVE  /\ job.bubble \in Bubbles /\ Clicked \in Asks /\ job.bubble.version \in Nat \ {0}
           /\ Sound(Clicked, proposals[Clicked], granted) /\ proposals[Clicked].version \in Nat
           /\ Sound(Clicked, Found, granted) /\ Follows(Found, proposals[Clicked])
           /\ proposals[Clicked].version = job.bubble.version => proposals[Clicked].status # "absent"
           /\ job.at # "load" => Found.version = job.bubble.version
<1>1. Fits(CardRequest(job.kind, job.bubble, job.name), proposals, granted)
  BY DEF NamingInv, JobFits, Clicks
<1>2. job.bubble \in Bubbles
  BY <1>1 DEF Fits, CardRequest
<1>3. Clicked \in Asks /\ job.bubble.version \in Nat \ {0}
  BY <1>2, NamingAssumption DEF Bubbles, Clicked
<1>4. Sound(Clicked, proposals[Clicked], granted)
  BY <1>3 DEF NamingInv, StoreHeld
<1>5. Sound(Clicked, Found, granted) /\ Follows(Found, proposals[Clicked])
  BY <1>3 DEF NamingInv, JobFits, CopiesFollow, Found
<1>6. proposals[Clicked].version \in Nat /\ (proposals[Clicked].version = 0 <=> proposals[Clicked].status = "absent")
  BY <1>4, FieldsHeld
<1>7. job.at # "load" => Found.version = job.bubble.version
  BY DEF NamingInv, JobFits, ClickHasItsCopy
<1> QED
  BY <1>2, <1>3, <1>4, <1>5, <1>6, <1>7

LEMMA ConflictAndFailKeeps ==
    ASSUME NamingInv, job.kind \in Clicks, ConflictAndFail
    PROVE  NamingInv'
<1> DEFINE s == IF proposals[Clicked].version = job.bubble.version THEN "conflict"
                ELSE proposals[Clicked].status
           x == [proposals[Clicked] EXCEPT !.status = s]
<1>1. Store([proposals EXCEPT ![Clicked] = x])
  BY DEF ConflictAndFail
<1>2. Moves(Clicked, proposals[Clicked], x, granted)
  <2>1. CASE proposals[Clicked].version = job.bubble.version
    <3>1. s = "conflict" /\ proposals[Clicked].status # "absent"
      BY <2>1, ClickedStands
    <3> HIDE DEF s
    <3>2. Moves(Clicked, proposals[Clicked], [proposals[Clicked] EXCEPT !.status = "conflict"], granted)
      BY <3>1, ClickedStands, EndedHeld
    <3> QED
      BY <3>1, <3>2
  <2>2. CASE proposals[Clicked].version # job.bubble.version
    <3>1. s = proposals[Clicked].status
      BY <2>2
    <3>2. proposals[Clicked] \in Proposal
      BY ClickedStands, FieldsHeld
    <3>3. [proposals[Clicked] EXCEPT !.status = proposals[Clicked].status] = proposals[Clicked]
      BY <3>2 DEF Proposal
    <3> HIDE DEF s
    <3>4. x = proposals[Clicked]
      BY <3>1, <3>3
    <3> HIDE DEF x
    <3> QED
      BY <3>4, ClickedStands, StaysHeld
  <2> QED
    BY <2>1, <2>2
<1> HIDE DEF x, s
<1>3. StoreMoves
  BY <1>1, <1>2, StoreOne DEF NamingInv
<1>4. Aside /\ Fail
  BY DEF ConflictAndFail, Aside, NamingInv, OthersTyped
<1> QED
  BY <1>3, <1>4, FailedKeeps

----------------------------------------------------------------------------
(* The jobs of a click.                                                    *)

LEMMA NoMemoFollows ==
    ASSUME StoreHeld, NEW p \in Asks
    PROVE  Sound(p, NoMemo[p], granted) /\ Follows(NoMemo[p], proposals[p])
<1>1. /\ NoProposal \in Proposal /\ NoProposal.version = 0 /\ NoProposal.status = "absent"
      /\ NoProposal.name = NoName /\ NoProposal.bubble = NoBubble /\ NoBubble.kind = "none"
  BY NamingAssumption DEF NoProposal, NoBubble, Proposal, NamingStatuses, Cards
<1>2. NoMemo[p] = NoProposal
  BY DEF NoMemo
<1>3. Sound(p, NoProposal, granted)
  BY <1>1 DEF Sound
<1>4. Sound(p, proposals[p], granted)
  BY DEF StoreHeld
<1>5. proposals[p].version \in Nat /\ (proposals[p].version = 0 => proposals[p].name = NoName)
  BY <1>4, FieldsHeld DEF Sound
<1>6. Follows(NoProposal, proposals[p])
  BY <1>1, <1>5 DEF Follows
<1> QED
  BY <1>2, <1>3, <1>6

LEMMA TakeJobKeeps ==
    ASSUME NamingInv, TakeJob
    PROVE  NamingInv'
<1> DEFINE r == Head(queue)
<1>1. /\ queue # <<>> /\ queue' = Tail(queue) /\ UNCHANGED <<proposals, named, root, refused, Elsewhere>>
      /\ job' = [NoCardJob EXCEPT !.kind = r.kind, !.bubble = r.bubble, !.name = r.name, !.at = "load"]
  BY DEF TakeJob
<1>2. queue \in Seq(CardJob) /\ r = queue[1] /\ 1 \in 1 .. Len(queue)
  BY <1>1 DEF NamingInv, QueueFits
<1>3. Fits(r, proposals, granted)
  BY <1>2 DEF NamingInv, QueueFits
<1> HIDE DEF r
<1>4. r \in CardJob
  BY <1>3 DEF Fits
<1>5. StoreMoves /\ Aside /\ granted' = granted
  BY <1>1, StoreStays, GrantedStay DEF NamingInv, OthersTyped, Aside
<1>6. QueueFits'
  <2>1. queue' \in Seq(CardJob)
    BY <1>1, <1>2
  <2>2. ASSUME NEW n \in 1 .. Len(queue') PROVE \E m \in 1 .. Len(queue) : queue'[n] = queue[m]
    <3>1. n + 1 \in 1 .. Len(queue) /\ queue'[n] = queue[n + 1]
      BY <1>1, <1>2
    <3> QED
      BY <3>1
  <2> QED
    BY <2>1, <2>2, <1>5, QueueOn DEF NamingInv
<1>7. JobFits'
  <2>1. /\ job'.kind = r.kind /\ job'.bubble = r.bubble /\ job'.name = r.name /\ job'.at = "load"
        /\ job'.i = 0 /\ job'.old = NoMemo /\ job'.mine = NoMemo /\ job'.todo = {}
    BY <1>1 DEF NoCardJob
  <2>2. NoProposal \in Proposal
    BY NamingAssumption DEF NoProposal, Proposal, NamingStatuses, Cards
  <2>3. NoMemo \in [Asks -> Proposal] /\ 0 \in 0 .. MaxProposals
    BY <2>2, NamingAssumption DEF NoMemo
  <2>4. r.kind \in JobKinds /\ r.bubble \in MaybeBubble /\ r.name \in MaybeName
    BY <1>4 DEF CardJob, MaybeBubble, MaybeName
  <2>5. job' \in JobRecords
    <3>1. job' = [kind |-> r.kind, bubble |-> r.bubble, name |-> r.name, at |-> "load", i |-> 0,
                  old |-> NoMemo, mine |-> NoMemo, todo |-> {}]
      BY <1>1 DEF NoCardJob
    <3> QED
      BY <2>3, <2>4, <3>1 DEF JobRecords, JobSteps
  <2>6. CardRequest(job'.kind, job'.bubble, job'.name) = r
    BY <1>4, <2>1 DEF CardRequest, CardJob
  <2>7. Fits(CardRequest(job'.kind, job'.bubble, job'.name), proposals', granted')
    BY <1>1, <1>3, <1>5, <2>6
  <2>8. CopiesFollow'
    <3>1. StoreHeld /\ proposals' = proposals
      BY <1>1 DEF NamingInv
    <3> QED
      BY <3>1, <1>5, <2>1, NoMemoFollows DEF CopiesFollow
  <2> QED
    BY <2>1, <2>5, <2>7, <2>8 DEF JobFits, ClickHasItsCopy, SyncKnowsItsPlace
<1> QED
  BY <1>5, <1>6, <1>7, JobStepKeeps

LEMMA ClickLoadKeeps ==
    ASSUME NamingInv, ClickLoad
    PROVE  NamingInv'
<1> DEFINE q == CardOfAction
           cutOff == job.kind = "undo" /\ q.status = "applied" /\ q.card = "delivering"
           delivered == [proposals EXCEPT ![Clicked] =
                            Delivery(Clicked, job.bubble, {"delivering"}, "delivered")]
           hasCard == \E c \in root : c.id = job.bubble
<1>1. job.kind \in Clicks /\ job.at = "load"
  BY DEF ClickLoad
<1>2. CASE q.status = "absent"
  BY <1>2, FailUnchangedKeeps DEF ClickLoad
<1>3. CASE q.status # "absent" /\ cutOff
  <2>1. /\ IF late[Clicked] THEN Dismiss(delivered, {job.bubble}) /\ Fail
           ELSE /\ Store(delivered) /\ UNCHANGED root
                /\ IF hasCard THEN UNCHANGED <<job, queue>> ELSE Fail
        /\ UNCHANGED <<named, refused, Elsewhere>>
    BY <1>3 DEF ClickLoad
  <2>2. ASSUME NEW p \in Asks PROVE Moves(p, proposals[p], delivered[p], granted)
    <3>1. delivered[p] = IF p = Clicked THEN Delivery(Clicked, job.bubble, {"delivering"}, "delivered")
                         ELSE proposals[p]
      BY DEF NamingInv, StoreHeld
    <3>2. Moves(p, proposals[p], proposals[p], granted)
      BY StaysHeld DEF NamingInv, StoreHeld
    <3>3. Moves(Clicked, proposals[Clicked], Delivery(Clicked, job.bubble, {"delivering"}, "delivered"), granted)
      BY <1>1, ClickedStands, DeliveryHeld DEF NamingInv, MaybeBubble
    <3> QED
      BY <3>1, <3>2, <3>3
  <2>3. delivered \in [Asks -> Proposal]
    <3>1. \A p \in Asks : delivered[p] \in Proposal
      BY <2>2 DEF Moves, Sound
    <3>2. DOMAIN delivered = Asks /\ delivered = [p \in DOMAIN delivered |-> delivered[p]]
      BY DEF NamingInv, StoreHeld
    <3> HIDE DEF delivered
    <3> QED
      BY <3>1, <3>2
  <2> HIDE DEF delivered
  <2>4. CASE late[Clicked]
    <3>1. StoreMoves /\ root' \subseteq root
      BY <2>1, <2>2, <2>3, <2>4, DismissMoves DEF NamingInv
    <3>2. Aside
      BY <2>1, <3>1 DEF Aside, NamingInv, OthersTyped
    <3> QED
      BY <2>1, <2>4, <3>1, <3>2, FailedKeeps
  <2>5. CASE ~late[Clicked]
    <3>1. StoreMoves
      BY <2>1, <2>2, <2>5, StoreTaken DEF NamingInv
    <3>2. Aside
      BY <2>1, <2>5 DEF Aside, NamingInv, OthersTyped
    <3> QED
      BY <2>1, <2>5, <3>1, <3>2, FailedKeeps, WaitingKeeps
  <2> QED
    BY <2>4, <2>5
<1>4. CASE q.status # "absent" /\ ~cutOff
  <2>1. /\ job' = [job EXCEPT !.at = "begin", !.mine[Clicked] = q]
        /\ UNCHANGED <<proposals, named, root, queue, refused, Elsewhere>>
    BY <1>4 DEF ClickLoad
  <2>2. q = proposals[Clicked] /\ proposals[Clicked].version = job.bubble.version
    <3>1. NoProposal.status = "absent"
      BY DEF NoProposal
    <3> QED
      BY <1>4, <3>1 DEF CardOfAction
  <2> HIDE DEF q
  <2>3. StoreMoves /\ Aside /\ granted' = granted /\ QueueFits'
    BY <2>1, StoreStays, GrantedStay, QueueStays DEF NamingInv, OthersTyped, Aside
  <2>4. /\ job \in JobRecords /\ CopiesFollow
        /\ Fits(CardRequest(job.kind, job.bubble, job.name), proposals, granted)
    BY <1>1 DEF NamingInv, JobFits, Clicks
  <2>5. /\ job'.kind = job.kind /\ job'.bubble = job.bubble /\ job'.name = job.name /\ job'.at = "begin"
        /\ job'.old = job.old /\ job'.mine = [job.mine EXCEPT ![Clicked] = q]
    BY <2>1, <2>4 DEF JobRecords
  <2>6. Clicked \in Asks /\ q \in Proposal /\ job.mine \in [Asks -> Proposal]
    BY <1>1, <2>2, <2>4, ClickedStands, FieldsHeld DEF JobRecords
  <2>7. job' \in JobRecords
    BY <2>1, <2>4, <2>6 DEF JobRecords, JobSteps
  <2>8. job.kind # "sync"
    BY <1>1 DEF Clicks
  <2>9. CopiesFollow'
    <3>1. ASSUME NEW p \in Asks
          PROVE  /\ Sound(p, job'.mine[p], granted) /\ Follows(job'.mine[p], proposals[p])
                 /\ Sound(p, job'.old[p], granted) /\ Follows(job'.old[p], proposals[p])
      <4>1. job'.mine[p] = IF p = Clicked THEN proposals[Clicked] ELSE job.mine[p]
        BY <2>2, <2>5, <2>6
      <4>2. Sound(p, proposals[p], granted) /\ Follows(proposals[p], proposals[p])
        BY StaysHeld DEF NamingInv, StoreHeld, Moves
      <4> QED
        BY <2>4, <2>5, <4>1, <4>2 DEF CopiesFollow
    <3> QED
      BY <2>1, <2>3, <2>5, <2>8, <3>1 DEF CopiesFollow
  <2>10. job'.mine[job'.bubble.of] = q
    BY <2>5, <2>6 DEF Clicked
  <2>11. ClickHasItsCopy'
    <3>1. job.kind = "register" => q.name \in granted
      BY <2>2, <2>4 DEF Fits, CardRequest, Clicked
    <3> QED
      BY <2>2, <2>3, <2>5, <2>10, <3>1 DEF ClickHasItsCopy, Found, Clicked
  <2>12. SyncKnowsItsPlace'
    BY <2>5, <2>8 DEF SyncKnowsItsPlace
  <2>13. JobFits'
    BY <2>1, <2>3, <2>4, <2>5, <2>7, <2>9, <2>11, <2>12 DEF JobFits
  <2> QED
    BY <2>3, <2>13, JobStepKeeps
<1> QED
  BY <1>2, <1>3, <1>4

LEMMA OneMoves ==
    ASSUME NamingInv, NEW x, Moves(Clicked, proposals[Clicked], x, granted),
           Store([proposals EXCEPT ![Clicked] = x])
    PROVE  StoreMoves
BY StoreOne DEF NamingInv

LEMMA EditKeeps ==
    ASSUME NamingInv, Edit
    PROVE  NamingInv'
<1>1. job.kind \in Clicks
  BY DEF Edit, InJob, Clicks
<1>2. CASE FailUnchanged
  BY <1>2, FailUnchangedKeeps
<1>3. CASE ConflictAndFail
  BY <1>1, <1>3, ConflictAndFailKeeps
<1>4. CASE End(<<>>) /\ UNCHANGED <<proposals, named, root, refused, Elsewhere>>
  BY <1>4, StoreStays, EndedJobKeeps DEF NamingInv, Aside, OthersTyped
<1> QED
  BY <1>2, <1>3, <1>4 DEF Edit

LEMMA EditSubmitKeeps ==
    ASSUME NamingInv, EditSubmit
    PROVE  NamingInv'
<1>1. job.kind \in Clicks /\ job.kind = "submit" /\ job.at = "begin"
  BY DEF EditSubmit, InJob, Clicks
<1>2. CASE FailUnchanged
  BY <1>2, FailUnchangedKeeps
<1>3. CASE ConflictAndFail
  BY <1>1, <1>3, ConflictAndFailKeeps
<1>4. CASE /\ Found.status = "proposed" /\ OwnCard({"proposed"})
           /\ Found.version < MaxNameVersions
           /\ Store([proposals EXCEPT ![Clicked] = Edited(Found)])
           /\ End(Refresh)
           /\ UNCHANGED <<named, root, refused, Elsewhere>>
  <2> DEFINE r == Edited(Found)
  <2>1. /\ job.bubble \in Bubbles /\ Clicked \in Asks
        /\ Sound(Clicked, Found, granted) /\ Found.version = job.bubble.version
        /\ proposals[Clicked].version = job.bubble.version /\ job.bubble.version \in Nat \ {0}
    BY <1>1, <1>4, ClickedStands DEF OwnCard
  <2>2. Found \in Proposal
    BY <2>1 DEF Sound
  <2>3. job.name \in VoiceNames
    BY <1>1 DEF NamingInv, JobFits, Fits, CardRequest
  <2>4. Found.version + 1 \in 1 .. MaxNameVersions
    BY <1>4, <2>1, NamingAssumption
  <2>5. ConfirmId(Clicked, Found.version + 1) \in Bubbles
    BY <2>1, <2>4 DEF ConfirmId, Bubbles
  <2>6. /\ r.version = Found.version + 1 /\ r.name = job.name /\ r.status = Found.status
        /\ r.bubble = ConfirmId(Clicked, Found.version + 1)
    BY <2>2 DEF Edited, Proposal
  <2>7. r \in Proposal
    <3>1. Found.version + 1 \in 0 .. MaxNameVersions
      BY <2>4
    <3> QED
      BY <2>1, <2>2, <2>3, <2>5, <3>1 DEF Edited, Proposal
  <2> HIDE DEF r
  <2>8. Sound(Clicked, r, granted)
    <3>1. r.version # 0 /\ r.status = "proposed" /\ r.name \in VoiceNames /\ r.bubble = ConfirmId(Clicked, r.version)
      BY <1>4, <2>3, <2>4, <2>6
    <3> QED
      BY <2>7, <3>1 DEF Sound
  <2>9. Follows(proposals[Clicked], r)
    BY <2>1, <2>6 DEF Follows
  <2>10. StoreMoves
    BY <1>4, <2>8, <2>9, OneMoves DEF Moves, r
  <2> QED
    BY <1>4, <2>10, EndedJobKeeps DEF NamingInv, Aside, OthersTyped
<1> QED
  BY <1>2, <1>3, <1>4 DEF EditSubmit

LEMMA RejectKeeps ==
    ASSUME NamingInv, Reject
    PROVE  NamingInv'
<1>1. job.kind \in Clicks
  BY DEF Reject, InJob, Clicks
<1>2. CASE FailUnchanged
  BY <1>2, FailUnchangedKeeps
<1>3. CASE ~FailUnchanged
  <2> DEFINE q == proposals[Clicked]
             r == [q EXCEPT !.status = "rejected", !.bubble = NoBubble, !.dismissal = job.bubble,
                            !.suppressed = (Found.source = "inferred")]
  <2>1. /\ OwnCard({"proposed"}) /\ Store([proposals EXCEPT ![Clicked] = r])
        /\ End(<<CardRequest("dismiss", job.bubble, NoName)>>)
        /\ UNCHANGED <<named, root, refused, Elsewhere>>
    BY <1>3 DEF Reject
  <2>2. Sound(Clicked, q, granted) /\ job.bubble \in Bubbles
    BY <1>1, ClickedStands
  <2>3. q \in Proposal
    BY <2>2 DEF Sound
  <2>4. /\ r \in Proposal /\ r.version = q.version /\ r.name = q.name /\ r.status = "rejected"
        /\ r.bubble = NoBubble
    BY <2>2, <2>3 DEF Proposal, NamingStatuses
  <2>5. q.status # "absent"
    BY <2>1 DEF OwnCard
  <2> HIDE DEF r, q
  <2>6. Moves(Clicked, q, r, granted)
    BY <2>2, <2>4, <2>5, MovesByFields
  <2>7. StoreMoves
    BY <2>1, <2>6, OneMoves DEF q
  <2> QED
    BY <2>1, <2>7, EndedJobKeeps DEF NamingInv, Aside, OthersTyped, AfterJob
<1> QED
  BY <1>2, <1>3

LEMMA RegisterBeginKeeps ==
    ASSUME NamingInv, RegisterBegin
    PROVE  NamingInv'
<1>1. job.kind \in Clicks /\ job.kind = "register" /\ job.at = "begin"
  BY DEF RegisterBegin, InJob, Clicks
<1>2. CASE FailUnchanged
  BY <1>2, FailUnchangedKeeps
<1>3. CASE ConflictAndFail
  BY <1>1, <1>3, ConflictAndFailKeeps
<1>4. CASE GoTo("finish") /\ UNCHANGED <<proposals, named, root, queue, refused, Elsewhere>>
  BY <1>1, <1>4, StoreStays, GoToKeeps DEF NamingInv, Aside, OthersTyped
<1>5. CASE /\ OwnCard({"proposed", "applying"})
           /\ Store([proposals EXCEPT ![Clicked].status = "applying", ![Clicked].operation = TRUE])
           /\ GoTo("save")
           /\ UNCHANGED <<named, root, queue, refused, Elsewhere>>
  <2> DEFINE q == proposals[Clicked]
             r == [q EXCEPT !.status = "applying", !.operation = TRUE]
             ps == [proposals EXCEPT ![Clicked].status = "applying", ![Clicked].operation = TRUE]
  <2>1. Sound(Clicked, q, granted) /\ Clicked \in Asks /\ q.status # "absent"
    BY <1>1, <1>5, ClickedStands DEF OwnCard
  <2>2. q.name \in granted
    <3>1. Fits(CardRequest(job.kind, job.bubble, job.name), proposals, granted)
      BY <1>1 DEF NamingInv, JobFits
    <3>2. q.version = job.bubble.version
      BY <1>5 DEF OwnCard
    <3> QED
      BY <1>1, <3>1, <3>2 DEF Fits, CardRequest, Clicked
  <2>3. q \in Proposal
    BY <2>1 DEF Sound
  <2>4. /\ r \in Proposal /\ r.version = q.version /\ r.name = q.name /\ r.status = "applying"
        /\ r.bubble = q.bubble
    BY <2>3 DEF Proposal, NamingStatuses
  <2>5. ASSUME NEW p \in Asks PROVE ps[p] = IF p = Clicked THEN r ELSE proposals[p]
    BY <2>1, <2>3 DEF NamingInv, StoreHeld
  <2>6. Store(ps)
    BY <1>5
  <2> HIDE DEF r, q, ps
  <2>7. Moves(Clicked, q, r, granted)
    BY <2>1, <2>2, <2>4, MovesByFields
  <2>8. \A p \in Asks : Moves(p, proposals[p], ps[p], granted)
    BY <2>5, <2>7, StaysHeld DEF NamingInv, StoreHeld, q
  <2>9. StoreMoves
    BY <2>6, <2>8, StoreTaken DEF NamingInv
  <2> QED
    BY <1>1, <1>5, <2>9, GoToKeeps DEF NamingInv, Aside, OthersTyped
<1> QED
  BY <1>2, <1>3, <1>4, <1>5 DEF RegisterBegin

LEMMA RegisterSaveKeeps ==
    ASSUME NamingInv, RegisterSave
    PROVE  NamingInv'
<1>1. /\ job.kind \in Clicks /\ job.kind = "register" /\ job.at = "save" /\ GoTo("finish")
      /\ named' = Found.name
      /\ UNCHANGED <<proposals, root, queue, refused, Elsewhere>>
  BY DEF RegisterSave, InJob, Clicks
<1>2. Found.name \in granted /\ granted \subseteq VoiceNames
  BY <1>1 DEF NamingInv, JobFits, ClickHasItsCopy, OthersTyped
<1>3. OthersTyped' /\ granted' = granted
  BY <1>1, <1>2, OthersStay DEF NamingInv, OthersTyped, MaybeName
<1>4. StoreMoves
  BY <1>1, StoreStays DEF NamingInv
<1>5. JobFits' /\ QueueFits'
  BY <1>1, <1>3, <1>4, GoToFits, QueueStays DEF NamingInv
<1>6. StoreHeld' /\ CardsShow'
  BY <1>1, <1>3, <1>4, StoreHeldOn, CardsOn DEF NamingInv
<1> QED
  BY <1>3, <1>5, <1>6 DEF NamingInv

LEMMA RegisterFinishKeeps ==
    ASSUME NamingInv, RegisterFinish
    PROVE  NamingInv'
<1>1. job.kind \in Clicks /\ job.kind = "register" /\ job.at = "finish"
  BY DEF RegisterFinish, InJob, Clicks
<1>2. CASE /\ proposals[Clicked].version = job.bubble.version
           /\ Store([proposals EXCEPT ![Clicked] = Applied(Clicked, Found)]) /\ End(Refresh)
           /\ UNCHANGED <<named, root, refused, Elsewhere>>
  <2>1. /\ Clicked \in Asks /\ Sound(Clicked, Found, granted) /\ Follows(Found, proposals[Clicked])
        /\ Found.version = job.bubble.version /\ job.bubble.version \in Nat \ {0}
    BY <1>1, ClickedStands
  <2>2. Found.status # "absent"
    BY <2>1, FieldsHeld
  <2>3. Moves(Clicked, Found, Applied(Clicked, Found), granted)
    BY <2>1, <2>2, AppliedHeld
  <2>4. Found.version = proposals[Clicked].version /\ Found.name = proposals[Clicked].name
    BY <1>2, <2>1 DEF Follows
  <2>5. Moves(Clicked, proposals[Clicked], Applied(Clicked, Found), granted)
    BY <2>3, <2>4 DEF Moves, Follows
  <2>6. StoreMoves
    BY <1>2, <2>5, OneMoves
  <2> QED
    BY <1>2, <2>6, EndedJobKeeps DEF NamingInv, Aside, OthersTyped
<1>3. CASE Fail /\ UNCHANGED <<proposals, named, root, refused, Elsewhere>>
  BY <1>3, StoreStays, FailedKeeps DEF NamingInv, Aside, OthersTyped
<1> QED
  BY <1>2, <1>3 DEF RegisterFinish

LEMMA UndoBeginKeeps ==
    ASSUME NamingInv, UndoBegin
    PROVE  NamingInv'
<1> DEFINE q == proposals[Clicked]
           r == [q EXCEPT !.card = "expired", !.dismissal = job.bubble]
           ps == [proposals EXCEPT ![Clicked].card = "expired", ![Clicked].dismissal = job.bubble]
<1>1. job.kind \in Clicks
  BY DEF UndoBegin, InJob, Clicks
<1>2. CASE FailUnchanged
  BY <1>2, FailUnchangedKeeps
<1>3. CASE ConflictAndFail
  BY <1>1, <1>3, ConflictAndFailKeeps
<1>4. CASE /\ Store(ps) \/ UNCHANGED proposals
           /\ End(<<CardRequest("dismiss", job.bubble, NoName)>>)
           /\ UNCHANGED <<named, root, refused, Elsewhere>>
  <2>1. Sound(Clicked, q, granted) /\ Clicked \in Asks /\ job.bubble \in MaybeBubble
    BY <1>1, ClickedStands DEF MaybeBubble
  <2>2. Moves(Clicked, q, r, granted)
    BY <2>1, CardHeld DEF Cards
  <2>3. q \in Proposal
    BY <2>1 DEF Sound
  <2>4. ASSUME NEW p \in Asks PROVE ps[p] = IF p = Clicked THEN r ELSE proposals[p]
    BY <2>1, <2>3 DEF NamingInv, StoreHeld
  <2> HIDE DEF r, ps
  <2>5. \A p \in Asks : Moves(p, proposals[p], ps[p], granted)
    BY <2>2, <2>4, StaysHeld DEF NamingInv, StoreHeld
  <2>6. StoreMoves
    BY <1>4, <2>5, StoreTaken, StoreStays DEF NamingInv
  <2> QED
    BY <1>4, <2>6, EndedJobKeeps DEF NamingInv, Aside, OthersTyped, AfterJob
<1>5. CASE refused' = TRUE /\ Fail /\ UNCHANGED <<proposals, named, root, Elsewhere>>
  BY <1>5, StoreStays, FailedKeeps DEF NamingInv, Aside, OthersTyped
<1> QED
  BY <1>2, <1>3, <1>4, <1>5 DEF UndoBegin

----------------------------------------------------------------------------
(* The other jobs of a card, and the renaming of a speaker.                *)

LEMMA CloseMarkKeeps ==
    ASSUME NamingInv, CloseMark
    PROVE  NamingInv'
<1>1. /\ job.kind = "close" /\ GoTo("dismiss") /\ UNCHANGED <<named, root, queue, refused, Elsewhere>>
      /\ job.bubble \in MaybeBubble
  BY DEF CloseMark, InJob, NamingInv, JobFits, JobRecords
<1>2. StoreMoves
  <2> DEFINE q == proposals[Clicked]
             card == CASE q.card \in {"dismissed", "expired", "resolved"} -> q.card
                       [] OTHER -> IF CanUndo(Clicked, q) THEN "dismissed" ELSE "expired"
             r == [q EXCEPT !.card = card, !.dismissal = job.bubble]
             ps == [proposals EXCEPT ![Clicked].card = card, ![Clicked].dismissal = job.bubble]
  <2>1. UNCHANGED proposals \/ Store(ps)
    BY DEF CloseMark
  <2>2. card \in {"dismissed", "expired", "resolved"}
    OBVIOUS
  <2> HIDE DEF card
  <2>3. ASSUME Clicked \in Asks PROVE Moves(Clicked, q, r, granted)
    <3>1. Sound(Clicked, q, granted)
      BY <2>3 DEF NamingInv, StoreHeld
    <3> QED
      BY <1>1, <2>2, <3>1, CardHeld DEF Cards
  <2>4. ASSUME NEW p \in Asks PROVE ps[p] = IF p = Clicked THEN r ELSE proposals[p]
    <3>1. proposals[p] \in Proposal
      BY DEF NamingInv, StoreHeld
    <3> QED
      BY <3>1 DEF NamingInv, StoreHeld
  <2> HIDE DEF r, ps
  <2>5. \A p \in Asks : Moves(p, proposals[p], ps[p], granted)
    BY <2>3, <2>4, StaysHeld DEF NamingInv, StoreHeld
  <2> QED
    BY <2>1, <2>5, StoreTaken, StoreStays DEF NamingInv
<1> QED
  BY <1>1, <1>2, GoToKeeps DEF NamingInv, Aside, OthersTyped, Clicks

LEMMA DismissCardKeeps ==
    ASSUME NamingInv, DismissCard
    PROVE  NamingInv'
<1>1. StoreMoves /\ root' \subseteq root
  BY DismissAll DEF DismissCard, NamingInv
<1> QED
  BY <1>1, EndedJobKeeps DEF DismissCard, NamingInv, Aside, OthersTyped

LEMMA RecoverCardKeeps ==
    ASSUME NamingInv, RecoverCard
    PROVE  NamingInv'
<1>1. StoreMoves /\ root' \subseteq root
  BY DismissAll DEF RecoverCard, NamingInv
<1> QED
  BY <1>1, EndedJobKeeps DEF RecoverCard, NamingInv, Aside, OthersTyped

LEMMA RenameKeeps ==
    ASSUME NamingInv, Rename
    PROVE  NamingInv'
<1>1. job.kind = "rename" /\ End(<<>>) /\ UNCHANGED <<proposals, root, refused, Elsewhere>>
  BY DEF Rename, InJob
<1>2. job.name \in granted \cup {NoName} /\ job.name \in MaybeName
  BY <1>1 DEF NamingInv, JobFits, Fits, CardRequest, JobRecords
<1>3. OthersTyped' /\ granted' = granted
  BY <1>1, <1>2, OthersStay DEF NamingInv, OthersTyped, Rename
<1>4. StoreMoves
  BY <1>1, StoreStays DEF NamingInv
<1>5. <<>> \in Seq(CardJob) /\ \A n \in 1 .. Len(<<>>) : <<>>[n].kind \in AfterJob
  OBVIOUS
<1>6. QueueFits' /\ JobFits'
  BY <1>1, <1>3, <1>4, <1>5, EndingKeeps DEF NamingInv
<1>7. StoreHeld' /\ CardsShow'
  BY <1>1, <1>3, <1>4, StoreHeldOn, CardsOn DEF NamingInv
<1> QED
  BY <1>3, <1>6, <1>7 DEF NamingInv

----------------------------------------------------------------------------
(* The refresh of the cards.                                               *)

LEMMA OneIsNewest ==
    ASSUME NEW S \in SUBSET Asks, S # {}
    PROVE  \E p \in S : \A q \in S : q <= p
<1> DEFINE T == {MaxProposals - p : p \in S}
<1>1. ASSUME NEW p \in S PROVE MaxProposals - p \in Nat
  <2>1. p \in 1 .. MaxProposals /\ MaxProposals \in Nat
    BY NamingAssumption
  <2> QED
    BY <2>1
<1>2. T \in SUBSET Nat /\ T # {}
  BY <1>1
<1>3. PICK x \in T : \A y \in T : x <= y
  BY <1>2, LeastNatural
<1>4. PICK p \in S : x = MaxProposals - p
  BY <1>3
<1>5. \A q \in S : MaxProposals - p <= MaxProposals - q
  BY <1>3, <1>4
<1> QED
  BY <1>5, NamingAssumption

LEMMA NewestIsThere ==
    ASSUME NEW S \in SUBSET Asks
    PROVE  /\ S = {} => Newest(S) = 0
           /\ S # {} => Newest(S) \in S
           /\ Newest(S) \in 0 .. MaxProposals
<1>1. ASSUME S # {} PROVE Newest(S) \in S
  BY <1>1, OneIsNewest DEF Newest
<1>2. S = {} => Newest(S) = 0
  BY DEF Newest
<1>3. \A n \in S : n \in 0 .. MaxProposals
  BY NamingAssumption
<1>4. 0 \in 0 .. MaxProposals
  BY NamingAssumption
<1> QED
  BY <1>1, <1>2, <1>3, <1>4

LEMMA BelowIsBelow ==
    ASSUME NEW S \in SUBSET Asks, NEW i \in Asks
    PROVE  /\ Below(i, S) \in 0 .. MaxProposals
           /\ Below(i, S) # 0 => Below(i, S) \in S /\ Below(i, S) < i
<1> DEFINE T == {p \in S : p < i}
<1>1. T \in SUBSET Asks /\ Below(i, S) = Newest(T)
  BY DEF Below
<1> HIDE DEF T
<1>2. Below(i, S) \in 0 .. MaxProposals /\ (Below(i, S) # 0 => Below(i, S) \in T)
  BY <1>1, NewestIsThere
<1> QED
  BY <1>2 DEF T

LEMMA SyncFits ==
    ASSUME NamingInv, StoreMoves, granted' = granted, job.kind = "sync",
           job' \in JobRecords, job'.kind = job.kind, job'.bubble = job.bubble, job'.name = job.name,
           CopiesFollow', SyncKnowsItsPlace'
    PROVE  JobFits'
<1>1. Fits(CardRequest(job.kind, job.bubble, job.name), proposals', granted')
  BY FitsOn DEF NamingInv, JobFits
<1>2. ClickHasItsCopy'
  BY DEF ClickHasItsCopy, Clicks
<1> QED
  BY <1>1, <1>2 DEF JobFits

LEMMA SyncGoesOn ==
    ASSUME NamingInv, StoreMoves, granted' = granted, job.kind = "sync",
           NEW i \in 0 .. MaxProposals, NEW at \in JobSteps \ {"load", "scan"}, NEW todo \in SUBSET job.todo,
           job' = [job EXCEPT !.i = i, !.at = at, !.todo = todo],
           at \in {"record", "show", "commit"} => i \in Asks,
           at = "record" => job.mine[i].status = "applied",
           at = "show" => job.mine[i].bubble \in Bubbles
    PROVE  JobFits'
<1>1. job \in JobRecords /\ CopiesFollow /\ SyncKnowsItsPlace
  BY DEF NamingInv, JobFits
<1>2. /\ job'.kind = job.kind /\ job'.bubble = job.bubble /\ job'.name = job.name /\ job'.at = at
      /\ job'.i = i /\ job'.old = job.old /\ job'.mine = job.mine /\ job'.todo = todo
  BY <1>1 DEF JobRecords
<1>3. todo \in SUBSET Asks
  BY <1>1 DEF JobRecords
<1>4. job' \in JobRecords
  BY <1>1, <1>3 DEF JobRecords
<1>5. CopiesFollow'
  BY <1>1, <1>2, CopiesOn DEF NamingInv
<1>6. SyncKnowsItsPlace'
  BY <1>1, <1>2 DEF SyncKnowsItsPlace
<1> QED
  BY <1>2, <1>4, <1>5, <1>6, SyncFits

LEMMA SyncOnKeeps ==
    ASSUME NamingInv, StoreMoves, Aside, queue' = queue, job.kind = "sync",
           NEW i \in 0 .. MaxProposals, NEW at \in JobSteps \ {"load", "scan"}, NEW todo \in SUBSET job.todo,
           job' = [job EXCEPT !.i = i, !.at = at, !.todo = todo],
           at \in {"record", "show", "commit"} => i \in Asks,
           at = "record" => job.mine[i].status = "applied",
           at = "show" => job.mine[i].bubble \in Bubbles
    PROVE  NamingInv'
<1>1. JobFits'
  BY GrantedStay, SyncGoesOn
<1> QED
  BY <1>1, GrantedStay, QueueStays, JobStepKeeps DEF NamingInv

LEMMA SyncLoadKeeps ==
    ASSUME NamingInv, SyncLoad
    PROVE  NamingInv'
<1> DEFINE ps == Dismissed(proposals, Dismissals(proposals))
<1>1. /\ job.kind = "sync" /\ job.at = "load" /\ UNCHANGED <<named, refused, Elsewhere>>
      /\ Dismiss(proposals, Dismissals(proposals))
  BY DEF SyncLoad, InJob
<1>2. StoreMoves /\ root' \subseteq root
  BY <1>1, DismissAll DEF NamingInv
<1>3. Aside /\ granted' = granted
  BY <1>1, <1>2, GrantedStay DEF Aside, NamingInv, OthersTyped
<1>4. CASE End(<<>>)
  BY <1>2, <1>3, <1>4, EndedJobKeeps
<1>5. CASE Stored # {} /\ queue' = queue
           /\ job' = [job EXCEPT !.at = "scan", !.i = Newest(Stored), !.old = ps, !.mine = ps]
  <2>1. job \in JobRecords /\ job.todo = {}
    BY <1>1 DEF NamingInv, JobFits, SyncKnowsItsPlace
  <2>2. Newest(Stored) \in Asks
    <3>1. Stored \in SUBSET Asks
      BY DEF Stored
    <3> QED
      BY <1>5, <3>1, NewestIsThere
  <2>3. ASSUME NEW p \in Asks PROVE Sound(p, ps[p], granted) /\ Follows(ps[p], proposals'[p])
    <3>1. Moves(p, proposals[p], ps[p], granted)
      BY DismissedHeld DEF NamingInv, StoreHeld
    <3>2. proposals'[p] = Redacted(ps[p])
      BY <1>1 DEF Dismiss, Store
    <3>3. Sound(p, ps[p], granted)
      BY <3>1 DEF Moves
    <3> HIDE DEF ps
    <3>4. Redacted(ps[p]).version = ps[p].version /\ Redacted(ps[p]).name = ps[p].name
      BY <3>3, RedactedHeld
    <3>5. Follows(ps[p], ps[p])
      BY <3>3, StaysHeld DEF Moves
    <3> QED
      BY <3>2, <3>3, <3>4, <3>5 DEF Follows
  <2>4. ps \in [Asks -> Proposal]
    <3>1. \A p \in Asks : ps[p] \in Proposal
      BY <2>3 DEF Sound
    <3>2. DOMAIN ps = Asks /\ ps = [p \in DOMAIN ps |-> ps[p]]
      BY DEF Dismissed
    <3> HIDE DEF ps
    <3> QED
      BY <3>1, <3>2
  <2> HIDE DEF ps
  <2>5. /\ job'.kind = job.kind /\ job'.bubble = job.bubble /\ job'.name = job.name /\ job'.at = "scan"
        /\ job'.i = Newest(Stored) /\ job'.old = ps /\ job'.mine = ps /\ job'.todo = {}
    BY <1>5, <2>1 DEF JobRecords
  <2>6. job' \in JobRecords
    <3>1. Newest(Stored) \in 0 .. MaxProposals
      BY <2>2
    <3> QED
      BY <1>5, <2>1, <2>4, <3>1 DEF JobRecords, JobSteps
  <2>7. CopiesFollow'
    BY <1>3, <2>3, <2>5 DEF CopiesFollow
  <2>8. SyncKnowsItsPlace'
    BY <2>2, <2>5 DEF SyncKnowsItsPlace
  <2>9. JobFits'
    BY <1>1, <1>2, <1>3, <2>5, <2>6, <2>7, <2>8, SyncFits
  <2> QED
    BY <1>2, <1>3, <1>5, <2>9, QueueStays, JobStepKeeps DEF NamingInv
<1> QED
  BY <1>4, <1>5 DEF SyncLoad

LEMMA SyncEndKeeps ==
    ASSUME NamingInv, SyncEnd
    PROVE  NamingInv'
<1>1. StoreMoves /\ root' \subseteq root
  BY DismissAll DEF SyncEnd, NamingInv
<1> QED
  BY <1>1, EndedJobKeeps DEF SyncEnd, NamingInv, Aside, OthersTyped

LEMMA SyncWithoutRegistryKeeps ==
    ASSUME NamingInv, SyncWithoutRegistry
    PROVE  NamingInv'
<1> DEFINE standing == {"proposed", "applying", "applied"}
           dropped(q) == IF q.status \in standing
                         THEN [q EXCEPT !.status = "conflict", !.dismissal = q.bubble, !.bubble = NoBubble]
                         ELSE [q EXCEPT !.dismissal = IF @ = NoBubble THEN q.bubble ELSE @]
           ps == Replaced([p \in Asks |-> dropped(job.old[p])])
           ids == {job.old[p].bubble : p \in Asks} \ {NoBubble}
<1>1. /\ job.kind = "sync" /\ Dismiss(ps, ids) /\ GoTo("end")
      /\ UNCHANGED <<named, queue, refused, Elsewhere>>
  BY DEF SyncWithoutRegistry, InJob
<1>2. ASSUME NEW p, NEW q, Sound(p, q, granted) PROVE Moves(p, q, dropped(q), granted)
  <2>1. q \in Proposal /\ q.bubble \in MaybeBubble /\ q.dismissal \in MaybeBubble
    BY <1>2, FieldsHeld
  <2>2. CASE q.status \in standing
    <3> DEFINE r == [q EXCEPT !.status = "conflict", !.dismissal = q.bubble, !.bubble = NoBubble]
    <3>1. /\ r \in Proposal /\ r.version = q.version /\ r.name = q.name /\ r.status = "conflict"
          /\ r.bubble = NoBubble
      BY <2>1 DEF Proposal, NamingStatuses, MaybeBubble
    <3>2. dropped(q) = r /\ q.status # "absent"
      BY <2>2
    <3> HIDE DEF r, dropped
    <3>3. Moves(p, q, r, granted)
      BY <1>2, <3>1, <3>2, MovesByFields
    <3> QED
      BY <3>2, <3>3
  <2>3. CASE q.status \notin standing
    <3> DEFINE b == IF q.dismissal = NoBubble THEN q.bubble ELSE q.dismissal
    <3>1. b \in MaybeBubble
      BY <2>1
    <3>2. dropped(q) = [q EXCEPT !.dismissal = b]
      BY <2>3
    <3> HIDE DEF b, dropped
    <3> QED
      BY <1>2, <3>1, <3>2, StaleHeld
  <2> QED
    BY <2>2, <2>3
<1>3. ASSUME NEW p \in Asks PROVE Moves(p, proposals[p], ps[p], granted)
  <2>1. ps[p] = IF proposals[p] = job.old[p] THEN dropped(job.old[p]) ELSE proposals[p]
    BY DEF Replaced, Unchanged
  <2>2. Sound(p, proposals[p], granted)
    BY DEF NamingInv, StoreHeld
  <2> HIDE DEF dropped, ps
  <2> QED
    BY <1>2, <2>1, <2>2, StaysHeld
<1>4. ps \in [Asks -> Proposal]
  <2>1. \A p \in Asks : ps[p] \in Proposal
    BY <1>3 DEF Moves, Sound
  <2>2. DOMAIN ps = Asks /\ ps = [p \in DOMAIN ps |-> ps[p]]
    BY DEF Replaced
  <2> HIDE DEF ps
  <2> QED
    BY <2>1, <2>2
<1> HIDE DEF ps, ids
<1>5. StoreMoves /\ root' \subseteq root
  BY <1>1, <1>3, <1>4, DismissMoves DEF NamingInv
<1> QED
  BY <1>1, <1>5, GoToKeeps DEF NamingInv, Aside, OthersTyped, Clicks

LEMMA ScannedHeld ==
    ASSUME NEW p \in Asks, NEW q, Sound(p, q, granted)
    PROVE  /\ Sound(p, Scanned(p, q), granted)
           /\ Scanned(p, q).version = q.version /\ Scanned(p, q).name = q.name
           /\ Scanned(p, q).status = "proposed" /\ evidence[p] # "unsourced"
                 => Scanned(p, q).bubble \in Bubbles
<1> DEFINE late1 == [q EXCEPT !.status = "expired", !.bubble = NoBubble]
           asking == [q EXCEPT !.bubble = ConfirmId(p, q.version)]
           resolved == [InConflict(q) EXCEPT !.card = "resolved"]
           over == [q EXCEPT !.card = "expired", !.dismissal = q.bubble]
           Unhurt(r) == Sound(p, r, granted) /\ r.version = q.version /\ r.name = q.name
<1>1. q \in Proposal /\ q.version \in Nat /\ q.version <= MaxNameVersions /\ q.bubble \in MaybeBubble
      /\ q.status \in NamingStatuses /\ (q.version = 0 <=> q.status = "absent")
  BY FieldsHeld
<1>2. ASSUME q.status # "absent"
      PROVE  /\ Unhurt(late1) /\ late1.status = "expired"
             /\ Unhurt(InConflict(q)) /\ InConflict(q).status = "conflict"
  <2>1. Moves(p, q, late1, granted) /\ Moves(p, q, InConflict(q), granted)
    BY <1>2, EndedHeld DEF InConflict
  <2>2. /\ late1.version = q.version /\ late1.name = q.name /\ late1.status = "expired"
        /\ InConflict(q).version = q.version /\ InConflict(q).name = q.name /\ InConflict(q).status = "conflict"
    BY <1>1 DEF InConflict, Proposal
  <2> QED
    BY <2>1, <2>2 DEF Moves
<1>3. ASSUME q.status # "absent"
      PROVE  Unhurt(resolved) /\ resolved.status = "conflict"
  <2> DEFINE t == InConflict(q)
  <2>1. Sound(p, t, granted) /\ t.version = q.version /\ t.name = q.name /\ t.status = "conflict"
    BY <1>2, <1>3
  <2> HIDE DEF t
  <2>2. Moves(p, t, [t EXCEPT !.card = "resolved"], granted)
    BY <2>1, CardHeld DEF Cards
  <2>3. t \in Proposal
    BY <2>1 DEF Sound
  <2>4. /\ [t EXCEPT !.card = "resolved"].version = t.version /\ [t EXCEPT !.card = "resolved"].name = t.name
        /\ [t EXCEPT !.card = "resolved"].status = t.status
    BY <2>3 DEF Proposal
  <2> QED
    BY <2>1, <2>2, <2>4 DEF Moves, t
<1>4. ASSUME q.status = "proposed"
      PROVE  Unhurt(asking) /\ asking.bubble \in Bubbles
  <2>1. q.version \in 1 .. MaxNameVersions
    BY <1>1, <1>4, NamingAssumption
  <2>2. ConfirmId(p, q.version) \in Bubbles
    BY <2>1 DEF ConfirmId, Bubbles
  <2>3. /\ asking \in Proposal /\ asking.version = q.version /\ asking.name = q.name
        /\ asking.status = q.status /\ asking.bubble = ConfirmId(p, q.version)
    BY <1>1, <2>2 DEF Proposal
  <2>4. q.name \in VoiceNames
    BY <2>1 DEF Sound
  <2> HIDE DEF asking
  <2>5. Sound(p, asking, granted)
    BY <1>4, <2>1, <2>2, <2>3, <2>4 DEF Sound
  <2> QED
    BY <2>2, <2>3, <2>5
<1>5. Unhurt(over) /\ over.status = q.status
  <2>1. Moves(p, q, over, granted)
    BY <1>1, CardHeld DEF Cards
  <2>2. over.version = q.version /\ over.name = q.name /\ over.status = q.status
    BY <1>1 DEF Proposal
  <2> QED
    BY <2>1, <2>2 DEF Moves
<1>6. ASSUME q.status # "absent" PROVE Unhurt(Applied(p, q)) /\ Applied(p, q).status = "applied"
  <2>1. Moves(p, q, Applied(p, q), granted)
    BY <1>6, AppliedHeld
  <2>2. Applied(p, q).version = q.version /\ Applied(p, q).name = q.name /\ Applied(p, q).status = "applied"
    BY <1>1 DEF Applied, Proposal
  <2> QED
    BY <2>1, <2>2 DEF Moves
<1>7. Unhurt(q)
  OBVIOUS
<1> HIDE DEF late1, asking, resolved, over, Unhurt
<1>8. CASE q.status = "proposed"
  <2>1. \/ Scanned(p, q) \in {late1, InConflict(q), asking}
        \/ Scanned(p, q) = q /\ evidence[p] = "unsourced"
    BY <1>8 DEF Scanned, late1, asking
  <2>2. Unhurt(Scanned(p, q)) /\ (Scanned(p, q).status = "proposed" /\ evidence[p] # "unsourced"
                                   => Scanned(p, q).bubble \in Bubbles)
    BY <1>2, <1>4, <1>7, <1>8, <2>1
  <2> QED
    BY <2>2 DEF Unhurt
<1>9. CASE q.status = "applying"
  <2>1. Scanned(p, q) \in {Applied(p, q), InConflict(q)}
    BY <1>9 DEF Scanned
  <2>2. Unhurt(Scanned(p, q)) /\ Scanned(p, q).status # "proposed"
    BY <1>2, <1>6, <1>9, <2>1
  <2> QED
    BY <2>2 DEF Unhurt
<1>10. CASE q.status = "applied"
  <2>1. Scanned(p, q) \in {InConflict(q), resolved, over, q}
    BY <1>10 DEF Scanned, resolved, over
  <2>2. Unhurt(Scanned(p, q)) /\ Scanned(p, q).status # "proposed"
    BY <1>2, <1>3, <1>5, <1>7, <1>10, <2>1
  <2> QED
    BY <2>2 DEF Unhurt
<1>11. CASE q.status \notin {"proposed", "applying", "applied"}
  <2>1. Scanned(p, q) = q
    BY <1>11 DEF Scanned
  <2> QED
    BY <1>7, <1>11, <2>1 DEF Unhurt
<1> QED
  BY <1>8, <1>9, <1>10, <1>11

LEMMA SyncScanKeeps ==
    ASSUME NamingInv, SyncScan
    PROVE  NamingInv'
<1> DEFINE p == job.i
           q == job.mine[p]
           to == Scanned(p, q)
           asks == to.status = "proposed" /\ evidence[p] # "unsourced"
           below == Below(p, InHand)
<1>1. /\ job.kind = "sync" /\ job.at = "scan"
      /\ named' = IF SavesName(q) THEN q.name ELSE named
      /\ job' = [job EXCEPT !.mine[p] = to, !.todo = IF asks THEN @ \cup {p} ELSE @,
                            !.i = below, !.at = IF below = 0 THEN "write" ELSE "scan"]
      /\ UNCHANGED <<proposals, root, queue, refused, Elsewhere>>
  BY DEF SyncScan, InJob
<1>2. /\ job \in JobRecords /\ CopiesFollow /\ SyncKnowsItsPlace
  BY DEF NamingInv, JobFits
<1>3. p \in Asks
  BY <1>1, <1>2 DEF SyncKnowsItsPlace
<1>4. Sound(p, q, granted) /\ Follows(q, proposals[p]) /\ q.version = job.old[p].version
  BY <1>1, <1>2, <1>3 DEF CopiesFollow
<1>5. /\ Sound(p, to, granted) /\ to.version = q.version /\ to.name = q.name
      /\ asks => to.bubble \in Bubbles
  BY <1>3, <1>4, ScannedHeld
<1>6. below \in 0 .. MaxProposals /\ (below # 0 => below \in Asks /\ below < p)
  <2>1. InHand \in SUBSET Asks
    BY DEF InHand
  <2>2. below \in 0 .. MaxProposals /\ (below # 0 => below \in InHand /\ below < p)
    BY <1>3, <2>1, BelowIsBelow
  <2> HIDE DEF below
  <2> QED
    BY <2>1, <2>2
<1> HIDE DEF to, asks, below
<1>7. named' \in MaybeName /\ named' \in granted \cup {NoName}
  <2>1. SavesName(q) => q.name \in granted
    BY <1>4 DEF SavesName, Sound
  <2>2. q.name \in MaybeName
    BY <1>4, FieldsHeld
  <2> QED
    BY <1>1, <2>1, <2>2 DEF NamingInv, OthersTyped
<1>8. OthersTyped' /\ granted' = granted
  BY <1>1, <1>7, OthersStay DEF NamingInv, OthersTyped
<1>9. StoreMoves
  BY <1>1, StoreStays DEF NamingInv
<1>10. /\ job'.kind = job.kind /\ job'.bubble = job.bubble /\ job'.name = job.name
       /\ job'.at = (IF below = 0 THEN "write" ELSE "scan") /\ job'.i = below /\ job'.old = job.old
       /\ job'.mine = [job.mine EXCEPT ![p] = to]
       /\ job'.todo = IF asks THEN job.todo \cup {p} ELSE job.todo
  BY <1>1, <1>2 DEF JobRecords
<1>11. job' \in JobRecords
  <2>1. to \in Proposal
    BY <1>5 DEF Sound
  <2>2. job.mine \in [Asks -> Proposal] /\ job.todo \in SUBSET Asks
    BY <1>2 DEF JobRecords
  <2>3. [job.mine EXCEPT ![p] = to] \in [Asks -> Proposal]
    BY <2>1, <2>2
  <2>4. (IF asks THEN job.todo \cup {p} ELSE job.todo) \in SUBSET Asks
    BY <1>3, <2>2
  <2>5. (IF below = 0 THEN "write" ELSE "scan") \in JobSteps
    BY DEF JobSteps
  <2> QED
    BY <1>1, <1>2, <1>6, <2>3, <2>4, <2>5 DEF JobRecords
<1>12. ASSUME NEW r \in Asks PROVE job'.mine[r] = IF r = p THEN to ELSE job.mine[r]
  BY <1>2, <1>10 DEF JobRecords
<1>13. CopiesFollow'
  <2>1. ASSUME NEW r \in Asks
        PROVE  /\ Sound(r, job'.mine[r], granted) /\ Follows(job'.mine[r], proposals[r])
               /\ Sound(r, job.old[r], granted) /\ Follows(job.old[r], proposals[r])
               /\ job'.mine[r].version = job.old[r].version
    <3>1. CASE r = p
      <4>1. Follows(to, proposals[p])
        BY <1>4, <1>5 DEF Follows
      <4> QED
        BY <1>2, <1>4, <1>5, <1>12, <3>1, <4>1 DEF CopiesFollow
    <3>2. CASE r # p
      BY <1>1, <1>2, <1>12, <3>2 DEF CopiesFollow
    <3> QED
      BY <3>1, <3>2
  <2> QED
    BY <1>1, <1>8, <1>10, <2>1 DEF CopiesFollow
<1>14. SyncKnowsItsPlace'
  <2>1. ASSUME NEW r \in job'.todo
        PROVE  job'.mine[r].bubble \in Bubbles /\ (job'.at = "scan" => r > job'.i)
    <3>1. r \in Asks /\ (r \in job.todo \/ (r = p /\ asks))
      BY <1>3, <1>10, <1>11 DEF JobRecords
    <3>2. CASE r = p
      <4>1. r \in job.todo => r > p
        BY <1>1, <1>2 DEF SyncKnowsItsPlace
      <4>2. ~(p > p)
        BY <1>3
      <4>3. to.bubble \in Bubbles
        BY <1>5, <3>1, <3>2, <4>1, <4>2
      <4>4. job'.at = "scan" => p > below
        BY <1>3, <1>6, <1>10
      <4> QED
        BY <1>10, <1>12, <3>1, <3>2, <4>3, <4>4
    <3>3. CASE r # p
      <4>1. job.mine[r].bubble \in Bubbles /\ r > p
        BY <1>1, <1>2, <3>1, <3>3 DEF SyncKnowsItsPlace
      <4>2. job'.at = "scan" => r > below
        BY <1>3, <1>6, <1>10, <3>1, <4>1
      <4> QED
        BY <1>10, <1>12, <3>1, <3>3, <4>1, <4>2
    <3> QED
      BY <3>2, <3>3
  <2>2. job'.at \in {"write", "scan"} /\ (job'.at = "scan" => job'.i \in Asks)
    BY <1>6, <1>10
  <2> QED
    BY <2>1, <2>2 DEF SyncKnowsItsPlace
<1>15. JobFits'
  BY <1>1, <1>8, <1>9, <1>10, <1>11, <1>13, <1>14, SyncFits
<1>16. QueueFits' /\ StoreHeld' /\ CardsShow'
  BY <1>1, <1>8, <1>9, QueueStays, StoreHeldOn, CardsOn DEF NamingInv
<1> QED
  BY <1>8, <1>15, <1>16 DEF NamingInv

LEMMA SyncWriteKeeps ==
    ASSUME NamingInv, SyncWrite
    PROVE  NamingInv'
<1> DEFINE p == Newest(Registered(job.mine))
           ps == Replaced([r \in Asks |-> Parted(r)])
           todo == {r \in job.todo : Unchanged(r)}
           at == IF p = 0 THEN "obsolete" ELSE "record"
<1>1. /\ job.kind = "sync" /\ Store(ps)
      /\ job' = [job EXCEPT !.i = p, !.at = at, !.todo = todo]
      /\ UNCHANGED <<named, root, queue, refused, Elsewhere>>
  <2>1. [job EXCEPT !.at = at, !.i = p, !.todo = todo] = [job EXCEPT !.i = p, !.at = at, !.todo = todo]
    BY DEF NamingInv, JobFits, JobRecords
  <2>2. job' = [job EXCEPT !.at = at, !.i = p, !.todo = {r \in @ : Unchanged(r)}]
    BY DEF SyncWrite
  <2> QED
    BY <2>1, <2>2 DEF SyncWrite, InJob
<1>2. job \in JobRecords /\ CopiesFollow
  BY DEF NamingInv, JobFits
<1>3. p \in 0 .. MaxProposals /\ (p # 0 => p \in Asks /\ job.mine[p].status = "applied")
  <2>1. Registered(job.mine) \in SUBSET Asks
    BY DEF Registered
  <2>2. p \in 0 .. MaxProposals /\ (p # 0 => p \in Registered(job.mine))
    BY <2>1, NewestIsThere
  <2> HIDE DEF p
  <2> QED
    BY <2>2 DEF Registered
<1>4. ASSUME NEW r \in Asks PROVE Moves(r, proposals[r], ps[r], granted)
  <2>1. ps[r] = IF proposals[r] = job.old[r] THEN Parted(r) ELSE proposals[r]
    BY DEF Replaced, Unchanged
  <2>2. Sound(r, proposals[r], granted)
    BY DEF NamingInv, StoreHeld
  <2>3. /\ Sound(r, job.mine[r], granted) /\ Follows(job.mine[r], proposals[r])
        /\ job.mine[r].version = job.old[r].version /\ job.old[r].bubble \in MaybeBubble
    <3>1. Sound(r, job.old[r], granted)
      BY <1>2 DEF CopiesFollow
    <3> QED
      BY <1>1, <1>2, <3>1, FieldsHeld DEF CopiesFollow
  <2>4. Moves(r, job.mine[r], Parted(r), granted)
    BY <2>3, StaleHeld, StaysHeld DEF Parted
  <2>5. ASSUME proposals[r] = job.old[r] PROVE Moves(r, proposals[r], Parted(r), granted)
    <3>1. Moves(r, proposals[r], job.mine[r], granted)
      <4>1. proposals[r].version = job.mine[r].version /\ proposals[r].version \in Nat
        BY <2>2, <2>3, <2>5, FieldsHeld
      <4>2. job.mine[r].name = proposals[r].name
        BY <2>3, <4>1 DEF Follows
      <4> QED
        BY <2>3, <4>1, <4>2 DEF Moves, Follows
    <3> QED
      BY <2>2, <2>4, <3>1, MovesOn
  <2> HIDE DEF ps
  <2> QED
    BY <2>1, <2>2, <2>5, StaysHeld
<1> HIDE DEF ps
<1>5. StoreMoves
  BY <1>1, <1>4, StoreTaken DEF NamingInv
<1>6. todo \in SUBSET job.todo /\ at \in JobSteps \ {"load", "scan"}
      /\ (at = "record" => p # 0) /\ at \notin {"show", "commit"}
  BY DEF JobSteps
<1>7. Aside /\ queue' = queue
  BY <1>1 DEF NamingInv, Aside, OthersTyped
<1> HIDE DEF p, at, todo
<1> QED
  BY <1>1, <1>3, <1>5, <1>6, <1>7, SyncOnKeeps

LEMMA ResultRecordKeeps ==
    ASSUME NamingInv, ResultRecord
    PROVE  NamingInv'
<1> DEFINE p == job.i
           q == job.mine[p]
           gone == [q EXCEPT !.record = "recorded", !.card = "expired",
                             !.dismissal = IF q.card # "expired" THEN q.bubble ELSE @]
           to == IF CanUndo(p, q) THEN [q EXCEPT !.record = "recorded"] ELSE gone
           below == Below(p, Registered(job.mine))
           s == proposals[p]
           x == IF to = q THEN s
                ELSE [s EXCEPT !.record = to.record, !.card = to.card, !.bubble = to.bubble,
                               !.dismissal = to.dismissal]
           more == IF CanUndo(p, q) /\ q.card \in {"pending", "delivering"} THEN job.todo \cup {p} ELSE job.todo
           at == IF below = 0 THEN "obsolete" ELSE "record"
<1>1. job.kind = "sync" /\ job.at = "record" /\ UNCHANGED <<named, root, refused, Elsewhere>>
  BY DEF ResultRecord, InJob
<1>2. job \in JobRecords /\ CopiesFollow /\ SyncKnowsItsPlace
  BY DEF NamingInv, JobFits
<1>3. p \in Asks /\ q.status = "applied"
  BY <1>1, <1>2 DEF SyncKnowsItsPlace
<1>4. Sound(p, q, granted) /\ Follows(q, s) /\ Sound(p, s, granted)
  BY <1>2, <1>3 DEF CopiesFollow, NamingInv, StoreHeld
<1>5. Aside
  BY <1>1 DEF NamingInv, Aside, OthersTyped
<1>6. CASE Fail /\ UNCHANGED proposals
  BY <1>5, <1>6, StoreStays, FailedKeeps DEF NamingInv
<1>7. CASE /\ to # q => s.version = q.version
           /\ Store([proposals EXCEPT ![p] = x])
           /\ job' = [job EXCEPT !.i = below, !.at = at, !.mine[p] = to, !.todo = more]
           /\ queue' = queue
  <2>1. q \in Proposal /\ s \in Proposal /\ q.bubble \in MaybeBubble /\ q.dismissal \in MaybeBubble
        /\ q.version \in Nat /\ s.version \in Nat
    BY <1>4, FieldsHeld
  <2>2. /\ to \in Proposal /\ to.version = q.version /\ to.name = q.name /\ to.status = q.status
        /\ to.bubble = q.bubble
        /\ to.card \in {q.card, "expired"} /\ to.card \in Cards /\ to.dismissal \in MaybeBubble
        /\ to.record = "recorded"
    <3> DEFINE b == IF q.card # "expired" THEN q.bubble ELSE q.dismissal
               kept == [q EXCEPT !.record = "recorded"]
               over == [q EXCEPT !.record = "recorded", !.card = "expired", !.dismissal = b]
    <3>1. b \in MaybeBubble
      BY <2>1
    <3>2. /\ kept \in Proposal /\ kept.version = q.version /\ kept.name = q.name /\ kept.status = q.status
          /\ kept.bubble = q.bubble /\ kept.card = q.card /\ kept.card \in Cards
          /\ kept.dismissal \in MaybeBubble /\ kept.record = "recorded"
      BY <2>1 DEF Proposal, MaybeBubble
    <3>3. gone = over
      BY <2>1 DEF Proposal
    <3> HIDE DEF b
    <3>4. /\ over \in Proposal /\ over.version = q.version /\ over.name = q.name /\ over.status = q.status
          /\ over.bubble = q.bubble /\ over.card = "expired" /\ over.card \in Cards
          /\ over.dismissal \in MaybeBubble /\ over.record = "recorded"
      BY <2>1, <3>1 DEF Proposal, MaybeBubble, Cards
    <3> HIDE DEF kept, over, gone
    <3>5. to = kept \/ to = over
      BY <3>3 DEF kept
    <3> HIDE DEF to
    <3> QED
      BY <3>2, <3>4, <3>5
  <2>3. Sound(p, to, granted)
    <3> HIDE DEF to
    <3>1. q.card \in {"pending", "delivering", "delivered"} => q.bubble \in Bubbles
      BY <1>3, <1>4 DEF Sound
    <3>2. to.card \in {"pending", "delivering", "delivered"} => to.bubble \in Bubbles
      BY <2>2, <3>1
    <3>3. Moves(p, q, to, granted)
      BY <1>3, <1>4, <2>2, <3>2, MovesByFields
    <3> QED
      BY <3>3 DEF Moves
  <2>4. Moves(p, s, x, granted)
    <3>1. CASE to = q
      BY <1>4, <3>1, StaysHeld
    <3>2. CASE to # q
      <4> DEFINE y == [s EXCEPT !.record = to.record, !.card = to.card, !.bubble = to.bubble,
                                !.dismissal = to.dismissal]
      <4>1. s.version = q.version
        BY <1>7, <3>2
      <4>2. x = y
        BY <3>2
      <4> HIDE DEF to, x
      <4>3. to.bubble \in MaybeBubble
        BY <2>1, <2>2
      <4>4. /\ y \in Proposal /\ y.version = s.version /\ y.name = s.name /\ y.status = s.status
            /\ y.bubble = to.bubble /\ y.card = to.card
        BY <2>1, <2>2, <4>3 DEF Proposal, MaybeBubble
      <4> HIDE DEF y
      <4>5. y.bubble.kind = "confirm" => y.bubble = ConfirmId(p, y.version)
        BY <1>4, <2>2, <4>1, <4>4 DEF Sound
      <4>6. y.card \in {"pending", "delivering", "delivered"} => y.bubble \in Bubbles
        BY <1>3, <2>2, <2>3, <4>4 DEF Sound
      <4>7. s.version # 0
        BY <1>3, <1>4, <4>1, FieldsHeld
      <4>8. Sound(p, y, granted)
        <5>1. /\ s.version # 0 => s.status # "absent" /\ s.name \in VoiceNames
              /\ s.status = "applying" => s.name \in granted
          BY <1>4 DEF Sound
        <5> QED
          BY <4>4, <4>5, <4>6, <4>7, <5>1 DEF Sound
      <4>9. Follows(s, y)
        BY <2>1, <4>4 DEF Follows
      <4> QED
        BY <4>2, <4>8, <4>9 DEF Moves
    <3> QED
      BY <3>1, <3>2
  <2> HIDE DEF x
  <2>5. StoreMoves
    BY <1>7, <2>4, StoreOne DEF NamingInv
  <2>6. granted' = granted /\ queue' = queue
    BY <1>5, <1>7, GrantedStay
  <2>7. below \in 0 .. MaxProposals /\ (below # 0 => below \in Registered(job.mine) /\ below < p)
    <3>1. Registered(job.mine) \in SUBSET Asks
      BY DEF Registered
    <3> QED
      BY <1>3, <3>1, BelowIsBelow
  <2>8. below # 0 => below \in Asks /\ below # p /\ job.mine[below].status = "applied"
    <3> HIDE DEF below
    <3> QED
      BY <1>3, <2>7 DEF Registered
  <2> HIDE DEF to, below
  <2>9. /\ job'.kind = job.kind /\ job'.bubble = job.bubble /\ job'.name = job.name
        /\ job'.at = at /\ job'.i = below /\ job'.old = job.old
        /\ job'.mine = [job.mine EXCEPT ![p] = to] /\ job'.todo = more
    BY <1>2, <1>7 DEF JobRecords
  <2>10. more \in SUBSET Asks /\ at \in {"obsolete", "record"}
    BY <1>2, <1>3 DEF JobRecords
  <2>11. job' \in JobRecords
    <3>1. [job.mine EXCEPT ![p] = to] \in [Asks -> Proposal]
      BY <1>2, <2>2 DEF JobRecords
    <3>2. at \in JobSteps
      BY <2>10 DEF JobSteps
    <3> HIDE DEF at, more
    <3> QED
      BY <1>2, <1>7, <2>7, <2>10, <3>1, <3>2 DEF JobRecords
  <2>12. ASSUME NEW r \in Asks PROVE job'.mine[r] = IF r = p THEN to ELSE job.mine[r]
    BY <1>2, <2>9 DEF JobRecords
  <2>13. CopiesFollow'
    <3>1. ASSUME NEW r \in Asks
          PROVE  /\ Sound(r, job'.mine[r], granted) /\ Follows(job'.mine[r], proposals[r])
                 /\ Sound(r, job.old[r], granted) /\ Follows(job.old[r], proposals[r])
                 /\ job'.mine[r].version = job.old[r].version
      <4>1. CASE r = p
        <5>1. Follows(to, s)
          BY <1>4, <2>2 DEF Follows
        <5> QED
          BY <1>1, <1>2, <2>2, <2>3, <2>12, <4>1, <5>1 DEF CopiesFollow
      <4>2. CASE r # p
        BY <1>1, <1>2, <2>12, <4>2 DEF CopiesFollow
      <4> QED
        BY <4>1, <4>2
    <3>2. ASSUME NEW r \in Asks
          PROVE  /\ Sound(r, job'.mine[r], granted') /\ Follows(job'.mine[r], proposals'[r])
                 /\ Sound(r, job.old[r], granted') /\ Follows(job.old[r], proposals'[r])
      BY <2>5, <2>6, <3>1, CopyOn DEF NamingInv
    <3> QED
      BY <1>1, <2>9, <3>1, <3>2 DEF CopiesFollow
  <2>14. SyncKnowsItsPlace'
    <3>1. ASSUME NEW r \in job'.todo PROVE job'.mine[r].bubble \in Bubbles
      <4>1. r \in Asks /\ (r \in job.todo \/ (r = p /\ q.card \in {"pending", "delivering"}))
        BY <1>3, <2>9, <2>10
      <4>2. r \in job.todo => job.mine[r].bubble \in Bubbles
        BY <1>1, <1>2 DEF SyncKnowsItsPlace
      <4>3. q.card \in {"pending", "delivering"} => q.bubble \in Bubbles
        BY <1>3, <1>4 DEF Sound
      <4> QED
        BY <2>2, <2>12, <4>1, <4>2, <4>3
    <3>2. job'.at = "record" => job'.i \in Asks /\ job'.mine[job'.i].status = "applied"
      BY <2>8, <2>9, <2>12
    <3>3. job'.at \notin {"load", "scan", "show", "commit"}
      BY <2>9, <2>10
    <3> QED
      BY <3>1, <3>2, <3>3 DEF SyncKnowsItsPlace
  <2>15. JobFits'
    BY <1>1, <2>5, <2>6, <2>9, <2>11, <2>13, <2>14, SyncFits
  <2> QED
    BY <1>5, <2>5, <2>6, <2>15, QueueStays, JobStepKeeps DEF NamingInv
<1>8. \/ Fail /\ UNCHANGED proposals
      \/ /\ to # q => s.version = q.version
         /\ Store([proposals EXCEPT ![p] = x])
         /\ job' = [job EXCEPT !.i = below, !.at = at, !.mine[p] = to, !.todo = more]
         /\ queue' = queue
  BY DEF ResultRecord
<1> QED
  BY <1>6, <1>7, <1>8

LEMMA SyncObsoleteKeeps ==
    ASSUME NamingInv, SyncObsolete
    PROVE  NamingInv'
<1>1. /\ job.kind = "sync" /\ GoTo("deliver") /\ UNCHANGED <<named, queue, refused, Elsewhere>>
      /\ StoreMoves /\ root' \subseteq root
  BY DismissAll DEF SyncObsolete, InJob, NamingInv
<1> QED
  BY <1>1, GoToKeeps DEF NamingInv, Aside, OthersTyped, Clicks

LEMMA StepToKeeps ==
    ASSUME NamingInv, StoreMoves, Aside, queue' = queue, job.kind = "sync",
           NEW p \in Asks, NEW at \in {"show", "commit"}, StepTo(p, at),
           at = "show" => job.mine[p].bubble \in Bubbles
    PROVE  NamingInv'
<1>1. job' = [job EXCEPT !.i = p, !.at = at, !.todo = job.todo]
  BY DEF StepTo, NamingInv, JobFits, JobRecords
<1>2. p \in 0 .. MaxProposals /\ at \in JobSteps \ {"load", "scan"}
  BY DEF JobSteps
<1> QED
  BY <1>1, <1>2, SyncOnKeeps

LEMMA NextCardKeeps ==
    ASSUME NamingInv, StoreMoves, Aside, queue' = queue, job.kind = "sync", NEW p, NextCard(p)
    PROVE  NamingInv'
<1> DEFINE todo == job.todo \ {p}
<1>1. job' = [job EXCEPT !.i = 0, !.at = "deliver", !.todo = todo]
  <2>1. job' = [job EXCEPT !.todo = @ \ {p}, !.i = 0, !.at = "deliver"]
    BY DEF NextCard
  <2> QED
    BY <2>1 DEF NamingInv, JobFits, JobRecords
<1>2. 0 \in 0 .. MaxProposals /\ "deliver" \in JobSteps \ {"load", "scan"} /\ todo \in SUBSET job.todo
  BY NamingAssumption DEF JobSteps
<1> HIDE DEF todo
<1> QED
  BY <1>1, <1>2, SyncOnKeeps

LEMMA SyncDeliverKeeps ==
    ASSUME NamingInv, SyncDeliver
    PROVE  NamingInv'
<1>1. /\ job.kind = "sync" /\ UNCHANGED <<named, queue, refused, Elsewhere>>
      /\ job \in JobRecords /\ SyncKnowsItsPlace
  BY DEF SyncDeliver, InJob, NamingInv, JobFits
<1>2. CASE GoTo("end") /\ UNCHANGED <<proposals, root>>
  BY <1>1, <1>2, StoreStays, GoToKeeps DEF NamingInv, Aside, OthersTyped, Clicks
<1>3. ASSUME NEW p \in job.todo,
             LET b == job.mine[p].bubble
                 result == job.mine[p].status = "applied"
                 replaced == {job.old[p].bubble} \ {b, NoBubble}
                 deliverable == proposals[p].bubble = b /\ CanUndo(p, proposals[p])
             IN IF ~result THEN Dismiss(proposals, replaced) /\ StepTo(p, "show")
                ELSE /\ Store([proposals EXCEPT ![p] = Delivery(p, b, {"pending"}, "delivering")])
                     /\ UNCHANGED root
                     /\ IF deliverable /\ DeliversCard(p) THEN StepTo(p, "show")
                        ELSE IF deliverable /\ proposals[p].card = "delivering" THEN StepTo(p, "commit")
                        ELSE NextCard(p)
      PROVE  NamingInv'
  <2> DEFINE b == job.mine[p].bubble
  <2>1. p \in Asks /\ b \in Bubbles /\ b \in MaybeBubble
    BY <1>1 DEF JobRecords, SyncKnowsItsPlace, MaybeBubble
  <2>2. ASSUME Dismiss(proposals, {job.old[p].bubble} \ {b, NoBubble}), StepTo(p, "show")
        PROVE  NamingInv'
    <3>1. StoreMoves /\ root' \subseteq root
      BY <2>2, DismissAll DEF NamingInv
    <3> QED
      BY <1>1, <2>1, <2>2, <3>1, StepToKeeps DEF NamingInv, Aside, OthersTyped
  <2>3. ASSUME Store([proposals EXCEPT ![p] = Delivery(p, b, {"pending"}, "delivering")]), UNCHANGED root,
               StepTo(p, "show") \/ StepTo(p, "commit") \/ NextCard(p)
        PROVE  NamingInv'
    <3>1. Moves(p, proposals[p], Delivery(p, b, {"pending"}, "delivering"), granted)
      BY <2>1, DeliveryHeld DEF NamingInv
    <3>2. StoreMoves
      BY <2>3, <3>1, StoreOne DEF NamingInv
    <3>3. Aside /\ queue' = queue
      BY <1>1, <2>3 DEF NamingInv, Aside, OthersTyped
    <3> QED
      BY <1>1, <2>1, <2>3, <3>2, <3>3, StepToKeeps, NextCardKeeps
  <2> QED
    BY <1>3, <2>2, <2>3
<1> QED
  BY <1>2, <1>3 DEF SyncDeliver

LEMMA SyncShowKeeps ==
    ASSUME NamingInv, SyncShow
    PROVE  NamingInv'
<1> DEFINE p == job.i
           q == job.mine[p]
           card == [id |-> q.bubble, name |-> q.name]
<1>1. /\ job.kind = "sync" /\ job.at = "show"
      /\ UNCHANGED <<proposals, named, queue, refused, options, core, World, granted, namingEvents>>
  BY DEF SyncShow, InJob
<1>2. job \in JobRecords /\ CopiesFollow /\ SyncKnowsItsPlace
  BY DEF NamingInv, JobFits
<1>3. p \in Asks /\ q.bubble \in Bubbles
  BY <1>1, <1>2 DEF SyncKnowsItsPlace
<1>4. Sound(p, q, granted) /\ Follows(q, proposals[p])
  BY <1>2, <1>3 DEF CopiesFollow
<1>5. Shows(card, proposals)
  <2>1. q.version # 0
    <3>1. NoBubble \notin Bubbles
      BY DEF NoBubble, Bubbles
    <3> QED
      BY <1>3, <1>4, <3>1 DEF Sound
  <2>2. q.name \in VoiceNames
    BY <1>4, <2>1 DEF Sound
  <2>3. card \in [id : Bubbles, name : VoiceNames] /\ card.id = q.bubble /\ card.name = q.name
    BY <1>3, <2>2
  <2>4. ASSUME q.bubble.kind = "confirm" PROVE q.bubble.of = p /\ q.bubble.version = q.version
    BY <1>4, <2>4 DEF Sound, ConfirmId
  <2> HIDE DEF card
  <2> QED
    BY <1>4, <2>3, <2>4 DEF Shows, Follows
<1>6. StoreMoves /\ granted' = granted
  BY <1>1, StoreStays DEF NamingInv
<1>7. CardsShow'
  <2>1. root' = root \/ root' = root \cup {card}
    BY DEF SyncShow
  <2> HIDE DEF card
  <2> QED
    BY <1>1, <1>5, <2>1 DEF NamingInv, CardsShow
<1>8. shown' \in [Asks -> 0 .. 2]
  <2>1. shown \in [Asks -> 0 .. 2]
    BY DEF NamingInv, OthersTyped
  <2>2. shown[p] < 2 => shown[p] + 1 \in 0 .. 2
    BY <1>3, <2>1
  <2>3. shown' = shown \/ (shown[p] < 2 /\ shown' = [shown EXCEPT ![p] = @ + 1])
    BY DEF SyncShow
  <2>4. \A n \in 0 .. 2 : [shown EXCEPT ![p] = n] \in [Asks -> 0 .. 2]
    BY <2>1
  <2> QED
    BY <2>1, <2>2, <2>3, <2>4
<1>9. OthersTyped'
  BY <1>1, <1>8 DEF NamingInv, OthersTyped, World
<1>10. JobFits'
  <2>1. CASE GoTo("commit")
    <3>1. job' = [job EXCEPT !.i = p, !.at = "commit", !.todo = job.todo]
      BY <1>2, <2>1 DEF GoTo, JobRecords
    <3>2. p \in 0 .. MaxProposals /\ "commit" \in JobSteps \ {"load", "scan"}
      BY <1>3 DEF JobSteps
    <3>3. job.todo \in SUBSET job.todo
      OBVIOUS
    <3> HIDE DEF p
    <3> QED
      BY <1>1, <1>3, <1>6, <3>1, <3>2, <3>3, SyncGoesOn
  <2>2. CASE NextCard(p)
    <3> DEFINE todo == job.todo \ {p}
    <3>1. job' = [job EXCEPT !.i = 0, !.at = "deliver", !.todo = todo]
      <4>1. job' = [job EXCEPT !.todo = @ \ {p}, !.i = 0, !.at = "deliver"]
        BY <2>2 DEF NextCard
      <4> QED
        BY <1>2, <4>1 DEF JobRecords
    <3>2. 0 \in 0 .. MaxProposals /\ "deliver" \in JobSteps \ {"load", "scan"} /\ todo \in SUBSET job.todo
      BY NamingAssumption DEF JobSteps
    <3> HIDE DEF todo
    <3> QED
      BY <1>1, <1>6, <3>1, <3>2, SyncGoesOn
  <2> QED
    BY <2>1, <2>2 DEF SyncShow
<1>11. StoreHeld' /\ QueueFits'
  BY <1>1, <1>6, StoreHeldOn, QueueStays DEF NamingInv
<1> QED
  BY <1>7, <1>9, <1>10, <1>11 DEF NamingInv

LEMMA SyncCommitKeeps ==
    ASSUME NamingInv, SyncCommit
    PROVE  NamingInv'
<1> DEFINE p == job.i
           b == job.mine[p].bubble
           x == Delivery(p, b, {"pending", "delivering"}, "delivered")
           ps == [proposals EXCEPT ![p] = x]
<1>1. /\ job.kind = "sync" /\ job.at = "commit" /\ NextCard(p)
      /\ Dismiss(ps, {b}) \/ (Store(ps) /\ UNCHANGED root)
      /\ UNCHANGED <<named, queue, refused, Elsewhere>>
  BY DEF SyncCommit, InJob
<1>2. p \in Asks /\ b \in MaybeBubble
  <2>1. job \in JobRecords /\ CopiesFollow /\ p \in Asks
    BY <1>1 DEF NamingInv, JobFits, SyncKnowsItsPlace
  <2>2. Sound(p, job.mine[p], granted)
    BY <2>1 DEF CopiesFollow
  <2> QED
    BY <2>1, <2>2, FieldsHeld
<1>3. Moves(p, proposals[p], x, granted)
  BY <1>2, DeliveryHeld DEF NamingInv
<1> HIDE DEF x
<1>4. ASSUME NEW r \in Asks PROVE Moves(r, proposals[r], ps[r], granted)
  <2>1. ps[r] = IF r = p THEN x ELSE proposals[r]
    BY DEF NamingInv, StoreHeld
  <2>2. Moves(r, proposals[r], proposals[r], granted)
    BY StaysHeld DEF NamingInv, StoreHeld
  <2> HIDE DEF ps
  <2> QED
    BY <1>3, <2>1, <2>2
<1>5. ps \in [Asks -> Proposal]
  BY <1>3 DEF NamingInv, StoreHeld, Moves, Sound
<1> HIDE DEF ps
<1>6. StoreMoves /\ root' \subseteq root
  BY <1>1, <1>4, <1>5, DismissMoves, StoreTaken DEF NamingInv
<1> QED
  BY <1>1, <1>6, NextCardKeeps DEF NamingInv, Aside, OthersTyped

----------------------------------------------------------------------------
(* The companion's turn.                                                   *)

LEMMA NamesAreFinite ==
    ASSUME NEW S \in SUBSET VoiceNames
    PROVE  IsFiniteSet(S) /\ (Cardinality(S) = 1 => \A x, y \in S : x = y)
<1>1. IsFiniteSet(S)
  BY NamingAssumption, FS_Subset
<1> QED
  BY <1>1, FS_Singleton

LEMMA NoOptions == {} \subseteq VoiceNames /\ Cardinality({}) # 1
BY FS_EmptySet

LEMMA EventsTyped ==
    ASSUME NamingInv, Happens \/ UNCHANGED namingEvents
    PROVE  namingEvents' \in 0 .. MaxNamingEvents
BY NamingAssumption DEF NamingInv, OthersTyped, Happens

LEMMA CoreKeeps ==
    ASSUME NamingInv, CoreStays, StoreMoves, Happens \/ UNCHANGED namingEvents,
           options' \subseteq VoiceNames, Cardinality(options') # 1,
           \/ UNCHANGED core \/ core' = NoInsert
           \/ \E name \in VoiceNames, source \in {"request", "inferred"} : ToInsert(name, source)
    PROVE  NamingInv'
<1>1. /\ core' \in [busy : BOOLEAN, name : MaybeName, source : {"request", "inferred"}]
      /\ core'.busy => core'.name \in VoiceNames
  <2>1. NoName \in MaybeName /\ VoiceNames \subseteq MaybeName
    BY DEF MaybeName
  <2>2. CASE UNCHANGED core
    BY <2>2 DEF NamingInv, OthersTyped
  <2>3. CASE core' = NoInsert
    BY <2>1, <2>3 DEF NoInsert
  <2>4. ASSUME NEW name \in VoiceNames, NEW source \in {"request", "inferred"}, ToInsert(name, source)
        PROVE  /\ core' \in [busy : BOOLEAN, name : MaybeName, source : {"request", "inferred"}]
               /\ core'.busy => core'.name \in VoiceNames
    BY <2>1, <2>4 DEF ToInsert
  <2> QED
    BY <2>2, <2>3, <2>4
<1>2. namingEvents' \in 0 .. MaxNamingEvents
  BY EventsTyped
<1>3. OthersTyped'
  BY <1>1, <1>2 DEF NamingInv, OthersTyped, CoreStays
<1>4. granted' = granted /\ UNCHANGED <<queue, job, root>>
  BY DEF CoreStays
<1>5. StoreHeld' /\ QueueFits' /\ JobFits' /\ CardsShow'
  BY <1>4, StoreHeldOn, QueueStays, JobStays, CardsOn DEF NamingInv
<1> QED
  BY <1>3, <1>5 DEF NamingInv

LEMMA ConflictedMoves ==
    ASSUME NamingInv, NEW ps, \A p \in ps : Inferred(p, "proposed"), Store(Conflicted(ps))
    PROVE  StoreMoves
<1>1. ASSUME NEW p \in Asks PROVE Moves(p, proposals[p], Conflicted(ps)[p], granted)
  <2>1. Sound(p, proposals[p], granted)
    BY DEF NamingInv, StoreHeld
  <2>2. Conflicted(ps)[p] = IF p \in ps THEN [proposals[p] EXCEPT !.status = "conflict"] ELSE proposals[p]
    BY DEF Conflicted
  <2>3. p \in ps => proposals[p].status # "absent"
    BY DEF Inferred
  <2>4. p \in ps => Moves(p, proposals[p], [proposals[p] EXCEPT !.status = "conflict"], granted)
    BY <2>1, <2>3, EndedHeld
  <2> QED
    BY <2>1, <2>2, <2>4, StaysHeld
<1> QED
  BY <1>1, StoreTaken DEF NamingInv

LEMMA SuggestionMoves ==
    ASSUME NamingInv, NEW p \in Fresh, NEW name \in VoiceNames, NEW source \in {"request", "inferred"}
    PROVE  Moves(p, proposals[p], Suggestion(name, source, named), granted)
<1> DEFINE r == Suggestion(name, source, named)
<1>1. p \in Asks /\ proposals[p].status = "absent"
  BY DEF Fresh
<1>2. Sound(p, proposals[p], granted)
  BY <1>1 DEF NamingInv, StoreHeld
<1>3. proposals[p].version = 0
  BY <1>1, <1>2, FieldsHeld
<1>4. name \in MaybeName /\ named \in MaybeName /\ NoName \in MaybeName /\ NoBubble \in MaybeBubble
  BY DEF MaybeName, MaybeBubble, NamingInv, OthersTyped
<1>5. 1 \in 0 .. MaxNameVersions
  BY NamingAssumption
<1>6. NoProposal \in Proposal
  BY NamingAssumption DEF NoProposal, Proposal, NamingStatuses, Cards
<1>7. r \in Proposal
  BY <1>4, <1>5, <1>6 DEF Suggestion, Proposal, NamingStatuses, MaybeName
<1>8. r.version = 1 /\ r.status = "proposed" /\ r.name = name /\ r.bubble = NoBubble /\ NoBubble.kind = "none"
  <2>1. NoProposal.bubble = NoBubble /\ NoBubble.kind = "none"
    BY DEF NoProposal, NoBubble
  <2> QED
    BY <1>6, <2>1 DEF Suggestion, Proposal
<1> HIDE DEF r
<1>9. Sound(p, r, granted)
  BY <1>7, <1>8 DEF Sound
<1>10. Follows(proposals[p], r)
  BY <1>3, <1>8 DEF Follows
<1> QED
  BY <1>9, <1>10 DEF Moves, r

LEMMA AskedByUserKeeps ==
    ASSUME NamingInv, Happens, NEW name \in VoiceNames, AskedByUser(name)
    PROVE  NamingInv'
<1>1. options' = {} /\ ToInsert(name, "request") /\ UNCHANGED proposals /\ CoreStays
  BY DEF AskedByUser
<1> QED
  BY <1>1, StoreStays, NoOptions, CoreKeeps DEF NamingInv

LEMMA InferredTwoKeeps ==
    ASSUME NamingInv, Happens, NEW names \in SUBSET VoiceNames, InferredTwo(names)
    PROVE  NamingInv'
<1> DEFINE open == {p \in Asks : Inferred(p, "proposed")}
           asked == {proposals[p].name : p \in open}
<1>1. /\ Cardinality(names) = 2 /\ options' = options \cup names \cup asked
      /\ Store(Conflicted(open)) /\ UNCHANGED core /\ CoreStays
  BY DEF InferredTwo
<1>2. StoreMoves
  BY <1>1, ConflictedMoves
<1>3. asked \subseteq VoiceNames
  <2>1. ASSUME NEW p \in open PROVE proposals[p].name \in VoiceNames
    <3>1. p \in Asks /\ proposals[p].status = "proposed"
      BY DEF Inferred
    <3>2. Sound(p, proposals[p], granted)
      BY <3>1 DEF NamingInv, StoreHeld
    <3> QED
      BY <3>1, <3>2 DEF Sound
  <2> QED
    BY <2>1
<1> HIDE DEF open, asked
<1>4. options' \subseteq VoiceNames /\ names \subseteq options'
  BY <1>1, <1>3 DEF NamingInv, OthersTyped
<1>5. Cardinality(options') # 1
  <2>1. SUFFICES ASSUME Cardinality(options') = 1 PROVE FALSE
    OBVIOUS
  <2>2. \A x, y \in names : x = y
    BY <1>4, <2>1, NamesAreFinite
  <2>3. CASE names = {}
    <3>1. Cardinality(names) = 0
      BY <2>3, FS_EmptySet
    <3> QED
      BY <1>1, <3>1
  <2>4. CASE names # {}
    <3>1. PICK x \in names : TRUE
      BY <2>4
    <3>2. names = {x}
      BY <2>2, <3>1
    <3>3. Cardinality(names) = 1
      BY <3>2, FS_Singleton
    <3> QED
      BY <1>1, <3>3
  <2> QED
    BY <2>3, <2>4
<1> QED
  BY <1>1, <1>2, <1>4, <1>5, CoreKeeps

LEMMA InferredOneKeeps ==
    ASSUME NamingInv, Happens, NEW name \in VoiceNames, InferredOne(name)
    PROVE  NamingInv'
<1> DEFINE rival == {p \in Asks : Inferred(p, "proposed") /\ proposals[p].name # name}
           newest == {p \in rival : \A r \in rival : r <= p}
           asked == {proposals[p].name : p \in newest}
<1>1. CoreStays
  BY DEF InferredOne
<1>2. CASE /\ rival # {} /\ Store(Conflicted(newest)) /\ UNCHANGED core
           /\ options' = {name} \cup asked
  <2>1. \A p \in newest : Inferred(p, "proposed")
    OBVIOUS
  <2>2. StoreMoves
    BY <1>2, <2>1, ConflictedMoves
  <2>3. ASSUME NEW p \in newest PROVE proposals[p].name \in VoiceNames /\ proposals[p].name # name
    <3>1. p \in Asks /\ proposals[p].status = "proposed"
      BY DEF Inferred
    <3>2. Sound(p, proposals[p], granted)
      BY <3>1 DEF NamingInv, StoreHeld
    <3> QED
      BY <3>1, <3>2 DEF Sound
  <2>4. newest # {}
    <3>1. rival \in SUBSET Asks
      OBVIOUS
    <3> HIDE DEF rival
    <3>2. \E p \in rival : \A r \in rival : r <= p
      BY <1>2, <3>1, OneIsNewest
    <3> QED
      BY <3>2
  <2>5. PICK p \in newest : TRUE
    BY <2>4
  <2>6. asked \subseteq VoiceNames /\ proposals[p].name \in asked /\ proposals[p].name # name
    BY <2>3
  <2> HIDE DEF asked, newest, rival
  <2>7. options' \subseteq VoiceNames /\ name \in options' /\ proposals[p].name \in options'
    BY <1>2, <2>6
  <2>8. Cardinality(options') # 1
    BY <2>6, <2>7, NamesAreFinite
  <2> QED
    BY <1>1, <1>2, <2>2, <2>7, <2>8, CoreKeeps
<1>3. CASE ToInsert(name, "inferred") /\ UNCHANGED <<options, proposals>>
  BY <1>1, <1>3, StoreStays, CoreKeeps DEF NamingInv, OthersTyped
<1> QED
  BY <1>2, <1>3 DEF InferredOne

LEMMA ForgetRegisteredKeeps ==
    ASSUME NamingInv, UNCHANGED namingEvents, ForgetRegistered
    PROVE  NamingInv'
<1>1. options' = {} /\ UNCHANGED <<proposals, core>> /\ CoreStays
  BY DEF ForgetRegistered
<1> QED
  BY <1>1, StoreStays, NoOptions, CoreKeeps DEF NamingInv

LEMMA ResolveKeeps ==
    ASSUME NamingInv, Happens, NEW name \in VoiceNames, Resolve(name)
    PROVE  NamingInv'
<1>1. options' = {} /\ UNCHANGED core /\ CoreStays
  BY DEF Resolve
<1>2. CASE UNCHANGED proposals
  BY <1>1, <1>2, StoreStays, NoOptions, CoreKeeps DEF NamingInv
<1>3. ASSUME NEW p \in Fresh, named = NoName,
             Store([proposals EXCEPT ![p] = Suggestion(name, "inferred", NoName)])
      PROVE  NamingInv'
  <2>1. Moves(p, proposals[p], Suggestion(name, "inferred", NoName), granted)
    BY <1>3, SuggestionMoves
  <2>2. StoreMoves
    BY <1>3, <2>1, StoreOne DEF NamingInv
  <2> QED
    BY <1>1, <2>2, NoOptions, CoreKeeps
<1> QED
  BY <1>2, <1>3 DEF Resolve

LEMMA InsertKeeps ==
    ASSUME NamingInv, UNCHANGED namingEvents, NEW again \in BOOLEAN, Insert(again)
    PROVE  NamingInv'
<1> DEFINE name == core.name
           turned == {p \in Asks : /\ proposals[p].source = "inferred" /\ proposals[p].candidate = name
                                   /\ proposals[p].status = "rejected" /\ proposals[p].suppressed}
           rivals == {p \in Asks : proposals[p].source = "inferred" /\ proposals[p].name # name}
           stopped == {p \in rivals : proposals[p].status = "proposed"}
           heard == [p \in Asks |-> IF p \in turned THEN [proposals[p] EXCEPT !.suppressed = FALSE]
                                    ELSE proposals[p]]
<1>1. core.busy /\ core' = NoInsert /\ UNCHANGED options /\ CoreStays
  BY DEF Insert
<1>2. name \in VoiceNames /\ core.source \in {"request", "inferred"}
  BY <1>1 DEF NamingInv, OthersTyped
<1>3. options' \subseteq VoiceNames /\ Cardinality(options') # 1
  BY <1>1 DEF NamingInv, OthersTyped
<1>4. ASSUME NEW p \in Asks PROVE Moves(p, proposals[p], heard[p], granted)
  <2> DEFINE q == proposals[p]
             r == [q EXCEPT !.suppressed = FALSE]
  <2>1. Sound(p, q, granted)
    BY DEF NamingInv, StoreHeld
  <2>2. q \in Proposal
    BY <2>1 DEF Sound
  <2>3. /\ r \in Proposal /\ r.version = q.version /\ r.name = q.name /\ r.status = q.status
        /\ r.bubble = q.bubble /\ r.card = q.card
    BY <2>2 DEF Proposal
  <2>4. heard[p] = r \/ heard[p] = q
    OBVIOUS
  <2> HIDE DEF r, heard, q
  <2>5. /\ q.status = "applied" /\ q.card \in {"pending", "delivering", "delivered"} => q.bubble \in Bubbles
        /\ q.status = "applying" => q.name \in granted
    BY <2>1 DEF Sound
  <2>6. Moves(p, q, r, granted)
    BY <2>1, <2>3, <2>5, MovesByFields
  <2> QED
    BY <2>1, <2>4, <2>6, StaysHeld DEF q
<1>5. CASE UNCHANGED proposals
  BY <1>1, <1>3, <1>5, StoreStays, CoreKeeps DEF NamingInv
<1>6. CASE Store(Conflicted(stopped)) /\ core.source = "inferred"
  <2>1. \A p \in stopped : Inferred(p, "proposed")
    BY DEF Inferred
  <2>2. StoreMoves
    BY <1>6, <2>1, ConflictedMoves
  <2> QED
    BY <1>1, <1>3, <2>2, CoreKeeps
<1>7. CASE Store(heard)
  <2>1. StoreMoves
    <3> HIDE DEF heard
    <3> QED
      BY <1>4, <1>7, StoreTaken DEF NamingInv
  <2> QED
    BY <1>1, <1>3, <2>1, CoreKeeps
<1>8. ASSUME NEW p \in Fresh, Store([heard EXCEPT ![p] = Suggestion(name, core.source, named)])
      PROVE  NamingInv'
  <2> DEFINE x == Suggestion(name, core.source, named)
             ps == [heard EXCEPT ![p] = x]
  <2>1. Moves(p, proposals[p], x, granted)
    BY <1>2, SuggestionMoves
  <2>2. Store(ps)
    BY <1>8
  <2>3. ASSUME NEW r \in Asks PROVE ps[r] = IF r = p THEN x ELSE heard[r]
    OBVIOUS
  <2> HIDE DEF x, ps, heard
  <2>4. \A r \in Asks : Moves(r, proposals[r], ps[r], granted)
    BY <1>4, <2>1, <2>3
  <2>5. StoreMoves
    BY <2>2, <2>4, StoreTaken DEF NamingInv
  <2> QED
    BY <1>1, <1>3, <2>5, CoreKeeps
<1> QED
  BY <1>5, <1>6, <1>7, <1>8 DEF Insert

LEMMA CoreTurnKeeps ==
    ASSUME NamingInv, CoreTurn
    PROVE  NamingInv'
BY AskedByUserKeeps, InferredTwoKeeps, InferredOneKeeps, ForgetRegisteredKeeps, ResolveKeeps, InsertKeeps
   DEF CoreTurn

----------------------------------------------------------------------------
(* The user, the world and faults.                                         *)

LEMMA RequestKeeps ==
    ASSUME NamingInv, Outside, World' = World, Happens \/ UNCHANGED namingEvents,
           granted \subseteq granted', granted' \subseteq VoiceNames,
           NEW r, queue' = Append(queue, r), Fits(r, proposals, granted')
    PROVE  NamingInv'
<1>1. StoreMoves /\ UNCHANGED <<proposals, options, named, core, root, job, shown, refused>>
  BY StoreStays DEF Outside, NamingInv
<1>2. StoreHeld' /\ CardsShow' /\ JobFits'
  BY <1>1, StoreHeldOn, CardsOn, JobStays DEF NamingInv
<1>3. r \in CardJob /\ queue \in Seq(CardJob)
  BY DEF Fits, NamingInv, QueueFits
<1>4. queue' \in Seq(CardJob)
  BY <1>3
<1>5. ASSUME NEW n \in 1 .. Len(queue')
      PROVE  \/ \E m \in 1 .. Len(queue) : queue'[n] = queue[m]
             \/ Fits(queue'[n], proposals', granted')
  <2>1. CASE n = Len(queue) + 1
    <3>1. queue'[n] = r
      BY <1>3, <2>1
    <3> QED
      BY <1>1, <3>1
  <2>2. CASE n # Len(queue) + 1
    <3>1. n \in 1 .. Len(queue) /\ queue'[n] = queue[n]
      BY <1>3, <2>2
    <3> QED
      BY <3>1
  <2> QED
    BY <2>1, <2>2
<1>6. QueueFits'
  BY <1>1, <1>4, <1>5, QueueOn DEF NamingInv
<1>7. OthersTyped'
  <2>1. namingEvents' \in 0 .. MaxNamingEvents
    BY EventsTyped
  <2> QED
    BY <1>1, <2>1 DEF NamingInv, OthersTyped, World
<1> QED
  BY <1>2, <1>6, <1>7 DEF NamingInv

LEMMA ClickKeeps ==
    ASSUME NamingInv, NEW c \in root, NEW kind \in JobKinds, NEW name \in VoiceNames \cup {NoName},
           Click(c, kind, name)
    PROVE  NamingInv'
<1> DEFINE r == CardRequest(kind, c.id, name)
<1>1. /\ Happens /\ queue' = Append(queue, r) /\ World' = World /\ Outside
      /\ granted' = IF kind = "register" THEN granted \cup {c.name} ELSE granted
      /\ IF c.id.kind = "confirm" THEN kind \in {"register", "edit", "submit", "reject", "close"}
         ELSE kind \in {"undo", "close"}
      /\ (name = NoName) <=> (kind # "submit")
  BY DEF Click, Acts
<1>2. Shows(c, proposals)
  BY DEF NamingInv, CardsShow
<1>3. c.id \in Bubbles /\ c.name \in VoiceNames
  BY <1>2 DEF Shows
<1>4. granted \subseteq granted' /\ granted' \subseteq VoiceNames
  BY <1>1, <1>3 DEF NamingInv, OthersTyped
<1>5. Fits(r, proposals, granted')
  <2>1. r \in CardJob /\ r.kind = kind /\ r.bubble = c.id /\ r.name = name
    BY <1>3 DEF CardRequest, CardJob
  <2>2. kind # "rename" /\ (kind = "submit" => name \in VoiceNames)
    BY <1>1
  <2>3. kind = "register" => c.id.kind = "confirm" /\ c.name \in granted'
    BY <1>1
  <2> HIDE DEF r
  <2> QED
    BY <1>2, <1>3, <2>1, <2>2, <2>3 DEF Fits, Shows
<1> HIDE DEF r
<1> QED
  BY <1>1, <1>4, <1>5, RequestKeeps

LEMMA AskRenameKeeps ==
    ASSUME NamingInv, NEW name \in VoiceNames \cup {NoName}, AskRename(name)
    PROVE  NamingInv'
<1> DEFINE r == CardRequest("rename", NoBubble, name)
<1>1. /\ Happens /\ queue' = Append(queue, r) /\ World' = World /\ Outside
      /\ granted' = granted \cup ({name} \ {NoName})
  BY DEF AskRename, Acts
<1>2. granted \subseteq granted' /\ granted' \subseteq VoiceNames /\ name \in granted' \cup {NoName}
  BY <1>1 DEF NamingInv, OthersTyped
<1>3. Fits(r, proposals, granted')
  <2>1. r \in CardJob /\ r.kind = "rename" /\ r.name = name
    BY DEF CardRequest, CardJob, JobKinds
  <2> HIDE DEF r
  <2> QED
    BY <1>2, <2>1 DEF Fits, Clicks
<1> HIDE DEF r
<1> QED
  BY <1>1, <1>2, <1>3, RequestKeeps

LEMMA AskSyncKeeps ==
    ASSUME NamingInv, AskSync
    PROVE  NamingInv'
<1> DEFINE r == CardRequest("sync", NoBubble, NoName)
<1>1. queue' = Append(queue, r) /\ UNCHANGED <<World, granted, namingEvents>> /\ Outside
  BY DEF AskSync
<1>2. granted \subseteq granted' /\ granted' \subseteq VoiceNames
  BY <1>1 DEF NamingInv, OthersTyped
<1>3. Fits(r, proposals, granted')
  <2>1. r \in CardJob /\ r.kind = "sync"
    BY DEF CardRequest, CardJob, JobKinds
  <2> HIDE DEF r
  <2> QED
    BY <2>1 DEF Fits, Clicks
<1> HIDE DEF r
<1> QED
  BY <1>1, <1>2, <1>3, RequestKeeps

LEMMA DriftKeeps ==
    ASSUME NamingInv, Drift
    PROVE  NamingInv'
<1>1. UNCHANGED <<proposals, options, named, core, root, job, shown, refused, queue, granted>> /\ Happens
  BY DEF Drift, Outside
<1>2. StoreMoves
  BY <1>1, StoreStays DEF NamingInv
<1>3. StoreHeld' /\ QueueFits' /\ JobFits' /\ CardsShow'
  BY <1>1, <1>2, StoreHeldOn, QueueStays, JobStays, CardsOn DEF NamingInv
<1>4. /\ registry' \in {"has", "lacks", "none"}
      /\ evidence' \in [Asks -> {"sound", "unsourced", "lost"}] /\ late' \in [Asks -> BOOLEAN]
  <2>1. /\ registry \in {"has", "lacks", "none"}
        /\ evidence \in [Asks -> {"sound", "unsourced", "lost"}] /\ late \in [Asks -> BOOLEAN]
    BY DEF NamingInv, OthersTyped
  <2>2. CASE \E p \in Stored : late' = [late EXCEPT ![p] = TRUE] /\ UNCHANGED <<registry, evidence>>
    BY <2>1, <2>2
  <2>3. CASE \E p \in Stored, e \in {"unsourced", "lost"} :
                evidence' = [evidence EXCEPT ![p] = e] /\ UNCHANGED <<registry, late>>
    BY <2>1, <2>3
  <2>4. CASE \E r \in {"lacks", "none"} : registry' = r /\ UNCHANGED <<evidence, late>>
    BY <2>1, <2>4
  <2> QED
    BY <2>2, <2>3, <2>4 DEF Drift
<1>5. namingEvents' \in 0 .. MaxNamingEvents
  BY <1>1, EventsTyped
<1>6. OthersTyped'
  BY <1>1, <1>4, <1>5 DEF NamingInv, OthersTyped
<1> QED
  BY <1>3, <1>6 DEF NamingInv

LEMMA StepFailsKeeps ==
    ASSUME NamingInv, StepFails
    PROVE  NamingInv'
<1>1. /\ Fail /\ Happens /\ root' \subseteq root
      /\ UNCHANGED <<proposals, named, refused, options, core, World, History>>
  BY DEF StepFails, WithoutCards
<1>2. StoreMoves /\ granted' = granted
  BY <1>1, StoreStays DEF NamingInv, History
<1>3. StoreHeld' /\ QueueFits' /\ JobFits' /\ CardsShow'
  BY <1>1, <1>2, StoreHeldOn, FailingKeeps, CardsOn DEF NamingInv
<1>4. namingEvents' \in 0 .. MaxNamingEvents
  BY <1>1, EventsTyped
<1>5. OthersTyped'
  BY <1>1, <1>4 DEF NamingInv, OthersTyped, World, History
<1> QED
  BY <1>3, <1>5 DEF NamingInv

LEMMA NamingCrashKeeps ==
    ASSUME NamingInv, NamingCrash
    PROVE  NamingInv'
<1>1. /\ Happens /\ root' = {} /\ queue' = <<>> /\ job' = NoCardJob /\ core' = NoInsert
      /\ UNCHANGED <<proposals, options, named, refused, World, History>>
  BY DEF NamingCrash
<1>2. StoreMoves /\ granted' = granted
  BY <1>1, StoreStays DEF NamingInv, History
<1>3. StoreHeld' /\ CardsShow'
  BY <1>1, <1>2, StoreHeldOn, CardsOn DEF NamingInv
<1>4. JobFits'
  BY <1>1, <1>3, NoJobFits
<1>5. QueueFits'
  BY <1>1 DEF QueueFits
<1>6. namingEvents' \in 0 .. MaxNamingEvents
  BY <1>1, EventsTyped
<1>7. core' \in [busy : BOOLEAN, name : MaybeName, source : {"request", "inferred"}] /\ ~core'.busy
  BY <1>1 DEF NoInsert, MaybeName
<1>8. OthersTyped'
  BY <1>1, <1>6, <1>7 DEF NamingInv, OthersTyped, World, History
<1> QED
  BY <1>3, <1>4, <1>5, <1>8 DEF NamingInv

----------------------------------------------------------------------------

LEMMA NamingInitInv == ASSUME NamingInit PROVE NamingInv
<1>1. NoProposal \in Proposal
  BY NamingAssumption DEF NoProposal, Proposal, NamingStatuses, Cards
<1>2. /\ NoProposal.version = 0 /\ NoProposal.status = "absent" /\ NoProposal.name = NoName
      /\ NoProposal.bubble = NoBubble /\ NoBubble.kind = "none"
  BY DEF NoProposal, NoBubble
<1>3. StoreHeld
  <2>1. \A p : Sound(p, NoProposal, granted)
    BY <1>1, <1>2 DEF Sound
  <2> QED
    BY <1>1, <2>1 DEF NamingInit, NoMemo, StoreHeld
<1>4. QueueFits /\ CardsShow
  BY DEF NamingInit, QueueFits, CardsShow
<1>5. NoMemo \in [Asks -> Proposal] /\ 0 \in 0 .. MaxProposals
  BY <1>1, NamingAssumption DEF NoMemo
<1>6. job = NoCardJob
  BY DEF NamingInit
<1>7. job \in JobRecords
  <2>1. NoBubble \in MaybeBubble /\ NoName \in MaybeName
    BY DEF MaybeBubble, MaybeName
  <2> QED
    BY <1>5, <1>6, <2>1 DEF NoCardJob, JobRecords, JobSteps
<1>8. /\ job.kind = "idle" /\ job.mine = NoMemo /\ job.old = NoMemo
  BY <1>6 DEF NoCardJob
<1>9. JobFits
  BY <1>3, <1>7, <1>8, NoMemoFollows DEF JobFits, CopiesFollow, ClickHasItsCopy, SyncKnowsItsPlace, Clicks
<1>10. core \in [busy : BOOLEAN, name : MaybeName, source : {"request", "inferred"}] /\ ~core.busy
  BY DEF NamingInit, NoInsert, MaybeName
<1>11. OthersTyped
  <2>1. /\ options = {} /\ named = NoName /\ granted = {} /\ registry = "has" /\ refused = FALSE
        /\ evidence \in [Asks -> {"sound", "unsourced", "lost"}] /\ late \in [Asks -> BOOLEAN]
        /\ shown \in [Asks -> 0 .. 2]
    BY DEF NamingInit
  <2>2. namingEvents \in 0 .. MaxNamingEvents
    BY NamingAssumption DEF NamingInit
  <2> QED
    BY <1>10, <2>1, <2>2, NoOptions DEF OthersTyped, MaybeName
<1> QED
  BY <1>3, <1>4, <1>9, <1>11 DEF NamingInv

LEMMA NamingNextInv == ASSUME NamingInv, [NamingNext]_namingVars PROVE NamingInv'
<1>1. CASE CoreTurn
  BY <1>1, CoreTurnKeeps
<1>2. CASE TakeJob
  BY <1>2, TakeJobKeeps
<1>3. CASE ClickStep
  BY <1>3, ClickLoadKeeps, EditKeeps, EditSubmitKeeps, RejectKeeps, RegisterBeginKeeps,
     RegisterSaveKeeps, RegisterFinishKeeps, UndoBeginKeeps DEF ClickStep
<1>4. CASE OtherStep
  BY <1>4, CloseMarkKeeps, DismissCardKeeps, RecoverCardKeeps, RenameKeeps DEF OtherStep
<1>5. CASE SyncStep
  BY <1>5, SyncLoadKeeps, SyncWithoutRegistryKeeps, SyncScanKeeps, SyncWriteKeeps, ResultRecordKeeps,
     SyncObsoleteKeeps, SyncDeliverKeeps, SyncShowKeeps, SyncCommitKeeps, SyncEndKeeps DEF SyncStep
<1>6. CASE \E c \in root, kind \in JobKinds, name \in VoiceNames \cup {NoName} : Click(c, kind, name)
  BY <1>6, ClickKeeps
<1>7. CASE \E name \in VoiceNames \cup {NoName} : AskRename(name)
  BY <1>7, AskRenameKeeps
<1>8. CASE AskSync \/ Drift \/ StepFails \/ NamingCrash
  BY <1>8, AskSyncKeeps, DriftKeeps, StepFailsKeeps, NamingCrashKeeps
<1>9. CASE UNCHANGED namingVars
  <2>1. UNCHANGED namingVars
    BY <1>9
  <2>2. StoreMoves /\ UNCHANGED <<root, queue, job, granted>>
    BY <2>1, StoreStays DEF NamingInv, namingVars
  <2>3. StoreHeld' /\ QueueFits' /\ JobFits' /\ CardsShow'
    BY <2>2, StoreHeldOn, QueueStays, JobStays, CardsOn DEF NamingInv
  <2>4. OthersTyped'
    BY <2>1 DEF NamingInv, OthersTyped, namingVars
  <2> QED
    BY <2>3, <2>4 DEF NamingInv
<1> QED
  BY <1>1, <1>2, <1>3, <1>4, <1>5, <1>6, <1>7, <1>8, <1>9 DEF NamingNext

LEMMA NamingInvTyped == ASSUME NamingInv PROVE NamingTypeOK
<1>1. root \subseteq [id : Bubbles, name : VoiceNames]
  BY DEF NamingInv, CardsShow, Shows
<1>2. /\ job.kind \in JobKinds \cup {"idle"} /\ job.i \in 0 .. MaxProposals
      /\ job.old \in [Asks -> Proposal] /\ job.mine \in [Asks -> Proposal] /\ job.todo \subseteq Asks
  BY DEF NamingInv, JobFits, JobRecords
<1> QED
  BY <1>1, <1>2 DEF NamingTypeOK, NamingInv, StoreHeld, QueueFits, OthersTyped, MaybeName

LEMMA NamingAlways == NamingSpec => []NamingInv
BY NamingInitInv, NamingNextInv, PTL DEF NamingSpec

\* The files of the proposals and names, the queue of the desktop, its job and
\* the cards are what commands_speaker.rs and speaker_name_proposals.rs take them
\* for, and a pending conflict is never of one name.
THEOREM NamingTyped == NamingSpec => []NamingTypeOK
BY NamingInvTyped, NamingAlways, PTL

\* A voice only ever carries a name that the user confirmed, on the card that
\* showed it, or typed: whatever is proposed, edited, recovered, refreshed, lost
\* with the program or left to another job meanwhile.
THEOREM NamesAreGranted == NamingSpec => []OnlyGrantedNames
<1>1. NamingInv => OnlyGrantedNames
  BY DEF NamingInv, OthersTyped, OnlyGrantedNames
<1> QED
  BY <1>1, NamingAlways, PTL

----------------------------------------------------------------------------
(* The cards.                                                              *)

\* A card in view, or one that a click was made on, whose job is still to come.
OnCards == Clicks \cup {"close"}
Seen(b) ==
    \/ \E c \in root : c.id = b
    \/ \E n \in 1 .. Len(queue) : queue[n].kind \in OnCards /\ queue[n].bubble = b
    \/ job.kind \in OnCards /\ job.bubble = b

\* Before its registration is noted, a proposal has no result to show.
Unapplied == {"absent", "proposed", "applying"}
Unshown(q) == q.status \in Unapplied \/ (q.status = "applied" /\ q.card = "pending")

\* The card of a proposal, and of every copy of it, is its own, and asks or shows
\* a result as its status has it.
Bears(p, q) ==
    /\ q.bubble # NoBubble => q.bubble.of = p
    /\ q.status \in {"proposed", "applying"} => q.bubble.kind # "result"
    /\ q.status = "applied" => q.operation
AllBear == \A p \in Asks : Bears(p, proposals[p])

\* A card in view is the one of its proposal, or the one it will take away.
CardsHeld ==
    \A c \in root : late[c.id.of] \/ c.id \in {proposals[c.id.of].bubble, proposals[c.id.of].dismissal}

\* A card seen is of no later version, a result only once it is there; and while
\* it is still the card of its proposal it is the only one of it in view.
SeenRight(b) ==
    /\ b \in Bubbles
    /\ b.kind = "confirm" => b.version <= proposals[b.of].version
    /\ b.kind = "result" => proposals[b.of].status \notin Unapplied
    /\ b = proposals[b.of].bubble /\ ~late[b.of] => \A c \in root : c.id.of = b.of => c.id = b
AllSeenRight == \A b \in MaybeBubble : Seen(b) => SeenRight(b)

ShownOnce == \A p \in Asks : shown[p] <= 1 /\ (Unshown(proposals[p]) => shown[p] = 0)

CardsStand == AllBear /\ CardsHeld /\ AllSeenRight /\ ShownOnce

\* The job at hand.  A click works on the card it was made on, ...
CopiesBear == job.kind # "idle" => \A p \in Asks : Bears(p, job.mine[p]) /\ Bears(p, job.old[p])
ClickStands ==
    job.kind \in Clicks /\ job.at # "load" =>
        /\ Found.bubble = job.bubble /\ proposals[Clicked].bubble = job.bubble
        /\ job.at = "begin" /\ proposals[Clicked].status = "applied" => Found.status = "applied"
        /\ job.at \in {"save", "finish"} => proposals[Clicked].status # "applied"

\* ... and a sync knows every card in view from the proposals it read, and what it
\* makes of them leaves none of these behind.
Reading == job.kind = "sync" /\ job.at \in {"scan", "write", "record"}
SyncReads ==
    job.kind = "sync" /\ job.at \in {"scan", "write", "record", "obsolete"} =>
        \A c \in root : late[c.id.of] \/ c.id = job.old[c.id.of].bubble
KeepsCard(p, q, o) ==
    /\ o.dismissal = NoBubble
    /\ q.status \in Unapplied => o.status = q.status
    /\ q.status = "applying" => q.bubble = o.bubble
    /\ q.status = "applied" => o.status \in {"applying", "applied"}
    /\ Unshown(q) => shown[p] = 0
    /\ \/ late[p]
       \/ /\ q.dismissal \in {NoBubble, o.bubble}
          /\ q.bubble \in {NoBubble, o.bubble} \/ o.bubble = NoBubble \/ ~Seen(q.bubble)
          /\ q.status = "applied" => o.bubble \in {NoBubble, q.bubble, q.dismissal}
NoResultOf(p) == \A b \in MaybeBubble : b.kind = "result" /\ b.of = p => ~Seen(b)
CopiesKeep ==
    Reading => \A p \in Asks :
        /\ KeepsCard(p, job.mine[p], job.old[p])
        /\ job.at = "scan" /\ job.mine[p].status \in Unapplied => NoResultOf(p)

\* What was being registered, or was, as it read the proposals still is.
RegisteredStay(p) ==
    /\ job.at # "record" /\ job.old[p].status = "applying" => proposals[p] = job.old[p]
    /\ job.at # "record" /\ job.old[p].status = "applied" => proposals[p].status = "applied"
    /\ job.at = "record" /\ job.mine[p].status = "applied" => proposals[p].status = "applied"
AllRegisteredStay == Reading => \A p \in Asks : RegisteredStay(p)
Written == {"record", "obsolete", "deliver", "show", "commit"}
TodoStands ==
    job.kind = "sync" => \A p \in job.todo :
        /\ job.mine[p].status \in {"proposed", "applied"}
        /\ job.at \in Written /\ job.mine[p].status = "proposed" => proposals[p].bubble = job.mine[p].bubble
SyncShows ==
    job.kind = "sync" /\ job.at \in {"deliver", "show", "commit"} =>
        \A c \in root : late[c.id.of] \/ c.id = job.mine[c.id.of].bubble
ShowingStands ==
    job.kind = "sync" /\ job.at = "show" =>
        LET p == job.i
        IN  /\ proposals[p].bubble = job.mine[p].bubble
            /\ job.mine[p].status \in {"proposed", "applied"}
            /\ job.mine[p].status = "applied" => ~Unshown(proposals[p]) /\ shown[p] = 0
JobStands ==
    /\ CopiesBear /\ ClickStands /\ SyncReads /\ CopiesKeep
    /\ AllRegisteredStay /\ TodoStands /\ SyncShows /\ ShowingStands

CardsInv == CardsStand /\ JobStands

----------------------------------------------------------------------------
(* What a change of the store does to the cards of one proposal.           *)

Keeps(p, r, cards) ==
    \/ late[p]
    \/ \A c \in cards : c.id.of = p => c.id \in {r.bubble, r.dismissal}
Alone(p, r, cards) ==
    \/ r.bubble \in {proposals[p].bubble, NoBubble} \/ late[p] \/ ~Seen(r.bubble)
    \/ \A c \in cards : c.id.of = p => c.id = r.bubble

\* It may become r while these cards are in view.
Stands(p, r, cards) ==
    /\ r.version \in {proposals[p].version, proposals[p].version + 1}
    /\ proposals[p].status \notin Unapplied => r.status \notin Unapplied
    /\ Bears(p, r) /\ (Unshown(r) => shown[p] = 0)
    /\ Keeps(p, r, cards) /\ Alone(p, r, cards)

LEMMA CardsApart ==
    /\ NoBubble \notin Bubbles /\ NoBubble.kind = "none"
    /\ \A b \in Bubbles : b.of \in Asks /\ b.kind \in {"confirm", "result"} /\ b.version \in Nat \ {0}
BY NamingAssumption DEF NoBubble, Bubbles

LEMMA RootTyped ==
    ASSUME NamingInv
    PROVE  \A c \in root : c.id \in Bubbles /\ c.id \in MaybeBubble /\ c.id.of \in Asks
BY CardsApart DEF NamingInv, CardsShow, Shows, MaybeBubble

LEMMA StoreTyped ==
    ASSUME NamingInv, NEW p \in Asks
    PROVE  /\ Sound(p, proposals[p], granted)
           /\ proposals[p] \in Proposal /\ proposals[p].version \in Nat
           /\ proposals[p].bubble \in MaybeBubble /\ proposals[p].dismissal \in MaybeBubble
           /\ shown[p] \in 0 .. 2
BY FieldsHeld DEF NamingInv, StoreHeld, OthersTyped

LEMMA StandingKeeps ==
    ASSUME NamingInv, NamingInv', CardsStand, \A p \in Asks : late[p] => late'[p],
           root' \subseteq root, shown' = shown, \A b \in MaybeBubble : Seen(b)' => Seen(b),
           \A p \in Asks : Stands(p, proposals'[p], root')
    PROVE  CardsStand'
<1>1. AllBear'
  BY DEF AllBear, Stands
<1>2. CardsHeld'
  <2>1. ASSUME NEW c \in root'
        PROVE  late'[c.id.of] \/ c.id \in {proposals'[c.id.of].bubble, proposals'[c.id.of].dismissal}
    <3>1. c.id.of \in Asks
      BY RootTyped
    <3>2. Keeps(c.id.of, proposals'[c.id.of], root')
      BY <3>1 DEF Stands
    <3> QED
      BY <3>1, <3>2 DEF Keeps
  <2> QED
    BY <2>1 DEF CardsHeld
<1>3. AllSeenRight'
  <2>1. ASSUME NEW b \in MaybeBubble, Seen(b)' PROVE SeenRight(b)'
    <3>1. Seen(b) /\ SeenRight(b)
      BY <2>1 DEF CardsStand, AllSeenRight
    <3>2. b \in Bubbles /\ b.of \in Asks /\ b.version \in Nat /\ b # NoBubble
      BY <3>1, CardsApart DEF SeenRight
    <3>3. Stands(b.of, proposals'[b.of], root')
      BY <3>2
    <3>4. b.kind = "confirm" => b.version <= proposals'[b.of].version
      <4>1. proposals[b.of].version \in Nat /\ proposals'[b.of].version \in {proposals[b.of].version, proposals[b.of].version + 1}
        BY <3>2, <3>3, StoreTyped DEF Stands
      <4>2. b.kind = "confirm" => b.version <= proposals[b.of].version
        BY <3>1 DEF SeenRight
      <4> QED
        BY <3>2, <4>1, <4>2
    <3>5. b.kind = "result" => proposals'[b.of].status \notin Unapplied
      BY <3>1, <3>3 DEF SeenRight, Stands
    <3>6. ASSUME b = proposals'[b.of].bubble, ~late'[b.of], NEW c \in root', c.id.of = b.of
          PROVE  c.id = b
      <4>1. ~late[b.of] /\ c \in root
        BY <3>2, <3>6
      <4>2. CASE b = proposals[b.of].bubble
        BY <3>1, <3>6, <4>1, <4>2 DEF SeenRight
      <4>3. CASE b # proposals[b.of].bubble
        <5>1. Alone(b.of, proposals'[b.of], root')
          BY <3>3 DEF Stands
        <5> QED
          BY <3>1, <3>2, <3>6, <4>1, <4>3, <5>1 DEF Alone
      <4> QED
        BY <4>2, <4>3
    <3> QED
      BY <3>2, <3>4, <3>5, <3>6 DEF SeenRight
  <2> QED
    BY <2>1 DEF AllSeenRight
<1>4. ShownOnce'
  BY DEF ShownOnce, CardsStand, Stands
<1> QED
  BY <1>1, <1>2, <1>3, <1>4 DEF CardsStand

\* Only these fields matter.
LEMMA StandsByFields ==
    ASSUME NEW p, NEW cards, NEW q, Stands(p, q, cards), NEW r,
           r.version = q.version, r.status = q.status, r.bubble = q.bubble,
           r.dismissal = q.dismissal, r.card = q.card, r.operation = q.operation
    PROVE  Stands(p, r, cards)
BY DEF Stands, Bears, Unshown, Keeps, Alone

LEMMA RedactedFields ==
    ASSUME NEW q \in Proposal
    PROVE  LET r == Redacted(q)
           IN  /\ r.version = q.version /\ r.status = q.status /\ r.bubble = q.bubble
               /\ r.dismissal = q.dismissal /\ r.card = q.card /\ r.operation = q.operation
BY DEF Redacted, Proposal

LEMMA FewerCards ==
    ASSUME NEW p, NEW r, NEW cards, NEW fewer, fewer \subseteq cards, Stands(p, r, cards)
    PROVE  Stands(p, r, fewer)
BY DEF Stands, Keeps, Alone

LEMMA StoreStands ==
    ASSUME NEW cards, NEW ps \in [Asks -> Proposal], \A p \in Asks : Stands(p, ps[p], cards), Store(ps)
    PROVE  \A p \in Asks : Stands(p, proposals'[p], cards)
<1>1. ASSUME NEW p \in Asks PROVE Stands(p, proposals'[p], cards)
  <2>1. proposals'[p] = Redacted(ps[p]) /\ ps[p] \in Proposal
    BY DEF Store
  <2> QED
    BY <2>1, RedactedFields, StandsByFields
<1> QED
  BY <1>1

\* What an update that leaves the card and the version does.
LEMMA QuietStands ==
    ASSUME NamingInv, CardsStand, NEW p \in Asks, NEW r, NEW cards,
           r.version = proposals[p].version, r.bubble \in {proposals[p].bubble, NoBubble},
           r.status \in {proposals[p].status, "rejected", "conflict", "expired"},
           r.operation = proposals[p].operation,
           Unshown(r) => Unshown(proposals[p]), Keeps(p, r, cards)
    PROVE  Stands(p, r, cards)
<1>1. Bears(p, proposals[p])
  BY DEF CardsStand, AllBear
<1>2. Bears(p, r)
  BY <1>1, CardsApart DEF Bears
<1>3. Unshown(r) => shown[p] = 0
  BY DEF CardsStand, ShownOnce
<1>4. proposals[p].status \notin Unapplied => r.status \notin Unapplied
  BY DEF Unapplied
<1> QED
  BY <1>2, <1>3, <1>4 DEF Stands, Alone

LEMMA InViewKept ==
    ASSUME NamingInv, CardsStand, NEW p
    PROVE  Keeps(p, proposals[p], root)
BY DEF CardsStand, CardsHeld, Keeps

LEMMA AsItIs ==
    ASSUME NamingInv, CardsStand, NEW p \in Asks
    PROVE  Stands(p, proposals[p], root)
BY InViewKept, QuietStands

Parting(q, ids) ==
    [q EXCEPT !.dismissal = IF @ \in ids THEN NoBubble ELSE @,
              !.bubble = IF ForgetsCard(q, ids) THEN NoBubble ELSE @]

LEMMA PartingFields ==
    ASSUME NEW q \in Proposal, NEW ids
    PROVE  /\ Parting(q, ids) \in Proposal /\ Parting(q, ids).version = q.version
           /\ Parting(q, ids).status = q.status /\ Parting(q, ids).card = q.card
           /\ Parting(q, ids).operation = q.operation /\ Parting(q, ids).name = q.name
           /\ Parting(q, ids).bubble \in {q.bubble, NoBubble}
           /\ q.bubble \notin ids => Parting(q, ids).bubble = q.bubble
           /\ Parting(q, ids).dismissal \in {q.dismissal, NoBubble}
           /\ q.dismissal \notin ids => Parting(q, ids).dismissal = q.dismissal
           /\ q.dismissal \in ids => Parting(q, ids).dismissal = NoBubble
<1> DEFINE r == Parting(q, ids)
<1>1. r \in Proposal
  BY DEF Parting, Proposal
<1>2. /\ r.version = q.version /\ r.status = q.status
      /\ r.card = q.card /\ r.operation = q.operation /\ r.name = q.name
  BY DEF Parting, Proposal
<1>3. /\ r.bubble = IF ForgetsCard(q, ids) THEN NoBubble ELSE q.bubble
      /\ r.dismissal = IF q.dismissal \in ids THEN NoBubble ELSE q.dismissal
  BY DEF Parting, Proposal
<1>4. ForgetsCard(q, ids) => q.bubble \in ids
  BY DEF ForgetsCard
<1> HIDE DEF r
<1>5. /\ r.bubble \in {q.bubble, NoBubble} /\ (q.bubble \notin ids => r.bubble = q.bubble)
      /\ r.dismissal \in {q.dismissal, NoBubble}
      /\ q.dismissal \notin ids => r.dismissal = q.dismissal
      /\ q.dismissal \in ids => r.dismissal = NoBubble
  BY <1>3, <1>4
<1> QED
  BY <1>1, <1>2, <1>5 DEF r

LEMMA DismissedIsParting ==
    ASSUME NEW ps, NEW ids
    PROVE  Dismissed(ps, ids) = [p \in Asks |-> Parting(ps[p], ids)]
BY DEF Dismissed, Parting

LEMMA PartingStands ==
    ASSUME NEW p, NEW q \in Proposal, NEW ids, Stands(p, q, root),
           NEW cards, cards \subseteq root, \A c \in cards : c.id \notin ids
    PROVE  Stands(p, Parting(q, ids), cards)
<1> DEFINE r == Parting(q, ids)
<1>1. Stands(p, q, cards)
  BY FewerCards
<1>2. /\ r.version = q.version /\ r.status = q.status
      /\ r.card = q.card /\ r.operation = q.operation
      /\ r.bubble \in {q.bubble, NoBubble} /\ (q.bubble \notin ids => r.bubble = q.bubble)
      /\ (q.dismissal \notin ids => r.dismissal = q.dismissal)
  BY PartingFields
<1> HIDE DEF r
<1>3. Bears(p, r)
  BY <1>1, <1>2, CardsApart DEF Bears, Stands
<1>4. Keeps(p, r, cards)
  BY <1>1, <1>2 DEF Stands, Keeps
<1>5. Alone(p, r, cards)
  BY <1>1, <1>2 DEF Stands, Alone
<1>6. Unshown(r) => shown[p] = 0
  BY <1>1, <1>2 DEF Stands, Unshown
<1> QED
  BY <1>1, <1>2, <1>3, <1>4, <1>5, <1>6 DEF Stands, r

LEMMA DismissStands ==
    ASSUME NamingInv, NEW ps \in [Asks -> Proposal], NEW ids,
           \A p \in Asks : Stands(p, ps[p], root), Dismiss(ps, ids)
    PROVE  root' \subseteq root /\ \A p \in Asks : Stands(p, proposals'[p], root')
<1> DEFINE ds == [p \in Asks |-> Parting(ps[p], ids)]
<1>1. root' = WithoutCards(ids) /\ Store(ds)
  BY DismissedIsParting DEF Dismiss
<1>2. root' \subseteq root /\ \A c \in root' : c.id \notin ids
  BY <1>1 DEF WithoutCards
<1>3. \A p \in Asks : ds[p] \in Proposal /\ Stands(p, ds[p], root')
  BY <1>2, PartingFields, PartingStands
<1>4. ds \in [Asks -> Proposal]
  BY <1>3
<1> HIDE DEF ds
<1> QED
  BY <1>1, <1>2, <1>3, <1>4, StoreStands

LEMMA OneStands ==
    ASSUME NamingInv, CardsStand, NEW c \in Asks, NEW x \in Proposal, Stands(c, x, root)
    PROVE  /\ [proposals EXCEPT ![c] = x] \in [Asks -> Proposal]
           /\ \A p \in Asks : Stands(p, [proposals EXCEPT ![c] = x][p], root)
<1>1. proposals \in [Asks -> Proposal]
  BY DEF NamingInv, StoreHeld
<1>2. ASSUME NEW p \in Asks PROVE Stands(p, [proposals EXCEPT ![c] = x][p], root)
  <2>1. [proposals EXCEPT ![c] = x][p] = IF p = c THEN x ELSE proposals[p]
    BY <1>1
  <2> QED
    BY <2>1, AsItIs
<1> QED
  BY <1>1, <1>2

LEMMA OneStored ==
    ASSUME NamingInv, CardsStand, NEW c \in Asks, NEW x \in Proposal, Stands(c, x, root),
           Store([proposals EXCEPT ![c] = x])
    PROVE  \A p \in Asks : Stands(p, proposals'[p], root)
BY OneStands, StoreStands

LEMMA NoneStored ==
    ASSUME NamingInv, CardsStand, proposals' = proposals
    PROVE  \A p \in Asks : Stands(p, proposals'[p], root)
BY AsItIs

LEMMA DismissesStand ==
    ASSUME NamingInv, CardsStand, NEW ids, Dismiss(proposals, ids)
    PROVE  root' \subseteq root /\ \A p \in Asks : Stands(p, proposals'[p], root')
<1>1. proposals \in [Asks -> Proposal]
  BY DEF NamingInv, StoreHeld
<1> QED
  BY <1>1, AsItIs, DismissStands

LEMMA StaleFields ==
    ASSUME NEW q \in Proposal, NEW b \in MaybeBubble
    PROVE  LET r == [q EXCEPT !.dismissal = b]
           IN  /\ r \in Proposal /\ r.version = q.version /\ r.status = q.status /\ r.bubble = q.bubble
               /\ r.dismissal = b /\ r.card = q.card /\ r.operation = q.operation
BY DEF Proposal, MaybeBubble

LEMMA StaleStands ==
    ASSUME NamingInv, CardsStand, NEW p \in Asks, NEW b \in MaybeBubble
    PROVE  Stands(p, StaleCard(proposals[p], b), root)
<1> DEFINE q == proposals[p]
           r == [q EXCEPT !.dismissal = b]
<1>1. CASE q.dismissal # NoBubble
  BY <1>1, AsItIs DEF StaleCard
<1>2. CASE q.dismissal = NoBubble
  <2>1. q \in Proposal /\ StaleCard(q, b) = r
    BY <1>2, StoreTyped DEF StaleCard
  <2>2. /\ r.version = q.version /\ r.status = q.status /\ r.bubble = q.bubble
        /\ r.dismissal = b /\ r.card = q.card /\ r.operation = q.operation
    BY <2>1, StaleFields
  <2>3. Keeps(p, q, root)
    BY InViewKept
  <2> HIDE DEF r
  <2>4. Keeps(p, r, root)
    BY <1>2, <2>2, <2>3, RootTyped, CardsApart DEF Keeps
  <2>5. Stands(p, r, root)
    BY <2>2, <2>4, QuietStands DEF Unshown
  <2> QED
    BY <2>1, <2>5
<1> QED
  BY <1>1, <1>2

\* How the result card of a proposal comes on.
LEMMA CardFields ==
    ASSUME NEW q \in Proposal, NEW k \in Cards, NEW r, r = [q EXCEPT !.card = k]
    PROVE  /\ r \in Proposal /\ r.version = q.version /\ r.status = q.status /\ r.bubble = q.bubble
           /\ r.dismissal = q.dismissal /\ r.card = k /\ r.operation = q.operation
BY DEF Proposal

LEMMA LateWithoutUndo ==
    ASSUME NEW p, NEW q, Bears(p, q), q.status = "applied", ~CanUndo(p, q)
    PROVE  late[p]
BY DEF Bears, CanUndo

LEMMA ExpiredStands ==
    ASSUME NamingInv, CardsStand, NEW p \in Asks, NEW b \in MaybeBubble, late[p]
    PROVE  /\ [proposals[p] EXCEPT !.card = "expired", !.dismissal = b] \in Proposal
           /\ Stands(p, [proposals[p] EXCEPT !.card = "expired", !.dismissal = b], root)
<1> DEFINE q == proposals[p]
           s == [q EXCEPT !.card = "expired", !.dismissal = b]
<1>1. q \in Proposal
  BY StoreTyped
<1>2. /\ s \in Proposal /\ s.version = q.version /\ s.status = q.status /\ s.bubble = q.bubble
      /\ s.dismissal = b /\ s.card = "expired" /\ s.operation = q.operation
  <2> HIDE DEF q
  <2> QED
    BY <1>1 DEF Proposal, MaybeBubble, Cards
<1> HIDE DEF s
<1>3. Stands(p, s, root)
  BY <1>2, QuietStands DEF Unshown, Keeps
<1> QED
  BY <1>2, <1>3 DEF s

LEMMA DeliveryStands ==
    ASSUME NamingInv, CardsStand, NEW p \in Asks, NEW b \in MaybeBubble,
           NEW from \in SUBSET {"pending", "delivering", "delivered"}, NEW to \in {"delivering", "delivered"}
    PROVE  Delivery(p, b, from, to) \in Proposal /\ Stands(p, Delivery(p, b, from, to), root)
<1> DEFINE q == proposals[p]
           r == [q EXCEPT !.card = to]
           s == [q EXCEPT !.card = "expired", !.dismissal = b]
<1>1. q \in Proposal /\ Bears(p, q) /\ to \in Cards
  BY StoreTyped DEF CardsStand, AllBear, Cards
<1>2. Delivery(p, b, from, to) \in Proposal
  BY DeliveryHeld DEF Moves, Sound, NamingInv
<1>3. \/ Delivery(p, b, from, to) \in {q, StaleCard(q, b)}
      \/ q.status = "applied" /\ ~CanUndo(p, q) /\ Delivery(p, b, from, to) = s
      \/ q.status = "applied" /\ Delivery(p, b, from, to) = r
  BY DEF Delivery
<1>4. q.status = "applied" /\ ~CanUndo(p, q) => Stands(p, s, root)
  BY <1>1, LateWithoutUndo, ExpiredStands
<1>5. q.status = "applied" => Stands(p, r, root)
  <2>1. /\ r.version = q.version /\ r.status = q.status /\ r.bubble = q.bubble
        /\ r.dismissal = q.dismissal /\ r.card = to /\ r.operation = q.operation
    BY <1>1, CardFields
  <2>2. Keeps(p, q, root)
    BY InViewKept
  <2> HIDE DEF r
  <2>3. Keeps(p, r, root)
    BY <2>1, <2>2 DEF Keeps
  <2> QED
    BY <2>1, <2>3, QuietStands DEF Unshown, Unapplied
<1>6. Stands(p, q, root) /\ Stands(p, StaleCard(q, b), root)
  BY AsItIs, StaleStands
<1> HIDE DEF q, r, s
<1> QED
  BY <1>2, <1>3, <1>4, <1>5, <1>6

----------------------------------------------------------------------------
(* The end of a job.                                                       *)

LEMMA SeenWithJob ==
    ASSUME root' \subseteq root, queue' = queue, job'.kind = job.kind, job'.bubble = job.bubble
    PROVE  \A b \in MaybeBubble : Seen(b)' => Seen(b)
BY DEF Seen

LEMMA SeenAfterJob ==
    ASSUME NamingInv, root' \subseteq root, NEW next \in Seq(CardJob),
           \A n \in 1 .. Len(next) : next[n].kind \in AfterJob, End(next)
    PROVE  \A b \in MaybeBubble : Seen(b)' => Seen(b)
<1>1. queue \in Seq(CardJob) /\ queue' = queue \o next /\ job'.kind = "idle"
  BY DEF End, NoCardJob, NamingInv, QueueFits
<1>2. ASSUME NEW b, NEW n \in 1 .. Len(queue'), queue'[n].kind \in OnCards, queue'[n].bubble = b
      PROVE  Seen(b)
  <2>1. CASE n <= Len(queue)
    BY <1>1, <1>2, <2>1 DEF Seen
  <2>2. CASE ~(n <= Len(queue))
    <3>1. n - Len(queue) \in 1 .. Len(next) /\ queue'[n] = next[n - Len(queue)]
      BY <1>1, <2>2
    <3> QED
      BY <1>2, <3>1 DEF AfterJob, OnCards, Clicks
  <2> QED
    BY <2>1, <2>2
<1> QED
  BY <1>1, <1>2 DEF Seen, OnCards, Clicks

JobEnds ==
    \/ Fail \/ End(<<>>) \/ End(Refresh)
    \/ \E kind \in AfterJob : End(<<CardRequest(kind, job.bubble, NoName)>>)

LEMMA SeenAtEnd ==
    ASSUME NamingInv, root' \subseteq root, JobEnds
    PROVE  job' = NoCardJob /\ \A b \in MaybeBubble : Seen(b)' => Seen(b)
<1>1. JobFits
  BY DEF NamingInv
<1>2. CASE End(<<>>)
  <2>1. <<>> \in Seq(CardJob) /\ \A n \in 1 .. Len(<<>>) : <<>>[n].kind \in AfterJob
    OBVIOUS
  <2> QED
    BY <1>2, <2>1, SeenAfterJob DEF End
<1>3. CASE End(Refresh)
  <2>1. job' = NoCardJob
    BY <1>3 DEF End
  <2>2. Refresh \in Seq(CardJob) /\ \A n \in 1 .. Len(Refresh) : Refresh[n].kind \in AfterJob
    BY <1>1, AskedAfter
  <2> QED
    BY <1>3, <2>1, <2>2, SeenAfterJob
<1>4. ASSUME NEW kind \in AfterJob, End(<<CardRequest(kind, job.bubble, NoName)>>)
      PROVE  job' = NoCardJob /\ \A b \in MaybeBubble : Seen(b)' => Seen(b)
  <2>1. job' = NoCardJob
    BY <1>4 DEF End
  <2>2. /\ <<CardRequest(kind, job.bubble, NoName)>> \in Seq(CardJob)
        /\ \A n \in 1 .. Len(<<CardRequest(kind, job.bubble, NoName)>>) :
              <<CardRequest(kind, job.bubble, NoName)>>[n].kind \in AfterJob
    BY <1>1, <1>4, AskedAfter
  <2> QED
    BY <1>4, <2>1, <2>2, SeenAfterJob
<1>5. CASE Fail
  <2>1. "recover" \in AfterJob
    BY DEF AfterJob
  <2> QED
    BY <1>2, <1>4, <1>5, <2>1 DEF Fail
<1> QED
  BY <1>2, <1>3, <1>4, <1>5 DEF JobEnds

LEMMA NoJobStands ==
    ASSUME job' = NoCardJob
    PROVE  JobStands'
<1>1. job'.kind = "idle"
  BY DEF NoCardJob
<1> QED
  BY <1>1 DEF JobStands, CopiesBear, ClickStands, SyncReads, CopiesKeep, Reading, AllRegisteredStay, TodoStands,
              SyncShows, ShowingStands, Clicks

LEMMA EndStands ==
    ASSUME NamingInv, NamingInv', CardsInv, JobEnds, UNCHANGED Elsewhere, root' \subseteq root,
           \A p \in Asks : Stands(p, proposals'[p], root')
    PROVE  CardsInv'
<1>1. late' = late /\ shown' = shown
  BY DEF Elsewhere, World, History
<1>2. CardsStand'
  BY <1>1, SeenAtEnd, StandingKeeps DEF CardsInv
<1> QED
  BY <1>2, SeenAtEnd, NoJobStands DEF CardsInv

LEMMA FailUnchangedStands ==
    ASSUME NamingInv, NamingInv', CardsInv, FailUnchanged
    PROVE  CardsInv'
BY NoneStored, EndStands DEF FailUnchanged, CardsInv, JobEnds

LEMMA EndOfOne ==
    ASSUME NamingInv, NamingInv', CardsInv, JobEnds, UNCHANGED Elsewhere, root' = root,
           NEW c \in Asks, NEW x \in Proposal, Stands(c, x, root), Store([proposals EXCEPT ![c] = x])
    PROVE  CardsInv'
BY OneStored, EndStands DEF CardsInv

----------------------------------------------------------------------------
(* The cards: the jobs of a click.                                         *)

LEMMA ClickFacts ==
    ASSUME NamingInv, CardsInv, job.kind \in Clicks
    PROVE  /\ job.bubble \in Bubbles /\ job.bubble \in MaybeBubble /\ Clicked \in Asks
           /\ Found \in Proposal /\ Bears(Clicked, Found) /\ Bears(Clicked, proposals[Clicked])
           /\ proposals[Clicked] \in Proposal /\ proposals[Clicked].version \in Nat
           /\ job.at # "load" => Found.bubble = job.bubble /\ Found.version = job.bubble.version
           /\ job.at # "load" => proposals[Clicked].bubble = job.bubble
<1>1. job.bubble \in Bubbles /\ Clicked \in Asks /\ Sound(Clicked, Found, granted)
  BY ClickedStands
<1>2. job.kind # "idle"
  BY DEF Clicks
<1>3. Bears(Clicked, Found)
  BY <1>1, <1>2 DEF CardsInv, JobStands, CopiesBear, Found
<1>4. job.at # "load" => Found.bubble = job.bubble /\ proposals[Clicked].bubble = job.bubble
  BY DEF CardsInv, JobStands, ClickStands
<1>5. job.at # "load" => Found.version = job.bubble.version
  BY ClickedStands
<1> QED
  BY <1>1, <1>3, <1>4, <1>5, StoreTyped DEF Sound, MaybeBubble, CardsInv, CardsStand, AllBear

\* The card that a job is about is the only one of its proposal in view, while it is its card.
LEMMA OnlyCard ==
    ASSUME NamingInv, CardsStand, job.kind \in OnCards, job.bubble \in MaybeBubble,
           proposals[Clicked].bubble = job.bubble
    PROVE  /\ job.bubble \in Bubbles /\ Clicked \in Asks
           /\ late[Clicked] \/ \A c \in root : c.id.of = Clicked => c.id = job.bubble
<1>1. SeenRight(job.bubble)
  BY DEF CardsStand, AllSeenRight, Seen
<1> QED
  BY <1>1, CardsApart DEF SeenRight, Clicked

LEMMA ClickGoesOn ==
    ASSUME NamingInv, NamingInv', CardsInv, job.kind \in Clicks, job'.kind = job.kind,
           job'.bubble = job.bubble, queue' = queue, UNCHANGED Elsewhere, root' \subseteq root,
           \A p \in Asks : Stands(p, proposals'[p], root'),
           \A p \in Asks : Bears(p, job'.mine[p]) /\ Bears(p, job'.old[p]), ClickStands'
    PROVE  CardsInv'
<1>1. late' = late /\ shown' = shown
  BY DEF Elsewhere, World, History
<1>2. CardsStand'
  BY <1>1, SeenWithJob, StandingKeeps DEF CardsInv
<1>3. job'.kind \notin {"idle", "sync"}
  BY DEF Clicks
<1>4. JobStands'
  BY <1>3 DEF JobStands, CopiesBear, SyncReads, CopiesKeep, Reading, AllRegisteredStay, TodoStands, SyncShows, ShowingStands
<1> QED
  BY <1>2, <1>4 DEF CardsInv

LEMMA CopiesOfClick ==
    ASSUME CardsInv, job.kind \in Clicks
    PROVE  \A p \in Asks : Bears(p, job.mine[p]) /\ Bears(p, job.old[p])
BY DEF CardsInv, JobStands, CopiesBear, Clicks

LEMMA ConflictAndFailStands ==
    ASSUME NamingInv, NamingInv', CardsInv, job.kind \in Clicks, ConflictAndFail
    PROVE  CardsInv'
<1> DEFINE q == proposals[Clicked]
           s == IF q.version = job.bubble.version THEN "conflict" ELSE q.status
           x == [q EXCEPT !.status = s]
<1>1. Store([proposals EXCEPT ![Clicked] = x]) /\ Fail /\ UNCHANGED <<root, Elsewhere>>
  BY DEF ConflictAndFail
<1>2. Clicked \in Asks /\ q \in Proposal
  BY ClickFacts
<1>3. s \in {"conflict", q.status} /\ s \in NamingStatuses
  BY <1>2 DEF NamingStatuses, Proposal
<1>4. Keeps(Clicked, q, root)
  BY InViewKept DEF CardsInv
<1> HIDE DEF s
<1>5. /\ x \in Proposal /\ x.version = q.version /\ x.status = s /\ x.bubble = q.bubble
      /\ x.dismissal = q.dismissal /\ x.card = q.card /\ x.operation = q.operation
  <2> HIDE DEF q
  <2> QED
    BY <1>2, <1>3 DEF Proposal
<1> HIDE DEF x
<1>6. Unshown(x) => Unshown(q)
  BY <1>3, <1>5 DEF Unshown, Unapplied
<1>7. Keeps(Clicked, x, root)
  BY <1>4, <1>5 DEF Keeps
<1>8. Stands(Clicked, x, root)
  BY <1>2, <1>3, <1>5, <1>6, <1>7, QuietStands DEF CardsInv
<1> QED
  BY <1>1, <1>2, <1>5, <1>8, EndOfOne DEF JobEnds

LEMMA ClickLoadStands ==
    ASSUME NamingInv, NamingInv', CardsInv, ClickLoad
    PROVE  CardsInv'
<1> DEFINE q == CardOfAction
           cutOff == job.kind = "undo" /\ q.status = "applied" /\ q.card = "delivering"
           x == Delivery(Clicked, job.bubble, {"delivering"}, "delivered")
           delivered == [proposals EXCEPT ![Clicked] = x]
           hasCard == \E c \in root : c.id = job.bubble
<1>1. job.kind \in Clicks /\ job.at = "load"
  BY DEF ClickLoad
<1>2. CASE q.status = "absent"
  BY <1>2, FailUnchangedStands DEF ClickLoad
<1>3. CASE q.status # "absent" /\ cutOff
  <2>1. /\ IF late[Clicked] THEN Dismiss(delivered, {job.bubble}) /\ Fail
           ELSE /\ Store(delivered) /\ UNCHANGED root
                /\ IF hasCard THEN UNCHANGED <<job, queue>> ELSE Fail
        /\ UNCHANGED <<named, refused, Elsewhere>>
    BY <1>3 DEF ClickLoad
  <2>2. Clicked \in Asks /\ job.bubble \in MaybeBubble /\ CardsStand
    BY <1>1, ClickFacts DEF CardsInv
  <2>3. x \in Proposal /\ Stands(Clicked, x, root)
    BY <2>2, DeliveryStands
  <2> HIDE DEF x
  <2>4. delivered \in [Asks -> Proposal] /\ \A p \in Asks : Stands(p, delivered[p], root)
    BY <2>2, <2>3, OneStands
  <2> HIDE DEF delivered
  <2>5. CASE late[Clicked]
    BY <2>1, <2>4, <2>5, DismissStands, EndStands DEF JobEnds
  <2>6. CASE ~late[Clicked]
    <3>1. root' = root /\ \A p \in Asks : Stands(p, proposals'[p], root)
      BY <2>1, <2>4, <2>6, StoreStands
    <3>2. CASE Fail
      BY <2>1, <3>1, <3>2, EndStands DEF JobEnds
    <3>3. CASE UNCHANGED <<job, queue>>
      <4>1. ClickStands'
        BY <1>1, <3>3 DEF ClickStands
      <4> QED
        BY <1>1, <2>1, <3>1, <3>3, <4>1, CopiesOfClick, ClickGoesOn
    <3> QED
      BY <2>1, <2>6, <3>2, <3>3
  <2> QED
    BY <2>5, <2>6
<1>4. CASE q.status # "absent" /\ ~cutOff
  <2>1. /\ job' = [job EXCEPT !.at = "begin", !.mine[Clicked] = q]
        /\ UNCHANGED <<proposals, named, root, queue, refused, Elsewhere>>
    BY <1>4 DEF ClickLoad
  <2>2. q = proposals[Clicked] /\ proposals[Clicked].bubble = job.bubble
    <3>1. NoProposal.status = "absent"
      BY DEF NoProposal
    <3> QED
      BY <1>4, <3>1 DEF CardOfAction
  <2> HIDE DEF q
  <2>3. job \in JobRecords /\ Clicked \in Asks /\ Bears(Clicked, q)
    BY <1>1, <2>2, ClickFacts DEF NamingInv, JobFits
  <2>4. /\ job'.kind = job.kind /\ job'.bubble = job.bubble /\ job'.at = "begin"
        /\ job'.old = job.old /\ job'.mine = [job.mine EXCEPT ![Clicked] = q]
        /\ job.mine \in [Asks -> Proposal]
    BY <2>1, <2>3 DEF JobRecords
  <2>5. \A p \in Asks : Bears(p, job'.mine[p]) /\ Bears(p, job'.old[p])
    BY <1>1, <2>3, <2>4, CopiesOfClick
  <2>6. job'.mine[job'.bubble.of] = q
    BY <2>3, <2>4 DEF Clicked
  <2>7. ClickStands'
    BY <2>1, <2>2, <2>4, <2>6 DEF ClickStands, Found, Clicked
  <2>8. \A p \in Asks : Stands(p, proposals'[p], root')
    BY <2>1, NoneStored DEF CardsInv
  <2> QED
    BY <1>1, <2>1, <2>4, <2>5, <2>7, <2>8, ClickGoesOn
<1> QED
  BY <1>2, <1>3, <1>4

LEMMA EditStands ==
    ASSUME NamingInv, NamingInv', CardsInv, Edit
    PROVE  CardsInv'
<1>1. job.kind \in Clicks
  BY DEF Edit, InJob, Clicks
<1>2. CASE FailUnchanged
  BY <1>2, FailUnchangedStands
<1>3. CASE ConflictAndFail
  BY <1>1, <1>3, ConflictAndFailStands
<1>4. CASE End(<<>>) /\ UNCHANGED <<proposals, named, root, refused, Elsewhere>>
  BY <1>4, NoneStored, EndStands DEF CardsInv, JobEnds
<1> QED
  BY <1>2, <1>3, <1>4 DEF Edit

LEMMA EditSubmitStands ==
    ASSUME NamingInv, NamingInv', CardsInv, EditSubmit
    PROVE  CardsInv'
<1>1. job.kind \in Clicks /\ job.kind = "submit" /\ job.at = "begin"
  BY DEF EditSubmit, InJob, Clicks
<1>2. CASE FailUnchanged
  BY <1>2, FailUnchangedStands
<1>3. CASE ConflictAndFail
  BY <1>1, <1>3, ConflictAndFailStands
<1>4. CASE /\ Found.status = "proposed" /\ OwnCard({"proposed"})
           /\ Found.version < MaxNameVersions
           /\ Store([proposals EXCEPT ![Clicked] = Edited(Found)])
           /\ End(Refresh)
           /\ UNCHANGED <<named, root, refused, Elsewhere>>
  <2> DEFINE r == Edited(Found)
             q == proposals[Clicked]
             b == ConfirmId(Clicked, Found.version + 1)
  <2>1. /\ job.bubble \in Bubbles /\ job.bubble \in MaybeBubble /\ Clicked \in Asks /\ Found \in Proposal
        /\ Found.version = job.bubble.version /\ q.version = job.bubble.version
        /\ q.bubble = job.bubble /\ q.status = "proposed" /\ job.bubble.version \in Nat \ {0}
    BY <1>1, <1>4, ClickFacts, CardsApart DEF OwnCard
  <2>2. job.name \in VoiceNames
    BY <1>1 DEF NamingInv, JobFits, Fits, CardRequest
  <2>3. Found.version + 1 \in 1 .. MaxNameVersions
    BY <1>4, <2>1, NamingAssumption
  <2>4. b \in Bubbles /\ b \in MaybeBubble /\ b.of = Clicked /\ b.kind = "confirm" /\ b.version = Found.version + 1
    BY <2>1, <2>3 DEF ConfirmId, Bubbles, MaybeBubble
  <2>5. /\ r.version = Found.version + 1 /\ r.status = "proposed"
        /\ r.bubble = b /\ r.dismissal = job.bubble
    BY <1>4, <2>1 DEF Edited, Proposal
  <2>6. r \in Proposal
    <3>1. Found.version + 1 \in 0 .. MaxNameVersions /\ ConfirmId(Clicked, Found.version + 1) \in Bubbles
      BY <2>3, <2>4
    <3> QED
      BY <2>1, <2>2, <3>1 DEF Edited, Proposal
  <2> HIDE DEF r, b, q
  <2>7. ~Seen(b)
    <3>1. Seen(b) => b.version <= q.version
      BY <2>4 DEF CardsInv, CardsStand, AllSeenRight, SeenRight, q
    <3> QED
      BY <2>1, <2>4, <3>1
  <2>8. late[Clicked] \/ \A c \in root : c.id.of = Clicked => c.id = job.bubble
    BY <1>1, <2>1, OnlyCard DEF CardsInv, OnCards, q
  <2>9. Bears(Clicked, r)
    BY <2>4, <2>5 DEF Bears
  <2>10. shown[Clicked] = 0
    BY <2>1 DEF CardsInv, CardsStand, ShownOnce, Unshown, Unapplied, q
  <2>11. Keeps(Clicked, r, root) /\ Alone(Clicked, r, root)
    BY <2>5, <2>7, <2>8 DEF Keeps, Alone
  <2>12. Stands(Clicked, r, root)
    BY <2>1, <2>5, <2>9, <2>10, <2>11 DEF Stands, Unapplied, q
  <2> QED
    BY <1>4, <2>1, <2>6, <2>12, EndOfOne DEF r, JobEnds
<1> QED
  BY <1>2, <1>3, <1>4 DEF EditSubmit

LEMMA RejectStands ==
    ASSUME NamingInv, NamingInv', CardsInv, Reject
    PROVE  CardsInv'
<1>1. job.kind \in Clicks
  BY DEF Reject, InJob, Clicks
<1>2. CASE FailUnchanged
  BY <1>2, FailUnchangedStands
<1>3. CASE ~FailUnchanged
  <2> DEFINE q == proposals[Clicked]
             g == (Found.source = "inferred")
             r == [q EXCEPT !.status = "rejected", !.bubble = NoBubble, !.dismissal = job.bubble,
                            !.suppressed = g]
  <2>1. /\ OwnCard({"proposed"}) /\ Store([proposals EXCEPT ![Clicked] = r])
        /\ End(<<CardRequest("dismiss", job.bubble, NoName)>>)
        /\ UNCHANGED <<named, root, refused, Elsewhere>>
    BY <1>3 DEF Reject
  <2>2. Clicked \in Asks /\ q \in Proposal /\ job.bubble \in Bubbles /\ g \in BOOLEAN
        /\ q.bubble = job.bubble /\ job.bubble \in MaybeBubble
    BY <1>1, <2>1, ClickFacts DEF OwnCard
  <2>3. late[Clicked] \/ \A c \in root : c.id.of = Clicked => c.id = job.bubble
    BY <1>1, <2>2, OnlyCard DEF CardsInv, OnCards
  <2> HIDE DEF g, q
  <2>4. /\ r \in Proposal /\ r.version = q.version /\ r.status = "rejected"
        /\ r.bubble = NoBubble /\ r.dismissal = job.bubble /\ r.operation = q.operation
    BY <2>2 DEF Proposal, NamingStatuses
  <2> HIDE DEF r
  <2>5. Keeps(Clicked, r, root) /\ ~Unshown(r)
    BY <2>3, <2>4 DEF Keeps, Unshown, Unapplied
  <2>6. Stands(Clicked, r, root)
    BY <2>2, <2>4, <2>5, QuietStands DEF CardsInv, q
  <2>7. JobEnds
    BY <2>1 DEF JobEnds, AfterJob
  <2> QED
    BY <2>1, <2>2, <2>4, <2>6, <2>7, EndOfOne
<1> QED
  BY <1>2, <1>3

LEMMA GoToClick ==
    ASSUME NamingInv, NamingInv', CardsInv, job.kind \in Clicks, NEW at \in {"save", "finish"}, GoTo(at),
           queue' = queue, UNCHANGED Elsewhere, root' = root, job.at # "load",
           \A p \in Asks : Stands(p, proposals'[p], root),
           proposals'[Clicked].bubble = job.bubble, proposals'[Clicked].status # "applied"
    PROVE  CardsInv'
<1>1. /\ job'.kind = job.kind /\ job'.bubble = job.bubble /\ job'.at = at
      /\ job'.mine = job.mine /\ job'.old = job.old
  BY DEF GoTo, NamingInv, JobFits, JobRecords
<1>2. Found.bubble = job.bubble
  BY ClickFacts
<1>3. ClickStands'
  BY <1>1, <1>2 DEF ClickStands, Found, Clicked
<1> QED
  BY <1>1, <1>3, CopiesOfClick, ClickGoesOn

LEMMA RegisterBeginStands ==
    ASSUME NamingInv, NamingInv', CardsInv, RegisterBegin
    PROVE  CardsInv'
<1>1. job.kind \in Clicks /\ job.kind = "register" /\ job.at = "begin"
  BY DEF RegisterBegin, InJob, Clicks
<1>2. CASE FailUnchanged
  BY <1>2, FailUnchangedStands
<1>3. CASE ConflictAndFail
  BY <1>1, <1>3, ConflictAndFailStands
<1>4. CASE /\ Found.status \in {"proposed", "applying"}
           /\ GoTo("finish") /\ UNCHANGED <<proposals, named, root, queue, refused, Elsewhere>>
  <2>1. proposals[Clicked].status # "applied" /\ proposals[Clicked].bubble = job.bubble
    BY <1>1, <1>4 DEF CardsInv, JobStands, ClickStands
  <2> QED
    BY <1>1, <1>4, <2>1, NoneStored, GoToClick DEF CardsInv
<1>5. CASE /\ OwnCard({"proposed", "applying"})
           /\ Store([proposals EXCEPT ![Clicked].status = "applying", ![Clicked].operation = TRUE])
           /\ GoTo("save")
           /\ UNCHANGED <<named, root, queue, refused, Elsewhere>>
  <2> DEFINE q == proposals[Clicked]
             r == [q EXCEPT !.status = "applying", !.operation = TRUE]
             ps == [proposals EXCEPT ![Clicked].status = "applying", ![Clicked].operation = TRUE]
  <2>1. /\ Clicked \in Asks /\ q \in Proposal /\ q.bubble = job.bubble /\ q.status \in {"proposed", "applying"}
        /\ Bears(Clicked, q)
    BY <1>1, <1>5, ClickFacts DEF OwnCard
  <2>2. ps = [proposals EXCEPT ![Clicked] = r]
    BY <2>1 DEF NamingInv, StoreHeld
  <2>3. Store(ps)
    BY <1>5
  <2> HIDE DEF ps
  <2>4. Keeps(Clicked, q, root) /\ (Unshown(q) => shown[Clicked] = 0)
    BY <2>1, InViewKept DEF CardsInv, CardsStand, ShownOnce
  <2> HIDE DEF q
  <2>5. /\ r \in Proposal /\ r.version = q.version /\ r.status = "applying" /\ r.operation
        /\ r.bubble = q.bubble /\ r.dismissal = q.dismissal
    BY <2>1 DEF Proposal, NamingStatuses
  <2> HIDE DEF r
  <2>6. Bears(Clicked, r) /\ shown[Clicked] = 0
    BY <2>1, <2>4, <2>5 DEF Bears, Unshown, Unapplied
  <2>7. Keeps(Clicked, r, root) /\ Alone(Clicked, r, root)
    BY <2>4, <2>5 DEF Keeps, Alone, q
  <2>8. Stands(Clicked, r, root)
    BY <2>1, <2>5, <2>6, <2>7 DEF Stands, Unapplied, q
  <2>9. \A p \in Asks : Stands(p, proposals'[p], root)
    BY <2>1, <2>2, <2>3, <2>5, <2>8, OneStored DEF CardsInv
  <2>10. proposals'[Clicked].bubble = job.bubble /\ proposals'[Clicked].status = "applying"
    <3>1. proposals'[Clicked] = Redacted(r)
      BY <2>1, <2>2, <2>3 DEF Store, NamingInv, StoreHeld
    <3> QED
      BY <2>1, <2>5, <3>1, RedactedFields
  <2> QED
    BY <1>1, <1>5, <2>9, <2>10, GoToClick
<1> QED
  BY <1>2, <1>3, <1>4, <1>5 DEF RegisterBegin

LEMMA RegisterSaveStands ==
    ASSUME NamingInv, NamingInv', CardsInv, RegisterSave
    PROVE  CardsInv'
<1>1. /\ job.kind \in Clicks /\ job.at = "save" /\ GoTo("finish")
      /\ UNCHANGED <<proposals, root, queue, Elsewhere>>
  BY DEF RegisterSave, InJob, Clicks
<1>2. proposals[Clicked].status # "applied" /\ proposals[Clicked].bubble = job.bubble
  BY <1>1 DEF CardsInv, JobStands, ClickStands
<1> QED
  BY <1>1, <1>2, NoneStored, GoToClick DEF CardsInv

LEMMA AppliedFields ==
    ASSUME NEW p \in Asks, NEW q \in Proposal, q.version # 0, NEW r, r = Applied(p, q)
    PROVE  /\ r \in Proposal /\ r.version = q.version /\ r.status = "applied" /\ r.operation
           /\ r.bubble = ResultId(p, q.version) /\ r.dismissal = q.bubble /\ r.card = "pending"
           /\ r.bubble \in Bubbles /\ r.bubble \in MaybeBubble /\ r.bubble.kind = "result" /\ r.bubble.of = p
<1>1. q.version \in 1 .. MaxNameVersions
  BY NamingAssumption DEF Proposal
<1>2. ResultId(p, q.version) \in Bubbles /\ ResultId(p, q.version).kind = "result" /\ ResultId(p, q.version).of = p
  BY <1>1 DEF ResultId, Bubbles
<1>3. /\ r \in Proposal /\ r.version = q.version /\ r.status = "applied" /\ r.operation
      /\ r.bubble = ResultId(p, q.version) /\ r.dismissal = q.bubble /\ r.card = "pending"
  BY <1>2 DEF Applied, Proposal, NamingStatuses, Cards
<1> QED
  BY <1>2, <1>3 DEF MaybeBubble

LEMMA RegisterFinishStands ==
    ASSUME NamingInv, NamingInv', CardsInv, RegisterFinish
    PROVE  CardsInv'
<1>1. job.kind \in Clicks /\ job.kind = "register" /\ job.at = "finish"
  BY DEF RegisterFinish, InJob, Clicks
<1>2. CASE /\ proposals[Clicked].version = job.bubble.version
           /\ proposals[Clicked].status \in {"applying", "applied"}
           /\ Store([proposals EXCEPT ![Clicked] = Applied(Clicked, Found)]) /\ End(Refresh)
           /\ UNCHANGED <<named, root, refused, Elsewhere>>
  <2> DEFINE q == proposals[Clicked]
  <2>1. /\ job.bubble \in MaybeBubble /\ Clicked \in Asks /\ Found \in Proposal
        /\ Found.version = q.version /\ Found.version # 0
        /\ Found.bubble = job.bubble /\ q.bubble = job.bubble
    BY <1>1, <1>2, ClickFacts, CardsApart
  <2>2. q.status = "applying"
    BY <1>1, <1>2 DEF CardsInv, JobStands, ClickStands
  <2>3. late[Clicked] \/ \A c \in root : c.id.of = Clicked => c.id = job.bubble
    BY <1>1, <2>1, OnlyCard DEF CardsInv, OnCards
  <2>4. PICK r : r = Applied(Clicked, Found)
    OBVIOUS
  <2>5. /\ r \in Proposal /\ r.version = Found.version /\ r.status = "applied" /\ r.operation
        /\ r.dismissal = Found.bubble /\ r.card = "pending"
        /\ r.bubble \in MaybeBubble /\ r.bubble.kind = "result" /\ r.bubble.of = Clicked
    BY <2>1, <2>4, AppliedFields
  <2>6. ~Seen(r.bubble)
    BY <2>2, <2>5 DEF CardsInv, CardsStand, AllSeenRight, SeenRight, Unapplied
  <2>7. shown[Clicked] = 0
    BY <2>1, <2>2 DEF CardsInv, CardsStand, ShownOnce, Unshown, Unapplied
  <2>8. Bears(Clicked, r)
    BY <2>5 DEF Bears
  <2>9. Keeps(Clicked, r, root) /\ Alone(Clicked, r, root)
    BY <2>1, <2>3, <2>5, <2>6 DEF Keeps, Alone
  <2>10. Stands(Clicked, r, root)
    BY <2>1, <2>2, <2>5, <2>7, <2>8, <2>9 DEF Stands, Unapplied
  <2> QED
    BY <1>2, <2>1, <2>4, <2>5, <2>10, EndOfOne DEF JobEnds
<1>3. CASE Fail /\ UNCHANGED <<proposals, named, root, refused, Elsewhere>>
  BY <1>3, NoneStored, EndStands DEF CardsInv, JobEnds
<1> QED
  BY <1>2, <1>3 DEF RegisterFinish

LEMMA UndoBeginStands ==
    ASSUME NamingInv, NamingInv', CardsInv, UndoBegin
    PROVE  CardsInv'
<1> DEFINE q == proposals[Clicked]
           r == [q EXCEPT !.card = "expired", !.dismissal = job.bubble]
           ps == [proposals EXCEPT ![Clicked].card = "expired", ![Clicked].dismissal = job.bubble]
<1>1. job.kind \in Clicks
  BY DEF UndoBegin, InJob, Clicks
<1>2. CASE FailUnchanged
  BY <1>2, FailUnchangedStands
<1>3. CASE ConflictAndFail
  BY <1>1, <1>3, ConflictAndFailStands
<1>4. CASE /\ Found.status = "applied" /\ ~CanUndo(Clicked, Found)
           /\ Store(ps) \/ UNCHANGED proposals
           /\ End(<<CardRequest("dismiss", job.bubble, NoName)>>)
           /\ UNCHANGED <<named, root, refused, Elsewhere>>
  <2>1. Clicked \in Asks /\ job.bubble \in MaybeBubble /\ Bears(Clicked, Found) /\ q \in Proposal
    BY <1>1, ClickFacts
  <2>2. late[Clicked]
    BY <1>4, <2>1, LateWithoutUndo
  <2>3. r \in Proposal /\ Stands(Clicked, r, root)
    BY <2>1, <2>2, ExpiredStands DEF CardsInv
  <2>4. ps = [proposals EXCEPT ![Clicked] = r]
    BY <2>1 DEF NamingInv, StoreHeld
  <2> HIDE DEF r, ps
  <2>5. JobEnds
    BY <1>4 DEF JobEnds, AfterJob
  <2> QED
    BY <1>4, <2>1, <2>3, <2>4, <2>5, EndOfOne, NoneStored, EndStands DEF CardsInv
<1>5. CASE Fail /\ UNCHANGED <<proposals, named, root, Elsewhere>>
  BY <1>5, NoneStored, EndStands DEF CardsInv, JobEnds
<1> QED
  BY <1>2, <1>3, <1>4, <1>5 DEF UndoBegin

----------------------------------------------------------------------------
(* The cards: the other jobs of a card.                                    *)

LEMMA NoProposalBears == \A p : Bears(p, NoProposal)
BY CardsApart DEF Bears, NoProposal

LEMMA TakeJobStands ==
    ASSUME NamingInv, NamingInv', CardsInv, TakeJob
    PROVE  CardsInv'
<1> DEFINE r == Head(queue)
<1>1. /\ job.kind = "idle" /\ queue # <<>> /\ queue' = Tail(queue)
      /\ UNCHANGED <<proposals, named, root, refused, Elsewhere>>
      /\ job' = [NoCardJob EXCEPT !.kind = r.kind, !.bubble = r.bubble, !.name = r.name, !.at = "load"]
  BY DEF TakeJob
<1>2. queue \in Seq(CardJob) /\ r = queue[1] /\ 1 \in 1 .. Len(queue)
  BY <1>1 DEF NamingInv, QueueFits
<1> HIDE DEF r
<1>3. /\ job'.kind = r.kind /\ job'.bubble = r.bubble /\ job'.at = "load"
      /\ job'.old = NoMemo /\ job'.mine = NoMemo /\ job'.todo = {}
  BY <1>1 DEF NoCardJob
<1>4. ASSUME NEW b \in MaybeBubble, Seen(b)' PROVE Seen(b)
  <2>1. CASE \E c \in root' : c.id = b
    BY <1>1, <2>1 DEF Seen
  <2>2. ASSUME NEW n \in 1 .. Len(queue'), queue'[n].kind \in OnCards, queue'[n].bubble = b PROVE Seen(b)
    <3>1. n + 1 \in 1 .. Len(queue) /\ queue'[n] = queue[n + 1]
      BY <1>1, <1>2
    <3> QED
      BY <2>2, <3>1 DEF Seen
  <2>3. CASE job'.kind \in OnCards /\ job'.bubble = b
    BY <1>2, <1>3, <2>3 DEF Seen
  <2> QED
    BY <1>4, <2>1, <2>2, <2>3 DEF Seen
<1>5. CardsStand'
  <2>1. late' = late /\ shown' = shown
    BY <1>1 DEF Elsewhere, World, History
  <2> QED
    BY <1>1, <1>4, <2>1, NoneStored, StandingKeeps DEF CardsInv
<1>6. \A p \in Asks : Bears(p, NoMemo[p])
  BY NoProposalBears DEF NoMemo
<1>7. JobStands'
  BY <1>3, <1>6 DEF JobStands, CopiesBear, ClickStands, SyncReads, CopiesKeep, Reading, AllRegisteredStay, TodoStands,
                    SyncShows, ShowingStands
<1> QED
  BY <1>5, <1>7 DEF CardsInv

LEMMA CloseMarkStands ==
    ASSUME NamingInv, NamingInv', CardsInv, CloseMark
    PROVE  CardsInv'
<1> DEFINE q == proposals[Clicked]
           k == CASE q.card \in {"dismissed", "expired", "resolved"} -> q.card
                  [] OTHER -> IF CanUndo(Clicked, q) THEN "dismissed" ELSE "expired"
           r == [q EXCEPT !.card = k, !.dismissal = job.bubble]
           ps == [proposals EXCEPT ![Clicked].card = k, ![Clicked].dismissal = job.bubble]
<1>1. /\ job.kind = "close" /\ GoTo("dismiss") /\ UNCHANGED <<named, root, queue, refused, Elsewhere>>
      /\ (q.status = "applied" /\ q.bubble = job.bubble /\ Store(ps)) \/ UNCHANGED proposals
  BY DEF CloseMark, InJob
<1>2. job \in JobRecords /\ job.bubble \in MaybeBubble
  BY DEF NamingInv, JobFits, JobRecords
<1>3. ASSUME q.status = "applied", q.bubble = job.bubble, Store(ps)
      PROVE  \A p \in Asks : Stands(p, proposals'[p], root)
  <2>1. /\ job.bubble \in Bubbles /\ Clicked \in Asks
        /\ late[Clicked] \/ \A c \in root : c.id.of = Clicked => c.id = job.bubble
    BY <1>1, <1>2, <1>3, OnlyCard DEF OnCards, CardsInv
  <2>2. q \in Proposal
    BY <2>1, StoreTyped
  <2>3. k \in {"dismissed", "expired", "resolved"} /\ k \in Cards
    BY <2>2 DEF Cards
  <2>4. ps = [proposals EXCEPT ![Clicked] = r]
    BY <2>1 DEF NamingInv, StoreHeld
  <2> HIDE DEF ps, k, q
  <2>5. /\ r \in Proposal /\ r.version = q.version /\ r.status = q.status /\ r.bubble = q.bubble
        /\ r.dismissal = job.bubble /\ r.card = k /\ r.operation = q.operation
    BY <1>2, <2>2, <2>3 DEF Proposal, MaybeBubble
  <2> HIDE DEF r
  <2>6. ~Unshown(r) /\ Keeps(Clicked, r, root)
    BY <1>3, <2>1, <2>3, <2>5 DEF Unshown, Unapplied, Keeps
  <2>7. Stands(Clicked, r, root)
    BY <2>1, <2>5, <2>6, QuietStands DEF CardsInv, q
  <2> QED
    BY <1>3, <2>1, <2>4, <2>5, <2>7, OneStored DEF CardsInv
<1>4. \A p \in Asks : Stands(p, proposals'[p], root)
  <2> HIDE DEF ps
  <2> QED
    BY <1>1, <1>3, NoneStored DEF CardsInv
<1>5. /\ job'.kind = job.kind /\ job'.bubble = job.bubble /\ job'.mine = job.mine /\ job'.old = job.old
  BY <1>1, <1>2 DEF GoTo, JobRecords
<1>6. CardsStand'
  <2>1. late' = late /\ shown' = shown
    BY <1>1 DEF Elsewhere, World, History
  <2> QED
    BY <1>1, <1>4, <1>5, <2>1, SeenWithJob, StandingKeeps DEF CardsInv
<1>7. JobStands'
  BY <1>1, <1>5 DEF CardsInv, JobStands, CopiesBear, ClickStands, SyncReads, CopiesKeep, Reading, AllRegisteredStay, TodoStands,
                    SyncShows, ShowingStands, Clicks
<1> QED
  BY <1>6, <1>7 DEF CardsInv

LEMMA OtherStepStands ==
    ASSUME NamingInv, NamingInv', CardsInv, OtherStep
    PROVE  CardsInv'
<1>1. CASE CloseMark
  BY <1>1, CloseMarkStands
<1>2. CASE DismissCard
  BY <1>2, DismissesStand, EndStands DEF DismissCard, CardsInv, JobEnds
<1>3. CASE RecoverCard
  BY <1>3, DismissesStand, EndStands DEF RecoverCard, CardsInv, JobEnds
<1>4. CASE Rename
  BY <1>4, NoneStored, EndStands DEF Rename, CardsInv, JobEnds
<1> QED
  BY <1>1, <1>2, <1>3, <1>4 DEF OtherStep

----------------------------------------------------------------------------
(* The cards: the companion's turn, which takes none from its proposal.    *)

TurnsTo(q, r) ==
    /\ r.version \in {q.version, q.version + 1} /\ r.bubble = q.bubble
    /\ \/ r.status = q.status /\ r.card = q.card /\ r.operation = q.operation
       \/ q.status = "proposed" /\ r.status = "conflict"
       \/ q.status = "absent" /\ r.status = "proposed"
    /\ r.dismissal = q.dismissal \/ q.status = "absent"
    /\ q.status = "applying" => r = q

\* Nothing is seen of a proposal that is not there.
LEMMA AbsentUnseen ==
    ASSUME NamingInv, CardsStand, NEW p \in Asks, proposals[p].status = "absent", NEW c \in root
    PROVE  c.id.of # p
<1>1. c.id \in MaybeBubble /\ c.id \in Bubbles
  BY RootTyped
<1>2. SeenRight(c.id)
  BY <1>1 DEF CardsStand, AllSeenRight, Seen
<1>3. proposals[p].version = 0
  BY StoreTyped, FieldsHeld
<1> QED
  BY <1>1, <1>2, <1>3, CardsApart DEF SeenRight, Unapplied

LEMMA TurnedStands ==
    ASSUME NamingInv, CardsStand, NEW p \in Asks, NEW r, TurnsTo(proposals[p], r)
    PROVE  Stands(p, r, root)
<1> DEFINE q == proposals[p]
<1>1. Bears(p, q) /\ (Unshown(q) => shown[p] = 0)
  BY DEF CardsStand, AllBear, ShownOnce
<1>2. q.status = "absent" => q.bubble = NoBubble
  BY StoreTyped, FieldsHeld DEF Sound
<1>3. Keeps(p, q, root)
  BY InViewKept
<1>4. q.status = "absent" => \A c \in root : c.id.of # p
  BY AbsentUnseen
<1>5. TurnsTo(q, r)
  OBVIOUS
<1> HIDE DEF q
<1>6. Bears(p, r)
  BY <1>1, <1>2, <1>5, CardsApart DEF Bears, TurnsTo
<1>7. Unshown(r) => Unshown(q)
  BY <1>5 DEF Unshown, TurnsTo, Unapplied
<1>8. Keeps(p, r, root)
  BY <1>3, <1>4, <1>5 DEF Keeps, TurnsTo
<1>9. q.status \notin Unapplied => r.status \notin Unapplied
  BY <1>5 DEF TurnsTo, Unapplied
<1> QED
  BY <1>1, <1>5, <1>6, <1>7, <1>8, <1>9 DEF Stands, Alone, TurnsTo, q

LEMMA CoreStands ==
    ASSUME NamingInv, NamingInv', CardsInv, CoreStays,
           \A p \in Asks : TurnsTo(proposals[p], proposals'[p])
    PROVE  CardsInv'
<1>1. UNCHANGED <<late, root, queue, job, shown>>
  BY DEF CoreStays
<1>2. CardsStand'
  BY <1>1, TurnedStands, SeenWithJob, StandingKeeps DEF CardsInv
<1>3. \A b : Seen(b)' = Seen(b)
  BY <1>1 DEF Seen
<1>4. job \in JobRecords /\ SyncKnowsItsPlace
  BY DEF NamingInv, JobFits
<1>5. CopiesBear' /\ SyncReads' /\ SyncShows'
  BY <1>1 DEF CardsInv, JobStands, CopiesBear, SyncReads, SyncShows
<1>6. ClickStands'
  <2>1. job.kind \in Clicks => Clicked \in Asks
    BY ClickFacts
  <2> QED
    BY <1>1, <2>1 DEF CardsInv, JobStands, ClickStands, Found, Clicked, TurnsTo
<1>7. CopiesKeep'
  BY <1>1, <1>3 DEF CardsInv, JobStands, CopiesKeep, Reading, KeepsCard, NoResultOf
<1>8. AllRegisteredStay'
  <2>1. ASSUME NEW p \in Asks, Reading PROVE RegisteredStay(p)'
    <3>1. TurnsTo(proposals[p], proposals'[p])
      OBVIOUS
    <3>2. RegisteredStay(p)
      BY <2>1 DEF CardsInv, JobStands, AllRegisteredStay
    <3> QED
      BY <1>1, <3>1, <3>2 DEF RegisteredStay, TurnsTo
  <2> QED
    BY <1>1, <2>1 DEF AllRegisteredStay, Reading
<1>9. TodoStands'
  <2>1. \A p \in job.todo : p \in Asks /\ proposals'[p].bubble = proposals[p].bubble
    BY <1>4 DEF JobRecords, TurnsTo
  <2> QED
    BY <1>1, <2>1 DEF CardsInv, JobStands, TodoStands
<1>10. ShowingStands'
  <2> DEFINE p == job.i
  <2>1. CASE job.kind = "sync" /\ job.at = "show"
    <3>1. p \in Asks
      BY <1>4, <2>1 DEF SyncKnowsItsPlace
    <3>2. proposals'[p].bubble = proposals[p].bubble /\ (~Unshown(proposals[p]) => ~Unshown(proposals'[p]))
      BY <3>1 DEF TurnsTo, Unshown, Unapplied
    <3> QED
      BY <1>1, <2>1, <3>1, <3>2 DEF CardsInv, JobStands, ShowingStands
  <2>2. CASE ~(job.kind = "sync" /\ job.at = "show")
    BY <1>1, <2>2 DEF ShowingStands
  <2> QED
    BY <2>1, <2>2
<1> QED
  BY <1>2, <1>5, <1>6, <1>7, <1>8, <1>9, <1>10 DEF CardsInv, JobStands

LEMMA StaysTurned ==
    ASSUME NEW q
    PROVE  TurnsTo(q, q)
BY DEF TurnsTo

LEMMA RedactedTurned ==
    ASSUME NEW q, NEW r \in Proposal, TurnsTo(q, r)
    PROVE  TurnsTo(q, Redacted(r))
<1> DEFINE s == Redacted(r)
<1>1. /\ s.version = r.version /\ s.status = r.status /\ s.bubble = r.bubble
      /\ s.dismissal = r.dismissal /\ s.card = r.card /\ s.operation = r.operation
  BY RedactedFields
<1>2. q.status = "applying" => s = q
  BY DEF TurnsTo, Redacted, Terminal
<1> HIDE DEF s
<1>3. TurnsTo(q, s)
  BY <1>1, <1>2 DEF TurnsTo
<1> QED
  BY <1>3 DEF s

LEMMA CoreStored ==
    ASSUME NamingInv, NamingInv', CardsInv, CoreStays, NEW ps, Store(ps),
           \A p \in Asks : ps[p] \in Proposal /\ TurnsTo(proposals[p], ps[p])
    PROVE  CardsInv'
<1>1. \A p \in Asks : proposals'[p] = Redacted(ps[p])
  BY DEF Store
<1> QED
  BY <1>1, RedactedTurned, CoreStands

LEMMA CoreLeft ==
    ASSUME NamingInv, NamingInv', CardsInv, CoreStays, UNCHANGED proposals
    PROVE  CardsInv'
BY StaysTurned, CoreStands

LEMMA ConflictedStands ==
    ASSUME NamingInv, NamingInv', CardsInv, CoreStays, NEW ps, \A p \in ps : Inferred(p, "proposed"),
           Store(Conflicted(ps))
    PROVE  CardsInv'
<1>1. ASSUME NEW p \in Asks
      PROVE  Conflicted(ps)[p] \in Proposal /\ TurnsTo(proposals[p], Conflicted(ps)[p])
  <2> DEFINE q == proposals[p]
             r == [q EXCEPT !.status = "conflict"]
  <2>1. Conflicted(ps)[p] = IF p \in ps THEN r ELSE q
    BY DEF Conflicted
  <2>2. q \in Proposal /\ (p \in ps => q.status = "proposed")
    BY StoreTyped DEF Inferred
  <2> HIDE DEF q
  <2>3. /\ r \in Proposal /\ r.version = q.version /\ r.bubble = q.bubble /\ r.dismissal = q.dismissal
        /\ r.status = "conflict"
    BY <2>2 DEF Proposal, NamingStatuses
  <2> HIDE DEF r
  <2>4. p \in ps => TurnsTo(q, r)
    BY <2>2, <2>3 DEF TurnsTo
  <2> QED
    BY <2>1, <2>2, <2>3, <2>4, StaysTurned DEF q
<1> QED
  BY <1>1, CoreStored

LEMMA SuggestionTurned ==
    ASSUME NamingInv, NEW p \in Fresh, NEW name \in VoiceNames, NEW source \in {"request", "inferred"}
    PROVE  /\ Suggestion(name, source, named) \in Proposal
           /\ TurnsTo(proposals[p], Suggestion(name, source, named))
<1> DEFINE r == Suggestion(name, source, named)
           q == proposals[p]
<1>1. p \in Asks /\ q.status = "absent"
  BY DEF Fresh
<1>2. q.version = 0 /\ q.bubble = NoBubble
  BY <1>1, StoreTyped, FieldsHeld DEF Sound
<1>3. r \in Proposal
  BY SuggestionMoves DEF Moves, Sound
<1>4. r.version = 1 /\ r.status = "proposed" /\ r.bubble = NoBubble
  BY DEF Suggestion, NoProposal
<1> HIDE DEF r, q
<1>5. TurnsTo(q, r)
  BY <1>1, <1>2, <1>4 DEF TurnsTo, q
<1> QED
  BY <1>3, <1>5 DEF r, q

LEMMA InsertStands ==
    ASSUME NamingInv, NamingInv', CardsInv, NEW again \in BOOLEAN, Insert(again)
    PROVE  CardsInv'
<1> DEFINE name == core.name
           turned == {p \in Asks : /\ proposals[p].source = "inferred" /\ proposals[p].candidate = name
                                   /\ proposals[p].status = "rejected" /\ proposals[p].suppressed}
           rivals == {p \in Asks : proposals[p].source = "inferred" /\ proposals[p].name # name}
           stopped == {p \in rivals : proposals[p].status = "proposed"}
           heard == [p \in Asks |-> IF p \in turned THEN [proposals[p] EXCEPT !.suppressed = FALSE]
                                    ELSE proposals[p]]
<1>1. core.busy /\ CoreStays
  BY DEF Insert
<1>2. name \in VoiceNames /\ core.source \in {"request", "inferred"}
  BY <1>1 DEF NamingInv, OthersTyped
<1>3. ASSUME NEW p \in Asks PROVE heard[p] \in Proposal /\ TurnsTo(proposals[p], heard[p])
  <2> DEFINE q == proposals[p]
             r == [q EXCEPT !.suppressed = FALSE]
  <2>1. q \in Proposal
    BY StoreTyped
  <2>2. (heard[p] = r /\ q.status = "rejected") \/ heard[p] = q
    OBVIOUS
  <2> HIDE DEF q
  <2>3. /\ r \in Proposal /\ r.version = q.version /\ r.status = q.status /\ r.bubble = q.bubble
        /\ r.dismissal = q.dismissal /\ r.card = q.card /\ r.operation = q.operation
    BY <2>1 DEF Proposal
  <2> HIDE DEF r, heard
  <2>4. q.status = "rejected" => TurnsTo(q, r)
    BY <2>3 DEF TurnsTo
  <2> QED
    BY <2>1, <2>2, <2>3, <2>4, StaysTurned DEF q
<1>4. CASE UNCHANGED proposals
  BY <1>1, <1>4, CoreLeft
<1>5. CASE Store(Conflicted(stopped)) /\ core.source = "inferred"
  <2>1. \A p \in stopped : Inferred(p, "proposed")
    BY DEF Inferred
  <2> QED
    BY <1>1, <1>5, <2>1, ConflictedStands
<1>6. CASE Store(heard)
  <2> HIDE DEF heard
  <2> QED
    BY <1>1, <1>3, <1>6, CoreStored
<1>7. ASSUME NEW p \in Fresh, Store([heard EXCEPT ![p] = Suggestion(name, core.source, named)])
      PROVE  CardsInv'
  <2> DEFINE x == Suggestion(name, core.source, named)
             ps == [heard EXCEPT ![p] = x]
  <2>1. x \in Proposal /\ TurnsTo(proposals[p], x)
    BY <1>2, SuggestionTurned
  <2>2. Store(ps)
    BY <1>7
  <2>3. ASSUME NEW r \in Asks PROVE ps[r] = IF r = p THEN x ELSE heard[r]
    OBVIOUS
  <2> HIDE DEF x, ps, heard
  <2>4. \A r \in Asks : ps[r] \in Proposal /\ TurnsTo(proposals[r], ps[r])
    BY <1>3, <2>1, <2>3
  <2> QED
    BY <1>1, <2>2, <2>4, CoreStored
<1> QED
  BY <1>4, <1>5, <1>6, <1>7 DEF Insert

LEMMA CoreTurnStands ==
    ASSUME NamingInv, NamingInv', CardsInv, CoreTurn
    PROVE  CardsInv'
<1>1. ASSUME NEW name \in VoiceNames, AskedByUser(name) PROVE CardsInv'
  BY <1>1, CoreLeft DEF AskedByUser
<1>2. ASSUME NEW names \in SUBSET VoiceNames, InferredTwo(names) PROVE CardsInv'
  <2> DEFINE open == {p \in Asks : Inferred(p, "proposed")}
  <2>1. Store(Conflicted(open)) /\ CoreStays /\ \A p \in open : Inferred(p, "proposed")
    BY <1>2 DEF InferredTwo
  <2> HIDE DEF open
  <2> QED
    BY <2>1, ConflictedStands
<1>3. ASSUME NEW name \in VoiceNames, InferredOne(name) PROVE CardsInv'
  <2> DEFINE rival == {p \in Asks : Inferred(p, "proposed") /\ proposals[p].name # name}
             newest == {p \in rival : \A r \in rival : r <= p}
  <2>1. CoreStays /\ \A p \in newest : Inferred(p, "proposed")
    BY <1>3 DEF InferredOne
  <2>2. Store(Conflicted(newest)) \/ UNCHANGED proposals
    BY <1>3 DEF InferredOne
  <2> HIDE DEF newest
  <2> QED
    BY <2>1, <2>2, ConflictedStands, CoreLeft
<1>4. CASE ForgetRegistered
  BY <1>4, CoreLeft DEF ForgetRegistered
<1>5. ASSUME NEW name \in VoiceNames, Resolve(name) PROVE CardsInv'
  <2>1. CoreStays
    BY <1>5 DEF Resolve
  <2>2. CASE UNCHANGED proposals
    BY <2>1, <2>2, CoreLeft
  <2>3. ASSUME NEW p \in Fresh, named = NoName,
               Store([proposals EXCEPT ![p] = Suggestion(name, "inferred", NoName)])
        PROVE  CardsInv'
    <3> DEFINE x == Suggestion(name, "inferred", NoName)
               ps == [proposals EXCEPT ![p] = x]
    <3>1. x \in Proposal /\ TurnsTo(proposals[p], x)
      BY <2>3, SuggestionTurned
    <3>2. ASSUME NEW r \in Asks PROVE ps[r] = IF r = p THEN x ELSE proposals[r]
      BY DEF NamingInv, StoreHeld
    <3>3. Store(ps)
      BY <2>3
    <3> HIDE DEF x, ps
    <3>4. \A r \in Asks : ps[r] \in Proposal /\ TurnsTo(proposals[r], ps[r])
      BY <3>1, <3>2, StaysTurned, StoreTyped
    <3> QED
      BY <2>1, <3>3, <3>4, CoreStored
  <2> QED
    BY <1>5, <2>2, <2>3 DEF Resolve
<1> QED
  BY <1>1, <1>2, <1>3, <1>4, <1>5, InsertStands DEF CoreTurn

----------------------------------------------------------------------------
(* The cards: the user, the world and faults.                              *)

LEMMA IdleStands ==
    ASSUME job'.kind = "idle"
    PROVE  JobStands'
BY DEF JobStands, CopiesBear, ClickStands, SyncReads, CopiesKeep, Reading, AllRegisteredStay, TodoStands,
       SyncShows, ShowingStands, Clicks

LEMMA RequestStands ==
    ASSUME NamingInv, NamingInv', CardsInv, Outside, World' = World, job.kind = "idle",
           NEW r, r.kind \notin OnCards \/ \E c \in root : r.bubble = c.id, queue' = Append(queue, r)
    PROVE  CardsInv'
<1>1. UNCHANGED <<proposals, root, job, shown, late>>
  BY DEF Outside, World
<1>2. queue \in Seq(CardJob)
  BY DEF NamingInv, QueueFits
<1>3. ASSUME NEW b \in MaybeBubble, Seen(b)' PROVE Seen(b)
  <2>1. ASSUME NEW n \in 1 .. Len(queue'), queue'[n].kind \in OnCards, queue'[n].bubble = b PROVE Seen(b)
    <3>1. CASE n = Len(queue) + 1
      BY <1>2, <2>1, <3>1 DEF Seen
    <3>2. CASE n # Len(queue) + 1
      <4>1. n \in 1 .. Len(queue) /\ queue'[n] = queue[n]
        BY <1>2, <3>2
      <4> QED
        BY <2>1, <4>1 DEF Seen
    <3> QED
      BY <3>1, <3>2
  <2> QED
    BY <1>1, <1>3, <2>1 DEF Seen
<1>4. CardsStand'
  BY <1>1, <1>3, NoneStored, StandingKeeps DEF CardsInv
<1> QED
  BY <1>1, <1>4, IdleStands DEF CardsInv

LEMMA ClickedByUser ==
    ASSUME NamingInv, NamingInv', CardsInv, NEW c \in root, NEW kind \in JobKinds,
           NEW name \in VoiceNames \cup {NoName}, Click(c, kind, name)
    PROVE  CardsInv'
<1> DEFINE r == CardRequest(kind, c.id, name)
<1>1. job.kind = "idle" /\ queue' = Append(queue, r) /\ World' = World /\ Outside
  BY DEF Click, Acts
<1>2. r.bubble = c.id
  BY DEF CardRequest
<1> HIDE DEF r
<1> QED
  BY <1>1, <1>2, RequestStands

LEMMA AskRenameStands ==
    ASSUME NamingInv, NamingInv', CardsInv, NEW name \in VoiceNames \cup {NoName}, AskRename(name)
    PROVE  CardsInv'
<1> DEFINE r == CardRequest("rename", NoBubble, name)
<1>1. job.kind = "idle" /\ queue' = Append(queue, r) /\ World' = World /\ Outside
  BY DEF AskRename, Acts
<1>2. r.kind \notin OnCards
  BY DEF CardRequest, OnCards, Clicks
<1> HIDE DEF r
<1> QED
  BY <1>1, <1>2, RequestStands

LEMMA AskSyncStands ==
    ASSUME NamingInv, NamingInv', CardsInv, AskSync
    PROVE  CardsInv'
<1> DEFINE r == CardRequest("sync", NoBubble, NoName)
<1>1. job.kind = "idle" /\ queue' = Append(queue, r) /\ World' = World /\ Outside
  BY DEF AskSync
<1>2. r.kind \notin OnCards
  BY DEF CardRequest, OnCards, Clicks
<1> HIDE DEF r
<1> QED
  BY <1>1, <1>2, RequestStands

LEMMA DriftStands ==
    ASSUME NamingInv, NamingInv', CardsInv, Drift
    PROVE  CardsInv'
<1>1. UNCHANGED <<proposals, root, job, shown, queue>>
  BY DEF Drift, Outside
<1>2. late \in [Asks -> BOOLEAN]
  BY DEF NamingInv, OthersTyped
<1>3. \A p \in Asks : late[p] => late'[p]
  <2>1. late' = late \/ \E p \in Stored : late' = [late EXCEPT ![p] = TRUE]
    BY DEF Drift
  <2> QED
    BY <1>2, <2>1
<1>4. CardsStand'
  BY <1>1, <1>3, NoneStored, SeenWithJob, StandingKeeps DEF CardsInv
<1>5. \A b : Seen(b)' = Seen(b)
  BY <1>1 DEF Seen
<1>6. \A c \in root : late[c.id.of] => late'[c.id.of]
  BY <1>3, RootTyped
<1>7. CopiesBear' /\ ClickStands' /\ TodoStands' /\ ShowingStands'
  BY <1>1 DEF CardsInv, JobStands, CopiesBear, ClickStands, TodoStands, ShowingStands, Found, Clicked
<1>8. CopiesKeep'
  BY <1>1, <1>3, <1>5 DEF CardsInv, JobStands, CopiesKeep, Reading, KeepsCard, NoResultOf
<1>9. AllRegisteredStay'
  BY <1>1 DEF CardsInv, JobStands, AllRegisteredStay, Reading, RegisteredStay
<1>10. SyncReads' /\ SyncShows'
  BY <1>1, <1>6 DEF CardsInv, JobStands, SyncReads, SyncShows
<1> QED
  BY <1>4, <1>7, <1>8, <1>10, <1>9 DEF CardsInv, JobStands

LEMMA StepFailsStands ==
    ASSUME NamingInv, NamingInv', CardsInv, StepFails
    PROVE  CardsInv'
<1>1. /\ Fail /\ root' \subseteq root /\ UNCHANGED <<proposals, World, History>>
  BY DEF StepFails, WithoutCards
<1>2. late' = late /\ shown' = shown
  BY <1>1 DEF World, History
<1>3. \A p \in Asks : Stands(p, proposals'[p], root')
  BY <1>1, NoneStored, FewerCards DEF CardsInv
<1>4. CardsStand'
  BY <1>1, <1>2, <1>3, SeenAtEnd, StandingKeeps DEF CardsInv, JobEnds
<1>5. job' = NoCardJob
  BY <1>1, SeenAtEnd DEF JobEnds
<1> QED
  BY <1>4, <1>5, NoJobStands DEF CardsInv

LEMMA NamingCrashStands ==
    ASSUME NamingInv, NamingInv', CardsInv, NamingCrash
    PROVE  CardsInv'
<1>1. /\ root' = {} /\ queue' = <<>> /\ job' = NoCardJob /\ UNCHANGED <<proposals, World, History>>
  BY DEF NamingCrash
<1>2. late' = late /\ shown' = shown
  BY <1>1 DEF World, History
<1>3. \A b \in MaybeBubble : ~Seen(b)'
  BY <1>1 DEF Seen, NoCardJob, OnCards, Clicks
<1>4. \A p \in Asks : Stands(p, proposals'[p], root')
  BY <1>1, NoneStored, FewerCards DEF CardsInv
<1>5. CardsStand'
  BY <1>1, <1>2, <1>3, <1>4, StandingKeeps DEF CardsInv
<1> QED
  BY <1>1, <1>5, NoJobStands DEF CardsInv

----------------------------------------------------------------------------
(* The cards: the sync.                                                    *)

LEMMA SyncFacts ==
    ASSUME NamingInv, CardsInv, job.kind = "sync"
    PROVE  /\ job \in JobRecords /\ SyncKnowsItsPlace
           /\ \A p \in Asks :
                 /\ Bears(p, job.mine[p]) /\ Bears(p, job.old[p])
                 /\ Sound(p, job.mine[p], granted) /\ Sound(p, job.old[p], granted)
                 /\ job.mine[p].version = job.old[p].version
                 /\ job.mine[p].bubble \in MaybeBubble /\ job.old[p].bubble \in MaybeBubble
<1>1. job \in JobRecords /\ SyncKnowsItsPlace /\ CopiesFollow
  BY DEF NamingInv, JobFits
<1>2. \A p \in Asks : Bears(p, job.mine[p]) /\ Bears(p, job.old[p])
  BY DEF CardsInv, JobStands, CopiesBear
<1>3. \A p \in Asks : /\ Sound(p, job.mine[p], granted) /\ Sound(p, job.old[p], granted)
                      /\ job.mine[p].version = job.old[p].version
  BY <1>1 DEF CopiesFollow
<1>4. \A p \in Asks : job.mine[p].bubble \in MaybeBubble /\ job.old[p].bubble \in MaybeBubble
  BY <1>3, FieldsHeld
<1> QED
  BY <1>1, <1>2, <1>3, <1>4

LEMMA SyncOnStands ==
    ASSUME NamingInv, NamingInv', CardsInv, job'.kind = job.kind, job'.bubble = job.bubble,
           queue' = queue, UNCHANGED Elsewhere, root' \subseteq root,
           \A p \in Asks : Stands(p, proposals'[p], root')
    PROVE  CardsStand'
<1>1. late' = late /\ shown' = shown
  BY DEF Elsewhere, World, History
<1> QED
  BY <1>1, SeenWithJob, StandingKeeps DEF CardsInv

\* What the store and a dismissal leave of a proposal.
LEMMA StoredFields ==
    ASSUME NEW ps, Store(ps), NEW p \in Asks, ps[p] \in Proposal
    PROVE  /\ proposals'[p].status = ps[p].status /\ proposals'[p].bubble = ps[p].bubble
           /\ proposals'[p].dismissal = ps[p].dismissal /\ proposals'[p].card = ps[p].card
           /\ ps[p].status \in {"proposed", "applying"} => proposals'[p] = ps[p]
<1> DEFINE q == ps[p]
<1>1. proposals'[p] = Redacted(q) /\ q \in Proposal
  BY DEF Store
<1>2. q.status \in {"proposed", "applying"} => Redacted(q) = q
  BY DEF Redacted, Terminal
<1> HIDE DEF q
<1>3. /\ proposals'[p].status = q.status /\ proposals'[p].bubble = q.bubble
      /\ proposals'[p].dismissal = q.dismissal /\ proposals'[p].card = q.card
  BY <1>1, RedactedFields
<1> QED
  BY <1>1, <1>2, <1>3 DEF q

LEMMA DismissedFields ==
    ASSUME NEW ps \in [Asks -> Proposal], NEW ids, Dismiss(ps, ids), NEW p \in Asks
    PROVE  /\ proposals'[p].status = ps[p].status
           /\ ps[p].bubble \notin ids => proposals'[p].bubble = ps[p].bubble
<1> DEFINE ds == [r \in Asks |-> Parting(ps[r], ids)]
<1>1. Store(ds) /\ ds[p] = Parting(ps[p], ids) /\ ps[p] \in Proposal
  BY DismissedIsParting DEF Dismiss
<1>2. /\ Parting(ps[p], ids) \in Proposal /\ Parting(ps[p], ids).status = ps[p].status
      /\ ps[p].bubble \notin ids => Parting(ps[p], ids).bubble = ps[p].bubble
  BY <1>1, PartingFields
<1> HIDE DEF ds
<1>3. proposals'[p].status = ds[p].status /\ proposals'[p].bubble = ds[p].bubble
  BY <1>1, <1>2, StoredFields
<1> QED
  BY <1>1, <1>2, <1>3

LEMMA SyncLoadStands ==
    ASSUME NamingInv, NamingInv', CardsInv, SyncLoad
    PROVE  CardsInv'
<1> DEFINE ids == Dismissals(proposals)
           ps == Dismissed(proposals, ids)
<1>1. /\ job.kind = "sync" /\ job.at = "load" /\ Dismiss(proposals, ids)
      /\ UNCHANGED <<named, refused, Elsewhere>>
  BY DEF SyncLoad, InJob
<1>2. root' \subseteq root /\ \A p \in Asks : Stands(p, proposals'[p], root')
  BY <1>1, DismissesStand DEF CardsInv
<1>3. CASE End(<<>>)
  BY <1>1, <1>2, <1>3, EndStands DEF JobEnds
<1>4. CASE /\ queue' = queue
           /\ job' = [job EXCEPT !.at = "scan", !.i = Newest(Stored), !.old = ps, !.mine = ps]
  <2>1. job \in JobRecords /\ job.todo = {}
    BY <1>1, SyncFacts DEF SyncKnowsItsPlace
  <2>2. /\ job'.kind = "sync" /\ job'.bubble = job.bubble /\ job'.at = "scan"
        /\ job'.old = ps /\ job'.mine = ps /\ job'.todo = {}
    BY <1>1, <1>4, <2>1 DEF JobRecords
  <2>3. CardsStand'
    BY <1>1, <1>2, <1>4, <2>2, SyncOnStands
  <2>4. Store(ps) /\ root' = WithoutCards(ids) /\ \A p \in Asks : ps[p] = Parting(proposals[p], ids)
    BY <1>1, DismissedIsParting DEF Dismiss
  <2>5. ASSUME NEW p \in Asks
        PROVE  /\ ps[p] \in Proposal /\ ps[p].dismissal = NoBubble /\ Stands(p, ps[p], root')
               /\ proposals'[p].status = ps[p].status /\ proposals'[p].bubble = ps[p].bubble
               /\ proposals'[p].dismissal = NoBubble
               /\ ps[p].status = "applying" => proposals'[p] = ps[p]
    <3>1. proposals[p] \in Proposal
      BY StoreTyped
    <3>2. proposals[p].dismissal = NoBubble \/ proposals[p].dismissal \in ids
      BY DEF Dismissals
    <3>3. \A c \in root' : c.id \notin ids
      BY <2>4 DEF WithoutCards
    <3> HIDE DEF ps, ids
    <3>4. ps[p] \in Proposal /\ ps[p].dismissal = NoBubble
      BY <2>4, <3>1, <3>2, PartingFields
    <3>5. Stands(p, proposals[p], root)
      BY AsItIs DEF CardsInv
    <3>6. Stands(p, ps[p], root')
      BY <1>2, <2>4, <3>1, <3>3, <3>5, PartingStands
    <3> QED
      BY <2>4, <3>4, <3>6, StoredFields
  <2> HIDE DEF ps, ids
  <2>6. CopiesBear'
    BY <2>2, <2>5 DEF CopiesBear, Stands
  <2>7. SyncReads'
    <3>1. ASSUME NEW c \in root' PROVE late'[c.id.of] \/ c.id = ps[c.id.of].bubble
      <4>1. c.id.of \in Asks /\ c.id # NoBubble
        BY <1>2, RootTyped, CardsApart
      <4>2. late'[c.id.of] \/ c.id \in {proposals'[c.id.of].bubble, proposals'[c.id.of].dismissal}
        BY <2>3 DEF CardsStand, CardsHeld
      <4> QED
        BY <2>5, <4>1, <4>2
    <3> QED
      BY <2>2, <3>1 DEF SyncReads
  <2>8. ASSUME NEW p \in Asks
        PROVE  KeepsCard(p, job.mine[p], job.old[p])' /\ (job.mine[p].status \in Unapplied => NoResultOf(p))'
    <3>1. shown'[p] = shown[p] /\ (Unshown(ps[p]) => shown[p] = 0)
      BY <1>1, <2>5 DEF Elsewhere, History, Stands
    <3>2. KeepsCard(p, job.mine[p], job.old[p])'
      BY <2>2, <2>5, <3>1 DEF KeepsCard, Unshown, Unapplied
    <3>3. ps[p].status \in Unapplied => NoResultOf(p)'
      BY <2>3, <2>5 DEF NoResultOf, CardsStand, AllSeenRight, SeenRight
    <3> QED
      BY <2>2, <3>2, <3>3
  <2>9. CopiesKeep'
    BY <2>8 DEF CopiesKeep
  <2>10. AllRegisteredStay'
    BY <2>2, <2>5 DEF AllRegisteredStay, RegisteredStay
  <2>11. ClickStands' /\ TodoStands' /\ SyncShows' /\ ShowingStands'
    BY <2>2 DEF ClickStands, TodoStands, SyncShows, ShowingStands, Clicks
  <2> QED
    BY <2>3, <2>6, <2>7, <2>9, <2>10, <2>11 DEF CardsInv, JobStands
<1> QED
  BY <1>3, <1>4 DEF SyncLoad

LEMMA SyncEndStands ==
    ASSUME NamingInv, NamingInv', CardsInv, SyncEnd
    PROVE  CardsInv'
BY DismissesStand, EndStands DEF SyncEnd, CardsInv, JobEnds

\* The sync goes on past the proposals it read, with the copies it has.
LEMMA SyncPast ==
    ASSUME NamingInv, NamingInv', CardsInv, job.kind = "sync", job'.kind = "sync",
           job'.mine = job.mine, job'.old = job.old,
           job'.at \in {"end", "obsolete", "deliver", "show", "commit"}, CardsStand',
           SyncReads', TodoStands', SyncShows', ShowingStands'
    PROVE  CardsInv'
<1>1. CopiesBear'
  BY SyncFacts DEF CopiesBear
<1>2. ClickStands' /\ CopiesKeep' /\ AllRegisteredStay'
  BY DEF ClickStands, CopiesKeep, AllRegisteredStay, Reading, Clicks
<1> QED
  BY <1>1, <1>2 DEF CardsInv, JobStands

LEMMA SyncWithoutRegistryStands ==
    ASSUME NamingInv, NamingInv', CardsInv, SyncWithoutRegistry
    PROVE  CardsInv'
<1> DEFINE standing == {"proposed", "applying", "applied"}
           dropped(q) == IF q.status \in standing
                         THEN [q EXCEPT !.status = "conflict", !.dismissal = q.bubble, !.bubble = NoBubble]
                         ELSE [q EXCEPT !.dismissal = IF @ = NoBubble THEN q.bubble ELSE @]
           ps == Replaced([p \in Asks |-> dropped(job.old[p])])
           ids == {job.old[p].bubble : p \in Asks} \ {NoBubble}
<1>1. /\ job.kind = "sync" /\ job.at = "scan" /\ job.todo = {} /\ Dismiss(ps, ids) /\ GoTo("end")
      /\ UNCHANGED <<named, queue, refused, Elsewhere>>
  BY DEF SyncWithoutRegistry, InJob
<1>2. ASSUME NEW q \in Proposal, q.dismissal = NoBubble
      PROVE  LET r == dropped(q)
             IN  /\ r \in Proposal /\ r.version = q.version /\ r.operation = q.operation /\ r.card = q.card
                 /\ r.dismissal = q.bubble /\ r.bubble \in {q.bubble, NoBubble}
                 /\ r.status = IF q.status \in standing THEN "conflict" ELSE q.status
  <2> DEFINE x == [q EXCEPT !.status = "conflict", !.dismissal = q.bubble, !.bubble = NoBubble]
             y == [q EXCEPT !.dismissal = q.bubble]
  <2>1. dropped(q) = IF q.status \in standing THEN x ELSE y
    BY <1>2
  <2>2. q.bubble \in Bubbles \cup {NoBubble}
    BY <1>2 DEF Proposal
  <2>3. /\ x \in Proposal /\ x.version = q.version /\ x.operation = q.operation /\ x.card = q.card
        /\ x.dismissal = q.bubble /\ x.bubble = NoBubble /\ x.status = "conflict"
    BY <1>2, <2>2 DEF Proposal, NamingStatuses
  <2>4. /\ y \in Proposal /\ y.version = q.version /\ y.operation = q.operation /\ y.card = q.card
        /\ y.dismissal = q.bubble /\ y.bubble = q.bubble /\ y.status = q.status
    BY <1>2, <2>2 DEF Proposal
  <2> HIDE DEF x, y, dropped
  <2> QED
    BY <2>1, <2>3, <2>4
<1>3. ASSUME NEW p \in Asks PROVE ps[p] \in Proposal /\ Stands(p, ps[p], root)
  <2> DEFINE q == proposals[p]
  <2>1. q \in Proposal /\ Stands(p, q, root)
    BY StoreTyped, AsItIs DEF CardsInv
  <2>2. ps[p] = IF q = job.old[p] THEN dropped(q) ELSE q
    BY DEF Replaced, Unchanged
  <2>3. ASSUME q = job.old[p] PROVE ps[p] \in Proposal /\ Stands(p, ps[p], root)
    <3>1. q.dismissal = NoBubble
      BY <1>1, <2>3 DEF CardsInv, JobStands, CopiesKeep, Reading, KeepsCard
    <3>2. \A c \in root : c.id.of = p => late[p] \/ c.id = q.bubble
      BY <1>1, <2>3 DEF CardsInv, JobStands, SyncReads
    <3> DEFINE r == dropped(q)
    <3>3. /\ r \in Proposal /\ r.version = q.version /\ r.operation = q.operation /\ r.card = q.card
          /\ r.dismissal = q.bubble /\ r.bubble \in {q.bubble, NoBubble}
          /\ r.status = IF q.status \in standing THEN "conflict" ELSE q.status
      BY <1>2, <2>1, <3>1
    <3> HIDE DEF dropped, ps
    <3>4. ps[p] = r
      BY <2>2, <2>3
    <3> HIDE DEF r, q
    <3>5. Keeps(p, r, root)
      BY <3>2, <3>3 DEF Keeps
    <3>6. Unshown(r) => Unshown(q)
      BY <3>3 DEF Unshown, Unapplied
    <3>7. Stands(p, r, root)
      BY <3>3, <3>5, <3>6, QuietStands DEF CardsInv, q
    <3> QED
      BY <3>3, <3>4, <3>7
  <2> HIDE DEF dropped, ps
  <2> QED
    BY <2>1, <2>2, <2>3
<1>4. ps \in [Asks -> Proposal]
  <2>1. DOMAIN ps = Asks /\ ps = [p \in DOMAIN ps |-> ps[p]]
    BY DEF Replaced
  <2> HIDE DEF ps
  <2> QED
    BY <1>3, <2>1
<1> HIDE DEF ps, ids
<1>5. root' \subseteq root /\ \A p \in Asks : Stands(p, proposals'[p], root')
  BY <1>1, <1>3, <1>4, DismissStands
<1>6. /\ job'.kind = "sync" /\ job'.bubble = job.bubble /\ job'.at = "end"
      /\ job'.mine = job.mine /\ job'.old = job.old /\ job'.todo = {}
  BY <1>1, SyncFacts DEF GoTo, JobRecords
<1>7. CardsStand'
  BY <1>1, <1>5, <1>6, SyncOnStands
<1>8. SyncReads' /\ TodoStands' /\ SyncShows' /\ ShowingStands'
  BY <1>6 DEF SyncReads, TodoStands, SyncShows, ShowingStands
<1> QED
  BY <1>1, <1>6, <1>7, <1>8, SyncPast

LEMMA AskingFields ==
    ASSUME NEW q \in Proposal, NEW b \in Bubbles, NEW r, r = [q EXCEPT !.bubble = b]
    PROVE  /\ r \in Proposal /\ r.status = q.status /\ r.bubble = b /\ r.dismissal = q.dismissal
           /\ r.operation = q.operation /\ r.card = q.card
BY DEF Proposal

\* What a scan makes of the copy q of proposal p, read as o.
ScanMakes(p, q, o, r) ==
    /\ Bears(p, r) /\ KeepsCard(p, r, o)
    /\ r.status \in Unapplied => q.status \in Unapplied

LEMMA EndedMakes ==
    ASSUME NamingInv, NEW p \in Asks, NEW q \in Proposal, NEW o, Bears(p, q), KeepsCard(p, q, o),
           NEW s \in {"conflict", "expired"}, NEW r, r.status = s, r.bubble = NoBubble,
           r.dismissal = q.dismissal, r.operation = q.operation
    PROVE  ScanMakes(p, q, o, r)
<1>1. Bears(p, r)
  BY DEF Bears
<1>2. KeepsCard(p, r, o)
  BY DEF KeepsCard, Unshown, Unapplied
<1> QED
  BY <1>1, <1>2 DEF ScanMakes, Unapplied

LEMMA ScannedMakes ==
    ASSUME NamingInv, NEW p \in Asks, NEW q, NEW o, Sound(p, q, granted), Sound(p, o, granted),
           q.version = o.version, Bears(p, q), Bears(p, o), KeepsCard(p, q, o),
           q.status \in Unapplied => NoResultOf(p)
    PROVE  ScanMakes(p, q, o, Scanned(p, q))
<1> DEFINE late1 == [q EXCEPT !.status = "expired", !.bubble = NoBubble]
           asking == [q EXCEPT !.bubble = ConfirmId(p, q.version)]
           resolved == [InConflict(q) EXCEPT !.card = "resolved"]
           over == [q EXCEPT !.card = "expired", !.dismissal = q.bubble]
<1>1. q \in Proposal /\ q.version \in Nat /\ q.version <= MaxNameVersions /\ q.bubble \in MaybeBubble
      /\ q.status \in NamingStatuses /\ (q.version = 0 <=> q.status = "absent") /\ o.bubble \in MaybeBubble
  BY FieldsHeld
<1>2. ScanMakes(p, q, o, q)
  BY DEF ScanMakes
<1>3. ScanMakes(p, q, o, late1) /\ ScanMakes(p, q, o, InConflict(q))
  <2>1. "expired" \in NamingStatuses /\ "conflict" \in NamingStatuses
    BY DEF NamingStatuses
  <2>2. /\ late1.status = "expired" /\ late1.bubble = NoBubble /\ late1.dismissal = q.dismissal
        /\ late1.operation = q.operation
    BY <1>1, <2>1 DEF Proposal
  <2>3. PICK t : t = InConflict(q)
    OBVIOUS
  <2>4. t.status = "conflict" /\ t.bubble = NoBubble /\ t.dismissal = q.dismissal /\ t.operation = q.operation
    BY <1>1, <2>1, <2>3 DEF InConflict, Proposal
  <2> HIDE DEF late1
  <2> QED
    BY <1>1, <2>2, <2>3, <2>4, EndedMakes
<1>4. ScanMakes(p, q, o, resolved)
  <2>1. PICK t : t = InConflict(q)
    OBVIOUS
  <2>2. "conflict" \in NamingStatuses /\ "resolved" \in Cards
    BY DEF NamingStatuses, Cards
  <2>3. /\ t \in Proposal /\ t.status = "conflict" /\ t.bubble = NoBubble /\ t.dismissal = q.dismissal
        /\ t.operation = q.operation
    BY <1>1, <2>1, <2>2 DEF InConflict, Proposal
  <2>4. PICK r : r = [t EXCEPT !.card = "resolved"]
    OBVIOUS
  <2>5. r.status = "conflict" /\ r.bubble = NoBubble /\ r.dismissal = q.dismissal /\ r.operation = q.operation
    BY <2>2, <2>3, <2>4, CardFields
  <2> QED
    BY <1>1, <2>1, <2>4, <2>5, EndedMakes
<1>5. ASSUME q.status = "proposed" PROVE ScanMakes(p, q, o, asking)
  <2>1. q.version \in 1 .. MaxNameVersions
    BY <1>1, <1>5, NamingAssumption
  <2>2. PICK b : b = ConfirmId(p, q.version)
    OBVIOUS
  <2>3. b \in Bubbles /\ b.kind = "confirm" /\ b.of = p
    BY <2>1, <2>2 DEF ConfirmId, Bubbles
  <2>4. PICK r : r = asking
    OBVIOUS
  <2>5. r.status = "proposed" /\ r.bubble = b /\ r.dismissal = q.dismissal /\ r.operation = q.operation
        /\ r.card = q.card
    BY <1>1, <1>5, <2>2, <2>3, <2>4, AskingFields
  <2>6. Bears(p, r)
    BY <2>3, <2>5 DEF Bears
  <2>7. o.bubble \in {NoBubble, b}
    <3>1. o.status = "proposed"
      BY <1>5 DEF KeepsCard, Unapplied
    <3>2. o.bubble = NoBubble \/ o.bubble.kind = "confirm"
      BY <1>1, <3>1, CardsApart DEF Bears, MaybeBubble
    <3> QED
      BY <2>2, <3>2 DEF Sound
  <2>8. KeepsCard(p, r, o)
    BY <1>5, <2>5, <2>7 DEF KeepsCard, Unshown, Unapplied
  <2> QED
    BY <1>5, <2>4, <2>6, <2>8 DEF ScanMakes, Unapplied
<1>6. ASSUME q.status = "applied", ~CanUndo(p, q) PROVE ScanMakes(p, q, o, over)
  <2>1. late[p]
    BY <1>6, LateWithoutUndo
  <2>2. "expired" \in Cards
    BY DEF Cards
  <2>3. PICK r : r = over
    OBVIOUS
  <2>4. /\ r.status = "applied" /\ r.bubble = q.bubble /\ r.dismissal = q.bubble
        /\ r.operation = q.operation /\ r.card = "expired"
    BY <1>1, <1>6, <2>2, <2>3 DEF Proposal
  <2>5. Bears(p, r) /\ KeepsCard(p, r, o)
    BY <1>6, <2>1, <2>4 DEF Bears, KeepsCard, Unshown, Unapplied
  <2> QED
    BY <2>3, <2>4, <2>5 DEF ScanMakes, Unapplied
<1>7. ASSUME q.status = "applying" PROVE ScanMakes(p, q, o, Applied(p, q))
  <2>1. PICK r : r = Applied(p, q)
    OBVIOUS
  <2>2. /\ r.status = "applied" /\ r.operation /\ r.dismissal = q.bubble /\ r.card = "pending"
        /\ r.bubble \in MaybeBubble /\ r.bubble.kind = "result" /\ r.bubble.of = p
    BY <1>1, <1>7, <2>1, AppliedFields
  <2>3. ~Seen(r.bubble)
    BY <1>7, <2>2 DEF Unapplied, NoResultOf
  <2>4. Bears(p, r)
    BY <2>2 DEF Bears
  <2>5. /\ q.bubble = o.bubble /\ o.status = "applying" /\ shown[p] = 0 /\ o.dismissal = NoBubble
    BY <1>7 DEF KeepsCard, Unshown, Unapplied
  <2>6. KeepsCard(p, r, o)
    BY <2>2, <2>3, <2>5 DEF KeepsCard, Unapplied
  <2> QED
    BY <2>1, <2>2, <2>4, <2>6 DEF ScanMakes, Unapplied
<1>8. \/ Scanned(p, q) \in {q, late1, InConflict(q), resolved}
      \/ q.status = "proposed" /\ Scanned(p, q) = asking
      \/ q.status = "applied" /\ ~CanUndo(p, q) /\ Scanned(p, q) = over
      \/ q.status = "applying" /\ Scanned(p, q) = Applied(p, q)
  <2>1. CASE q.status = "proposed"
    BY <2>1 DEF Scanned
  <2>2. CASE q.status = "applying"
    BY <2>2 DEF Scanned
  <2>3. CASE q.status = "applied"
    BY <2>3 DEF Scanned
  <2>4. CASE q.status \notin {"proposed", "applying", "applied"}
    BY <2>4 DEF Scanned
  <2> QED
    BY <2>1, <2>2, <2>3, <2>4
<1> HIDE DEF late1, asking, resolved, over
<1> QED
  BY <1>2, <1>3, <1>4, <1>5, <1>6, <1>7, <1>8

LEMMA SyncScanStands ==
    ASSUME NamingInv, NamingInv', CardsInv, SyncScan
    PROVE  CardsInv'
<1> DEFINE p == job.i
           q == job.mine[p]
           to == Scanned(p, q)
           asks == to.status = "proposed" /\ evidence[p] # "unsourced"
           below == Below(p, InHand)
           at == IF below = 0 THEN "write" ELSE "scan"
<1>1. /\ job.kind = "sync" /\ job.at = "scan"
      /\ job' = [job EXCEPT !.mine[p] = to, !.todo = IF asks THEN @ \cup {p} ELSE @,
                            !.i = below, !.at = at]
      /\ UNCHANGED <<proposals, root, queue, refused, Elsewhere>>
  BY DEF SyncScan, InJob
<1>2. job \in JobRecords /\ SyncKnowsItsPlace
  BY <1>1, SyncFacts
<1>3. p \in Asks /\ p \notin job.todo
  <2>1. p \in Asks /\ \A r \in job.todo : r > p
    BY <1>1, <1>2 DEF SyncKnowsItsPlace
  <2>2. ~(p > p)
    BY <2>1
  <2> QED
    BY <2>1, <2>2
<1>4. ScanMakes(p, q, job.old[p], to)
  <2>1. KeepsCard(p, q, job.old[p]) /\ (q.status \in Unapplied => NoResultOf(p))
    BY <1>1, <1>3 DEF CardsInv, JobStands, CopiesKeep, Reading
  <2> QED
    BY <1>1, <1>3, <2>1, SyncFacts, ScannedMakes
<1> HIDE DEF to, below
<1>5. at \in {"write", "scan"}
  OBVIOUS
<1>6. /\ job'.kind = "sync" /\ job'.bubble = job.bubble /\ job'.at = at /\ job'.old = job.old
      /\ job'.mine = [job.mine EXCEPT ![p] = to]
      /\ job'.todo = IF asks THEN job.todo \cup {p} ELSE job.todo
  BY <1>1, <1>2 DEF JobRecords
<1>7. ASSUME NEW r \in Asks PROVE job'.mine[r] = IF r = p THEN to ELSE job.mine[r]
  BY <1>2, <1>6 DEF JobRecords
<1> HIDE DEF at
<1>8. CardsStand'
  BY <1>1, <1>6, NoneStored, SyncOnStands DEF CardsInv
<1>9. late' = late /\ shown' = shown /\ \A b : Seen(b)' = Seen(b)
  BY <1>1, <1>6 DEF Elsewhere, World, History, Seen
<1>10. CopiesBear'
  BY <1>1, <1>4, <1>6, <1>7, SyncFacts DEF CopiesBear, ScanMakes
<1>11. SyncReads'
  BY <1>1, <1>6, <1>9 DEF CardsInv, JobStands, SyncReads
<1>12. CopiesKeep'
  <2>1. ASSUME NEW r \in Asks
        PROVE  /\ KeepsCard(r, job.mine[r], job.old[r])'
               /\ (job.mine[r].status \in Unapplied)' => NoResultOf(r)'
    <3>1. KeepsCard(r, job.mine[r], job.old[r]) /\ (job.mine[r].status \in Unapplied => NoResultOf(r))
      BY <1>1 DEF CardsInv, JobStands, CopiesKeep, Reading
    <3>2. NoResultOf(r)' = NoResultOf(r)
      BY <1>9 DEF NoResultOf
    <3>3. CASE r = p
      <4>1. KeepsCard(p, to, job.old[p]) /\ (to.status \in Unapplied => q.status \in Unapplied)
        BY <1>4 DEF ScanMakes
      <4>2. job'.mine[r] = to
        BY <1>7, <3>3
      <4> QED
        BY <1>6, <1>9, <3>1, <3>2, <3>3, <4>1, <4>2 DEF KeepsCard, Unshown
    <3>4. CASE r # p
      <4>1. job'.mine[r] = job.mine[r]
        BY <1>7, <3>4
      <4> QED
        BY <1>6, <1>9, <3>1, <3>2, <4>1 DEF KeepsCard, Unshown
    <3> QED
      BY <3>3, <3>4
  <2> QED
    BY <2>1 DEF CopiesKeep
<1>13. AllRegisteredStay'
  BY <1>1, <1>5, <1>6 DEF CardsInv, JobStands, AllRegisteredStay, RegisteredStay, Reading
<1>14. TodoStands'
  <2>1. ASSUME NEW r \in job'.todo PROVE job'.mine[r].status \in {"proposed", "applied"}
    <3>1. CASE r = p
      BY <1>3, <1>6, <1>7, <3>1
    <3>2. CASE r # p
      <4>1. r \in job.todo /\ r \in Asks
        BY <1>2, <1>6, <3>2 DEF JobRecords
      <4> QED
        BY <1>1, <1>7, <3>2, <4>1 DEF CardsInv, JobStands, TodoStands
    <3> QED
      BY <3>1, <3>2
  <2> QED
    BY <1>5, <1>6, <2>1 DEF TodoStands, Written
<1>15. ClickStands' /\ SyncShows' /\ ShowingStands'
  BY <1>5, <1>6 DEF ClickStands, SyncShows, ShowingStands, Clicks
<1> QED
  BY <1>8, <1>10, <1>11, <1>12, <1>13, <1>14, <1>15 DEF CardsInv, JobStands

\* What is written of a proposal that is as the sync read it.
LEMMA PartedFields ==
    ASSUME NEW p, job.mine[p] \in Proposal, job.old[p].bubble \in MaybeBubble,
           NEW r, r = Parted(p)
    PROVE  LET m == job.mine[p]
               o == job.old[p]
           IN  /\ r \in Proposal /\ r.version = m.version /\ r.status = m.status /\ r.bubble = m.bubble
               /\ r.card = m.card /\ r.operation = m.operation
               /\ r.dismissal = IF m.dismissal = NoBubble /\ m.bubble # o.bubble THEN o.bubble ELSE m.dismissal
<1> DEFINE m == job.mine[p]
           b == job.old[p].bubble
           x == [m EXCEPT !.dismissal = b]
<1>1. m \in Proposal /\ b \in MaybeBubble /\ r = IF m.dismissal = NoBubble /\ m.bubble # b THEN x ELSE m
  BY DEF Parted
<1> HIDE DEF m, b
<1>2. /\ x \in Proposal /\ x.version = m.version /\ x.status = m.status /\ x.bubble = m.bubble
      /\ x.dismissal = b /\ x.card = m.card /\ x.operation = m.operation
  BY <1>1, StaleFields
<1> HIDE DEF x
<1>3. /\ r \in Proposal /\ r.version = m.version /\ r.status = m.status /\ r.bubble = m.bubble
      /\ r.card = m.card /\ r.operation = m.operation
      /\ r.dismissal = IF m.dismissal = NoBubble /\ m.bubble # b THEN b ELSE m.dismissal
  BY <1>1, <1>2
<1> QED
  BY <1>3 DEF m, b

LEMMA PartedStands ==
    ASSUME NamingInv, CardsInv, job.kind = "sync", job.at = "write", NEW p \in Asks, Unchanged(p),
           NEW r, r = Parted(p)
    PROVE  r \in Proposal /\ Stands(p, r, root) /\ r.bubble = job.mine[p].bubble /\ r.status = job.mine[p].status
<1> DEFINE m == job.mine[p]
           o == job.old[p]
<1>1. proposals[p] = o
  BY DEF Unchanged
<1>2. /\ Bears(p, m) /\ Bears(p, o) /\ Sound(p, m, granted) /\ Sound(p, o, granted) /\ m.version = o.version
      /\ o.bubble \in MaybeBubble /\ m \in Proposal
  BY SyncFacts DEF Sound
<1>3. KeepsCard(p, m, o)
  BY DEF CardsInv, JobStands, CopiesKeep, Reading
<1>4. \A c \in root : c.id.of = p => late[p] \/ c.id = o.bubble
  BY DEF CardsInv, JobStands, SyncReads
<1>5. /\ r \in Proposal /\ r.version = m.version /\ r.status = m.status /\ r.bubble = m.bubble
      /\ r.card = m.card /\ r.operation = m.operation
      /\ r.dismissal = IF m.dismissal = NoBubble /\ m.bubble # o.bubble THEN o.bubble ELSE m.dismissal
  BY <1>2, PartedFields
<1>6. \A c \in root : c.id # NoBubble
  BY RootTyped, CardsApart
<1> HIDE DEF m, o
<1>7. Bears(p, r) /\ (Unshown(r) => shown[p] = 0)
  BY <1>2, <1>3, <1>5 DEF Bears, KeepsCard, Unshown
<1>8. o.status \notin Unapplied => r.status \notin Unapplied
  BY <1>3, <1>5 DEF KeepsCard
<1>9. Keeps(p, r, root)
  BY <1>3, <1>4, <1>5 DEF Keeps, KeepsCard
<1>10. Alone(p, r, root)
  <2>1. CASE o.bubble = NoBubble
    BY <1>4, <1>6, <2>1 DEF Alone
  <2>2. CASE o.bubble # NoBubble
    BY <1>1, <1>3, <1>5, <2>2 DEF Alone, KeepsCard
  <2> QED
    BY <2>1, <2>2
<1>11. Stands(p, r, root)
  BY <1>1, <1>2, <1>5, <1>7, <1>8, <1>9, <1>10 DEF Stands
<1> QED
  BY <1>5, <1>11 DEF m

LEMMA SyncWriteStands ==
    ASSUME NamingInv, NamingInv', CardsInv, SyncWrite
    PROVE  CardsInv'
<1> DEFINE n == Newest(Registered(job.mine))
           ps == Replaced([r \in Asks |-> Parted(r)])
           todo == {r \in job.todo : Unchanged(r)}
           at == IF n = 0 THEN "obsolete" ELSE "record"
<1>1. /\ job.kind = "sync" /\ job.at = "write" /\ Store(ps)
      /\ job' = [job EXCEPT !.at = at, !.i = n, !.todo = todo]
      /\ UNCHANGED <<named, root, queue, refused, Elsewhere>>
  BY DEF SyncWrite, InJob
<1>2. ASSUME NEW p \in Asks
      PROVE  /\ ps[p] \in Proposal /\ Stands(p, ps[p], root)
             /\ Unchanged(p) => ps[p].bubble = job.mine[p].bubble /\ ps[p].status = job.mine[p].status
             /\ ~Unchanged(p) => ps[p] = proposals[p]
  <2>1. ps[p] = IF Unchanged(p) THEN Parted(p) ELSE proposals[p]
    BY DEF Replaced
  <2> HIDE DEF ps
  <2>2. PICK r : r = Parted(p)
    OBVIOUS
  <2>3. Unchanged(p) => /\ r \in Proposal /\ Stands(p, r, root)
                        /\ r.bubble = job.mine[p].bubble /\ r.status = job.mine[p].status
    BY <1>1, <2>2, PartedStands
  <2>4. proposals[p] \in Proposal /\ Stands(p, proposals[p], root)
    BY StoreTyped, AsItIs DEF CardsInv
  <2> QED
    BY <2>1, <2>2, <2>3, <2>4
<1>3. ps \in [Asks -> Proposal]
  <2>1. DOMAIN ps = Asks /\ ps = [p \in DOMAIN ps |-> ps[p]]
    BY DEF Replaced
  <2> HIDE DEF ps
  <2> QED
    BY <1>2, <2>1
<1>4. at \in {"obsolete", "record"}
  OBVIOUS
<1> HIDE DEF ps, n, at
<1>5. /\ job \in JobRecords /\ job'.kind = "sync" /\ job'.bubble = job.bubble /\ job'.at = at
      /\ job'.mine = job.mine /\ job'.old = job.old /\ job'.todo = todo
  BY <1>1, SyncFacts DEF JobRecords
<1>6. \A p \in Asks : Stands(p, proposals'[p], root)
  BY <1>1, <1>2, <1>3, StoreStands
<1>7. CardsStand'
  BY <1>1, <1>5, <1>6, SyncOnStands
<1>8. late' = late /\ shown' = shown /\ \A b : Seen(b)' = Seen(b)
  BY <1>1, <1>5 DEF Elsewhere, World, History, Seen
<1>9. \A p \in Asks : proposals'[p].bubble = ps[p].bubble /\ proposals'[p].status = ps[p].status
  BY <1>1, <1>2, StoredFields
<1>10. CopiesBear'
  BY <1>1, <1>5, SyncFacts DEF CopiesBear
<1>11. SyncReads'
  BY <1>1, <1>5, <1>8 DEF CardsInv, JobStands, SyncReads
<1>12. CopiesKeep'
  <2>1. ASSUME NEW p \in Asks PROVE KeepsCard(p, job.mine[p], job.old[p])'
    <3>1. KeepsCard(p, job.mine[p], job.old[p])
      BY <1>1 DEF CardsInv, JobStands, CopiesKeep, Reading
    <3> QED
      BY <1>5, <1>8, <3>1 DEF KeepsCard, Unshown
  <2> QED
    BY <1>4, <1>5, <2>1 DEF CopiesKeep
<1>13. AllRegisteredStay'
  <2>1. ASSUME NEW p \in Asks, job.mine[p].status = "applied" PROVE proposals'[p].status = "applied"
    <3>1. KeepsCard(p, job.mine[p], job.old[p]) /\ RegisteredStay(p)
      BY <1>1 DEF CardsInv, JobStands, CopiesKeep, AllRegisteredStay, Reading
    <3>2. Unchanged(p) \/ proposals[p].status = "applied"
      BY <1>1, <2>1, <3>1 DEF KeepsCard, RegisteredStay, Unchanged
    <3> QED
      BY <1>2, <1>9, <2>1, <3>2
  <2> QED
    BY <1>4, <1>5, <2>1 DEF AllRegisteredStay, RegisteredStay, Reading
<1>14. TodoStands'
  <2>1. ASSUME NEW p \in todo
        PROVE  job.mine[p].status \in {"proposed", "applied"} /\ proposals'[p].bubble = job.mine[p].bubble
    <3>1. p \in job.todo /\ Unchanged(p) /\ p \in Asks
      BY <1>5 DEF JobRecords
    <3> QED
      BY <1>1, <1>2, <1>9, <3>1 DEF CardsInv, JobStands, TodoStands
  <2> HIDE DEF todo
  <2> QED
    BY <1>5, <2>1 DEF TodoStands
<1>15. ClickStands' /\ SyncShows' /\ ShowingStands'
  BY <1>4, <1>5 DEF ClickStands, SyncShows, ShowingStands, Clicks
<1> QED
  BY <1>7, <1>10, <1>11, <1>12, <1>13, <1>14, <1>15 DEF CardsInv, JobStands

\* What the result record makes of the copy q, and of the proposal s in the store.
RecordedAs(p, q, r) ==
    /\ r \in Proposal /\ r.status = q.status /\ r.bubble = q.bubble /\ r.operation = q.operation
    /\ r.card \in {q.card, "expired"} /\ r.card \in Cards /\ r.dismissal \in MaybeBubble
    /\ r.record \in {"none", "pending", "recorded"}
    /\ late[p] \/ r.dismissal = q.dismissal

LEMMA RecordedFields ==
    ASSUME NEW p, NEW q \in Proposal, Bears(p, q), q.status = "applied", NEW r,
           r = IF CanUndo(p, q) THEN [q EXCEPT !.record = "recorded"]
               ELSE [q EXCEPT !.record = "recorded", !.card = "expired",
                              !.dismissal = IF q.card # "expired" THEN q.bubble ELSE @]
    PROVE  RecordedAs(p, q, r)
<1> DEFINE b == IF q.card # "expired" THEN q.bubble ELSE q.dismissal
           kept == [q EXCEPT !.record = "recorded"]
           over == [q EXCEPT !.record = "recorded", !.card = "expired", !.dismissal = b]
<1>1. q.bubble \in MaybeBubble /\ q.dismissal \in MaybeBubble
  BY DEF Proposal, MaybeBubble
<1>2. b \in MaybeBubble
  BY <1>1
<1>3. (CanUndo(p, q) /\ r = kept) \/ (late[p] /\ r = over)
  BY LateWithoutUndo
<1>4. /\ kept \in Proposal /\ kept.status = q.status /\ kept.bubble = q.bubble
      /\ kept.operation = q.operation /\ kept.card = q.card /\ kept.card \in Cards
      /\ kept.dismissal = q.dismissal /\ kept.record = "recorded"
  BY DEF Proposal
<1> HIDE DEF b
<1>5. /\ over \in Proposal /\ over.status = q.status /\ over.bubble = q.bubble
      /\ over.operation = q.operation /\ over.card = "expired" /\ over.card \in Cards
      /\ over.dismissal = b /\ over.record = "recorded"
  BY <1>2 DEF Proposal, MaybeBubble, Cards
<1> HIDE DEF kept, over
<1> QED
  BY <1>1, <1>2, <1>3, <1>4, <1>5 DEF RecordedAs

LEMMA RecordStands ==
    ASSUME NamingInv, CardsInv, job.kind = "sync", job.at = "record", NEW p \in Asks,
           job.mine[p].status = "applied", NEW to, RecordedAs(p, job.mine[p], to), NEW x,
           x = [proposals[p] EXCEPT !.record = to.record, !.card = to.card, !.bubble = to.bubble,
                                    !.dismissal = to.dismissal]
    PROVE  x \in Proposal /\ Stands(p, x, root)
<1> DEFINE q == job.mine[p]
           o == job.old[p]
           s == proposals[p]
<1>1. s \in Proposal /\ Bears(p, s) /\ s.status = "applied"
  BY StoreTyped DEF CardsInv, CardsStand, AllBear, JobStands, AllRegisteredStay, RegisteredStay, Reading
<1>2. Bears(p, q) /\ q.bubble \in MaybeBubble /\ KeepsCard(p, q, o)
  BY SyncFacts DEF CardsInv, JobStands, CopiesKeep, Reading
<1>3. \A c \in root : c.id.of = p => c.id # NoBubble /\ (late[p] \/ c.id = o.bubble)
  BY RootTyped, CardsApart DEF CardsInv, JobStands, SyncReads
<1>4. q.status = "applied" /\ RecordedAs(p, q, to)
  OBVIOUS
<1> HIDE DEF q, o, s
<1>5. /\ x \in Proposal /\ x.version = s.version /\ x.status = s.status /\ x.operation = s.operation
      /\ x.card = to.card /\ x.bubble = to.bubble /\ x.dismissal = to.dismissal
  <2>1. to.bubble \in MaybeBubble
    BY <1>2, <1>4 DEF RecordedAs
  <2> QED
    BY <1>1, <1>4, <2>1 DEF Proposal, MaybeBubble, RecordedAs, s
<1>6. Bears(p, x)
  BY <1>1, <1>2, <1>4, <1>5 DEF Bears, RecordedAs
<1>7. Unshown(x) => shown[p] = 0
  BY <1>1, <1>2, <1>4, <1>5 DEF Unshown, Unapplied, KeepsCard, RecordedAs
<1>8. Keeps(p, x, root)
  BY <1>2, <1>3, <1>4, <1>5 DEF Keeps, KeepsCard, RecordedAs
<1>9. Alone(p, x, root)
  <2>1. CASE late[p] \/ o.bubble = NoBubble
    BY <1>3, <2>1 DEF Alone
  <2>2. CASE ~late[p] /\ o.bubble # NoBubble
    BY <1>2, <1>3, <1>4, <1>5, <2>2 DEF Alone, KeepsCard, RecordedAs
  <2> QED
    BY <2>1, <2>2
<1>10. Stands(p, x, root)
  BY <1>1, <1>5, <1>6, <1>7, <1>8, <1>9 DEF Stands, Unapplied, s
<1> QED
  BY <1>5, <1>10

LEMMA ResultRecordStands ==
    ASSUME NamingInv, NamingInv', CardsInv, ResultRecord
    PROVE  CardsInv'
<1> DEFINE p == job.i
           q == job.mine[p]
           to == IF CanUndo(p, q) THEN [q EXCEPT !.record = "recorded"]
                 ELSE [q EXCEPT !.record = "recorded", !.card = "expired",
                                !.dismissal = IF q.card # "expired" THEN q.bubble ELSE @]
           below == Below(p, Registered(job.mine))
           s == proposals[p]
           x == IF to = q THEN s
                ELSE [s EXCEPT !.record = to.record, !.card = to.card, !.bubble = to.bubble,
                               !.dismissal = to.dismissal]
           more == IF CanUndo(p, q) /\ q.card \in {"pending", "delivering"} THEN job.todo \cup {p} ELSE job.todo
           at == IF below = 0 THEN "obsolete" ELSE "record"
<1>1. job.kind = "sync" /\ job.at = "record" /\ UNCHANGED <<named, root, refused, Elsewhere>>
  BY DEF ResultRecord, InJob
<1>2. job \in JobRecords /\ SyncKnowsItsPlace
  BY <1>1, SyncFacts
<1>3. p \in Asks /\ q.status = "applied"
  BY <1>1, <1>2 DEF SyncKnowsItsPlace
<1>4. CASE Fail /\ UNCHANGED proposals
  BY <1>1, <1>4, NoneStored, EndStands DEF CardsInv, JobEnds
<1>5. CASE /\ Store([proposals EXCEPT ![p] = x])
           /\ job' = [job EXCEPT !.i = below, !.at = at, !.mine[p] = to, !.todo = more]
           /\ queue' = queue
  <2>1. q \in Proposal /\ Bears(p, q) /\ KeepsCard(p, q, job.old[p])
    BY <1>1, <1>3, SyncFacts DEF Sound, CardsInv, JobStands, CopiesKeep, Reading
  <2>2. RecordedAs(p, q, to)
    <3> HIDE DEF q
    <3> QED
      BY <1>3, <2>1, RecordedFields
  <2>3. at \in {"obsolete", "record"} /\ \A r \in more : r = p \/ r \in job.todo
    OBVIOUS
  <2> HIDE DEF below, at, more
  <2>4. x \in Proposal /\ Stands(p, x, root)
    <3>1. CASE to = q
      BY <1>3, <3>1, StoreTyped, AsItIs DEF CardsInv
    <3>2. CASE to # q
      <4>1. PICK y : y = [s EXCEPT !.record = to.record, !.card = to.card, !.bubble = to.bubble,
                                   !.dismissal = to.dismissal]
        OBVIOUS
      <4>2. x = y
        BY <3>2, <4>1
      <4> HIDE DEF to, x
      <4> QED
        BY <1>1, <1>3, <2>2, <4>1, <4>2, RecordStands
    <3> QED
      BY <3>1, <3>2
  <2> HIDE DEF to, x
  <2>5. /\ job'.kind = "sync" /\ job'.bubble = job.bubble /\ job'.at = at /\ job'.old = job.old
        /\ job'.mine = [job.mine EXCEPT ![p] = to] /\ job'.todo = more
    BY <1>1, <1>2, <1>5 DEF JobRecords
  <2>6. ASSUME NEW r \in Asks PROVE job'.mine[r] = IF r = p THEN to ELSE job.mine[r]
    BY <1>2, <2>5 DEF JobRecords
  <2>7. \A r \in Asks : Stands(r, proposals'[r], root)
    BY <1>3, <1>5, <2>4, OneStored DEF CardsInv
  <2>8. CardsStand'
    BY <1>1, <1>5, <2>5, <2>7, SyncOnStands
  <2>9. late' = late /\ shown' = shown /\ \A b : Seen(b)' = Seen(b)
    BY <1>1, <1>5, <2>5 DEF Elsewhere, World, History, Seen
  <2>10. ASSUME NEW r \in Asks
         PROVE  /\ proposals'[r].status = proposals[r].status
                /\ r # p => proposals'[r].bubble = proposals[r].bubble
    <3> DEFINE ps == [proposals EXCEPT ![p] = x]
    <3>1. ps[r] = IF r = p THEN x ELSE proposals[r]
      BY DEF NamingInv, StoreHeld
    <3>2. Store(ps)
      BY <1>5
    <3> HIDE DEF ps
    <3>3. proposals'[r].status = ps[r].status /\ proposals'[r].bubble = ps[r].bubble
      BY <2>4, <3>1, <3>2, StoreTyped, StoredFields
    <3>4. x.status = s.status
      <4>1. s \in Proposal
        BY <1>3, StoreTyped
      <4> HIDE DEF s
      <4> QED
        BY <4>1 DEF x, Proposal
    <3> QED
      BY <3>1, <3>3, <3>4
  <2>11. CopiesBear'
    <3>1. Bears(p, to)
      BY <2>1, <2>2 DEF Bears, RecordedAs
    <3> QED
      BY <1>1, <2>5, <2>6, <3>1, SyncFacts DEF CopiesBear
  <2>12. SyncReads'
    BY <1>1, <2>3, <2>5, <2>9 DEF CardsInv, JobStands, SyncReads
  <2>13. CopiesKeep'
    <3>1. ASSUME NEW r \in Asks PROVE KeepsCard(r, job.mine[r], job.old[r])'
      <4>1. KeepsCard(r, job.mine[r], job.old[r])
        BY <1>1 DEF CardsInv, JobStands, CopiesKeep, Reading
      <4>2. CASE r # p
        <5>1. job'.mine[r] = job.mine[r]
          BY <2>6, <4>2
        <5> QED
          BY <2>5, <2>9, <4>1, <5>1 DEF KeepsCard, Unshown
      <4>3. CASE r = p
        <5>1. job'.mine[r] = to
          BY <2>6, <4>3
        <5>2. KeepsCard(p, to, job.old[p])
          <6> HIDE DEF q
          <6> QED
            BY <1>3, <2>1, <2>2 DEF KeepsCard, RecordedAs, Unshown, Unapplied
        <5> QED
          BY <2>5, <2>9, <4>3, <5>1, <5>2 DEF KeepsCard, Unshown
      <4> QED
        BY <4>2, <4>3
    <3> QED
      BY <2>3, <2>5, <3>1 DEF CopiesKeep
  <2>14. AllRegisteredStay'
    <3>1. ASSUME NEW r \in Asks, job'.mine[r].status = "applied" PROVE proposals'[r].status = "applied"
      <4>1. job.mine[r].status = "applied"
        BY <1>3, <2>6, <3>1
      <4>2. proposals[r].status = "applied"
        BY <1>1, <4>1 DEF CardsInv, JobStands, AllRegisteredStay, RegisteredStay, Reading
      <4> QED
        BY <2>10, <4>2
    <3> QED
      BY <2>3, <2>5, <3>1 DEF AllRegisteredStay, RegisteredStay, Reading
  <2>15. TodoStands'
    <3>1. ASSUME NEW r \in more
          PROVE  /\ job'.mine[r].status \in {"proposed", "applied"}
                 /\ job'.mine[r].status = "proposed" => proposals'[r].bubble = job'.mine[r].bubble
      <4>1. CASE r = p
        BY <1>3, <2>2, <2>6, <4>1 DEF RecordedAs
      <4>2. CASE r # p
        <5>1. r \in job.todo /\ r \in Asks
          BY <1>2, <2>3, <4>2 DEF JobRecords
        <5>2. /\ job.mine[r].status \in {"proposed", "applied"}
              /\ job.mine[r].status = "proposed" => proposals[r].bubble = job.mine[r].bubble
          BY <1>1, <5>1 DEF CardsInv, JobStands, TodoStands, Written
        <5> QED
          BY <2>6, <2>10, <4>2, <5>1, <5>2
      <4> QED
        BY <4>1, <4>2
    <3> QED
      BY <2>5, <3>1 DEF TodoStands
  <2>16. ClickStands' /\ SyncShows' /\ ShowingStands'
    BY <2>3, <2>5 DEF ClickStands, SyncShows, ShowingStands, Clicks
  <2> QED
    BY <2>8, <2>11, <2>12, <2>13, <2>14, <2>15, <2>16 DEF CardsInv, JobStands
<1>6. \/ Fail /\ UNCHANGED proposals
      \/ /\ Store([proposals EXCEPT ![p] = x])
         /\ job' = [job EXCEPT !.i = below, !.at = at, !.mine[p] = to, !.todo = more]
         /\ queue' = queue
  BY DEF ResultRecord
<1> QED
  BY <1>4, <1>5, <1>6

LEMMA SyncObsoleteStands ==
    ASSUME NamingInv, NamingInv', CardsInv, SyncObsolete
    PROVE  CardsInv'
<1> DEFINE open == {p \in Asks : /\ CanUndo(p, job.mine[p])
                                 /\ job.mine[p].card \in {"pending", "delivering", "delivered"}}
           visible == {job.mine[p].bubble : p \in job.todo \cup open}
           ids == {job.old[p].bubble : p \in Asks} \ (visible \cup {NoBubble})
<1>1. /\ job.kind = "sync" /\ job.at = "obsolete" /\ Dismiss(proposals, ids) /\ GoTo("deliver")
      /\ UNCHANGED <<named, queue, refused, Elsewhere>>
  BY DEF SyncObsolete, InJob
<1>2. job \in JobRecords /\ job.todo \subseteq Asks
  BY <1>1, SyncFacts DEF JobRecords
<1>3. /\ job'.kind = "sync" /\ job'.bubble = job.bubble /\ job'.at = "deliver"
      /\ job'.mine = job.mine /\ job'.old = job.old /\ job'.todo = job.todo
  BY <1>1, <1>2 DEF GoTo, JobRecords
<1>4. root' = WithoutCards(ids)
  BY <1>1 DEF Dismiss
<1>5. root' \subseteq root /\ late' = late /\ \A p \in Asks : Stands(p, proposals'[p], root')
  BY <1>1, DismissesStand DEF CardsInv, Elsewhere, World
<1>6. CardsStand'
  BY <1>1, <1>3, <1>5, SyncOnStands
<1>7. SyncShows'
  <2>1. ASSUME NEW c \in root' PROVE late[c.id.of] \/ c.id = job.mine[c.id.of].bubble
    <3>1. c \in root /\ c.id \notin ids /\ c.id # NoBubble /\ c.id.of \in Asks
      BY <1>4, <1>5, RootTyped, CardsApart DEF WithoutCards
    <3>2. late[c.id.of] \/ c.id = job.old[c.id.of].bubble
      BY <1>1, <3>1 DEF CardsInv, JobStands, SyncReads
    <3>3. ASSUME c.id = job.old[c.id.of].bubble PROVE c.id = job.mine[c.id.of].bubble
      <4>1. PICK p \in Asks : c.id = job.mine[p].bubble
        BY <1>2, <3>1, <3>3
      <4>2. p = c.id.of
        BY <1>1, <3>1, <4>1, SyncFacts DEF Bears
      <4> QED
        BY <4>1, <4>2
    <3> QED
      BY <3>2, <3>3
  <2> QED
    BY <1>3, <1>5, <2>1 DEF SyncShows
<1>8. TodoStands'
  <2>1. ASSUME NEW p \in job.todo
        PROVE  /\ job.mine[p].status \in {"proposed", "applied"}
               /\ job.mine[p].status = "proposed" => proposals'[p].bubble = job.mine[p].bubble
    <3>1. /\ job.mine[p].status \in {"proposed", "applied"}
          /\ job.mine[p].status = "proposed" => proposals[p].bubble = job.mine[p].bubble
      BY <1>1 DEF CardsInv, JobStands, TodoStands, Written
    <3>2. job.mine[p].bubble \notin ids /\ p \in Asks /\ proposals \in [Asks -> Proposal]
      BY <1>2 DEF NamingInv, StoreHeld
    <3> HIDE DEF ids
    <3>3. proposals[p].bubble \notin ids => proposals'[p].bubble = proposals[p].bubble
      BY <1>1, <3>2, DismissedFields
    <3> QED
      BY <3>1, <3>2, <3>3
  <2> QED
    BY <1>3, <2>1 DEF TodoStands
<1>9. SyncReads' /\ ShowingStands'
  BY <1>3 DEF SyncReads, ShowingStands
<1> QED
  BY <1>1, <1>3, <1>6, <1>7, <1>8, <1>9, SyncPast

\* A delivery of a result leaves the cards as they are.
LEMMA DeliveredFields ==
    ASSUME NamingInv, CardsStand, NEW p \in Asks, NEW b \in MaybeBubble,
           NEW from \in SUBSET {"pending", "delivering", "delivered"}, NEW to \in {"delivering", "delivered"}
    PROVE  LET r == Delivery(p, b, from, to)
               q == proposals[p]
           IN  /\ r \in Proposal /\ r.status = q.status /\ r.bubble = q.bubble
               /\ q.bubble = b /\ CanUndo(p, q) /\ q.card \in from => r.card = to
<1> DEFINE q == proposals[p]
           s == [q EXCEPT !.card = "expired", !.dismissal = b]
           t == [q EXCEPT !.dismissal = b]
           u == [q EXCEPT !.card = to]
<1>1. q \in Proposal /\ to \in Cards
  BY StoreTyped DEF Cards
<1>2. Delivery(p, b, from, to) \in Proposal
  BY DeliveryStands
<1>3. Delivery(p, b, from, to) \in {q, s, t, u}
  BY DEF Delivery, StaleCard
<1>4. q.bubble = b /\ CanUndo(p, q) /\ q.card \in from => Delivery(p, b, from, to) = u
  BY DEF Delivery, CanUndo
<1> HIDE DEF q
<1>5. /\ s.status = q.status /\ s.bubble = q.bubble /\ t.status = q.status /\ t.bubble = q.bubble
      /\ u.status = q.status /\ u.bubble = q.bubble /\ u.card = to
  BY <1>1 DEF Proposal
<1> HIDE DEF s, t, u
<1>6. LET r == Delivery(p, b, from, to)
      IN  /\ r.status = q.status /\ r.bubble = q.bubble
          /\ q.bubble = b /\ CanUndo(p, q) /\ q.card \in from => r.card = to
  BY <1>3, <1>4, <1>5
<1> QED
  BY <1>2, <1>6 DEF q

\* The sync goes on with the cards in hand.
LEMMA SyncCardsOn ==
    ASSUME NamingInv, NamingInv', CardsInv, job.kind = "sync", job.at \in {"deliver", "show", "commit"},
           job'.kind = "sync", job'.mine = job.mine, job'.old = job.old, job'.todo \subseteq job.todo,
           job'.at \in {"deliver", "show", "commit"}, CardsStand', late' = late, root' \subseteq root,
           \A p \in job'.todo : job.mine[p].status = "proposed" => proposals'[p].bubble = proposals[p].bubble,
           ShowingStands'
    PROVE  CardsInv'
<1>1. SyncShows'
  BY DEF CardsInv, JobStands, SyncShows
<1>2. TodoStands'
  BY DEF CardsInv, JobStands, TodoStands, Written
<1>3. SyncReads'
  BY DEF SyncReads
<1> QED
  BY <1>1, <1>2, <1>3, SyncPast

LEMMA SyncDeliverStands ==
    ASSUME NamingInv, NamingInv', CardsInv, SyncDeliver
    PROVE  CardsInv'
<1>1. /\ job.kind = "sync" /\ job.at = "deliver" /\ UNCHANGED <<named, queue, refused, Elsewhere>>
      /\ late' = late
  BY DEF SyncDeliver, InJob, Elsewhere, World
<1>2. job \in JobRecords /\ job.todo \subseteq Asks
  BY <1>1, SyncFacts DEF JobRecords
<1>3. CASE job.todo = {} /\ GoTo("end") /\ UNCHANGED <<proposals, root>>
  <2>1. /\ job'.kind = "sync" /\ job'.bubble = job.bubble /\ job'.at = "end"
        /\ job'.mine = job.mine /\ job'.old = job.old /\ job'.todo = {}
    BY <1>1, <1>2, <1>3 DEF GoTo, JobRecords
  <2>2. CardsStand'
    BY <1>1, <1>3, <2>1, NoneStored, SyncOnStands DEF CardsInv
  <2>3. SyncReads' /\ TodoStands' /\ SyncShows' /\ ShowingStands'
    BY <2>1 DEF SyncReads, TodoStands, SyncShows, ShowingStands
  <2> QED
    BY <1>1, <2>1, <2>2, <2>3, SyncPast
<1>4. ASSUME NEW p \in job.todo, job.mine[p].status # "applied",
             Dismiss(proposals, {job.old[p].bubble} \ {job.mine[p].bubble, NoBubble}), StepTo(p, "show")
      PROVE  CardsInv'
  <2> DEFINE b == job.mine[p].bubble
             ids == {job.old[p].bubble} \ {b, NoBubble}
  <2>1. /\ job'.kind = "sync" /\ job'.bubble = job.bubble /\ job'.at = "show" /\ job'.i = p
        /\ job'.mine = job.mine /\ job'.old = job.old /\ job'.todo = job.todo
    BY <1>1, <1>2, <1>4 DEF StepTo, JobRecords
  <2>2. root' \subseteq root /\ \A r \in Asks : Stands(r, proposals'[r], root')
    BY <1>4, DismissesStand DEF CardsInv
  <2>3. CardsStand'
    BY <1>1, <2>1, <2>2, SyncOnStands
  <2>4. ASSUME NEW r \in job.todo, job.mine[r].status = "proposed"
        PROVE  proposals[r].bubble = job.mine[r].bubble /\ proposals'[r].bubble = proposals[r].bubble
    <3>1. proposals[r].bubble = job.mine[r].bubble /\ job.mine[r].bubble \in Bubbles /\ r \in Asks /\ p \in Asks
      BY <1>1, <1>2, <2>4, SyncFacts DEF CardsInv, JobStands, TodoStands, Written, SyncKnowsItsPlace
    <3>2. /\ job.mine[r].bubble # NoBubble /\ Bears(r, job.mine[r]) /\ Bears(p, job.old[p])
      BY <1>1, <3>1, SyncFacts, CardsApart
    <3>3. job.mine[r].bubble \notin ids
      BY <3>2 DEF Bears
    <3>4. proposals \in [Asks -> Proposal] /\ Dismiss(proposals, ids)
      BY <1>4 DEF NamingInv, StoreHeld
    <3> HIDE DEF ids
    <3> QED
      BY <3>1, <3>3, <3>4, DismissedFields
  <2>5. job.mine[p].status = "proposed"
    BY <1>1, <1>4 DEF CardsInv, JobStands, TodoStands
  <2>6. ShowingStands'
    BY <1>4, <2>1, <2>4, <2>5 DEF ShowingStands
  <2> QED
    BY <1>1, <2>1, <2>2, <2>3, <2>4, <2>6, SyncCardsOn
<1>5. ASSUME NEW p \in job.todo, job.mine[p].status = "applied",
             Store([proposals EXCEPT ![p] = Delivery(p, job.mine[p].bubble, {"pending"}, "delivering")]),
             UNCHANGED root,
             \/ /\ proposals[p].bubble = job.mine[p].bubble /\ CanUndo(p, proposals[p])
                /\ DeliversCard(p) /\ StepTo(p, "show")
             \/ StepTo(p, "commit") \/ NextCard(p)
      PROVE  CardsInv'
  <2> DEFINE b == job.mine[p].bubble
             x == Delivery(p, b, {"pending"}, "delivering")
             ps == [proposals EXCEPT ![p] = x]
             q == proposals[p]
  <2>1. p \in Asks /\ b \in MaybeBubble
    BY <1>1, <1>2, SyncFacts
  <2>2. /\ x \in Proposal /\ Stands(p, x, root) /\ x.status = q.status /\ x.bubble = q.bubble
        /\ q.bubble = b /\ CanUndo(p, q) /\ q.card = "pending" => x.card = "delivering"
    BY <2>1, DeliveryStands, DeliveredFields DEF CardsInv
  <2>3. Store(ps) /\ \A r \in Asks : ps[r] = IF r = p THEN x ELSE proposals[r]
    BY <1>5 DEF NamingInv, StoreHeld
  <2> HIDE DEF x
  <2>4. \A r \in Asks : Stands(r, proposals'[r], root')
    BY <1>5, <2>1, <2>2, <2>3, OneStored DEF CardsInv
  <2> HIDE DEF ps
  <2>5. \A r \in Asks : proposals'[r].bubble = proposals[r].bubble
    BY <2>2, <2>3, StoreTyped, StoredFields
  <2>6. proposals'[p].card = x.card /\ proposals'[p].status = x.status
    BY <2>1, <2>2, <2>3, StoredFields
  <2>7. /\ job'.kind = "sync" /\ job'.bubble = job.bubble /\ job'.at \in {"show", "commit", "deliver"}
        /\ job'.mine = job.mine /\ job'.old = job.old /\ job'.todo \subseteq job.todo
        /\ job'.at = "show" => /\ job'.i = p /\ q.bubble = b /\ CanUndo(p, q) /\ DeliversCard(p)
    BY <1>1, <1>2, <1>5 DEF StepTo, NextCard, JobRecords
  <2>8. CardsStand'
    BY <1>1, <1>5, <2>4, <2>7, SyncOnStands
  <2>9. ShowingStands'
    <3>1. CASE job'.at = "show"
      <4>1. /\ job'.i = p /\ q.bubble = b /\ q.status = "applied" /\ q.card = "pending" /\ CanUndo(p, q)
        BY <2>7, <3>1 DEF DeliversCard, CanUndo
      <4>2. shown[p] = 0 /\ shown' = shown
        BY <1>1, <2>1, <4>1 DEF CardsInv, CardsStand, ShownOnce, Unshown, Elsewhere, History
      <4>3. ~Unshown(proposals[p])'
        BY <2>2, <2>6, <4>1 DEF Unshown, Unapplied
      <4> QED
        BY <1>5, <2>1, <2>5, <2>7, <4>1, <4>2, <4>3 DEF ShowingStands
    <3>2. CASE job'.at # "show"
      BY <3>2 DEF ShowingStands
    <3> QED
      BY <3>1, <3>2
  <2> QED
    BY <1>1, <1>2, <1>5, <2>5, <2>7, <2>8, <2>9, SyncCardsOn
<1> QED
  BY <1>3, <1>4, <1>5 DEF SyncDeliver

LEMMA SyncShowStands ==
    ASSUME NamingInv, NamingInv', CardsInv, SyncShow
    PROVE  CardsInv'
<1>1. PICK p, b : p = job.i /\ b = job.mine[p].bubble
  OBVIOUS
<1>2. /\ job.kind = "sync" /\ job.at = "show" /\ UNCHANGED <<proposals, queue>> /\ late' = late
      /\ job \in JobRecords /\ SyncKnowsItsPlace
  BY SyncFacts DEF SyncShow, InJob, World
<1>3. p \in Asks /\ b \in Bubbles /\ b \in MaybeBubble /\ Bears(p, job.mine[p])
  BY <1>1, <1>2, SyncFacts DEF SyncKnowsItsPlace, MaybeBubble
<1>4. /\ proposals[p].bubble = b /\ job.mine[p].status \in {"proposed", "applied"}
      /\ job.mine[p].status = "applied" => ~Unshown(proposals[p]) /\ shown[p] = 0
  BY <1>1, <1>2 DEF CardsInv, JobStands, ShowingStands
<1>5. b.of = p
  BY <1>1, <1>3, CardsApart DEF Bears
<1>6. /\ job'.kind = "sync" /\ job'.bubble = job.bubble /\ job'.at \in {"deliver", "commit"}
      /\ job'.mine = job.mine /\ job'.old = job.old /\ job'.todo \subseteq job.todo
  <2>1. GoTo("commit") \/ NextCard(job.i)
    BY DEF SyncShow
  <2> QED
    BY <1>2, <2>1 DEF GoTo, NextCard, JobRecords
<1>7. /\ \A c \in root' : c \in root \/ c.id = b
      /\ shown' = shown \/ (job.mine[p].status = "applied" /\ shown' = [shown EXCEPT ![p] = @ + 1])
  BY <1>1 DEF SyncShow
<1>8. SyncShows'
  BY <1>1, <1>2, <1>5, <1>6, <1>7 DEF CardsInv, JobStands, SyncShows
<1>9. AllBear' /\ CardsHeld'
  BY <1>2, <1>4, <1>5, <1>7 DEF CardsInv, CardsStand, AllBear, CardsHeld
<1>10. AllSeenRight'
  <2>1. ASSUME NEW x \in MaybeBubble, Seen(x)' PROVE Seen(x) \/ x = b
    BY <1>2, <1>6, <1>7, <2>1 DEF Seen
  <2>2. SeenRight(b)'
    <3>1. b.kind = "confirm" => b.version <= proposals[p].version
      <4>1. Sound(p, proposals[p], granted) /\ proposals[p].version \in Nat
        BY <1>3, StoreTyped
      <4>2. b.kind = "confirm" => b = ConfirmId(p, proposals[p].version)
        BY <1>4, <4>1 DEF Sound
      <4> QED
        BY <4>1, <4>2 DEF ConfirmId
    <3>2. b.kind = "result" => proposals[p].status \notin Unapplied
      BY <1>1, <1>3, <1>4 DEF Bears, Unshown
    <3>3. ASSUME NEW c \in root', c.id.of = p, ~late[p] PROVE c.id = b
      BY <1>1, <1>2, <1>7, <3>3 DEF CardsInv, JobStands, SyncShows
    <3> QED
      BY <1>2, <1>3, <1>5, <3>1, <3>2, <3>3 DEF SeenRight
  <2>3. ASSUME NEW x \in MaybeBubble, Seen(x), x # b PROVE SeenRight(x)'
    <3>1. SeenRight(x)
      BY <2>3 DEF CardsInv, CardsStand, AllSeenRight
    <3>2. ASSUME x = proposals[x.of].bubble PROVE x.of # p
      BY <1>4, <2>3, <3>2
    <3> QED
      BY <1>2, <1>5, <1>7, <3>1, <3>2 DEF SeenRight
  <2> QED
    BY <2>1, <2>2, <2>3 DEF AllSeenRight
<1>11. ShownOnce'
  <2>1. ASSUME NEW r \in Asks
        PROVE  shown'[r] <= 1 /\ (Unshown(proposals[r]) => shown'[r] = 0)
    <3>1. shown[r] <= 1 /\ (Unshown(proposals[r]) => shown[r] = 0)
      BY DEF CardsInv, CardsStand, ShownOnce
    <3>2. CASE shown' = shown
      BY <3>1, <3>2
    <3>3. CASE job.mine[p].status = "applied" /\ shown' = [shown EXCEPT ![p] = @ + 1]
      <4>1. shown'[r] = IF r = p THEN shown[p] + 1 ELSE shown[r]
        BY <1>3, <3>3 DEF NamingInv, OthersTyped
      <4> QED
        BY <1>4, <3>1, <3>3, <4>1
    <3> QED
      BY <1>7, <3>2, <3>3
  <2> QED
    BY <1>2, <2>1 DEF ShownOnce, Unshown
<1>12. TodoStands'
  BY <1>2, <1>6 DEF CardsInv, JobStands, TodoStands, Written
<1>13. SyncReads' /\ ShowingStands'
  BY <1>6 DEF SyncReads, ShowingStands
<1> QED
  BY <1>2, <1>6, <1>8, <1>9, <1>10, <1>11, <1>12, <1>13, SyncPast DEF CardsStand

LEMMA SyncCommitStands ==
    ASSUME NamingInv, NamingInv', CardsInv, SyncCommit
    PROVE  CardsInv'
<1> DEFINE p == job.i
           b == job.mine[p].bubble
           x == Delivery(p, b, {"pending", "delivering"}, "delivered")
           ps == [proposals EXCEPT ![p] = x]
<1>1. /\ job.kind = "sync" /\ job.at = "commit" /\ UNCHANGED <<named, queue, refused, Elsewhere>>
      /\ late' = late /\ NextCard(p) /\ (Dismiss(ps, {b}) \/ (Store(ps) /\ UNCHANGED root))
  BY DEF SyncCommit, InJob, Elsewhere, World
<1>2. job \in JobRecords /\ job.todo \subseteq Asks /\ SyncKnowsItsPlace
  BY <1>1, SyncFacts DEF JobRecords
<1>3. p \in Asks /\ b \in MaybeBubble /\ Bears(p, job.mine[p])
  BY <1>1, <1>2, SyncFacts DEF SyncKnowsItsPlace
<1>4. x \in Proposal /\ Stands(p, x, root)
  BY <1>3, DeliveryStands DEF CardsInv
<1>5. \A r \in Asks : ps[r] = IF r = p THEN x ELSE proposals[r]
  BY DEF NamingInv, StoreHeld
<1> HIDE DEF x
<1>6. ps \in [Asks -> Proposal] /\ \A r \in Asks : Stands(r, ps[r], root)
  BY <1>3, <1>4, OneStands DEF CardsInv
<1> HIDE DEF ps
<1>7. root' \subseteq root /\ \A r \in Asks : Stands(r, proposals'[r], root')
  BY <1>1, <1>6, DismissStands, StoreStands
<1>8. /\ job'.kind = "sync" /\ job'.bubble = job.bubble /\ job'.at = "deliver"
      /\ job'.mine = job.mine /\ job'.old = job.old /\ job'.todo = job.todo \ {p}
  BY <1>1, <1>2 DEF NextCard, JobRecords
<1>9. CardsStand'
  BY <1>1, <1>7, <1>8, SyncOnStands
<1>10. ASSUME NEW r \in job'.todo, job.mine[r].status = "proposed"
       PROVE  proposals'[r].bubble = proposals[r].bubble
  <2>1. r \in job.todo /\ r \in Asks /\ r # p
    BY <1>2, <1>8
  <2>2. proposals[r].bubble = job.mine[r].bubble /\ job.mine[r].bubble \in Bubbles
    BY <1>1, <1>2, <1>10, <2>1 DEF CardsInv, JobStands, TodoStands, Written, SyncKnowsItsPlace
  <2>3. job.mine[r].bubble # b
    BY <1>1, <1>3, <2>1, <2>2, SyncFacts, CardsApart DEF Bears
  <2>4. ps[r].bubble = proposals[r].bubble /\ ps[r].bubble \notin {b} /\ ps[r] \in Proposal
    BY <1>5, <1>6, <2>1, <2>2, <2>3
  <2> HIDE DEF b
  <2>5. CASE Dismiss(ps, {b})
    BY <1>6, <2>1, <2>4, <2>5, DismissedFields
  <2>6. CASE Store(ps)
    BY <2>1, <2>4, <2>6, StoredFields
  <2> QED
    BY <1>1, <2>5, <2>6
<1>11. ShowingStands'
  BY <1>8 DEF ShowingStands
<1> QED
  BY <1>1, <1>7, <1>8, <1>9, <1>10, <1>11, SyncCardsOn

LEMMA SyncStepStands ==
    ASSUME NamingInv, NamingInv', CardsInv, SyncStep
    PROVE  CardsInv'
BY SyncLoadStands, SyncWithoutRegistryStands, SyncScanStands, SyncWriteStands, ResultRecordStands,
   SyncObsoleteStands, SyncDeliverStands, SyncShowStands, SyncCommitStands, SyncEndStands DEF SyncStep

LEMMA ClickStepStands ==
    ASSUME NamingInv, NamingInv', CardsInv, ClickStep
    PROVE  CardsInv'
BY ClickLoadStands, EditStands, EditSubmitStands, RejectStands, RegisterBeginStands,
   RegisterSaveStands, RegisterFinishStands, UndoBeginStands DEF ClickStep

LEMMA StutterStands ==
    ASSUME NamingInv, NamingInv', CardsInv, UNCHANGED namingVars
    PROVE  CardsInv'
BY DEF namingVars, CardsInv, CardsStand, JobStands, AllBear, CardsHeld, AllSeenRight, SeenRight, Seen,
       ShownOnce, Unshown, CopiesBear, ClickStands, Found, Clicked, SyncReads, CopiesKeep, Reading,
       KeepsCard, NoResultOf, AllRegisteredStay, RegisteredStay, TodoStands, SyncShows, ShowingStands

LEMMA CardsNextInv ==
    ASSUME NamingInv, NamingInv', CardsInv, [NamingNext]_namingVars
    PROVE  CardsInv'
<1>1. ASSUME NEW c \in root, NEW kind \in JobKinds, NEW name \in VoiceNames \cup {NoName}, Click(c, kind, name)
      PROVE  CardsInv'
  BY <1>1, ClickedByUser
<1>2. ASSUME NEW name \in VoiceNames \cup {NoName}, AskRename(name) PROVE CardsInv'
  BY <1>2, AskRenameStands
<1> QED
  BY <1>1, <1>2, CoreTurnStands, TakeJobStands, ClickStepStands, OtherStepStands, SyncStepStands,
     AskSyncStands, DriftStands, StepFailsStands, NamingCrashStands, StutterStands DEF NamingNext

LEMMA CardsInitInv == ASSUME NamingInit PROVE CardsInv
<1>1. /\ proposals = NoMemo /\ root = {} /\ queue = <<>> /\ job = NoCardJob
      /\ \A p \in Asks : shown[p] = 0
  BY DEF NamingInit
<1>2. \A p \in Asks : proposals[p] = NoProposal
  BY <1>1 DEF NoMemo
<1>3. AllBear /\ CardsHeld /\ ShownOnce
  BY <1>1, <1>2, NoProposalBears DEF AllBear, CardsHeld, ShownOnce
<1>4. job.kind = "idle"
  BY <1>1 DEF NoCardJob
<1>5. AllSeenRight
  BY <1>1, <1>4 DEF AllSeenRight, Seen, OnCards, Clicks
<1>6. JobStands
  BY <1>4 DEF JobStands, CopiesBear, ClickStands, SyncReads, CopiesKeep, Reading, AllRegisteredStay,
              TodoStands, SyncShows, ShowingStands, Clicks
<1> QED
  BY <1>3, <1>5, <1>6 DEF CardsInv, CardsStand

LEMMA CardsInvTrue == ASSUME NamingInv, CardsInv PROVE CardsAreTrue
<1>1. \A p \in Asks : shown[p] <= 1
  BY DEF CardsInv, CardsStand, ShownOnce
<1>2. ASSUME NEW c \in root
      PROVE  late[c.id.of] \/ \E p \in Asks : c.id \in {proposals[p].bubble, proposals[p].dismissal}
  BY RootTyped DEF CardsInv, CardsStand, CardsHeld
<1> QED
  BY <1>1, <1>2 DEF CardsAreTrue

\* The result card of a registration is shown at most once, whatever is lost
\* with the program, and every card in view belongs to a proposal that has it,
\* or is about to take it away, until its seven days are over.
THEOREM CardsHoldTrue == NamingSpec => []CardsAreTrue
<1>1. NamingInit => NamingInv /\ CardsInv
  BY NamingInitInv, CardsInitInv
<1>2. NamingInv /\ CardsInv /\ [NamingNext]_namingVars => NamingInv' /\ CardsInv'
  BY NamingNextInv, CardsNextInv
<1>3. NamingInv /\ CardsInv => CardsAreTrue
  BY CardsInvTrue
<1> QED
  BY <1>1, <1>2, <1>3, PTL DEF NamingSpec
=============================================================================
