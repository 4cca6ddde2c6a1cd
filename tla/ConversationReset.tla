--------------------------- MODULE ConversationReset ---------------------------
(***************************************************************************)
(* Resetting and archiving the conversation                                *)
(* (crates/core/src/conversation_archive.rs, attachments.rs): an intent is *)
(* written first, then the files of the conversation are moved one by one, *)
(* the messages still pending are carried over with their images, and the  *)
(* intent is removed last.  A program that ends in between executes the    *)
(* same intent again when it starts; one that meets an error goes on with  *)
(* the intent where it is.                                                 *)
(*                                                                         *)
(* Left out: the outbox and the mailbox, whose files are moved unless they *)
(* are there already; the offers of work, which are closed; titles,        *)
(* summaries and sessions; retention.                                      *)
(***************************************************************************)
EXTENDS Integers, FiniteSets

CONSTANTS Pictured,       \* messages with an image a user may send
          MaxDays,        \* bound: days that pass
          MaxEntries,     \* bound: entries of the conversation
          MaxResets,      \* bound: resets asked for
          MaxResetFaults  \* bound: crashes and I/O errors

ASSUME ResetAssumption == MaxDays \in Nat \ {0} /\ MaxEntries \in Nat /\ MaxResets \in Nat

VARIABLES today,
          live,        \* conversation and attachments, by the name of a day
          shelf,       \* archives: the same, by archive key
          waiting,     \* cursor.pending_inputs: the day of the image and the generation
          generations, \* latest, selected; user_operation_generation of the cursor
          intent,      \* conversation_reset_intent
          reset,       \* what the program is doing: its step, and what it carries
          resetBounds

resetVars == <<today, live, shelf, waiting, generations, intent, reset, resetBounds>>

Days == 1 .. MaxDays
Keys == 1 .. MaxResets
Empty == [conversation |-> [d \in Days |-> {}], attachments |-> [d \in Days |-> {}]]
Folders == [conversation : [Days -> SUBSET (1 .. MaxEntries)], attachments : [Days -> SUBSET Pictured]]

NotWaiting == [image |-> 0, generation |-> 0]
NoIntent == [key |-> 0, target |-> 0, mark |-> 0, archive |-> FALSE, carry |-> FALSE]
NoReset == [step |-> "up", carried |-> [i \in Pictured |-> NotWaiting], starting |-> FALSE,
          asked |-> "none"]
Unsent(i) == waiting[i] = NotWaiting

ResetTypeOK ==
    /\ today \in Days
    /\ live \in Folders /\ shelf \in [Keys -> Folders]
    /\ \A i \in Pictured : waiting[i].image \in 0 .. MaxDays /\ waiting[i].generation \in 0 .. MaxResets
    /\ generations.latest \in 0 .. MaxResets /\ generations.selected \in 0 .. generations.latest
    /\ generations.mark \in 0 .. MaxResets
    /\ intent.key \in 0 .. MaxResets
    /\ reset.step \in {"down", "up", "refused", "conversation", "attachments", "carry", "cursor",
                       "generation", "finish", "again"}

ResetInit ==
    /\ today = 1
    /\ live = Empty /\ shelf = [k \in Keys |-> Empty]
    /\ waiting = [i \in Pictured |-> NotWaiting]
    /\ generations = [latest |-> 0, selected |-> 0, mark |-> 0]
    /\ intent = NoIntent
    /\ reset = NoReset
    /\ resetBounds = [resets |-> 0, faults |-> 0, entries |-> 0, sent |-> {}]

ResetFault ==
    /\ resetBounds.faults < MaxResetFaults
    /\ resetBounds' = [resetBounds EXCEPT !.faults = @ + 1]

----------------------------------------------------------------------------
(* The conversation while the program runs.                                *)

\* The day the images of one reset are copied to is read once.
DayPasses ==
    /\ today < MaxDays /\ reset.step # "carry"
    /\ today' = today + 1
    /\ UNCHANGED <<live, shelf, waiting, generations, intent, reset, resetBounds>>

\* A message: its image is persisted under the day and its id, then it is queued
\* for the selected conversation.
Send(i) ==
    /\ reset.step = "up" /\ i \notin resetBounds.sent
    /\ live' = [live EXCEPT !.attachments[today] = @ \cup {i}]
    /\ waiting' = [waiting EXCEPT ![i] = [image |-> today, generation |-> generations.selected]]
    /\ resetBounds' = [resetBounds EXCEPT !.sent = @ \cup {i}]
    /\ UNCHANGED <<today, shelf, generations, intent, reset>>

\* Something is said: an entry is appended to the file of the day, the answer to
\* a message takes it off the queue.
Say(answered) ==
    LET n == resetBounds.entries + 1
    IN
    /\ reset.step = "up" /\ n <= MaxEntries
    /\ \A i \in answered : ~Unsent(i)
    /\ live' = [live EXCEPT !.conversation[today] = @ \cup {n}]
    /\ waiting' = [i \in Pictured |-> IF i \in answered THEN NotWaiting ELSE waiting[i]]
    /\ resetBounds' = [resetBounds EXCEPT !.entries = n]
    /\ UNCHANGED <<today, shelf, generations, intent, reset>>

\* select_conversation_generation
SelectGeneration(g) ==
    /\ reset.step = "up"
    /\ g <= generations.latest /\ g # generations.selected
    /\ generations' = [generations EXCEPT !.selected = g]
    /\ UNCHANGED <<today, live, shelf, waiting, intent, reset, resetBounds>>

----------------------------------------------------------------------------
(* execute_intent                                                          *)

\* The pending inputs are read before anything is moved.  Whether this is a start,
\* and what was asked for while an earlier intent comes first, is kept.
Executing(i, starting, asked) ==
    reset' = [step |-> IF i.archive THEN "conversation" ELSE "cursor",
              carried |-> IF i.carry THEN waiting ELSE NoReset.carried,
              starting |-> starting, asked |-> asked]

\* run_reset_operation_with_recovery once no intent is left: reset_conversation,
\* archive_conversation for the tutorial, and the archive of every start.
NewIntent(archive, carry) ==
    /\ resetBounds.resets < MaxResets
    /\ intent' = [key |-> resetBounds.resets + 1, target |-> generations.latest + 1,
                  mark |-> generations.mark + 1, archive |-> archive, carry |-> carry]
    /\ resetBounds' = [resetBounds EXCEPT !.resets = @ + 1]
    /\ Executing(intent', FALSE, "none")

\* reconcile_locked comes first: an intent left behind is executed before.
AskReset(archive) ==
    /\ reset.step = "up"
    /\ IF intent = NoIntent
       THEN NewIntent(archive, FALSE)
       ELSE /\ Executing(intent, FALSE, IF archive THEN "archive" ELSE "reset")
            /\ UNCHANGED <<intent, resetBounds>>
    /\ UNCHANGED <<today, live, shelf, waiting, generations>>

AskedReset ==
    /\ reset.step = "again"
    /\ NewIntent(reset.asked = "archive", FALSE)
    /\ UNCHANGED <<today, live, shelf, waiting, generations>>

\* ensure_layout, then archive_conversation_after_recovery unless there is no
\* conversation to begin (a setup or a tutorial is pending).
StartProgram(archive) ==
    /\ reset.step = "down"
    /\ IF intent # NoIntent
       THEN Executing(intent, TRUE, "none") /\ UNCHANGED <<intent, resetBounds>>
       ELSE IF archive THEN NewIntent(TRUE, TRUE)
            ELSE reset' = NoReset /\ UNCHANGED <<intent, resetBounds>>
    /\ UNCHANGED <<today, live, shelf, waiting, generations>>

\* Mutant: an entry of the same name is replaced.
MoveFolderOver(folder, d) ==
    /\ reset.step = folder /\ live[folder][d] # {}
    /\ live' = [live EXCEPT ![folder][d] = {}]
    /\ shelf' = [shelf EXCEPT ![intent.key][folder][d] = live[folder][d]]
    /\ UNCHANGED <<today, waiting, generations, intent, reset, resetBounds>>

\* move_entries: an entry of the same name in the archive ends it with an error.
Refusal == reset' = [NoReset EXCEPT !.step = IF reset.starting THEN "refused" ELSE "up"]

MoveFolder(folder, d) ==
    /\ reset.step = folder /\ live[folder][d] # {}
    /\ IF shelf[intent.key][folder][d] = {}
       THEN /\ live' = [live EXCEPT ![folder][d] = {}]
            /\ shelf' = [shelf EXCEPT ![intent.key][folder][d] = live[folder][d]]
            /\ UNCHANGED reset
       ELSE Refusal /\ UNCHANGED <<live, shelf>>
    /\ UNCHANGED <<today, waiting, generations, intent, resetBounds>>

Moved(folder) ==
    /\ reset.step = folder /\ \A d \in Days : live[folder][d] = {}
    /\ reset' = [reset EXCEPT !.step = IF folder = "conversation" THEN "attachments"
                                       ELSE IF intent.carry THEN "carry" ELSE "cursor"]
    /\ UNCHANGED <<today, live, shelf, waiting, generations, intent, resetBounds>>

\* Mutant: the image is looked for under the day of the reset.
InArchiveOfToday(i) == i \in shelf[intent.key].attachments[today]

\* rebase_pending_input_attachments, persist: an image found in the archive is
\* copied to the folder of today; one that is not there keeps its path.
InArchive(i) == i \in shelf[intent.key].attachments[reset.carried[i].image]
ToRebase == {i \in Pictured : reset.carried[i] # NotWaiting /\ InArchive(i)}

Rebase(i) ==
    /\ reset.step = "carry" /\ i \in ToRebase /\ i \notin live.attachments[today]
    /\ live' = [live EXCEPT !.attachments[today] = @ \cup {i}]
    /\ UNCHANGED <<today, shelf, waiting, generations, intent, reset, resetBounds>>

Rebased ==
    /\ reset.step = "carry" /\ ToRebase \subseteq live.attachments[today]
    /\ reset' = [reset EXCEPT !.step = "cursor",
                     !.carried = [i \in Pictured |-> IF i \in ToRebase THEN [@[i] EXCEPT !.image = today]
                                                     ELSE @[i]]]
    /\ UNCHANGED <<today, live, shelf, waiting, generations, intent, resetBounds>>

\* update_cursor: everything but the emotions and the watch is forgotten.
ResetCursor ==
    /\ reset.step = "cursor"
    /\ reset' = [reset EXCEPT !.step = "generation"]
    /\ waiting' = [i \in Pictured |->
                      IF reset.carried[i] # NotWaiting
                      THEN [reset.carried[i] EXCEPT !.generation = intent.target] ELSE NotWaiting]
    /\ generations' = [generations EXCEPT !.mark = intent.mark]
    /\ UNCHANGED <<today, live, shelf, intent, resetBounds>>

\* with_generation_state
OpenGeneration ==
    /\ reset.step = "generation"
    /\ reset' = [reset EXCEPT !.step = "finish"]
    /\ generations' = [generations EXCEPT !.selected = intent.target,
                           !.latest = IF intent.target > @ THEN intent.target ELSE @]
    /\ UNCHANGED <<today, live, shelf, waiting, intent, resetBounds>>

\* The intent is removed; a start that replayed one goes on to its own archive.
RemoveIntent ==
    /\ reset.step = "finish"
    /\ intent' = NoIntent
    /\ reset' = [NoReset EXCEPT !.step = IF reset.starting THEN "down"
                                      ELSE IF reset.asked = "none" THEN "up" ELSE "again",
                     !.asked = reset.asked]
    /\ UNCHANGED <<today, live, shelf, waiting, generations, resetBounds>>

Running == reset.step \notin {"down", "up", "refused"}

\* An I/O error of any step is returned to the caller.
ResetFails ==
    /\ Running
    /\ ResetFault
    /\ Refusal
    /\ UNCHANGED <<today, live, shelf, waiting, generations, intent>>

ResetCrash ==
    /\ reset.step # "down"
    /\ IF reset.step = "refused" THEN UNCHANGED resetBounds ELSE ResetFault
    /\ reset' = [NoReset EXCEPT !.step = "down"]
    /\ UNCHANGED <<today, live, shelf, waiting, generations, intent>>

ResetStep ==
    \/ \E folder \in {"conversation", "attachments"} :
          Moved(folder) \/ \E d \in Days : MoveFolder(folder, d)
    \/ \E i \in Pictured : Rebase(i)
    \/ AskedReset \/ Rebased \/ ResetCursor \/ OpenGeneration \/ RemoveIntent

ResetNext ==
    \/ DayPasses \/ ResetStep \/ ResetFails \/ ResetCrash
    \/ \E i \in Pictured : Send(i)
    \/ \E answered \in SUBSET Pictured : Cardinality(answered) <= 1 /\ Say(answered)
    \/ \E g \in 0 .. MaxResets : SelectGeneration(g)
    \/ \E archive \in BOOLEAN : AskReset(archive) \/ StartProgram(archive)

ResetSpec == ResetInit /\ [][ResetNext]_resetVars

----------------------------------------------------------------------------
Kept(folder) == (UNION {live[folder][d] : d \in Days})
                \cup (UNION {UNION {shelf[k][folder][d] : d \in Days} : k \in Keys})

(* Nothing said and no image is ever lost: replays, copies that were made  *)
(* twice and files that grew after an error never overwrite an archive; and *)
(* once a reset is over every message still to be answered finds its image *)
(* where it says, however often the carrying over was cut short.           *)
NothingIsLost ==
    /\ 1 .. resetBounds.entries \subseteq Kept("conversation")
    /\ resetBounds.sent \subseteq Kept("attachments")
    /\ reset.step = "up" /\ intent = NoIntent
          => \A i \in Pictured : ~Unsent(i) => i \in live.attachments[waiting[i].image]

(* The archive an entry is moved to holds none of that name: the assertion *)
(* of move_entries (conversation_archive.rs:511).  Not so when an intent is *)
(* replayed after images were carried over, or after the conversation went *)
(* on behind an error.                                                     *)
ArchiveHasRoom ==
    \A folder \in {"conversation", "attachments"}, d \in Days :
        reset.step = folder /\ live[folder][d] # {} => shelf[intent.key][folder][d] = {}
=============================================================================
