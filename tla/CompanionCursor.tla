--------------------------- MODULE CompanionCursor ---------------------------
(***************************************************************************)
(* The user queue of cursor.json: the durable record every step of a user  *)
(* turn reads and replaces under the cursor lock                           *)
(* (crates/core/src/companion_storage.rs).                                 *)
(*                                                                         *)
(* A user entry of the conversation log is named by its position in the    *)
(* log, so Inputs is an interval and i < j says that i was said first.     *)
(* A response is named by the user operation that produced it: every       *)
(* operation takes a new user_operation_generation and yields at most one  *)
(* response, which is also the turn id of its commit.                      *)
(*                                                                         *)
(* pending_inputs is a vector the code keeps in ascending user_seq (every  *)
(* insertion pushes the largest seq, every other update retains), so it is *)
(* a slot per input here, seq 0 meaning that the vector has no such entry. *)
(* The vectors of ids in the lease and the commit are ascending in         *)
(* user_seq for the same reason and are sets here.                         *)
(***************************************************************************)
EXTENDS Integers, FiniteSets

CONSTANTS MaxInputs,    \* bound: user entries the conversation can hold
          MaxOps,       \* bound: user operations ever begun
          MaxAttempts   \* MAX_USER_RESPONSE_ATTEMPTS

ASSUME BoundsAssumption ==
    MaxInputs \in Nat \ {0} /\ MaxOps \in Nat \ {0} /\ MaxAttempts \in Nat \ {0}

Inputs == 1 .. MaxInputs
Responses == 1 .. MaxOps
Phases == {"none", "reserved", "persisting"}
AttachmentStates == {"none", "retrying", "terminal"}

----------------------------------------------------------------------------
(* The record and its parts.                                               *)

PendingInput ==
    [seq : Nat, attempts : 0 .. MaxAttempts, stop : BOOLEAN,
     prepared : {0} \cup Responses, started : BOOLEAN,
     attachment : AttachmentStates]

Absent == [seq |-> 0, attempts |-> 0, stop |-> FALSE, prepared |-> 0,
           started |-> FALSE, attachment |-> "none"]

ActiveTurnCommit ==
    [phase : Phases, ids : SUBSET Inputs, seq : Nat, turn : {0} \cup Responses]

NoCommit == [phase |-> "none", ids |-> {}, seq |-> 0, turn |-> 0]

Cursor ==
    [inputs : [Inputs -> PendingInput], nextSeq : Nat,
     opGen : 0 .. MaxOps, lease : SUBSET Inputs, leaseSeq : Nat,
     nextDispatch : Nat, commit : ActiveTurnCommit,
     cancelled : SUBSET Inputs]

DefaultCursor ==
    [inputs |-> [i \in Inputs |-> Absent], nextSeq |-> 0, opGen |-> 0,
     lease |-> {}, leaseSeq |-> 0, nextDispatch |-> 0,
     commit |-> NoCommit, cancelled |-> {}]

Pending(c) == {i \in Inputs : c.inputs[i].seq # 0}

\* is_terminal: the leases skip an input whose attachment was given up.
Terminal(c, i) == c.inputs[i].attachment = "terminal"

Runnable(c) == {i \in Pending(c) : ~Terminal(c, i)}

Before(c, i, j) == c.inputs[i].seq < c.inputs[j].seq

First(c, S) == CHOOSE i \in S : \A j \in S \ {i} : Before(c, i, j)

----------------------------------------------------------------------------
(* What every read validates.                                              *)

\* The first |S| runnable inputs of the queue are exactly S.
RunnablePrefix(c, S) ==
    /\ S \subseteq Runnable(c)
    /\ \A i \in S : \A j \in Runnable(c) : Before(c, j, i) => j \in S

ValidPending(c) ==
    /\ \A i \in Pending(c) : c.inputs[i].seq <= c.nextSeq
    /\ \A i, j \in Pending(c) : c.inputs[i].seq = c.inputs[j].seq => i = j

ValidDispatch(c) ==
    c.lease # {} => /\ c.leaseSeq # 0
                    /\ c.leaseSeq <= c.nextDispatch
                    /\ RunnablePrefix(c, c.lease)

\* An invalid queue or lease is an error of every read; nothing repairs it.
Readable(c) == ValidPending(c) /\ ValidDispatch(c)

SamePreparation(c, S) ==
    \A i, j \in S : c.inputs[i].prepared = c.inputs[j].prepared

ValidCommit(c) ==
    LET k == c.commit IN
    \/ k = NoCommit
    \/ /\ ~(k.ids \subseteq Pending(c))
       /\ k.phase = "persisting"
       /\ c.lease = {}
    \/ /\ k.ids \subseteq Pending(c)
       /\ \A i \in k.ids : c.inputs[i].started => c.inputs[i].prepared # 0
       /\ SamePreparation(c, k.ids)
       /\ \/ c.lease = k.ids /\ c.leaseSeq = k.seq
          \/ /\ c.lease = {}
             /\ k.phase = "persisting"
             /\ \A i \in k.ids : c.inputs[i].started

DiscardPreparation(c, S) ==
    [c EXCEPT !.inputs = [i \in Inputs |->
        IF i \in S THEN [c.inputs[i] EXCEPT !.prepared = 0, !.started = FALSE]
                   ELSE c.inputs[i]]]

DropLease(c) == [c EXCEPT !.lease = {}, !.leaseSeq = 0]

\* A read quarantines a commit marker it cannot trust, and forgets the lease
\* and every half-made answer the marker may be about.
Read(c) ==
    IF ValidCommit(c) THEN c
    ELSE [DropLease(DiscardPreparation(c, c.commit.ids \cup c.lease))
             EXCEPT !.commit = NoCommit]

----------------------------------------------------------------------------
(* The updates.                                                            *)

Fresh(n) == [Absent EXCEPT !.seq = n]

Enqueue(c, i) ==
    [c EXCEPT !.nextSeq = c.nextSeq + 1,
              !.inputs = [c.inputs EXCEPT ![i] = Fresh(c.nextSeq + 1)]]

\* Mutant: the log's answers are not looked at.
MissingDespiteAnswer(c, said, settled) ==
    {i \in Inputs : i <= said} \ (c.cancelled \cup Pending(c))

\* Entries of the log up to `said` that were neither answered nor given up
\* and are not in the queue, in the order of the log.
Missing(c, said, settled) ==
    {i \in Inputs : i <= said} \ (settled \cup c.cancelled \cup Pending(c))

Rank(S, i) == Cardinality({j \in S : j <= i})

Reconcile(c, said, settled) ==
    LET M == Missing(c, said, settled) IN
    [c EXCEPT !.nextSeq = c.nextSeq + Cardinality(M),
              !.inputs = [i \in Inputs |->
                  IF i \in M THEN Fresh(c.nextSeq + Rank(M, i))
                             ELSE c.inputs[i]]]

\* lease_user_inputs: an existing lease is handed out again.
Lease(c, S) ==
    IF c.lease # {} THEN c
    ELSE [c EXCEPT !.lease = S, !.leaseSeq = c.nextDispatch + 1,
                   !.nextDispatch = c.nextDispatch + 1]

Extend(c, S) == [c EXCEPT !.lease = c.lease \cup S]

\* Mutant: the lease keeps the inputs that left the queue.
RemoveKeepsLease(c, S) ==
    [c EXCEPT !.inputs = [i \in Inputs |-> IF i \in S THEN Absent
                                                      ELSE c.inputs[i]]]

\* Removes inputs from the queue and from the lease; an emptied lease is gone.
Remove(c, S) ==
    LET rest == c.lease \ S IN
    [c EXCEPT !.inputs = [i \in Inputs |-> IF i \in S THEN Absent
                                                      ELSE c.inputs[i]],
              !.lease = rest,
              !.leaseSeq = IF rest = {} THEN 0 ELSE c.leaseSeq]

\* Mutant: the cancellation is not written down.
CancelUnrecorded(c, i) ==
    IF c.inputs[i].started THEN c ELSE Remove(c, {i})

Cancel(c, i) ==
    IF c.inputs[i].started THEN c
    ELSE [Remove(c, {i}) EXCEPT !.cancelled = c.cancelled \cup {i}]

ForgetCommitOf(c, S) ==
    IF c.commit.ids \cap S # {} THEN [c EXCEPT !.commit = NoCommit] ELSE c

CancelAfterTermination(c, i) ==
    ForgetCommitOf([Remove(c, {i}) EXCEPT !.cancelled = c.cancelled \cup {i}], {i})

RemoveSettled(c, S) == ForgetCommitOf(Remove(c, S), S)

\* begin_response_attempt: neither a prepared answer nor a repeated
\* preparation of the attachment costs an attempt.
CostsAttempt(x) == x.prepared = 0 /\ ~x.started /\ x.attachment # "retrying"

CanBegin(x) ==
    \/ x.prepared # 0
    \/ x.started
    \/ x.attachment = "retrying"
    \/ x.attachment = "none" /\ x.attempts < MaxAttempts

BeginAttempt(x) ==
    IF CostsAttempt(x) THEN [x EXCEPT !.attempts = x.attempts + 1, !.stop = FALSE]
                       ELSE x

Begin(c, S) ==
    [c EXCEPT !.opGen = c.opGen + 1,
              !.inputs = [i \in Inputs |-> IF i \in S THEN BeginAttempt(c.inputs[i])
                                                      ELSE c.inputs[i]]]

ReturnAttempt(x) ==
    [x EXCEPT !.attempts = IF x.attempts = 0 THEN 0 ELSE x.attempts - 1]

CanRestart(c, gen, S) ==
    /\ c.opGen = gen
    /\ S \subseteq Pending(c)
    /\ \A i \in S : c.inputs[i].prepared = 0 /\ ~c.inputs[i].started

\* Mutant: the restart keeps the attempt it began.
RequestRestartCharges(c, S) == [c EXCEPT !.opGen = c.opGen + 1]

RequestRestart(c, S) ==
    [c EXCEPT !.opGen = c.opGen + 1,
              !.inputs = [i \in Inputs |-> IF i \in S THEN ReturnAttempt(c.inputs[i])
                                                      ELSE c.inputs[i]]]

\* release_undispatched_attempts: only an attempt that is still on the books.
ReleaseAttempts(c, S, before) ==
    [c EXCEPT !.inputs = [i \in Inputs |->
        LET x == c.inputs[i] IN
        IF /\ i \in S /\ i \in Pending(c)
           /\ x.prepared = 0 /\ ~x.started
           /\ x.attempts = before[i] + 1
        THEN [x EXCEPT !.attempts = before[i]] ELSE x]]

RecordFailure(c, first, stop) ==
    [c EXCEPT !.inputs = [i \in Inputs |->
        LET x == c.inputs[i] IN
        IF /\ i \in Pending(c)
           /\ i = first \/ (first \in c.lease /\ i \in c.lease /\ x.attempts > 0)
           /\ x.prepared = 0 /\ ~x.started
        THEN [x EXCEPT !.stop = stop] ELSE x]]

RecordAttachmentFailure(c, i, state) ==
    LET x == [ReturnAttempt(c.inputs[i]) EXCEPT !.attachment = state]
        d == [c EXCEPT !.inputs = [c.inputs EXCEPT ![i] = x]]
        rest == c.lease \ {i}
    IN IF state = "terminal"
       THEN [d EXCEPT !.lease = rest, !.leaseSeq = IF rest = {} THEN 0 ELSE c.leaseSeq]
       ELSE d

\* Mutant: every input of the batch begins an attempt again.
CompleteAnyAttachment(c, S) ==
    [c EXCEPT !.inputs = [i \in Inputs |->
        IF i \in S THEN BeginAttempt([c.inputs[i] EXCEPT !.attachment = "none"])
                   ELSE c.inputs[i]]]

\* complete_attachment_preparation: the answer may be asked for at last.
CompleteAttachments(c, S) ==
    [c EXCEPT !.inputs = [i \in Inputs |->
        LET x == c.inputs[i] IN
        IF i \in S /\ x.attachment = "retrying"
        THEN BeginAttempt([x EXCEPT !.attachment = "none"]) ELSE x]]

\* retry_user_input of a given-up attachment: same id, same place in the queue.
RetryInPlace(c, i) ==
    [c EXCEPT !.inputs = [c.inputs EXCEPT ![i] =
        [c.inputs[i] EXCEPT !.attachment = "none", !.attempts = 0, !.stop = FALSE]]]

\* Mutant: one attempt more than there are.
ExhaustedLate(c) ==
    {i \in Pending(c) : LET x == c.inputs[i] IN
        /\ x.attempts > MaxAttempts \/ x.stop
        /\ x.attachment = "none" /\ x.prepared = 0 /\ ~x.started}

Exhausted(c) ==
    {i \in Pending(c) : LET x == c.inputs[i] IN
        /\ x.attempts >= MaxAttempts \/ x.stop
        /\ x.attachment = "none" /\ x.prepared = 0 /\ ~x.started}

----------------------------------------------------------------------------
(* The turn commit.                                                        *)

CanReserve(c, gen, seq, S) ==
    /\ c.opGen = gen
    /\ c.lease # {} /\ c.leaseSeq = seq /\ c.lease = S
    /\ c.commit = NoCommit

Reserve(c, seq, S, turn) ==
    [c EXCEPT !.commit =
        [phase |-> "reserved", ids |-> S, seq |-> seq, turn |-> turn]]

MarkPersisting(c) == [c EXCEPT !.commit = [c.commit EXCEPT !.phase = "persisting"]]

CanPrepare(c, S, turn) ==
    /\ S \cap c.cancelled = {} /\ S \subseteq Pending(c)
    /\ \A i \in S : c.inputs[i].prepared \in {0, turn}

Prepare(c, S, turn) ==
    [c EXCEPT !.inputs = [i \in Inputs |->
        IF i \in S THEN [c.inputs[i] EXCEPT !.prepared = turn] ELSE c.inputs[i]]]

CanStart(c, S, turn) ==
    /\ S \cap c.cancelled = {} /\ S \subseteq Pending(c)
    /\ \A i \in S : c.inputs[i].prepared = turn

Start(c, S) ==
    [c EXCEPT !.inputs = [i \in Inputs |->
        IF i \in S THEN [c.inputs[i] EXCEPT !.started = TRUE] ELSE c.inputs[i]]]

CanFinalize(c, seq, S, turn) ==
    /\ c.commit.phase # "none" /\ c.commit.turn = turn
    /\ c.commit.seq = seq /\ c.commit.ids = S
    /\ c.lease = {} \/ (c.leaseSeq = seq /\ c.lease = S)

\* Mutant: the marker outlives the turn.
FinalizeKeepsMarker(c, S) == DropLease(Remove(c, S))

Finalize(c, S) ==
    [DropLease(Remove(c, S)) EXCEPT !.commit = NoCommit]

DropMatchingLease(c, seq) == IF c.leaseSeq = seq THEN DropLease(c) ELSE c

\* Mutant: a commit that had begun to write is forgotten as well.
PrepareRecoveryForgets(c) ==
    [DropMatchingLease(DiscardPreparation(c, c.commit.ids), c.commit.seq)
        EXCEPT !.commit = NoCommit]

\* A reserved commit is simply forgotten; a persisting one must be finished.
PrepareRecovery(c) ==
    IF c.commit.phase = "reserved"
    THEN [DropMatchingLease(c, c.commit.seq) EXCEPT !.commit = NoCommit]
    ELSE c

ReleaseRecovery(c, k) ==
    IF c.commit # k THEN c
    ELSE [DiscardPreparation(DropMatchingLease(c, k.seq), k.ids)
             EXCEPT !.commit = NoCommit]
=============================================================================
