--------------------------- MODULE UserTurn_proofs ---------------------------
(***************************************************************************)
(* What is proved of a user turn, for every number of messages, operations, *)
(* attempts and faults and in every mode. The updates of cursor.json come   *)
(* first: what they preserve holds of any cursor, whoever writes it.        *)
(*                                                                         *)
(* TypeOK is not inductive: the commit writes under the id of its response  *)
(* and a copy takes the next place in the log, so that the response has to  *)
(* be known by then and the place to be left. OperationKnown says so, and a *)
(* step preserves the two together.                                         *)
(*                                                                         *)
(* The order of the queue, that no message is answered twice, that none is  *)
(* lost and, without images, that every read of the cursor succeeds and no  *)
(* message is given up before its attempts are spent follow in the sections *)
(* after it, each with its own invariant.                                   *)
(***************************************************************************)
EXTENDS UserTurn, LeastNumbers, FiniteSetTheorems

----------------------------------------------------------------------------
(* THE CURSOR.                                                             *)
(* What the updates of cursor.json preserve: every one of them yields a    *)
(* well-formed cursor, and the insertions keep the sequence numbers of the *)
(* queue distinct, so that the queue has a first input.                    *)

(* The parts of a cursor.                                                  *)

\* The inputs are finitely many, and so is every set of them.
LEMMA InputsFinite ==
    ASSUME NEW S \in SUBSET Inputs
    PROVE  IsFiniteSet(S) /\ Cardinality(S) \in Nat
<1>1. IsFiniteSet(Inputs)
  BY BoundsAssumption, FS_Interval DEF Inputs
<1> QED BY <1>1, FS_Subset, FS_CardinalityType

LEMMA AbsentTyped == Absent \in PendingInput
BY BoundsAssumption DEF Absent, PendingInput, AttachmentStates

LEMMA FreshTyped ==
    ASSUME NEW n \in Nat
    PROVE  Fresh(n) \in PendingInput /\ Fresh(n).seq = n
BY AbsentTyped DEF Fresh, Absent, PendingInput

LEMMA NoCommitTyped == NoCommit \in ActiveTurnCommit
BY DEF NoCommit, ActiveTurnCommit, Phases

LEMMA DefaultTyped == DefaultCursor \in Cursor
BY AbsentTyped, NoCommitTyped, BoundsAssumption DEF DefaultCursor, Cursor

LEMMA SlotTyped ==
    ASSUME NEW c \in Cursor, NEW i \in Inputs
    PROVE  /\ c.inputs[i] \in PendingInput
           /\ c.inputs[i].attempts \in 0 .. MaxAttempts
           /\ c.inputs[i].prepared \in {0} \cup Responses
           /\ c.inputs[i].seq \in Nat
BY DEF Cursor, PendingInput

\* Replacing the slots, the lease or the commit leaves a cursor a cursor.
LEMMA InputsReplaced ==
    ASSUME NEW c \in Cursor, NEW f \in [Inputs -> PendingInput]
    PROVE  /\ [c EXCEPT !.inputs = f] \in Cursor
           /\ [c EXCEPT !.inputs = f].inputs = f
BY DEF Cursor

LEMMA LeaseReplaced ==
    ASSUME NEW c \in Cursor, NEW S \in SUBSET Inputs, NEW n \in Nat
    PROVE  [c EXCEPT !.lease = S, !.leaseSeq = n] \in Cursor
BY DEF Cursor

LEMMA CommitReplaced ==
    ASSUME NEW c \in Cursor, NEW k \in ActiveTurnCommit
    PROVE  [c EXCEPT !.commit = k] \in Cursor
BY DEF Cursor

----------------------------------------------------------------------------
(* Reading.                                                                *)

LEMMA DropLeaseTyped ==
    ASSUME NEW c \in Cursor
    PROVE  DropLease(c) \in Cursor
BY DEF DropLease, Cursor

LEMMA DiscardTyped ==
    ASSUME NEW c \in Cursor, NEW S
    PROVE  DiscardPreparation(c, S) \in Cursor
<1>1. [i \in Inputs |-> IF i \in S
           THEN [c.inputs[i] EXCEPT !.prepared = 0, !.started = FALSE]
           ELSE c.inputs[i]] \in [Inputs -> PendingInput]
  BY SlotTyped DEF PendingInput
<1> QED BY <1>1, InputsReplaced DEF DiscardPreparation

LEMMA ReadTyped ==
    ASSUME NEW c \in Cursor
    PROVE  Read(c) \in Cursor
BY DropLeaseTyped, DiscardTyped, NoCommitTyped, CommitReplaced DEF Read

\* A read does not touch the order of the queue.
LEMMA ReadKeepsQueue ==
    ASSUME NEW c \in Cursor
    PROVE  /\ Read(c).nextSeq = c.nextSeq
           /\ \A i \in Inputs : Read(c).inputs[i].seq = c.inputs[i].seq
BY SlotTyped DEF Read, DropLease, DiscardPreparation, Cursor, PendingInput

LEMMA ReadValidPending ==
    ASSUME NEW c \in Cursor, ValidPending(c)
    PROVE  ValidPending(Read(c))
BY ReadKeepsQueue DEF ValidPending, Pending

----------------------------------------------------------------------------
(* Inserting: the ranks of the inserted inputs are distinct and positive.  *)

LEMMA RankTyped ==
    ASSUME NEW M \in SUBSET Inputs, NEW i \in M
    PROVE  Rank(M, i) \in Nat \ {0} /\ Rank(M, i) <= Cardinality(M)
<1> DEFINE L == {j \in M : j <= i}
<1>1. IsFiniteSet(M) /\ IsFiniteSet(L) /\ Cardinality(L) \in Nat
  BY InputsFinite
<1>2. L # {}
  BY DEF Inputs
<1>3. Cardinality(L) # 0
  BY <1>1, <1>2, FS_EmptySet
<1>4. Cardinality(L) <= Cardinality(M)
  BY <1>1, FS_Subset
<1> QED BY <1>1, <1>3, <1>4 DEF Rank

LEMMA RankIncreases ==
    ASSUME NEW M \in SUBSET Inputs, NEW i \in M, NEW j \in M, i < j
    PROVE  Rank(M, i) < Rank(M, j)
<1> DEFINE A == {k \in M : k <= i}
           B == {k \in M : k <= j}
<1>0. i \in Int /\ j \in Int /\ \A k \in M : k \in Int
  BY DEF Inputs
<1>1. A \subseteq B /\ j \in B /\ j \notin A
  <2>1. j \in B /\ j \notin A
    BY <1>0
  <2>2. ASSUME NEW k \in A PROVE k \in B
    <3>1. k \in M /\ k <= i /\ k \in Int
      BY <1>0
    <3>2. k <= j
      BY <3>1, <1>0
    <3> QED BY <3>1, <3>2
  <2> QED BY <2>1, <2>2
<1>2. IsFiniteSet(B) /\ Cardinality(B) \in Nat /\ Cardinality(A) \in Nat
  BY InputsFinite
<1>3. Cardinality(A) <= Cardinality(B) /\ Cardinality(A) # Cardinality(B)
  BY <1>1, <1>2, FS_Subset
<1> QED BY <1>2, <1>3 DEF Rank

\* The queue and its counter, replaced together.
LEMMA QueueReplaced ==
    ASSUME NEW c \in Cursor, NEW f \in [Inputs -> PendingInput], NEW n \in Nat
    PROVE  LET d == [c EXCEPT !.nextSeq = n, !.inputs = f]
           IN  d \in Cursor /\ d.inputs = f /\ d.nextSeq = n
BY DEF Cursor

LEMMA EnqueueTyped ==
    ASSUME NEW c \in Cursor, NEW i \in Inputs
    PROVE  Enqueue(c, i) \in Cursor
<1>1. c.nextSeq + 1 \in Nat /\ c.inputs \in [Inputs -> PendingInput]
  BY DEF Cursor
<1>2. Fresh(c.nextSeq + 1) \in PendingInput
  BY <1>1, FreshTyped
<1>3. [c.inputs EXCEPT ![i] = Fresh(c.nextSeq + 1)] \in [Inputs -> PendingInput]
  BY <1>1, <1>2
<1> QED BY <1>1, <1>3, QueueReplaced DEF Enqueue

LEMMA ReconcileTyped ==
    ASSUME NEW c \in Cursor, NEW heard, NEW settled
    PROVE  Reconcile(c, heard, settled) \in Cursor
<1> DEFINE M == Missing(c, heard, settled)
           f == [i \in Inputs |-> IF i \in M THEN Fresh(c.nextSeq + Rank(M, i))
                                             ELSE c.inputs[i]]
<1>1. M \in SUBSET Inputs
  BY DEF Missing
<1>2. Cardinality(M) \in Nat
  BY <1>1, InputsFinite
<1>3. c.nextSeq \in Nat
  BY DEF Cursor
<1>4. ASSUME NEW i \in M PROVE Fresh(c.nextSeq + Rank(M, i)) \in PendingInput
  <2>1. Rank(M, i) \in Nat
    BY <1>1, RankTyped
  <2>2. c.nextSeq + Rank(M, i) \in Nat
    BY <1>3, <2>1
  <2> QED
    BY <2>2, FreshTyped
<1>5. f \in [Inputs -> PendingInput]
  BY <1>4, SlotTyped
<1>6. c.nextSeq + Cardinality(M) \in Nat
  BY <1>2, <1>3
<1> HIDE DEF M, f
<1>7. [c EXCEPT !.nextSeq = c.nextSeq + Cardinality(M), !.inputs = f] \in Cursor
  BY <1>5, <1>6, QueueReplaced
<1> QED BY <1>7 DEF Reconcile, M, f

\* Reconciling numbers what it inserts beyond every number in use.
LEMMA ReconcileValidPending ==
    ASSUME NEW c \in Cursor, ValidPending(c), NEW heard, NEW settled
    PROVE  ValidPending(Reconcile(c, heard, settled))
<1> DEFINE M == Missing(c, heard, settled)
           d == Reconcile(c, heard, settled)
<1>1. M \in SUBSET Inputs /\ Cardinality(M) \in Nat /\ c.nextSeq \in Nat
  BY InputsFinite DEF Missing, Cursor
<1>2. d.nextSeq = c.nextSeq + Cardinality(M)
  BY DEF Reconcile, Cursor
<1>3. ASSUME NEW i \in M
      PROVE  d.inputs[i].seq = c.nextSeq + Rank(M, i) /\ Rank(M, i) \in Nat \ {0}
             /\ Rank(M, i) <= Cardinality(M)
  <2>1. d.inputs[i] = Fresh(c.nextSeq + Rank(M, i))
    BY <1>1 DEF Reconcile, Cursor
  <2> QED BY <2>1, <1>1, RankTyped, FreshTyped
<1>4. ASSUME NEW i \in Inputs \ M
      PROVE  d.inputs[i] = c.inputs[i]
  BY DEF Reconcile, Cursor
<1>5. ASSUME NEW i \in Pending(d)
      PROVE  d.inputs[i].seq <= d.nextSeq
  <2>1. CASE i \in M
    BY <2>1, <1>1, <1>2, <1>3
  <2>2. CASE i \notin M
    <3>1. i \in Pending(c) /\ d.inputs[i].seq = c.inputs[i].seq
      BY <2>2, <1>4 DEF Pending
    <3>2. d.inputs[i].seq \in Nat /\ d.inputs[i].seq <= c.nextSeq
      BY <3>1, SlotTyped DEF ValidPending, Pending
    <3> QED BY <3>2, <1>1, <1>2
  <2> QED BY <2>1, <2>2
<1>6. ASSUME NEW i \in Pending(d), NEW j \in Pending(d),
             d.inputs[i].seq = d.inputs[j].seq
      PROVE  i = j
  <2>0. i \in Inputs /\ j \in Inputs
    BY DEF Pending
  <2>1. CASE i \in M /\ j \in M
    <3>1. Rank(M, i) = Rank(M, j)
      BY <1>6, <2>1, <1>1, <1>3
    <3>2. ~(i < j) /\ ~(j < i)
      BY <3>1, <2>1, <1>1, <1>3, RankIncreases
    <3> QED BY <3>2, <2>0 DEF Inputs
  <2>2. CASE i \notin M /\ j \notin M
    BY <1>6, <2>0, <2>2, <1>4 DEF Pending, ValidPending
  <2>3. ASSUME NEW k \in Pending(d), k \in M, NEW l \in Pending(d), l \notin M
        PROVE  d.inputs[l].seq < d.inputs[k].seq
    <3>1. l \in Pending(c) /\ d.inputs[l].seq = c.inputs[l].seq
      BY <2>3, <1>4 DEF Pending
    <3>2. c.inputs[l].seq \in Nat /\ c.inputs[l].seq <= c.nextSeq
      BY <3>1, SlotTyped DEF ValidPending, Pending
    <3> QED BY <2>3, <3>1, <3>2, <1>1, <1>3
  <2>4. d.inputs[i].seq \in Nat /\ d.inputs[j].seq \in Nat
    BY <2>0, ReconcileTyped, SlotTyped
  <2> QED BY <1>6, <2>1, <2>2, <2>3, <2>4
<1> QED BY <1>5, <1>6 DEF ValidPending

\* In a queue with distinct numbers, every part that is not empty has a first.
LEMMA FirstExists ==
    ASSUME NEW c \in Cursor, ValidPending(c),
           NEW S \in SUBSET Pending(c), S # {}
    PROVE  /\ First(c, S) \in S
           /\ \A j \in S \ {First(c, S)} : Before(c, First(c, S), j)
<1> DEFINE T == {c.inputs[i].seq : i \in S}
<1>1. T \in SUBSET Nat /\ T # {}
  BY SlotTyped DEF Pending
<1>2. PICK n \in T : \A m \in T : n <= m
  BY <1>1, LeastNatural
<1>3. PICK i \in S : c.inputs[i].seq = n
  OBVIOUS
<1>4. ASSUME NEW j \in S \ {i} PROVE Before(c, i, j)
  <2>1. c.inputs[j].seq \in Nat /\ c.inputs[i].seq \in Nat
    BY SlotTyped DEF Pending
  <2>2. c.inputs[i].seq <= c.inputs[j].seq
    BY <1>2, <1>3
  <2>3. c.inputs[i].seq # c.inputs[j].seq
    BY DEF ValidPending
  <2> QED BY <2>1, <2>2, <2>3 DEF Before
<1> QED BY <1>4 DEF First

----------------------------------------------------------------------------
(* The lease, and leaving the queue.                                       *)

LEMMA LeaseTyped ==
    ASSUME NEW c \in Cursor, NEW S \in SUBSET Inputs
    PROVE  Lease(c, S) \in Cursor
<1>1. c.nextDispatch + 1 \in Nat
  BY DEF Cursor
<1>2. ASSUME NEW n \in Nat
      PROVE  [c EXCEPT !.lease = S, !.leaseSeq = n, !.nextDispatch = n] \in Cursor
  BY DEF Cursor
<1> QED BY <1>1, <1>2 DEF Lease

LEMMA LeaseKeepsQueue ==
    ASSUME NEW c \in Cursor, NEW S \in SUBSET Inputs
    PROVE  /\ Lease(c, S).inputs = c.inputs
           /\ Lease(c, S).nextSeq = c.nextSeq
           /\ c.lease # {} => Lease(c, S) = c
           /\ c.lease = {} => Lease(c, S).lease = S
BY DEF Lease, Cursor

LEMMA ExtendTyped ==
    ASSUME NEW c \in Cursor, NEW S \in SUBSET Inputs
    PROVE  Extend(c, S) \in Cursor
BY DEF Extend, Cursor

LEMMA RemoveTyped ==
    ASSUME NEW c \in Cursor, NEW S
    PROVE  Remove(c, S) \in Cursor
<1> DEFINE f == [i \in Inputs |-> IF i \in S THEN Absent ELSE c.inputs[i]]
<1>1. f \in [Inputs -> PendingInput]
  BY AbsentTyped, SlotTyped
<1>2. c.lease \ S \in SUBSET Inputs /\ c.leaseSeq \in Nat
  BY DEF Cursor
<1> HIDE DEF f
<1>3. ASSUME NEW L \in SUBSET Inputs, NEW n \in Nat
      PROVE  [c EXCEPT !.inputs = f, !.lease = L, !.leaseSeq = n] \in Cursor
  BY <1>1 DEF Cursor
<1> QED BY <1>2, <1>3 DEF Remove, f

LEMMA CancelledReplaced ==
    ASSUME NEW c \in Cursor, NEW S \in SUBSET Inputs
    PROVE  [c EXCEPT !.cancelled = S] \in Cursor
BY DEF Cursor

LEMMA CancelTyped ==
    ASSUME NEW c \in Cursor, NEW i \in Inputs
    PROVE  Cancel(c, i) \in Cursor
<1>1. Remove(c, {i}) \in Cursor /\ c.cancelled \cup {i} \in SUBSET Inputs
  BY RemoveTyped DEF Cursor
<1> QED BY <1>1, CancelledReplaced DEF Cancel

LEMMA ForgetCommitTyped ==
    ASSUME NEW c \in Cursor, NEW S
    PROVE  ForgetCommitOf(c, S) \in Cursor
BY NoCommitTyped, CommitReplaced DEF ForgetCommitOf

LEMMA CancelAfterTerminationTyped ==
    ASSUME NEW c \in Cursor, NEW i \in Inputs
    PROVE  CancelAfterTermination(c, i) \in Cursor
<1>1. Remove(c, {i}) \in Cursor /\ c.cancelled \cup {i} \in SUBSET Inputs
  BY RemoveTyped DEF Cursor
<1> QED BY <1>1, CancelledReplaced, ForgetCommitTyped DEF CancelAfterTermination

LEMMA RemoveSettledTyped ==
    ASSUME NEW c \in Cursor, NEW S
    PROVE  RemoveSettled(c, S) \in Cursor
BY RemoveTyped, ForgetCommitTyped DEF RemoveSettled

----------------------------------------------------------------------------
(* Attempts: what is counted never passes MAX_USER_RESPONSE_ATTEMPTS.      *)

LEMMA BeginAttemptTyped ==
    ASSUME NEW x \in PendingInput, CostsAttempt(x) => x.attempts < MaxAttempts
    PROVE  BeginAttempt(x) \in PendingInput
<1>1. ASSUME NEW n \in 0 .. MaxAttempts
      PROVE  [x EXCEPT !.attempts = n, !.stop = FALSE] \in PendingInput
  BY DEF PendingInput
<1>2. CostsAttempt(x) => x.attempts + 1 \in 0 .. MaxAttempts
  BY BoundsAssumption DEF PendingInput
<1> QED BY <1>1, <1>2 DEF BeginAttempt

\* An input that can begin is below its bound or pays nothing.
LEMMA CanBeginTyped ==
    ASSUME NEW x \in PendingInput, CanBegin(x)
    PROVE  BeginAttempt(x) \in PendingInput
BY BeginAttemptTyped DEF CanBegin, CostsAttempt

LEMMA ReturnAttemptTyped ==
    ASSUME NEW x \in PendingInput
    PROVE  ReturnAttempt(x) \in PendingInput
BY BoundsAssumption DEF ReturnAttempt, PendingInput

LEMMA OpGenReplaced ==
    ASSUME NEW c \in Cursor, NEW f \in [Inputs -> PendingInput], NEW n \in 0 .. MaxOps
    PROVE  [c EXCEPT !.opGen = n, !.inputs = f] \in Cursor
BY DEF Cursor

LEMMA BeginTyped ==
    ASSUME NEW c \in Cursor, NEW S, c.opGen < MaxOps,
           \A i \in S \cap Inputs : CanBegin(c.inputs[i])
    PROVE  Begin(c, S) \in Cursor
<1> DEFINE f == [i \in Inputs |-> IF i \in S THEN BeginAttempt(c.inputs[i])
                                             ELSE c.inputs[i]]
<1>1. f \in [Inputs -> PendingInput]
  BY SlotTyped, CanBeginTyped
<1>2. c.opGen + 1 \in 0 .. MaxOps
  BY BoundsAssumption DEF Cursor
<1> HIDE DEF f
<1>3. [c EXCEPT !.opGen = c.opGen + 1, !.inputs = f] \in Cursor
  BY <1>1, <1>2, OpGenReplaced
<1> QED BY <1>3 DEF Begin, f

LEMMA RequestRestartTyped ==
    ASSUME NEW c \in Cursor, NEW S, c.opGen < MaxOps
    PROVE  RequestRestart(c, S) \in Cursor
<1> DEFINE f == [i \in Inputs |-> IF i \in S THEN ReturnAttempt(c.inputs[i])
                                             ELSE c.inputs[i]]
<1>1. f \in [Inputs -> PendingInput]
  BY SlotTyped, ReturnAttemptTyped
<1>2. c.opGen + 1 \in 0 .. MaxOps
  BY BoundsAssumption DEF Cursor
<1> HIDE DEF f
<1>3. [c EXCEPT !.opGen = c.opGen + 1, !.inputs = f] \in Cursor
  BY <1>1, <1>2, OpGenReplaced
<1> QED BY <1>3 DEF RequestRestart, f

LEMMA ReleaseAttemptsTyped ==
    ASSUME NEW c \in Cursor, NEW S, NEW before \in [Inputs -> 0 .. MaxAttempts]
    PROVE  ReleaseAttempts(c, S, before) \in Cursor
<1> DEFINE f == [i \in Inputs |->
                   LET x == c.inputs[i] IN
                   IF /\ i \in S /\ i \in Pending(c)
                      /\ x.prepared = 0 /\ ~x.started
                      /\ x.attempts = before[i] + 1
                   THEN [x EXCEPT !.attempts = before[i]] ELSE x]
<1>1. ASSUME NEW x \in PendingInput, NEW n \in 0 .. MaxAttempts
      PROVE  [x EXCEPT !.attempts = n] \in PendingInput
  BY DEF PendingInput
<1>2. f \in [Inputs -> PendingInput]
  BY SlotTyped, <1>1
<1> HIDE DEF f
<1>3. [c EXCEPT !.inputs = f] \in Cursor
  BY <1>2, InputsReplaced
<1> QED BY <1>3 DEF ReleaseAttempts, f

LEMMA RecordFailureTyped ==
    ASSUME NEW c \in Cursor, NEW first, NEW stop \in BOOLEAN
    PROVE  RecordFailure(c, first, stop) \in Cursor
<1> DEFINE f == [i \in Inputs |->
                   LET x == c.inputs[i] IN
                   IF /\ i \in Pending(c)
                      /\ i = first \/ (first \in c.lease /\ i \in c.lease /\ x.attempts > 0)
                      /\ x.prepared = 0 /\ ~x.started
                   THEN [x EXCEPT !.stop = stop] ELSE x]
<1>1. ASSUME NEW x \in PendingInput
      PROVE  [x EXCEPT !.stop = stop] \in PendingInput
  BY DEF PendingInput
<1>2. f \in [Inputs -> PendingInput]
  BY SlotTyped, <1>1
<1> HIDE DEF f
<1>3. [c EXCEPT !.inputs = f] \in Cursor
  BY <1>2, InputsReplaced
<1> QED BY <1>3 DEF RecordFailure, f

\* Replacing one slot.
LEMMA SlotReplaced ==
    ASSUME NEW c \in Cursor, NEW i \in Inputs, NEW x \in PendingInput
    PROVE  [c EXCEPT !.inputs = [c.inputs EXCEPT ![i] = x]] \in Cursor
BY DEF Cursor

LEMMA RecordAttachmentFailureTyped ==
    ASSUME NEW c \in Cursor, NEW i \in Inputs, NEW state \in AttachmentStates
    PROVE  RecordAttachmentFailure(c, i, state) \in Cursor
<1> DEFINE x == [ReturnAttempt(c.inputs[i]) EXCEPT !.attachment = state]
           d == [c EXCEPT !.inputs = [c.inputs EXCEPT ![i] = x]]
<1>1. x \in PendingInput
  BY SlotTyped, ReturnAttemptTyped DEF PendingInput
<1>2. d \in Cursor
  BY <1>1, SlotReplaced
<1>3. c.lease \ {i} \in SUBSET Inputs /\ c.leaseSeq \in Nat
  BY DEF Cursor
<1> HIDE DEF d
<1> QED BY <1>2, <1>3, LeaseReplaced DEF RecordAttachmentFailure, d

LEMMA CompleteAttachmentsTyped ==
    ASSUME NEW c \in Cursor, NEW S,
           \A i \in S \cap Inputs : c.inputs[i].attempts < MaxAttempts
                                    \/ c.inputs[i].attachment # "retrying"
    PROVE  CompleteAttachments(c, S) \in Cursor
<1> DEFINE f == [i \in Inputs |->
                   LET x == c.inputs[i] IN
                   IF i \in S /\ x.attachment = "retrying"
                   THEN BeginAttempt([x EXCEPT !.attachment = "none"]) ELSE x]
<1>1. ASSUME NEW x \in PendingInput, x.attempts < MaxAttempts
      PROVE  BeginAttempt([x EXCEPT !.attachment = "none"]) \in PendingInput
  <2>1. /\ [x EXCEPT !.attachment = "none"] \in PendingInput
        /\ [x EXCEPT !.attachment = "none"].attempts < MaxAttempts
    BY <1>1 DEF PendingInput, AttachmentStates
  <2> QED BY <2>1, BeginAttemptTyped
<1>2. f \in [Inputs -> PendingInput]
  BY SlotTyped, <1>1
<1> HIDE DEF f
<1>3. [c EXCEPT !.inputs = f] \in Cursor
  BY <1>2, InputsReplaced
<1> QED BY <1>3 DEF CompleteAttachments, f

LEMMA RetryInPlaceTyped ==
    ASSUME NEW c \in Cursor, NEW i \in Inputs
    PROVE  RetryInPlace(c, i) \in Cursor
<1>1. 0 \in 0 .. MaxAttempts /\ "none" \in AttachmentStates
  BY BoundsAssumption DEF AttachmentStates
<1>2. ASSUME NEW x \in PendingInput
      PROVE  [x EXCEPT !.attachment = "none", !.attempts = 0, !.stop = FALSE]
                 \in PendingInput
  BY <1>1 DEF PendingInput
<1> QED BY <1>2, SlotTyped, SlotReplaced DEF RetryInPlace

----------------------------------------------------------------------------
(* The turn commit.                                                        *)

LEMMA ReserveTyped ==
    ASSUME NEW c \in Cursor, NEW seq \in Nat, NEW S \in SUBSET Inputs,
           NEW turn \in {0} \cup Responses
    PROVE  Reserve(c, seq, S, turn) \in Cursor
<1>1. [phase |-> "reserved", ids |-> S, seq |-> seq, turn |-> turn] \in ActiveTurnCommit
  BY DEF ActiveTurnCommit, Phases
<1> QED BY <1>1, CommitReplaced DEF Reserve

LEMMA MarkPersistingTyped ==
    ASSUME NEW c \in Cursor
    PROVE  MarkPersisting(c) \in Cursor
<1>1. [c.commit EXCEPT !.phase = "persisting"] \in ActiveTurnCommit
  BY DEF Cursor, ActiveTurnCommit, Phases
<1> QED BY <1>1, CommitReplaced DEF MarkPersisting

LEMMA PrepareTyped ==
    ASSUME NEW c \in Cursor, NEW S, NEW turn \in {0} \cup Responses
    PROVE  Prepare(c, S, turn) \in Cursor
<1> DEFINE f == [i \in Inputs |->
                   IF i \in S THEN [c.inputs[i] EXCEPT !.prepared = turn] ELSE c.inputs[i]]
<1>1. f \in [Inputs -> PendingInput]
  BY SlotTyped DEF PendingInput
<1> HIDE DEF f
<1>2. [c EXCEPT !.inputs = f] \in Cursor
  BY <1>1, InputsReplaced
<1> QED BY <1>2 DEF Prepare, f

LEMMA StartTyped ==
    ASSUME NEW c \in Cursor, NEW S
    PROVE  Start(c, S) \in Cursor
<1> DEFINE f == [i \in Inputs |->
                   IF i \in S THEN [c.inputs[i] EXCEPT !.started = TRUE] ELSE c.inputs[i]]
<1>1. f \in [Inputs -> PendingInput]
  BY SlotTyped DEF PendingInput
<1> HIDE DEF f
<1>2. [c EXCEPT !.inputs = f] \in Cursor
  BY <1>1, InputsReplaced
<1> QED BY <1>2 DEF Start, f

LEMMA FinalizeTyped ==
    ASSUME NEW c \in Cursor, NEW S
    PROVE  Finalize(c, S) \in Cursor
BY RemoveTyped, DropLeaseTyped, NoCommitTyped, CommitReplaced DEF Finalize

LEMMA PrepareRecoveryTyped ==
    ASSUME NEW c \in Cursor
    PROVE  PrepareRecovery(c) \in Cursor
BY DropLeaseTyped, NoCommitTyped, CommitReplaced DEF PrepareRecovery, DropMatchingLease

LEMMA ReleaseRecoveryTyped ==
    ASSUME NEW c \in Cursor, NEW k
    PROVE  ReleaseRecovery(c, k) \in Cursor
<1>1. DropMatchingLease(c, k.seq) \in Cursor
  BY DropLeaseTyped DEF DropMatchingLease
<1>2. DiscardPreparation(DropMatchingLease(c, k.seq), k.ids) \in Cursor
  BY <1>1, DiscardTyped
<1> QED BY <1>2, NoCommitTyped, CommitReplaced DEF ReleaseRecovery

----------------------------------------------------------------------------
(* Facts about the queue that the steps of a turn rest on.                 *)

\* When the inputs agree on one answer and it is not "none", it is an answer.
LEMMA OneAnswerPrepared ==
    ASSUME NEW c \in Cursor, NEW S \in SUBSET Inputs, NEW P,
           P = {c.inputs[i].prepared : i \in S}, Cardinality(P) = 1, P # {0},
           NEW r \in P
    PROVE  r \in Responses
<1>1. P \in SUBSET (0 .. MaxOps)
  BY SlotTyped, BoundsAssumption DEF Responses
<1>2. IsFiniteSet(0 .. MaxOps)
  <2>1. 0 \in Int /\ MaxOps \in Int
    BY BoundsAssumption
  <2> QED BY <2>1, FS_Interval
<1>3. IsFiniteSet(P)
  BY <1>1, <1>2, FS_Subset
<1>4. \E x : P = {x}
  BY <1>3, FS_Singleton
<1>5. P = {r}
  BY <1>4
<1> QED BY <1>5, SlotTyped

LEMMA ReadKeepsLease ==
    ASSUME NEW c \in Cursor
    PROVE  /\ Read(c).lease \in {{}, c.lease}
           /\ Pending(Read(c)) = Pending(c)
<1>1. Read(c).lease \in {{}, c.lease}
  BY DEF Read, DropLease, DiscardPreparation, Cursor
<1> QED BY <1>1, ReadKeepsQueue DEF Pending

LEMMA ReconcileKeepsPending ==
    ASSUME NEW c \in Cursor, NEW heard, NEW settled
    PROVE  /\ Reconcile(c, heard, settled).lease = c.lease
           /\ Pending(c) \subseteq Pending(Reconcile(c, heard, settled))
<1>1. Reconcile(c, heard, settled).lease = c.lease
  BY DEF Reconcile, Cursor
<1>2. ASSUME NEW i \in Pending(c)
      PROVE  Reconcile(c, heard, settled).inputs[i] = c.inputs[i]
  BY DEF Reconcile, Missing, Pending, Cursor
<1> QED BY <1>1, <1>2 DEF Pending

\* The lease of a readable cursor holds inputs of the queue, and still does
\* after the queue was reconciled with the log.
LEMMA LeaseOfQueue ==
    ASSUME NEW c \in Cursor, Readable(c), NEW heard, NEW settled
    PROVE  LET d == Reconcile(Read(c), heard, settled) IN d.lease \subseteq Pending(d)
<1>1. c.lease \subseteq Pending(c)
  BY DEF Readable, ValidDispatch, RunnablePrefix, Runnable
<1>2. Read(c).lease \subseteq Pending(Read(c))
  BY <1>1, ReadKeepsLease
<1> QED BY <1>2, ReadTyped, ReconcileKeepsPending

LEMMA ReadKeepsOperation ==
    ASSUME NEW c \in Cursor
    PROVE  Read(c).opGen = c.opGen
BY DEF Read, DropLease, DiscardPreparation, Cursor

----------------------------------------------------------------------------
(* THE TURN.                                                               *)
(* What the provider, the commit and the recovery know between two steps.  *)

OperationKnown ==
    /\ pc = "run" => job.gen # 0
    /\ pc \in {"begin", "run"} => job.active # 0
    /\ job.task = "answered" => job.turn # 0
    /\ pc \in CommitSteps => job.turn # 0
    /\ pc = "copy" => said < MaxInputs
    /\ pc = "copyEnqueue" => job.copy # 0

IInv == TypeOK /\ OperationKnown

----------------------------------------------------------------------------
(* The records of the actor.                                               *)

LEMMA NoJobTyped == NoJob \in Job
BY BoundsAssumption DEF NoJob, Job, TaskStates, Origins

LEMMA KeptTyped ==
    ASSUME NEW k \in ActiveTurnCommit, NEW o \in Origins
    PROVE  [Keep(k) EXCEPT !.origin = o] \in Job
           /\ [Keep(k) EXCEPT !.origin = o].task = "none"
BY NoJobTyped DEF Keep, Job, NoJob, ActiveTurnCommit

LEMMA SettlingJobTyped ==
    ASSUME NEW a \in {0} \cup Inputs, NEW o \in Origins
    PROVE  LET j == [NoJob EXCEPT !.origin = o, !.active = a]
           IN  j \in Job /\ j.task = "none"
BY NoJobTyped DEF Job, NoJob

LEMMA StartJobTyped ==
    ASSUME NEW o \in Origins
    PROVE  LET j == [NoJob EXCEPT !.origin = o]
           IN  j \in Job /\ j.task = "none"
BY NoJobTyped DEF Job, NoJob

LEMMA NoJobIdle == NoJob.task = "none"
BY DEF NoJob

LEMMA TaskTyped ==
    ASSUME NEW j \in Job, NEW t \in TaskStates
    PROVE  LET k == [j EXCEPT !.task = t]
           IN  k \in Job /\ k.task = t /\ k.gen = j.gen /\ k.active = j.active
               /\ k.turn = j.turn
BY DEF Job

LEMMA SpendTyped ==
    ASSUME TypeOK, NEW S, Spend(S)
    PROVE  spent' \in [Inputs -> 0 .. MaxAttempts]
<1>1. ASSUME NEW i \in Inputs PROVE spent[i] \in 0 .. MaxAttempts
  BY DEF TypeOK
<1>2. ASSUME NEW n \in 0 .. MaxAttempts, n < MaxAttempts
      PROVE  n + 1 \in 0 .. MaxAttempts
  BY <1>2, BoundsAssumption
<1> QED BY <1>1, <1>2 DEF Spend

LEMMA SpendAllTyped ==
    ASSUME TypeOK, NEW S, SpendAll(S)
    PROVE  spent' \in [Inputs -> 0 .. MaxAttempts]
<1>1. MaxAttempts \in 0 .. MaxAttempts
  BY BoundsAssumption
<1> QED BY <1>1 DEF SpendAll, TypeOK

\* The step a failing commit takes.
LEMMA FailCommitTyped ==
    ASSUME IInv, FailCommit
    PROVE  /\ pc' \in {"settle", "idle", "boot"}
           /\ job' \in Job /\ job'.task = "none"
           /\ spent' \in [Inputs -> 0 .. MaxAttempts]
           /\ backoff' \in BOOLEAN
<1>1. job.active \in {0} \cup Inputs /\ spent \in [Inputs -> 0 .. MaxAttempts]
  BY DEF IInv, TypeOK, Job
<1>2. CASE job.origin = "finish"
  <2>1. job' = [NoJob EXCEPT !.origin = "finish", !.active = job.active]
    BY <1>2 DEF FailCommit
  <2>2. spent' \in [Inputs -> 0 .. MaxAttempts]
    BY <1>2, SpendTyped DEF FailCommit, IInv
  <2>3. job' \in Job /\ job'.task = "none"
    BY <2>1, <1>1, SettlingJobTyped DEF Origins
  <2> QED BY <1>2, <2>2, <2>3 DEF FailCommit
<1>3. CASE job.origin # "finish"
  BY <1>1, <1>3, NoJobTyped, NoJobIdle DEF FailCommit
<1> QED BY <1>2, <1>3

LEMMA AfterRecoveryTyped ==
    ASSUME AfterRecovery
    PROVE  pc' \in {"idle", "settle"} /\ job' \in Job /\ job'.task = "none"
BY NoJobTyped, NoJobIdle, StartJobTyped DEF AfterRecovery, Origins

LEMMA AfterSettlingTyped ==
    ASSUME AfterSettling
    PROVE  pc' \in {"idle", "lease"} /\ job' \in Job /\ job'.task = "none"
BY NoJobTyped, NoJobIdle, StartJobTyped DEF AfterSettling, Origins

\* What a readable cursor reads as, and what reconciling it yields.
LEMMA CursorRead ==
    ASSUME TypeOK
    PROVE  /\ Read(cursor) \in Cursor
           /\ Reconcile(Read(cursor), said, Settled) \in Cursor
           /\ Readable(cursor) =>
                  /\ ValidPending(Read(cursor))
                  /\ ValidPending(Reconcile(Read(cursor), said, Settled))
<1>1. cursor \in Cursor
  BY DEF TypeOK
<1>2. Read(cursor) \in Cursor /\ (Readable(cursor) => ValidPending(Read(cursor)))
  BY <1>1, ReadTyped, ReadValidPending DEF Readable
<1> QED BY <1>2, ReconcileTyped, ReconcileValidPending

----------------------------------------------------------------------------

THEOREM InitTyped == Init => IInv
<1> SUFFICES ASSUME Init PROVE IInv
  OBVIOUS
<1>1. cursor \in Cursor /\ job \in Job
  BY DefaultTyped, NoJobTyped DEF Init
<1>2. 0 \in 0 .. MaxInputs /\ 0 \in 0 .. MaxAttempts /\ 0 \in 0 .. MaxFaults
  BY BoundsAssumption, ModeAssumption
<1>3. TypeOK
  BY <1>1, <1>2 DEF Init, TypeOK, ActorSteps
<1>4. OperationKnown
  BY DEF Init, OperationKnown, NoJob, CommitSteps
<1> QED BY <1>3, <1>4 DEF IInv

----------------------------------------------------------------------------
(* The handle.                                                             *)

LEMMA HandleTyped ==
    ASSUME IInv, HandleNext
    PROVE  IInv'
<1>1. ASSUME NEW image \in BOOLEAN, Say(image) PROVE IInv'
  <2>1. said + 1 \in Inputs /\ said + 1 \in 0 .. MaxInputs
    BY <1>1, BoundsAssumption DEF Say, IInv, TypeOK, Inputs
  <2>2. pc = "copy" => said + 1 < MaxInputs
    BY <1>1, BoundsAssumption DEF Say, IInv, TypeOK
  <2>3. TypeOK'
    BY <1>1, <2>1 DEF Say, IInv, TypeOK
  <2>4. OperationKnown'
    BY <1>1, <2>2 DEF Say, IInv, OperationKnown
  <2> QED BY <2>3, <2>4 DEF IInv
<1>2. ASSUME EnqueueSaid PROVE IInv'
  <2>1. preparing \in Inputs
    BY <1>2 DEF EnqueueSaid, IInv, TypeOK
  <2>2. cursor' \in Cursor
    BY <1>2, <2>1, CursorRead, EnqueueTyped DEF EnqueueSaid, IInv, TypeOK
  <2>3. commands' \in Nat
    BY <1>2 DEF EnqueueSaid, IInv, TypeOK
  <2>4. TypeOK'
    BY <1>2, <2>2, <2>3 DEF EnqueueSaid, IInv, TypeOK
  <2>5. OperationKnown'
    BY <1>2 DEF EnqueueSaid, IInv, OperationKnown
  <2> QED BY <2>4, <2>5 DEF IInv
<1> QED BY <1>1, <1>2 DEF HandleNext

----------------------------------------------------------------------------
(* The actor. Every step of it leaves the handle alone; what it does to    *)
(* the rest is shown apart.                                                *)

\* The actor is somewhere the invariant asks nothing of its job.
Resting == ActorSteps \ (CommitSteps \cup {"begin", "run", "copy", "copyEnqueue"})

LEMMA RestingStep ==
    ASSUME IInv, UNCHANGED <<said, images, preparing>>,
           cursor' \in Cursor, pc' \in Resting, job' \in Job, job'.task # "answered",
           answers' \in [Responses -> SUBSET Inputs],
           failures' \subseteq Inputs, mailbox' \subseteq Responses,
           commands' \in Nat, backoff' \in BOOLEAN,
           spent' \in [Inputs -> 0 .. MaxAttempts], faults' \in 0 .. MaxFaults
    PROVE  IInv'
<1>1. TypeOK'
  BY DEF IInv, TypeOK, Resting
<1>2. OperationKnown'
  BY DEF OperationKnown, Resting
<1> QED BY <1>1, <1>2 DEF IInv

LEMMA BootTyped == ASSUME IInv, Boot \/ BootReconcile \/ StartTurn PROVE IInv'
<1> USE DEF IInv
<1>1. ASSUME Boot PROVE IInv'
  <2>1. cursor' \in Cursor
    BY <1>1, CursorRead, PrepareRecoveryTyped DEF Boot
  <2>2. cursor'.commit \in ActiveTurnCommit
    BY <2>1 DEF Cursor
  <2>3. job' = [Keep(cursor'.commit) EXCEPT !.origin = "boot"]
    BY <1>1 DEF Boot
  <2>4. job' \in Job /\ job'.task = "none"
    BY <2>2, <2>3, KeptTyped DEF Origins
  <2> QED BY <1>1, <2>1, <2>4, RestingStep DEF Boot, TypeOK, Resting, ActorSteps, CommitSteps
<1>2. ASSUME BootReconcile PROVE IInv'
  <2>1. cursor' \in Cursor
    BY <1>2, CursorRead DEF BootReconcile
  <2>2. job' \in Job /\ pc' \in Resting
    BY <1>2, NoJobTyped DEF BootReconcile, TypeOK, Resting, ActorSteps, CommitSteps
  <2>3. job'.task = "answered" => job'.turn # 0
    BY <1>2 DEF BootReconcile, NoJob, OperationKnown
  <2>4. TypeOK'
    BY <1>2, <2>1, <2>2 DEF BootReconcile, TypeOK, Resting
  <2>5. OperationKnown'
    BY <2>2, <2>3 DEF OperationKnown, Resting
  <2> QED BY <2>4, <2>5
<1>3. ASSUME StartTurn PROVE IInv'
  <2>1. cursor' \in Cursor
    BY <1>3, CursorRead, PrepareRecoveryTyped DEF StartTurn
  <2>2. cursor'.commit \in ActiveTurnCommit
    BY <2>1 DEF Cursor
  <2>3. job' = [Keep(cursor'.commit) EXCEPT !.origin = "start"]
    BY <1>3 DEF StartTurn
  <2>4. job' \in Job /\ job'.task = "none"
    BY <2>2, <2>3, KeptTyped DEF Origins
  <2>5. pc' \in Resting
    BY <1>3 DEF StartTurn, Resting, ActorSteps, CommitSteps
  <2> QED BY <1>3, <2>1, <2>4, <2>5, RestingStep DEF StartTurn, TypeOK
<1> QED BY <1>1, <1>2, <1>3

LEMMA RecoverTyped == ASSUME IInv, Recover PROVE IInv'
<1> USE DEF IInv
<1> DEFINE c == Read(cursor)
           held == [phase |-> "persisting", ids |-> job.ids,
                    seq |-> job.seq, turn |-> job.turn]
           present == job.ids \cap Pending(c)
           prepared == {c.inputs[i].prepared : i \in present}
<1>1. c \in Cursor
  BY CursorRead
<1>2. UNCHANGED <<said, images, answers, failures, mailbox, preparing, commands, faults>>
  BY DEF Recover
<1>3. CASE cursor' = Finalize(c, job.ids) /\ AfterRecovery /\ UNCHANGED <<spent, backoff>>
  <2>1. cursor' \in Cursor
    BY <1>3, <1>1, FinalizeTyped
  <2> QED BY <1>2, <1>3, <2>1, AfterRecoveryTyped, RestingStep
          DEF TypeOK, Resting, ActorSteps, CommitSteps
<1>4. CASE cursor' = c /\ FailCommit
  BY <1>1, <1>2, <1>4, FailCommitTyped, RestingStep
     DEF TypeOK, Resting, ActorSteps, CommitSteps
<1>5. CASE cursor' = ReleaseRecovery(c, held) /\ AfterRecovery /\ UNCHANGED <<spent, backoff>>
  <2>1. cursor' \in Cursor
    BY <1>5, <1>1, ReleaseRecoveryTyped
  <2> QED BY <1>2, <1>5, <2>1, AfterRecoveryTyped, RestingStep
          DEF TypeOK, Resting, ActorSteps, CommitSteps
<1>6. ASSUME Cardinality(prepared) = 1, prepared # {0}, NEW r \in prepared,
             cursor' = c, pc' = "respond", job' = [job EXCEPT !.turn = r],
             UNCHANGED <<spent, backoff>>
      PROVE  IInv'
  <2>1. present \in SUBSET Inputs
    BY DEF Pending
  <2>2. r \in Responses
    BY <1>1, <1>6, <2>1, OneAnswerPrepared
  <2>3. r # 0
    BY <2>2 DEF Responses
  <2>4. r \in {0} \cup Responses
    BY <2>2
  <2>5. job' \in Job /\ job'.turn = r
    BY <1>6, <2>4 DEF TypeOK, Job
  <2>6. TypeOK'
    BY <1>1, <1>2, <1>6, <2>5 DEF TypeOK, ActorSteps, CommitSteps
  <2>7. OperationKnown'
    BY <1>6, <2>3, <2>5 DEF OperationKnown, CommitSteps
  <2> QED BY <2>6, <2>7
<1> HIDE DEF c, held, present, prepared, IInv
<1> QED BY <1>3, <1>4, <1>5, <1>6 DEF Recover, c, held, present, prepared

LEMMA SettleTyped == ASSUME IInv, Settle \/ RemoveExhausted PROVE IInv'
<1> USE DEF IInv
<1>1. ASSUME Settle PROVE IInv'
  <2>1. cursor' \in Cursor /\ failures' \subseteq Inputs /\ Exhausted(cursor') \subseteq Inputs
    BY <1>1, CursorRead DEF Settle, TypeOK, Exhausted, Pending
  <2>2. CASE Exhausted(cursor') = {}
    <3>1. AfterSettling
      BY <1>1, <2>2 DEF Settle
    <3> QED BY <1>1, <2>1, <3>1, AfterSettlingTyped, RestingStep
            DEF Settle, TypeOK, Resting, ActorSteps, CommitSteps
  <2>3. CASE Exhausted(cursor') # {}
    <3>1. pc' = "remove" /\ job' = [job EXCEPT !.due = Exhausted(cursor')]
      BY <1>1, <2>3 DEF Settle
    <3>2. job' \in Job /\ job'.task = job.task /\ job'.turn = job.turn
      BY <2>1, <3>1 DEF TypeOK, Job
    <3>3. TypeOK'
      BY <1>1, <2>1, <3>1, <3>2 DEF Settle, TypeOK, ActorSteps
    <3>4. OperationKnown'
      BY <3>1, <3>2 DEF OperationKnown, CommitSteps
    <3> QED BY <3>3, <3>4
  <2> QED BY <2>2, <2>3
<1>2. ASSUME RemoveExhausted PROVE IInv'
  <2>1. cursor' \in Cursor
    BY <1>2, CursorRead, RemoveSettledTyped DEF RemoveExhausted
  <2>2. backoff' \in BOOLEAN /\ AfterSettling
    BY <1>2 DEF RemoveExhausted
  <2> QED BY <1>2, <2>1, <2>2, AfterSettlingTyped, RestingStep
          DEF RemoveExhausted, TypeOK, Resting, ActorSteps, CommitSteps
<1> QED BY <1>1, <1>2

\* The lease has a first input, whether it was there or has just been taken.
LEMMA TakeLeaseTyped == ASSUME IInv, TakeLease PROVE IInv'
<1> USE DEF IInv
<1> DEFINE c == Reconcile(Read(cursor), said, Settled)
           d == Lease(c, {First(c, Runnable(c))})
           head == First(d, d.lease)
           eligible == {i \in Runnable(d) \ d.lease : d.inputs[i].prepared = 0}
<1>1. c \in Cursor /\ ValidPending(c)
  BY CursorRead DEF TakeLease
<1>2. CASE cursor' = c /\ pc' = "idle" /\ job' = NoJob
  BY <1>1, <1>2, NoJobTyped, NoJobIdle, RestingStep
     DEF TakeLease, TypeOK, Resting, ActorSteps, CommitSteps
<1>3. ASSUME Runnable(c) # {}, NEW more \in SUBSET eligible,
             cursor' = Extend(d, more), pc' = "begin",
             job' = [NoJob EXCEPT !.ids = d.lease \cup more, !.active = head,
                                  !.seq = d.leaseSeq, !.origin = "start"]
      PROVE  IInv'
  <2>1. Runnable(c) \in SUBSET Pending(c) /\ Pending(c) \subseteq Inputs
    BY DEF Runnable, Pending
  <2>2. First(c, Runnable(c)) \in Inputs
    BY <1>1, <1>3, <2>1, FirstExists
  <2>3. d \in Cursor
    BY <1>1, <2>2, LeaseTyped
  <2>4. more \in SUBSET Inputs /\ d.lease \in SUBSET Inputs /\ d.leaseSeq \in Nat
    BY <2>3 DEF Cursor, Runnable, Pending
  <2>5. cursor' \in Cursor
    BY <1>3, <2>3, <2>4, ExtendTyped
  <2>6. head \in Inputs
    <3>1. c.lease \subseteq Pending(c)
      BY LeaseOfQueue DEF TakeLease, TypeOK
    <3>2. First(c, Runnable(c)) \in Pending(c)
      BY <1>1, <1>3, <2>1, FirstExists
    <3>3. /\ d.inputs = c.inputs /\ d.nextSeq = c.nextSeq
          /\ d.lease \in {c.lease, {First(c, Runnable(c))}} /\ d.lease # {}
      <4> HIDE DEF c
      <4>1. {First(c, Runnable(c))} \in SUBSET Inputs
        BY <2>2
      <4> QED BY <1>1, <4>1, LeaseKeepsQueue
    <3>4. Pending(d) = Pending(c) /\ ValidPending(d)
      BY <1>1, <3>3 DEF ValidPending, Pending
    <3>6. d.lease \in SUBSET Pending(d)
      BY <3>1, <3>2, <3>3, <3>4
    <3>5. head \in Pending(d)
      BY <2>3, <3>3, <3>4, <3>6, FirstExists
    <3> QED BY <3>5 DEF Pending
  <2>7. job' \in Job /\ job'.task = "none"
    <3> DEFINE L == d.lease \cup more
               n == d.leaseSeq
    <3>1. L \in SUBSET Inputs /\ n \in Nat /\ "start" \in Origins
      BY <2>4 DEF Origins
    <3>2. job' = [NoJob EXCEPT !.ids = L, !.active = head, !.seq = n, !.origin = "start"]
      BY <1>3
    <3> HIDE DEF head, L, n
    <3> QED BY <2>6, <3>1, <3>2, NoJobTyped DEF Job, NoJob
  <2>8. job'.active # 0
    <3> DEFINE L == d.lease \cup more
               n == d.leaseSeq
    <3>1. job' = [NoJob EXCEPT !.ids = L, !.active = head, !.seq = n, !.origin = "start"]
      BY <1>3
    <3>2. head # 0
      BY <2>6 DEF Inputs
    <3> HIDE DEF head, L, n
    <3> QED BY <3>1, <3>2 DEF NoJob
  <2>9. TypeOK'
    BY <1>3, <2>5, <2>7 DEF TakeLease, TypeOK, ActorSteps
  <2>10. OperationKnown'
    BY <1>3, <2>7, <2>8 DEF OperationKnown, CommitSteps
  <2> QED BY <2>9, <2>10
<1> HIDE DEF c, d, head, eligible, IInv
<1> QED BY <1>2, <1>3 DEF TakeLease, c, d, head, eligible

LEMMA BeginTypedStep == ASSUME IInv, BeginOperation PROVE IInv'
<1> USE DEF IInv
<1> DEFINE c == Read(cursor)
           ok == /\ job.ids \cap c.cancelled = {} /\ job.ids \subseteq Pending(c)
                 /\ \A i \in job.ids : CanBegin(c.inputs[i])
<1>1. c \in Cursor /\ c.opGen < MaxOps
  BY CursorRead, ReadKeepsOperation DEF BeginOperation, TypeOK
<1>2. CASE ok
  <2>1. cursor' \in Cursor
    BY <1>1, <1>2, BeginTyped DEF BeginOperation
  <2>2. c.opGen + 1 \in 0 .. MaxOps /\ c.opGen + 1 # 0
    BY <1>1, BoundsAssumption DEF Cursor
  <2>3. [i \in Inputs |-> c.inputs[i].attempts] \in [Inputs -> 0 .. MaxAttempts]
    BY <1>1, SlotTyped
  <2>4. job' = [job EXCEPT !.gen = c.opGen + 1, !.tracked = job.ids,
                           !.before = [i \in Inputs |-> c.inputs[i].attempts],
                           !.task = "preparing", !.origin = "finish"]
    BY <1>2 DEF BeginOperation
  <2>5. job.ids \in SUBSET Inputs /\ job.active \in {0} \cup Inputs
    BY DEF TypeOK, Job
  <2> DEFINE g == c.opGen + 1
             b == [i \in Inputs |-> c.inputs[i].attempts]
  <2> HIDE DEF g, b
  <2>6. /\ job' \in Job /\ job'.gen = g /\ job'.active = job.active
        /\ job'.task = "preparing"
    BY <2>2, <2>3, <2>4, <2>5 DEF TypeOK, Job, TaskStates, Origins, g, b
  <2>7. TypeOK'
    BY <1>2, <2>1, <2>6 DEF BeginOperation, TypeOK, ActorSteps
  <2>8. OperationKnown'
    BY <1>2, <2>2, <2>6 DEF BeginOperation, OperationKnown, CommitSteps, g
  <2> QED BY <2>7, <2>8
<1>3. CASE ~ok
  <2>1. cursor' = c /\ job' = NoJob /\ pc' = "idle" /\ backoff' = TRUE
    BY <1>3 DEF BeginOperation
  <2> QED BY <1>1, <2>1, NoJobTyped, NoJobIdle, RestingStep
          DEF BeginOperation, TypeOK, Resting, ActorSteps, CommitSteps
<1> QED BY <1>2, <1>3

----------------------------------------------------------------------------
(* While an operation runs, the task and the actor both write to its job.  *)

LEMMA RunningStep ==
    ASSUME IInv, UNCHANGED <<said, images, answers, failures, mailbox, preparing, spent>>,
           pc = "run", pc' = "run", cursor' \in Cursor, job' \in Job,
           job'.gen = job.gen, job'.active = job.active,
           job'.task = "answered" => job'.turn # 0,
           commands' \in Nat, backoff' \in BOOLEAN, faults' \in 0 .. MaxFaults
    PROVE  IInv'
<1>1. TypeOK'
  BY DEF IInv, TypeOK
<1>2. OperationKnown'
  BY DEF IInv, OperationKnown, CommitSteps
<1> QED BY <1>1, <1>2 DEF IInv

\* Only the state of the task changes, and not to "answered".
LEMMA TaskStep ==
    ASSUME IInv, pc = "run", NEW t \in TaskStates \ {"answered"}, Task(t),
           UNCHANGED <<said, images, answers, failures, mailbox, preparing, spent>>,
           UNCHANGED <<pc, commands, backoff>>,
           cursor' \in Cursor, faults' \in 0 .. MaxFaults
    PROVE  IInv'
<1>1. /\ job' \in Job /\ job'.task = t /\ job'.gen = job.gen /\ job'.active = job.active
  BY TaskTyped DEF Task, IInv, TypeOK
<1> QED BY <1>1, RunningStep DEF IInv, TypeOK

LEMMA PrepareCallTyped == ASSUME IInv, PrepareCall PROVE IInv'
<1> USE DEF IInv
<1> DEFINE c == Read(cursor)
           prepared == {c.inputs[i].prepared : i \in job.ids}
<1>1. c \in Cursor /\ job.ids \in SUBSET Inputs /\ faults \in 0 .. MaxFaults
  BY CursorRead DEF TypeOK, Job
<1>2. pc = "run" /\ TaskFrame
  BY DEF PrepareCall
<1>3. ASSUME Cardinality(prepared) = 1, prepared # {0}, NEW r \in prepared,
             cursor' = c, job' = [job EXCEPT !.task = "answered", !.turn = r]
      PROVE  IInv'
  <2>0. r \in Responses
    BY <1>1, <1>3, OneAnswerPrepared
  <2>1. r \in Responses /\ r # 0
    BY <2>0 DEF Responses
  <2>2. /\ job' \in Job /\ job'.turn = r /\ job'.gen = job.gen /\ job'.active = job.active
    BY <1>3, <2>1 DEF TypeOK, Job, TaskStates
  <2> QED BY <1>1, <1>2, <1>3, <2>1, <2>2, RunningStep DEF TaskFrame, TypeOK
<1>4. CASE cursor' = c /\ Task("broken")
  BY <1>1, <1>2, <1>4, TaskStep DEF TaskFrame, TaskStates
<1>5. ASSUME \A i \in job.ids : c.inputs[i].attempts < MaxAttempts
                                \/ c.inputs[i].attachment # "retrying",
             cursor' = CompleteAttachments(c, job.ids), Task("calling")
      PROVE  IInv'
  <2>1. cursor' \in Cursor
    BY <1>1, <1>5, CompleteAttachmentsTyped
  <2> QED BY <1>1, <1>2, <1>5, <2>1, TaskStep DEF TaskFrame, TaskStates
<1> HIDE DEF c, prepared, IInv
<1> QED BY <1>3, <1>4, <1>5 DEF PrepareCall, c, prepared

LEMMA TaskNextTyped == ASSUME IInv, TaskNext PROVE IInv'
<1> USE DEF IInv
<1>1. ASSUME NEW state \in {"unread", "unreadable"}, ReadingFails(state) PROVE IInv'
  <2>1. faults' \in 0 .. MaxFaults
    BY <1>1, ModeAssumption DEF ReadingFails, TypeOK
  <2> QED BY <1>1, <2>1, TaskStep DEF ReadingFails, TypeOK, TaskStates
<1>2. ASSUME NEW i \in Inputs, AcceptMidTurn(i) PROVE IInv'
  <2>1. /\ job' \in Job /\ job'.gen = job.gen /\ job'.active = job.active
        /\ job'.task = "calling"
    BY <1>2 DEF AcceptMidTurn, TypeOK, Job
  <2> QED BY <1>2, <2>1, RunningStep DEF AcceptMidTurn, TaskFrame, TypeOK
<1>3. ASSUME Answer PROVE IInv'
  <2>1. cursor' \in Cursor /\ faults \in 0 .. MaxFaults
    BY <1>3, CursorRead DEF Answer, TypeOK
  <2>2. CASE Task("broken")
    BY <1>3, <2>1, <2>2, TaskStep DEF Answer, TaskFrame, TaskStates
  <2>3. CASE job' = [job EXCEPT !.task = "answered", !.turn = job.gen,
                                !.ids = job.ids \cup job.accepted]
    <3>1. job.gen # 0 /\ job.gen \in {0} \cup Responses
      BY <1>3, BoundsAssumption DEF Answer, OperationKnown, TypeOK, Job, Responses
    <3>2. /\ job' \in Job /\ job'.gen = job.gen /\ job'.active = job.active
          /\ job'.turn = job.gen
      BY <2>3, <3>1 DEF TypeOK, Job, TaskStates
    <3> QED BY <1>3, <2>1, <3>1, <3>2, RunningStep DEF Answer, TaskFrame, TypeOK
  <2> QED BY <1>3, <2>2, <2>3 DEF Answer
<1>4. ASSUME NEW state \in {"failed", "stopped"}, CallFails(state) PROVE IInv'
  BY <1>4, TaskStep DEF CallFails, TaskFrame, TypeOK, TaskStates
<1>5. ASSUME DispatchSuperseded PROVE IInv'
  <2>1. job.before \in [Inputs -> 0 .. MaxAttempts]
    BY DEF TypeOK, Job
  <2>2. cursor' \in Cursor
    BY <1>5, <2>1, CursorRead, ReleaseAttemptsTyped DEF DispatchSuperseded
  <2> QED BY <1>5, <2>2, TaskStep DEF DispatchSuperseded, TaskFrame, TypeOK, TaskStates
<1> QED BY <1>1, <1>2, <1>3, <1>4, <1>5, PrepareCallTyped DEF TaskNext

\* It keeps the operation and the state of its task.
SameOperation ==
    job'.gen = job.gen /\ job'.active = job.active
    /\ job'.task = job.task /\ job'.turn = job.turn

LEMMA AcceptCommandTyped == ASSUME IInv, AcceptCommand PROVE IInv'
<1> USE DEF IInv
<1> DEFINE adds == pc = "run" /\ AppendMode
           c == IF adds \/ pc = "idle" THEN Reconcile(Read(cursor), said, Settled)
                                       ELSE cursor
           new == IF adds THEN Runnable(c) \ job.tracked ELSE {}
           leased == c.lease # {} /\ c.leaseSeq = job.seq
<1>1. c \in Cursor /\ new \in SUBSET Inputs
  BY CursorRead DEF TypeOK, Runnable, Pending
<1>2. commands' \in Nat /\ backoff' \in BOOLEAN /\ pc' = pc
  BY DEF AcceptCommand, TypeOK
<1>3. cursor' \in Cursor
  <2>1. cursor' = IF leased THEN Extend(c, new) ELSE c
    BY DEF AcceptCommand
  <2> HIDE DEF c, new, leased
  <2> QED BY <1>1, <2>1, ExtendTyped
<1>4. job' \in Job /\ SameOperation
  <2>1. job' = IF leased THEN [job EXCEPT !.adding = new] ELSE job
    BY DEF AcceptCommand
  <2> HIDE DEF c, new, leased
  <2> QED BY <1>1, <2>1 DEF TypeOK, Job, SameOperation
<1>5. TypeOK'
  BY <1>2, <1>3, <1>4 DEF AcceptCommand, ActorFrame, TypeOK
<1>6. OperationKnown'
  BY <1>2, <1>4 DEF AcceptCommand, ActorFrame, OperationKnown, SameOperation
<1> QED BY <1>5, <1>6

LEMMA AddingStep ==
    ASSUME IInv, ActorFrame, pc = "run", UNCHANGED <<pc, commands>>,
           backoff' \in BOOLEAN, cursor' \in Cursor, job' \in Job, SameOperation
    PROVE  IInv'
BY RunningStep DEF ActorFrame, SameOperation, IInv, TypeOK, OperationKnown

LEMMA AppendRestartsTyped == ASSUME IInv, AppendRestarts PROVE IInv'
<1> USE DEF IInv
<1>1. /\ Read(cursor) \in Cursor /\ Read(cursor).opGen < MaxOps
  BY CursorRead, ReadKeepsOperation DEF AppendRestarts, TypeOK
<1>2. cursor' \in Cursor
  BY <1>1, RequestRestartTyped DEF AppendRestarts
<1>3. job \in Job /\ job.tracked \cup job.adding \in SUBSET Inputs
  BY DEF TypeOK, Job
<1>4. job' \in Job /\ SameOperation
  <2>1. \/ job' = [job EXCEPT !.adding = {}, !.restart = TRUE,
                              !.tracked = job.tracked \cup job.adding]
        \/ job' = [job EXCEPT !.adding = {}, !.tracked = job.tracked \cup job.adding]
    BY DEF AppendRestarts
  <2> DEFINE T == job.tracked \cup job.adding
  <2>2. T \in SUBSET Inputs
    BY <1>3
  <2> HIDE DEF T
  <2>3. CASE job' = [job EXCEPT !.adding = {}, !.restart = TRUE, !.tracked = T]
    BY <1>3, <2>2, <2>3 DEF Job, SameOperation
  <2>4. CASE job' = [job EXCEPT !.adding = {}, !.tracked = T]
    BY <1>3, <2>2, <2>4 DEF Job, SameOperation
  <2> QED BY <2>1, <2>3, <2>4 DEF T
<1> QED BY <1>2, <1>4, AddingStep DEF AppendRestarts, TypeOK

LEMMA AppendSendsTyped == ASSUME IInv, AppendSends PROVE IInv'
<1> USE DEF IInv
<1> DEFINE c == Read(cursor)
           i == First(c, job.adding)
<1>1. c \in Cursor /\ job \in Job
  BY CursorRead DEF TypeOK
<1>2. pc = "run" /\ UNCHANGED <<pc, commands>> /\ ActorFrame
  BY DEF AppendSends
<1>3. ASSUME i \in Pending(c), CanBegin(c.inputs[i]), UNCHANGED backoff,
             cursor' = [c EXCEPT !.inputs =
                           [c.inputs EXCEPT ![i] = BeginAttempt(c.inputs[i])]],
             job' = IF job.task \in Working
                    THEN [job EXCEPT !.adding = job.adding \ {i},
                                     !.sent = job.sent \cup {i},
                                     !.tracked = job.tracked \cup {i}]
                    ELSE [job EXCEPT !.adding = {}, !.restart = TRUE]
      PROVE  IInv'
  <2>1. i \in Inputs
    BY <1>3 DEF Pending
  <2>2. cursor' \in Cursor
    BY <1>1, <1>3, <2>1, SlotTyped, CanBeginTyped, SlotReplaced
  <2>3. job' \in Job /\ SameOperation
    <3> DEFINE S == job.adding \ {i}
               U == job.sent \cup {i}
               T == job.tracked \cup {i}
    <3>1. S \in SUBSET Inputs /\ U \in SUBSET Inputs /\ T \in SUBSET Inputs
      BY <1>1, <2>1 DEF Job
    <3> HIDE DEF S, T, U
    <3>2. CASE job' = [job EXCEPT !.adding = S, !.sent = U, !.tracked = T]
      BY <1>1, <3>1, <3>2 DEF Job, SameOperation
    <3>3. CASE job' = [job EXCEPT !.adding = {}, !.restart = TRUE]
      BY <1>1, <3>3 DEF Job, SameOperation
    <3> QED BY <1>3, <3>2, <3>3 DEF S, T, U
  <2> QED BY <1>2, <1>3, <2>2, <2>3, AddingStep DEF TypeOK
<1>4. CASE cursor' = c /\ job' = [job EXCEPT !.adding = {}] /\ backoff' = TRUE
  <2>1. job' \in Job /\ SameOperation
    BY <1>1, <1>4 DEF Job, SameOperation
  <2> QED BY <1>1, <1>2, <1>4, <2>1, AddingStep
<1> HIDE DEF c, i, IInv
<1> QED BY <1>3, <1>4 DEF AppendSends, c, i

----------------------------------------------------------------------------
(* The end of an operation.                                                *)

LEMMA SettlingTyped ==
    ASSUME IInv, Settling
    PROVE  pc' \in Resting /\ job' \in Job /\ job'.task = "none"
<1>1. job.active \in {0} \cup Inputs
  BY DEF IInv, TypeOK, Job
<1> QED BY <1>1, SettlingJobTyped DEF Settling, Resting, ActorSteps, CommitSteps, Origins

LEMMA CollectTyped ==
    ASSUME IInv, CollectRestart \/ CollectFailure \/ CollectUnread
    PROVE  IInv'
<1> USE DEF IInv
<1>1. Read(cursor) \in Cursor
  BY CursorRead
<1>2. ASSUME CollectRestart PROVE IInv'
  BY <1>2, NoJobTyped, NoJobIdle, RestingStep
     DEF CollectRestart, ActorFrame, TypeOK, Resting, ActorSteps, CommitSteps
<1>3. ASSUME CollectFailure PROVE IInv'
  <2>1. cursor' \in Cursor
    BY <1>1, <1>3, RecordFailureTyped DEF CollectFailure
  <2>2. spent' \in [Inputs -> 0 .. MaxAttempts]
    BY <1>3, SpendTyped, SpendAllTyped DEF CollectFailure
  <2> QED BY <1>3, <2>1, <2>2, SettlingTyped, RestingStep DEF CollectFailure, TypeOK
<1>4. ASSUME CollectUnread PROVE IInv'
  <2>1. \A i \in Pending(Read(cursor)) : i \in Inputs
    BY DEF Pending
  <2>2. cursor' \in Cursor
    BY <1>1, <1>4, <2>1, RecordAttachmentFailureTyped
       DEF CollectUnread, AttachmentStates
  <2> QED BY <1>4, <2>2, SettlingTyped, RestingStep
          DEF CollectUnread, ActorFrame, TypeOK
<1> QED BY <1>2, <1>3, <1>4

LEMMA ReserveTypedStep == ASSUME IInv, ReserveCommit PROVE IInv'
<1> USE DEF IInv
<1>1. /\ Read(cursor) \in Cursor /\ job.ids \in SUBSET Inputs /\ job.seq \in Nat
      /\ job.turn \in {0} \cup Responses
  BY CursorRead DEF TypeOK, Job
<1>2. CASE CanReserve(Read(cursor), job.gen, job.seq, job.ids)
  <2>1. cursor' \in Cursor
    BY <1>1, <1>2, ReserveTyped DEF ReserveCommit
  <2>2. job.turn # 0
    BY DEF ReserveCommit, Collect, OperationKnown
  <2>3. TypeOK'
    BY <1>2, <2>1 DEF ReserveCommit, TypeOK, ActorSteps, CommitSteps
  <2>4. OperationKnown'
    BY <1>2, <2>2 DEF ReserveCommit, OperationKnown, CommitSteps
  <2> QED BY <2>3, <2>4
<1>3. CASE ~CanReserve(Read(cursor), job.gen, job.seq, job.ids)
  BY <1>1, <1>3, FailCommitTyped, RestingStep
     DEF ReserveCommit, TypeOK, Resting, ActorSteps, CommitSteps
<1> QED BY <1>2, <1>3

----------------------------------------------------------------------------
(* The commit.                                                             *)

LEMMA ContinueStep ==
    ASSUME IInv, CommitFrame, pc \in CommitSteps, NEW next \in CommitSteps, Continue(next),
           cursor' \in Cursor, answers' \in [Responses -> SUBSET Inputs],
           mailbox' \subseteq Responses
    PROVE  IInv'
<1>1. TypeOK'
  BY DEF IInv, TypeOK, Continue, CommitFrame, ActorSteps
<1>2. OperationKnown'
  BY DEF IInv, OperationKnown, Continue, CommitFrame, CommitSteps
<1> QED BY <1>1, <1>2 DEF IInv

LEMMA FailStep ==
    ASSUME IInv, CommitFrame, FailCommit, UNCHANGED <<answers, mailbox>>,
           cursor' \in Cursor
    PROVE  IInv'
BY FailCommitTyped, RestingStep
   DEF IInv, TypeOK, CommitFrame, Resting, ActorSteps, CommitSteps

LEMMA CommitTyped == ASSUME IInv, CommitNext PROVE IInv'
<1> USE DEF IInv
<1>1. /\ Read(cursor) \in Cursor /\ cursor \in Cursor
      /\ answers \in [Responses -> SUBSET Inputs]
      /\ mailbox \subseteq Responses /\ job.ids \in SUBSET Inputs
      /\ job.turn \in {0} \cup Responses
  BY CursorRead DEF TypeOK, Job
<1>2. ASSUME MarkCommit PROVE IInv'
  <2>1. cursor' \in Cursor
    BY <1>1, <1>2, MarkPersistingTyped, PrepareRecoveryTyped DEF MarkCommit
  <2> QED BY <1>1, <1>2, <2>1, ContinueStep, FailStep DEF MarkCommit, CommitSteps
<1>3. ASSUME PrepareResponse PROVE IInv'
  <2>1. cursor' \in Cursor
    BY <1>1, <1>3, PrepareTyped DEF PrepareResponse
  <2> QED BY <1>1, <1>3, <2>1, ContinueStep, FailStep DEF PrepareResponse, CommitSteps
<1>4. ASSUME StartResponse PROVE IInv'
  <2>1. cursor' \in Cursor
    BY <1>1, <1>4, StartTyped DEF StartResponse
  <2> QED BY <1>1, <1>4, <2>1, ContinueStep, FailStep DEF StartResponse, CommitSteps
<1>5. ASSUME LogResponse PROVE IInv'
  <2>1. [answers EXCEPT ![job.turn] = job.ids] \in [Responses -> SUBSET Inputs]
    BY <1>1
  <2> QED BY <1>1, <1>5, <2>1, ContinueStep, FailStep DEF LogResponse, CommitSteps
<1>6. ASSUME PublishResponse PROVE IInv'
  <2>1. job.turn \in Responses
    BY <1>1, <1>6 DEF PublishResponse, OperationKnown, CommitSteps
  <2> QED BY <1>1, <1>6, <2>1, ContinueStep DEF PublishResponse, CommitSteps
<1>7. ASSUME FinalizeCommit PROVE IInv'
  <2> DEFINE c == Read(cursor)
  <2>1. Finalize(c, job.ids) \in Cursor
    BY <1>1, FinalizeTyped
  <2>2. Reconcile(Finalize(c, job.ids), said, Settled) \in Cursor
    BY <2>1, ReconcileTyped
  <2>3. CASE /\ cursor' = Reconcile(Finalize(c, job.ids), said, Settled)
             /\ pc' = "idle" /\ job' = NoJob /\ backoff' = FALSE /\ UNCHANGED spent
    BY <1>7, <2>2, <2>3, NoJobTyped, NoJobIdle, RestingStep
       DEF FinalizeCommit, CommitFrame, TypeOK, Resting, ActorSteps, CommitSteps
  <2>4. CASE /\ cursor' = Finalize(c, job.ids)
             /\ AfterRecovery /\ UNCHANGED <<spent, backoff>>
    BY <1>7, <2>1, <2>4, AfterRecoveryTyped, RestingStep
       DEF FinalizeCommit, CommitFrame, TypeOK, Resting, ActorSteps, CommitSteps
  <2>5. CASE cursor' = c /\ FailCommit
    BY <1>1, <1>7, <2>5, FailStep DEF FinalizeCommit
  <2> QED BY <1>7, <2>3, <2>4, <2>5 DEF FinalizeCommit
<1> QED BY <1>2, <1>3, <1>4, <1>5, <1>6, <1>7 DEF CommitNext

----------------------------------------------------------------------------
(* What the user asks, and the copy of a message said again.               *)

LEMMA UserTyped == ASSUME IInv, UserNext PROVE IInv'
<1> USE DEF IInv
<1>1. Read(cursor) \in Cursor
  BY CursorRead
<1>2. ASSUME CancelActive PROVE IInv'
  <2>1. job.active \in Inputs
    BY <1>2 DEF CancelActive, OperationKnown, TypeOK, Job
  <2>2. cursor' \in Cursor
    BY <1>1, <1>2, <2>1, CancelTyped DEF CancelActive
  <2>3. spent' \in [Inputs -> 0 .. MaxAttempts]
    BY <1>2, SpendTyped DEF CancelActive, TypeOK
  <2> QED BY <1>2, <2>2, <2>3, NoJobTyped, NoJobIdle, RestingStep
          DEF CancelActive, TypeOK, Resting, ActorSteps, CommitSteps
<1>3. ASSUME NEW i \in Inputs, CancelGivenUp(i) PROVE IInv'
  <2>1. cursor' \in Cursor /\ backoff' \in BOOLEAN
    BY <1>1, <1>3, CancelTyped DEF CancelGivenUp, TypeOK
  <2>2. TypeOK'
    BY <1>3, <2>1 DEF CancelGivenUp, ActorFrame, TypeOK
  <2>3. OperationKnown'
    BY <1>3 DEF CancelGivenUp, ActorFrame, OperationKnown
  <2> QED BY <2>2, <2>3
<1>4. ASSUME NEW i \in Inputs, RetryAttachment(i) PROVE IInv'
  <2>1. cursor' \in Cursor
    BY <1>1, <1>4, RetryInPlaceTyped DEF RetryAttachment
  <2>2. faults' \in 0 .. MaxFaults
    BY <1>4, ModeAssumption DEF RetryAttachment, TypeOK
  <2>3. TypeOK'
    BY <1>4, <2>1, <2>2 DEF RetryAttachment, TypeOK
  <2>4. OperationKnown'
    BY <1>4 DEF RetryAttachment, OperationKnown
  <2> QED BY <2>3, <2>4
<1>5. ASSUME NEW i \in Inputs, RetryAsCopy(i) PROVE IInv'
  <2>1. cursor' \in Cursor
    BY <1>1, <1>5, CancelAfterTerminationTyped DEF RetryAsCopy
  <2>2. job' \in Job /\ job'.task = "none"
    BY <1>5, NoJobTyped DEF RetryAsCopy, Job, NoJob
  <2>3. TypeOK'
    BY <1>5, <2>1, <2>2 DEF RetryAsCopy, ActorFrame, TypeOK, ActorSteps
  <2>4. OperationKnown'
    BY <1>5, <2>2 DEF RetryAsCopy, ActorFrame, OperationKnown, CommitSteps
  <2> QED BY <2>3, <2>4
<1> QED BY <1>2, <1>3, <1>4, <1>5 DEF UserNext

LEMMA CopyTyped == ASSUME IInv, SayCopy \/ EnqueueCopy PROVE IInv'
<1> USE DEF IInv
<1>1. ASSUME SayCopy PROVE IInv'
  <2>1. said + 1 \in Inputs /\ said + 1 \in 0 .. MaxInputs
    BY <1>1, BoundsAssumption DEF SayCopy, OperationKnown, TypeOK, Inputs
  <2>2. /\ job' \in Job /\ job'.copy = said + 1
        /\ job'.task = job.task /\ job'.turn = job.turn
    BY <1>1, <2>1 DEF SayCopy, TypeOK, Job
  <2>3. TypeOK'
    BY <1>1, <2>1, <2>2 DEF SayCopy, TypeOK, ActorSteps
  <2>4. said + 1 # 0
    BY <2>1 DEF Inputs
  <2>5. OperationKnown'
    BY <1>1, <2>2, <2>4 DEF SayCopy, OperationKnown, CommitSteps
  <2> QED BY <2>3, <2>5
<1>2. ASSUME EnqueueCopy PROVE IInv'
  <2>1. job.copy \in Inputs
    BY <1>2 DEF EnqueueCopy, OperationKnown, TypeOK, Job
  <2>2. cursor' \in Cursor
    BY <1>2, <2>1, CursorRead, EnqueueTyped DEF EnqueueCopy
  <2> QED BY <1>2, <2>2, NoJobTyped, NoJobIdle, RestingStep
          DEF EnqueueCopy, ActorFrame, TypeOK, Resting, ActorSteps, CommitSteps
<1> QED BY <1>1, <1>2

----------------------------------------------------------------------------
(* Faults.                                                                 *)

LEMMA FaultTyped == ASSUME IInv, FaultNext PROVE IInv'
<1> USE DEF IInv
<1>1. ASSUME Fault PROVE faults' \in 0 .. MaxFaults
  BY <1>1, ModeAssumption DEF Fault, TypeOK
<1>2. ASSUME Crash PROVE IInv'
  <2>1. faults' \in 0 .. MaxFaults /\ spent' \in [Inputs -> 0 .. MaxAttempts]
    BY <1>1, <1>2, SpendTyped DEF Crash
  <2>2. TypeOK'
    BY <1>2, <2>1, NoJobTyped DEF Crash, durable, TypeOK, ActorSteps
  <2>3. OperationKnown'
    BY <1>2, NoJobIdle DEF Crash, OperationKnown, CommitSteps
  <2> QED BY <2>2, <2>3
<1>3. ASSUME Interrupt PROVE IInv'
  <2>1. faults' \in 0 .. MaxFaults /\ spent' \in [Inputs -> 0 .. MaxAttempts]
    BY <1>1, <1>3, SpendTyped DEF Interrupt
  <2> QED BY <1>3, <2>1, NoJobTyped, NoJobIdle, RestingStep
          DEF Interrupt, durable, TypeOK, Resting, ActorSteps, CommitSteps
<1>4. ASSUME CommitStepFails PROVE IInv'
  <2>1. faults' \in 0 .. MaxFaults
    BY <1>1, <1>4 DEF CommitStepFails
  <2>2. cursor' \in Cursor
    BY <1>4, CursorRead, PrepareRecoveryTyped DEF CommitStepFails, TypeOK
  <2> QED BY <1>4, <2>1, <2>2, FailCommitTyped, RestingStep
          DEF CommitStepFails, TypeOK, Resting, ActorSteps, CommitSteps
<1>5. ASSUME StartStepFails PROVE IInv'
  <2>1. faults' \in 0 .. MaxFaults
    BY <1>1, <1>5 DEF StartStepFails
  <2> QED BY <1>5, <2>1, NoJobTyped, NoJobIdle, RestingStep
          DEF StartStepFails, durable, TypeOK, Resting, ActorSteps, CommitSteps
<1> QED BY <1>2, <1>3, <1>4, <1>5 DEF FaultNext

----------------------------------------------------------------------------

THEOREM StepTyped == IInv /\ [Next]_vars => IInv'
<1> SUFFICES ASSUME IInv, [Next]_vars PROVE IInv'
  OBVIOUS
<1>1. CASE HandleNext
  BY <1>1, HandleTyped
<1>2. CASE ActorNext
  BY <1>2, BootTyped, RecoverTyped, SettleTyped, TakeLeaseTyped, BeginTypedStep,
     AcceptCommandTyped, AppendRestartsTyped, AppendSendsTyped, CollectTyped,
     ReserveTypedStep, CommitTyped, CopyTyped DEF ActorNext
<1>3. CASE TaskNext
  BY <1>3, TaskNextTyped
<1>4. CASE UserNext
  BY <1>4, UserTyped
<1>5. CASE FaultNext
  BY <1>5, FaultTyped
<1>6. CASE UNCHANGED vars
  BY <1>6 DEF vars, IInv, TypeOK, OperationKnown
<1> QED BY <1>1, <1>2, <1>3, <1>4, <1>5, <1>6 DEF Next

\* Every reachable state of a user turn is well formed, for any number of
\* messages, operations, attempts and faults and in every mode: cursor.json,
\* the job of the actor and the history stay within their types.
THEOREM TypeCorrect == Spec => []TypeOK
<1>1. IInv => TypeOK
  BY DEF IInv
<1> QED BY <1>1, InitTyped, StepTyped, PTL DEF Spec

----------------------------------------------------------------------------
(* The queue keeps its order: whatever is said, leased, answered, given    *)
(* up, cancelled, retried and recovered, in every mode and under every     *)
(* fault, the sequence numbers of the pending inputs stay distinct and     *)
(* within the counter. Two kinds of updates exist. The insertions number   *)
(* what they insert beyond the counter; every other one leaves the numbers *)
(* alone or takes inputs out.                                              *)

(* The updates of the cursor.                                              *)

QueueKept(c, d) ==
    /\ d.nextSeq = c.nextSeq
    /\ \A i \in Inputs : d.inputs[i].seq \in {0, c.inputs[i].seq}

LEMMA KeptValid ==
    ASSUME NEW c, NEW d, QueueKept(c, d), ValidPending(c)
    PROVE  ValidPending(d)
<1>1. ASSUME NEW i \in Pending(d)
      PROVE  i \in Pending(c) /\ d.inputs[i].seq = c.inputs[i].seq
  BY DEF Pending, QueueKept
<1> QED BY <1>1 DEF ValidPending, QueueKept

LEMMA KeptTransitive ==
    ASSUME NEW c, NEW d, NEW e, QueueKept(c, d), QueueKept(d, e)
    PROVE  QueueKept(c, e)
BY DEF QueueKept

\* What is replaced besides the queue does not matter to it.
LEMMA LeaseKept ==
    ASSUME NEW c \in Cursor, NEW S
    PROVE  /\ QueueKept(c, c)
           /\ QueueKept(c, Read(c))
           /\ QueueKept(c, Lease(c, S))
           /\ QueueKept(c, Extend(c, S))
           /\ QueueKept(c, DropLease(c))
BY ReadKeepsQueue DEF QueueKept, Lease, Extend, DropLease, Cursor

LEMMA RemoveKept ==
    ASSUME NEW c \in Cursor, NEW S
    PROVE  QueueKept(c, Remove(c, S)) /\ QueueKept(c, RemoveSettled(c, S))
<1>1. QueueKept(c, Remove(c, S)) /\ Remove(c, S) \in Cursor
  BY RemoveTyped, AbsentTyped DEF QueueKept, Remove, Absent, Cursor
<1>2. QueueKept(Remove(c, S), ForgetCommitOf(Remove(c, S), S))
  <2> DEFINE d == Remove(c, S)
  <2>1. d \in Cursor
    BY <1>1
  <2> HIDE DEF d
  <2>2. QueueKept(d, ForgetCommitOf(d, S))
    BY <2>1 DEF QueueKept, ForgetCommitOf, Cursor
  <2> QED BY <2>2 DEF d
<1> QED BY <1>1, <1>2, KeptTransitive DEF RemoveSettled

LEMMA CancelKept ==
    ASSUME NEW c \in Cursor, NEW i \in Inputs
    PROVE  QueueKept(c, Cancel(c, i)) /\ QueueKept(c, CancelAfterTermination(c, i))
<1> DEFINE d == Remove(c, {i})
           e == [d EXCEPT !.cancelled = c.cancelled \cup {i}]
<1>1. QueueKept(c, d) /\ d \in Cursor
  BY RemoveKept, RemoveTyped
<1>2. QueueKept(c, e) /\ QueueKept(c, c)
  BY <1>1 DEF QueueKept, Cursor
<1>3. e \in Cursor
  BY <1>1 DEF Cursor
<1> HIDE DEF d, e
<1>4. QueueKept(e, ForgetCommitOf(e, {i}))
  BY <1>3 DEF QueueKept, ForgetCommitOf, Cursor
<1>5. QueueKept(c, ForgetCommitOf(e, {i}))
  BY <1>2, <1>4, KeptTransitive
<1> QED BY <1>2, <1>5 DEF Cancel, CancelAfterTermination, d, e

\* An attempt has no bearing on the order.
LEMMA AttemptKept ==
    ASSUME NEW x \in PendingInput
    PROVE  BeginAttempt(x).seq = x.seq /\ ReturnAttempt(x).seq = x.seq
BY DEF BeginAttempt, ReturnAttempt, PendingInput

LEMMA AttemptsKept ==
    ASSUME NEW c \in Cursor, NEW S, NEW i \in Inputs
    PROVE  /\ QueueKept(c, Begin(c, S))
           /\ QueueKept(c, RequestRestart(c, S))
           /\ QueueKept(c, [c EXCEPT !.inputs =
                               [c.inputs EXCEPT ![i] = BeginAttempt(c.inputs[i])]])
<1>1. \A j \in Inputs : /\ BeginAttempt(c.inputs[j]).seq = c.inputs[j].seq
                        /\ ReturnAttempt(c.inputs[j]).seq = c.inputs[j].seq
  BY SlotTyped, AttemptKept
<1> QED BY <1>1 DEF QueueKept, Begin, RequestRestart, Cursor

LEMMA FailuresKept ==
    ASSUME NEW c \in Cursor, NEW S, NEW before, NEW stop, NEW i, NEW state
    PROVE  /\ QueueKept(c, ReleaseAttempts(c, S, before))
           /\ QueueKept(c, RecordFailure(c, i, stop))
           /\ i \in Inputs => QueueKept(c, RecordAttachmentFailure(c, i, state))
<1>1. QueueKept(c, ReleaseAttempts(c, S, before))
  BY SlotTyped DEF QueueKept, ReleaseAttempts, Cursor, PendingInput
<1>2. QueueKept(c, RecordFailure(c, i, stop))
  BY SlotTyped DEF QueueKept, RecordFailure, Cursor, PendingInput
<1>3. ASSUME i \in Inputs PROVE QueueKept(c, RecordAttachmentFailure(c, i, state))
  <2> DEFINE x == [ReturnAttempt(c.inputs[i]) EXCEPT !.attachment = state]
             d == [c EXCEPT !.inputs = [c.inputs EXCEPT ![i] = x]]
  <2>1. x.seq = c.inputs[i].seq
    BY <1>3, SlotTyped DEF ReturnAttempt, PendingInput
  <2>2. d.nextSeq = c.nextSeq /\ d.inputs = [c.inputs EXCEPT ![i] = x]
    BY DEF Cursor
  <2>3. RecordAttachmentFailure(c, i, state).nextSeq = d.nextSeq
        /\ RecordAttachmentFailure(c, i, state).inputs = d.inputs
    BY DEF RecordAttachmentFailure, Cursor
  <2> HIDE DEF x, d
  <2> QED BY <2>1, <2>2, <2>3 DEF QueueKept, Cursor
<1> QED BY <1>1, <1>2, <1>3

LEMMA AttachmentsKept ==
    ASSUME NEW c \in Cursor, NEW S, NEW i \in Inputs
    PROVE  QueueKept(c, CompleteAttachments(c, S)) /\ QueueKept(c, RetryInPlace(c, i))
<1>1. ASSUME NEW j \in Inputs, c.inputs[j].attachment = "retrying"
      PROVE  BeginAttempt([c.inputs[j] EXCEPT !.attachment = "none"]).seq = c.inputs[j].seq
  BY SlotTyped DEF BeginAttempt, PendingInput
<1>2. QueueKept(c, CompleteAttachments(c, S))
  BY <1>1 DEF QueueKept, CompleteAttachments, Cursor
<1>3. QueueKept(c, RetryInPlace(c, i))
  BY SlotTyped DEF QueueKept, RetryInPlace, Cursor, PendingInput
<1> QED BY <1>2, <1>3

LEMMA CommitKept ==
    ASSUME NEW c \in Cursor, NEW S, NEW n, NEW turn
    PROVE  /\ QueueKept(c, Reserve(c, n, S, turn))
           /\ QueueKept(c, MarkPersisting(c))
           /\ QueueKept(c, Prepare(c, S, turn))
           /\ QueueKept(c, Start(c, S))
           /\ QueueKept(c, PrepareRecovery(c))
BY SlotTyped DEF QueueKept, Reserve, MarkPersisting, Prepare, Start, PrepareRecovery,
                 DropMatchingLease, DropLease, Cursor, PendingInput

LEMMA FinalizeKept ==
    ASSUME NEW c \in Cursor, NEW S
    PROVE  QueueKept(c, Finalize(c, S))
<1> DEFINE d == Remove(c, S)
<1>1. QueueKept(c, d) /\ d \in Cursor
  BY RemoveKept, RemoveTyped
<1> HIDE DEF d
<1>2. QueueKept(c, [DropLease(d) EXCEPT !.commit = NoCommit])
  BY <1>1 DEF QueueKept, DropLease, Cursor
<1> QED BY <1>2 DEF Finalize, d

LEMMA ReleaseKept ==
    ASSUME NEW c \in Cursor, NEW k
    PROVE  QueueKept(c, ReleaseRecovery(c, k))
<1> DEFINE d == DropMatchingLease(c, k.seq)
<1>1. d \in Cursor /\ QueueKept(c, d)
  BY DropLeaseTyped, LeaseKept DEF DropMatchingLease
<1> HIDE DEF d
<1>2. QueueKept(c, [DiscardPreparation(d, k.ids) EXCEPT !.commit = NoCommit])
  BY <1>1, SlotTyped DEF QueueKept, DiscardPreparation, Cursor, PendingInput
<1> QED BY <1>2, LeaseKept DEF ReleaseRecovery, d

\* The other insertion of an input: at the end, behind every number in use.
LEMMA EnqueueValid ==
    ASSUME NEW c \in Cursor, ValidPending(c), NEW i \in Inputs \ Pending(c)
    PROVE  ValidPending(Enqueue(c, i))
<1> DEFINE d == Enqueue(c, i)
           n == c.nextSeq
<1>1. n \in Nat
  BY DEF Cursor
<1>2. d.nextSeq = n + 1 /\ d.inputs[i].seq = n + 1
  <2>1. d.inputs[i] = Fresh(n + 1)
    BY DEF Enqueue, Cursor
  <2>2. Fresh(n + 1).seq = n + 1
    BY DEF Fresh, Absent
  <2> QED BY <2>1, <2>2 DEF Enqueue, Cursor
<1>3. ASSUME NEW j \in Pending(d), j # i
      PROVE  j \in Pending(c) /\ d.inputs[j].seq = c.inputs[j].seq
             /\ d.inputs[j].seq \in Nat /\ d.inputs[j].seq <= n
  <2>1. d.inputs[j] = c.inputs[j] /\ j \in Inputs
    BY <1>3 DEF Enqueue, Cursor, Pending
  <2> QED BY <2>1, SlotTyped DEF Pending, ValidPending
<1> HIDE DEF d, n
<1>4. \A j \in Pending(d) : d.inputs[j].seq <= d.nextSeq
  BY <1>1, <1>2, <1>3
<1>5. ASSUME NEW j \in Pending(d), NEW k \in Pending(d), d.inputs[j].seq = d.inputs[k].seq
      PROVE  j = k
  <2>1. CASE j # i /\ k # i
    BY <1>3, <1>5, <2>1 DEF ValidPending
  <2>2. CASE j = i \/ k = i
    BY <1>1, <1>2, <1>3, <1>5, <2>2
  <2> QED BY <2>1, <2>2
<1>6. ValidPending(d)
  BY <1>4, <1>5 DEF ValidPending
<1> QED BY <1>6 DEF d

----------------------------------------------------------------------------
(* The steps.                                                              *)

Ordered == ValidPending(cursor)

\* What a step starts from: the cursor as it is, as it reads, and reconciled.
LEMMA StartingPoints ==
    ASSUME TypeOK, Ordered
    PROVE  /\ cursor \in Cursor
           /\ Read(cursor) \in Cursor /\ ValidPending(Read(cursor))
           /\ LET c == Reconcile(Read(cursor), said, Settled)
              IN  c \in Cursor /\ ValidPending(c)
<1>1. cursor \in Cursor
  BY DEF TypeOK
<1>2. Read(cursor) \in Cursor /\ ValidPending(Read(cursor))
  BY <1>1, ReadTyped, ReadValidPending DEF Ordered
<1> QED BY <1>1, <1>2, ReconcileTyped, ReconcileValidPending

\* The cursor the step leaves behind keeps the queue of one it could start from.
LEMMA KeptStep ==
    ASSUME NEW c \in Cursor, ValidPending(c), QueueKept(c, cursor')
    PROVE  Ordered'
BY KeptValid DEF Ordered, ValidPending, Pending

LEMMA HandleOrdered == ASSUME TypeOK, Ordered, HandleNext PROVE Ordered'
<1>1. ASSUME NEW image \in BOOLEAN, Say(image) PROVE Ordered'
  BY <1>1 DEF Say, Ordered
<1>2. ASSUME EnqueueSaid PROVE Ordered'
  <2> DEFINE c == Read(cursor)
  <2>1. c \in Cursor /\ ValidPending(c) /\ preparing \in Inputs
    BY <1>2, StartingPoints DEF EnqueueSaid, TypeOK
  <2>2. CASE cursor' = cursor \/ cursor' = c
    BY <2>1, <2>2 DEF Ordered
  <2>3. CASE preparing \notin Pending(c) /\ cursor' = Enqueue(c, preparing)
    <3>1. ValidPending(Enqueue(c, preparing))
      BY <2>1, <2>3, EnqueueValid
    <3> QED BY <2>3, <3>1 DEF Ordered
  <2> QED BY <1>2, <2>2, <2>3 DEF EnqueueSaid
<1> QED BY <1>1, <1>2 DEF HandleNext

LEMMA StartOrdered ==
    ASSUME TypeOK, Ordered,
           Boot \/ BootReconcile \/ StartTurn \/ Settle \/ RemoveExhausted
    PROVE  Ordered'
<1> DEFINE c == Read(cursor)
           d == Reconcile(c, said, Settled)
<1>1. c \in Cursor /\ ValidPending(c) /\ d \in Cursor /\ ValidPending(d)
  BY StartingPoints
<1>2. ASSUME Boot PROVE Ordered'
  <2>1. QueueKept(c, cursor')
    BY <1>1, <1>2, CommitKept DEF Boot
  <2> QED BY <1>1, <2>1, KeptStep
<1>3. ASSUME BootReconcile \/ Settle PROVE Ordered'
  BY <1>1, <1>3 DEF BootReconcile, Settle, Ordered
<1>4. ASSUME StartTurn PROVE Ordered'
  <2>1. QueueKept(d, cursor')
    BY <1>1, <1>4, CommitKept DEF StartTurn
  <2> QED BY <1>1, <2>1, KeptStep
<1>5. ASSUME RemoveExhausted PROVE Ordered'
  <2>1. QueueKept(c, cursor')
    BY <1>1, <1>5, RemoveKept DEF RemoveExhausted
  <2> QED BY <1>1, <2>1, KeptStep
<1> QED BY <1>2, <1>3, <1>4, <1>5

LEMMA RecoverOrdered == ASSUME TypeOK, Ordered, Recover PROVE Ordered'
<1> DEFINE c == Read(cursor)
           held == [phase |-> "persisting", ids |-> job.ids,
                    seq |-> job.seq, turn |-> job.turn]
<1>1. c \in Cursor /\ ValidPending(c)
  BY StartingPoints
<1>2. cursor' \in {c, Finalize(c, job.ids), ReleaseRecovery(c, held)}
  BY DEF Recover
<1>3. QueueKept(c, cursor')
  BY <1>1, <1>2, LeaseKept, FinalizeKept, ReleaseKept
<1> QED BY <1>1, <1>3, KeptStep

LEMMA DispatchOrdered ==
    ASSUME TypeOK, Ordered, TakeLease \/ BeginOperation PROVE Ordered'
<1> DEFINE b == Read(cursor)
           c == Reconcile(b, said, Settled)
           d == Lease(c, {First(c, Runnable(c))})
<1>1. b \in Cursor /\ ValidPending(b) /\ c \in Cursor /\ ValidPending(c)
  BY StartingPoints
<1>2. ASSUME TakeLease PROVE Ordered'
  <2>1. CASE cursor' = c
    BY <1>1, <2>1 DEF Ordered
  <2>2. ASSUME NEW more, cursor' = Extend(d, more) PROVE Ordered'
    <3>1. QueueKept(c, d)
      BY <1>1, LeaseKept
    <3>2. cursor'.nextSeq = d.nextSeq /\ cursor'.inputs = d.inputs
      <4>1. d.lease = d.lease /\ d \in [inputs : {d.inputs}, nextSeq : {d.nextSeq},
                opGen : {d.opGen}, lease : {d.lease}, leaseSeq : {d.leaseSeq},
                nextDispatch : {d.nextDispatch}, commit : {d.commit},
                cancelled : {d.cancelled}]
        <5> HIDE DEF c
        <5> QED BY <1>1 DEF Lease, Cursor
      <4> HIDE DEF d
      <4> QED BY <2>2, <4>1 DEF Extend
    <3>3. QueueKept(c, cursor')
      BY <3>1, <3>2 DEF QueueKept
    <3> QED BY <1>1, <3>3, KeptStep
  <2> HIDE DEF b, c, d
  <2> QED BY <1>2, <2>1, <2>2 DEF TakeLease, b, c, d
<1>3. ASSUME BeginOperation PROVE Ordered'
  <2>1. cursor' \in {b, Begin(b, job.ids)}
    BY <1>3 DEF BeginOperation
  <2>2. 1 \in Inputs
    BY BoundsAssumption DEF Inputs
  <2>3. QueueKept(b, cursor')
    BY <1>1, <2>1, <2>2, LeaseKept, AttemptsKept
  <2> QED BY <1>1, <2>3, KeptStep
<1> QED BY <1>2, <1>3

LEMMA TaskOrdered == ASSUME TypeOK, Ordered, TaskNext PROVE Ordered'
<1> DEFINE b == Read(cursor)
           c == Reconcile(b, said, Settled)
<1>1. b \in Cursor /\ ValidPending(b) /\ c \in Cursor /\ ValidPending(c)
  BY StartingPoints
<1>2. 1 \in Inputs
  BY BoundsAssumption DEF Inputs
<1>3. ASSUME PrepareCall PROVE Ordered'
  <2>1. cursor' \in {b, CompleteAttachments(b, job.ids)}
    BY <1>3 DEF PrepareCall
  <2>2. QueueKept(b, cursor')
    BY <1>1, <1>2, <2>1, LeaseKept, AttachmentsKept
  <2> QED BY <1>1, <2>2, KeptStep
<1>4. ASSUME NEW state, ReadingFails(state) \/ CallFails(state) PROVE Ordered'
  BY <1>4 DEF ReadingFails, CallFails, Ordered
<1>5. ASSUME NEW i \in Inputs, AcceptMidTurn(i) PROVE Ordered'
  BY <1>5 DEF AcceptMidTurn, Ordered
<1>6. ASSUME Answer PROVE Ordered'
  <2>1. cursor' \in {b, c}
    BY <1>6 DEF Answer
  <2> QED BY <1>1, <2>1 DEF Ordered
<1>7. ASSUME DispatchSuperseded PROVE Ordered'
  <2>1. QueueKept(b, cursor')
    BY <1>1, <1>7, FailuresKept DEF DispatchSuperseded
  <2> QED BY <1>1, <2>1, KeptStep
<1> QED BY <1>3, <1>4, <1>5, <1>6, <1>7 DEF TaskNext

LEMMA CommandOrdered ==
    ASSUME IInv, Ordered, AcceptCommand \/ AppendRestarts \/ AppendSends
    PROVE  Ordered'
<1> DEFINE b == Read(cursor)
           c == Reconcile(b, said, Settled)
<1>1. /\ cursor \in Cursor /\ b \in Cursor /\ ValidPending(b)
      /\ c \in Cursor /\ ValidPending(c)
  BY StartingPoints DEF IInv
<1>2. ASSUME AcceptCommand PROVE Ordered'
  <2>1. PICK d \in {c, cursor} : \E new : cursor' \in {d, Extend(d, new)}
    BY <1>2 DEF AcceptCommand
  <2>2. d \in Cursor /\ ValidPending(d)
    BY <1>1, <2>1 DEF Ordered
  <2>3. QueueKept(d, cursor')
    BY <2>1, <2>2, LeaseKept
  <2> QED BY <2>2, <2>3, KeptStep
<1>3. ASSUME AppendRestarts PROVE Ordered'
  <2>1. cursor' \in {b, RequestRestart(b, job.ids)}
    BY <1>3 DEF AppendRestarts
  <2>2. 1 \in Inputs
    BY BoundsAssumption DEF Inputs
  <2>3. QueueKept(b, cursor')
    BY <1>1, <2>1, <2>2, LeaseKept, AttemptsKept
  <2> QED BY <1>1, <2>3, KeptStep
<1>4. ASSUME AppendSends PROVE Ordered'
  <2> DEFINE i == First(b, job.adding)
  <2>1. CASE cursor' = b
    BY <1>1, <2>1 DEF Ordered
  <2>2. CASE i \in Pending(b) /\ cursor' = [b EXCEPT !.inputs =
                  [b.inputs EXCEPT ![i] = BeginAttempt(b.inputs[i])]]
    <3>1. i \in Inputs
      BY <2>2 DEF Pending
    <3> HIDE DEF i, b
    <3>2. QueueKept(b, cursor')
      BY <1>1, <2>2, <3>1, AttemptsKept
    <3> QED BY <1>1, <3>2, KeptStep
  <2> QED BY <1>4, <2>1, <2>2 DEF AppendSends
<1> QED BY <1>2, <1>3, <1>4

LEMMA CollectOrdered ==
    ASSUME TypeOK, Ordered,
           CollectRestart \/ CollectFailure \/ CollectUnread \/ ReserveCommit
    PROVE  Ordered'
<1> DEFINE b == Read(cursor)
<1>1. b \in Cursor /\ ValidPending(b)
  BY StartingPoints
<1>2. ASSUME CollectRestart PROVE Ordered'
  BY <1>2 DEF CollectRestart, Ordered
<1>3. ASSUME CollectFailure PROVE Ordered'
  <2>1. QueueKept(b, cursor')
    BY <1>1, <1>3, LeaseKept, FailuresKept DEF CollectFailure
  <2> QED BY <1>1, <2>1, KeptStep
<1>4. ASSUME CollectUnread PROVE Ordered'
  <2>1. QueueKept(b, cursor')
    BY <1>1, <1>4, LeaseKept, FailuresKept DEF CollectUnread, Pending
  <2> QED BY <1>1, <2>1, KeptStep
<1>5. ASSUME ReserveCommit PROVE Ordered'
  <2>1. QueueKept(b, cursor')
    BY <1>1, <1>5, LeaseKept, CommitKept DEF ReserveCommit
  <2> QED BY <1>1, <2>1, KeptStep
<1> QED BY <1>2, <1>3, <1>4, <1>5

LEMMA CommitOrdered == ASSUME TypeOK, Ordered, CommitNext PROVE Ordered'
<1> DEFINE b == Read(cursor)
           e == Finalize(b, job.ids)
<1>1. b \in Cursor /\ ValidPending(b)
  BY StartingPoints
<1>2. e \in Cursor /\ ValidPending(e)
  BY <1>1, FinalizeTyped, FinalizeKept, KeptValid
<1>3. ASSUME LogResponse \/ PublishResponse PROVE Ordered'
  BY <1>3 DEF LogResponse, PublishResponse, Ordered
<1>4. ASSUME MarkCommit \/ PrepareResponse \/ StartResponse PROVE Ordered'
  <2>1. QueueKept(b, cursor')
    BY <1>1, <1>4, LeaseKept, CommitKept DEF MarkCommit, PrepareResponse, StartResponse
  <2> QED BY <1>1, <2>1, KeptStep
<1>5. ASSUME FinalizeCommit PROVE Ordered'
  <2>1. cursor' \in {b, e, Reconcile(e, said, Settled)}
    BY <1>5 DEF FinalizeCommit
  <2>2. ValidPending(Reconcile(e, said, Settled))
    BY <1>2, ReconcileValidPending
  <2> QED BY <1>1, <1>2, <2>1, <2>2 DEF Ordered
<1> QED BY <1>3, <1>4, <1>5 DEF CommitNext

LEMMA UserOrdered == ASSUME IInv, Ordered, UserNext PROVE Ordered'
<1> DEFINE b == Read(cursor)
<1>1. b \in Cursor /\ ValidPending(b)
  BY StartingPoints DEF IInv
<1>2. ASSUME CancelActive PROVE Ordered'
  <2>1. job.active \in Inputs
    BY <1>2 DEF CancelActive, IInv, OperationKnown, TypeOK, Job
  <2>2. QueueKept(b, cursor')
    BY <1>1, <1>2, <2>1, CancelKept DEF CancelActive
  <2> QED BY <1>1, <2>2, KeptStep
<1>3. ASSUME NEW i \in Inputs, CancelGivenUp(i) \/ RetryAttachment(i) \/ RetryAsCopy(i)
      PROVE  Ordered'
  <2>1. QueueKept(b, cursor')
    BY <1>1, <1>3, CancelKept, AttachmentsKept
       DEF CancelGivenUp, RetryAttachment, RetryAsCopy
  <2> QED BY <1>1, <2>1, KeptStep
<1> QED BY <1>2, <1>3 DEF UserNext

LEMMA CopyOrdered == ASSUME IInv, Ordered, SayCopy \/ EnqueueCopy PROVE Ordered'
<1> DEFINE b == Read(cursor)
<1>1. b \in Cursor /\ ValidPending(b)
  BY StartingPoints DEF IInv
<1>2. ASSUME SayCopy PROVE Ordered'
  BY <1>2 DEF SayCopy, Ordered
<1>3. ASSUME EnqueueCopy PROVE Ordered'
  <2>1. job.copy \in Inputs
    BY <1>3 DEF EnqueueCopy, IInv, OperationKnown, TypeOK, Job
  <2>2. CASE cursor' = b
    BY <1>1, <2>2 DEF Ordered
  <2>3. CASE job.copy \notin Pending(b) /\ cursor' = Enqueue(b, job.copy)
    <3>1. ValidPending(Enqueue(b, job.copy))
      BY <1>1, <2>1, <2>3, EnqueueValid
    <3> QED BY <2>3, <3>1 DEF Ordered
  <2> QED BY <1>3, <2>2, <2>3 DEF EnqueueCopy
<1> QED BY <1>2, <1>3

LEMMA FaultOrdered == ASSUME TypeOK, Ordered, FaultNext PROVE Ordered'
<1>1. ASSUME Crash \/ Interrupt \/ StartStepFails PROVE Ordered'
  BY <1>1 DEF Crash, Interrupt, StartStepFails, durable, Ordered
<1>2. ASSUME CommitStepFails PROVE Ordered'
  <2> DEFINE b == Read(cursor)
  <2>1. b \in Cursor /\ ValidPending(b)
    BY StartingPoints
  <2>2. CASE cursor' = cursor
    BY <2>2 DEF Ordered
  <2>3. CASE cursor' = PrepareRecovery(b)
    BY <2>1, <2>3, CommitKept, KeptStep
  <2> QED BY <1>2, <2>2, <2>3 DEF CommitStepFails
<1> QED BY <1>1, <1>2 DEF FaultNext

----------------------------------------------------------------------------

LEMMA InitOrdered == Init => IInv /\ Ordered
<1> SUFFICES ASSUME Init PROVE IInv /\ Ordered
  OBVIOUS
<1>1. \A i \in Inputs : DefaultCursor.inputs[i].seq = 0
  BY DEF DefaultCursor, Absent
<1>2. ValidPending(cursor)
  BY <1>1 DEF Init, ValidPending, Pending
<1> QED BY <1>2, InitTyped DEF Ordered

LEMMA OrderedStep == IInv /\ Ordered /\ [Next]_vars => (IInv /\ Ordered)'
<1> SUFFICES ASSUME IInv, Ordered, [Next]_vars PROVE Ordered'
  BY StepTyped
<1>1. TypeOK
  BY DEF IInv
<1>2. CASE UNCHANGED vars
  BY <1>2 DEF vars, durable, Ordered
<1>3. CASE ActorNext
  BY <1>1, <1>3, StartOrdered, RecoverOrdered, DispatchOrdered, CommandOrdered,
     CollectOrdered, CommitOrdered, CopyOrdered DEF ActorNext
<1>4. CASE HandleNext \/ TaskNext \/ UserNext \/ FaultNext
  BY <1>1, <1>4, HandleOrdered, TaskOrdered, UserOrdered, FaultOrdered
<1> QED BY <1>2, <1>3, <1>4 DEF Next

\* No two pending inputs share a sequence number and none is beyond the
\* counter, so what a read demands of pending_inputs (companion_storage.rs)
\* always holds and the order of the queue is that of its numbers.
THEOREM QueueKeepsOrder == Spec => []ValidPending(cursor)
BY InitOrdered, OrderedStep, PTL DEF Spec, Ordered

----------------------------------------------------------------------------
(* What becomes of an answer. AnsweredOnce is not inductive: what the log   *)
(* says is kept from being said again by the commit marker, which has to be *)
(* there, name the batch of the answer and pass every read until the batch  *)
(* leaves the queue (AnswersHeld). That the marker is in such a state when  *)
(* the answer is written is what the steps before it see to.                *)

\* The messages S of the marker of c wait for nothing but their removal.
Batch(c, S, r) ==
    /\ S \subseteq Pending(c)
    /\ \A i \in S : c.inputs[i].prepared = r /\ c.inputs[i].started
    /\ c.lease = {} \/ (c.lease = S /\ c.leaseSeq = c.commit.seq)

\* The answer r to the messages S is being saved.
Held(c, r, S) ==
    /\ S # {}
    /\ c.commit.phase = "persisting" /\ c.commit.turn = r /\ c.commit.ids = S
    /\ Batch(c, S, r)

AnswersHeld(c, ans) ==
    \A r \in Responses :
        ans[r] \cap c.cancelled = {} /\ ans[r] \cap (c.commit.ids \cup Pending(c)) # {}
            => Held(c, r, ans[r])

MarkerFits(c) ==
    /\ c.commit # NoCommit => c.commit.phase # "none" /\ c.commit.turn # 0
    /\ c.commit.phase = "persisting" =>
          \A i \in c.commit.ids : c.inputs[i].prepared \in {0, c.commit.turn}

\* The log is n messages long.
InLog(c, n) == \A i \in Pending(c) \cup c.commit.ids : i <= n

StoreFits(c, ans, n) == AnswersHeld(c, ans) /\ MarkerFits(c) /\ InLog(c, n)

LEMMA HeldIsValid ==
    ASSUME NEW c \in Cursor, NEW r \in Responses, NEW S, Held(c, r, S)
    PROVE  ValidCommit(c) /\ Read(c) = c /\ PrepareRecovery(c) = c
<1>1. r # 0
  BY DEF Responses
<1>2. ValidCommit(c)
  BY <1>1 DEF Held, Batch, ValidCommit, SamePreparation
<1> QED BY <1>2 DEF Read, PrepareRecovery, Held

\* An update that brings no message into the queue and prepares nothing.
Tame(c, d) ==
    /\ c.cancelled \subseteq d.cancelled
    /\ d.commit \in {c.commit, NoCommit}
    /\ \A i \in Inputs : /\ d.inputs[i].seq # 0 => c.inputs[i].seq # 0
                         /\ d.inputs[i].prepared \in {0, c.inputs[i].prepared}

\* ... and that keeps what is being saved, or ends its saving.
Mild(c, d, ans) ==
    /\ Tame(c, d)
    /\ \A r \in Responses :
           Held(c, r, ans[r]) /\ ans[r] \cap d.cancelled = {}
               => Held(d, r, ans[r]) \/ (d.commit = NoCommit /\ ans[r] \cap Pending(d) = {})

LEMMA MildTransitive ==
    ASSUME NEW c, NEW d, NEW e, NEW ans, Mild(c, d, ans), Mild(d, e, ans)
    PROVE  Mild(c, e, ans)
<1>1. Tame(c, e)
  BY DEF Mild, Tame
<1>2. ASSUME NEW r \in Responses, Held(c, r, ans[r]), ans[r] \cap e.cancelled = {}
      PROVE  Held(e, r, ans[r]) \/ (e.commit = NoCommit /\ ans[r] \cap Pending(e) = {})
  <2>1. ans[r] \cap d.cancelled = {}
    BY <1>2 DEF Mild, Tame
  <2>2. CASE Held(d, r, ans[r])
    BY <1>2, <2>2 DEF Mild
  <2>3. CASE d.commit = NoCommit /\ ans[r] \cap Pending(d) = {}
    BY <2>3 DEF Mild, Tame, Pending
  <2> QED BY <1>2, <2>1, <2>2, <2>3 DEF Mild
<1> QED BY <1>1, <1>2 DEF Mild

LEMMA MildStore ==
    ASSUME NEW c \in Cursor, NEW d, NEW ans, NEW n, StoreFits(c, ans, n), Mild(c, d, ans)
    PROVE  StoreFits(d, ans, n)
<1>1. Pending(d) \subseteq Pending(c) /\ d.commit.ids \subseteq c.commit.ids
      /\ c.cancelled \subseteq d.cancelled
  BY DEF Mild, Tame, Pending, NoCommit
<1>2. AnswersHeld(d, ans)
  <2> SUFFICES ASSUME NEW r \in Responses, ans[r] \cap d.cancelled = {},
                      ans[r] \cap (d.commit.ids \cup Pending(d)) # {}
               PROVE  Held(d, r, ans[r])
    BY DEF AnswersHeld
  <2>1. Held(c, r, ans[r])
    BY <1>1 DEF StoreFits, AnswersHeld
  <2>2. ~(d.commit = NoCommit /\ ans[r] \cap Pending(d) = {})
    BY DEF NoCommit
  <2> QED BY <2>1, <2>2 DEF Mild
<1>3. MarkerFits(d)
  <2>1. CASE d.commit = NoCommit
    BY <2>1 DEF MarkerFits, NoCommit
  <2>2. CASE d.commit = c.commit
    <3>1. ASSUME NEW i \in d.commit.ids, d.commit.phase = "persisting"
          PROVE  d.inputs[i].prepared \in {0, d.commit.turn}
      <4>1. c.inputs[i].prepared \in {0, c.commit.turn}
        BY <2>2, <3>1 DEF StoreFits, MarkerFits
      <4>2. d.inputs[i].prepared \in {0, c.inputs[i].prepared}
        BY <2>2, <3>1 DEF Mild, Tame, Cursor, ActiveTurnCommit
      <4> QED BY <2>2, <4>1, <4>2
    <3> QED BY <2>2, <3>1 DEF StoreFits, MarkerFits
  <2> QED BY <2>1, <2>2 DEF Mild, Tame
<1>4. InLog(d, n)
  BY <1>1 DEF StoreFits, InLog
<1> QED BY <1>2, <1>3, <1>4 DEF StoreFits

\* Messages N come to the end of the queue, new.
Grows(c, d, N) ==
    /\ N \cap Pending(c) = {} /\ N \subseteq Inputs
    /\ d.commit = c.commit /\ d.cancelled = c.cancelled
    /\ d.lease = c.lease /\ d.leaseSeq = c.leaseSeq
    /\ \A i \in Inputs \ N : d.inputs[i] = c.inputs[i]
    /\ \A i \in N : d.inputs[i].prepared = 0 /\ ~d.inputs[i].started

LEMMA GrowsStore ==
    ASSUME NEW c \in Cursor, NEW d, NEW ans, NEW n, NEW N, StoreFits(c, ans, n), Grows(c, d, N),
           \A i \in N : i <= n /\ \A r \in Responses : i \notin ans[r]
    PROVE  StoreFits(d, ans, n)
<1>1. Pending(d) \subseteq Pending(c) \cup N /\ Pending(c) \subseteq Pending(d)
  BY DEF Grows, Pending
<1>2. c.commit.ids \subseteq Inputs
  BY DEF Cursor, ActiveTurnCommit
<1>3. AnswersHeld(d, ans)
  <2> SUFFICES ASSUME NEW r \in Responses, ans[r] \cap d.cancelled = {},
                      ans[r] \cap (d.commit.ids \cup Pending(d)) # {}
               PROVE  Held(d, r, ans[r])
    BY DEF AnswersHeld
  <2>1. Held(c, r, ans[r])
    BY <1>1 DEF StoreFits, AnswersHeld, Grows
  <2>2. \A i \in ans[r] : d.inputs[i] = c.inputs[i]
    BY <1>2, <2>1 DEF Grows, Held
  <2> QED BY <1>1, <2>1, <2>2 DEF Held, Batch, Grows
<1>4. MarkerFits(d)
  <2>1. ASSUME NEW i \in d.commit.ids, d.commit.phase = "persisting"
        PROVE  d.inputs[i].prepared \in {0, d.commit.turn}
    BY <1>2, <2>1 DEF StoreFits, MarkerFits, Grows
  <2> QED BY <2>1 DEF StoreFits, MarkerFits, Grows
<1>5. InLog(d, n)
  BY <1>1 DEF StoreFits, InLog, Grows
<1> QED BY <1>3, <1>4, <1>5 DEF StoreFits

----------------------------------------------------------------------------
(* The updates that are mild.                                              *)

\* The attempts, the attachments and the lease are no concern of an answer.
Same(c, d) ==
    /\ d.commit = c.commit /\ d.cancelled = c.cancelled
    /\ \A i \in Inputs : /\ d.inputs[i].seq = c.inputs[i].seq
                         /\ d.inputs[i].prepared = c.inputs[i].prepared
                         /\ d.inputs[i].started = c.inputs[i].started

LEMMA SameMild ==
    ASSUME NEW c \in Cursor, NEW d, NEW ans, Same(c, d),
           c.commit = NoCommit \/ (d.lease = c.lease /\ d.leaseSeq = c.leaseSeq)
    PROVE  Mild(c, d, ans)
<1>1. Tame(c, d)
  BY DEF Tame, Same
<1>2. Pending(d) = Pending(c)
  BY DEF Same, Pending
<1>3. ASSUME NEW r \in Responses, Held(c, r, ans[r]) PROVE Held(d, r, ans[r])
  <2>1. c.commit # NoCommit
    BY <1>3 DEF Held, NoCommit
  <2> QED BY <1>2, <1>3, <2>1 DEF Held, Batch, Same, Pending
<1> QED BY <1>1, <1>3 DEF Mild

\* A slot of the queue is replaced by one of the same order and preparation.
SameSlot(x, y) == y.seq = x.seq /\ y.prepared = x.prepared /\ y.started = x.started

LEMMA AttemptsSame ==
    ASSUME NEW c \in Cursor, NEW S, NEW i \in Inputs
    PROVE  /\ Same(c, Begin(c, S))
           /\ Same(c, RequestRestart(c, S))
           /\ Same(c, [c EXCEPT !.inputs =
                           [c.inputs EXCEPT ![i] = BeginAttempt(c.inputs[i])]])
<1>1. \A j \in Inputs : /\ SameSlot(c.inputs[j], BeginAttempt(c.inputs[j]))
                        /\ SameSlot(c.inputs[j], ReturnAttempt(c.inputs[j]))
  BY SlotTyped DEF BeginAttempt, ReturnAttempt, PendingInput, SameSlot
<1> QED BY <1>1 DEF Same, SameSlot, Begin, RequestRestart, Cursor

LEMMA FailuresSame ==
    ASSUME NEW c \in Cursor, NEW S, NEW before, NEW stop, NEW i, NEW state
    PROVE  /\ Same(c, ReleaseAttempts(c, S, before))
           /\ Same(c, RecordFailure(c, i, stop))
           /\ i \in Inputs => Same(c, RecordAttachmentFailure(c, i, state))
<1>1. Same(c, ReleaseAttempts(c, S, before))
  BY SlotTyped DEF Same, ReleaseAttempts, Cursor, PendingInput
<1>2. Same(c, RecordFailure(c, i, stop))
  BY SlotTyped DEF Same, RecordFailure, Cursor, PendingInput
<1>3. ASSUME i \in Inputs PROVE Same(c, RecordAttachmentFailure(c, i, state))
  <2> DEFINE x == [ReturnAttempt(c.inputs[i]) EXCEPT !.attachment = state]
             d == [c EXCEPT !.inputs = [c.inputs EXCEPT ![i] = x]]
             e == RecordAttachmentFailure(c, i, state)
  <2>1. SameSlot(c.inputs[i], x)
    BY <1>3, SlotTyped DEF ReturnAttempt, PendingInput, SameSlot
  <2>2. /\ d.inputs = [c.inputs EXCEPT ![i] = x]
        /\ d.commit = c.commit /\ d.cancelled = c.cancelled
    BY DEF Cursor
  <2>3. e.inputs = d.inputs /\ e.commit = d.commit /\ e.cancelled = d.cancelled
    BY DEF RecordAttachmentFailure, Cursor
  <2> HIDE DEF x, d, e
  <2>4. Same(c, e)
    BY <2>1, <2>2, <2>3 DEF Same, SameSlot, Cursor
  <2> QED BY <2>4 DEF e
<1> QED BY <1>1, <1>2, <1>3

LEMMA AttachmentsSame ==
    ASSUME NEW c \in Cursor, NEW S, NEW i \in Inputs
    PROVE  /\ Same(c, CompleteAttachments(c, S))
           /\ Same(c, RetryInPlace(c, i))
           /\ RetryInPlace(c, i).lease = c.lease /\ RetryInPlace(c, i).leaseSeq = c.leaseSeq
<1>1. ASSUME NEW j \in Inputs
      PROVE  SameSlot(c.inputs[j], BeginAttempt([c.inputs[j] EXCEPT !.attachment = "none"]))
  BY <1>1, SlotTyped DEF BeginAttempt, PendingInput, SameSlot
<1>2. Same(c, CompleteAttachments(c, S))
  BY <1>1 DEF Same, SameSlot, CompleteAttachments, Cursor
<1>3. Same(c, RetryInPlace(c, i))
  BY SlotTyped DEF Same, RetryInPlace, Cursor, PendingInput
<1> QED BY <1>2, <1>3 DEF RetryInPlace, Cursor

LEMMA LeaseSame ==
    ASSUME NEW c \in Cursor, NEW S, NEW T
    PROVE  /\ Same(c, Lease(c, S)) /\ Same(c, Extend(c, S))
           /\ Same(c, Extend(Lease(c, S), T))
<1>1. Same(c, Lease(c, S)) /\ Same(c, Extend(c, S))
  BY DEF Same, Lease, Extend, Cursor
<1>2. CASE c.lease # {}
  BY <1>2 DEF Same, Lease, Extend, Cursor
<1>3. CASE c.lease = {}
  BY <1>3 DEF Same, Lease, Extend, Cursor
<1> QED BY <1>1, <1>2, <1>3

LEMMA ReadMild ==
    ASSUME NEW c \in Cursor, NEW ans
    PROVE  Mild(c, c, ans) /\ Mild(c, Read(c), ans)
<1>1. Mild(c, c, ans)
  BY SameMild DEF Same
<1>2. Tame(c, Read(c))
  BY SlotTyped DEF Tame, Read, DropLease, DiscardPreparation, Cursor, PendingInput
<1> QED BY <1>1, <1>2, HeldIsValid DEF Mild

LEMMA PrepareRecoveryMild ==
    ASSUME NEW c \in Cursor, NEW ans
    PROVE  Mild(c, PrepareRecovery(c), ans)
<1>1. Tame(c, PrepareRecovery(c))
  BY SlotTyped DEF Tame, PrepareRecovery, DropMatchingLease, DropLease, Cursor, PendingInput
<1> QED BY <1>1, HeldIsValid DEF Mild

\* What leaves the queue, leaves the lease.
LEMMA RemoveEffect ==
    ASSUME NEW c \in Cursor, NEW S
    PROVE  LET d == Remove(c, S) IN
           /\ d.commit = c.commit /\ d.cancelled = c.cancelled
           /\ \A i \in Inputs : d.inputs[i] = IF i \in S THEN Absent ELSE c.inputs[i]
           /\ d.lease = c.lease \ S
           /\ c.lease \cap S = {} /\ c.lease # {} => d.leaseSeq = c.leaseSeq
BY DEF Remove, Cursor

LEMMA RemoveTame ==
    ASSUME NEW c \in Cursor, NEW S, NEW d,
           d.commit \in {c.commit, NoCommit}, c.cancelled \subseteq d.cancelled,
           d.inputs = Remove(c, S).inputs
    PROVE  Tame(c, d)
BY RemoveEffect DEF Tame, Absent

LEMMA RemoveHeld ==
    ASSUME NEW c \in Cursor, NEW S, NEW d, NEW r \in Responses, NEW T,
           Held(c, r, T), T \cap S = {},
           d.commit = c.commit, d.inputs = Remove(c, S).inputs,
           d.lease = Remove(c, S).lease, d.leaseSeq = Remove(c, S).leaseSeq
    PROVE  Held(d, r, T)
<1>1. T \subseteq Inputs
  BY DEF Held, Batch, Pending
<1>2. \A i \in T : d.inputs[i] = c.inputs[i]
  BY <1>1, RemoveEffect
<1>3. d.lease = {} \/ (d.lease = T /\ d.leaseSeq = c.commit.seq)
  <2>1. d.lease = c.lease \ S
    BY RemoveEffect
  <2>2. CASE c.lease = {}
    BY <2>1, <2>2
  <2>3. CASE c.lease # {}
    <3>1. c.lease = T /\ c.leaseSeq = c.commit.seq
      BY <2>3 DEF Held, Batch
    <3>2. d.leaseSeq = c.leaseSeq
      BY <2>3, <3>1, RemoveEffect
    <3> QED BY <2>1, <3>1, <3>2
  <2> QED BY <2>2, <2>3
<1> QED BY <1>1, <1>2, <1>3 DEF Held, Batch, Pending

LEMMA CancelMild ==
    ASSUME NEW c \in Cursor, NEW ans, NEW i \in Inputs
    PROVE  Mild(c, Cancel(c, i), ans) /\ Mild(c, CancelAfterTermination(c, i), ans)
<1> DEFINE d == Remove(c, {i})
           e == [d EXCEPT !.cancelled = c.cancelled \cup {i}]
           f == ForgetCommitOf(e, {i})
<1>1. d \in Cursor /\ d.commit = c.commit
  BY RemoveTyped, RemoveEffect
<1>2. /\ e.commit = c.commit /\ e.cancelled = c.cancelled \cup {i}
      /\ e.inputs = d.inputs /\ e.lease = d.lease /\ e.leaseSeq = d.leaseSeq
  <2> HIDE DEF d
  <2> QED BY <1>1 DEF Cursor
<1>3. /\ f.commit = (IF c.commit.ids \cap {i} # {} THEN NoCommit ELSE c.commit)
      /\ f.cancelled = c.cancelled \cup {i}
      /\ f.inputs = d.inputs /\ f.lease = d.lease /\ f.leaseSeq = d.leaseSeq
  <2>1. e \in Cursor
    BY <1>1 DEF Cursor
  <2> HIDE DEF d, e
  <2> QED BY <1>2, <2>1 DEF ForgetCommitOf, Cursor
<1> HIDE DEF e, f
<1>4. Tame(c, e) /\ Tame(c, f)
  BY <1>2, <1>3, RemoveTame
<1>5. ASSUME NEW r \in Responses, Held(c, r, ans[r]), i \notin ans[r]
      PROVE  Held(e, r, ans[r]) /\ Held(f, r, ans[r])
  <2>1. c.commit.ids \cap {i} = {}
    BY <1>5 DEF Held
  <2> QED BY <1>2, <1>3, <1>5, <2>1, RemoveHeld
<1>6. Mild(c, e, ans) /\ Mild(c, f, ans)
  BY <1>2, <1>3, <1>4, <1>5 DEF Mild
<1> QED BY <1>6, ReadMild DEF Cancel, CancelAfterTermination, e, f

LEMMA RemoveSettledMild ==
    ASSUME NEW c \in Cursor, NEW ans, NEW S,
           \A r \in Responses :
               Held(c, r, ans[r]) /\ ans[r] \cap c.cancelled = {} => ans[r] \cap S = {}
    PROVE  Mild(c, RemoveSettled(c, S), ans)
<1> DEFINE d == Remove(c, S)
           f == ForgetCommitOf(d, S)
<1>1. d \in Cursor /\ d.commit = c.commit /\ d.cancelled = c.cancelled
  BY RemoveTyped, RemoveEffect
<1>2. /\ f.commit = (IF c.commit.ids \cap S # {} THEN NoCommit ELSE c.commit)
      /\ f.cancelled = c.cancelled
      /\ f.inputs = d.inputs /\ f.lease = d.lease /\ f.leaseSeq = d.leaseSeq
  <2> HIDE DEF d
  <2> QED BY <1>1 DEF ForgetCommitOf, Cursor
<1> HIDE DEF f
<1>3. Tame(c, f)
  BY <1>2, RemoveTame
<1>4. ASSUME NEW r \in Responses, Held(c, r, ans[r]), ans[r] \cap f.cancelled = {}
      PROVE  Held(f, r, ans[r])
  <2>1. ans[r] \cap S = {} /\ c.commit.ids \cap S = {}
    BY <1>2, <1>4 DEF Held
  <2> QED BY <1>2, <1>4, <2>1, RemoveHeld
<1>5. Mild(c, f, ans)
  BY <1>3, <1>4 DEF Mild
<1> QED BY <1>5 DEF RemoveSettled, f

LEMMA FinalizeEffect ==
    ASSUME NEW c \in Cursor, NEW S
    PROVE  LET d == Finalize(c, S) IN
           /\ d \in Cursor /\ d.commit = NoCommit /\ d.cancelled = c.cancelled
           /\ \A i \in Inputs : d.inputs[i] = IF i \in S THEN Absent ELSE c.inputs[i]
<1> DEFINE d == Remove(c, S)
<1>1. d \in Cursor /\ d.cancelled = c.cancelled
  BY RemoveTyped, RemoveEffect
<1>2. \A i \in Inputs : d.inputs[i] = IF i \in S THEN Absent ELSE c.inputs[i]
  BY RemoveEffect
<1>3. LET f == [DropLease(d) EXCEPT !.commit = NoCommit] IN
      f.commit = NoCommit /\ f.cancelled = d.cancelled /\ f.inputs = d.inputs
  <2> HIDE DEF d
  <2> QED BY <1>1 DEF DropLease, Cursor
<1> QED BY <1>1, <1>2, <1>3, FinalizeTyped DEF Finalize

LEMMA FinalizeMild ==
    ASSUME NEW c \in Cursor, NEW ans, NEW S, c.commit.ids = S
    PROVE  Mild(c, Finalize(c, S), ans)
<1> DEFINE d == Finalize(c, S)
<1>1. Tame(c, d)
  BY FinalizeEffect DEF Tame, Absent
<1>2. ASSUME NEW r \in Responses, Held(c, r, ans[r])
      PROVE  d.commit = NoCommit /\ ans[r] \cap Pending(d) = {}
  <2>1. ans[r] = S
    BY <1>2 DEF Held
  <2>2. \A i \in Inputs \cap S : d.inputs[i].seq = 0
    BY FinalizeEffect DEF Absent
  <2> QED BY <2>1, <2>2, FinalizeEffect DEF Pending
<1> QED BY <1>1, <1>2 DEF Mild

LEMMA ReleaseMild ==
    ASSUME NEW c \in Cursor, NEW ans, NEW k,
           \A r \in Responses : Held(c, r, ans[r]) => c.commit # k
    PROVE  Mild(c, ReleaseRecovery(c, k), ans)
<1>1. CASE c.commit # k
  BY <1>1, ReadMild DEF ReleaseRecovery
<1>2. CASE c.commit = k
  <2> DEFINE b == DropMatchingLease(c, k.seq)
             d == [DiscardPreparation(b, k.ids) EXCEPT !.commit = NoCommit]
  <2>1. b \in Cursor /\ b.inputs = c.inputs /\ b.cancelled = c.cancelled
    BY DropLeaseTyped DEF DropMatchingLease, DropLease, Cursor
  <2> HIDE DEF b
  <2>2. Tame(c, d)
    BY <2>1, SlotTyped DEF Tame, DiscardPreparation, Cursor, PendingInput
  <2>3. ReleaseRecovery(c, k) = d
    BY <1>2 DEF ReleaseRecovery, b
  <2> QED BY <1>2, <2>2, <2>3 DEF Mild
<1> QED BY <1>1, <1>2

LEMMA EnqueueGrows ==
    ASSUME NEW c \in Cursor, NEW i \in Inputs \ Pending(c)
    PROVE  Grows(c, Enqueue(c, i), {i})
BY DEF Grows, Enqueue, Fresh, Absent, Cursor

LEMMA ReconcileGrows ==
    ASSUME NEW c \in Cursor, NEW n, NEW settled
    PROVE  Grows(c, Reconcile(c, n, settled), Missing(c, n, settled))
<1>1. Missing(c, n, settled) \subseteq Inputs
  BY DEF Missing
<1> QED BY <1>1 DEF Grows, Reconcile, Missing, Fresh, Absent, Cursor

----------------------------------------------------------------------------
(* Where the actor is and what it then knows of the marker.                *)

\* The marker of the job.
Marker(j) == [phase |-> "persisting", ids |-> j.ids, seq |-> j.seq, turn |-> j.turn]

\* What is being said was neither answered nor put into a batch.
HandleFits ==
    /\ \A r \in Responses : \A i \in answers[r] : i <= said
    /\ preparing # 0 => /\ preparing <= said /\ preparing \notin cursor.commit.ids
                        /\ \A r \in Responses : preparing \notin answers[r]
                        /\ ~TurnCommitLocked
                        /\ pc \in CommitSteps => preparing \notin job.ids
    /\ pc = "copyEnqueue" => /\ job.copy <= said
                             /\ \A r \in Responses : job.copy \notin answers[r]

\* Nothing is dispatched while a commit is left to finish.
Unmarked ==
    pc \in {"lease", "begin", "run"} \/ (pc \in {"settle", "remove"} /\ job.origin = "start")
        => cursor.commit = NoCommit

\* The first of the batch shows whether the response is a new one, or which.
OperationFits ==
    /\ pc \in {"begin", "run", "mark"} => job.active \in job.ids
    /\ pc \in {"run", "mark", "prepare"} => job.origin = "finish"
    /\ pc = "run" /\ job.task = "calling" => cursor.inputs[job.active].prepared = 0
    /\ (pc = "run" /\ job.task = "answered") \/ pc = "mark"
          => cursor.inputs[job.active].prepared \in {0, job.turn}

GivingUpFits ==
    pc = "remove" => /\ job.due \subseteq failures
                     /\ \A r \in Responses : Intact(r) => job.due \cap answers[r] = {}

CommitFits ==
    /\ pc = "mark" => cursor.commit = [Marker(job) EXCEPT !.phase = "reserved"]
    /\ pc \in {"prepare", "respond"} =>
          /\ cursor.commit = Marker(job) /\ ValidCommit(cursor)
          /\ job.ids \subseteq Pending(cursor)
    /\ pc \in {"log", "publish", "finalize"} =>
          cursor.commit = Marker(job) /\ Batch(cursor, job.ids, job.turn)
    /\ pc \in {"publish", "finalize"} => answers[job.turn] = job.ids
    /\ pc = "finalize" => job.turn \in mailbox

\* A recovery is of the marker, unless a read has forgotten it meanwhile.
RecoveryFits ==
    pc \in {"reconcile", "recover"} =>
        /\ job.origin \in {"boot", "start"}
        /\ \/ cursor.commit = Marker(job)
           \/ cursor.commit = NoCommit /\ \A i \in job.ids : cursor.inputs[i].prepared = 0

AnswerInv ==
    /\ StoreFits(cursor, answers, said) /\ AnsweredOnce
    /\ HandleFits /\ Unmarked /\ OperationFits /\ GivingUpFits /\ CommitFits /\ RecoveryFits

----------------------------------------------------------------------------
(* What most steps do to the cursor, however many updates they make.       *)

Reaches(d) ==
    /\ d \in Cursor /\ StoreFits(d, answers, said)
    /\ d.commit \in {cursor.commit, NoCommit} /\ cursor.cancelled \subseteq d.cancelled

LEMMA ReachesMild ==
    ASSUME NEW c, Reaches(c), NEW d \in Cursor, Mild(c, d, answers)
    PROVE  Reaches(d)
BY MildStore DEF Reaches, Mild, Tame

LEMMA ReachesStart ==
    ASSUME IInv, AnswerInv
    PROVE  /\ cursor \in Cursor /\ Read(cursor) \in Cursor
           /\ Reaches(cursor) /\ Reaches(Read(cursor))
<1>1. cursor \in Cursor /\ Read(cursor) \in Cursor
  BY CursorRead DEF IInv, TypeOK
<1>2. Reaches(cursor)
  BY <1>1 DEF Reaches, AnswerInv
<1> QED BY <1>1, <1>2, ReadMild, ReachesMild

\* Reconciling brings nothing back that was answered.
LEMMA MissingNew ==
    ASSUME IInv, NEW c
    PROVE  \A i \in Missing(c, said, Settled) :
               i <= said /\ \A r \in Responses : i \notin answers[r]
BY DEF Missing, Settled, Answered

LEMMA ReachesReconcile ==
    ASSUME IInv, NEW c, Reaches(c)
    PROVE  Reaches(Reconcile(c, said, Settled))
<1> DEFINE d == Reconcile(c, said, Settled)
           N == Missing(c, said, Settled)
<1>1. c \in Cursor /\ d \in Cursor
  BY ReconcileTyped DEF Reaches
<1>2. Grows(c, d, N)
  BY <1>1, ReconcileGrows
<1>3. \A i \in N : i <= said /\ \A r \in Responses : i \notin answers[r]
  BY MissingNew
<1> HIDE DEF d, N
<1>4. StoreFits(d, answers, said)
  BY <1>1, <1>2, <1>3, GrowsStore DEF Reaches
<1>5. Reaches(d)
  BY <1>1, <1>2, <1>4 DEF Reaches, Grows
<1> QED BY <1>5 DEF d

\* What only depends on the log and the cursor.
LEMMA ReachesOnce ==
    ASSUME AnswerInv, Reaches(cursor'), UNCHANGED <<said, answers>>
    PROVE  /\ StoreFits(cursor, answers, said)' /\ AnsweredOnce'
           /\ \A r \in Responses : Intact(r)' => Intact(r)
<1>1. StoreFits(cursor, answers, said)'
  BY DEF Reaches
<1>2. \A r \in Responses : Intact(r)' => Intact(r)
  BY DEF Reaches, Intact
<1>3. AnsweredOnce'
  BY <1>2 DEF AnswerInv, AnsweredOnce
<1> QED BY <1>1, <1>2, <1>3

\* The handle's part, when the actor neither saves nor copies.
LEMMA HandleRests ==
    ASSUME AnswerInv, Reaches(cursor'), UNCHANGED <<said, answers, preparing>>,
           pc' \notin CommitSteps \cup {"copyEnqueue"}
    PROVE  HandleFits'
<1>1. cursor'.commit.ids \subseteq cursor.commit.ids
  BY DEF Reaches, NoCommit
<1> QED BY <1>1 DEF AnswerInv, HandleFits, TurnCommitLocked

LEMMA RestStep ==
    ASSUME AnswerInv, Reaches(cursor'), UNCHANGED <<said, answers, preparing>>,
           \/ pc' \in {"boot", "idle", "copy"}
           \/ pc' = "settle" /\ job'.origin = "finish"
           \/ pc' \in {"settle", "lease"} /\ cursor'.commit = NoCommit
    PROVE  AnswerInv'
<1>1. pc' \notin CommitSteps \cup {"copyEnqueue", "begin", "run", "remove",
                                   "reconcile", "recover"}
  BY DEF CommitSteps
<1>2. HandleFits'
  BY <1>1, HandleRests
<1>3. Unmarked'
  BY <1>1 DEF Unmarked
<1>4. OperationFits' /\ GivingUpFits' /\ CommitFits' /\ RecoveryFits'
  BY <1>1 DEF OperationFits, GivingUpFits, CommitFits, RecoveryFits, CommitSteps
<1> QED BY <1>2, <1>3, <1>4, ReachesOnce DEF AnswerInv

\* While an operation runs there is no marker.
LEMMA RunStep ==
    ASSUME AnswerInv, Reaches(cursor'), UNCHANGED <<said, answers, preparing>>,
           pc = "run", pc' = "run", job'.origin = job.origin,
           job'.active = job.active, job'.active \in job'.ids,
           job'.task = "calling" => cursor'.inputs[job.active].prepared = 0,
           job'.task = "answered" => cursor'.inputs[job.active].prepared \in {0, job'.turn}
    PROVE  AnswerInv'
<1>1. cursor'.commit = NoCommit
  BY DEF AnswerInv, Unmarked, Reaches
<1>2. HandleFits'
  BY HandleRests DEF CommitSteps
<1>3. OperationFits'
  BY DEF AnswerInv, OperationFits
<1>4. GivingUpFits' /\ CommitFits' /\ RecoveryFits' /\ Unmarked'
  BY <1>1 DEF GivingUpFits, CommitFits, RecoveryFits, Unmarked
<1> QED BY <1>2, <1>3, <1>4, ReachesOnce DEF AnswerInv

\* ... and a read changes nothing.
LEMMA ReadUnmarked ==
    ASSUME IInv, cursor.commit = NoCommit
    PROVE  Read(cursor) = cursor
BY DEF Read, ValidCommit

LEMMA SameReaches ==
    ASSUME IInv, AnswerInv, cursor.commit = NoCommit, NEW d \in Cursor, Same(cursor, d)
    PROVE  Reaches(d)
BY SameMild, ReachesStart, ReachesMild

----------------------------------------------------------------------------
(* Starting and recovering.                                                *)

LEMMA KeepFields ==
    ASSUME NEW k \in ActiveTurnCommit, NEW o \in Origins
    PROVE  LET j == [Keep(k) EXCEPT !.origin = o] IN
           j.ids = k.ids /\ j.seq = k.seq /\ j.turn = k.turn /\ j.origin = o
BY NoJobTyped DEF Keep, Job, NoJob

\* A marker that a recovery found is one that is to be finished.
LEMMA MarkerFound ==
    ASSUME NEW c \in Cursor, MarkerFits(c), NEW o \in Origins,
           LET d == PrepareRecovery(c) IN job' = [Keep(d.commit) EXCEPT !.origin = o]
    PROVE  LET d == PrepareRecovery(c) IN
           /\ d \in Cursor /\ job'.origin = o
           /\ d.commit = NoCommit => job'.ids = {}
           /\ d.commit # NoCommit => d.commit = Marker(job')
<1> DEFINE d == PrepareRecovery(c)
           k == d.commit
<1>1. d \in Cursor /\ k \in ActiveTurnCommit
  BY PrepareRecoveryTyped DEF Cursor
<1>2. k = NoCommit \/ (k = c.commit /\ k.phase # "reserved")
  BY DEF PrepareRecovery, DropMatchingLease, DropLease, Cursor
<1>3. k # NoCommit => k.phase = "persisting"
  BY <1>1, <1>2 DEF MarkerFits, ActiveTurnCommit, Phases
<1>4. job'.ids = k.ids /\ job'.seq = k.seq /\ job'.turn = k.turn /\ job'.origin = o
  BY <1>1, KeepFields
<1> HIDE DEF d, k
<1>5. k # NoCommit => k = Marker(job')
  BY <1>1, <1>3, <1>4 DEF ActiveTurnCommit, Marker
<1> QED BY <1>1, <1>4, <1>5 DEF d, k, NoCommit

LEMMA RecoveringStep ==
    ASSUME AnswerInv, Reaches(cursor'), UNCHANGED <<said, answers, preparing>>,
           pc' \in {"reconcile", "recover"}, job'.origin \in {"boot", "start"},
           \/ cursor'.commit = Marker(job')
           \/ cursor'.commit = NoCommit /\ \A i \in job'.ids : cursor'.inputs[i].prepared = 0
    PROVE  AnswerInv'
<1>1. HandleFits'
  BY HandleRests DEF CommitSteps
<1>2. Unmarked' /\ OperationFits' /\ GivingUpFits' /\ CommitFits' /\ RecoveryFits'
  BY DEF Unmarked, OperationFits, GivingUpFits, CommitFits, RecoveryFits
<1> QED BY <1>1, <1>2, ReachesOnce DEF AnswerInv

LEMMA BootKeeps == ASSUME IInv, AnswerInv, Boot PROVE AnswerInv'
<1> DEFINE b == Read(cursor)
           d == PrepareRecovery(b)
<1>1. b \in Cursor /\ Reaches(b) /\ d \in Cursor
  BY ReachesStart, PrepareRecoveryTyped
<1>2. cursor' = d /\ Reaches(d)
  BY <1>1, PrepareRecoveryMild, ReachesMild DEF Boot
<1>3. MarkerFits(b)
  BY <1>1 DEF Reaches, StoreFits
<1>4. job' = [Keep(d.commit) EXCEPT !.origin = "boot"]
  BY DEF Boot
<1>5. /\ job'.origin = "boot"
      /\ d.commit = NoCommit => job'.ids = {}
      /\ d.commit # NoCommit => d.commit = Marker(job')
  BY <1>1, <1>3, <1>4, MarkerFound DEF Origins
<1> HIDE DEF b, d
<1> QED BY <1>2, <1>5, RecoveringStep DEF Boot

\* A read forgets a marker together with what is prepared for it.
LEMMA ReadOfMarker ==
    ASSUME NEW c \in Cursor
    PROVE  \/ Read(c) = c
           \/ Read(c).commit = NoCommit /\ \A i \in c.commit.ids : Read(c).inputs[i].prepared = 0
<1>1. c.commit.ids \subseteq Inputs
  BY DEF Cursor, ActiveTurnCommit
<1>2. \A i \in Inputs : c.inputs[i] \in PendingInput
  BY SlotTyped
<1> QED BY <1>1, <1>2 DEF Read, DropLease, DiscardPreparation, Cursor, PendingInput

LEMMA ReadOfRecovery ==
    ASSUME IInv, RecoveryFits, pc \in {"reconcile", "recover"}
    PROVE  LET b == Read(cursor) IN
           /\ job.origin \in {"boot", "start"}
           /\ \/ b.commit = Marker(job)
              \/ b.commit = NoCommit /\ \A i \in job.ids : b.inputs[i].prepared = 0
<1>1. cursor \in Cursor
  BY CursorRead DEF IInv, TypeOK
<1>2. CASE cursor.commit = NoCommit
  BY <1>2, ReadUnmarked DEF RecoveryFits
<1>3. CASE cursor.commit = Marker(job)
  BY <1>1, <1>3, ReadOfMarker DEF Marker, RecoveryFits
<1> QED BY <1>2, <1>3 DEF RecoveryFits

LEMMA BootReconcileKeeps == ASSUME IInv, AnswerInv, BootReconcile PROVE AnswerInv'
<1> DEFINE b == Read(cursor)
           d == Reconcile(b, said, Settled)
<1>1. b \in Cursor /\ Reaches(b) /\ Reaches(d)
  BY ReachesStart, ReachesReconcile
<1>2. cursor' = d /\ pc = "reconcile" /\ UNCHANGED <<said, answers, preparing>>
  BY DEF BootReconcile
<1>3. CASE job.ids = {}
  BY <1>1, <1>2, <1>3, RestStep DEF BootReconcile
<1>4. CASE job.ids # {}
  <2>1. pc' = "recover" /\ job' = job
    BY <1>4 DEF BootReconcile
  <2>2. /\ job.origin \in {"boot", "start"}
        /\ \/ b.commit = Marker(job)
           \/ b.commit = NoCommit /\ \A i \in job.ids : b.inputs[i].prepared = 0
    BY <1>2, ReadOfRecovery DEF AnswerInv
  <2>3. Grows(b, d, Missing(b, said, Settled))
    BY <1>1, ReconcileGrows
  <2>4. job.ids \subseteq Inputs
    BY DEF IInv, TypeOK, Job
  <2> HIDE DEF b, d
  <2>5. \/ d.commit = Marker(job')
        \/ d.commit = NoCommit /\ \A i \in job'.ids : d.inputs[i].prepared = 0
    BY <2>1, <2>2, <2>3, <2>4 DEF Grows
  <2> QED BY <1>1, <1>2, <2>1, <2>2, <2>5, RecoveringStep
<1> QED BY <1>3, <1>4

LEMMA StartTurnKeeps == ASSUME IInv, AnswerInv, StartTurn PROVE AnswerInv'
<1> DEFINE b == Read(cursor)
           c == Reconcile(b, said, Settled)
           d == PrepareRecovery(c)
<1>1. Reaches(b) /\ Reaches(c)
  BY ReachesStart, ReachesReconcile
<1>2. c \in Cursor /\ MarkerFits(c)
  BY <1>1 DEF Reaches, StoreFits
<1>3. d \in Cursor /\ Reaches(d) /\ cursor' = d
  BY <1>1, <1>2, PrepareRecoveryTyped, PrepareRecoveryMild, ReachesMild DEF StartTurn
<1>4. /\ job' = [Keep(d.commit) EXCEPT !.origin = "start"]
      /\ pc' = IF d.commit = NoCommit THEN "settle" ELSE "recover"
      /\ UNCHANGED <<said, answers, preparing>>
  BY DEF StartTurn
<1>5. job'.origin = "start" /\ (d.commit # NoCommit => d.commit = Marker(job'))
  BY <1>2, <1>4, MarkerFound DEF Origins
<1> HIDE DEF b, c, d
<1>6. CASE d.commit = NoCommit
  BY <1>3, <1>4, <1>6, RestStep
<1>7. CASE d.commit # NoCommit
  BY <1>3, <1>4, <1>5, <1>7, RecoveringStep
<1> QED BY <1>6, <1>7

LEMMA FailStops ==
    ASSUME AnswerInv, FailCommit, Reaches(cursor'), UNCHANGED <<said, answers, preparing>>
    PROVE  AnswerInv'
<1>1. \/ pc' \in {"boot", "idle"}
      \/ pc' = "settle" /\ job' = [NoJob EXCEPT !.origin = "finish", !.active = job.active]
  BY DEF FailCommit
<1>2. pc' = "settle" => job'.origin = "finish"
  BY <1>1, NoJobTyped DEF NoJob
<1> QED BY <1>1, <1>2, RestStep

LEMMA RecoveredStops ==
    ASSUME AnswerInv, AfterRecovery, Reaches(cursor'), cursor'.commit = NoCommit,
           UNCHANGED <<said, answers, preparing>>
    PROVE  AnswerInv'
BY RestStep DEF AfterRecovery

LEMMA RecoverKeeps == ASSUME IInv, AnswerInv, Recover PROVE AnswerInv'
<1> DEFINE c == Read(cursor)
           held == [phase |-> "persisting", ids |-> job.ids,
                    seq |-> job.seq, turn |-> job.turn]
           present == job.ids \cap Pending(c)
           prepared == {c.inputs[i].prepared : i \in present}
           done == present = {} /\ answers[job.turn] = job.ids
           whole == /\ present = job.ids
                    /\ Cardinality(prepared) = 1 /\ prepared # {0}
<1>1. c \in Cursor /\ Reaches(c) /\ pc = "recover" /\ held = Marker(job)
  BY ReachesStart DEF Recover, Marker
<1>2. UNCHANGED <<said, answers, preparing>>
  BY DEF Recover
<1>3. /\ job.origin \in {"boot", "start"}
      /\ \/ c.commit = Marker(job)
         \/ c.commit = NoCommit /\ \A i \in job.ids : c.inputs[i].prepared = 0
  BY <1>1, ReadOfRecovery DEF AnswerInv
<1>4. CASE CanFinalize(c, job.seq, job.ids, job.turn) /\ cursor' = Finalize(c, job.ids) /\ AfterRecovery
  <2>1. cursor' \in Cursor /\ Mild(c, cursor', answers) /\ cursor'.commit = NoCommit
    BY <1>1, <1>4, FinalizeEffect, FinalizeMild DEF CanFinalize
  <2> QED BY <1>1, <1>2, <1>4, <2>1, ReachesMild, RecoveredStops
<1>5. CASE cursor' = c /\ FailCommit
  BY <1>1, <1>2, <1>5, FailStops
<1>6. CASE ~whole /\ cursor' = ReleaseRecovery(c, held) /\ AfterRecovery
  <2>1. ASSUME NEW r \in Responses, Held(c, r, answers[r]) PROVE c.commit # held
    <3>1. SUFFICES ASSUME c.commit = held PROVE FALSE
      OBVIOUS
    <3>2. answers[r] = job.ids /\ r # 0
      BY <2>1, <3>1 DEF Held, Responses
    <3>3. present = job.ids /\ prepared = {r}
      BY <2>1, <3>2 DEF Held, Batch
    <3>4. Cardinality(prepared) = 1
      BY <3>3, FS_Singleton
    <3> QED BY <1>6, <3>2, <3>3, <3>4
  <2>2. cursor' \in Cursor /\ Mild(c, cursor', answers)
    BY <1>1, <1>6, <2>1, ReleaseRecoveryTyped, ReleaseMild
  <2>3. cursor'.commit = NoCommit
    <3>1. CASE c.commit = held
      <4>1. DropMatchingLease(c, held.seq) \in Cursor
        BY <1>1, DropLeaseTyped DEF DropMatchingLease
      <4>2. DiscardPreparation(DropMatchingLease(c, held.seq), held.ids) \in Cursor
        BY <4>1, DiscardTyped
      <4> HIDE DEF c, held
      <4> QED BY <1>6, <3>1, <4>2 DEF ReleaseRecovery, Cursor
    <3>2. CASE c.commit # held
      BY <1>1, <1>3, <1>6, <3>2 DEF ReleaseRecovery
    <3> QED BY <3>1, <3>2
  <2> QED BY <1>1, <1>2, <1>6, <2>2, <2>3, ReachesMild, RecoveredStops
<1>7. ASSUME whole, cursor' = c, pc' = "respond", NEW r \in prepared,
             job' = [job EXCEPT !.turn = r]
      PROVE  AnswerInv'
  <2>1. PICK i \in job.ids : c.inputs[i].prepared = r /\ job.ids \subseteq Pending(c)
    BY <1>7
  <2>2. r # 0
    <3>1. present \in SUBSET Inputs
      BY DEF Pending
    <3>2. r \in Responses
      BY <1>1, <1>7, <3>1, OneAnswerPrepared
    <3> QED BY <3>2 DEF Responses
  <2>3. c.commit = Marker(job)
    BY <1>3, <2>1, <2>2
  <2>4. c = cursor /\ ValidCommit(c)
    BY <1>1, <2>3, NoCommitTyped DEF Marker, NoCommit, Read
  <2>5. r = job.turn
    BY <1>1, <2>1, <2>2, <2>3 DEF Reaches, StoreFits, MarkerFits, Marker
  <2>6. job' = job
    BY <1>7, <2>5 DEF IInv, TypeOK, Job
  <2>7. HandleFits'
    <3>1. cursor' = cursor /\ cursor.commit.ids = job.ids
      BY <1>7, <2>3, <2>4 DEF Marker
    <3> QED BY <1>2, <1>3, <1>7, <2>6, <3>1 DEF AnswerInv, HandleFits, TurnCommitLocked, CommitSteps
  <2>8. CommitFits'
    BY <1>7, <2>1, <2>3, <2>4, <2>6 DEF CommitFits
  <2>9. Unmarked' /\ OperationFits' /\ GivingUpFits' /\ RecoveryFits'
    BY <1>7 DEF Unmarked, OperationFits, GivingUpFits, RecoveryFits
  <2> QED BY <1>1, <1>2, <1>7, <2>7, <2>8, <2>9, ReachesOnce DEF AnswerInv
<1>8. CASE cursor' = c /\ pc' = "respond" /\ whole /\ \E r \in prepared : job' = [job EXCEPT !.turn = r]
  BY <1>7, <1>8
<1>9. \/ CanFinalize(c, job.seq, job.ids, job.turn) /\ cursor' = Finalize(c, job.ids) /\ AfterRecovery
      \/ cursor' = c /\ FailCommit
      \/ ~whole /\ cursor' = ReleaseRecovery(c, held) /\ AfterRecovery
      \/ /\ cursor' = c /\ pc' = "respond" /\ whole
         /\ \E r \in prepared : job' = [job EXCEPT !.turn = r]
  BY DEF Recover
<1> HIDE DEF c, held, present, prepared, done, whole
<1> QED BY <1>4, <1>5, <1>6, <1>8, <1>9

----------------------------------------------------------------------------
(* Giving up and dispatching.                                              *)

\* What is answered and not withdrawn is prepared, so it is not given up.
LEMMA AnsweredNotExhausted ==
    ASSUME NEW c, NEW ans, AnswersHeld(c, ans), NEW r \in Responses,
           ans[r] \cap c.cancelled = {}
    PROVE  Exhausted(c) \cap ans[r] = {}
<1> SUFFICES ASSUME NEW i \in Exhausted(c), i \in ans[r] PROVE FALSE
  OBVIOUS
<1>1. i \in Pending(c) /\ c.inputs[i].prepared = 0
  BY DEF Exhausted
<1>2. Held(c, r, ans[r])
  BY <1>1 DEF AnswersHeld
<1> QED BY <1>1, <1>2 DEF Held, Batch, Responses

LEMMA SettledStops ==
    ASSUME AnswerInv, AfterSettling, pc \in {"settle", "remove"}, Reaches(cursor'),
           UNCHANGED <<said, answers, preparing>>
    PROVE  AnswerInv'
<1>1. job.origin = "start" => cursor'.commit = NoCommit
  BY DEF AnswerInv, Unmarked, Reaches
<1> QED BY <1>1, RestStep DEF AfterSettling

LEMMA SettleKeeps == ASSUME IInv, AnswerInv, Settle PROVE AnswerInv'
<1> DEFINE c == Read(cursor)
<1>1. c \in Cursor /\ Reaches(c)
  BY ReachesStart
<1>2. pc = "settle" /\ cursor' = c /\ UNCHANGED <<said, answers, preparing>>
  BY DEF Settle
<1>3. CASE Exhausted(c) = {}
  BY <1>1, <1>2, <1>3, SettledStops DEF Settle
<1>4. CASE Exhausted(c) # {}
  <2>1. /\ pc' = "remove" /\ job' = [job EXCEPT !.due = Exhausted(c)]
        /\ failures' = failures \cup Exhausted(c)
    BY <1>4 DEF Settle
  <2>2. job'.due = Exhausted(c) /\ job'.origin = job.origin
    <3> HIDE DEF c
    <3> QED BY <2>1 DEF IInv, TypeOK, Job
  <2>3. HandleFits'
    BY <1>1, <1>2, <2>1, HandleRests DEF CommitSteps
  <2>4. Unmarked'
    BY <1>1, <1>2, <2>1, <2>2 DEF AnswerInv, Unmarked, Reaches
  <2>5. GivingUpFits'
    <3>1. \A r \in Responses : Intact(r)' => c.cancelled \cap answers[r] = {}
      BY <1>2 DEF Intact
    <3>2. \A r \in Responses : Intact(r)' => Exhausted(c) \cap answers[r] = {}
      <4>1. AnswersHeld(c, answers)
        BY <1>1 DEF Reaches, StoreFits
      <4> HIDE DEF c
      <4> QED BY <3>1, <4>1, AnsweredNotExhausted
    <3> QED BY <1>2, <2>1, <2>2, <3>2 DEF GivingUpFits
  <2>6. OperationFits' /\ CommitFits' /\ RecoveryFits'
    BY <2>1 DEF OperationFits, CommitFits, RecoveryFits
  <2> QED BY <1>1, <1>2, <2>3, <2>4, <2>5, <2>6, ReachesOnce DEF AnswerInv
<1> QED BY <1>3, <1>4

LEMMA RemoveExhaustedKeeps == ASSUME IInv, AnswerInv, RemoveExhausted PROVE AnswerInv'
<1> DEFINE c == Read(cursor)
<1>1. c \in Cursor /\ Reaches(c)
  BY ReachesStart
<1>2. pc = "remove" /\ cursor' = RemoveSettled(c, job.due) /\ AfterSettling
      /\ UNCHANGED <<said, answers, preparing>>
  BY DEF RemoveExhausted
<1>3. \A r \in Responses : answers[r] \cap c.cancelled = {} => answers[r] \cap job.due = {}
  BY <1>1, <1>2 DEF Reaches, AnswerInv, GivingUpFits, Intact
<1>4. cursor' \in Cursor /\ Mild(c, cursor', answers)
  <2> HIDE DEF c
  <2> QED BY <1>1, <1>2, <1>3, RemoveSettledMild, RemoveSettledTyped
<1> QED BY <1>1, <1>2, <1>4, ReachesMild, SettledStops

LEMMA TakeLeaseKeeps == ASSUME IInv, AnswerInv, IInv', TakeLease PROVE AnswerInv'
<1> DEFINE c == Reconcile(Read(cursor), said, Settled)
           d == Lease(c, {First(c, Runnable(c))})
           head == First(d, d.lease)
           eligible == {i \in Runnable(d) \ d.lease : d.inputs[i].prepared = 0}
<1>1. c \in Cursor /\ ValidPending(c) /\ c.lease \subseteq Pending(c)
  BY CursorRead, LeaseOfQueue DEF TakeLease, IInv, TypeOK
<1>2. Reaches(c)
  BY ReachesStart, ReachesReconcile
<1>3. c.commit = NoCommit
  BY <1>2 DEF Reaches, AnswerInv, Unmarked, TakeLease
<1>4. UNCHANGED <<said, answers, preparing>> /\ cursor' \in Cursor
  BY DEF TakeLease, IInv, TypeOK
<1>5. CASE cursor' = c /\ pc' = "idle"
  BY <1>2, <1>4, <1>5, RestStep
<1>6. ASSUME Runnable(c) # {}, NEW more \in SUBSET eligible,
             cursor' = Extend(d, more), pc' = "begin",
             job' = [NoJob EXCEPT !.ids = d.lease \cup more, !.active = head,
                                  !.seq = d.leaseSeq, !.origin = "start"]
      PROVE  AnswerInv'
  <2>1. First(c, Runnable(c)) \in Pending(c)
    <3>1. Runnable(c) \in SUBSET Pending(c)
      BY DEF Runnable
    <3>2. First(c, Runnable(c)) \in Runnable(c)
      <4> HIDE DEF c
      <4> QED BY <1>1, <1>6, <3>1, FirstExists
    <3> QED BY <3>1, <3>2
  <2>2. /\ d \in Cursor /\ d.inputs = c.inputs /\ d.nextSeq = c.nextSeq
        /\ d.lease \in {c.lease, {First(c, Runnable(c))}} /\ d.lease # {}
    <3> HIDE DEF c
    <3>1. {First(c, Runnable(c))} \in SUBSET Inputs
      BY <2>1 DEF Pending
    <3>2. d \in Cursor
      BY <1>1, <3>1, LeaseTyped
    <3>3. d.inputs = c.inputs /\ d.nextSeq = c.nextSeq
      BY <1>1, <3>1, LeaseKeepsQueue
    <3>4. d.lease \in {c.lease, {First(c, Runnable(c))}} /\ d.lease # {}
      BY <1>1, <3>1, LeaseKeepsQueue
    <3> QED BY <3>2, <3>3, <3>4
  <2>3. head \in d.lease
    <3>1. d.lease \in SUBSET Pending(d) /\ ValidPending(d)
      <4> HIDE DEF c, d
      <4> QED BY <1>1, <2>1, <2>2 DEF ValidPending, Pending
    <3> HIDE DEF d
    <3> QED BY <2>2, <3>1, FirstExists
  <2>4. job'.ids = d.lease \cup more /\ job'.active = head
    <3> DEFINE L == d.lease \cup more
               n == d.leaseSeq
    <3>1. job' = [NoJob EXCEPT !.ids = L, !.active = head, !.seq = n, !.origin = "start"]
      BY <1>6
    <3>2. job'.ids = L /\ job'.active = head
      <4> HIDE DEF head, L, n
      <4> QED BY <3>1 DEF NoJob
    <3> QED BY <3>2
  <2>5. Same(c, cursor')
    <3> HIDE DEF c
    <3> QED BY <1>1, <1>6, LeaseSame
  <2>6. Reaches(cursor') /\ cursor'.commit = NoCommit
    <3> HIDE DEF c
    <3>1. Mild(c, cursor', answers)
      BY <1>1, <1>3, <2>5, SameMild
    <3> QED BY <1>2, <1>3, <1>4, <2>5, <3>1, ReachesMild DEF Same
  <2>7. HandleFits'
    BY <1>4, <1>6, <2>6, HandleRests DEF CommitSteps
  <2>8. Unmarked' /\ OperationFits' /\ GivingUpFits' /\ CommitFits' /\ RecoveryFits'
    <3>1. pc' = "begin" /\ job'.active \in job'.ids
      BY <1>6, <2>3, <2>4
    <3> QED BY <2>6, <3>1
            DEF Unmarked, OperationFits, GivingUpFits, CommitFits, RecoveryFits
  <2> QED BY <1>4, <2>6, <2>7, <2>8, ReachesOnce DEF AnswerInv
<1> HIDE DEF c, d, head, eligible
<1> QED BY <1>5, <1>6 DEF TakeLease, c, d, head, eligible

LEMMA BeginKeeps == ASSUME IInv, AnswerInv, IInv', BeginOperation PROVE AnswerInv'
<1>1. cursor.commit = NoCommit /\ Read(cursor) = cursor
  BY ReadUnmarked DEF AnswerInv, Unmarked, BeginOperation
<1>2. UNCHANGED <<said, answers, preparing>> /\ cursor' \in Cursor /\ cursor \in Cursor
  BY DEF BeginOperation, IInv, TypeOK
<1>3. CASE cursor' = cursor /\ pc' = "idle"
  BY <1>2, <1>3, ReachesStart, RestStep
<1>4. CASE /\ cursor' = Begin(cursor, job.ids) /\ pc' = "run"
           /\ job' = [job EXCEPT !.gen = cursor.opGen + 1, !.tracked = job.ids,
                                 !.before = [i \in Inputs |-> cursor.inputs[i].attempts],
                                 !.task = "preparing", !.origin = "finish"]
  <2>1. Same(cursor, cursor')
    <3>1. \A i \in Inputs : Same(cursor, Begin(cursor, job.ids))
      BY <1>2, AttemptsSame
    <3>2. Inputs # {}
      BY BoundsAssumption DEF Inputs
    <3> QED BY <1>4, <3>1, <3>2
  <2>2. Reaches(cursor') /\ cursor'.commit = NoCommit
    BY <1>1, <1>2, <2>1, SameReaches DEF Same
  <2>3. /\ job'.ids = job.ids /\ job'.active = job.active
        /\ job'.task = "preparing" /\ job'.origin = "finish"
    <3> DEFINE g == cursor.opGen + 1
               b == [i \in Inputs |-> cursor.inputs[i].attempts]
    <3>1. job' = [job EXCEPT !.gen = g, !.tracked = job.ids, !.before = b,
                             !.task = "preparing", !.origin = "finish"]
      BY <1>4
    <3> HIDE DEF g, b
    <3> QED BY <3>1 DEF IInv, TypeOK, Job
  <2>4. HandleFits'
    BY <1>2, <1>4, <2>2, HandleRests DEF CommitSteps
  <2>5. pc = "begin" /\ job.active \in job.ids
    BY DEF BeginOperation, AnswerInv, OperationFits
  <2>6. Unmarked' /\ OperationFits' /\ GivingUpFits' /\ CommitFits' /\ RecoveryFits'
    BY <1>4, <2>2, <2>3, <2>5
       DEF Unmarked, OperationFits, GivingUpFits, CommitFits, RecoveryFits
  <2> QED BY <1>2, <2>2, <2>4, <2>6, ReachesOnce DEF AnswerInv
<1> QED BY <1>1, <1>3, <1>4 DEF BeginOperation

----------------------------------------------------------------------------
(* While an operation runs.                                                *)

LEMMA RunKeeps ==
    ASSUME IInv, AnswerInv, Reaches(cursor'), UNCHANGED <<said, answers, preparing>>,
           pc = "run", pc' = "run",
           cursor'.inputs[job.active].prepared \in {0, cursor.inputs[job.active].prepared},
           job'.origin = job.origin, job'.active = job.active, job.ids \subseteq job'.ids,
           job'.task = "calling" => cursor.inputs[job.active].prepared = 0,
           job'.task = "answered" => cursor.inputs[job.active].prepared \in {0, job'.turn}
    PROVE  AnswerInv'
<1>1. job.active \in job.ids
  BY DEF AnswerInv, OperationFits
<1> QED BY <1>1, RunStep

LEMMA RunSame ==
    ASSUME IInv, AnswerInv, IInv', UNCHANGED <<said, answers, preparing>>,
           pc = "run", pc' = "run", Same(cursor, cursor'),
           job'.origin = job.origin, job'.active = job.active, job.ids \subseteq job'.ids,
           job'.task = "calling" => cursor.inputs[job.active].prepared = 0,
           job'.task = "answered" => cursor.inputs[job.active].prepared \in {0, job'.turn}
    PROVE  AnswerInv'
<1>1. cursor.commit = NoCommit /\ cursor' \in Cursor
  BY DEF AnswerInv, Unmarked, IInv, TypeOK
<1>2. Reaches(cursor')
  BY <1>1, SameReaches
<1>3. job.active \in Inputs
  BY DEF AnswerInv, OperationFits, IInv, TypeOK, Job
<1> QED BY <1>2, <1>3, RunKeeps DEF Same

\* The task and what it stands at are left alone.
SameTask ==
    /\ job'.origin = job.origin /\ job'.active = job.active /\ job'.ids = job.ids
    /\ job'.task = job.task /\ job'.turn = job.turn

LEMMA RunSameTask ==
    ASSUME IInv, AnswerInv, IInv', UNCHANGED <<said, answers, preparing>>,
           pc = "run", pc' = "run", Same(cursor, cursor'), SameTask
    PROVE  AnswerInv'
BY RunSame DEF SameTask, AnswerInv, OperationFits

\* The task ends, or reports.
LEMMA TaskEnds ==
    ASSUME IInv, AnswerInv, IInv', UNCHANGED <<said, answers, preparing>>,
           pc = "run", pc' = "run", Same(cursor, cursor'),
           NEW t \in TaskStates \ {"calling", "answered"}, Task(t)
    PROVE  AnswerInv'
<1>1. /\ job'.origin = job.origin /\ job'.active = job.active
      /\ job'.ids = job.ids /\ job'.task = t
  BY DEF Task, IInv, TypeOK, Job
<1> QED BY <1>1, RunSame

LEMMA RunRead ==
    ASSUME IInv, AnswerInv, pc = "run"
    PROVE  /\ cursor \in Cursor /\ cursor.commit = NoCommit
           /\ Read(cursor) = cursor /\ Same(cursor, cursor)
           /\ job \in Job /\ job.active \in job.ids /\ job.ids \subseteq Inputs
           /\ job.origin = "finish"
BY ReadUnmarked DEF AnswerInv, Unmarked, OperationFits, IInv, TypeOK, Same, Job

LEMMA PrepareCallKeeps == ASSUME IInv, AnswerInv, IInv', PrepareCall PROVE AnswerInv'
<1> DEFINE c == Read(cursor)
           prepared == {c.inputs[i].prepared : i \in job.ids}
<1>1. pc = "run" /\ pc' = "run" /\ UNCHANGED <<said, answers, preparing>>
  BY DEF PrepareCall, TaskFrame
<1>2. /\ Read(cursor) = cursor /\ Same(cursor, cursor) /\ job \in Job
      /\ job.active \in job.ids
  BY <1>1, RunRead
<1>3. cursor.inputs[job.active].prepared \in prepared
  BY <1>2
<1>4. ASSUME Cardinality(prepared) = 1, NEW r \in prepared, cursor' = cursor,
             job' = [job EXCEPT !.task = "answered", !.turn = r]
      PROVE  AnswerInv'
  <2>1. cursor.inputs[job.active].prepared = r
    <3>1. prepared = {r}
      <4>1. \A i \in Inputs : cursor.inputs[i].prepared \in {0} \cup Responses
        BY <1>1, RunRead, SlotTyped DEF PendingInput
      <4>2. prepared \in SUBSET (0 .. MaxOps) /\ job.ids \subseteq Inputs
        BY <1>1, <4>1, RunRead, BoundsAssumption DEF Responses
      <4>3. IsFiniteSet(0 .. MaxOps)
        <5>1. 0 \in Int /\ MaxOps \in Int
          BY BoundsAssumption
        <5> QED BY <5>1, FS_Interval
      <4>4. \E x : prepared = {x}
        <5>1. IsFiniteSet(prepared)
          BY <4>2, <4>3, FS_Subset
        <5> HIDE DEF prepared
        <5> QED BY <1>4, <5>1, FS_Singleton
      <4> QED BY <1>4, <4>4
    <3> QED BY <1>3, <3>1
  <2>2. /\ job'.origin = job.origin /\ job'.active = job.active
        /\ job'.ids = job.ids /\ job'.task = "answered" /\ job'.turn = r
    BY <1>2, <1>4 DEF Job
  <2> QED BY <1>1, <1>2, <1>4, <2>1, <2>2, RunSame
<1>5. CASE cursor' = cursor /\ Task("broken")
  BY <1>1, <1>2, <1>5, TaskEnds DEF TaskStates
<1>6. ASSUME prepared = {0}, cursor' = CompleteAttachments(cursor, job.ids), Task("calling")
      PROVE  AnswerInv'
  <2>1. Same(cursor, cursor')
    <3>1. \A i \in Inputs : Same(cursor, CompleteAttachments(cursor, job.ids))
      BY <1>1, RunRead, AttachmentsSame
    <3> QED BY <1>1, <1>6, <3>1, RunRead
  <2>2. cursor.inputs[job.active].prepared = 0
    BY <1>3, <1>6
  <2>3. /\ job'.origin = job.origin /\ job'.active = job.active
        /\ job'.ids = job.ids /\ job'.task = "calling"
    BY <1>2, <1>6 DEF Job, Task
  <2> QED BY <1>1, <2>1, <2>2, <2>3, RunSame
<1> HIDE DEF prepared, c
<1> QED BY <1>2, <1>4, <1>5, <1>6 DEF PrepareCall, prepared, c

LEMMA AnswerKeeps == ASSUME IInv, AnswerInv, IInv', Answer PROVE AnswerInv'
<1> DEFINE c == IF job.accepted = {} THEN Read(cursor)
                ELSE Reconcile(Read(cursor), said, Settled)
<1>1. pc = "run" /\ pc' = "run" /\ UNCHANGED <<said, answers, preparing>>
      /\ job.task = "calling" /\ cursor' = c
  BY DEF Answer, TaskFrame
<1>2. Reaches(cursor')
  BY <1>1, ReachesStart, ReachesReconcile
<1>3. cursor.inputs[job.active].prepared = 0
  BY <1>1 DEF AnswerInv, OperationFits
<1>4. cursor'.inputs[job.active].prepared \in {0, cursor.inputs[job.active].prepared}
  <2>1. CASE job.accepted = {}
    BY <1>1, <2>1, RunRead
  <2>2. CASE job.accepted # {}
    <3>1. Grows(cursor, cursor', Missing(cursor, said, Settled))
      BY <1>1, <2>2, RunRead, ReconcileGrows
    <3>2. job.active \in Inputs
      BY <1>1, RunRead
    <3> QED BY <3>1, <3>2 DEF Grows
  <2> QED BY <2>1, <2>2
<1>5. /\ job'.origin = job.origin /\ job'.active = job.active /\ job.ids \subseteq job'.ids
      /\ job'.task # "calling"
  <2>1. CASE job' = [job EXCEPT !.task = "answered", !.turn = job.gen,
                                !.ids = job.ids \cup job.accepted]
    BY <1>1, <2>1, RunRead DEF Job
  <2>2. CASE Task("broken")
    BY <1>1, <2>2, RunRead DEF Job, Task
  <2> QED BY <2>1, <2>2 DEF Answer
<1> HIDE DEF c
<1> QED BY <1>1, <1>2, <1>3, <1>4, <1>5, RunKeeps

LEMMA TaskKeeps == ASSUME IInv, AnswerInv, IInv', TaskNext PROVE AnswerInv'
<1>1. ASSUME NEW state \in {"unread", "unreadable"}, ReadingFails(state) PROVE AnswerInv'
  <2>1. pc = "run" /\ pc' = "run" /\ UNCHANGED <<said, answers, preparing>> /\ cursor' = cursor
    BY <1>1 DEF ReadingFails
  <2> QED BY <1>1, <2>1, RunRead, TaskEnds DEF ReadingFails, TaskStates
<1>2. ASSUME NEW i \in Inputs, AcceptMidTurn(i) PROVE AnswerInv'
  <2>1. pc = "run" /\ pc' = "run" /\ UNCHANGED <<said, answers, preparing>> /\ cursor' = cursor
    BY <1>2 DEF AcceptMidTurn, TaskFrame
  <2>2. SameTask
    BY <1>2, <2>1, RunRead DEF AcceptMidTurn, Job, SameTask
  <2> QED BY <2>1, <2>2, RunRead, RunSameTask
<1>3. ASSUME NEW state \in {"failed", "stopped"}, CallFails(state) PROVE AnswerInv'
  <2>1. pc = "run" /\ pc' = "run" /\ UNCHANGED <<said, answers, preparing>> /\ cursor' = cursor
    BY <1>3 DEF CallFails, TaskFrame
  <2> QED BY <1>3, <2>1, RunRead, TaskEnds DEF CallFails, TaskStates
<1>4. ASSUME DispatchSuperseded PROVE AnswerInv'
  <2>1. pc = "run" /\ pc' = "run" /\ UNCHANGED <<said, answers, preparing>>
    BY <1>4 DEF DispatchSuperseded, TaskFrame
  <2>2. cursor' = ReleaseAttempts(cursor, job.ids, job.before)
    BY <1>4, <2>1, RunRead DEF DispatchSuperseded
  <2>3. Same(cursor, cursor')
    BY <2>1, <2>2, RunRead, FailuresSame
  <2> QED BY <1>4, <2>1, <2>3, TaskEnds DEF DispatchSuperseded, TaskStates
<1> QED BY <1>1, <1>2, <1>3, <1>4, PrepareCallKeeps, AnswerKeeps DEF TaskNext

----------------------------------------------------------------------------
(* Commands that reach the actor, and the end of an operation.             *)

LEMMA AcceptCommandKeeps == ASSUME IInv, AnswerInv, IInv', AcceptCommand PROVE AnswerInv'
<1> DEFINE adds == pc = "run" /\ AppendMode
           c == IF adds \/ pc = "idle" THEN Reconcile(Read(cursor), said, Settled)
                                       ELSE cursor
           new == IF adds THEN Runnable(c) \ job.tracked ELSE {}
           leased == c.lease # {} /\ c.leaseSeq = job.seq
<1>1. /\ pc \in {"idle", "run"} /\ pc' = pc /\ UNCHANGED <<said, answers, preparing>>
      /\ cursor' = IF leased THEN Extend(c, new) ELSE c
      /\ job' = IF leased THEN [job EXCEPT !.adding = new] ELSE job
      /\ cursor' \in Cursor
  BY DEF AcceptCommand, ActorFrame, IInv, TypeOK
<1>2. Reaches(c) /\ c \in Cursor
  BY ReachesStart, ReachesReconcile DEF Reaches
<1>3. Same(c, cursor')
  <2> HIDE DEF c, new, leased
  <2>1. Same(c, c) /\ Same(c, Extend(c, new))
    BY <1>2, LeaseSame DEF Same
  <2> QED BY <1>1, <2>1
<1>4. CASE pc = "idle"
  <2>1. cursor'.lease = c.lease /\ cursor'.leaseSeq = c.leaseSeq
    <3>1. new = {}
      BY <1>4
    <3> HIDE DEF c, new
    <3> QED BY <1>1, <1>2, <3>1 DEF Extend, Cursor
  <2>2. Reaches(cursor')
    <3> HIDE DEF c, new
    <3>1. Mild(c, cursor', answers)
      BY <1>2, <1>3, <2>1, SameMild
    <3> QED BY <1>1, <1>2, <3>1, ReachesMild
  <2> QED BY <1>1, <1>4, <2>2, RestStep
<1>5. CASE pc = "run"
  <2>1. Reaches(cursor')
    <3>1. c.commit = NoCommit
      BY <1>2, <1>5, RunRead DEF Reaches
    <3> HIDE DEF c, new
    <3>2. Mild(c, cursor', answers)
      BY <1>2, <1>3, <3>1, SameMild
    <3> QED BY <1>1, <1>2, <3>2, ReachesMild
  <2>2. cursor'.inputs[job.active].prepared \in {0, cursor.inputs[job.active].prepared}
    <3>1. c.inputs[job.active].prepared \in {0, cursor.inputs[job.active].prepared}
      <4>1. CASE adds
        <5>1. Grows(cursor, c, Missing(cursor, said, Settled))
          BY <1>5, <4>1, RunRead, ReconcileGrows
        <5> HIDE DEF c
        <5> QED BY <1>5, <5>1, RunRead DEF Grows
      <4>2. CASE ~adds
        BY <1>5, <4>2
      <4> QED BY <4>1, <4>2
    <3> HIDE DEF c
    <3> QED BY <1>3, <1>5, <3>1, RunRead DEF Same
  <2>3. SameTask
    <3> HIDE DEF new, leased
    <3> QED BY <1>1, <1>5, RunRead DEF Job, SameTask
  <2> HIDE DEF c, new, leased, adds
  <2> QED BY <1>1, <1>5, <2>1, <2>2, <2>3, RunKeeps
          DEF SameTask, AnswerInv, OperationFits
<1> QED BY <1>1, <1>4, <1>5

LEMMA AppendRestartsKeeps == ASSUME IInv, AnswerInv, IInv', AppendRestarts PROVE AnswerInv'
<1>1. pc = "run" /\ pc' = "run" /\ UNCHANGED <<said, answers, preparing>>
  BY DEF AppendRestarts, ActorFrame
<1>2. Same(cursor, cursor')
  <2>1. /\ cursor \in Cursor /\ Read(cursor) = cursor /\ Same(cursor, cursor)
        /\ job.active \in Inputs
    BY <1>1, RunRead
  <2>2. Same(cursor, RequestRestart(cursor, job.ids))
    BY <2>1, AttemptsSame
  <2> QED BY <2>1, <2>2 DEF AppendRestarts
<1>3. SameTask
  <2> DEFINE T == job.tracked \cup job.adding
  <2>1. \/ job' = [job EXCEPT !.adding = {}, !.restart = TRUE, !.tracked = T]
        \/ job' = [job EXCEPT !.adding = {}, !.tracked = T]
    BY DEF AppendRestarts
  <2> HIDE DEF T
  <2> QED BY <1>1, <2>1, RunRead DEF Job, SameTask
<1> QED BY <1>1, <1>2, <1>3, RunSameTask

LEMMA AppendSendsKeeps == ASSUME IInv, AnswerInv, IInv', AppendSends PROVE AnswerInv'
<1> DEFINE c == Read(cursor)
           i == First(c, job.adding)
<1>1. pc = "run" /\ pc' = "run" /\ UNCHANGED <<said, answers, preparing>>
  BY DEF AppendSends, ActorFrame
<1>2. c = cursor /\ cursor \in Cursor /\ job \in Job /\ Same(cursor, cursor)
  BY <1>1, RunRead
<1>3. CASE /\ i \in Pending(c)
           /\ cursor' = [c EXCEPT !.inputs =
                            [c.inputs EXCEPT ![i] = BeginAttempt(c.inputs[i])]]
           /\ job' = IF job.task \in Working
                     THEN [job EXCEPT !.adding = job.adding \ {i},
                                      !.sent = job.sent \cup {i},
                                      !.tracked = job.tracked \cup {i}]
                     ELSE [job EXCEPT !.adding = {}, !.restart = TRUE]
  <2>1. i \in Inputs
    BY <1>3 DEF Pending
  <2>2. Same(cursor, cursor')
    <3> HIDE DEF i, c
    <3> QED BY <1>2, <1>3, <2>1, AttemptsSame
  <2>3. SameTask
    <3> DEFINE S == job.adding \ {i}
               U == job.sent \cup {i}
               T == job.tracked \cup {i}
    <3> HIDE DEF S, T, U
    <3>1. CASE job' = [job EXCEPT !.adding = S, !.sent = U, !.tracked = T]
      BY <1>2, <3>1 DEF Job, SameTask
    <3>2. CASE job' = [job EXCEPT !.adding = {}, !.restart = TRUE]
      BY <1>2, <3>2 DEF Job, SameTask
    <3> QED BY <1>3, <3>1, <3>2 DEF S, T, U
  <2> QED BY <1>1, <2>2, <2>3, RunSameTask
<1>4. CASE cursor' = c /\ job' = [job EXCEPT !.adding = {}]
  <2>1. SameTask
    BY <1>2, <1>4 DEF Job, SameTask
  <2> QED BY <1>1, <1>2, <1>4, <2>1, RunSameTask
<1> HIDE DEF c, i
<1> QED BY <1>3, <1>4 DEF AppendSends, c, i

\* An operation that ends without an answer.
LEMMA OperationEnds ==
    ASSUME IInv, AnswerInv, IInv', pc = "run", UNCHANGED <<said, answers, preparing>>,
           Same(cursor, cursor'), pc' = "idle" \/ Settling
    PROVE  AnswerInv'
<1>1. Reaches(cursor')
  BY RunRead, SameReaches DEF IInv, TypeOK
<1>2. CASE Settling
  <2>1. pc' = "settle" /\ job'.origin = "finish"
    BY <1>2, NoJobTyped DEF Settling, NoJob
  <2> QED BY <1>1, <2>1, RestStep
<1> QED BY <1>1, <1>2, RestStep

LEMMA CollectKeeps ==
    ASSUME IInv, AnswerInv, IInv', CollectRestart \/ CollectFailure \/ CollectUnread
    PROVE  AnswerInv'
<1>1. pc = "run" /\ UNCHANGED <<said, answers, preparing>> /\ (pc' = "idle" \/ Settling)
  BY DEF CollectRestart, CollectFailure, CollectUnread, Collect, Collectable, ActorFrame
<1>2. /\ cursor \in Cursor /\ Read(cursor) = cursor /\ Same(cursor, cursor)
      /\ job.active \in Inputs
  BY <1>1, RunRead
<1>3. Same(cursor, cursor')
  <2>1. CASE CollectRestart
    BY <1>2, <2>1 DEF CollectRestart
  <2>2. CASE CollectFailure
    BY <1>2, <2>2, FailuresSame DEF CollectFailure
  <2>3. CASE CollectUnread
    BY <1>2, <2>3, FailuresSame DEF CollectUnread
  <2> QED BY <2>1, <2>2, <2>3
<1> QED BY <1>1, <1>3, OperationEnds

LEMMA ReserveKeeps == ASSUME IInv, AnswerInv, IInv', ReserveCommit PROVE AnswerInv'
<1>1. /\ pc = "run" /\ job.task = "answered" /\ preparing = 0
      /\ UNCHANGED <<said, answers, preparing>> /\ Readable(cursor)
  BY DEF ReserveCommit, Collect, Collectable
<1>2. /\ cursor \in Cursor /\ Read(cursor) = cursor /\ cursor.commit = NoCommit
      /\ job.active \in job.ids /\ job.origin = "finish" /\ job.turn # 0
  BY <1>1, RunRead DEF IInv, OperationKnown
<1>3. CASE cursor' = cursor /\ FailCommit
  BY <1>1, <1>3, ReachesStart, FailStops
<1>4. CASE /\ CanReserve(cursor, job.gen, job.seq, job.ids)
           /\ cursor' = Reserve(cursor, job.seq, job.ids, job.turn)
           /\ pc' = "mark" /\ job' = job
  <2>1. /\ cursor'.inputs = cursor.inputs /\ cursor'.cancelled = cursor.cancelled
        /\ cursor'.commit = [phase |-> "reserved", ids |-> job.ids,
                             seq |-> job.seq, turn |-> job.turn]
    BY <1>2, <1>4 DEF Reserve, Cursor
  <2>2. job.ids \subseteq Pending(cursor) /\ Pending(cursor') = Pending(cursor)
    BY <1>1, <1>4, <2>1
       DEF CanReserve, Readable, ValidDispatch, RunnablePrefix, Runnable, Pending
  <2>3. \A r \in Responses : answers[r] \cap cursor.cancelled = {}
                                => answers[r] \cap Pending(cursor) = {}
    BY <1>2 DEF AnswerInv, StoreFits, AnswersHeld, Held, NoCommit
  <2>4. StoreFits(cursor', answers, said)
    <3>1. AnswersHeld(cursor', answers)
      BY <2>1, <2>2, <2>3 DEF AnswersHeld
    <3>2. MarkerFits(cursor')
      BY <1>2, <2>1 DEF MarkerFits
    <3>3. InLog(cursor', said)
      BY <2>1, <2>2 DEF AnswerInv, StoreFits, InLog
    <3> QED BY <3>1, <3>2, <3>3 DEF StoreFits
  <2>5. AnsweredOnce'
    BY <1>1, <2>1 DEF AnswerInv, AnsweredOnce, Intact
  <2>6. HandleFits'
    BY <1>1, <1>4 DEF AnswerInv, HandleFits
  <2>7. CommitFits'
    BY <1>4, <2>1 DEF CommitFits, Marker
  <2>8. OperationFits'
    BY <1>1, <1>2, <1>4, <2>1 DEF AnswerInv, OperationFits
  <2>9. Unmarked' /\ GivingUpFits' /\ RecoveryFits'
    BY <1>4 DEF Unmarked, GivingUpFits, RecoveryFits
  <2>10. StoreFits(cursor, answers, said)'
    BY <1>1, <2>4
  <2> QED BY <2>5, <2>6, <2>7, <2>8, <2>9, <2>10 DEF AnswerInv
<1> QED BY <1>2, <1>3, <1>4 DEF ReserveCommit

----------------------------------------------------------------------------
(* The commit.                                                             *)

LEMMA CommitHandle ==
    ASSUME AnswerInv, pc \in CommitSteps, pc' \in CommitSteps, job' = job,
           UNCHANGED <<said, preparing>>,
           cursor'.commit.ids \subseteq cursor.commit.ids,
           \A r \in Responses : answers'[r] = answers[r]
                                \/ answers'[r] \subseteq cursor.commit.ids \cap job.ids
    PROVE  HandleFits'
<1>2. \A i \in cursor.commit.ids : i <= said
  BY DEF AnswerInv, StoreFits, InLog
<1>3. \A r \in Responses : \A i \in answers'[r] : i <= said
  BY <1>2 DEF AnswerInv, HandleFits
<1>4. preparing # 0 => \A r \in Responses : preparing \notin answers'[r]
  BY DEF AnswerInv, HandleFits
<1>5. ~TurnCommitLocked => ~TurnCommitLocked'
  BY DEF TurnCommitLocked
<1>6. pc' # "copyEnqueue"
  BY DEF CommitSteps
<1> QED BY <1>3, <1>4, <1>5, <1>6 DEF AnswerInv, HandleFits

\* Answers are held again once what they wait for only came nearer.
LEMMA HeldAgain ==
    ASSUME NEW c \in Cursor, NEW d, NEW ans, AnswersHeld(c, ans),
           d.commit = c.commit, d.cancelled = c.cancelled, Pending(d) = Pending(c),
           d.lease = c.lease, d.leaseSeq = c.leaseSeq, NEW t, c.commit.turn = t,
           \A i \in c.commit.ids : /\ c.inputs[i].prepared = t => d.inputs[i].prepared = t
                                   /\ c.inputs[i].started => d.inputs[i].started
    PROVE  AnswersHeld(d, ans)
<1> SUFFICES ASSUME NEW r \in Responses, ans[r] \cap d.cancelled = {},
                    ans[r] \cap (d.commit.ids \cup Pending(d)) # {}
             PROVE  Held(d, r, ans[r])
  BY DEF AnswersHeld
<1>1. Held(c, r, ans[r])
  BY DEF AnswersHeld
<1> QED BY <1>1 DEF Held, Batch

\* A step of the commit that went well.
LEMMA CommitGoesOn ==
    ASSUME AnswerInv, pc \in CommitSteps, pc' \in {"prepare", "respond", "log"}, job' = job,
           UNCHANGED <<said, preparing, answers>>,
           StoreFits(cursor', answers, said), cursor'.cancelled = cursor.cancelled,
           cursor'.commit.ids \subseteq cursor.commit.ids, CommitFits',
           pc' = "prepare" => job.origin = "finish"
    PROVE  AnswerInv'
<1>1. pc' \in CommitSteps
  BY DEF CommitSteps
<1>2. HandleFits'
  BY <1>1, CommitHandle
<1>3. Unmarked' /\ OperationFits' /\ GivingUpFits' /\ RecoveryFits'
  BY DEF Unmarked, OperationFits, GivingUpFits, RecoveryFits
<1>4. AnsweredOnce'
  BY DEF AnswerInv, AnsweredOnce, Intact
<1>5. StoreFits(cursor, answers, said)'
  OBVIOUS
<1> QED BY <1>2, <1>3, <1>4, <1>5 DEF AnswerInv

LEMMA MarkKeeps == ASSUME IInv, AnswerInv, IInv', MarkCommit PROVE AnswerInv'
<1> DEFINE c == Read(cursor)
<1>1. /\ cursor \in Cursor /\ c \in Cursor /\ Reaches(c) /\ pc = "mark" /\ pc \in CommitSteps
      /\ UNCHANGED <<said, preparing, answers>>
  BY ReachesStart DEF MarkCommit, CommitFrame, CommitSteps
<1>2. CASE cursor' = PrepareRecovery(c) /\ FailCommit
  <2>1. cursor' \in Cursor /\ Mild(c, cursor', answers)
    <3> HIDE DEF c
    <3> QED BY <1>1, <1>2, PrepareRecoveryTyped, PrepareRecoveryMild
  <2> QED BY <1>1, <1>2, <2>1, ReachesMild, FailStops
<1>3. CASE /\ c.commit.phase # "none" /\ cursor' = MarkPersisting(c)
           /\ pc' = "prepare" /\ job' = job
  <2>1. /\ cursor.commit = [Marker(job) EXCEPT !.phase = "reserved"]
        /\ job.active \in job.ids /\ job.origin = "finish" /\ job.turn # 0
        /\ cursor.inputs[job.active].prepared \in {0, job.turn}
    BY <1>1 DEF AnswerInv, CommitFits, OperationFits, IInv, OperationKnown
  <2>2. /\ cursor.commit.phase = "reserved" /\ cursor.commit.ids = job.ids
        /\ cursor.commit.seq = job.seq /\ cursor.commit.turn = job.turn
    BY <2>1 DEF Marker
  <2>3. ValidCommit(cursor) /\ c = cursor
    BY <1>1, <1>3 DEF Read, NoCommit, Cursor
  <2>4. /\ cursor'.inputs = cursor.inputs /\ cursor'.cancelled = cursor.cancelled
        /\ cursor'.lease = cursor.lease /\ cursor'.leaseSeq = cursor.leaseSeq
        /\ cursor'.commit = Marker(job)
    <3>1. cursor' = [cursor EXCEPT !.commit = [cursor.commit EXCEPT !.phase = "persisting"]]
      BY <1>3, <2>3 DEF MarkPersisting
    <3> QED BY <1>1, <2>1, <3>1 DEF Marker, Cursor
  <2>5. /\ job.ids \subseteq Pending(cursor) /\ Pending(cursor') = Pending(cursor)
        /\ \A i \in job.ids : cursor.inputs[i].started => cursor.inputs[i].prepared # 0
        /\ SamePreparation(cursor, job.ids)
        /\ cursor.lease = job.ids /\ cursor.leaseSeq = job.seq
    BY <2>2, <2>3, <2>4 DEF ValidCommit, NoCommit, Pending
  <2>6. \A i \in job.ids : cursor.inputs[i].prepared \in {0, job.turn}
    BY <2>1, <2>5 DEF SamePreparation
  <2>7. StoreFits(cursor', answers, said)
    <3>1. AnswersHeld(cursor', answers)
      BY <2>2, <2>4, <2>5 DEF AnswerInv, StoreFits, AnswersHeld, Held, Marker
    <3>2. MarkerFits(cursor')
      BY <2>1, <2>4, <2>6 DEF MarkerFits, Marker
    <3>3. InLog(cursor', said)
      BY <2>4, <2>5 DEF AnswerInv, StoreFits, InLog, Marker
    <3> QED BY <3>1, <3>2, <3>3 DEF StoreFits
  <2>8. CommitFits'
    <3>1. ValidCommit(cursor')
      BY <2>4, <2>5 DEF ValidCommit, SamePreparation, Marker
    <3> QED BY <1>3, <2>4, <2>5, <3>1 DEF CommitFits
  <2> QED BY <1>1, <1>3, <2>1, <2>2, <2>4, <2>7, <2>8, CommitGoesOn DEF Marker
<1> HIDE DEF c
<1> QED BY <1>2, <1>3 DEF MarkCommit, Continue, c

LEMMA PrepareKeeps == ASSUME IInv, AnswerInv, IInv', PrepareResponse PROVE AnswerInv'
<1>1. /\ cursor \in Cursor /\ pc = "prepare" /\ pc \in CommitSteps /\ Reaches(cursor)
      /\ UNCHANGED <<said, preparing, answers>>
  BY ReachesStart DEF PrepareResponse, CommitFrame, CommitSteps
<1>2. /\ cursor.commit = Marker(job) /\ ValidCommit(cursor) /\ job.ids \subseteq Pending(cursor)
      /\ Read(cursor) = cursor /\ job.turn # 0
  BY <1>1 DEF AnswerInv, CommitFits, Read, IInv, OperationKnown
<1>3. CASE cursor' = cursor /\ FailCommit
  BY <1>1, <1>3, FailStops
<1>4. CASE /\ CanPrepare(cursor, job.ids, job.turn)
           /\ cursor' = Prepare(cursor, job.ids, job.turn) /\ pc' = "respond" /\ job' = job
  <2>1. /\ cursor'.commit = cursor.commit /\ cursor'.cancelled = cursor.cancelled
        /\ cursor'.lease = cursor.lease /\ cursor'.leaseSeq = cursor.leaseSeq
    BY <1>1, <1>4 DEF Prepare, Cursor
  <2>2. \A i \in Inputs : /\ cursor'.inputs[i].seq = cursor.inputs[i].seq
                          /\ cursor'.inputs[i].started = cursor.inputs[i].started
                          /\ cursor'.inputs[i].prepared =
                                 IF i \in job.ids THEN job.turn ELSE cursor.inputs[i].prepared
    BY <1>1, <1>4, SlotTyped DEF Prepare, Cursor, PendingInput
  <2>3. Pending(cursor') = Pending(cursor) /\ job.ids \subseteq Inputs
    BY <1>2, <2>2 DEF Pending
  <2>4. /\ cursor.commit.ids = job.ids /\ cursor.commit.turn = job.turn
        /\ cursor.commit.seq = job.seq /\ cursor.commit.phase = "persisting"
    BY <1>2 DEF Marker
  <2>5. StoreFits(cursor', answers, said)
    <3>1. AnswersHeld(cursor', answers)
      <4>1. \A i \in cursor.commit.ids :
                /\ cursor'.inputs[i].prepared = job.turn
                /\ cursor.inputs[i].started => cursor'.inputs[i].started
        BY <2>2, <2>3, <2>4
      <4> QED BY <1>1, <2>1, <2>3, <2>4, <4>1, HeldAgain DEF AnswerInv, StoreFits
    <3>2. MarkerFits(cursor')
      BY <1>2, <2>1, <2>2, <2>3, <2>4 DEF MarkerFits
    <3>3. InLog(cursor', said)
      BY <2>1, <2>3 DEF AnswerInv, StoreFits, InLog
    <3> QED BY <3>1, <3>2, <3>3 DEF StoreFits
  <2>6. CommitFits'
    <3>1. ValidCommit(cursor')
      BY <1>2, <2>1, <2>2, <2>3, <2>4 DEF ValidCommit, SamePreparation, NoCommit
    <3> QED BY <1>2, <1>4, <2>1, <2>3, <3>1 DEF CommitFits
  <2> QED BY <1>1, <1>4, <2>1, <2>5, <2>6, CommitGoesOn
<1> QED BY <1>2, <1>3, <1>4 DEF PrepareResponse, Continue

LEMMA StartKeeps == ASSUME IInv, AnswerInv, IInv', StartResponse PROVE AnswerInv'
<1>1. /\ cursor \in Cursor /\ pc = "respond" /\ pc \in CommitSteps /\ Reaches(cursor)
      /\ UNCHANGED <<said, preparing, answers>>
  BY ReachesStart DEF StartResponse, CommitFrame, CommitSteps
<1>2. /\ cursor.commit = Marker(job) /\ ValidCommit(cursor) /\ job.ids \subseteq Pending(cursor)
      /\ Read(cursor) = cursor /\ job.turn # 0
  BY <1>1 DEF AnswerInv, CommitFits, Read, IInv, OperationKnown
<1>3. CASE cursor' = cursor /\ FailCommit
  BY <1>1, <1>3, FailStops
<1>4. CASE /\ CanStart(cursor, job.ids, job.turn)
           /\ cursor' = Start(cursor, job.ids) /\ pc' = "log" /\ job' = job
  <2>1. /\ cursor'.commit = cursor.commit /\ cursor'.cancelled = cursor.cancelled
        /\ cursor'.lease = cursor.lease /\ cursor'.leaseSeq = cursor.leaseSeq
    BY <1>1, <1>4 DEF Start, Cursor
  <2>2. \A i \in Inputs : /\ cursor'.inputs[i].seq = cursor.inputs[i].seq
                          /\ cursor'.inputs[i].prepared = cursor.inputs[i].prepared
                          /\ i \in job.ids => cursor'.inputs[i].started
    BY <1>1, <1>4, SlotTyped DEF Start, Cursor, PendingInput
  <2>3. Pending(cursor') = Pending(cursor) /\ job.ids \subseteq Inputs
    BY <1>2, <2>2 DEF Pending
  <2>4. /\ cursor.commit.ids = job.ids /\ cursor.commit.turn = job.turn
        /\ cursor.commit.seq = job.seq /\ cursor.commit.phase = "persisting"
    BY <1>2 DEF Marker
  <2>5. StoreFits(cursor', answers, said)
    <3>1. AnswersHeld(cursor', answers)
      <4>1. \A i \in cursor.commit.ids :
                /\ cursor.inputs[i].prepared = job.turn => cursor'.inputs[i].prepared = job.turn
                /\ cursor'.inputs[i].started
        BY <2>2, <2>3, <2>4
      <4> QED BY <1>1, <2>1, <2>3, <2>4, <4>1, HeldAgain DEF AnswerInv, StoreFits
    <3>2. MarkerFits(cursor')
      BY <2>1, <2>2, <2>3, <2>4 DEF AnswerInv, StoreFits, MarkerFits
    <3>3. InLog(cursor', said)
      BY <2>1, <2>3 DEF AnswerInv, StoreFits, InLog
    <3> QED BY <3>1, <3>2, <3>3 DEF StoreFits
  <2>6. CommitFits'
    <3>1. Batch(cursor', job.ids, job.turn)
      BY <1>2, <1>4, <2>1, <2>2, <2>3, <2>4 DEF Batch, CanStart, ValidCommit, NoCommit
    <3> QED BY <1>2, <1>4, <2>1, <3>1 DEF CommitFits
  <2> QED BY <1>1, <1>4, <2>1, <2>5, <2>6, CommitGoesOn
<1> QED BY <1>2, <1>3, <1>4 DEF StartResponse, Continue

\* What is written to the log was not answered by another response before.
LEMMA LogKeeps == ASSUME IInv, AnswerInv, IInv', LogResponse PROVE AnswerInv'
<1>1. /\ cursor' = cursor /\ pc = "log" /\ pc \in CommitSteps /\ Reaches(cursor)
      /\ UNCHANGED <<said, preparing>>
  BY ReachesStart DEF LogResponse, CommitFrame, CommitSteps
<1>2. CASE UNCHANGED answers /\ FailCommit
  BY <1>1, <1>2, FailStops
<1>3. CASE /\ answers' = [answers EXCEPT ![job.turn] = job.ids]
           /\ pc' = "publish" /\ job' = job
  <2>1. /\ cursor.commit = Marker(job) /\ Batch(cursor, job.ids, job.turn)
        /\ cursor.commit.ids = job.ids /\ cursor.commit.turn = job.turn
        /\ cursor.commit.phase = "persisting"
    BY <1>1 DEF AnswerInv, CommitFits, Marker
  <2>2. /\ answers'[job.turn] = job.ids
        /\ \A r \in Responses \ {job.turn} : answers'[r] = answers[r]
    <3>1. job.turn \in Responses
      BY <1>1 DEF IInv, TypeOK, OperationKnown, Job
    <3> QED BY <1>3, <3>1 DEF IInv, TypeOK
  <2>3. ASSUME NEW r \in Responses \ {job.turn}, Intact(r)
        PROVE  answers[r] \cap (job.ids \cup Pending(cursor)) = {}
    <3>1. ~Held(cursor, r, answers[r])
      BY <2>1, <2>3 DEF Held
    <3> QED BY <2>1, <2>3, <3>1 DEF AnswerInv, StoreFits, AnswersHeld, Intact
  <2>4. AnswersHeld(cursor, answers')
    <3> SUFFICES ASSUME NEW r \in Responses, answers'[r] \cap cursor.cancelled = {},
                        answers'[r] \cap (cursor.commit.ids \cup Pending(cursor)) # {}
                 PROVE  Held(cursor, r, answers'[r])
      BY DEF AnswersHeld
    <3>1. r = job.turn
      BY <2>1, <2>2, <2>3 DEF Intact
    <3> QED BY <2>1, <2>2, <3>1 DEF Held
  <2>5. StoreFits(cursor, answers, said)'
    BY <1>1, <2>4 DEF AnswerInv, StoreFits
  <2>6. AnsweredOnce'
    <3>1. \A r \in Responses \ {job.turn} : Intact(r)' => Intact(r)
      BY <1>1, <2>2 DEF Intact
    <3>2. \A r \in Responses \ {job.turn} : Intact(r)' => answers'[r] \cap job.ids = {}
      BY <2>2, <2>3, <3>1
    <3> SUFFICES ASSUME NEW q \in Responses, NEW r \in Responses, q # r,
                        Intact(q)', Intact(r)'
                 PROVE  answers'[q] \cap answers'[r] = {}
      BY DEF AnsweredOnce
    <3>3. CASE q = job.turn
      BY <2>2, <3>2, <3>3
    <3>4. CASE r = job.turn
      BY <2>2, <3>2, <3>4
    <3>5. CASE q # job.turn /\ r # job.turn
      BY <2>2, <3>1, <3>5 DEF AnswerInv, AnsweredOnce
    <3> QED BY <3>3, <3>4, <3>5
  <2>7. HandleFits'
    <3>1. pc' \in CommitSteps
      BY <1>3 DEF CommitSteps
    <3> QED BY <1>1, <1>3, <2>1, <2>2, <3>1, CommitHandle
  <2>8. CommitFits'
    BY <1>1, <1>3, <2>1, <2>2 DEF CommitFits
  <2>9. Unmarked' /\ OperationFits' /\ GivingUpFits' /\ RecoveryFits'
    BY <1>3 DEF Unmarked, OperationFits, GivingUpFits, RecoveryFits
  <2> QED BY <2>5, <2>6, <2>7, <2>8, <2>9 DEF AnswerInv
<1> QED BY <1>2, <1>3 DEF LogResponse, Continue

LEMMA PublishKeeps == ASSUME IInv, AnswerInv, IInv', PublishResponse PROVE AnswerInv'
<1>1. /\ cursor' = cursor /\ pc = "publish" /\ pc' = "finalize" /\ job' = job
      /\ UNCHANGED <<said, preparing, answers>> /\ mailbox' = mailbox \cup {job.turn}
      /\ pc \in CommitSteps /\ pc' \in CommitSteps
  BY DEF PublishResponse, Continue, CommitFrame, CommitSteps
<1>2. HandleFits'
  BY <1>1, CommitHandle
<1>3. CommitFits'
  BY <1>1 DEF AnswerInv, CommitFits, Batch
<1>4. Unmarked' /\ OperationFits' /\ GivingUpFits' /\ RecoveryFits'
  BY <1>1 DEF Unmarked, OperationFits, GivingUpFits, RecoveryFits
<1>5. StoreFits(cursor, answers, said)' /\ AnsweredOnce'
  BY <1>1 DEF AnswerInv, AnsweredOnce, Intact
<1> QED BY <1>2, <1>3, <1>4, <1>5 DEF AnswerInv

LEMMA FinalizeKeeps == ASSUME IInv, AnswerInv, IInv', FinalizeCommit PROVE AnswerInv'
<1> DEFINE c == Read(cursor)
           d == Finalize(c, job.ids)
<1>1. c \in Cursor /\ Reaches(c) /\ UNCHANGED <<said, preparing, answers>>
  BY ReachesStart DEF FinalizeCommit, CommitFrame
<1>2. CASE cursor' = c /\ FailCommit
  BY <1>1, <1>2, FailStops
<1>3. ASSUME CanFinalize(c, job.seq, job.ids, job.turn)
      PROVE  Reaches(d) /\ d.commit = NoCommit
  <2> HIDE DEF c
  <2> QED BY <1>1, <1>3, FinalizeEffect, FinalizeMild, ReachesMild DEF CanFinalize
<1>4. CASE /\ CanFinalize(c, job.seq, job.ids, job.turn) /\ pc' = "idle"
           /\ cursor' = Reconcile(d, said, Settled)
  <2>1. Reaches(cursor')
    <3> HIDE DEF c, d
    <3> QED BY <1>3, <1>4, ReachesReconcile
  <2> QED BY <1>1, <1>4, <2>1, RestStep
<1>5. CASE CanFinalize(c, job.seq, job.ids, job.turn) /\ cursor' = d /\ AfterRecovery
  BY <1>1, <1>3, <1>5, RecoveredStops
<1> HIDE DEF c, d
<1> QED BY <1>2, <1>4, <1>5 DEF FinalizeCommit, c, d

----------------------------------------------------------------------------
(* What the user asks, the copy, the handle and the faults.                *)

LEMMA UserKeeps == ASSUME IInv, AnswerInv, IInv', UserNext PROVE AnswerInv'
<1>1. /\ Read(cursor) \in Cursor /\ Reaches(Read(cursor)) /\ cursor' \in Cursor
      /\ UNCHANGED <<said, preparing, answers>>
  BY ReachesStart DEF UserNext, CancelActive, CancelGivenUp, RetryAttachment, RetryAsCopy,
                      ActorFrame, IInv, TypeOK
<1>2. ASSUME NEW i \in Inputs, cursor' \in {Cancel(Read(cursor), i),
                                            CancelAfterTermination(Read(cursor), i)}
      PROVE  Reaches(cursor')
  BY <1>1, <1>2, CancelMild, ReachesMild
<1>3. ASSUME CancelActive PROVE AnswerInv'
  <2>1. job.active \in Inputs
    BY <1>3, RunRead DEF CancelActive
  <2> QED BY <1>1, <1>2, <1>3, <2>1, RestStep DEF CancelActive
<1>4. ASSUME NEW i \in Inputs, CancelGivenUp(i) PROVE AnswerInv'
  BY <1>1, <1>2, <1>4, RestStep DEF CancelGivenUp
<1>5. ASSUME NEW i \in Inputs, RetryAttachment(i) PROVE AnswerInv'
  <2>1. Mild(Read(cursor), cursor', answers)
    BY <1>1, <1>5, AttachmentsSame, SameMild DEF RetryAttachment
  <2> QED BY <1>1, <1>5, <2>1, ReachesMild, RestStep DEF RetryAttachment
<1>6. ASSUME NEW i \in Inputs, RetryAsCopy(i) PROVE AnswerInv'
  BY <1>1, <1>2, <1>6, RestStep DEF RetryAsCopy
<1> QED BY <1>3, <1>4, <1>5, <1>6 DEF UserNext

\* The log grew by a message.
LEMMA OneMore ==
    ASSUME IInv, AnswerInv
    PROVE  /\ StoreFits(cursor, answers, said + 1)
           /\ \A r \in Responses : said + 1 \notin answers[r]
           /\ \A r \in Responses : \A i \in answers[r] : i <= said + 1
           /\ said + 1 \notin cursor.commit.ids
           /\ preparing # 0 => preparing <= said + 1
<1>1. said \in Nat /\ said + 1 > said /\ ~(said + 1 <= said)
  BY DEF IInv, TypeOK
<1>2. \A r \in Responses : answers[r] \subseteq Inputs
  BY DEF IInv, TypeOK
<1>3. cursor.commit.ids \subseteq Inputs /\ Pending(cursor) \subseteq Inputs
  BY DEF IInv, TypeOK, Cursor, ActiveTurnCommit, Pending
<1>4. \A i \in Inputs : i <= said => i <= said + 1
  BY <1>1 DEF Inputs
<1>5. InLog(cursor, said + 1)
  BY <1>3, <1>4 DEF AnswerInv, StoreFits, InLog
<1>6. preparing # 0 => preparing <= said + 1
  BY <1>4 DEF AnswerInv, HandleFits, IInv, TypeOK
<1> QED BY <1>1, <1>2, <1>3, <1>4, <1>5, <1>6 DEF AnswerInv, HandleFits, StoreFits, InLog

LEMMA CopyKeeps == ASSUME IInv, AnswerInv, IInv', SayCopy \/ EnqueueCopy PROVE AnswerInv'
<1>1. ASSUME SayCopy PROVE AnswerInv'
  <2>1. /\ pc' = "copyEnqueue" /\ said' = said + 1 /\ job'.copy = said + 1
        /\ UNCHANGED <<cursor, answers, preparing>>
    BY <1>1 DEF SayCopy, IInv, TypeOK, Job
  <2>2. HandleFits'
    <3>1. preparing # 0 => /\ preparing \notin cursor.commit.ids
                           /\ \A r \in Responses : preparing \notin answers[r]
      BY DEF AnswerInv, HandleFits
    <3>2. ~TurnCommitLocked' /\ pc' \notin CommitSteps
      BY <2>1 DEF TurnCommitLocked, CommitSteps
    <3>3. said + 1 <= said + 1
      BY DEF IInv, TypeOK
    <3> QED BY <2>1, <3>1, <3>2, <3>3, OneMore DEF HandleFits
  <2>3. /\ Unmarked' /\ OperationFits' /\ GivingUpFits' /\ CommitFits' /\ RecoveryFits'
    BY <2>1 DEF Unmarked, OperationFits, GivingUpFits, CommitFits, RecoveryFits
  <2>4. StoreFits(cursor, answers, said)' /\ AnsweredOnce'
    BY <2>1, OneMore DEF AnswerInv, AnsweredOnce, Intact
  <2> QED BY <2>2, <2>3, <2>4 DEF AnswerInv
<1>2. ASSUME EnqueueCopy PROVE AnswerInv'
  <2> DEFINE c == Read(cursor)
  <2>1. /\ pc = "copyEnqueue" /\ pc' = "idle" /\ UNCHANGED <<said, answers, preparing>>
        /\ c \in Cursor /\ Reaches(c) /\ cursor' \in Cursor
    BY <1>2, ReachesStart DEF EnqueueCopy, ActorFrame, IInv, TypeOK
  <2>2. CASE cursor' = c
    BY <2>1, <2>2, RestStep
  <2>3. CASE cursor' = Enqueue(c, job.copy) /\ job.copy \notin Pending(c)
    <3>1. /\ job.copy \in Inputs /\ job.copy <= said
          /\ \A r \in Responses : job.copy \notin answers[r]
      BY <2>1 DEF AnswerInv, HandleFits, IInv, TypeOK, OperationKnown, Job
    <3>2. Grows(c, cursor', {job.copy})
      <4> HIDE DEF c
      <4> QED BY <2>1, <2>3, <3>1, EnqueueGrows
    <3>3. StoreFits(cursor', answers, said)
      <4> HIDE DEF c
      <4> QED BY <2>1, <3>1, <3>2, GrowsStore DEF Reaches
    <3>4. Reaches(cursor')
      BY <2>1, <3>2, <3>3 DEF Reaches, Grows
    <3> QED BY <2>1, <3>4, RestStep
  <2> HIDE DEF c
  <2> QED BY <1>2, <2>2, <2>3 DEF EnqueueCopy, c
<1> QED BY <1>1, <1>2

LEMMA SayKeeps == ASSUME IInv, AnswerInv, NEW image \in BOOLEAN, Say(image) PROVE AnswerInv'
<1>1. /\ said' = said + 1 /\ preparing = 0 /\ preparing' = said + 1 /\ ~TurnCommitLocked
      /\ UNCHANGED <<cursor, answers, pc, job, failures, mailbox>>
  BY DEF Say
<1>2. HandleFits'
  <2>1. pc \in CommitSteps => said + 1 \notin job.ids
    BY OneMore DEF CommitSteps, AnswerInv, CommitFits, Marker
  <2>2. said + 1 <= said + 1
    BY DEF IInv, TypeOK
  <2>3. ~TurnCommitLocked'
    BY <1>1 DEF TurnCommitLocked
  <2>4. pc = "copyEnqueue" => job.copy <= said + 1
    <3>1. pc = "copyEnqueue" => job.copy <= said /\ job.copy \in Int /\ said \in Int
      BY DEF AnswerInv, HandleFits, IInv, TypeOK, Job, Inputs
    <3> QED BY <3>1
  <2> QED BY <1>1, <2>1, <2>2, <2>3, <2>4, OneMore DEF AnswerInv, HandleFits
<1>3. Unmarked' /\ OperationFits' /\ GivingUpFits' /\ CommitFits' /\ RecoveryFits'
  BY <1>1 DEF AnswerInv, Unmarked, OperationFits, GivingUpFits, CommitFits, RecoveryFits,
              Intact, Batch
<1>4. StoreFits(cursor, answers, said)' /\ AnsweredOnce'
  BY <1>1, OneMore DEF AnswerInv, AnsweredOnce, Intact
<1> QED BY <1>2, <1>3, <1>4 DEF AnswerInv

\* A marker whose batch waits for its removal alone is valid.
LEMMA BatchIsValid ==
    ASSUME NEW c, NEW S, NEW r, r # 0, Batch(c, S, r), c.commit.phase = "persisting",
           c.commit.ids = S
    PROVE  ValidCommit(c)
BY DEF Batch, ValidCommit, SamePreparation

\* The message the handle says comes into the queue at any step of the actor:
\* between the steps of a commit only of one that a recovery finishes.
LEMMA EnqueueSaidKeeps == ASSUME IInv, AnswerInv, IInv', EnqueueSaid PROVE AnswerInv'
<1> DEFINE c == Read(cursor)
           N == {preparing}
<1>1. /\ preparing # 0 /\ preparing' = 0 /\ UNCHANGED <<said, answers, pc, job, failures, mailbox>>
      /\ cursor \in Cursor /\ cursor' \in Cursor /\ c \in Cursor
      /\ Reaches(cursor) /\ Reaches(c)
  BY ReachesStart DEF EnqueueSaid, IInv, TypeOK
<1>2. /\ preparing \in Inputs /\ preparing <= said /\ preparing \notin cursor.commit.ids
      /\ \A r \in Responses : preparing \notin answers[r]
      /\ ~TurnCommitLocked /\ (pc \in CommitSteps => preparing \notin job.ids)
  BY <1>1 DEF AnswerInv, HandleFits, IInv, TypeOK
<1>3. \/ cursor' = cursor
      \/ cursor' = c
      \/ cursor' = Enqueue(c, preparing) /\ preparing \notin Pending(c)
  BY DEF EnqueueSaid
<1>4. cursor' = c \/ Grows(c, cursor', {preparing}) \/ cursor' = cursor
  <2> HIDE DEF c
  <2> QED BY <1>1, <1>2, <1>3, EnqueueGrows
<1>5. Reaches(cursor')
  <2>1. CASE Grows(c, cursor', {preparing})
    <3>1. StoreFits(cursor', answers, said)
      <4> HIDE DEF c
      <4> QED BY <1>1, <1>2, <2>1, GrowsStore DEF Reaches
    <3> QED BY <1>1, <2>1, <3>1 DEF Reaches, Grows
  <2> QED BY <1>1, <1>4, <2>1
<1>6. /\ StoreFits(cursor, answers, said)' /\ AnsweredOnce'
      /\ \A r \in Responses : Intact(r)' => Intact(r)
  BY <1>1, <1>5, ReachesOnce
<1>7. HandleFits'
  BY <1>1 DEF AnswerInv, HandleFits
<1>8. Unmarked'
  BY <1>1, <1>5 DEF AnswerInv, Unmarked, Reaches
<1>9. GivingUpFits'
  BY <1>1, <1>6 DEF AnswerInv, GivingUpFits
<1>10. \A i \in Inputs : cursor'.inputs[i].prepared \in {0, cursor.inputs[i].prepared}
  <2>1. \A i \in Inputs : c.inputs[i].prepared \in {0, cursor.inputs[i].prepared}
    BY <1>1, ReadMild DEF Mild, Tame
  <2> HIDE DEF c
  <2> QED BY <1>4, <2>1 DEF Grows
<1>11. OperationFits'
  <2>1. pc \in {"begin", "run", "mark"} => job.active \in Inputs
    BY DEF AnswerInv, OperationFits, IInv, TypeOK, Job
  <2> QED BY <1>1, <1>10, <2>1 DEF AnswerInv, OperationFits
<1>12. CommitFits'
  <2>1. CASE pc \notin CommitSteps
    BY <1>1, <2>1 DEF CommitFits, CommitSteps
  <2>2. CASE pc \in CommitSteps
    <3>1. pc \in {"respond", "log", "publish", "finalize"} /\ job.turn # 0
      BY <1>2, <2>2 DEF TurnCommitLocked, CommitSteps, AnswerInv, OperationFits,
                        IInv, OperationKnown
    <3>2. cursor.commit = Marker(job) /\ cursor.commit.ids = job.ids /\ cursor.commit.phase = "persisting"
      BY <3>1 DEF AnswerInv, CommitFits, Marker
    <3>3. ValidCommit(cursor) /\ job.ids \subseteq Pending(cursor)
      <4>1. CASE pc = "respond"
        BY <4>1 DEF AnswerInv, CommitFits
      <4>2. CASE pc # "respond"
        <5>1. Batch(cursor, job.ids, job.turn)
          BY <3>1, <4>2 DEF AnswerInv, CommitFits
        <5> QED BY <3>1, <3>2, <5>1, BatchIsValid DEF Batch
      <4> QED BY <4>1, <4>2
    <3>4. c = cursor
      BY <3>3 DEF Read
    <3>5. /\ cursor'.commit = cursor.commit
          /\ cursor'.lease = cursor.lease /\ cursor'.leaseSeq = cursor.leaseSeq
          /\ \A i \in job.ids : cursor'.inputs[i] = cursor.inputs[i]
      <4>1. job.ids \subseteq Inputs \ {preparing}
        BY <1>2, <3>2, <3>3 DEF Pending
      <4> QED BY <1>4, <3>4, <4>1 DEF Grows
    <3>6. job.ids \subseteq Pending(cursor')
      BY <3>3, <3>5 DEF Pending
    <3>7. ValidCommit(cursor')
      BY <3>2, <3>3, <3>5, <3>6 DEF ValidCommit, SamePreparation, NoCommit
    <3>8. Batch(cursor, job.ids, job.turn) => Batch(cursor', job.ids, job.turn)
      BY <3>5, <3>6 DEF Batch
    <3> QED BY <1>1, <3>1, <3>2, <3>5, <3>6, <3>7, <3>8 DEF AnswerInv, CommitFits
  <2> QED BY <2>1, <2>2
<1>13. RecoveryFits'
  <2> SUFFICES ASSUME pc \in {"reconcile", "recover"}
               PROVE  /\ job.origin \in {"boot", "start"}
                      /\ \/ cursor'.commit = Marker(job)
                         \/ /\ cursor'.commit = NoCommit
                            /\ \A i \in job.ids : cursor'.inputs[i].prepared = 0
    BY <1>1 DEF RecoveryFits, Marker
  <2>1. /\ job.origin \in {"boot", "start"}
        /\ \/ c.commit = Marker(job)
           \/ c.commit = NoCommit /\ \A i \in job.ids : c.inputs[i].prepared = 0
    BY ReadOfRecovery DEF AnswerInv
  <2>2. job.ids \subseteq Inputs
    BY DEF IInv, TypeOK, Job
  <2>3. CASE cursor' = cursor
    BY <2>3 DEF AnswerInv, RecoveryFits
  <2> HIDE DEF c
  <2> QED BY <1>4, <2>1, <2>2, <2>3 DEF Grows
<1> QED BY <1>6, <1>7, <1>8, <1>9, <1>11, <1>12, <1>13 DEF AnswerInv

LEMMA FaultKeeps == ASSUME IInv, AnswerInv, IInv', FaultNext PROVE AnswerInv'
<1>1. Read(cursor) \in Cursor /\ Reaches(Read(cursor)) /\ Reaches(cursor)
  BY ReachesStart
<1>2. ASSUME Crash PROVE AnswerInv'
  <2>1. pc' = "boot" /\ preparing' = 0 /\ UNCHANGED <<cursor, said, answers>>
    BY <1>2 DEF Crash, durable
  <2>2. HandleFits'
    BY <2>1 DEF AnswerInv, HandleFits
  <2>3. /\ Unmarked' /\ OperationFits' /\ GivingUpFits' /\ CommitFits' /\ RecoveryFits'
    BY <2>1 DEF Unmarked, OperationFits, GivingUpFits, CommitFits, RecoveryFits
  <2> QED BY <1>1, <2>1, <2>2, <2>3, ReachesOnce DEF AnswerInv
<1>3. ASSUME Interrupt PROVE AnswerInv'
  BY <1>1, <1>3, RestStep DEF Interrupt, durable
<1>4. ASSUME CommitStepFails PROVE AnswerInv'
  <2>1. Reaches(cursor')
    BY <1>1, <1>4, PrepareRecoveryTyped, PrepareRecoveryMild, ReachesMild DEF CommitStepFails
  <2> QED BY <1>4, <2>1, FailStops DEF CommitStepFails
<1>5. ASSUME StartStepFails PROVE AnswerInv'
  BY <1>1, <1>5, RestStep DEF StartStepFails, durable
<1> QED BY <1>2, <1>3, <1>4, <1>5 DEF FaultNext

----------------------------------------------------------------------------

LEMMA InitAnswers == Init => AnswerInv
<1> SUFFICES ASSUME Init PROVE AnswerInv
  OBVIOUS
<1>1. /\ cursor.commit = NoCommit /\ Pending(cursor) = {} /\ NoCommit.ids = {}
      /\ \A r \in Responses : answers[r] = {}
  BY DEF Init, DefaultCursor, Pending, Absent, NoCommit
<1>2. StoreFits(cursor, answers, said)
  BY <1>1 DEF StoreFits, AnswersHeld, MarkerFits, InLog, NoCommit
<1>3. AnsweredOnce /\ HandleFits
  BY <1>1 DEF Init, AnsweredOnce, HandleFits
<1>4. Unmarked /\ OperationFits /\ GivingUpFits /\ CommitFits /\ RecoveryFits
  BY DEF Init, Unmarked, OperationFits, GivingUpFits, CommitFits, RecoveryFits
<1> QED BY <1>2, <1>3, <1>4 DEF AnswerInv

LEMMA AnswersStep == IInv /\ AnswerInv /\ [Next]_vars => AnswerInv'
<1> SUFFICES ASSUME IInv, AnswerInv, [Next]_vars PROVE AnswerInv'
  OBVIOUS
<1>1. IInv'
  BY StepTyped
<1>2. CASE HandleNext
  BY <1>1, <1>2, SayKeeps, EnqueueSaidKeeps DEF HandleNext
<1>3. CASE ActorNext
  <2>1. CASE CommitNext
    BY <1>1, <2>1, MarkKeeps, PrepareKeeps, StartKeeps, LogKeeps, PublishKeeps, FinalizeKeeps
       DEF CommitNext
  <2> QED BY <1>1, <1>3, <2>1, BootKeeps, BootReconcileKeeps, StartTurnKeeps, RecoverKeeps,
             SettleKeeps, RemoveExhaustedKeeps, TakeLeaseKeeps, BeginKeeps,
             AcceptCommandKeeps, AppendRestartsKeeps, AppendSendsKeeps, CollectKeeps,
             ReserveKeeps, CopyKeeps DEF ActorNext
<1>4. CASE TaskNext
  BY <1>1, <1>4, TaskKeeps
<1>5. CASE UserNext
  BY <1>1, <1>5, UserKeeps
<1>6. CASE FaultNext
  BY <1>1, <1>6, FaultKeeps
<1>7. CASE UNCHANGED vars
  BY <1>7 DEF vars, AnswerInv, StoreFits, AnsweredOnce, HandleFits, Unmarked, OperationFits,
              GivingUpFits, CommitFits, RecoveryFits, AnswersHeld, MarkerFits, InLog, Held,
              Batch, Pending, Intact, TurnCommitLocked, Marker, ValidCommit, SamePreparation
<1> QED BY <1>2, <1>3, <1>4, <1>5, <1>6, <1>7 DEF Next

\* What the properties say of one state.
LEMMA AnswersSafe ==
    ASSUME IInv, AnswerInv
    PROVE  AnsweredOnce /\ AnsweredKeepsPreparation /\ QuarantineLosesNoAnswer
<1>1. ASSUME NEW r \in Responses, Intact(r),
             answers[r] \cap (cursor.commit.ids \cup Pending(cursor)) # {}
      PROVE  Held(cursor, r, answers[r]) /\ ValidCommit(cursor)
  BY <1>1, HeldIsValid DEF AnswerInv, StoreFits, AnswersHeld, Intact, IInv, TypeOK
<1>2. AnsweredKeepsPreparation
  BY <1>1 DEF AnsweredKeepsPreparation, Held, Batch
<1>3. ~ValidCommit(cursor) => cursor.commit.turn # 0
  BY DEF AnswerInv, StoreFits, MarkerFits, ValidCommit
<1> QED BY <1>1, <1>2, <1>3 DEF AnswerInv, QuarantineLosesNoAnswer

\* No message is answered by two responses, for any number of messages,
\* operations, attempts and faults and in every mode, whatever crashed between
\* the log, the mailbox and cursor.json: the dispatch, the commit and the three
\* ways of recovering one agree on what is left to do. Only an answer that was
\* logged and then lost a message to a retry is not covered.
THEOREM AnswersAreSingle == Spec => []AnsweredOnce
<1> QED BY InitTyped, StepTyped, InitAnswers, AnswersStep, AnswersSafe, PTL DEF Spec

\* A message that waits in the queue with its answer in the log already keeps
\* that answer prepared, so that the interrupted commit ends with it.
THEOREM AnswersStayPrepared == Spec => []AnsweredKeepsPreparation
<1> QED BY InitTyped, StepTyped, InitAnswers, AnswersStep, AnswersSafe, PTL DEF Spec

\* A read never quarantines the marker of an answer that is in the log.
THEOREM QuarantineIsHarmless == Spec => []QuarantineLosesNoAnswer
<1> QED BY InitTyped, StepTyped, InitAnswers, AnswersStep, AnswersSafe, PTL DEF Spec

----------------------------------------------------------------------------
(* What leaves the queue. Three updates take messages out: the end of a    *)
(* commit, which takes the batch of an answer that is in the log and in    *)
(* the mailbox (CommitFits), giving up, which takes what the log says was  *)
(* given up (GivingUpFits), and a withdrawal.                              *)

Explained ==
    \A i \in Pending(cursor) \ Pending(cursor') :
        \/ \E r \in mailbox : i \in answers[r]
        \/ i \in failures
        \/ i \in cursor'.cancelled

Stays(c, d) == Pending(c) \subseteq Pending(d)

LEMMA StaysExplained == ASSUME Stays(cursor, cursor') PROVE Explained
BY DEF Stays, Explained

LEMMA SameStays == ASSUME NEW c, NEW d, Same(c, d) PROVE Stays(c, d)
BY DEF Same, Stays, Pending

LEMMA GrowsStays == ASSUME NEW c, NEW d, NEW N, Grows(c, d, N) PROVE Stays(c, d)
BY DEF Grows, Stays, Pending

\* What is read, reconciled and recovered stays.
LEMMA RecoveryStays ==
    ASSUME NEW c \in Cursor
    PROVE  /\ Stays(c, c) /\ Stays(c, Read(c)) /\ Stays(c, PrepareRecovery(c))
           /\ \A n, settled : Stays(c, Reconcile(c, n, settled))
           /\ \A k : Stays(c, ReleaseRecovery(c, k))
<1>1. Stays(c, c) /\ Stays(c, Read(c))
  BY ReadKeepsLease DEF Stays
<1>2. Stays(c, PrepareRecovery(c))
  BY DEF Stays, Pending, PrepareRecovery, DropMatchingLease, DropLease, Cursor
<1>3. ASSUME NEW n, NEW settled PROVE Stays(c, Reconcile(c, n, settled))
  BY ReconcileGrows, GrowsStays
<1>4. ASSUME NEW k PROVE Stays(c, ReleaseRecovery(c, k))
  <2> DEFINE b == DropMatchingLease(c, k.seq)
  <2>1. b \in Cursor /\ b.inputs = c.inputs
    BY DropLeaseTyped DEF DropMatchingLease, DropLease, Cursor
  <2>2. \A i \in Inputs : [DiscardPreparation(b, k.ids) EXCEPT !.commit = NoCommit].inputs[i].seq
                              = b.inputs[i].seq
    <3> HIDE DEF b
    <3> QED BY <2>1, SlotTyped DEF DiscardPreparation, Cursor, PendingInput
  <2> QED BY <1>1, <2>1, <2>2 DEF Stays, Pending, ReleaseRecovery
<1> QED BY <1>1, <1>2, <1>3, <1>4

\* What a commit writes to the cursor before it ends takes nothing out.
LEMMA CommitStays ==
    ASSUME NEW c \in Cursor, NEW S, NEW t, NEW n
    PROVE  /\ Stays(c, Reserve(c, n, S, t)) /\ Stays(c, MarkPersisting(c))
           /\ Stays(c, Prepare(c, S, t)) /\ Stays(c, Start(c, S))
<1>1. Stays(c, Reserve(c, n, S, t)) /\ Stays(c, MarkPersisting(c))
  BY DEF Stays, Pending, Reserve, MarkPersisting, Cursor
<1>2. Stays(c, Prepare(c, S, t)) /\ Stays(c, Start(c, S))
  BY SlotTyped DEF Stays, Pending, Prepare, Start, Cursor, PendingInput
<1> QED BY <1>1, <1>2

LEMMA StaysTransitive ==
    ASSUME NEW c, NEW d, NEW e, Stays(c, d), Stays(d, e) PROVE Stays(c, e)
BY DEF Stays

\* The cursor as a step reads it, reconciled or not.
LEMMA StepReads ==
    ASSUME IInv
    PROVE  LET b == Read(cursor)
               c == Reconcile(b, said, Settled)
           IN  /\ cursor \in Cursor /\ b \in Cursor /\ c \in Cursor
               /\ Stays(cursor, cursor) /\ Stays(cursor, b) /\ Stays(cursor, c)
<1>1. cursor \in Cursor /\ Read(cursor) \in Cursor
  BY CursorRead DEF IInv, TypeOK
<1>2. Reconcile(Read(cursor), said, Settled) \in Cursor
  BY <1>1, ReconcileTyped
<1> QED BY <1>1, <1>2, RecoveryStays, StaysTransitive

LEMMA StartExplained ==
    ASSUME IInv, HandleNext \/ Boot \/ BootReconcile \/ StartTurn PROVE Explained
<1> DEFINE b == Read(cursor)
           c == Reconcile(b, said, Settled)
<1>1. /\ cursor \in Cursor /\ b \in Cursor /\ c \in Cursor
      /\ Stays(cursor, cursor) /\ Stays(cursor, b) /\ Stays(cursor, c)
  BY StepReads
<1>2. ASSUME HandleNext PROVE Stays(cursor, cursor')
  <2>1. CASE \E image \in BOOLEAN : Say(image)
    BY <1>1, <2>1 DEF Say
  <2>2. CASE EnqueueSaid
    <3>1. preparing \in Inputs
      BY <2>2 DEF EnqueueSaid, IInv, TypeOK
    <3>2. preparing \notin Pending(b) => Stays(b, Enqueue(b, preparing))
      <4> HIDE DEF b
      <4> QED BY <1>1, <3>1, EnqueueGrows, GrowsStays
    <3>3. cursor' \in {cursor, b} \/ (preparing \notin Pending(b) /\ cursor' = Enqueue(b, preparing))
      BY <2>2 DEF EnqueueSaid
    <3> HIDE DEF b
    <3> QED BY <1>1, <3>2, <3>3, StaysTransitive
  <2> QED BY <1>2, <2>1, <2>2 DEF HandleNext
<1>3. Stays(b, PrepareRecovery(b)) /\ Stays(c, PrepareRecovery(c))
  <2> HIDE DEF b, c
  <2> QED BY <1>1, RecoveryStays
<1>4. CASE Boot \/ BootReconcile \/ StartTurn
  <2>1. cursor' \in {PrepareRecovery(b), c, PrepareRecovery(c)}
    BY <1>4 DEF Boot, BootReconcile, StartTurn
  <2> HIDE DEF b, c
  <2>2. Stays(cursor, cursor')
    BY <1>1, <1>3, <2>1, StaysTransitive
  <2> QED BY <2>2, StaysExplained
<1> QED BY <1>2, <1>4, StaysExplained

\* The end of a recovered commit takes out what is gone already.
LEMMA RecoverExplained == ASSUME IInv, Recover PROVE Explained
<1> DEFINE c == Read(cursor)
           held == [phase |-> "persisting", ids |-> job.ids,
                    seq |-> job.seq, turn |-> job.turn]
<1>1. c \in Cursor /\ Stays(cursor, c)
  BY StepReads
<1>2. \/ cursor' = c
      \/ cursor' = ReleaseRecovery(c, held)
      \/ cursor' = Finalize(c, job.ids) /\ job.ids \cap Pending(c) = {}
  BY DEF Recover
<1> HIDE DEF c, held
<1>3. Stays(c, ReleaseRecovery(c, held))
  BY <1>1, RecoveryStays
<1>4. job.ids \cap Pending(c) = {} => Stays(c, Finalize(c, job.ids))
  BY <1>1, FinalizeEffect DEF Stays, Pending
<1>5. Stays(cursor, cursor')
  BY <1>1, <1>2, <1>3, <1>4, StaysTransitive
<1> QED BY <1>5, StaysExplained

LEMMA SettleExplained ==
    ASSUME IInv, AnswerInv, Settle \/ RemoveExhausted \/ TakeLease \/ BeginOperation
    PROVE  Explained
<1> DEFINE b == Read(cursor)
           c == Reconcile(b, said, Settled)
<1>1. /\ b \in Cursor /\ c \in Cursor
      /\ Stays(cursor, b) /\ Stays(cursor, c)
  BY StepReads
<1>2. CASE RemoveExhausted
  <2>1. job.due \subseteq failures /\ cursor' = RemoveSettled(b, job.due)
    BY <1>2 DEF RemoveExhausted, AnswerInv, GivingUpFits
  <2>2. Pending(b) \ Pending(cursor') \subseteq job.due
    <3> DEFINE d == Remove(b, job.due)
    <3>1. d \in Cursor /\ \A i \in Inputs : i \notin job.due => d.inputs[i] = b.inputs[i]
      <4> HIDE DEF b
      <4> QED BY <1>1, RemoveTyped, RemoveEffect
    <3>2. cursor'.inputs = d.inputs
      <4>1. cursor' = ForgetCommitOf(d, job.due)
        BY <2>1 DEF RemoveSettled
      <4> HIDE DEF b, d
      <4> QED BY <3>1, <4>1 DEF ForgetCommitOf, Cursor
    <3> HIDE DEF b, d
    <3> QED BY <3>1, <3>2 DEF Pending
  <2> HIDE DEF b
  <2> QED BY <1>1, <2>1, <2>2 DEF Stays, Explained
<1>3. CASE Settle
  BY <1>1, <1>3, StaysExplained DEF Settle
<1>4. CASE BeginOperation
  <2>1. cursor' \in {b, Begin(b, job.ids)}
    BY <1>4 DEF BeginOperation
  <2>2. Stays(b, Begin(b, job.ids))
    <3>1. 1 \in Inputs
      BY BoundsAssumption DEF Inputs
    <3> HIDE DEF b
    <3> QED BY <1>1, <3>1, AttemptsSame, SameStays
  <2> HIDE DEF b
  <2> QED BY <1>1, <2>1, <2>2, StaysTransitive, StaysExplained
<1>5. CASE TakeLease
  <2>1. cursor' = c \/ \E S, T : cursor' = Extend(Lease(c, S), T)
    BY <1>5 DEF TakeLease
  <2> HIDE DEF c
  <2>2. \A S, T : Stays(c, Extend(Lease(c, S), T))
    BY <1>1, LeaseSame, SameStays
  <2> QED BY <1>1, <2>1, <2>2, StaysTransitive, StaysExplained
<1> QED BY <1>2, <1>3, <1>4, <1>5

LEMMA TaskExplained == ASSUME IInv, TaskNext PROVE Explained
<1> DEFINE b == Read(cursor)
           c == Reconcile(b, said, Settled)
<1>1. /\ b \in Cursor /\ Stays(cursor, cursor) /\ Stays(cursor, b) /\ Stays(cursor, c)
      /\ 1 \in Inputs
  BY StepReads, BoundsAssumption DEF Inputs
<1>2. cursor' \in {cursor, b, c, CompleteAttachments(b, job.ids),
                   ReleaseAttempts(b, job.ids, job.before)}
  <2>1. CASE PrepareCall
    BY <2>1 DEF PrepareCall
  <2>2. CASE Answer
    BY <2>2 DEF Answer
  <2>3. CASE DispatchSuperseded
    BY <2>3 DEF DispatchSuperseded
  <2>4. ASSUME ~(PrepareCall \/ Answer \/ DispatchSuperseded) PROVE cursor' = cursor
    BY <2>4 DEF TaskNext, ReadingFails, AcceptMidTurn, CallFails
  <2> QED BY <2>1, <2>2, <2>3, <2>4
<1> HIDE DEF b, c
<1>3. Stays(b, CompleteAttachments(b, job.ids))
  BY <1>1, AttachmentsSame, SameStays
<1>4. Stays(b, ReleaseAttempts(b, job.ids, job.before))
  BY <1>1, FailuresSame, SameStays
<1> QED BY <1>1, <1>2, <1>3, <1>4, StaysTransitive, StaysExplained

LEMMA CommandExplained ==
    ASSUME IInv, AcceptCommand \/ AppendRestarts \/ AppendSends PROVE Explained
<1> DEFINE b == Read(cursor)
           c == Reconcile(b, said, Settled)
<1>1. /\ cursor \in Cursor /\ b \in Cursor /\ c \in Cursor
      /\ Stays(cursor, cursor) /\ Stays(cursor, b) /\ Stays(cursor, c) /\ 1 \in Inputs
  BY StepReads, BoundsAssumption DEF Inputs
<1>2. CASE AcceptCommand
  <2>1. \E d \in {cursor, c} : cursor' = d \/ \E S : cursor' = Extend(d, S)
    BY <1>2 DEF AcceptCommand
  <2> HIDE DEF b, c
  <2>2. \A d \in {cursor, c} : \A S : Stays(d, Extend(d, S))
    BY <1>1, LeaseSame, SameStays
  <2> QED BY <1>1, <2>1, <2>2, StaysTransitive, StaysExplained
<1>3. CASE AppendRestarts
  <2>1. cursor' \in {b, RequestRestart(b, job.ids)}
    BY <1>3 DEF AppendRestarts
  <2> HIDE DEF b
  <2>2. Stays(b, RequestRestart(b, job.ids))
    BY <1>1, AttemptsSame, SameStays
  <2> QED BY <1>1, <2>1, <2>2, StaysTransitive, StaysExplained
<1>4. CASE AppendSends
  <2>1. cursor' = b \/ \E i \in Inputs : cursor' = [b EXCEPT !.inputs =
                                [b.inputs EXCEPT ![i] = BeginAttempt(b.inputs[i])]]
    BY <1>4 DEF AppendSends, Pending
  <2> HIDE DEF b
  <2>2. \A i \in Inputs : Stays(b, [b EXCEPT !.inputs =
                                [b.inputs EXCEPT ![i] = BeginAttempt(b.inputs[i])]])
    BY <1>1, AttemptsSame, SameStays
  <2> QED BY <1>1, <2>1, <2>2, StaysTransitive, StaysExplained
<1> QED BY <1>2, <1>3, <1>4

LEMMA CollectExplained ==
    ASSUME IInv, CollectRestart \/ CollectFailure \/ CollectUnread \/ ReserveCommit
    PROVE  Explained
<1> DEFINE b == Read(cursor)
<1>1. /\ b \in Cursor /\ Stays(cursor, cursor) /\ Stays(cursor, b)
  BY StepReads
<1>2. \/ cursor' \in {cursor, b}
      \/ \E stop : cursor' = RecordFailure(b, job.active, stop)
      \/ \E state : \E i \in Inputs : cursor' = RecordAttachmentFailure(b, i, state)
      \/ cursor' = Reserve(b, job.seq, job.ids, job.turn)
  <2>1. CASE CollectRestart
    BY <2>1 DEF CollectRestart
  <2>2. CASE CollectFailure
    BY <2>2 DEF CollectFailure
  <2>3. CASE CollectUnread
    BY <2>3 DEF CollectUnread, Pending
  <2>4. CASE ReserveCommit
    BY <2>4 DEF ReserveCommit
  <2> QED BY <2>1, <2>2, <2>3, <2>4
<1> HIDE DEF b
<1>3. \A stop : Stays(b, RecordFailure(b, job.active, stop))
  BY <1>1, FailuresSame, SameStays
<1>4. \A state : \A i \in Inputs : Stays(b, RecordAttachmentFailure(b, i, state))
  BY <1>1, FailuresSame, SameStays
<1>5. Stays(b, Reserve(b, job.seq, job.ids, job.turn))
  BY <1>1, CommitStays
<1> QED BY <1>1, <1>2, <1>3, <1>4, <1>5, StaysTransitive, StaysExplained

LEMMA CommitExplained == ASSUME IInv, AnswerInv, CommitNext PROVE Explained
<1> DEFINE b == Read(cursor)
<1>1. /\ b \in Cursor /\ Stays(cursor, cursor) /\ Stays(cursor, b)
  BY StepReads
<1>2. CASE FinalizeCommit
  <2> DEFINE d == Finalize(b, job.ids)
  <2>1. /\ answers[job.turn] = job.ids /\ job.turn \in mailbox
    BY <1>2 DEF FinalizeCommit, AnswerInv, CommitFits
  <2>2. d \in Cursor /\ Pending(b) \ Pending(d) \subseteq job.ids
    <3> HIDE DEF b
    <3> QED BY <1>1, FinalizeEffect DEF Pending
  <2>3. cursor' \in {b, d, Reconcile(d, said, Settled)}
    BY <1>2 DEF FinalizeCommit
  <2> HIDE DEF b, d
  <2>4. Stays(d, Reconcile(d, said, Settled))
    BY <2>2, RecoveryStays
  <2>5. Pending(cursor) \ Pending(cursor') \subseteq job.ids
    BY <1>1, <2>2, <2>3, <2>4 DEF Stays
  <2> QED BY <2>1, <2>5 DEF Explained
<1>3. CASE MarkCommit \/ PrepareResponse \/ StartResponse \/ LogResponse \/ PublishResponse
  <2>1. cursor' \in {cursor, b, PrepareRecovery(b), MarkPersisting(b),
                     Prepare(b, job.ids, job.turn), Start(b, job.ids)}
    BY <1>3 DEF MarkCommit, PrepareResponse, StartResponse, LogResponse, PublishResponse
  <2> HIDE DEF b
  <2>2. \A d \in {b, PrepareRecovery(b), MarkPersisting(b), Prepare(b, job.ids, job.turn),
                  Start(b, job.ids)} : Stays(b, d)
    BY <1>1, RecoveryStays, CommitStays
  <2> QED BY <1>1, <2>1, <2>2, StaysTransitive, StaysExplained
<1> QED BY <1>2, <1>3 DEF CommitNext

\* A withdrawal is written down, or it is refused.
LEMMA CancelWritten ==
    ASSUME NEW c \in Cursor, NEW i \in Inputs,
           NEW d, d \in {Cancel(c, i), CancelAfterTermination(c, i)}
    PROVE  Pending(c) \ Pending(d) \subseteq d.cancelled
<1> DEFINE e == Remove(c, {i})
           f == [e EXCEPT !.cancelled = c.cancelled \cup {i}]
           g == ForgetCommitOf(f, {i})
<1>1. e \in Cursor /\ \A j \in Inputs : j # i => e.inputs[j] = c.inputs[j]
  BY RemoveTyped, RemoveEffect
<1>2. f.inputs = e.inputs /\ f.cancelled = c.cancelled \cup {i} /\ f \in Cursor
  <2> HIDE DEF e
  <2> QED BY <1>1 DEF Cursor
<1>3. g.inputs = f.inputs /\ g.cancelled = f.cancelled
  <2> HIDE DEF f
  <2> QED BY <1>2 DEF ForgetCommitOf, Cursor
<1>4. d \in {c, f, g}
  BY DEF Cancel, CancelAfterTermination
<1> HIDE DEF e, f, g
<1> QED BY <1>1, <1>2, <1>3, <1>4 DEF Pending

LEMMA UserExplained == ASSUME IInv, UserNext PROVE Explained
<1> DEFINE b == Read(cursor)
<1>1. b \in Cursor /\ Stays(cursor, b)
  BY StepReads
<1>2. \E i \in Inputs : cursor' \in {Cancel(b, i), CancelAfterTermination(b, i), RetryInPlace(b, i)}
  <2>1. CASE CancelActive
    <3>1. job.active \in Inputs
      BY <2>1 DEF CancelActive, IInv, OperationKnown, TypeOK, Job
    <3> QED BY <2>1, <3>1 DEF CancelActive
  <2>2. CASE ~CancelActive
    BY <2>2 DEF UserNext, CancelGivenUp, RetryAttachment, RetryAsCopy
  <2> QED BY <2>1, <2>2
<1> HIDE DEF b
<1>3. PICK i \in Inputs : cursor' \in {Cancel(b, i), CancelAfterTermination(b, i), RetryInPlace(b, i)}
  BY <1>2
<1>4. Stays(b, RetryInPlace(b, i))
  BY <1>1, AttachmentsSame, SameStays
<1>5. CASE cursor' = RetryInPlace(b, i)
  BY <1>1, <1>4, <1>5, StaysTransitive, StaysExplained
<1>6. CASE cursor' \in {Cancel(b, i), CancelAfterTermination(b, i)}
  <2>1. Pending(b) \ Pending(cursor') \subseteq cursor'.cancelled
    BY <1>1, <1>6, CancelWritten
  <2> QED BY <1>1, <2>1 DEF Stays, Explained
<1> QED BY <1>3, <1>5, <1>6

LEMMA FaultExplained ==
    ASSUME IInv, SayCopy \/ EnqueueCopy \/ FaultNext PROVE Explained
<1> DEFINE b == Read(cursor)
<1>1. b \in Cursor /\ Stays(cursor, cursor) /\ Stays(cursor, b)
  BY StepReads
<1>2. \/ cursor' \in {cursor, b, PrepareRecovery(b)}
      \/ \E i \in Inputs \ Pending(b) : cursor' = Enqueue(b, i)
  <2>1. CASE SayCopy
    BY <2>1 DEF SayCopy
  <2>2. CASE EnqueueCopy
    <3>1. job.copy \in Inputs
      BY <2>2 DEF EnqueueCopy, IInv, OperationKnown, TypeOK, Job
    <3> QED BY <2>2, <3>1 DEF EnqueueCopy
  <2>3. CASE FaultNext
    BY <2>3 DEF FaultNext, Crash, Interrupt, CommitStepFails, StartStepFails, durable
  <2> QED BY <2>1, <2>2, <2>3
<1> HIDE DEF b
<1>3. Stays(b, PrepareRecovery(b))
  BY <1>1, RecoveryStays
<1>4. \A i \in Inputs \ Pending(b) : Stays(b, Enqueue(b, i))
  BY <1>1, EnqueueGrows, GrowsStays
<1> QED BY <1>1, <1>2, <1>3, <1>4, StaysTransitive, StaysExplained

LEMMA StepExplained ==
    IInv /\ AnswerInv /\ [Next]_vars
        => [\A i \in Pending(cursor) \ Pending(cursor') :
                \/ \E r \in mailbox : i \in answers[r]
                \/ i \in failures
                \/ i \in cursor'.cancelled]_vars
<1> SUFFICES ASSUME IInv, AnswerInv, Next PROVE Explained
  BY DEF Explained
<1>1. CASE ActorNext
  BY <1>1, StartExplained, RecoverExplained, SettleExplained, CommandExplained,
     CollectExplained, CommitExplained, FaultExplained DEF ActorNext
<1> QED BY <1>1, StartExplained, TaskExplained, UserExplained, FaultExplained DEF Next

\* No step loses a message, for any number of messages, operations and faults:
\* what leaves the queue was answered in the log and in the mailbox, given up
\* in the log, or withdrawn.
THEOREM NothingSaidIsLost == Spec => LeavesQueueSettled
<1> QED BY InitTyped, StepTyped, InitAnswers, AnswersStep, StepExplained,
           PTL DEF Spec, LeavesQueueSettled

----------------------------------------------------------------------------
(* The lease of messages without images. It has to stay the head of the    *)
(* queue while it grows, shrinks, is forgotten and taken again, or every   *)
(* read fails for good. A lease that is there grows only from unprepared    *)
(* messages, so it stays a head because what is prepared is one as well    *)
(* (PreparedFirst); that in turn survives a quarantine because a marker of  *)
(* more than one message covers all that is prepared, and one of a single  *)
(* message is thrown away only when there is nothing prepared about it.     *)

Prepared(c) == {i \in Pending(c) : c.inputs[i].prepared # 0}

\* The messages S are the head of the queue.
Heads(c, S) ==
    /\ S \subseteq Pending(c)
    /\ \A i \in S : \A j \in Pending(c) : Before(c, j, i) => j \in S

AtMostOne(S) == \A i, j \in S : i = j

Covers(c, S) == AtMostOne(S) \/ Prepared(c) \subseteq S

LeaseFits(c) ==
    /\ c.lease # {} => c.leaseSeq # 0 /\ c.leaseSeq <= c.nextDispatch
    /\ Heads(c, c.lease) /\ Covers(c, c.lease)

PreparedFirst(c) ==
    /\ Heads(c, Prepared(c))
    /\ \A i \in Inputs : c.inputs[i].started => c.inputs[i].prepared # 0

MarkerLeased(c) ==
    c.commit # NoCommit =>
        /\ Covers(c, c.commit.ids)
        /\ c.lease = c.commit.ids \cap Pending(c)
        /\ c.lease # {} => c.leaseSeq = c.commit.seq
        /\ c.commit.ids \ Pending(c) \subseteq c.cancelled

TextOnly(c) == \A i \in Inputs : c.inputs[i].attachment = "none"

QueueFits(c) == LeaseFits(c) /\ PreparedFirst(c) /\ MarkerLeased(c) /\ TextOnly(c)

LEMMA QueueIsReadable ==
    ASSUME NEW c \in Cursor, ValidPending(c), QueueFits(c)
    PROVE  Readable(c)
<1>1. Runnable(c) = Pending(c)
  BY DEF QueueFits, TextOnly, Runnable, Terminal, Pending
<1> QED BY <1>1 DEF Readable, ValidDispatch, RunnablePrefix, QueueFits, LeaseFits, Heads

\* Messages may leave the queue; the others keep their place.
Thins(c, d) ==
    \A i \in Inputs : d.inputs[i].seq \in {0, c.inputs[i].seq}

LEMMA HeadsThinned ==
    ASSUME NEW c, NEW d, Thins(c, d), NEW S, Heads(c, S)
    PROVE  Heads(d, S \cap Pending(d))
BY DEF Heads, Thins, Before, Pending

\* They leave the lease with the queue; the marker outlives only those that
\* were withdrawn.
Keeps(c, d) ==
    /\ Thins(c, d) /\ TextOnly(d)
    /\ \A i \in Inputs :
        /\ d.inputs[i].seq # 0 => d.inputs[i].prepared = c.inputs[i].prepared
        /\ d.inputs[i].started => d.inputs[i].prepared # 0
    /\ \/ d.lease = {}
       \/ /\ d.lease = c.lease \cap Pending(d) /\ d.leaseSeq = c.leaseSeq
          /\ d.nextDispatch = c.nextDispatch
    /\ \/ d.commit = NoCommit
       \/ /\ c.commit # NoCommit /\ d.commit.ids = c.commit.ids
          /\ d.commit.seq = c.commit.seq
          /\ d.lease = c.lease \cap Pending(d)
          /\ d.commit.ids \ Pending(d) \subseteq d.cancelled

LEMMA KeepsQueue ==
    ASSUME NEW c \in Cursor, NEW d, QueueFits(c), Keeps(c, d)
    PROVE  QueueFits(d)
<1>1. Prepared(d) = Prepared(c) \cap Pending(d) /\ Pending(d) \subseteq Pending(c)
  BY DEF Keeps, Thins, Prepared, Pending
<1>2. Heads(d, Prepared(d))
  BY <1>1, HeadsThinned DEF Keeps, QueueFits, PreparedFirst
<1>3. ASSUME NEW S, Covers(c, S) PROVE Covers(d, S) /\ Covers(d, S \cap Pending(d))
  BY <1>1, <1>3 DEF Covers, AtMostOne
<1>4. LeaseFits(d)
  <2>1. CASE d.lease = {}
    BY <2>1 DEF LeaseFits, Heads, Covers, AtMostOne
  <2>2. CASE d.lease # {}
    <3>1. /\ d.lease = c.lease \cap Pending(d) /\ d.leaseSeq = c.leaseSeq
          /\ d.nextDispatch = c.nextDispatch
      BY <2>2 DEF Keeps
    <3>2. Heads(d, d.lease)
      BY <3>1, HeadsThinned DEF Keeps, QueueFits, LeaseFits
    <3> QED BY <1>3, <2>2, <3>1, <3>2 DEF QueueFits, LeaseFits
  <2> QED BY <2>1, <2>2
<1>5. MarkerLeased(d)
  <2> SUFFICES ASSUME d.commit # NoCommit PROVE MarkerLeased(d)
    BY DEF MarkerLeased
  <2>1. /\ c.commit # NoCommit /\ d.commit.ids = c.commit.ids
        /\ d.commit.seq = c.commit.seq
        /\ d.lease = c.lease \cap Pending(d)
        /\ d.commit.ids \ Pending(d) \subseteq d.cancelled
        /\ d.lease # {} => d.leaseSeq = c.leaseSeq
    BY DEF Keeps
  <2>2. /\ Covers(c, c.commit.ids)
        /\ c.lease = c.commit.ids \cap Pending(c)
        /\ c.lease # {} => c.leaseSeq = c.commit.seq
    BY <2>1 DEF QueueFits, MarkerLeased
  <2>3. Covers(d, d.commit.ids)
    BY <1>3, <2>1, <2>2
  <2> QED BY <1>1, <2>1, <2>2, <2>3 DEF MarkerLeased
<1> QED BY <1>2, <1>4, <1>5 DEF QueueFits, PreparedFirst, Keeps

\* The lease is forgotten, and what it covers with it: all that is prepared.
LEMMA ForgottenQueue ==
    ASSUME NEW c \in Cursor, NEW d, QueueFits(c), TextOnly(d), d.lease = {}, d.commit = NoCommit,
           \A i \in Inputs : d.inputs[i].seq = c.inputs[i].seq,
           \A i \in Inputs : d.inputs[i].started => d.inputs[i].prepared # 0,
           \/ \A i \in Pending(c) : d.inputs[i].prepared = c.inputs[i].prepared
           \/ \A i \in Pending(c) : d.inputs[i].prepared = 0
    PROVE  QueueFits(d)
<1>1. Pending(d) = Pending(c)
  BY DEF Pending
<1>2. CASE \A i \in Pending(c) : d.inputs[i].prepared = c.inputs[i].prepared
  <2>1. Keeps(c, d)
    BY <1>1, <1>2 DEF Keeps, Thins, Pending
  <2> QED BY <2>1, KeepsQueue
<1>3. CASE \A i \in Pending(c) : d.inputs[i].prepared = 0
  <2>1. Prepared(d) = {}
    BY <1>1, <1>3 DEF Prepared
  <2> QED BY <2>1 DEF QueueFits, LeaseFits, PreparedFirst, MarkerLeased, Heads, Covers, AtMostOne
<1> QED BY <1>2, <1>3

LEMMA DiscardEffect ==
    ASSUME NEW c \in Cursor, NEW S
    PROVE  LET d == DiscardPreparation(c, S) IN
           \A i \in Inputs :
              /\ d.inputs[i].seq = c.inputs[i].seq
              /\ d.inputs[i].attachment = c.inputs[i].attachment
              /\ d.inputs[i].prepared = (IF i \in S THEN 0 ELSE c.inputs[i].prepared)
              /\ d.inputs[i].started => c.inputs[i].started /\ i \notin S
BY SlotTyped DEF DiscardPreparation, Cursor, PendingInput

\* A marker of one message that reads throw away has nothing prepared.
LEMMA ReadQueue ==
    ASSUME NEW c \in Cursor, QueueFits(c)
    PROVE  QueueFits(Read(c))
<1>1. CASE ValidCommit(c)
  BY <1>1 DEF Read
<1>2. CASE ~ValidCommit(c)
  <2> DEFINE S == c.commit.ids \cup c.lease
             e == DiscardPreparation(c, S)
             d == Read(c)
  <2>1. /\ d.lease = {} /\ d.commit = NoCommit /\ d.inputs = e.inputs
    <3>1. e \in Cursor
      BY DiscardTyped
    <3> HIDE DEF e
    <3>2. Read(c) = [DropLease(e) EXCEPT !.commit = NoCommit]
      BY <1>2 DEF Read, e
    <3> QED BY <3>1, <3>2 DEF DropLease, Cursor
  <2>2. /\ Covers(c, c.commit.ids)
        /\ c.lease = c.commit.ids \cap Pending(c)
        /\ c.lease # {} => c.leaseSeq = c.commit.seq
    BY <1>2 DEF QueueFits, MarkerLeased, ValidCommit
  <2>a. \A i \in Inputs :
           /\ d.inputs[i].seq = c.inputs[i].seq
           /\ d.inputs[i].attachment = c.inputs[i].attachment
           /\ d.inputs[i].prepared = (IF i \in S THEN 0 ELSE c.inputs[i].prepared)
           /\ d.inputs[i].started => c.inputs[i].started /\ i \notin S
    <3>1. \A i \in Inputs :
           /\ e.inputs[i].seq = c.inputs[i].seq
           /\ e.inputs[i].attachment = c.inputs[i].attachment
           /\ e.inputs[i].prepared = (IF i \in S THEN 0 ELSE c.inputs[i].prepared)
           /\ e.inputs[i].started => c.inputs[i].started /\ i \notin S
      <4> HIDE DEF S
      <4> QED BY DiscardEffect
    <3> HIDE DEF S, e, d
    <3> QED BY <2>1, <3>1
  <2>b. S = c.commit.ids
    BY <2>2
  <2>c. TextOnly(d) /\ \A i \in Inputs : d.inputs[i].started => d.inputs[i].prepared # 0
    BY <2>a DEF QueueFits, TextOnly, PreparedFirst
  <2> HIDE DEF S, e, d
  <2>3. \A i \in Pending(c) : d.inputs[i].prepared =
            (IF i \in c.commit.ids THEN 0 ELSE c.inputs[i].prepared)
    BY <2>a, <2>b DEF Pending
  <2>4. ASSUME Prepared(c) \subseteq c.commit.ids PROVE QueueFits(d)
    <3>1. \A i \in Pending(c) : d.inputs[i].prepared = 0
      BY <2>3, <2>4 DEF Prepared
    <3> QED BY <2>1, <2>a, <2>c, <3>1, ForgottenQueue
  <2>5. ASSUME AtMostOne(c.commit.ids) PROVE QueueFits(d)
    <3>1. ASSUME NEW i \in c.commit.ids, i \in Pending(c) PROVE FALSE
      <4>1. c.commit.ids = {i} /\ c.lease = {i} /\ c.leaseSeq = c.commit.seq
        BY <2>2, <2>5, <3>1 DEF AtMostOne
      <4>2. c.inputs[i].started => c.inputs[i].prepared # 0
        BY <3>1 DEF QueueFits, PreparedFirst, Pending
      <4>3. ValidCommit(c)
        BY <3>1, <4>1, <4>2 DEF ValidCommit, SamePreparation
      <4> QED BY <1>2, <4>3
    <3>2. \A i \in Pending(c) : d.inputs[i].prepared = c.inputs[i].prepared
      BY <2>3, <3>1
    <3> QED BY <2>1, <2>a, <2>c, <3>2, ForgottenQueue
  <2>6. QueueFits(d)
    BY <2>2, <2>4, <2>5 DEF Covers
  <2> QED BY <2>6 DEF d
<1> QED BY <1>1, <1>2

----------------------------------------------------------------------------
(* The other updates.                                                      *)

\* New messages come to the end of the queue.
LEMMA GrownQueue ==
    ASSUME NEW c \in Cursor, NEW d \in Cursor, NEW N, QueueFits(c), Grows(c, d, N),
           N \cap c.cancelled = {}, d.nextDispatch = c.nextDispatch,
           \A i \in N : /\ d.inputs[i].attachment = "none"
                        /\ \A j \in Pending(c) : Before(d, j, i)
    PROVE  QueueFits(d)
<1>1. /\ Pending(c) \subseteq Pending(d) /\ Pending(d) \subseteq Pending(c) \cup N
      /\ \A i \in Pending(c) : d.inputs[i] = c.inputs[i]
  BY DEF Grows, Pending
<1>2. Prepared(d) = Prepared(c)
  BY <1>1 DEF Grows, Prepared
<1>3. ASSUME NEW S, Heads(c, S) PROVE Heads(d, S)
  <2> SUFFICES ASSUME NEW i \in S, NEW j \in Pending(d), Before(d, j, i) PROVE j \in S
    BY <1>1, <1>3 DEF Heads
  <2>1. i \in Pending(c)
    BY <1>3 DEF Heads
  <2>2. d.inputs[i].seq \in Nat /\ d.inputs[j].seq \in Nat
    BY <1>1, <2>1, SlotTyped DEF Pending
  <2>3. j \notin N
    BY <2>1, <2>2 DEF Before
  <2>4. j \in Pending(c) /\ Before(c, j, i)
    BY <1>1, <2>1, <2>3 DEF Before
  <2> QED BY <1>3, <2>1, <2>4 DEF Heads
<1>4. LeaseFits(d)
  BY <1>2, <1>3 DEF QueueFits, LeaseFits, Grows, Covers
<1>5. PreparedFirst(d) /\ TextOnly(d)
  BY <1>2, <1>3 DEF QueueFits, PreparedFirst, TextOnly, Grows
<1>6. MarkerLeased(d)
  <2> SUFFICES ASSUME d.commit # NoCommit PROVE MarkerLeased(d)
    BY DEF MarkerLeased
  <2>1. d.commit = c.commit /\ d.lease = c.lease /\ d.leaseSeq = c.leaseSeq
        /\ d.cancelled = c.cancelled
    BY DEF Grows
  <2>2. /\ Covers(c, c.commit.ids)
        /\ c.lease = c.commit.ids \cap Pending(c)
        /\ c.lease # {} => c.leaseSeq = c.commit.seq
        /\ c.commit.ids \ Pending(c) \subseteq c.cancelled
    BY <2>1 DEF QueueFits, MarkerLeased
  <2>3. c.commit.ids \cap N = {}
    BY <2>2 DEF Grows
  <2> QED BY <1>1, <1>2, <2>1, <2>2, <2>3 DEF MarkerLeased, Covers
<1> QED BY <1>4, <1>5, <1>6 DEF QueueFits

LEMMA EnqueueQueue ==
    ASSUME NEW c \in Cursor, ValidPending(c), QueueFits(c),
           NEW i \in Inputs \ (Pending(c) \cup c.cancelled)
    PROVE  QueueFits(Enqueue(c, i))
<1> DEFINE d == Enqueue(c, i)
<1>1. d \in Cursor /\ Grows(c, d, {i}) /\ c.nextSeq \in Nat
  BY EnqueueTyped, EnqueueGrows DEF Cursor
<1>2. /\ d.nextDispatch = c.nextDispatch /\ d.inputs[i].attachment = "none"
      /\ d.inputs[i].seq = c.nextSeq + 1
  BY DEF Enqueue, Cursor, Fresh, Absent
<1>3. ASSUME NEW j \in Pending(c) PROVE Before(d, j, i)
  <2>1. d.inputs[j] = c.inputs[j] /\ c.inputs[j].seq \in Nat
    BY <1>1, SlotTyped DEF Grows, Pending
  <2>2. c.inputs[j].seq <= c.nextSeq
    BY DEF ValidPending
  <2> HIDE DEF d
  <2> QED BY <1>1, <1>2, <2>1, <2>2 DEF Before
<1> HIDE DEF d
<1>4. QueueFits(d)
  BY <1>1, <1>2, <1>3, GrownQueue
<1> QED BY <1>4 DEF d

LEMMA ReconcileQueue ==
    ASSUME NEW c \in Cursor, ValidPending(c), QueueFits(c), NEW n, NEW settled
    PROVE  QueueFits(Reconcile(c, n, settled))
<1> DEFINE d == Reconcile(c, n, settled)
           M == Missing(c, n, settled)
<1>1. /\ d \in Cursor /\ Grows(c, d, M) /\ c.nextSeq \in Nat
      /\ M \in SUBSET Inputs /\ M \cap c.cancelled = {}
  BY ReconcileTyped, ReconcileGrows DEF Cursor, Missing
<1>2. d.nextDispatch = c.nextDispatch
  BY DEF Reconcile, Cursor
<1>3. ASSUME NEW i \in M
      PROVE  /\ d.inputs[i].attachment = "none"
             /\ d.inputs[i].seq = c.nextSeq + Rank(M, i)
  BY <1>1, <1>3 DEF Reconcile, Cursor, Fresh, Absent
<1>4. ASSUME NEW i \in M, NEW j \in Pending(c) PROVE Before(d, j, i)
  <2>1. d.inputs[j] = c.inputs[j] /\ c.inputs[j].seq \in Nat
    BY <1>1, SlotTyped DEF Grows, Pending
  <2>2. c.inputs[j].seq <= c.nextSeq
    BY DEF ValidPending
  <2>3. Rank(M, i) \in Nat \ {0} /\ d.inputs[i].seq = c.nextSeq + Rank(M, i)
    BY <1>1, <1>3, <1>4, RankTyped
  <2> HIDE DEF d, M
  <2> QED BY <1>1, <2>1, <2>2, <2>3 DEF Before
<1> HIDE DEF d, M
<1>5. QueueFits(d)
  BY <1>1, <1>2, <1>3, <1>4, GrownQueue
<1> QED BY <1>5 DEF d

\* Attempts come and go, the lease stays.
Light(c, d) ==
    /\ Same(c, d) /\ TextOnly(d) /\ d.lease = c.lease /\ d.leaseSeq = c.leaseSeq
    /\ d.nextDispatch = c.nextDispatch

LEMMA LightQueue ==
    ASSUME NEW c \in Cursor, NEW d, QueueFits(c), Light(c, d)
    PROVE  QueueFits(d)
<1>1. Pending(d) = Pending(c)
  BY DEF Light, Same, Pending
<1>2. c.lease \subseteq Pending(c)
  BY DEF QueueFits, LeaseFits, Heads
<1>3. c.commit # NoCommit => c.commit.ids \ Pending(c) \subseteq c.cancelled
  BY DEF QueueFits, MarkerLeased
<1>4. Keeps(c, d)
  BY <1>1, <1>2, <1>3 DEF Keeps, Thins, Light, Same, QueueFits, PreparedFirst
<1> QED BY <1>4, KeepsQueue

LEMMA AttemptsLight ==
    ASSUME NEW c \in Cursor, TextOnly(c), NEW S, NEW i \in Inputs
    PROVE  /\ Light(c, Begin(c, S))
           /\ Light(c, RequestRestart(c, S))
           /\ Light(c, [c EXCEPT !.inputs =
                           [c.inputs EXCEPT ![i] = BeginAttempt(c.inputs[i])]])
<1>1. \A j \in Inputs : /\ BeginAttempt(c.inputs[j]).attachment = "none"
                        /\ ReturnAttempt(c.inputs[j]).attachment = "none"
  BY SlotTyped DEF BeginAttempt, ReturnAttempt, PendingInput, TextOnly
<1>2. Light(c, Begin(c, S))
  BY <1>1, AttemptsSame DEF Light, TextOnly, Begin, Cursor
<1>3. Light(c, RequestRestart(c, S))
  BY <1>1, AttemptsSame DEF Light, TextOnly, RequestRestart, Cursor
<1>4. Light(c, [c EXCEPT !.inputs = [c.inputs EXCEPT ![i] = BeginAttempt(c.inputs[i])]])
  BY <1>1, AttemptsSame DEF Light, TextOnly, Cursor
<1> QED BY <1>2, <1>3, <1>4

LEMMA FailuresLight ==
    ASSUME NEW c \in Cursor, TextOnly(c), NEW S, NEW before, NEW stop, NEW i
    PROVE  /\ Light(c, ReleaseAttempts(c, S, before))
           /\ Light(c, RecordFailure(c, i, stop))
           /\ Light(c, CompleteAttachments(c, S))
<1>1. Light(c, ReleaseAttempts(c, S, before))
  <2>1. TextOnly(ReleaseAttempts(c, S, before))
    BY SlotTyped DEF TextOnly, ReleaseAttempts, Cursor, PendingInput
  <2>2. Same(c, ReleaseAttempts(c, S, before))
    BY FailuresSame
  <2> QED BY <2>1, <2>2 DEF Light, ReleaseAttempts, Cursor
<1>2. Light(c, RecordFailure(c, i, stop))
  <2>1. TextOnly(RecordFailure(c, i, stop))
    BY SlotTyped DEF TextOnly, RecordFailure, Cursor, PendingInput
  <2>2. Same(c, RecordFailure(c, i, stop))
    BY FailuresSame
  <2> QED BY <2>1, <2>2 DEF Light, RecordFailure, Cursor
<1>3. Light(c, CompleteAttachments(c, S))
  <2>1. TextOnly(CompleteAttachments(c, S))
    BY SlotTyped DEF TextOnly, CompleteAttachments, Cursor, PendingInput
  <2>2. Same(c, CompleteAttachments(c, S))
    <3>1. 1 \in Inputs
      BY BoundsAssumption DEF Inputs
    <3> QED BY <3>1, AttachmentsSame
  <2> QED BY <2>1, <2>2 DEF Light, CompleteAttachments, Cursor
<1> QED BY <1>1, <1>2, <1>3

\* What leaves the queue leaves the lease, and the marker if it was not withdrawn.
LEMMA RemovedQueue ==
    ASSUME NEW c \in Cursor, QueueFits(c), NEW S, NEW d,
           d.inputs = Remove(c, S).inputs, c.cancelled \subseteq d.cancelled,
           \/ d.lease = {}
           \/ /\ d.lease = c.lease \ S /\ d.leaseSeq = c.leaseSeq
              /\ d.nextDispatch = c.nextDispatch,
           \/ d.commit = NoCommit
           \/ /\ d.commit = c.commit /\ d.lease = c.lease \ S
              /\ c.commit.ids \cap S \subseteq d.cancelled
    PROVE  QueueFits(d)
<1>1. \A i \in Inputs : d.inputs[i] = IF i \in S THEN Absent ELSE c.inputs[i]
  BY RemoveEffect
<1>2. Pending(d) = Pending(c) \ S
  BY <1>1 DEF Pending, Absent
<1>3. c.lease \subseteq Pending(c)
  BY DEF QueueFits, LeaseFits, Heads
<1>4. c.lease \ S = c.lease \cap Pending(d)
  BY <1>2, <1>3
<1>5. d.commit # NoCommit => c.commit.ids \ Pending(d) \subseteq d.cancelled
  BY <1>2 DEF QueueFits, MarkerLeased
<1>6. /\ Thins(c, d) /\ TextOnly(d)
      /\ \A i \in Inputs :
            /\ d.inputs[i].seq # 0 => d.inputs[i].prepared = c.inputs[i].prepared
            /\ d.inputs[i].started => d.inputs[i].prepared # 0
  BY <1>1 DEF Thins, TextOnly, QueueFits, PreparedFirst, Absent
<1>7. Keeps(c, d)
  BY <1>4, <1>5, <1>6 DEF Keeps
<1> QED BY <1>7, KeepsQueue

LEMMA RemoveFields ==
    ASSUME NEW c \in Cursor, NEW S
    PROVE  LET d == Remove(c, S) IN
           /\ d \in Cursor /\ d.commit = c.commit /\ d.cancelled = c.cancelled
           /\ d.lease = c.lease \ S /\ d.nextDispatch = c.nextDispatch
           /\ d.lease # {} => d.leaseSeq = c.leaseSeq
<1>1. Remove(c, S) \in Cursor
  BY RemoveTyped
<1> QED BY <1>1 DEF Remove, Cursor

LEMMA CancelQueue ==
    ASSUME NEW c \in Cursor, QueueFits(c), NEW i \in Inputs
    PROVE  QueueFits(Cancel(c, i)) /\ QueueFits(CancelAfterTermination(c, i))
<1> DEFINE d == Remove(c, {i})
           e == [d EXCEPT !.cancelled = c.cancelled \cup {i}]
           f == ForgetCommitOf(e, {i})
<1>1. /\ d \in Cursor /\ d.commit = c.commit /\ d.lease = c.lease \ {i}
      /\ d.nextDispatch = c.nextDispatch
      /\ d.lease # {} => d.leaseSeq = c.leaseSeq
  BY RemoveFields
<1>2. /\ e \in Cursor /\ e.commit = d.commit /\ e.cancelled = c.cancelled \cup {i}
      /\ e.inputs = d.inputs /\ e.lease = d.lease /\ e.leaseSeq = d.leaseSeq
      /\ e.nextDispatch = d.nextDispatch
  <2> HIDE DEF d
  <2> QED BY <1>1 DEF Cursor
<1>3. /\ f.commit \in {e.commit, NoCommit} /\ f.cancelled = e.cancelled
      /\ f.inputs = e.inputs /\ f.lease = e.lease /\ f.leaseSeq = e.leaseSeq
      /\ f.nextDispatch = e.nextDispatch
  <2> HIDE DEF e
  <2> QED BY <1>2 DEF ForgetCommitOf, Cursor
<1> HIDE DEF e, f
<1>4. QueueFits(e)
  BY <1>1, <1>2, RemovedQueue
<1>5. QueueFits(f)
  BY <1>1, <1>2, <1>3, RemovedQueue
<1> QED BY <1>4, <1>5 DEF Cancel, CancelAfterTermination, e, f

LEMMA RemoveSettledQueue ==
    ASSUME NEW c \in Cursor, QueueFits(c), NEW S
    PROVE  QueueFits(RemoveSettled(c, S))
<1> DEFINE d == Remove(c, S)
           f == ForgetCommitOf(d, S)
<1>1. /\ d \in Cursor /\ d.commit = c.commit /\ d.lease = c.lease \ S
      /\ d.nextDispatch = c.nextDispatch /\ d.cancelled = c.cancelled
      /\ d.lease # {} => d.leaseSeq = c.leaseSeq
  BY RemoveFields
<1>2. /\ f.commit = (IF d.commit.ids \cap S # {} THEN NoCommit ELSE d.commit)
      /\ f.cancelled = d.cancelled
      /\ f.inputs = d.inputs /\ f.lease = d.lease /\ f.leaseSeq = d.leaseSeq
      /\ f.nextDispatch = d.nextDispatch
  <2> HIDE DEF d
  <2> QED BY <1>1 DEF ForgetCommitOf, Cursor
<1>3. f.commit # NoCommit => f.commit = c.commit /\ c.commit.ids \cap S = {}
  BY <1>1, <1>2
<1> HIDE DEF f
<1>4. QueueFits(f)
  BY <1>1, <1>2, <1>3, RemovedQueue
<1> QED BY <1>4 DEF RemoveSettled, f

LEMMA FinalizeQueue ==
    ASSUME NEW c \in Cursor, QueueFits(c), NEW S
    PROVE  QueueFits(Finalize(c, S))
<1> DEFINE d == Remove(c, S)
           f == [DropLease(d) EXCEPT !.commit = NoCommit]
<1>1. d \in Cursor /\ d.cancelled = c.cancelled
  BY RemoveFields
<1>2. f.commit = NoCommit /\ f.cancelled = d.cancelled /\ f.inputs = d.inputs /\ f.lease = {}
  <2> HIDE DEF d
  <2> QED BY <1>1 DEF DropLease, Cursor
<1> HIDE DEF f
<1>3. QueueFits(f)
  BY <1>1, <1>2, RemovedQueue
<1> QED BY <1>3 DEF Finalize, f

\* A marker takes its lease with it.
LEMMA DropMatchingEffect ==
    ASSUME NEW c \in Cursor, QueueFits(c), c.commit # NoCommit
    PROVE  LET d == DropMatchingLease(c, c.commit.seq) IN
           /\ d \in Cursor /\ d.lease = {} /\ d.inputs = c.inputs /\ d.cancelled = c.cancelled
<1>1. c.lease # {} => c.leaseSeq = c.commit.seq
  BY DEF QueueFits, MarkerLeased
<1> QED BY <1>1, DropLeaseTyped DEF DropMatchingLease, DropLease, Cursor

LEMMA PrepareRecoveryQueue ==
    ASSUME NEW c \in Cursor, QueueFits(c)
    PROVE  QueueFits(PrepareRecovery(c))
<1> DEFINE b == DropMatchingLease(c, c.commit.seq)
           d == [b EXCEPT !.commit = NoCommit]
<1>1. CASE c.commit.phase # "reserved"
  BY <1>1 DEF PrepareRecovery
<1>2. CASE c.commit.phase = "reserved"
  <2>1. b \in Cursor /\ b.lease = {} /\ b.inputs = c.inputs /\ b.cancelled = c.cancelled
    BY <1>2, DropMatchingEffect DEF NoCommit
  <2>2. d.commit = NoCommit /\ d.lease = b.lease /\ d.inputs = b.inputs
    <3> HIDE DEF b
    <3> QED BY <2>1 DEF Cursor
  <2> HIDE DEF b, d
  <2>3. QueueFits(d)
    BY <2>1, <2>2, ForgottenQueue DEF QueueFits, TextOnly, PreparedFirst, Pending
  <2> QED BY <1>2, <2>3 DEF PrepareRecovery, b, d
<1> QED BY <1>1, <1>2

\* A recovery gives up a batch of which nothing is prepared, or of which there
\* were several messages, all that is prepared among them.
LEMMA ReleaseQueue ==
    ASSUME NEW c \in Cursor, QueueFits(c), NEW k \in ActiveTurnCommit, k # NoCommit,
           \A i \in k.ids \cap Pending(c) : k.ids = {i} => c.inputs[i].prepared = 0
    PROVE  QueueFits(ReleaseRecovery(c, k))
<1>1. CASE c.commit # k
  BY <1>1 DEF ReleaseRecovery
<1>2. CASE c.commit = k
  <2> DEFINE b == DropMatchingLease(c, k.seq)
             e == DiscardPreparation(b, k.ids)
             d == [e EXCEPT !.commit = NoCommit]
  <2>1. b \in Cursor /\ b.lease = {} /\ b.inputs = c.inputs
    BY <1>2, DropMatchingEffect
  <2> HIDE DEF b
  <2>2. /\ e \in Cursor /\ e.lease = {}
        /\ \A i \in Inputs :
             /\ e.inputs[i].seq = c.inputs[i].seq
             /\ e.inputs[i].attachment = c.inputs[i].attachment
             /\ e.inputs[i].prepared = (IF i \in k.ids THEN 0 ELSE c.inputs[i].prepared)
             /\ e.inputs[i].started => c.inputs[i].started /\ i \notin k.ids
    <3>1. e.lease = b.lease
      BY <2>1 DEF DiscardPreparation, Cursor
    <3> QED BY <2>1, <3>1, DiscardTyped, DiscardEffect
  <2> HIDE DEF e
  <2>3. d.inputs = e.inputs /\ d.lease = {} /\ d.commit = NoCommit
    BY <2>2 DEF Cursor
  <2> HIDE DEF d
  <2>4. TextOnly(d) /\ \A i \in Inputs : d.inputs[i].started => d.inputs[i].prepared # 0
    BY <2>2, <2>3 DEF QueueFits, TextOnly, PreparedFirst
  <2>5. Covers(c, k.ids)
    BY <1>2 DEF QueueFits, MarkerLeased
  <2>6. ASSUME Prepared(c) \subseteq k.ids PROVE QueueFits(d)
    <3>1. \A i \in Pending(c) : d.inputs[i].prepared = 0
      BY <2>2, <2>3, <2>6 DEF Prepared, Pending
    <3> QED BY <2>2, <2>3, <2>4, <3>1, ForgottenQueue
  <2>7. ASSUME AtMostOne(k.ids) PROVE QueueFits(d)
    <3>1. \A i \in k.ids : k.ids = {i}
      BY <2>7 DEF AtMostOne
    <3>2. \A i \in Pending(c) : d.inputs[i].prepared = c.inputs[i].prepared
      BY <2>2, <2>3, <3>1 DEF Pending
    <3> QED BY <2>2, <2>3, <2>4, <3>2, ForgottenQueue
  <2>8. QueueFits(d)
    BY <2>5, <2>6, <2>7 DEF Covers
  <2> QED BY <1>2, <2>8 DEF ReleaseRecovery, b, e, d
<1> QED BY <1>1, <1>2

----------------------------------------------------------------------------
(* Taking the lease, and the commit.                                       *)

LEMMA UnmarkedQueue ==
    ASSUME NEW c \in Cursor, QueueFits(c), NEW d, d.inputs = c.inputs, d.commit = NoCommit,
           LeaseFits(d)
    PROVE  QueueFits(d)
<1>1. Pending(d) = Pending(c)
  BY DEF Pending
<1>2. Prepared(d) = Prepared(c)
  BY <1>1 DEF Prepared
<1> QED BY <1>1, <1>2 DEF QueueFits, PreparedFirst, MarkerLeased, TextOnly, Heads, Before

\* The whole queue may always be leased.
LEMMA ExtendAllQueue ==
    ASSUME NEW c \in Cursor, QueueFits(c), c.commit = NoCommit, c.lease # {},
           NEW S, c.lease \cup S = Pending(c)
    PROVE  QueueFits(Extend(c, S))
<1> DEFINE d == Extend(c, S)
<1>1. /\ d.inputs = c.inputs /\ d.commit = NoCommit /\ d.lease = Pending(c)
      /\ d.leaseSeq = c.leaseSeq /\ d.nextDispatch = c.nextDispatch
  BY DEF Extend, Cursor
<1> HIDE DEF d
<1>2. Pending(d) = Pending(c)
  BY <1>1 DEF Pending
<1>3. LeaseFits(d)
  BY <1>1, <1>2 DEF LeaseFits, QueueFits, Heads, Covers, Prepared
<1>4. QueueFits(d)
  BY <1>1, <1>3, UnmarkedQueue
<1> QED BY <1>4 DEF d

\* A new lease is of the first message.
LEMMA LeaseQueue ==
    ASSUME NEW c \in Cursor, ValidPending(c), QueueFits(c), c.commit = NoCommit,
           NEW i \in Pending(c), \A j \in Pending(c) \ {i} : Before(c, i, j)
    PROVE  LET d == Lease(c, {i}) IN
           /\ QueueFits(d) /\ d \in Cursor /\ d.lease # {} /\ i \in d.lease
           /\ d.inputs = c.inputs /\ d.commit = NoCommit
<1> DEFINE d == Lease(c, {i})
<1>1. d \in Cursor
  BY LeaseTyped DEF Pending
<1>2. CASE c.lease # {}
  <2>1. i \in c.lease
    <3>1. PICK j \in c.lease : TRUE
      BY <1>2
    <3>2. j \in Pending(c)
      BY <3>1 DEF QueueFits, LeaseFits, Heads
    <3> QED BY <3>1, <3>2 DEF QueueFits, LeaseFits, Heads
  <2> QED BY <1>1, <1>2, <2>1 DEF Lease
<1>3. CASE c.lease = {}
  <2>1. /\ d.inputs = c.inputs /\ d.commit = NoCommit /\ d.lease = {i}
        /\ d.leaseSeq = c.nextDispatch + 1 /\ d.nextDispatch = c.nextDispatch + 1
        /\ c.nextDispatch \in Nat
    BY <1>3 DEF Lease, Cursor
  <2> HIDE DEF d
  <2>2. Pending(d) = Pending(c)
    BY <2>1 DEF Pending
  <2>3. ASSUME NEW j \in Pending(c), Before(c, j, i) PROVE j = i
    <3>1. c.inputs[i].seq \in Nat /\ c.inputs[j].seq \in Nat
      BY SlotTyped DEF Pending
    <3> QED BY <2>3, <3>1 DEF Before
  <2>4. LeaseFits(d)
    BY <2>1, <2>2, <2>3 DEF LeaseFits, Heads, Covers, AtMostOne, Before
  <2>5. QueueFits(d)
    BY <2>1, <2>4, UnmarkedQueue
  <2>6. i \in d.lease
    BY <2>1
  <2> QED BY <1>1, <2>1, <2>5, <2>6 DEF d
<1> QED BY <1>2, <1>3

\* It grows by the messages that follow, while nothing is prepared.
LEMMA ExtendQueue ==
    ASSUME NEW d \in Cursor, QueueFits(d), d.commit = NoCommit, d.lease # {}, Prepared(d) = {},
           NEW more \in SUBSET Pending(d),
           \A i \in more : \A j \in Pending(d) \ d.lease : Before(d, j, i) => j \in more
    PROVE  QueueFits(Extend(d, more))
<1> DEFINE e == Extend(d, more)
<1>1. /\ e.inputs = d.inputs /\ e.commit = NoCommit /\ e.lease = d.lease \cup more
      /\ e.leaseSeq = d.leaseSeq /\ e.nextDispatch = d.nextDispatch
  BY DEF Extend, Cursor
<1> HIDE DEF e
<1>2. Pending(e) = Pending(d)
  BY <1>1 DEF Pending
<1>3. Heads(e, e.lease)
  BY <1>1, <1>2 DEF QueueFits, LeaseFits, Heads, Before
<1>4. Prepared(e) = {}
  BY <1>1, <1>2 DEF Prepared
<1>5. LeaseFits(e)
  BY <1>1, <1>3, <1>4 DEF LeaseFits, QueueFits, Covers
<1>6. QueueFits(e)
  BY <1>1, <1>5, UnmarkedQueue
<1> QED BY <1>6 DEF e

LEMMA ReserveQueue ==
    ASSUME NEW c \in Cursor, QueueFits(c), NEW S, c.lease = S, c.lease # {},
           NEW seq, c.leaseSeq = seq, NEW turn
    PROVE  QueueFits(Reserve(c, seq, S, turn))
<1> DEFINE d == Reserve(c, seq, S, turn)
<1>1. /\ d.inputs = c.inputs /\ d.lease = c.lease /\ d.leaseSeq = c.leaseSeq
      /\ d.nextDispatch = c.nextDispatch /\ d.cancelled = c.cancelled
      /\ d.commit.ids = S /\ d.commit.seq = seq
  BY DEF Reserve, Cursor
<1> HIDE DEF d
<1>2. Pending(d) = Pending(c)
  BY <1>1 DEF Pending
<1>3. Prepared(d) = Prepared(c)
  BY <1>1, <1>2 DEF Prepared
<1>4. S \subseteq Pending(c) /\ Covers(c, S)
  BY DEF QueueFits, LeaseFits, Heads
<1>5. MarkerLeased(d)
  BY <1>1, <1>2, <1>3, <1>4 DEF MarkerLeased, Covers
<1>6. LeaseFits(d) /\ PreparedFirst(d) /\ TextOnly(d)
  BY <1>1, <1>2, <1>3 DEF QueueFits, LeaseFits, PreparedFirst, TextOnly, Heads, Covers, Before
<1>7. QueueFits(d)
  BY <1>5, <1>6 DEF QueueFits
<1> QED BY <1>7 DEF d

LEMMA MarkQueue ==
    ASSUME NEW c \in Cursor, QueueFits(c), c.commit # NoCommit
    PROVE  QueueFits(MarkPersisting(c))
<1> DEFINE d == MarkPersisting(c)
<1>1. /\ d.inputs = c.inputs /\ d.lease = c.lease /\ d.leaseSeq = c.leaseSeq
      /\ d.nextDispatch = c.nextDispatch /\ d.cancelled = c.cancelled
      /\ d.commit.ids = c.commit.ids /\ d.commit.seq = c.commit.seq
  BY DEF MarkPersisting, Cursor, ActiveTurnCommit
<1> HIDE DEF d
<1>2. Pending(d) = Pending(c)
  BY <1>1 DEF Pending
<1>3. c.lease \subseteq Pending(c) /\ c.commit.ids \ Pending(c) \subseteq c.cancelled
  BY DEF QueueFits, LeaseFits, Heads, MarkerLeased
<1>4. Keeps(c, d)
  BY <1>1, <1>2, <1>3 DEF Keeps, Thins, QueueFits, PreparedFirst, TextOnly
<1>5. QueueFits(d)
  BY <1>4, KeepsQueue
<1> QED BY <1>5 DEF d

\* The batch that is leased is prepared: what was prepared lies in it, or it
\* is of the first message.
LEMMA PrepareQueue ==
    ASSUME NEW c \in Cursor, QueueFits(c), c.commit # NoCommit, NEW S,
           c.commit.ids = S, S \subseteq Pending(c), NEW turn \in Responses
    PROVE  QueueFits(Prepare(c, S, turn))
<1> DEFINE d == Prepare(c, S, turn)
<1>1. /\ d.lease = c.lease /\ d.leaseSeq = c.leaseSeq
      /\ d.nextDispatch = c.nextDispatch /\ d.cancelled = c.cancelled
      /\ d.commit = c.commit
  BY DEF Prepare, Cursor
<1>2. \A i \in Inputs :
         /\ d.inputs[i].seq = c.inputs[i].seq
         /\ d.inputs[i].attachment = c.inputs[i].attachment
         /\ d.inputs[i].prepared = (IF i \in S THEN turn ELSE c.inputs[i].prepared)
         /\ d.inputs[i].started = c.inputs[i].started
  BY SlotTyped DEF Prepare, Cursor, PendingInput
<1> HIDE DEF d
<1>3. Pending(d) = Pending(c) /\ turn # 0
  BY <1>2 DEF Pending, Responses
<1>4. Prepared(d) = Prepared(c) \cup S
  BY <1>2, <1>3 DEF Prepared, Pending
<1>5. /\ Covers(c, S) /\ c.lease = S
      /\ c.lease # {} => c.leaseSeq = c.commit.seq
  BY DEF QueueFits, MarkerLeased
<1>6. \A T : Heads(c, T) => Heads(d, T)
  BY <1>2, <1>3 DEF Heads, Before, Pending
<1>7. Heads(d, S) /\ Heads(d, Prepared(d))
  <2>1. Heads(c, S) /\ Heads(c, Prepared(c))
    BY <1>5 DEF QueueFits, LeaseFits, PreparedFirst
  <2>2. Heads(d, S) /\ Heads(d, Prepared(c))
    BY <1>6, <2>1
  <2> QED BY <1>4, <2>2 DEF Heads
<1>8. Covers(d, S)
  BY <1>4, <1>5 DEF Covers
<1>9. LeaseFits(d) /\ MarkerLeased(d)
  BY <1>1, <1>3, <1>5, <1>7, <1>8 DEF QueueFits, LeaseFits, MarkerLeased
<1>10. PreparedFirst(d) /\ TextOnly(d)
  BY <1>2, <1>3, <1>7 DEF QueueFits, PreparedFirst, TextOnly
<1>11. QueueFits(d)
  BY <1>9, <1>10 DEF QueueFits
<1> QED BY <1>11 DEF d

LEMMA StartQueue ==
    ASSUME NEW c \in Cursor, QueueFits(c), NEW S, NEW turn \in Responses, CanStart(c, S, turn)
    PROVE  QueueFits(Start(c, S))
<1> DEFINE d == Start(c, S)
<1>1. /\ d.lease = c.lease /\ d.leaseSeq = c.leaseSeq
      /\ d.nextDispatch = c.nextDispatch /\ d.cancelled = c.cancelled
      /\ d.commit = c.commit
  BY DEF Start, Cursor
<1>2. \A i \in Inputs :
         /\ d.inputs[i].seq = c.inputs[i].seq
         /\ d.inputs[i].attachment = c.inputs[i].attachment
         /\ d.inputs[i].prepared = c.inputs[i].prepared
         /\ d.inputs[i].started => i \in S \/ c.inputs[i].started
  BY SlotTyped DEF Start, Cursor, PendingInput
<1> HIDE DEF d
<1>3. Pending(d) = Pending(c)
  BY <1>2 DEF Pending
<1>4. \A i \in S : c.inputs[i].prepared # 0
  BY DEF CanStart, Responses
<1>5. c.lease \subseteq Pending(c)
      /\ (c.commit # NoCommit => c.commit.ids \ Pending(c) \subseteq c.cancelled)
  BY DEF QueueFits, LeaseFits, Heads, MarkerLeased
<1>6. Keeps(c, d)
  BY <1>1, <1>2, <1>3, <1>4, <1>5 DEF Keeps, Thins, QueueFits, PreparedFirst, TextOnly
<1>7. QueueFits(d)
  BY <1>6, KeepsQueue
<1> QED BY <1>7 DEF d

----------------------------------------------------------------------------
(* The steps keep the lease the head of the queue.                         *)

\* What an operation was begun with is leased, and what is added to it.
OperationLeased ==
    /\ pc = "begin" => cursor.lease = job.ids /\ cursor.leaseSeq = job.seq /\ job.adding = {}
    /\ pc = "run" => /\ job.tracked \cup job.adding \subseteq cursor.lease
                     /\ job.task \notin {"unread", "unreadable"}

LeaseInv == Ordered /\ QueueFits(cursor) /\ images = {} /\ OperationLeased

LEMMA LeaseStart ==
    ASSUME IInv, LeaseInv
    PROVE  LET b == Read(cursor)
               c == Reconcile(b, said, Settled)
           IN  /\ cursor \in Cursor /\ ValidPending(cursor) /\ QueueFits(cursor)
               /\ b \in Cursor /\ ValidPending(b) /\ QueueFits(b)
               /\ c \in Cursor /\ ValidPending(c) /\ QueueFits(c)
<1>1. cursor \in Cursor /\ ValidPending(cursor) /\ QueueFits(cursor)
  BY DEF IInv, TypeOK, LeaseInv, Ordered
<1>2. Read(cursor) \in Cursor /\ ValidPending(Read(cursor)) /\ QueueFits(Read(cursor))
  BY <1>1, ReadTyped, ReadValidPending, ReadQueue
<1> QED BY <1>1, <1>2, ReconcileTyped, ReconcileValidPending, ReconcileQueue

Rests == pc' \notin {"begin", "run"} /\ UNCHANGED images

LEMMA RestLeased ==
    ASSUME LeaseInv, QueueFits(cursor'), Ordered', Rests
    PROVE  LeaseInv'
BY DEF LeaseInv, OperationLeased, Rests, QueueFits, LeaseFits, PreparedFirst, MarkerLeased,
       TextOnly, Heads, Covers, Prepared, Pending, Before

\* While an operation is under way there is no marker and reads change nothing.
LEMMA OperationRead ==
    ASSUME IInv, AnswerInv, LeaseInv, pc \in {"begin", "run"}
    PROVE  LET c == Reconcile(cursor, said, Settled) IN
           /\ cursor.commit = NoCommit /\ Read(cursor) = cursor /\ job \in Job
           /\ c.lease = cursor.lease /\ c.leaseSeq = cursor.leaseSeq /\ c.commit = NoCommit
           /\ Pending(cursor) \subseteq Pending(c)
<1>1. cursor.commit = NoCommit /\ Read(cursor) = cursor /\ job \in Job
  BY ReadUnmarked DEF AnswerInv, Unmarked, IInv, TypeOK
<1>2. Grows(cursor, Reconcile(cursor, said, Settled), Missing(cursor, said, Settled))
  BY ReconcileGrows DEF IInv, TypeOK
<1>3. Pending(cursor) \subseteq Pending(Reconcile(cursor, said, Settled))
  BY <1>2 DEF Grows, Pending
<1> QED BY <1>1, <1>2, <1>3 DEF Grows

\* A step in the middle of an operation.
LEMMA RunLeased ==
    ASSUME LeaseInv, QueueFits(cursor'), Ordered', UNCHANGED images, pc' = "run",
           job'.tracked \cup job'.adding \subseteq cursor'.lease,
           job'.task \notin {"unread", "unreadable"}
    PROVE  LeaseInv'
BY DEF LeaseInv, OperationLeased, QueueFits, LeaseFits, PreparedFirst, MarkerLeased,
       TextOnly, Heads, Covers, Prepared, Pending, Before

LEMMA SayLeased ==
    ASSUME IInv, LeaseInv, ~WithImages, Ordered', NEW image \in BOOLEAN, Say(image)
    PROVE  LeaseInv'
<1>1. UNCHANGED <<cursor, pc, job, images>>
  BY DEF Say
<1> QED BY <1>1 DEF LeaseInv, OperationLeased

LEMMA EnqueueLeased ==
    ASSUME IInv, AnswerInv, LeaseInv, Ordered', EnqueueSaid
    PROVE  LeaseInv'
<1> DEFINE c == Read(cursor)
           d == Enqueue(c, preparing)
<1>1. c \in Cursor /\ ValidPending(c) /\ QueueFits(c) /\ QueueFits(cursor)
  BY LeaseStart
<1>2. preparing \in Inputs /\ UNCHANGED <<pc, job, images>>
  BY DEF EnqueueSaid, IInv, TypeOK
<1>3. \/ cursor' = cursor \/ cursor' = c
      \/ cursor' = d /\ preparing \notin Pending(c) \cup c.cancelled
  BY DEF EnqueueSaid
<1>4. d.lease = c.lease /\ d.leaseSeq = c.leaseSeq
  BY <1>1 DEF Enqueue, Cursor
<1>5. QueueFits(cursor')
  BY <1>1, <1>2, <1>3, EnqueueQueue
<1>6. pc \in {"begin", "run"} => cursor'.lease = cursor.lease /\ cursor'.leaseSeq = cursor.leaseSeq
  <2> HIDE DEF d
  <2> QED BY <1>3, <1>4, OperationRead
<1> HIDE DEF c, d
<1>7. OperationLeased'
  BY <1>2, <1>6 DEF LeaseInv, OperationLeased
<1> QED BY <1>2, <1>5, <1>7 DEF LeaseInv

LEMMA StartLeased ==
    ASSUME IInv, LeaseInv, Ordered',
           Boot \/ BootReconcile \/ StartTurn \/ Settle \/ RemoveExhausted
    PROVE  LeaseInv'
<1> DEFINE b == Read(cursor)
           c == Reconcile(b, said, Settled)
<1>1. b \in Cursor /\ QueueFits(b) /\ c \in Cursor /\ QueueFits(c)
  BY LeaseStart
<1>2. cursor' \in {b, c, PrepareRecovery(b), PrepareRecovery(c), RemoveSettled(b, job.due)}
  BY DEF Boot, BootReconcile, StartTurn, Settle, RemoveExhausted
<1>3. QueueFits(cursor')
  BY <1>1, <1>2, PrepareRecoveryQueue, RemoveSettledQueue
<1>4. Rests
  BY DEF Rests, Boot, BootReconcile, StartTurn, Settle, RemoveExhausted, AfterSettling
<1> QED BY <1>3, <1>4, RestLeased

LEMMA RecoverLeased ==
    ASSUME IInv, LeaseInv, Ordered', Recover
    PROVE  LeaseInv'
<1> DEFINE c == Read(cursor)
           held == [phase |-> "persisting", ids |-> job.ids,
                    seq |-> job.seq, turn |-> job.turn]
           present == job.ids \cap Pending(c)
           prepared == {c.inputs[i].prepared : i \in present}
           whole == present = job.ids /\ Cardinality(prepared) = 1 /\ prepared # {0}
<1>1. c \in Cursor /\ QueueFits(c)
  BY LeaseStart
<1>2. Rests
  BY DEF Rests, Recover, AfterRecovery, FailCommit
<1>3. \/ cursor' = c \/ cursor' = Finalize(c, job.ids)
      \/ cursor' = ReleaseRecovery(c, held) /\ ~whole
  BY DEF Recover
<1>4. held \in ActiveTurnCommit /\ held # NoCommit /\ held.ids = job.ids
  BY DEF IInv, TypeOK, Job, ActiveTurnCommit, Phases, NoCommit
<1>5. ASSUME ~whole, NEW i \in job.ids \cap Pending(c), job.ids = {i}
      PROVE  c.inputs[i].prepared = 0
  <2>1. present = {i} /\ present = job.ids
    BY <1>5
  <2>2. prepared = {c.inputs[i].prepared}
    BY <2>1
  <2>3. Cardinality(prepared) = 1
    BY <2>2, FS_Singleton
  <2> QED BY <1>5, <2>1, <2>2, <2>3
<1> HIDE DEF c, held, whole
<1>6. QueueFits(cursor')
  BY <1>1, <1>3, <1>4, <1>5, FinalizeQueue, ReleaseQueue
<1> QED BY <1>2, <1>6, RestLeased

LEMMA TakeLeaseLeased ==
    ASSUME IInv, AnswerInv, LeaseInv, Ordered', TakeLease
    PROVE  LeaseInv'
<1> DEFINE b == Read(cursor)
           c == Reconcile(b, said, Settled)
           f == First(c, Runnable(c))
           d == Lease(c, {f})
           head == First(d, d.lease)
           eligible == {i \in Runnable(d) \ d.lease : d.inputs[i].prepared = 0}
<1>1. c \in Cursor /\ ValidPending(c) /\ QueueFits(c) /\ b \in Cursor
  BY LeaseStart
<1>2. b = cursor /\ cursor.commit = NoCommit
  BY ReadUnmarked DEF TakeLease, AnswerInv, Unmarked
<1>3. c.commit = NoCommit
  <2>1. Grows(b, c, Missing(b, said, Settled))
    BY <1>1, ReconcileGrows
  <2> QED BY <1>2, <2>1 DEF Grows
<1>4. Runnable(c) = Pending(c)
  BY <1>1 DEF QueueFits, TextOnly, Runnable, Terminal, Pending
<1>5. CASE Runnable(c) = {}
  <2>1. cursor' = c /\ Rests
    BY <1>5 DEF TakeLease, Rests
  <2> QED BY <1>1, <2>1, RestLeased
<1>6. CASE Runnable(c) # {}
  <2> HIDE DEF b, c
  <2>1. f \in Pending(c) /\ \A j \in Pending(c) \ {f} : Before(c, f, j)
    BY <1>1, <1>4, <1>6, FirstExists
  <2> HIDE DEF f
  <2>2. /\ QueueFits(d) /\ d \in Cursor /\ d.lease # {}
        /\ d.inputs = c.inputs /\ d.commit = NoCommit
    BY <1>1, <1>3, <2>1, LeaseQueue
  <2> HIDE DEF d
  <2>3. Runnable(d) = Pending(d) /\ d.lease \in SUBSET Pending(d) /\ ValidPending(d)
    <3>1. Pending(d) = Pending(c)
      BY <2>2 DEF Pending
    <3>2. d.nextSeq = c.nextSeq
      BY <1>1 DEF d, Lease, Cursor
    <3>3. ValidPending(d)
      BY <1>1, <2>2, <3>1, <3>2 DEF ValidPending
    <3> QED BY <2>2, <3>3 DEF QueueFits, LeaseFits, Heads, TextOnly, Runnable, Terminal, Pending
  <2>4. head \in d.lease /\ \A j \in d.lease \ {head} : Before(d, head, j)
    BY <2>2, <2>3, FirstExists
  <2> HIDE DEF head
  <2>5. ASSUME d.inputs[head].prepared = 0 PROVE Prepared(d) = {}
    <3> SUFFICES ASSUME NEW p \in Prepared(d) PROVE FALSE
      OBVIOUS
    <3>1. p \in Pending(d) /\ head \in Pending(d) /\ p # head
      BY <2>3, <2>4, <2>5 DEF Prepared
    <3>2. Before(d, head, p)
      <4>1. d.inputs[p].seq \in Nat /\ d.inputs[head].seq \in Nat
        BY <2>2, <3>1, SlotTyped DEF Pending
      <4>2. d.inputs[p].seq # d.inputs[head].seq
        BY <2>3, <3>1 DEF ValidPending
      <4>3. Before(d, p, head) => p \in d.lease
        BY <2>2, <2>4, <3>1 DEF QueueFits, LeaseFits, Heads
      <4>4. p \in d.lease => Before(d, head, p)
        BY <2>4, <3>1
      <4> QED BY <4>1, <4>2, <4>3, <4>4 DEF Before
    <3>3. head \in Prepared(d)
      BY <2>2, <3>1, <3>2 DEF QueueFits, PreparedFirst, Heads
    <3> QED BY <2>5, <3>3 DEF Prepared
  <2>6. PICK more \in SUBSET eligible :
           /\ more # {} => AppendMode /\ d.inputs[head].prepared = 0
           /\ \A i \in more : \A j \in eligible : Before(d, j, i) => j \in more
           /\ cursor' = Extend(d, more)
           /\ job' = [NoJob EXCEPT !.ids = d.lease \cup more, !.active = head,
                                   !.seq = d.leaseSeq, !.origin = "start"]
           /\ pc' = "begin"
    BY <1>6 DEF TakeLease, head, d, f, c, b
  <2>7. QueueFits(cursor')
    <3>1. CASE more = {}
      <4>1. Light(d, Extend(d, more))
        BY <2>2, <3>1, LeaseSame DEF Light, Extend, Cursor, QueueFits, TextOnly
      <4> QED BY <2>2, <2>6, <4>1, LightQueue
    <3>2. CASE more # {}
      <4>1. Prepared(d) = {}
        BY <2>5, <2>6, <3>2
      <4>2. eligible = Pending(d) \ d.lease
        BY <2>3, <4>1 DEF Prepared
      <4>3. /\ more \in SUBSET Pending(d)
            /\ \A i \in more : \A j \in Pending(d) \ d.lease : Before(d, j, i) => j \in more
        BY <2>6, <4>2
      <4> QED BY <2>2, <2>6, <4>1, <4>3, ExtendQueue
    <3> QED BY <3>1, <3>2
  <2>8. cursor'.lease = d.lease \cup more /\ cursor'.leaseSeq = d.leaseSeq
    BY <2>2, <2>6 DEF Extend, Cursor
  <2>9. job'.ids = d.lease \cup more /\ job'.seq = d.leaseSeq /\ job'.adding = {}
    BY <2>6, NoJobTyped DEF NoJob, Job
  <2>10. images' = images
    BY DEF TakeLease
  <2>11. OperationLeased'
    BY <2>6, <2>8, <2>9 DEF OperationLeased
  <2> QED BY <2>7, <2>10, <2>11 DEF LeaseInv
<1> QED BY <1>5, <1>6

LEMMA BeginLeased ==
    ASSUME IInv, AnswerInv, LeaseInv, Ordered', BeginOperation
    PROVE  LeaseInv'
<1>1. pc = "begin" /\ Read(cursor) = cursor /\ cursor \in Cursor /\ QueueFits(cursor)
  BY LeaseStart, OperationRead DEF BeginOperation
<1>2. CASE cursor' = Read(cursor) /\ pc' = "idle"
  BY <1>1, <1>2, RestLeased DEF Rests, BeginOperation
<1>3. CASE /\ cursor' = Begin(cursor, job.ids) /\ pc' = "run" /\ images' = images
           /\ job' = [job EXCEPT !.gen = cursor.opGen + 1, !.tracked = job.ids,
                                 !.before = [i \in Inputs |-> cursor.inputs[i].attempts],
                                 !.task = "preparing", !.origin = "finish"]
  <2>1. Light(cursor, cursor')
    <3>1. 1 \in Inputs
      BY BoundsAssumption DEF Inputs
    <3> QED BY <1>1, <1>3, <3>1, AttemptsLight DEF QueueFits
  <2>2. QueueFits(cursor') /\ cursor'.lease = cursor.lease
    BY <1>1, <2>1, LightQueue DEF Light
  <2>3. job'.tracked = job.ids /\ job'.adding = job.adding /\ job'.task = "preparing"
    BY <1>3 DEF IInv, TypeOK, Job
  <2>4. job.ids = cursor.lease /\ job.adding = {}
    BY <1>1 DEF LeaseInv, OperationLeased
  <2> QED BY <1>3, <2>2, <2>3, <2>4, RunLeased
<1> QED BY <1>1, <1>2, <1>3 DEF BeginOperation

\* An update of the attempts in the middle of an operation.
LEMMA RunLight ==
    ASSUME IInv, LeaseInv, Ordered', Light(cursor, cursor'), UNCHANGED images, pc' = "run",
           pc = "run", job'.tracked \cup job'.adding \subseteq cursor.lease,
           job'.task \notin {"unread", "unreadable"}
    PROVE  LeaseInv'
<1>1. QueueFits(cursor') /\ cursor'.lease = cursor.lease
  BY LightQueue, LeaseStart DEF Light
<1> QED BY <1>1, RunLeased

LEMMA SameLight == ASSUME NEW c \in Cursor, TextOnly(c) PROVE Light(c, c)
BY DEF Light, Same

LEMMA TaskLeased ==
    ASSUME IInv, AnswerInv, LeaseInv, Ordered', TaskNext
    PROVE  LeaseInv'
<1> DEFINE c == Reconcile(cursor, said, Settled)
<1>1. pc = "run" /\ pc' = "run" /\ images' = images
  BY DEF TaskNext, PrepareCall, ReadingFails, AcceptMidTurn, Answer, CallFails,
         DispatchSuperseded, TaskFrame
<1>2. /\ cursor \in Cursor /\ QueueFits(cursor) /\ TextOnly(cursor) /\ Read(cursor) = cursor
      /\ job \in Job /\ QueueFits(c) /\ c.lease = cursor.lease
  BY <1>1, LeaseStart, OperationRead DEF QueueFits
<1> HIDE DEF c
<1>3. job.tracked \cup job.adding \subseteq cursor.lease /\ images = {}
      /\ job.task \notin {"unread", "unreadable"}
  BY <1>1 DEF LeaseInv, OperationLeased
<1>4. job'.tracked = job.tracked /\ job'.adding = job.adding
      /\ job'.task \notin {"unread", "unreadable"}
  <2>1. CASE PrepareCall
    BY <1>2, <2>1 DEF PrepareCall, Task, Job
  <2>2. ASSUME NEW state, ReadingFails(state) PROVE FALSE
    BY <1>3, <2>2 DEF ReadingFails
  <2>3. ASSUME NEW i \in Inputs, AcceptMidTurn(i)
        PROVE  job'.tracked = job.tracked /\ job'.adding = job.adding /\ job'.task = job.task
    BY <1>2, <2>3 DEF AcceptMidTurn, Job
  <2>4. CASE Answer
    <3>1. PICK S : job' = [job EXCEPT !.task = "answered", !.turn = job.gen, !.ids = S]
                   \/ job' = [job EXCEPT !.task = "broken"]
      BY <2>4 DEF Answer, Task
    <3> QED BY <1>2, <3>1 DEF Job
  <2>5. ASSUME NEW state \in {"failed", "stopped"}, CallFails(state)
        PROVE  job'.tracked = job.tracked /\ job'.adding = job.adding /\ job'.task = state
    BY <1>2, <2>5 DEF CallFails, Task, Job
  <2>6. CASE DispatchSuperseded
    BY <1>2, <2>6 DEF DispatchSuperseded, Task, Job
  <2> QED BY <1>3, <2>1, <2>2, <2>3, <2>4, <2>5, <2>6 DEF TaskNext
<1>5. Light(cursor, cursor') \/ cursor' = c
  <2>1. CASE PrepareCall
    <3>1. cursor' \in {cursor, CompleteAttachments(cursor, job.ids)}
      BY <1>2, <2>1 DEF PrepareCall
    <3> QED BY <1>2, <3>1, FailuresLight, SameLight
  <2>2. ASSUME NEW state, ReadingFails(state) \/ CallFails(state) PROVE Light(cursor, cursor')
    BY <1>2, <2>2, SameLight DEF ReadingFails, CallFails
  <2>3. ASSUME NEW i \in Inputs, AcceptMidTurn(i) PROVE Light(cursor, cursor')
    BY <1>2, <2>3, SameLight DEF AcceptMidTurn
  <2>4. CASE Answer
    <3>1. cursor' \in {cursor, c}
      BY <1>2, <2>4 DEF Answer, c
    <3> QED BY <1>2, <3>1, SameLight
  <2>5. CASE DispatchSuperseded
    <3>1. cursor' = ReleaseAttempts(cursor, job.ids, job.before)
      BY <1>2, <2>5 DEF DispatchSuperseded
    <3> QED BY <1>2, <3>1, FailuresLight
  <2> QED BY <2>1, <2>2, <2>3, <2>4, <2>5 DEF TaskNext
<1>6. CASE Light(cursor, cursor')
  BY <1>1, <1>3, <1>4, <1>6, RunLight
<1>7. CASE cursor' = c
  BY <1>1, <1>2, <1>3, <1>4, <1>7, RunLeased
<1> QED BY <1>5, <1>6, <1>7

LEMMA AcceptLeased ==
    ASSUME IInv, AnswerInv, LeaseInv, Ordered', AcceptCommand
    PROVE  LeaseInv'
<1> DEFINE adds == pc = "run" /\ AppendMode
           c == IF adds \/ pc = "idle" THEN Reconcile(Read(cursor), said, Settled) ELSE cursor
           new == IF adds THEN Runnable(c) \ job.tracked ELSE {}
           leased == c.lease # {} /\ c.leaseSeq = job.seq
<1>1. c \in Cursor /\ QueueFits(c) /\ TextOnly(c)
  BY LeaseStart DEF QueueFits
<1>2. /\ pc \in {"idle", "run"} /\ job.adding = {} /\ pc' = pc /\ images' = images
      /\ cursor' = IF leased THEN Extend(c, new) ELSE c
      /\ job' = IF leased THEN [job EXCEPT !.adding = new] ELSE job
  BY DEF AcceptCommand, ActorFrame
<1>3. c.lease \subseteq Pending(c) /\ Runnable(c) = Pending(c)
  BY <1>1 DEF QueueFits, LeaseFits, Heads, TextOnly, Runnable, Terminal, Pending
<1>4. /\ Extend(c, new).lease = c.lease \cup new
      /\ new = {} => Light(c, Extend(c, new))
  <2> HIDE DEF c, new
  <2>1. Same(c, Extend(c, new))
    BY <1>1, LeaseSame
  <2>2. /\ Extend(c, new).lease = c.lease \cup new /\ Extend(c, new).inputs = c.inputs
        /\ Extend(c, new).leaseSeq = c.leaseSeq /\ Extend(c, new).nextDispatch = c.nextDispatch
    BY <1>1 DEF Extend, Cursor
  <2> QED BY <1>1, <2>1, <2>2 DEF Light, TextOnly
<1>5. pc = "run" => /\ c.commit = NoCommit /\ job \in Job
                    /\ job.tracked \subseteq cursor.lease
                    /\ c.lease = cursor.lease
                    /\ job.task \notin {"unread", "unreadable"}
  BY OperationRead DEF LeaseInv, OperationLeased
<1>6. CASE new = {} \/ ~leased
  <2>1. cursor' = c \/ (cursor' = Extend(c, new) /\ new = {})
    <3>1. CASE ~leased
      BY <1>2, <3>1
    <3>2. CASE leased /\ new = {}
      <4>1. cursor' = Extend(c, new)
        BY <1>2, <3>2
      <4> QED BY <3>2, <4>1
    <3> QED BY <1>6, <3>1, <3>2
  <2>2. QueueFits(cursor') /\ cursor'.lease = c.lease
    <3> HIDE DEF c, new
    <3> QED BY <1>1, <1>4, <2>1, LightQueue
  <2>3. CASE pc = "idle"
    BY <1>2, <2>2, <2>3, RestLeased DEF Rests
  <2>4. CASE pc = "run"
    <3>1. job'.tracked = job.tracked /\ job'.adding = {} /\ job'.task = job.task
      <4> HIDE DEF c, new, leased
      <4> QED BY <1>2, <1>5, <1>6, <2>4 DEF Job
    <3> QED BY <1>2, <1>5, <2>2, <2>4, <3>1, RunLeased
  <2> QED BY <1>2, <2>3, <2>4
<1>7. CASE new # {} /\ leased
  <2>1. pc = "run" /\ pc' = "run" /\ c.lease \cup new = Pending(c)
        /\ new = Pending(c) \ job.tracked
    BY <1>2, <1>3, <1>5, <1>7
  <2>2. cursor' = Extend(c, new) /\ job' = [job EXCEPT !.adding = new] /\ c.lease # {}
    BY <1>2, <1>7
  <2> HIDE DEF c, new
  <2>3. QueueFits(cursor') /\ cursor'.lease = c.lease \cup new
    BY <1>1, <1>4, <1>5, <2>1, <2>2, ExtendAllQueue
  <2>4. job'.tracked = job.tracked /\ job'.adding = new /\ job'.task = job.task
    BY <1>5, <2>1, <2>2 DEF Job
  <2> QED BY <1>2, <1>5, <2>1, <2>3, <2>4, RunLeased
<1> QED BY <1>6, <1>7

LEMMA AppendLeased ==
    ASSUME IInv, AnswerInv, LeaseInv, Ordered', AppendRestarts \/ AppendSends
    PROVE  LeaseInv'
<1>1. /\ pc = "run" /\ pc' = "run" /\ images' = images /\ job.adding # {}
  BY DEF AppendRestarts, AppendSends, ActorFrame
<1>2. /\ cursor \in Cursor /\ QueueFits(cursor) /\ TextOnly(cursor) /\ Read(cursor) = cursor
      /\ job \in Job /\ ValidPending(cursor)
  BY <1>1, LeaseStart, OperationRead DEF QueueFits
<1>3. job.tracked \cup job.adding \subseteq cursor.lease
      /\ job.task \notin {"unread", "unreadable"} /\ cursor.lease \subseteq Pending(cursor)
  BY <1>1, <1>2 DEF LeaseInv, OperationLeased, QueueFits, LeaseFits, Heads
<1>4. ASSUME AppendRestarts
      PROVE  /\ Light(cursor, cursor') /\ job'.tracked \cup job'.adding \subseteq cursor.lease
             /\ job'.task = job.task
  <2>1. cursor' \in {cursor, RequestRestart(cursor, job.ids)}
    BY <1>2, <1>4 DEF AppendRestarts
  <2>2. 1 \in Inputs
    BY BoundsAssumption DEF Inputs
  <2>3. Light(cursor, cursor')
    BY <1>2, <2>1, <2>2, AttemptsLight, SameLight
  <2>4. /\ job'.adding = {} /\ job'.tracked = job.tracked \cup job.adding
        /\ job'.task = job.task
    BY <1>2, <1>4 DEF AppendRestarts, Job
  <2> QED BY <1>3, <2>3, <2>4
<1>5. ASSUME AppendSends
      PROVE  /\ Light(cursor, cursor') /\ job'.tracked \cup job'.adding \subseteq cursor.lease
             /\ job'.task = job.task
  <2> DEFINE i == First(cursor, job.adding)
  <2>1. i \in job.adding /\ i \in Inputs
    BY <1>1, <1>2, <1>3, FirstExists DEF Pending
  <2>2. \/ cursor' = cursor
        \/ cursor' = [cursor EXCEPT !.inputs =
                          [cursor.inputs EXCEPT ![i] = BeginAttempt(cursor.inputs[i])]]
    BY <1>2, <1>5 DEF AppendSends
  <2>3. \/ job' = [job EXCEPT !.adding = job.adding \ {i}, !.sent = job.sent \cup {i},
                              !.tracked = job.tracked \cup {i}]
        \/ job' = [job EXCEPT !.adding = {}, !.restart = TRUE]
        \/ job' = [job EXCEPT !.adding = {}]
    BY <1>2, <1>5 DEF AppendSends
  <2> HIDE DEF i
  <2>4. Light(cursor, cursor')
    BY <1>2, <2>1, <2>2, AttemptsLight, SameLight
  <2>5. /\ job'.tracked \subseteq job.tracked \cup {i} /\ job'.adding \subseteq job.adding
        /\ job'.task = job.task
    BY <1>2, <2>3 DEF Job
  <2> QED BY <1>3, <2>1, <2>4, <2>5
<1> QED BY <1>1, <1>3, <1>4, <1>5, RunLight

LEMMA FailRests == ASSUME FailCommit, UNCHANGED images PROVE Rests
BY DEF FailCommit, Rests

LEMMA CollectLeased ==
    ASSUME IInv, AnswerInv, LeaseInv, Ordered',
           CollectRestart \/ CollectFailure \/ CollectUnread \/ ReserveCommit
    PROVE  LeaseInv'
<1>1. pc = "run" /\ images' = images
  BY DEF CollectRestart, CollectFailure, CollectUnread, ReserveCommit, Collectable, Collect, ActorFrame
<1>2. /\ cursor \in Cursor /\ QueueFits(cursor) /\ TextOnly(cursor) /\ Read(cursor) = cursor
  BY <1>1, LeaseStart, OperationRead DEF QueueFits
<1>3. CASE CollectRestart
  BY <1>1, <1>2, <1>3, RestLeased DEF CollectRestart, Rests
<1>4. CASE CollectFailure
  <2>1. \/ cursor' = cursor
        \/ cursor' = RecordFailure(cursor, job.active, job.task = "stopped")
    BY <1>2, <1>4 DEF CollectFailure
  <2>2. Light(cursor, RecordFailure(cursor, job.active, job.task = "stopped"))
    BY <1>2, FailuresLight
  <2>3. QueueFits(cursor')
    BY <1>2, <2>1, <2>2, LightQueue
  <2>4. Rests
    BY <1>1, <1>4 DEF CollectFailure, Settling, Rests
  <2> QED BY <2>3, <2>4, RestLeased
<1>5. CASE CollectUnread
  BY <1>1, <1>5 DEF CollectUnread, Collect, LeaseInv, OperationLeased
<1>6. CASE ReserveCommit
  <2>1. CASE CanReserve(cursor, job.gen, job.seq, job.ids)
    <3>1. cursor' = Reserve(cursor, job.seq, job.ids, job.turn) /\ pc' = "mark"
      BY <1>2, <1>6, <2>1 DEF ReserveCommit
    <3>2. QueueFits(cursor')
      BY <1>2, <2>1, <3>1, ReserveQueue DEF CanReserve
    <3> QED BY <1>1, <3>1, <3>2, RestLeased DEF Rests
  <2>2. CASE ~CanReserve(cursor, job.gen, job.seq, job.ids)
    BY <1>1, <1>2, <1>6, <2>2, FailRests, RestLeased DEF ReserveCommit
  <2> QED BY <2>1, <2>2
<1> QED BY <1>3, <1>4, <1>5, <1>6

LEMMA CommitLeased ==
    ASSUME IInv, AnswerInv, LeaseInv, Ordered', CommitNext
    PROVE  LeaseInv'
<1> DEFINE c == Read(cursor)
<1>1. /\ c \in Cursor /\ QueueFits(c) /\ ValidPending(c)
      /\ cursor \in Cursor /\ QueueFits(cursor) /\ job \in Job
  BY LeaseStart DEF IInv, TypeOK
<1>2. Rests
  BY DEF CommitNext, MarkCommit, PrepareResponse, StartResponse, LogResponse, PublishResponse,
         FinalizeCommit, CommitFrame, Continue, FailCommit, AfterRecovery, Rests
<1>3. job.turn \in Responses
  BY DEF CommitNext, MarkCommit, PrepareResponse, StartResponse, LogResponse, PublishResponse,
         FinalizeCommit, CommitSteps, IInv, OperationKnown, TypeOK, Job
<1>4. CASE LogResponse \/ PublishResponse
  BY <1>1, <1>2, <1>4, RestLeased DEF LogResponse, PublishResponse
<1>5. CASE MarkCommit
  <2>1. \/ cursor' = MarkPersisting(c) /\ c.commit # NoCommit
        \/ cursor' = PrepareRecovery(c)
    BY <1>5 DEF MarkCommit, NoCommit
  <2> HIDE DEF c
  <2>2. QueueFits(cursor')
    BY <1>1, <2>1, MarkQueue, PrepareRecoveryQueue
  <2> QED BY <1>2, <2>2, RestLeased
<1>6. CASE PrepareResponse
  <2>1. cursor.commit = Marker(job) /\ c = cursor /\ job.ids \subseteq Pending(cursor)
    BY <1>6 DEF PrepareResponse, AnswerInv, CommitFits, Read
  <2>2. cursor' \in {cursor, Prepare(cursor, job.ids, job.turn)}
    BY <1>6, <2>1 DEF PrepareResponse
  <2>3. cursor.commit # NoCommit /\ cursor.commit.ids = job.ids
    BY <2>1 DEF Marker, NoCommit
  <2>4. QueueFits(cursor')
    BY <1>1, <1>3, <2>1, <2>2, <2>3, PrepareQueue
  <2> QED BY <1>2, <2>4, RestLeased
<1>7. CASE StartResponse
  <2>1. cursor' = c \/ (cursor' = Start(c, job.ids) /\ CanStart(c, job.ids, job.turn))
    <3>1. CASE CanStart(c, job.ids, job.turn)
      BY <1>7, <3>1 DEF StartResponse
    <3>2. CASE ~CanStart(c, job.ids, job.turn)
      BY <1>7, <3>2 DEF StartResponse
    <3> QED BY <3>1, <3>2
  <2> HIDE DEF c
  <2>2. QueueFits(cursor')
    BY <1>1, <1>3, <2>1, StartQueue
  <2> QED BY <1>2, <2>2, RestLeased
<1>8. CASE FinalizeCommit
  <2> DEFINE e == Finalize(c, job.ids)
  <2>1. cursor' \in {c, e, Reconcile(e, said, Settled)}
    BY <1>8 DEF FinalizeCommit
  <2>2. e \in Cursor /\ QueueFits(e) /\ ValidPending(e)
    BY <1>1, FinalizeTyped, FinalizeQueue, FinalizeKept, KeptValid
  <2> HIDE DEF c, e
  <2>3. QueueFits(cursor')
    BY <1>1, <2>1, <2>2, ReconcileQueue
  <2> QED BY <1>2, <2>3, RestLeased
<1> QED BY <1>4, <1>5, <1>6, <1>7, <1>8 DEF CommitNext

LEMMA UserLeased ==
    ASSUME IInv, AnswerInv, LeaseInv, Ordered', UserNext
    PROVE  LeaseInv'
<1> DEFINE c == Read(cursor)
<1>1. /\ c \in Cursor /\ QueueFits(c) /\ QueueFits(cursor)
  BY LeaseStart
<1>2. CASE CancelActive
  <2>1. job.active \in Inputs
    BY <1>2 DEF CancelActive, IInv, OperationKnown, TypeOK, Job
  <2>2. QueueFits(cursor')
    BY <1>1, <1>2, <2>1, CancelQueue DEF CancelActive
  <2>3. Rests
    BY <1>2 DEF CancelActive, Rests
  <2> QED BY <2>2, <2>3, RestLeased
<1>3. ASSUME NEW i \in Inputs, RetryAttachment(i) PROVE FALSE
  BY <1>1, <1>3 DEF RetryAttachment, Terminal, QueueFits, TextOnly
<1>4. ASSUME NEW i \in Inputs, CancelGivenUp(i) \/ RetryAsCopy(i) PROVE LeaseInv'
  <2>1. cursor' \in {Cancel(c, i), CancelAfterTermination(c, i)}
    BY <1>4 DEF CancelGivenUp, RetryAsCopy
  <2> HIDE DEF c
  <2>2. QueueFits(cursor')
    BY <1>1, <2>1, CancelQueue
  <2>3. Rests
    BY <1>4 DEF CancelGivenUp, RetryAsCopy, ActorFrame, Rests
  <2> QED BY <2>2, <2>3, RestLeased
<1> QED BY <1>2, <1>3, <1>4 DEF UserNext

LEMMA CopyLeased ==
    ASSUME IInv, LeaseInv, Ordered', SayCopy \/ EnqueueCopy
    PROVE  LeaseInv'
<1> DEFINE c == Read(cursor)
<1>1. /\ c \in Cursor /\ QueueFits(c) /\ QueueFits(cursor) /\ ValidPending(c)
  BY LeaseStart
<1>2. CASE SayCopy
  <2>1. Rests /\ cursor' = cursor
    BY <1>2 DEF SayCopy, LeaseInv, Rests
  <2> QED BY <1>1, <2>1, RestLeased
<1>3. CASE EnqueueCopy
  <2>1. job.copy \in Inputs
    BY <1>3 DEF EnqueueCopy, IInv, OperationKnown, TypeOK, Job
  <2>2. \/ cursor' = c
        \/ cursor' = Enqueue(c, job.copy) /\ job.copy \notin Pending(c) \cup c.cancelled
    BY <1>3 DEF EnqueueCopy
  <2> HIDE DEF c
  <2>3. QueueFits(cursor')
    BY <1>1, <2>1, <2>2, EnqueueQueue
  <2>4. Rests
    BY <1>3 DEF EnqueueCopy, ActorFrame, Rests
  <2> QED BY <2>3, <2>4, RestLeased
<1> QED BY <1>2, <1>3

LEMMA FaultLeased ==
    ASSUME IInv, LeaseInv, Ordered', FaultNext
    PROVE  LeaseInv'
<1>1. QueueFits(cursor) /\ Read(cursor) \in Cursor /\ QueueFits(Read(cursor))
  BY LeaseStart
<1>2. cursor' \in {cursor, PrepareRecovery(Read(cursor))}
  BY DEF FaultNext, Crash, Interrupt, CommitStepFails, StartStepFails, durable
<1>3. QueueFits(cursor')
  BY <1>1, <1>2, PrepareRecoveryQueue
<1>4. Rests
  BY DEF FaultNext, Crash, Interrupt, CommitStepFails, StartStepFails, durable, FailCommit, Rests
<1> QED BY <1>3, <1>4, RestLeased

LEMMA InitLeased == Init => LeaseInv
<1> SUFFICES ASSUME Init PROVE LeaseInv
  OBVIOUS
<1>1. \A i \in Inputs : DefaultCursor.inputs[i] = Absent
  BY DEF DefaultCursor
<1>2. Pending(cursor) = {} /\ cursor.lease = {} /\ cursor.commit = NoCommit
  BY <1>1 DEF Init, Pending, DefaultCursor, Absent
<1>3. QueueFits(cursor)
  BY <1>1, <1>2 DEF Init, QueueFits, LeaseFits, PreparedFirst, MarkerLeased, TextOnly, Heads,
                    Covers, AtMostOne, Prepared, Absent
<1>4. Ordered
  BY InitOrdered
<1> QED BY <1>3, <1>4 DEF Init, LeaseInv, OperationLeased

LEMMA LeaseStep ==
    ASSUME ~WithImages, IInv, AnswerInv, LeaseInv, [Next]_vars
    PROVE  LeaseInv'
<1>1. Ordered'
  BY OrderedStep DEF LeaseInv
<1>2. CASE HandleNext
  BY <1>1, <1>2, SayLeased, EnqueueLeased DEF HandleNext
<1>3. CASE ActorNext
  BY <1>1, <1>3, StartLeased, RecoverLeased, TakeLeaseLeased, BeginLeased, AcceptLeased,
     AppendLeased, CollectLeased, CommitLeased, CopyLeased DEF ActorNext
<1>4. CASE TaskNext \/ UserNext \/ FaultNext
  BY <1>1, <1>4, TaskLeased, UserLeased, FaultLeased
<1>5. CASE UNCHANGED vars
  BY <1>5 DEF vars, LeaseInv, OperationLeased, Ordered
<1> QED BY <1>2, <1>3, <1>4, <1>5 DEF Next

\* In a conversation without images every read of cursor.json succeeds, for any
\* number of messages, operations and faults, with and without input in the
\* middle of a call: nothing ever leaves the lease other than the head of the
\* queue, which validate_user_dispatch would refuse for good.
THEOREM TextIsReadable == ASSUME ~WithImages PROVE Spec => []CursorReadable
<1>1. Init => IInv /\ AnswerInv /\ LeaseInv
  BY InitTyped, InitAnswers, InitLeased
<1>2. IInv /\ AnswerInv /\ LeaseInv /\ [Next]_vars => (IInv /\ AnswerInv /\ LeaseInv)'
  BY StepTyped, AnswersStep, LeaseStep
<1>3. IInv /\ LeaseInv => CursorReadable
  BY QueueIsReadable, LeaseStart DEF CursorReadable
<1> QED BY <1>1, <1>2, <1>3, PTL DEF Spec

----------------------------------------------------------------------------
(* What a message was charged. An attempt that ends without an answer is   *)
(* charged when the operation ends, so that until then a message has one    *)
(* attempt more than were spent. Nothing else than the beginning of an      *)
(* operation adds an attempt, and nothing else than a failure forbids one. *)

\* No attempt was added and none was forbidden.
Cheap(c, d) ==
    \A i \in Pending(d) :
        \/ /\ i \in Pending(c)
           /\ d.inputs[i].attempts <= c.inputs[i].attempts
           /\ d.inputs[i].stop => c.inputs[i].stop
        \/ d.inputs[i].attempts = 0 /\ ~d.inputs[i].stop

LEMMA CheapTransitive ==
    ASSUME NEW c \in Cursor, NEW d \in Cursor, NEW e \in Cursor, Cheap(c, d), Cheap(d, e)
    PROVE  Cheap(c, e)
<1>1. ASSUME NEW i \in Inputs
      PROVE  /\ c.inputs[i].attempts \in Nat /\ d.inputs[i].attempts \in Nat
             /\ e.inputs[i].attempts \in Nat
  BY SlotTyped, BoundsAssumption DEF PendingInput
<1> QED BY <1>1 DEF Cheap, Pending

\* A slot that is left, or only loses its preparation, costs nothing.
LEMMA CheapSlots ==
    ASSUME NEW c \in Cursor, NEW d,
           \A i \in Pending(d) : /\ i \in Pending(c)
                                 /\ d.inputs[i].attempts = c.inputs[i].attempts
                                 /\ d.inputs[i].stop = c.inputs[i].stop
    PROVE  Cheap(c, d)
<1>1. ASSUME NEW i \in Inputs PROVE c.inputs[i].attempts \in Nat
  BY SlotTyped, BoundsAssumption DEF PendingInput
<1> QED BY <1>1 DEF Cheap, Pending

LEMMA CheapSame == ASSUME NEW c \in Cursor PROVE Cheap(c, c)
BY CheapSlots

LEMMA DiscardCheap ==
    ASSUME NEW c \in Cursor, NEW S, NEW d, d.inputs = DiscardPreparation(c, S).inputs
    PROVE  Cheap(c, d)
<1>1. ASSUME NEW i \in Inputs
      PROVE  /\ d.inputs[i].attempts = c.inputs[i].attempts
             /\ d.inputs[i].stop = c.inputs[i].stop
             /\ d.inputs[i].seq = c.inputs[i].seq
  <2>1. d.inputs[i] = IF i \in S THEN [c.inputs[i] EXCEPT !.prepared = 0, !.started = FALSE]
                                 ELSE c.inputs[i]
    BY DEF DiscardPreparation, Cursor
  <2> QED BY <2>1, SlotTyped DEF PendingInput
<1> QED BY <1>1, CheapSlots DEF Pending

LEMMA ReadCheap == ASSUME NEW c \in Cursor PROVE Cheap(c, Read(c))
<1>1. CASE ValidCommit(c)
  BY <1>1, CheapSame DEF Read
<1>2. CASE ~ValidCommit(c)
  <2>1. Read(c).inputs = DiscardPreparation(c, c.commit.ids \cup c.lease).inputs
    BY <1>2 DEF Read, DropLease, DiscardPreparation, Cursor
  <2> QED BY <2>1, DiscardCheap
<1> QED BY <1>1, <1>2

\* The updates of the lease and the marker leave the slots.
LEMMA SlotsKept ==
    ASSUME NEW c \in Cursor, NEW d, d.inputs = c.inputs
    PROVE  Cheap(c, d)
BY CheapSlots DEF Pending

LEMMA RecoveryCheap ==
    ASSUME NEW c \in Cursor, NEW k
    PROVE  Cheap(c, PrepareRecovery(c)) /\ Cheap(c, ReleaseRecovery(c, k))
<1>1. PrepareRecovery(c).inputs = c.inputs
  BY DEF PrepareRecovery, DropMatchingLease, DropLease, Cursor
<1>2. \/ ReleaseRecovery(c, k) = c
      \/ ReleaseRecovery(c, k).inputs = DiscardPreparation(c, k.ids).inputs
  BY DEF ReleaseRecovery, DropMatchingLease, DropLease, DiscardPreparation, Cursor
<1> QED BY <1>1, <1>2, SlotsKept, DiscardCheap

LEMMA CommitCheap ==
    ASSUME NEW c \in Cursor, NEW S, NEW r, NEW n
    PROVE  /\ Cheap(c, Reserve(c, n, S, r)) /\ Cheap(c, MarkPersisting(c))
           /\ Cheap(c, Prepare(c, S, r)) /\ Cheap(c, Start(c, S))
<1>1. Reserve(c, n, S, r).inputs = c.inputs /\ MarkPersisting(c).inputs = c.inputs
  BY DEF Reserve, MarkPersisting, Cursor
<1>2. ASSUME NEW i \in Inputs
      PROVE  /\ Prepare(c, S, r).inputs[i].attempts = c.inputs[i].attempts
             /\ Prepare(c, S, r).inputs[i].stop = c.inputs[i].stop
             /\ Prepare(c, S, r).inputs[i].seq = c.inputs[i].seq
             /\ Start(c, S).inputs[i].attempts = c.inputs[i].attempts
             /\ Start(c, S).inputs[i].stop = c.inputs[i].stop
             /\ Start(c, S).inputs[i].seq = c.inputs[i].seq
  BY SlotTyped DEF Prepare, Start, Cursor, PendingInput
<1> QED BY <1>1, <1>2, SlotsKept, CheapSlots DEF Pending

\* What leaves the queue costs nothing.
LEMMA GoneCheap ==
    ASSUME NEW c \in Cursor, NEW S, NEW d, d.inputs = Remove(c, S).inputs
    PROVE  Cheap(c, d) /\ Pending(d) = Pending(c) \ S
<1>1. ASSUME NEW i \in Inputs
      PROVE  d.inputs[i] = IF i \in S THEN Absent ELSE c.inputs[i]
  BY DEF Remove, Cursor
<1>2. Pending(d) = Pending(c) \ S
  BY <1>1 DEF Pending, Absent
<1> QED BY <1>1, <1>2, CheapSlots DEF Pending

LEMMA RemovalsCheap ==
    ASSUME NEW c \in Cursor, NEW S, NEW i
    PROVE  /\ Cheap(c, Cancel(c, i)) /\ Cheap(c, CancelAfterTermination(c, i))
           /\ Cheap(c, RemoveSettled(c, S))
           /\ Cheap(c, Finalize(c, S)) /\ Pending(Finalize(c, S)) = Pending(c) \ S
<1>1. \/ Cancel(c, i) = c \/ Cancel(c, i).inputs = Remove(c, {i}).inputs
  BY DEF Cancel, Remove
<1>2. CancelAfterTermination(c, i).inputs = Remove(c, {i}).inputs
  BY DEF CancelAfterTermination, ForgetCommitOf, Remove
<1>3. RemoveSettled(c, S).inputs = Remove(c, S).inputs
  BY DEF RemoveSettled, ForgetCommitOf, Remove
<1>4. Finalize(c, S).inputs = Remove(c, S).inputs
  BY DEF Finalize, DropLease, Remove
<1> QED BY <1>1, <1>2, <1>3, <1>4, CheapSame, GoneCheap

\* A message that comes to the queue has cost nothing yet.
LEMMA EnqueueCheap ==
    ASSUME NEW c \in Cursor, NEW j \in Inputs
    PROVE  Cheap(c, Enqueue(c, j))
<1>1. ASSUME NEW i \in Inputs
      PROVE  Enqueue(c, j).inputs[i] = IF i = j THEN Fresh(c.nextSeq + 1) ELSE c.inputs[i]
  BY DEF Enqueue, Cursor
<1>2. ASSUME NEW i \in Inputs PROVE c.inputs[i].attempts \in Nat
  BY SlotTyped, BoundsAssumption DEF PendingInput
<1> QED BY <1>1, <1>2 DEF Cheap, Pending, Fresh, Absent

LEMMA ReconcileCheap ==
    ASSUME NEW c \in Cursor, NEW n, NEW settled
    PROVE  Cheap(c, Reconcile(c, n, settled))
<1> DEFINE M == Missing(c, n, settled)
<1>1. ASSUME NEW i \in Inputs
      PROVE  Reconcile(c, n, settled).inputs[i] =
                 IF i \in M THEN Fresh(c.nextSeq + Rank(M, i)) ELSE c.inputs[i]
  BY DEF Reconcile, Cursor
<1>2. ASSUME NEW i \in Inputs PROVE c.inputs[i].attempts \in Nat
  BY SlotTyped, BoundsAssumption DEF PendingInput
<1> DEFINE d == Reconcile(c, n, settled)
<1>3. ASSUME NEW i \in Inputs
      PROVE  \/ d.inputs[i].attempts = 0 /\ ~d.inputs[i].stop
             \/ d.inputs[i] = c.inputs[i]
  <2> HIDE DEF M
  <2> QED BY <1>1 DEF Fresh, Absent
<1> HIDE DEF d
<1>4. Cheap(c, d)
  BY <1>2, <1>3 DEF Cheap, Pending
<1> QED BY <1>4 DEF d

\* An attempt that is given back, or that no image delays.
LEMMA ReturnsCheap ==
    ASSUME NEW c \in Cursor, TextOnly(c), NEW S, NEW j
    PROVE  /\ Cheap(c, RequestRestart(c, S))
           /\ Cheap(c, CompleteAttachments(c, S))
           /\ Cheap(c, RecordFailure(c, j, FALSE))
<1>1. ASSUME NEW i \in Inputs
      PROVE  /\ c.inputs[i].attempts \in Nat /\ c.inputs[i] \in PendingInput
             /\ c.inputs[i].attachment = "none"
  BY SlotTyped, BoundsAssumption DEF PendingInput, TextOnly
<1>2. Cheap(c, RequestRestart(c, S))
  <2>1. ASSUME NEW i \in Inputs
        PROVE  LET x == RequestRestart(c, S).inputs[i] IN
               /\ x.attempts <= c.inputs[i].attempts /\ x.stop = c.inputs[i].stop
               /\ x.seq = c.inputs[i].seq
    BY <1>1 DEF RequestRestart, ReturnAttempt, Cursor, PendingInput
  <2> QED BY <2>1 DEF Cheap, Pending
<1>3. Cheap(c, CompleteAttachments(c, S))
  <2>1. ASSUME NEW i \in Inputs PROVE CompleteAttachments(c, S).inputs[i] = c.inputs[i]
    BY <1>1 DEF CompleteAttachments, Cursor
  <2> QED BY <2>1, CheapSlots DEF Pending
<1>4. Cheap(c, RecordFailure(c, j, FALSE))
  <2>1. ASSUME NEW i \in Inputs
        PROVE  LET x == RecordFailure(c, j, FALSE).inputs[i] IN
               /\ x.attempts <= c.inputs[i].attempts /\ (x.stop => c.inputs[i].stop)
               /\ x.seq = c.inputs[i].seq
    BY <1>1 DEF RecordFailure, Cursor, PendingInput
  <2> QED BY <2>1 DEF Cheap, Pending
<1> QED BY <1>2, <1>3, <1>4

\* F are the messages whose attempt is under way.
ChargedBy(c, s, F) ==
    \A i \in Pending(c) :
        /\ c.inputs[i].attempts <= s[i] + 1
        /\ i \notin F => c.inputs[i].attempts <= s[i]
        /\ c.inputs[i].stop => s[i] = MaxAttempts

\* What the running operation was begun with: until it is asked to start again
\* its lease is its batch and what is being added, or there is an answer to use.
OperationCharged ==
    /\ job.sent = {} /\ job.accepted = {}
    /\ pc = "begin" => ~job.restart
    /\ pc = "run" =>
        /\ job.ids \subseteq job.tracked
        /\ ~job.restart =>
               /\ cursor.opGen = job.gen
               /\ \/ cursor.lease = job.ids \cup job.adding
                  \/ \E i \in job.ids : cursor.inputs[i].prepared # 0
        /\ job.task \in {"calling", "failed", "stopped"} =>
               \A i \in job.ids : cursor.inputs[i].prepared = 0
        /\ \A i \in job.ids :
               /\ job.before[i] <= spent[i]
               /\ cursor.inputs[i].attempts <= job.before[i] + 1
               /\ job.restart \/ job.task = "superseded"
                     => cursor.inputs[i].attempts <= job.before[i]
               /\ cursor.inputs[i].attempts = job.before[i] + 1
                     => cursor.inputs[i].prepared = 0 /\ ~cursor.inputs[i].started

ChargeInv ==
    ChargedBy(cursor, spent, Dispatched) /\ OperationCharged /\ GivenUpAfterAttempts

LEMMA ChargedStep ==
    ASSUME NEW c \in Cursor, NEW d \in Cursor, NEW F, NEW G,
           NEW s \in [Inputs -> 0 .. MaxAttempts], NEW t \in [Inputs -> 0 .. MaxAttempts],
           ChargedBy(c, s, F), Cheap(c, d), \A i \in Inputs : s[i] <= t[i],
           \A i \in F \cap Pending(d) : i \in G \/ s[i] < t[i] \/ t[i] = MaxAttempts
    PROVE  ChargedBy(d, t, G)
<1> SUFFICES ASSUME NEW i \in Pending(d)
             PROVE  /\ d.inputs[i].attempts <= t[i] + 1
                    /\ i \notin G => d.inputs[i].attempts <= t[i]
                    /\ d.inputs[i].stop => t[i] = MaxAttempts
  BY DEF ChargedBy
<1>1. /\ c.inputs[i].attempts \in Nat /\ d.inputs[i].attempts \in Nat
      /\ d.inputs[i].attempts <= MaxAttempts /\ MaxAttempts \in Nat
      /\ s[i] \in Nat /\ t[i] \in Nat /\ s[i] <= t[i] /\ t[i] <= MaxAttempts
  BY SlotTyped, BoundsAssumption DEF Pending, PendingInput
<1>2. CASE d.inputs[i].attempts = 0 /\ ~d.inputs[i].stop
  BY <1>1, <1>2
<1>3. CASE /\ i \in Pending(c)
           /\ d.inputs[i].attempts <= c.inputs[i].attempts
           /\ d.inputs[i].stop => c.inputs[i].stop
  <2>1. /\ c.inputs[i].attempts <= s[i] + 1
        /\ i \notin F => c.inputs[i].attempts <= s[i]
        /\ c.inputs[i].stop => s[i] = MaxAttempts
    BY <1>3 DEF ChargedBy
  <2>2. i \in F => i \in G \/ s[i] < t[i] \/ t[i] = MaxAttempts
    OBVIOUS
  <2> QED BY <1>1, <1>3, <2>1, <2>2
<1> QED BY <1>2, <1>3 DEF Cheap

SpentGrows == \A i \in Inputs : spent[i] <= spent'[i]

\* Who had an attempt under way still has, or was charged for it.
AttemptsEnd ==
    \A i \in Dispatched \cap Pending(cursor') :
        i \in Dispatched' \/ spent[i] < spent'[i] \/ spent'[i] = MaxAttempts

LEMMA SpendGrows ==
    ASSUME IInv, NEW S, Spend(S) \/ SpendAll(S)
    PROVE  /\ SpentGrows
           /\ \A i \in S \cap Inputs : spent[i] < spent'[i] \/ spent'[i] = MaxAttempts
<1>1. ASSUME NEW i \in Inputs
      PROVE  spent[i] \in Nat /\ spent[i] <= MaxAttempts /\ MaxAttempts \in Nat
  BY BoundsAssumption DEF IInv, TypeOK
<1>2. CASE Spend(S)
  BY <1>1, <1>2 DEF Spend, SpentGrows
<1>3. CASE SpendAll(S)
  BY <1>1, <1>3 DEF SpendAll, SpentGrows
<1> QED BY <1>2, <1>3

LEMMA SameSpent == ASSUME IInv, UNCHANGED spent PROVE SpentGrows
<1>1. ASSUME NEW i \in Inputs PROVE spent[i] \in Nat
  BY BoundsAssumption DEF IInv, TypeOK
<1> QED BY <1>1 DEF SpentGrows

LEMMA FailuresStay ==
    ASSUME IInv, IInv', SpentGrows, failures' = failures, GivenUpAfterAttempts
    PROVE  GivenUpAfterAttempts'
<1>1. ASSUME NEW i \in failures PROVE spent'[i] >= MaxAttempts
  <2>1. spent[i] \in Nat /\ spent'[i] \in Nat /\ MaxAttempts \in Nat /\ spent[i] <= spent'[i]
    BY BoundsAssumption DEF IInv, TypeOK, SpentGrows
  <2>2. spent[i] >= MaxAttempts
    BY DEF GivenUpAfterAttempts
  <2> QED BY <2>1, <2>2
<1> QED BY <1>1 DEF GivenUpAfterAttempts

LEMMA ChargeKept ==
    ASSUME IInv, IInv', ChargeInv, Cheap(cursor, cursor'), SpentGrows, AttemptsEnd,
           failures' = failures, OperationCharged'
    PROVE  ChargeInv'
<1>1. ChargedBy(cursor', spent', Dispatched')
  <2>1. /\ cursor \in Cursor /\ cursor' \in Cursor
        /\ spent \in [Inputs -> 0 .. MaxAttempts] /\ spent' \in [Inputs -> 0 .. MaxAttempts]
        /\ ChargedBy(cursor, spent, Dispatched)
    BY DEF IInv, TypeOK, ChargeInv
  <2> QED BY <2>1, ChargedStep DEF SpentGrows, AttemptsEnd
<1>2. GivenUpAfterAttempts'
  BY FailuresStay DEF ChargeInv
<1> QED BY <1>1, <1>2 DEF ChargeInv

\* A step outside of an operation.
LEMMA RestCharged ==
    ASSUME IInv, IInv', ChargeInv, Cheap(cursor, cursor'), SpentGrows, AttemptsEnd,
           failures' = failures, pc' \notin {"begin", "run"},
           job'.sent = {}, job'.accepted = {}
    PROVE  ChargeInv'
<1>1. OperationCharged'
  BY DEF OperationCharged
<1> QED BY <1>1, ChargeKept

\* ... between two operations nobody has an attempt under way.
LEMMA CalmCharged ==
    ASSUME IInv, IInv', ChargeInv, Cheap(cursor, cursor'), UNCHANGED <<spent, failures>>,
           Dispatched = {}, pc' \notin {"begin", "run"}, job'.sent = {}, job'.accepted = {}
    PROVE  ChargeInv'
<1>1. SpentGrows /\ AttemptsEnd
  BY SameSpent DEF AttemptsEnd
<1> QED BY <1>1, RestCharged

\* A step in the middle of an operation that leaves the slots of its batch.
LEMMA RunKept ==
    ASSUME IInv, IInv', ChargeInv, pc = "run", pc' = "run", UNCHANGED <<spent, failures>>,
           Cheap(cursor, cursor'), cursor'.opGen = cursor.opGen,
           \A i \in job.ids : cursor'.inputs[i] = cursor.inputs[i],
           job'.ids = job.ids, job'.gen = job.gen,
           job'.before = job.before, job'.sent = job.sent, job'.accepted = job.accepted,
           job'.restart = job.restart, job.tracked \subseteq job'.tracked,
           ~job.restart => \/ cursor'.lease = job.ids \cup job'.adding
                           \/ \E i \in job.ids : cursor.inputs[i].prepared # 0,
           job'.task \in {"calling", "failed", "stopped"} =>
               \A i \in job.ids : cursor.inputs[i].prepared = 0,
           job'.task = "superseded" => job.task = "superseded"
    PROVE  ChargeInv'
<1>1. OperationCharged'
  <2>1. OperationCharged
    BY DEF ChargeInv
  <2>2. job'.ids \subseteq job'.tracked /\ job'.sent = {} /\ job'.accepted = {}
    BY <2>1 DEF OperationCharged
  <2>3. ~job'.restart =>
           /\ cursor'.opGen = job'.gen
           /\ \/ cursor'.lease = job'.ids \cup job'.adding
              \/ \E i \in job'.ids : cursor'.inputs[i].prepared # 0
    BY <2>1 DEF OperationCharged
  <2>4. ASSUME NEW i \in job'.ids
        PROVE  /\ job'.before[i] <= spent'[i]
               /\ cursor'.inputs[i].attempts <= job'.before[i] + 1
               /\ job'.restart \/ job'.task = "superseded"
                     => cursor'.inputs[i].attempts <= job'.before[i]
               /\ cursor'.inputs[i].attempts = job'.before[i] + 1
                     => cursor'.inputs[i].prepared = 0 /\ ~cursor'.inputs[i].started
    BY <2>1, <2>4 DEF OperationCharged
  <2>5. job'.task \in {"calling", "failed", "stopped"} =>
               \A i \in job'.ids : cursor'.inputs[i].prepared = 0
    OBVIOUS
  <2> QED BY <2>2, <2>3, <2>4, <2>5 DEF OperationCharged
<1>2. AttemptsEnd
  BY DEF AttemptsEnd, Dispatched, TurnCommitLocked, CommitSteps
<1> QED BY <1>1, <1>2, ChargeKept, SameSpent

LEMMA ReadsCheap ==
    ASSUME IInv
    PROVE  LET b == Read(cursor)
               c == Reconcile(b, said, Settled)
           IN  /\ cursor \in Cursor /\ b \in Cursor /\ c \in Cursor
               /\ Cheap(cursor, cursor) /\ Cheap(cursor, b) /\ Cheap(cursor, c)
<1> DEFINE b == Read(cursor)
           c == Reconcile(b, said, Settled)
<1>1. cursor \in Cursor /\ b \in Cursor /\ c \in Cursor
  BY ReadTyped, ReconcileTyped DEF IInv, TypeOK
<1>2. Cheap(cursor, cursor) /\ Cheap(cursor, b) /\ Cheap(b, c)
  BY <1>1, CheapSame, ReadCheap, ReconcileCheap
<1> HIDE DEF b, c
<1>3. Cheap(cursor, c)
  BY <1>1, <1>2, CheapTransitive
<1> QED BY <1>1, <1>2, <1>3 DEF b, c

\* The batch of the running operation is in the queue.
LEMMA BatchPending ==
    ASSUME IInv, LeaseInv, ChargeInv, pc = "run"
    PROVE  job.ids \subseteq cursor.lease /\ job.ids \subseteq Pending(cursor)
           /\ job.ids \subseteq Inputs
BY DEF LeaseInv, OperationLeased, QueueFits, LeaseFits, Heads, ChargeInv, OperationCharged, Pending

\* What is about no operation was sent nothing.
Unsent(j) == j.sent = {} /\ j.accepted = {}

LEMMA NoneUnsent == Unsent(NoJob)
BY DEF NoJob, Unsent

LEMMA SettlingUnsent ==
    ASSUME NEW j, NEW a, j = [NoJob EXCEPT !.origin = "finish", !.active = a]
    PROVE  Unsent(j)
BY DEF NoJob, Unsent

LEMMA StartUnsent ==
    ASSUME NEW j, j = [NoJob EXCEPT !.origin = "start"]
    PROVE  Unsent(j)
BY DEF NoJob, Unsent

LEMMA KeptUnsent ==
    ASSUME NEW j, NEW k, NEW o, j = [Keep(k) EXCEPT !.origin = o]
    PROVE  Unsent(j)
BY DEF NoJob, Keep, Unsent

LEMMA CopyUnsent ==
    ASSUME NEW j, NEW i, j = [NoJob EXCEPT !.copy = i]
    PROVE  Unsent(j)
BY DEF NoJob, Unsent

LEMMA SayCharged ==
    ASSUME ChargeInv, NEW image \in BOOLEAN, Say(image)
    PROVE  ChargeInv'
<1>1. UNCHANGED <<cursor, pc, job, spent, failures>>
  BY DEF Say
<1> QED BY <1>1 DEF ChargeInv, OperationCharged, GivenUpAfterAttempts, ChargedBy, Dispatched,
                    TurnCommitLocked, CommitSteps, Pending

LEMMA EnqueueSaidCharged ==
    ASSUME IInv, IInv', AnswerInv, LeaseInv, ChargeInv, EnqueueSaid
    PROVE  ChargeInv'
<1> DEFINE c == Read(cursor)
           d == Enqueue(c, preparing)
<1>1. preparing \in Inputs /\ UNCHANGED <<pc, job, spent, failures>>
  BY DEF EnqueueSaid, IInv, TypeOK
<1>2. \/ cursor' = cursor \/ cursor' = c
      \/ cursor' = d /\ preparing \notin Pending(c)
  BY DEF EnqueueSaid
<1>3. /\ cursor \in Cursor /\ c \in Cursor /\ Cheap(cursor, cursor) /\ Cheap(cursor, c)
      /\ Cheap(c, d) /\ d \in Cursor
  BY <1>1, ReadsCheap, EnqueueCheap, EnqueueTyped
<1>4. d.lease = c.lease /\ d.opGen = c.opGen
      /\ \A i \in Inputs : i # preparing => d.inputs[i] = c.inputs[i]
  BY <1>3 DEF Enqueue, Cursor
<1> HIDE DEF d
<1>5. Cheap(cursor, cursor')
  <2> HIDE DEF c
  <2> QED BY <1>2, <1>3, CheapTransitive
<1>6. CASE pc = "run"
  <2>1. c = cursor
    BY <1>6, OperationRead
  <2>2. job.ids \subseteq Pending(cursor) /\ job.ids \subseteq Inputs
    BY <1>6, BatchPending
  <2> HIDE DEF c
  <2>3. /\ cursor'.opGen = cursor.opGen /\ cursor'.lease = cursor.lease
        /\ \A i \in job.ids : cursor'.inputs[i] = cursor.inputs[i]
    BY <1>2, <1>4, <2>1, <2>2
  <2>4. OperationCharged
    BY DEF ChargeInv
  <2> QED BY <1>1, <1>5, <1>6, <2>3, <2>4, RunKept DEF OperationCharged
<1>7. CASE pc # "run"
  <2>1. OperationCharged'
    BY <1>1, <1>7 DEF ChargeInv, OperationCharged
  <2>2. AttemptsEnd
    BY <1>1 DEF AttemptsEnd, Dispatched, TurnCommitLocked, CommitSteps
  <2> QED BY <1>1, <1>5, <2>1, <2>2, SameSpent, ChargeKept
<1> QED BY <1>6, <1>7

LEMMA StartCharged ==
    ASSUME IInv, IInv', ChargeInv, Boot \/ BootReconcile \/ StartTurn \/ RemoveExhausted
    PROVE  ChargeInv'
<1> DEFINE b == Read(cursor)
           c == Reconcile(b, said, Settled)
<1>1. /\ cursor \in Cursor /\ b \in Cursor /\ c \in Cursor
      /\ Cheap(cursor, b) /\ Cheap(cursor, c)
  BY ReadsCheap
<1>2. cursor' \in {b, c, PrepareRecovery(b), PrepareRecovery(c), RemoveSettled(b, job.due)}
  BY DEF Boot, BootReconcile, StartTurn, RemoveExhausted
<1>3. /\ UNCHANGED <<spent, failures>> /\ Dispatched = {} /\ pc' \notin {"begin", "run"}
  BY DEF Boot, BootReconcile, StartTurn, RemoveExhausted, AfterSettling, Dispatched,
         TurnCommitLocked, CommitSteps
<1>4. job'.sent = {} /\ job'.accepted = {}
  <2>1. Unsent(job)
    BY DEF ChargeInv, OperationCharged, Unsent
  <2>2. CASE Boot \/ StartTurn
    <3>1. PICK k, o : job' = [Keep(k) EXCEPT !.origin = o]
      BY <2>2 DEF Boot, StartTurn
    <3> QED BY <3>1, KeptUnsent DEF Unsent
  <2>3. CASE BootReconcile \/ RemoveExhausted
    <3>1. job' = job \/ job' = NoJob \/ job' = [NoJob EXCEPT !.origin = "start"]
      BY <2>3 DEF BootReconcile, RemoveExhausted, AfterSettling
    <3> QED BY <2>1, <3>1, NoneUnsent, StartUnsent DEF Unsent
  <2> QED BY <2>2, <2>3
<1> HIDE DEF b, c
<1>5. Cheap(cursor, cursor')
  <2>1. ASSUME NEW e \in {b, c} PROVE Cheap(cursor, PrepareRecovery(e))
    <3>1. e \in Cursor /\ Cheap(cursor, e)
      BY <1>1
    <3>2. PrepareRecovery(e) \in Cursor /\ Cheap(e, PrepareRecovery(e))
      BY <3>1, PrepareRecoveryTyped, RecoveryCheap
    <3> QED BY <1>1, <3>1, <3>2, CheapTransitive
  <2>2. Cheap(cursor, RemoveSettled(b, job.due))
    <3>1. 1 \in Inputs /\ job.due \subseteq Inputs
      BY BoundsAssumption DEF Inputs, IInv, TypeOK, Job
    <3>2. RemoveSettled(b, job.due) \in Cursor /\ Cheap(b, RemoveSettled(b, job.due))
      BY <1>1, <3>1, RemoveSettledTyped, RemovalsCheap
    <3> QED BY <1>1, <3>2, CheapTransitive
  <2> QED BY <1>1, <1>2, <2>1, <2>2
<1> QED BY <1>3, <1>4, <1>5, CalmCharged

\* Giving up: whose attempts are used up, they are spent; what forbade another
\* one was charged for all.
LEMMA SettleCharged ==
    ASSUME IInv, IInv', ChargeInv, Settle
    PROVE  ChargeInv'
<1> DEFINE c == Read(cursor)
<1>1. cursor \in Cursor /\ c \in Cursor /\ Cheap(cursor, c)
  BY ReadsCheap
<1>2. /\ cursor' = c /\ UNCHANGED spent /\ failures' = failures \cup Exhausted(c)
      /\ Dispatched = {} /\ pc' \notin {"begin", "run"}
  BY DEF Settle, AfterSettling, Dispatched, TurnCommitLocked, CommitSteps
<1>3. job'.sent = {} /\ job'.accepted = {}
  <2>1. job.sent = {} /\ job.accepted = {} /\ job \in Job
    BY DEF ChargeInv, OperationCharged, IInv, TypeOK
  <2> QED BY <2>1 DEF NoJob, Settle, AfterSettling, Job
<1>4. OperationCharged'
  BY <1>2, <1>3 DEF OperationCharged
<1> HIDE DEF c
<1>5. ChargedBy(cursor', spent', Dispatched') /\ ChargedBy(c, spent, {})
  <2>1. ChargedBy(cursor, spent, {}) /\ spent \in [Inputs -> 0 .. MaxAttempts]
    BY <1>2 DEF ChargeInv, IInv, TypeOK
  <2>2. SpentGrows
    BY <1>2, SameSpent
  <2>3. \A i \in Inputs : spent[i] <= spent[i]
    BY <1>2, <2>2 DEF SpentGrows
  <2> QED BY <1>1, <1>2, <2>1, <2>3, ChargedStep
<1>6. ASSUME NEW i \in Exhausted(c) PROVE spent[i] >= MaxAttempts
  <2>1. i \in Pending(c) /\ (c.inputs[i].attempts >= MaxAttempts \/ c.inputs[i].stop)
    BY DEF Exhausted
  <2>2. c.inputs[i].attempts <= spent[i] /\ (c.inputs[i].stop => spent[i] = MaxAttempts)
    BY <1>5, <2>1 DEF ChargedBy
  <2>3. c.inputs[i].attempts \in Nat /\ spent[i] \in Nat /\ MaxAttempts \in Nat
    BY <1>1, <2>1, SlotTyped, BoundsAssumption DEF Pending, PendingInput, IInv, TypeOK
  <2> QED BY <2>1, <2>2, <2>3
<1>7. GivenUpAfterAttempts'
  BY <1>2, <1>6 DEF ChargeInv, GivenUpAfterAttempts
<1> QED BY <1>4, <1>5, <1>7 DEF ChargeInv

\* The step of a commit that fails.
LEMMA FailCharged ==
    ASSUME IInv, IInv', ChargeInv, FailCommit, Cheap(cursor, cursor'), failures' = failures,
           pc # "run" \/ ~job.restart, pc = "run" => job.origin = "finish"
    PROVE  ChargeInv'
<1>1. pc' \notin {"begin", "run"} /\ Dispatched \subseteq job.ids \cup job.sent
  BY DEF FailCommit, Dispatched
<1>2. job'.sent = {} /\ job'.accepted = {}
  <2>1. job' \in {NoJob, [NoJob EXCEPT !.origin = "finish", !.active = job.active]}
    BY DEF FailCommit
  <2> QED BY <2>1, NoneUnsent, SettlingUnsent DEF Unsent
<1>3. CASE job.origin = "finish"
  <2>1. Spend(job.ids \cup job.sent)
    BY <1>3 DEF FailCommit
  <2>2. SpentGrows /\ AttemptsEnd
    BY <1>1, <2>1, SpendGrows DEF AttemptsEnd, Pending
  <2> QED BY <1>1, <1>2, <2>2, RestCharged
<1>4. CASE job.origin # "finish"
  <2>1. UNCHANGED spent /\ Dispatched = {}
    BY <1>4 DEF FailCommit, Dispatched, TurnCommitLocked
  <2> QED BY <1>1, <1>2, <2>1, CalmCharged
<1> QED BY <1>3, <1>4

LEMMA RecoverCharged ==
    ASSUME IInv, IInv', ChargeInv, Recover
    PROVE  ChargeInv'
<1> DEFINE c == Read(cursor)
           held == [phase |-> "persisting", ids |-> job.ids,
                    seq |-> job.seq, turn |-> job.turn]
<1>1. cursor \in Cursor /\ c \in Cursor /\ Cheap(cursor, c)
  BY ReadsCheap
<1>2. \/ cursor' \in {c, Finalize(c, job.ids)}
      \/ cursor' = ReleaseRecovery(c, held)
  BY DEF Recover
<1>3. Cheap(cursor, cursor')
  <2> HIDE DEF c, held
  <2>1. 1 \in Inputs /\ job.ids \subseteq Inputs
    BY BoundsAssumption DEF Inputs, IInv, TypeOK, Job
  <2>2. Cheap(c, Finalize(c, job.ids)) /\ Cheap(c, ReleaseRecovery(c, held)) /\ Cheap(c, c)
    BY <1>1, <2>1, CheapSame, RemovalsCheap, RecoveryCheap
  <2>3. Cheap(c, cursor')
    BY <1>2, <2>2
  <2> QED BY <1>1, <2>3, CheapTransitive DEF IInv, TypeOK
<1>4. pc = "recover" /\ failures' = failures
  BY DEF Recover
<1>5. Dispatched = {}
  BY <1>4 DEF Dispatched, TurnCommitLocked, CommitSteps
<1>6. CASE FailCommit
  BY <1>3, <1>4, <1>6, FailCharged
<1>7. CASE ~FailCommit
  <2>1. \/ AfterRecovery /\ UNCHANGED spent
        \/ pc' = "respond" /\ UNCHANGED spent /\ \E r : job' = [job EXCEPT !.turn = r]
    BY <1>7 DEF Recover
  <2>2. job.sent = {} /\ job.accepted = {} /\ job \in Job
    BY DEF ChargeInv, OperationCharged, IInv, TypeOK
  <2>3. pc' \notin {"begin", "run"} /\ job'.sent = {} /\ job'.accepted = {}
    BY <2>1, <2>2 DEF NoJob, AfterRecovery, Job
  <2> QED BY <1>3, <1>4, <1>5, <2>1, <2>3, CalmCharged
<1> QED BY <1>6, <1>7

LEMMA TakeLeaseCharged ==
    ASSUME IInv, IInv', ChargeInv, TakeLease
    PROVE  ChargeInv'
<1> DEFINE b == Read(cursor)
           c == Reconcile(b, said, Settled)
           f == First(c, Runnable(c))
           d == Lease(c, {f})
           eligible == {i \in Runnable(d) \ d.lease : d.inputs[i].prepared = 0}
<1>1. /\ cursor \in Cursor /\ c \in Cursor /\ Cheap(cursor, c)
  BY ReadsCheap
<1>2. UNCHANGED <<spent, failures>> /\ pc = "lease"
  BY DEF TakeLease
<1>3. Dispatched = {} /\ SpentGrows /\ AttemptsEnd
  BY <1>2, SameSpent DEF Dispatched, TurnCommitLocked, CommitSteps, AttemptsEnd
<1>4. CASE Runnable(c) = {}
  <2>1. cursor' = c /\ pc' = "idle" /\ job' = NoJob
    BY <1>4 DEF TakeLease
  <2> QED BY <1>1, <1>2, <1>3, <2>1, NoneUnsent, CalmCharged DEF Unsent
<1>5. CASE Runnable(c) # {}
  <2>1. PICK more \in SUBSET eligible :
           /\ cursor' = Extend(d, more)
           /\ job' = [NoJob EXCEPT !.ids = d.lease \cup more,
                                   !.active = First(d, d.lease),
                                   !.seq = d.leaseSeq, !.origin = "start"]
           /\ pc' = "begin"
    BY <1>5 DEF TakeLease
  <2>2. d.inputs = c.inputs /\ Extend(d, more).inputs = d.inputs
    BY <1>1 DEF Lease, Extend, Cursor
  <2>3. ~job'.restart /\ job'.sent = {} /\ job'.accepted = {}
    BY <2>1, NoJobTyped DEF NoJob, Job
  <2>4. OperationCharged'
    BY <2>1, <2>3 DEF OperationCharged
  <2> HIDE DEF c, d
  <2>5. Cheap(cursor, cursor')
    <3>1. cursor' \in Cursor /\ Cheap(c, cursor')
      BY <1>1, <2>1, <2>2, SlotsKept DEF IInv, TypeOK
    <3> QED BY <1>1, <3>1, CheapTransitive
  <2> QED BY <1>2, <1>3, <2>4, <2>5, ChargeKept
<1> QED BY <1>4, <1>5

\* The beginning of an operation takes an attempt for what it is about.
LEMMA BeginEffect ==
    ASSUME NEW c \in Cursor, NEW S, NEW i \in Inputs
    PROVE  LET x == c.inputs[i]
               y == Begin(c, S).inputs[i]
           IN  /\ y.seq = x.seq /\ y.prepared = x.prepared /\ y.started = x.started
               /\ y.stop => x.stop
               /\ \/ y.attempts = x.attempts
                  \/ i \in S /\ y.attempts = x.attempts + 1 /\ x.prepared = 0 /\ ~x.started
<1>1. Begin(c, S).inputs[i] = IF i \in S THEN BeginAttempt(c.inputs[i]) ELSE c.inputs[i]
  BY DEF Begin, Cursor
<1> QED BY <1>1, SlotTyped DEF BeginAttempt, CostsAttempt, PendingInput

LEMMA BeginCharged ==
    ASSUME IInv, IInv', AnswerInv, LeaseInv, ChargeInv, BeginOperation
    PROVE  ChargeInv'
<1>1. pc = "begin" /\ Read(cursor) = cursor /\ cursor \in Cursor
      /\ UNCHANGED <<spent, failures>>
  BY OperationRead, LeaseStart DEF BeginOperation
<1>2. Dispatched = {} /\ SpentGrows
  BY <1>1, SameSpent DEF Dispatched, TurnCommitLocked, CommitSteps
<1>3. CASE cursor' = Read(cursor) /\ pc' = "idle" /\ job' = NoJob
  BY <1>1, <1>2, <1>3, CheapSame, NoneUnsent, CalmCharged DEF Unsent
<1>4. CASE /\ cursor' = Begin(cursor, job.ids) /\ pc' = "run" /\ job.ids \subseteq Pending(cursor)
           /\ job' = [job EXCEPT !.gen = cursor.opGen + 1, !.tracked = job.ids,
                                 !.before = [i \in Inputs |-> cursor.inputs[i].attempts],
                                 !.task = "preparing", !.origin = "finish"]
  <2>1. /\ job'.ids = job.ids /\ job'.gen = cursor.opGen + 1
        /\ job'.tracked = job.ids /\ job'.adding = job.adding /\ job'.restart = job.restart
        /\ job'.before = [i \in Inputs |-> cursor.inputs[i].attempts]
        /\ job'.task = "preparing" /\ job'.sent = job.sent /\ job'.accepted = job.accepted
    BY <1>4 DEF IInv, TypeOK, Job
  <2>2. cursor'.opGen = cursor.opGen + 1 /\ cursor'.lease = cursor.lease
    BY <1>1, <1>4 DEF Begin, Cursor
  <2>3. cursor.lease = job.ids /\ job.adding = {}
    BY <1>1 DEF LeaseInv, OperationLeased
  <2>4. /\ ~job.restart /\ job.sent = {} /\ job.accepted = {}
    BY <1>1 DEF ChargeInv, OperationCharged
  <2>5. ASSUME NEW i \in Inputs
        PROVE  LET x == cursor.inputs[i]
                   y == cursor'.inputs[i]
               IN  /\ y.seq = x.seq /\ y.prepared = x.prepared /\ y.started = x.started
                   /\ y.stop => x.stop
                   /\ \/ y.attempts = x.attempts
                      \/ i \in job.ids /\ y.attempts = x.attempts + 1
                         /\ x.prepared = 0 /\ ~x.started
    BY <1>1, <1>4, BeginEffect
  <2>6. ASSUME NEW i \in Pending(cursor)
        PROVE  /\ cursor.inputs[i].attempts \in Nat /\ spent[i] \in Nat
               /\ cursor.inputs[i].attempts <= spent[i]
               /\ cursor.inputs[i].stop => spent[i] = MaxAttempts
    BY <1>1, <1>2, SlotTyped, BoundsAssumption
       DEF Pending, PendingInput, IInv, TypeOK, ChargeInv, ChargedBy
  <2>7. Pending(cursor') = Pending(cursor)
    BY <2>5 DEF Pending
  <2>8. Dispatched' = job.ids
    BY <1>4, <2>1, <2>4 DEF Dispatched
  <2>9. ChargedBy(cursor', spent', Dispatched')
    <3> SUFFICES ASSUME NEW i \in Pending(cursor)
                 PROVE  /\ cursor'.inputs[i].attempts <= spent[i] + 1
                        /\ i \notin job.ids => cursor'.inputs[i].attempts <= spent[i]
                        /\ cursor'.inputs[i].stop => spent[i] = MaxAttempts
      BY <1>1, <2>7, <2>8 DEF ChargedBy
    <3>1. i \in Inputs
      BY DEF Pending
    <3> QED BY <2>5, <2>6, <3>1
  <2>10. OperationCharged'
    <3>1. ASSUME NEW i \in job'.ids
          PROVE  /\ job'.before[i] <= spent'[i]
                 /\ cursor'.inputs[i].attempts <= job'.before[i] + 1
                 /\ ~(job'.restart \/ job'.task = "superseded")
                 /\ cursor'.inputs[i].attempts = job'.before[i] + 1
                       => cursor'.inputs[i].prepared = 0 /\ ~cursor'.inputs[i].started
      <4>1. i \in Pending(cursor) /\ i \in Inputs
        BY <1>4, <2>1, <3>1 DEF Pending
      <4>2. job'.before[i] = cursor.inputs[i].attempts
        BY <2>1, <4>1
      <4> QED BY <1>1, <2>1, <2>4, <2>5, <2>6, <4>1, <4>2
    <3> QED BY <1>4, <2>1, <2>2, <2>3, <2>4, <3>1 DEF OperationCharged
  <2>11. GivenUpAfterAttempts'
    BY <1>1, <1>2, FailuresStay DEF ChargeInv
  <2> QED BY <2>9, <2>10, <2>11 DEF ChargeInv
<1> QED BY <1>1, <1>3, <1>4 DEF BeginOperation

\* Without images nothing waits for them.
LEMMA NothingToRead ==
    ASSUME NEW c \in Cursor, TextOnly(c), NEW S
    PROVE  LET d == CompleteAttachments(c, S) IN
           d.inputs = c.inputs /\ d.lease = c.lease /\ d.opGen = c.opGen
<1> DEFINE d == CompleteAttachments(c, S)
<1>1. d.inputs = [i \in Inputs |->
          LET x == c.inputs[i] IN
          IF i \in S /\ x.attachment = "retrying"
          THEN BeginAttempt([x EXCEPT !.attachment = "none"]) ELSE x]
      /\ d.lease = c.lease /\ d.opGen = c.opGen
  BY DEF CompleteAttachments, Cursor
<1>2. \A i \in Inputs : ~(c.inputs[i].attachment = "retrying")
  BY DEF TextOnly
<1>3. c.inputs = [i \in Inputs |-> c.inputs[i]]
  BY DEF Cursor
<1>4. [i \in Inputs |->
          LET x == c.inputs[i] IN
          IF i \in S /\ x.attachment = "retrying"
          THEN BeginAttempt([x EXCEPT !.attachment = "none"]) ELSE x]
      = [i \in Inputs |-> c.inputs[i]]
  BY <1>2
<1> HIDE DEF d
<1>5. d.inputs = c.inputs
  BY <1>1, <1>3, <1>4, Zenon
<1> QED BY <1>1, <1>5 DEF d

LEMMA TaskKept ==
    ASSUME IInv, IInv', AnswerInv, LeaseInv, ChargeInv, pc = "run", pc' = "run",
           UNCHANGED <<spent, failures>>, cursor'.inputs = cursor.inputs,
           cursor'.lease = cursor.lease, cursor'.opGen = cursor.opGen,
           job'.ids = job.ids, job'.gen = job.gen,
           job'.before = job.before, job'.sent = job.sent, job'.accepted = job.accepted,
           job'.restart = job.restart, job'.tracked = job.tracked, job'.adding = job.adding,
           job'.task \in {"calling", "failed", "stopped"} =>
               \A i \in job.ids : cursor.inputs[i].prepared = 0,
           job'.task # "superseded"
    PROVE  ChargeInv'
<1>1. Cheap(cursor, cursor') /\ OperationCharged
  BY SlotsKept DEF IInv, TypeOK, ChargeInv
<1>2. ~job.restart => \/ cursor'.lease = job.ids \cup job'.adding
                      \/ \E i \in job.ids : cursor.inputs[i].prepared # 0
  BY <1>1 DEF OperationCharged
<1> QED BY <1>1, <1>2, RunKept

\* An attempt that never reached the provider is given back.
LEMMA ReleaseEffect ==
    ASSUME NEW c \in Cursor, NEW S, NEW b, NEW i \in Inputs
    PROVE  LET x == c.inputs[i]
               y == ReleaseAttempts(c, S, b).inputs[i]
           IN  /\ y.seq = x.seq /\ y.prepared = x.prepared /\ y.started = x.started
               /\ y.stop = x.stop
               /\ IF i \in S /\ i \in Pending(c) /\ x.prepared = 0 /\ ~x.started
                     /\ x.attempts = b[i] + 1
                  THEN y.attempts = b[i] ELSE y.attempts = x.attempts
<1> DEFINE x == c.inputs[i]
<1>1. ReleaseAttempts(c, S, b).inputs[i] =
          IF i \in S /\ i \in Pending(c) /\ x.prepared = 0 /\ ~x.started
             /\ x.attempts = b[i] + 1
          THEN [x EXCEPT !.attempts = b[i]] ELSE x
  BY DEF ReleaseAttempts, Cursor
<1>2. x \in PendingInput
  BY SlotTyped
<1> HIDE DEF x
<1>3. CASE i \in S /\ i \in Pending(c) /\ x.prepared = 0 /\ ~x.started /\ x.attempts = b[i] + 1
  <2>1. ReleaseAttempts(c, S, b).inputs[i] = [x EXCEPT !.attempts = b[i]]
    BY <1>1, <1>3
  <2> QED BY <1>2, <1>3, <2>1 DEF x, PendingInput
<1>4. CASE ~(i \in S /\ i \in Pending(c) /\ x.prepared = 0 /\ ~x.started
             /\ x.attempts = b[i] + 1)
  <2>1. ReleaseAttempts(c, S, b).inputs[i] = x
    BY <1>1, <1>4
  <2> QED BY <1>4, <2>1 DEF x
<1> QED BY <1>3, <1>4

LEMMA SupersededCharged ==
    ASSUME IInv, IInv', AnswerInv, LeaseInv, ChargeInv, DispatchSuperseded
    PROVE  ChargeInv'
<1>1. /\ pc = "run" /\ pc' = "run" /\ UNCHANGED <<spent, failures>>
      /\ job' = [job EXCEPT !.task = "superseded"] /\ job \in Job /\ cursor \in Cursor
      /\ cursor' = ReleaseAttempts(Read(cursor), job.ids, job.before)
  BY DEF DispatchSuperseded, Task, TaskFrame, IInv, TypeOK
<1>2. cursor' = ReleaseAttempts(cursor, job.ids, job.before)
  BY <1>1, OperationRead
<1>3. /\ job'.ids = job.ids /\ job'.gen = job.gen
      /\ job'.before = job.before /\ job'.sent = job.sent /\ job'.accepted = job.accepted
      /\ job'.restart = job.restart /\ job'.tracked = job.tracked /\ job'.adding = job.adding
      /\ job'.task = "superseded"
  BY <1>1 DEF Job
<1>4. cursor'.lease = cursor.lease /\ cursor'.opGen = cursor.opGen
  BY <1>1, <1>2 DEF ReleaseAttempts, Cursor
<1>5. ASSUME NEW i \in Inputs
      PROVE  LET x == cursor.inputs[i]
                 y == cursor'.inputs[i]
             IN  /\ y.seq = x.seq /\ y.prepared = x.prepared /\ y.started = x.started
                 /\ y.stop = x.stop
                 /\ IF i \in job.ids /\ i \in Pending(cursor) /\ x.prepared = 0 /\ ~x.started
                       /\ x.attempts = job.before[i] + 1
                    THEN y.attempts = job.before[i] ELSE y.attempts = x.attempts
  BY <1>1, <1>2, ReleaseEffect
<1>6. ASSUME NEW i \in Inputs
      PROVE  cursor.inputs[i].attempts \in Nat /\ job.before[i] \in Nat /\ spent[i] \in Nat
  BY SlotTyped, BoundsAssumption DEF PendingInput, IInv, TypeOK, Job
<1>7. Cheap(cursor, cursor')
  <2> SUFFICES ASSUME NEW i \in Pending(cursor')
               PROVE  /\ i \in Pending(cursor)
                      /\ cursor'.inputs[i].attempts <= cursor.inputs[i].attempts
                      /\ cursor'.inputs[i].stop = cursor.inputs[i].stop
    BY DEF Cheap
  <2>1. i \in Inputs
    BY DEF Pending
  <2>2. i \in Pending(cursor)
    BY <1>5, <2>1 DEF Pending
  <2> QED BY <1>5, <1>6, <2>1, <2>2
<1>8. OperationCharged
  BY DEF ChargeInv
<1>9. job.ids \subseteq Pending(cursor) /\ job.ids \subseteq Inputs
  BY <1>1, BatchPending
<1>10. ASSUME NEW i \in job.ids
       PROVE  /\ job.before[i] <= spent[i]
              /\ cursor'.inputs[i].attempts <= job.before[i]
              /\ cursor'.inputs[i].attempts # job.before[i] + 1
  <2>1. /\ job.before[i] <= spent[i] /\ cursor.inputs[i].attempts <= job.before[i] + 1
        /\ cursor.inputs[i].attempts = job.before[i] + 1
              => cursor.inputs[i].prepared = 0 /\ ~cursor.inputs[i].started
    BY <1>1, <1>8 DEF OperationCharged
  <2>2. i \in Inputs /\ i \in Pending(cursor)
    BY <1>9
  <2>3. CASE cursor.inputs[i].attempts = job.before[i] + 1
    <3>1. cursor'.inputs[i].attempts = job.before[i]
      BY <1>5, <2>1, <2>2, <2>3
    <3> QED BY <1>6, <2>1, <2>2, <3>1
  <2>4. CASE cursor.inputs[i].attempts # job.before[i] + 1
    <3>1. cursor'.inputs[i].attempts = cursor.inputs[i].attempts
      BY <1>5, <2>2, <2>4
    <3> QED BY <1>6, <2>1, <2>2, <2>4, <3>1
  <2> QED BY <2>3, <2>4
<1>11. ~job.restart =>
           /\ cursor'.opGen = job.gen
           /\ \/ cursor'.lease = job.ids \cup job.adding
              \/ \E i \in job.ids : cursor'.inputs[i].prepared # 0
  BY <1>1, <1>4, <1>5, <1>8, <1>9 DEF OperationCharged
<1>12. OperationCharged'
  <2>1. /\ job.sent = {} /\ job.accepted = {}
        /\ job.ids \subseteq job.tracked
    BY <1>1, <1>8 DEF OperationCharged
  <2>2. ASSUME NEW i \in job'.ids
        PROVE  /\ job'.before[i] <= spent'[i]
               /\ cursor'.inputs[i].attempts <= job'.before[i] + 1
               /\ cursor'.inputs[i].attempts <= job'.before[i]
               /\ cursor'.inputs[i].attempts # job'.before[i] + 1
    <3>1. i \in Inputs /\ job'.before[i] = job.before[i] /\ job.before[i] \in Nat
      BY <1>3, <1>6, <1>9, <2>2
    <3>2. cursor'.inputs[i].attempts \in Nat
      BY <3>1, SlotTyped, BoundsAssumption DEF PendingInput, IInv, TypeOK
    <3> QED BY <1>1, <1>3, <1>10, <2>2, <3>1, <3>2
  <2>3. ~job'.restart =>
           /\ cursor'.opGen = job'.gen
           /\ \/ cursor'.lease = job'.ids \cup job'.adding
              \/ \E i \in job'.ids : cursor'.inputs[i].prepared # 0
    BY <1>3, <1>11
  <2> QED BY <1>1, <1>3, <2>1, <2>2, <2>3 DEF OperationCharged
<1>13. SpentGrows /\ AttemptsEnd
  BY <1>1, <1>3, SameSpent DEF AttemptsEnd, Dispatched, TurnCommitLocked, CommitSteps
<1> QED BY <1>1, <1>7, <1>12, <1>13, ChargeKept

LEMMA TaskCharged ==
    ASSUME IInv, IInv', AnswerInv, LeaseInv, ChargeInv, TaskNext
    PROVE  ChargeInv'
<1>1. /\ pc = "run" /\ pc' = "run" /\ UNCHANGED <<spent, failures>>
  BY DEF TaskNext, PrepareCall, ReadingFails, AcceptMidTurn, Answer, CallFails,
         DispatchSuperseded, TaskFrame
<1>2. /\ cursor \in Cursor /\ TextOnly(cursor) /\ Read(cursor) = cursor /\ job \in Job
      /\ images = {} /\ job.sent = {} /\ job.accepted = {} /\ OperationCharged
  BY <1>1, LeaseStart, OperationRead DEF LeaseInv, QueueFits, ChargeInv, OperationCharged
<1> DEFINE Ends(t) == job' = [job EXCEPT !.task = t]
<1>3. ASSUME NEW t \in TaskStates \ {"superseded"}, Ends(t),
             t \in {"calling", "failed", "stopped"} =>
                 \A i \in job.ids : cursor.inputs[i].prepared = 0,
             cursor'.inputs = cursor.inputs, cursor'.lease = cursor.lease,
             cursor'.opGen = cursor.opGen
      PROVE  ChargeInv'
  <2>1. /\ job'.ids = job.ids /\ job'.gen = job.gen
        /\ job'.before = job.before /\ job'.sent = job.sent /\ job'.accepted = job.accepted
        /\ job'.restart = job.restart /\ job'.tracked = job.tracked
        /\ job'.adding = job.adding /\ job'.task = t
    BY <1>2, <1>3 DEF Job
  <2> QED BY <1>1, <1>3, <2>1, TaskKept
<1>4. CASE PrepareCall
  <2> DEFINE prepared == {cursor.inputs[i].prepared : i \in job.ids}
  <2>1. CASE prepared # {0}
    <3>1. cursor' = cursor
      BY <1>2, <1>4, <2>1 DEF PrepareCall
    <3>2. CASE Cardinality(prepared) = 1
      <4>1. PICK r \in prepared : job' = [job EXCEPT !.task = "answered", !.turn = r]
        BY <1>2, <1>4, <2>1, <3>2 DEF PrepareCall
      <4>2. /\ job'.ids = job.ids /\ job'.gen = job.gen
            /\ job'.before = job.before /\ job'.sent = job.sent
            /\ job'.accepted = job.accepted
            /\ job'.restart = job.restart /\ job'.tracked = job.tracked
            /\ job'.adding = job.adding /\ job'.task = "answered"
        BY <1>2, <4>1 DEF Job
      <4> QED BY <1>1, <3>1, <4>2, TaskKept
    <3>3. CASE Cardinality(prepared) # 1
      <4>1. Ends("broken")
        BY <1>2, <1>4, <2>1, <3>3 DEF PrepareCall, Task
      <4> QED BY <1>3, <3>1, <4>1 DEF TaskStates
    <3> QED BY <3>2, <3>3
  <2>2. CASE prepared = {0}
    <3>1. \A i \in job.ids : cursor.inputs[i].prepared = 0
      BY <2>2
    <3>2. \/ cursor' = cursor /\ Ends("broken")
          \/ cursor' = CompleteAttachments(cursor, job.ids) /\ Ends("calling")
      <4>1. {Read(cursor).inputs[i].prepared : i \in job.ids} = {0}
        BY <1>2, <2>2
      <4>2. \/ cursor' = Read(cursor) /\ Ends("broken")
            \/ cursor' = CompleteAttachments(Read(cursor), job.ids) /\ Ends("calling")
        BY <1>4, <4>1, Zenon DEF PrepareCall, Task
      <4> QED BY <1>2, <4>2
    <3>3. cursor'.inputs = cursor.inputs /\ cursor'.lease = cursor.lease
          /\ cursor'.opGen = cursor.opGen
      BY <1>2, <3>2, NothingToRead
    <3> HIDE DEF Ends
    <3> QED BY <1>3, <3>1, <3>2, <3>3 DEF TaskStates
  <2> QED BY <2>1, <2>2
<1>5. ASSUME NEW state, ReadingFails(state) PROVE FALSE
  BY <1>2, <1>5 DEF ReadingFails
<1>6. ASSUME NEW i \in Inputs, AcceptMidTurn(i) PROVE FALSE
  BY <1>2, <1>6 DEF AcceptMidTurn
<1>7. CASE Answer
  <2>1. cursor' = cursor
    BY <1>2, <1>7 DEF Answer
  <2>2. \/ Ends("broken")
        \/ job' = [job EXCEPT !.task = "answered", !.turn = job.gen, !.ids = job.ids \cup {}]
    BY <1>2, <1>7 DEF Answer, Task
  <2>3. CASE Ends("broken")
    BY <1>3, <2>1, <2>3 DEF TaskStates
  <2>4. CASE job' = [job EXCEPT !.task = "answered", !.turn = job.gen, !.ids = job.ids \cup {}]
    <3>1. /\ job'.ids = job.ids /\ job'.gen = job.gen
          /\ job'.before = job.before /\ job'.sent = job.sent /\ job'.accepted = job.accepted
          /\ job'.restart = job.restart /\ job'.tracked = job.tracked
          /\ job'.adding = job.adding /\ job'.task = "answered"
      BY <1>2, <2>4 DEF Job
    <3> QED BY <1>1, <2>1, <3>1, TaskKept
  <2> QED BY <2>2, <2>3, <2>4
<1>8. ASSUME NEW state \in {"failed", "stopped"}, CallFails(state) PROVE ChargeInv'
  <2>1. cursor' = cursor /\ Ends(state) /\ job.task = "calling"
    BY <1>8 DEF CallFails, Task
  <2>2. \A i \in job.ids : cursor.inputs[i].prepared = 0
    BY <1>1, <1>2, <2>1 DEF OperationCharged
  <2>3. state \in TaskStates \ {"superseded"}
    BY DEF TaskStates
  <2> QED BY <1>3, <2>1, <2>2, <2>3
<1>9. CASE DispatchSuperseded
  BY <1>9, SupersededCharged
<1> QED BY <1>4, <1>5, <1>6, <1>7, <1>8, <1>9 DEF TaskNext

LEMMA AcceptCharged ==
    ASSUME IInv, IInv', AnswerInv, LeaseInv, ChargeInv, AcceptCommand
    PROVE  ChargeInv'
<1> DEFINE r == Reconcile(Read(cursor), said, Settled)
           adds == pc = "run" /\ AppendMode
           c == IF adds \/ pc = "idle" THEN r ELSE cursor
           new == IF adds THEN Runnable(c) \ job.tracked ELSE {}
           leased == c.lease # {} /\ c.leaseSeq = job.seq
<1>1. /\ pc \in {"idle", "run"} /\ pc' = pc /\ job.adding = {}
      /\ UNCHANGED <<spent, failures>>
      /\ cursor' = IF leased THEN Extend(c, new) ELSE c
      /\ job' = IF leased THEN [job EXCEPT !.adding = new] ELSE job
  BY DEF AcceptCommand, ActorFrame
<1>2. /\ cursor \in Cursor /\ c \in Cursor /\ Cheap(cursor, c) /\ job \in Job
  BY ReadsCheap DEF IInv, TypeOK
<1>3. cursor' \in Cursor /\ cursor'.inputs = c.inputs /\ cursor'.opGen = c.opGen
  <2> HIDE DEF c, new, leased
  <2> QED BY <1>1, <1>2 DEF Extend, Cursor, IInv, TypeOK
<1>4. Cheap(cursor, cursor')
  <2> HIDE DEF c
  <2> QED BY <1>2, <1>3, SlotsKept, CheapTransitive
<1>5. /\ job'.ids = job.ids /\ job'.gen = job.gen /\ job'.before = job.before
      /\ job'.sent = job.sent /\ job'.accepted = job.accepted /\ job'.restart = job.restart
      /\ job'.tracked = job.tracked /\ job'.task = job.task
  <2> HIDE DEF c, new, leased
  <2> QED BY <1>1, <1>2 DEF Job
<1>6. OperationCharged
  BY DEF ChargeInv
<1>7. CASE pc = "idle"
  <2>1. Dispatched = {}
    BY <1>7 DEF Dispatched, TurnCommitLocked, CommitSteps
  <2> QED BY <1>1, <1>4, <1>5, <1>6, <1>7, <2>1, CalmCharged DEF OperationCharged
<1>8. CASE pc = "run"
  <2>1. Read(cursor) = cursor /\ job.ids \subseteq Pending(cursor) /\ job.ids \subseteq Inputs
    BY <1>8, OperationRead, BatchPending
  <2>2. /\ c.lease = cursor.lease /\ c.opGen = cursor.opGen
        /\ \A i \in job.ids : c.inputs[i] = cursor.inputs[i]
    <3>1. Grows(cursor, r, Missing(cursor, said, Settled)) /\ r.opGen = cursor.opGen
      BY <1>2, <2>1, ReconcileGrows DEF Reconcile, Cursor
    <3>2. job.ids \cap Missing(cursor, said, Settled) = {}
      BY <2>1 DEF Missing
    <3> HIDE DEF r
    <3> QED BY <2>1, <3>1, <3>2 DEF Grows
  <2>3. cursor'.lease = cursor.lease \cup job'.adding
    <3>1. CASE leased
      <4> HIDE DEF c, new
      <4> QED BY <1>1, <1>2, <2>2, <3>1 DEF Extend, Cursor, Job
    <3>2. CASE ~leased
      <4>1. cursor' = c /\ job' = job
        BY <1>1, <3>2
      <4> QED BY <1>1, <2>2, <4>1
    <3> QED BY <3>1, <3>2
  <2> HIDE DEF c
  <2>4. ~job.restart => \/ cursor'.lease = job.ids \cup job'.adding
                        \/ \E i \in job.ids : cursor.inputs[i].prepared # 0
    BY <1>1, <1>6, <1>8, <2>3 DEF OperationCharged
  <2>5. job.task \in {"calling", "failed", "stopped"} =>
               \A i \in job.ids : cursor.inputs[i].prepared = 0
    BY <1>6, <1>8 DEF OperationCharged
  <2>6. /\ \A i \in job.ids : cursor'.inputs[i] = cursor.inputs[i]
        /\ cursor'.opGen = cursor.opGen
    BY <1>3, <2>2
  <2> QED BY <1>1, <1>4, <1>5, <1>8, <2>4, <2>5, <2>6, RunKept
<1> QED BY <1>1, <1>7, <1>8

\* An attempt of a call that is stopped to be made again is given back.
LEMMA RestartEffect ==
    ASSUME NEW c \in Cursor, NEW S, NEW i \in Inputs
    PROVE  LET x == c.inputs[i]
               y == RequestRestart(c, S).inputs[i]
           IN  /\ y.prepared = x.prepared /\ y.started = x.started
               /\ y.attempts = IF i \in S /\ x.attempts # 0 THEN x.attempts - 1 ELSE x.attempts
<1> DEFINE x == c.inputs[i]
<1>1. RequestRestart(c, S).inputs[i] = IF i \in S THEN ReturnAttempt(x) ELSE x
  BY DEF RequestRestart, Cursor
<1>2. x \in PendingInput
  BY SlotTyped
<1> HIDE DEF x
<1>3. /\ ReturnAttempt(x).prepared = x.prepared /\ ReturnAttempt(x).started = x.started
      /\ ReturnAttempt(x).attempts = IF x.attempts = 0 THEN 0 ELSE x.attempts - 1
  BY <1>2 DEF ReturnAttempt, PendingInput
<1>4. CASE i \in S
  BY <1>1, <1>3, <1>4 DEF x
<1>5. CASE i \notin S
  BY <1>1, <1>5 DEF x
<1> QED BY <1>4, <1>5

LEMMA AppendCharged ==
    ASSUME ~MidTurn, IInv, IInv', AnswerInv, LeaseInv, ChargeInv, AppendRestarts \/ AppendSends
    PROVE  ChargeInv'
<1>1. /\ AppendRestarts /\ pc = "run" /\ pc' = "run" /\ UNCHANGED <<spent, failures>>
  BY DEF AppendRestarts, AppendSends, ActorFrame
<1>2. /\ Read(cursor) = cursor /\ cursor \in Cursor /\ TextOnly(cursor) /\ job \in Job
      /\ job.ids \subseteq Pending(cursor) /\ job.ids \subseteq Inputs /\ OperationCharged
  BY <1>1, OperationRead, LeaseStart, BatchPending DEF LeaseInv, QueueFits, ChargeInv
<1>3. CASE CanRestart(cursor, job.gen, job.ids)
  <2>1. /\ cursor' = RequestRestart(cursor, job.ids)
        /\ job' = [job EXCEPT !.adding = {}, !.restart = TRUE,
                              !.tracked = job.tracked \cup job.adding]
    BY <1>1, <1>2, <1>3 DEF AppendRestarts
  <2>2. /\ job'.ids = job.ids /\ job'.before = job.before /\ job'.restart = TRUE
        /\ job'.sent = job.sent /\ job'.accepted = job.accepted /\ job'.task = job.task
        /\ job.tracked \subseteq job'.tracked
    BY <1>2, <2>1 DEF Job
  <2>3. Cheap(cursor, cursor') /\ SpentGrows
    BY <1>1, <1>2, <2>1, ReturnsCheap, SameSpent
  <2>4. ASSUME NEW i \in job.ids
        PROVE  /\ cursor.inputs[i].prepared = 0 /\ cursor'.inputs[i].prepared = 0
               /\ cursor'.inputs[i].attempts \in Nat /\ job.before[i] \in Nat
               /\ cursor'.inputs[i].attempts <= job.before[i]
               /\ job.before[i] <= spent[i] /\ spent[i] \in Nat
    <3>1. i \in Inputs /\ cursor.inputs[i].attempts \in Nat /\ job.before[i] \in Nat
          /\ spent[i] \in Nat
      BY <1>2, SlotTyped, BoundsAssumption DEF PendingInput, IInv, TypeOK, Job
    <3>2. cursor.inputs[i].attempts <= job.before[i] + 1 /\ job.before[i] <= spent[i]
      BY <1>1, <1>2 DEF OperationCharged
    <3>3. cursor.inputs[i].prepared = 0
      BY <1>3 DEF CanRestart
    <3>4. /\ cursor'.inputs[i].prepared = cursor.inputs[i].prepared
          /\ cursor'.inputs[i].attempts =
                 IF i \in job.ids /\ cursor.inputs[i].attempts # 0
                 THEN cursor.inputs[i].attempts - 1 ELSE cursor.inputs[i].attempts
      BY <1>2, <2>1, <3>1, RestartEffect
    <3> QED BY <3>1, <3>2, <3>3, <3>4
  <2>5. OperationCharged'
    <3>1. ASSUME NEW i \in job'.ids
          PROVE  /\ job'.before[i] <= spent'[i]
                 /\ cursor'.inputs[i].attempts <= job'.before[i] + 1
                 /\ cursor'.inputs[i].attempts <= job'.before[i]
                 /\ cursor'.inputs[i].attempts # job'.before[i] + 1
                 /\ cursor'.inputs[i].prepared = 0
      BY <1>1, <2>2, <2>4, <3>1
    <3>2. job'.ids \subseteq job'.tracked /\ job'.sent = {} /\ job'.accepted = {}
      BY <1>1, <1>2, <2>2 DEF OperationCharged
    <3> QED BY <1>1, <2>2, <3>1, <3>2 DEF OperationCharged
  <2>6. ChargedBy(cursor', spent', Dispatched')
    <3>1. ChargedBy(cursor', spent, job.ids)
      <4>1. ChargedBy(cursor, spent, Dispatched) /\ spent \in [Inputs -> 0 .. MaxAttempts]
        BY DEF ChargeInv, IInv, TypeOK
      <4>2. Dispatched \subseteq job.ids
        BY <1>1, <1>2 DEF Dispatched, OperationCharged
      <4>3. cursor' \in Cursor /\ \A i \in Inputs : spent[i] <= spent[i]
        BY <1>1, <2>3 DEF IInv, TypeOK, SpentGrows
      <4> QED BY <1>2, <2>3, <4>1, <4>2, <4>3, ChargedStep
    <3>2. ASSUME NEW i \in Pending(cursor')
          PROVE  /\ cursor'.inputs[i].attempts <= spent[i]
                 /\ cursor'.inputs[i].attempts <= spent[i] + 1
                 /\ cursor'.inputs[i].stop => spent[i] = MaxAttempts
      BY <2>4, <3>1 DEF ChargedBy
    <3> QED BY <1>1, <3>2 DEF ChargedBy
  <2>7. GivenUpAfterAttempts'
    BY <1>1, <2>3, FailuresStay DEF ChargeInv
  <2> QED BY <2>5, <2>6, <2>7 DEF ChargeInv
<1>4. CASE ~CanRestart(cursor, job.gen, job.ids)
  <2>1. /\ cursor' = cursor
        /\ job' = [job EXCEPT !.adding = {}, !.tracked = job.tracked \cup job.adding]
    BY <1>1, <1>2, <1>4 DEF AppendRestarts
  <2>2. /\ job'.ids = job.ids /\ job'.gen = job.gen /\ job'.before = job.before
        /\ job'.sent = job.sent /\ job'.accepted = job.accepted /\ job'.restart = job.restart
        /\ job.tracked \subseteq job'.tracked /\ job'.task = job.task
    BY <1>2, <2>1 DEF Job
  <2>3. ~job.restart => \E i \in job.ids : cursor.inputs[i].prepared # 0
    <3> SUFFICES ASSUME ~job.restart PROVE \E i \in job.ids : cursor.inputs[i].prepared # 0
      OBVIOUS
    <3>1. cursor.opGen = job.gen
      BY <1>1, <1>2 DEF OperationCharged
    <3>2. PICK i \in job.ids : cursor.inputs[i].prepared # 0 \/ cursor.inputs[i].started
      BY <1>2, <1>4, <3>1 DEF CanRestart
    <3>3. cursor.inputs[i].started => cursor.inputs[i].prepared # 0
      BY <1>2 DEF LeaseInv, QueueFits, PreparedFirst
    <3> QED BY <3>2, <3>3
  <2>4. job.task \in {"calling", "failed", "stopped"} =>
               \A i \in job.ids : cursor.inputs[i].prepared = 0
    BY <1>1, <1>2 DEF OperationCharged
  <2>5. Cheap(cursor, cursor')
    BY <1>2, <2>1, CheapSame
  <2> QED BY <1>1, <2>1, <2>2, <2>3, <2>4, <2>5, RunKept
<1> QED BY <1>3, <1>4

\* A failure leaves the attempts, and forbids no other than its batch has.
LEMMA FailureEffect ==
    ASSUME NEW c \in Cursor, NEW f, NEW stop \in BOOLEAN, NEW i \in Inputs
    PROVE  LET x == c.inputs[i]
               y == RecordFailure(c, f, stop).inputs[i]
           IN  /\ y.seq = x.seq /\ y.attempts = x.attempts
               /\ y.stop => x.stop \/ i = f \/ i \in c.lease
<1> DEFINE x == c.inputs[i]
           meant == /\ i \in Pending(c)
                    /\ i = f \/ (f \in c.lease /\ i \in c.lease /\ x.attempts > 0)
                    /\ x.prepared = 0 /\ ~x.started
<1>1. RecordFailure(c, f, stop).inputs[i] = IF meant THEN [x EXCEPT !.stop = stop] ELSE x
  BY DEF RecordFailure, Cursor
<1>2. x \in PendingInput
  BY SlotTyped
<1>3. CASE meant
  <2>1. RecordFailure(c, f, stop).inputs[i] = [x EXCEPT !.stop = stop]
    BY <1>1, <1>3
  <2>2. i = f \/ i \in c.lease
    BY <1>3
  <2> HIDE DEF x
  <2> QED BY <1>2, <2>1, <2>2 DEF x, PendingInput
<1>4. CASE ~meant
  <2>1. RecordFailure(c, f, stop).inputs[i] = x
    BY <1>1, <1>4
  <2> QED BY <2>1
<1> QED BY <1>3, <1>4

LEMMA CollectFailureCharged ==
    ASSUME IInv, IInv', AnswerInv, LeaseInv, ChargeInv, CollectFailure
    PROVE  ChargeInv'
<1>1. /\ pc = "run" /\ ~job.restart /\ job.adding = {} /\ failures' = failures
      /\ pc' = "settle"
      /\ job' = [NoJob EXCEPT !.origin = "finish", !.active = job.active]
  BY DEF CollectFailure, Collect, Collectable, Settling
<1>2. /\ Read(cursor) = cursor /\ cursor \in Cursor /\ TextOnly(cursor)
      /\ OperationCharged /\ job.active \in job.ids /\ job.ids \subseteq Inputs
  BY <1>1, OperationRead, LeaseStart, BatchPending
     DEF LeaseInv, QueueFits, ChargeInv, AnswerInv, OperationFits
<1>3. Dispatched = job.ids \cup job.sent
  BY <1>1 DEF Dispatched
<1>4. Spend(job.ids \cup job.sent) \/ SpendAll(job.ids \cup job.sent)
  BY DEF CollectFailure
<1>5. SpentGrows /\ AttemptsEnd
  BY <1>3, <1>4, SpendGrows DEF AttemptsEnd, Pending
<1>6. job'.sent = {} /\ job'.accepted = {}
  BY <1>1, SettlingUnsent DEF Unsent
<1>7. CASE job.task # "stopped"
  <2>1. cursor' = cursor \/ cursor' = RecordFailure(cursor, job.active, FALSE)
    BY <1>2, <1>7 DEF CollectFailure
  <2>2. Cheap(cursor, cursor')
    BY <1>2, <2>1, CheapSame, ReturnsCheap
  <2> QED BY <1>1, <1>5, <1>6, <2>2, RestCharged
<1>8. CASE job.task = "stopped"
  <2>1. cursor' = RecordFailure(cursor, job.active, TRUE) /\ SpendAll(job.ids \cup job.sent)
    BY <1>2, <1>8 DEF CollectFailure
  <2>2. cursor.lease = job.ids
    BY <1>1, <1>2, <1>8 DEF OperationCharged
  <2>3. ASSUME NEW i \in Inputs
        PROVE  LET x == cursor.inputs[i]
                   y == cursor'.inputs[i]
               IN  /\ y.seq = x.seq /\ y.attempts = x.attempts
                   /\ y.stop => x.stop \/ i \in job.ids
    BY <1>2, <2>1, <2>2, FailureEffect
  <2>4. ASSUME NEW i \in Pending(cursor')
        PROVE  /\ cursor'.inputs[i].attempts <= spent'[i] + 1
               /\ cursor'.inputs[i].attempts <= spent'[i]
               /\ cursor'.inputs[i].stop => spent'[i] = MaxAttempts
    <3>1. i \in Inputs /\ i \in Pending(cursor)
      BY <2>3 DEF Pending
    <3>2. /\ cursor'.inputs[i].attempts \in Nat /\ cursor'.inputs[i].attempts <= MaxAttempts
          /\ spent[i] \in Nat /\ spent'[i] \in Nat /\ MaxAttempts \in Nat
      BY <3>1, SlotTyped, BoundsAssumption DEF PendingInput, IInv, TypeOK
    <3>3. CASE i \in job.ids
      <4>1. spent'[i] = MaxAttempts
        BY <2>1, <3>1, <3>3 DEF SpendAll
      <4> QED BY <3>2, <4>1
    <3>4. CASE i \notin job.ids
      <4>1. i \notin Dispatched
        BY <1>2, <1>3, <3>4 DEF OperationCharged
      <4>2. spent'[i] = spent[i]
        BY <1>3, <2>1, <3>1, <4>1 DEF SpendAll
      <4>3. cursor.inputs[i].attempts <= spent[i]
            /\ (cursor.inputs[i].stop => spent[i] = MaxAttempts)
        BY <3>1, <4>1 DEF ChargeInv, ChargedBy
      <4> QED BY <2>3, <3>1, <3>2, <3>4, <4>2, <4>3
    <3> QED BY <3>3, <3>4
  <2>5. ChargedBy(cursor', spent', Dispatched')
    BY <2>4 DEF ChargedBy
  <2>6. OperationCharged' /\ GivenUpAfterAttempts'
    BY <1>1, <1>5, <1>6, FailuresStay DEF OperationCharged, ChargeInv
  <2> QED BY <2>5, <2>6 DEF ChargeInv
<1> QED BY <1>7, <1>8

LEMMA CollectCharged ==
    ASSUME IInv, IInv', AnswerInv, LeaseInv, ChargeInv,
           CollectRestart \/ CollectUnread \/ ReserveCommit
    PROVE  ChargeInv'
<1>1. pc = "run" /\ failures' = failures
  BY DEF CollectRestart, CollectUnread, ReserveCommit, Collectable, Collect, ActorFrame
<1>2. /\ Read(cursor) = cursor /\ cursor \in Cursor /\ OperationCharged
      /\ job.ids \subseteq Inputs /\ job.origin = "finish"
  BY <1>1, OperationRead, LeaseStart, BatchPending
     DEF LeaseInv, QueueFits, ChargeInv, AnswerInv, OperationFits
<1>3. CASE CollectRestart
  <2>1. /\ cursor' = cursor /\ spent' = spent /\ pc' = "idle" /\ job' = NoJob
        /\ job.restart \/ job.task = "superseded"
    BY <1>3 DEF CollectRestart, ActorFrame
  <2>2. ASSUME NEW i \in job.ids PROVE cursor.inputs[i].attempts <= spent[i]
    <3>1. cursor.inputs[i].attempts <= job.before[i] /\ job.before[i] <= spent[i]
      BY <1>1, <1>2, <2>1 DEF OperationCharged
    <3>2. /\ cursor.inputs[i].attempts \in Nat /\ job.before[i] \in Nat /\ spent[i] \in Nat
      BY <1>2, SlotTyped, BoundsAssumption DEF PendingInput, IInv, TypeOK, Job
    <3> QED BY <3>1, <3>2
  <2>3. Dispatched \subseteq job.ids
    BY <1>1, <1>2 DEF Dispatched, OperationCharged
  <2>4. ChargedBy(cursor', spent', Dispatched')
    <3>1. ASSUME NEW i \in Pending(cursor)
          PROVE  /\ cursor.inputs[i].attempts <= spent[i] + 1
                 /\ cursor.inputs[i].attempts <= spent[i]
                 /\ cursor.inputs[i].stop => spent[i] = MaxAttempts
      BY <2>2, <2>3 DEF ChargeInv, ChargedBy
    <3> QED BY <2>1, <3>1 DEF ChargedBy, Pending
  <2>5. OperationCharged' /\ GivenUpAfterAttempts'
    BY <1>1, <2>1, NoneUnsent DEF Unsent, OperationCharged, ChargeInv, GivenUpAfterAttempts
  <2> QED BY <2>4, <2>5 DEF ChargeInv
<1>4. CASE CollectUnread
  BY <1>1, <1>4 DEF CollectUnread, Collect, LeaseInv, OperationLeased
<1>5. CASE ReserveCommit
  <2>1. ~job.restart
    BY <1>5 DEF ReserveCommit, Collect
  <2>2. CASE CanReserve(cursor, job.gen, job.seq, job.ids)
    <3>1. /\ cursor' = Reserve(cursor, job.seq, job.ids, job.turn) /\ pc' = "mark"
          /\ UNCHANGED <<job, spent>>
      BY <1>2, <1>5, <2>2 DEF ReserveCommit
    <3>2. Cheap(cursor, cursor')
      BY <1>2, <3>1, CommitCheap
    <3>3. SpentGrows /\ AttemptsEnd
      BY <1>1, <1>2, <2>1, <3>1, SameSpent
         DEF AttemptsEnd, Dispatched, TurnCommitLocked, CommitSteps
    <3>4. job'.sent = {} /\ job'.accepted = {}
      BY <1>2, <3>1 DEF OperationCharged
    <3> QED BY <1>1, <3>1, <3>2, <3>3, <3>4, RestCharged
  <2>3. CASE ~CanReserve(cursor, job.gen, job.seq, job.ids)
    <3>1. cursor' = cursor /\ FailCommit
      BY <1>2, <1>5, <2>3 DEF ReserveCommit
    <3>2. Cheap(cursor, cursor')
      BY <1>2, <3>1, CheapSame
    <3> QED BY <1>1, <1>2, <2>1, <3>1, <3>2, FailCharged
  <2> QED BY <2>2, <2>3
<1> QED BY <1>3, <1>4, <1>5

LEMMA CommitCharged ==
    ASSUME IInv, IInv', AnswerInv, ChargeInv, CommitNext
    PROVE  ChargeInv'
<1> DEFINE c == Read(cursor)
           e == Finalize(c, job.ids)
           d == Reconcile(e, said, Settled)
<1>1. cursor \in Cursor /\ c \in Cursor /\ Cheap(cursor, c) /\ Cheap(cursor, cursor)
  BY ReadsCheap
<1>2. pc \in CommitSteps /\ pc # "run" /\ failures' = failures
  BY DEF CommitNext, MarkCommit, PrepareResponse, StartResponse, LogResponse, PublishResponse,
         FinalizeCommit, CommitFrame, CommitSteps
<1>3. job.sent = {} /\ job.accepted = {}
  BY DEF ChargeInv, OperationCharged
<1>4. e \in Cursor /\ d \in Cursor /\ Cheap(c, e) /\ Cheap(e, d)
  <2>1. Cheap(c, e)
    BY <1>1, RemovalsCheap
  <2> QED BY <1>1, <2>1, FinalizeTyped, ReconcileTyped, ReconcileCheap
<1>5. Cheap(cursor, cursor')
  <2>1. \/ cursor' = cursor \/ cursor' = c \/ cursor' = MarkPersisting(c)
        \/ cursor' = PrepareRecovery(c) \/ cursor' = Prepare(c, job.ids, job.turn)
        \/ cursor' = Start(c, job.ids) \/ cursor' = e \/ cursor' = d
    BY DEF CommitNext, MarkCommit, PrepareResponse, StartResponse, LogResponse, PublishResponse,
           FinalizeCommit
  <2> HIDE DEF c, d, e
  <2>2. /\ Cheap(c, c) /\ Cheap(c, MarkPersisting(c)) /\ Cheap(c, PrepareRecovery(c))
        /\ Cheap(c, Prepare(c, job.ids, job.turn)) /\ Cheap(c, Start(c, job.ids))
    BY <1>1, CheapSame, RecoveryCheap, CommitCheap
  <2>3. Cheap(c, d)
    BY <1>1, <1>4, CheapTransitive
  <2>4. Cheap(c, cursor') \/ cursor' = cursor
    BY <1>4, <2>1, <2>2, <2>3
  <2> QED BY <1>1, <2>4, CheapTransitive DEF IInv, TypeOK
<1>6. CASE FailCommit
  BY <1>2, <1>5, <1>6, FailCharged
<1>7. CASE pc' \in CommitSteps /\ UNCHANGED <<job, spent>>
  <2>1. SpentGrows /\ AttemptsEnd /\ pc' \notin {"begin", "run"}
    BY <1>2, <1>7, SameSpent DEF AttemptsEnd, Dispatched, TurnCommitLocked, CommitSteps
  <2> QED BY <1>2, <1>3, <1>5, <1>7, <2>1, RestCharged
<1>8. CASE FinalizeCommit /\ UNCHANGED spent /\ job.origin # "finish" /\ AfterRecovery
  <2>1. Dispatched = {}
    BY <1>2, <1>8 DEF Dispatched, TurnCommitLocked
  <2>2. pc' \notin {"begin", "run"} /\ Unsent(job')
    BY <1>8, NoneUnsent, StartUnsent DEF AfterRecovery
  <2> QED BY <1>2, <1>5, <1>8, <2>1, <2>2, CalmCharged DEF Unsent
<1>9. CASE FinalizeCommit /\ UNCHANGED spent /\ cursor' = d /\ pc' = "idle" /\ job' = NoJob
  <2>1. answers[job.turn] = job.ids /\ job.turn \in Responses /\ job.ids \subseteq Inputs
    BY <1>9 DEF FinalizeCommit, AnswerInv, CommitFits, IInv, OperationKnown, CommitSteps,
                TypeOK, Job
  <2>2. job.ids \subseteq Settled
    BY <2>1 DEF Settled, Answered
  <2>3. Pending(e) \cap job.ids = {}
    BY <1>1, RemovalsCheap
  <2>4. Pending(d) \cap job.ids = {}
    <3>1. Grows(e, d, Missing(e, said, Settled))
      BY <1>4, ReconcileGrows
    <3>2. Missing(e, said, Settled) \cap job.ids = {}
      BY <2>2 DEF Missing
    <3> HIDE DEF d, e
    <3> QED BY <2>3, <3>1, <3>2 DEF Grows, Pending
  <2>5. AttemptsEnd
    <3> HIDE DEF d
    <3> QED BY <1>3, <1>9, <2>4 DEF AttemptsEnd, Dispatched
  <2>6. SpentGrows
    BY <1>9, SameSpent
  <2> QED BY <1>2, <1>5, <1>9, <2>5, <2>6, NoneUnsent, RestCharged DEF Unsent
<1>10. \/ FailCommit
       \/ pc' \in CommitSteps /\ UNCHANGED <<job, spent>>
       \/ FinalizeCommit /\ UNCHANGED spent /\ job.origin # "finish" /\ AfterRecovery
       \/ FinalizeCommit /\ UNCHANGED spent /\ cursor' = d /\ pc' = "idle" /\ job' = NoJob
  <2>1. CASE FinalizeCommit
    BY <2>1 DEF FinalizeCommit
  <2>2. CASE ~FinalizeCommit
    BY <2>2 DEF CommitNext, MarkCommit, PrepareResponse, StartResponse, LogResponse,
                PublishResponse, Continue, CommitSteps
  <2> QED BY <2>1, <2>2
<1> QED BY <1>6, <1>7, <1>8, <1>9, <1>10

LEMMA UserCharged ==
    ASSUME IInv, IInv', LeaseInv, ChargeInv, UserNext
    PROVE  ChargeInv'
<1> DEFINE c == Read(cursor)
<1>1. cursor \in Cursor /\ c \in Cursor /\ Cheap(cursor, c) /\ TextOnly(cursor)
  BY ReadsCheap DEF LeaseInv, QueueFits
<1>2. ASSUME NEW i, cursor' \in {Cancel(c, i), CancelAfterTermination(c, i)}
      PROVE  Cheap(cursor, cursor')
  <2>1. Cheap(c, cursor')
    BY <1>1, <1>2, RemovalsCheap
  <2> QED BY <1>1, <2>1, CheapTransitive DEF IInv, TypeOK
<1>3. CASE CancelActive
  <2>1. /\ pc = "run" /\ cursor' = Cancel(c, job.active) /\ pc' = "idle" /\ job' = NoJob
        /\ failures' = failures
        /\ IF job.restart THEN UNCHANGED spent ELSE Spend(job.ids \cup job.sent)
    BY <1>3 DEF CancelActive
  <2>2. SpentGrows /\ AttemptsEnd
    <3>1. CASE job.restart
      BY <2>1, <3>1, SameSpent DEF AttemptsEnd, Dispatched, TurnCommitLocked, CommitSteps
    <3>2. CASE ~job.restart
      <4>1. Spend(job.ids \cup job.sent) /\ Dispatched = job.ids \cup job.sent
        BY <2>1, <3>2 DEF Dispatched
      <4> QED BY <4>1, SpendGrows DEF AttemptsEnd, Pending
    <3> QED BY <3>1, <3>2
  <2>3. Cheap(cursor, cursor')
    BY <1>2, <2>1
  <2> QED BY <2>1, <2>2, <2>3, NoneUnsent, RestCharged DEF Unsent
<1>4. ASSUME NEW i \in Inputs, RetryAttachment(i) PROVE FALSE
  BY <1>1, <1>4 DEF RetryAttachment, Terminal, TextOnly
<1>5. ASSUME NEW i \in Inputs, CancelGivenUp(i) \/ RetryAsCopy(i) PROVE ChargeInv'
  <2>1. /\ cursor' \in {Cancel(c, i), CancelAfterTermination(c, i)} /\ pc = "idle"
        /\ UNCHANGED <<spent, failures>> /\ pc' \notin {"begin", "run"}
    BY <1>5 DEF CancelGivenUp, RetryAsCopy, ActorFrame
  <2>2. Dispatched = {}
    BY <2>1 DEF Dispatched, TurnCommitLocked, CommitSteps
  <2>3. job' = job \/ job' = [NoJob EXCEPT !.copy = i]
    BY <1>5 DEF CancelGivenUp, RetryAsCopy
  <2>4. Unsent(job')
    BY <2>3, CopyUnsent DEF Unsent, ChargeInv, OperationCharged
  <2>5. Cheap(cursor, cursor')
    BY <1>2, <2>1
  <2> QED BY <2>1, <2>2, <2>4, <2>5, CalmCharged DEF Unsent
<1> QED BY <1>3, <1>4, <1>5 DEF UserNext

LEMMA CopyCharged ==
    ASSUME IInv, IInv', ChargeInv, SayCopy \/ EnqueueCopy
    PROVE  ChargeInv'
<1> DEFINE c == Read(cursor)
<1>1. cursor \in Cursor /\ c \in Cursor /\ Cheap(cursor, c) /\ Cheap(cursor, cursor)
  BY ReadsCheap
<1>2. /\ pc \in {"copy", "copyEnqueue"} /\ pc' \in {"copyEnqueue", "idle"}
      /\ UNCHANGED <<spent, failures>>
  BY DEF SayCopy, EnqueueCopy, ActorFrame
<1>3. Dispatched = {}
  BY <1>2 DEF Dispatched, TurnCommitLocked, CommitSteps
<1>4. job'.sent = {} /\ job'.accepted = {}
  <2>1. job.sent = {} /\ job.accepted = {} /\ job \in Job
    BY DEF ChargeInv, OperationCharged, IInv, TypeOK
  <2>2. job' = NoJob \/ job' = [job EXCEPT !.copy = said + 1]
    BY DEF SayCopy, EnqueueCopy
  <2>3. CASE job' = [job EXCEPT !.copy = said + 1]
    BY <2>1, <2>3 DEF Job
  <2> QED BY <2>2, <2>3, NoneUnsent DEF Unsent
<1>5. Cheap(cursor, cursor')
  <2>1. CASE SayCopy
    BY <1>1, <2>1 DEF SayCopy
  <2>2. CASE EnqueueCopy
    <3>1. job.copy \in Inputs
      BY <2>2 DEF EnqueueCopy, IInv, OperationKnown, TypeOK, Job
    <3>2. cursor' = c \/ cursor' = Enqueue(c, job.copy)
      BY <2>2 DEF EnqueueCopy
    <3> HIDE DEF c
    <3>3. Cheap(c, cursor')
      BY <1>1, <3>1, <3>2, CheapSame, EnqueueCheap
    <3> QED BY <1>1, <3>3, CheapTransitive DEF IInv, TypeOK
  <2> QED BY <2>1, <2>2
<1> QED BY <1>2, <1>3, <1>4, <1>5, CalmCharged

LEMMA FaultCharged ==
    ASSUME IInv, IInv', ChargeInv, FaultNext
    PROVE  ChargeInv'
<1>1. cursor \in Cursor /\ Read(cursor) \in Cursor
      /\ Cheap(cursor, cursor) /\ Cheap(cursor, Read(cursor))
  BY ReadsCheap
<1>2. failures' = failures
  BY DEF FaultNext, Crash, Interrupt, CommitStepFails, StartStepFails, durable
<1>3. CASE Crash \/ Interrupt
  <2>1. /\ cursor' = cursor /\ pc' \in {"boot", "idle"} /\ job' = NoJob /\ Spend(Dispatched)
    BY <1>3 DEF Crash, Interrupt, durable
  <2>2. SpentGrows /\ AttemptsEnd
    BY <2>1, SpendGrows DEF AttemptsEnd, Pending
  <2> QED BY <1>1, <1>2, <2>1, <2>2, NoneUnsent, RestCharged DEF Unsent
<1>4. CASE CommitStepFails
  <2>1. /\ FailCommit /\ pc # "run"
        /\ cursor' = cursor \/ cursor' = PrepareRecovery(Read(cursor))
    BY <1>4 DEF CommitStepFails, CommitSteps
  <2>2. Cheap(cursor, cursor')
    <3>1. Cheap(Read(cursor), PrepareRecovery(Read(cursor)))
          /\ PrepareRecovery(Read(cursor)) \in Cursor
      BY <1>1, RecoveryCheap, PrepareRecoveryTyped
    <3> QED BY <1>1, <2>1, <3>1, CheapTransitive
  <2> QED BY <1>2, <2>1, <2>2, FailCharged
<1>5. CASE StartStepFails
  <2>1. /\ cursor' = cursor /\ pc' = "idle" /\ job' = NoJob /\ spent' = spent
        /\ pc \in {"settle", "remove", "lease", "begin"}
    BY <1>5 DEF StartStepFails, durable
  <2>2. Dispatched = {}
    BY <2>1 DEF Dispatched, TurnCommitLocked, CommitSteps
  <2> QED BY <1>1, <1>2, <2>1, <2>2, NoneUnsent, CalmCharged DEF Unsent
<1> QED BY <1>3, <1>4, <1>5 DEF FaultNext

LEMMA InitCharged == Init => ChargeInv
<1> SUFFICES ASSUME Init PROVE ChargeInv
  OBVIOUS
<1>1. Pending(cursor) = {}
  BY DEF Init, Pending, DefaultCursor, Absent
<1>2. job.sent = {} /\ job.accepted = {}
  BY NoneUnsent DEF Init, Unsent
<1> QED BY <1>1, <1>2 DEF Init, ChargeInv, ChargedBy, OperationCharged, GivenUpAfterAttempts

LEMMA ChargeStep ==
    ASSUME ~MidTurn, IInv, IInv', AnswerInv, LeaseInv, ChargeInv, [Next]_vars
    PROVE  ChargeInv'
<1>1. CASE HandleNext
  BY <1>1, SayCharged, EnqueueSaidCharged DEF HandleNext
<1>2. CASE ActorNext
  BY <1>2, StartCharged, SettleCharged, RecoverCharged, TakeLeaseCharged, BeginCharged,
     AcceptCharged, AppendCharged, CollectFailureCharged, CollectCharged, CommitCharged,
     CopyCharged DEF ActorNext
<1>3. CASE TaskNext \/ UserNext \/ FaultNext
  BY <1>3, TaskCharged, UserCharged, FaultCharged
<1>4. CASE UNCHANGED vars
  BY <1>4 DEF vars, ChargeInv, ChargedBy, Pending, OperationCharged, GivenUpAfterAttempts,
              Dispatched, TurnCommitLocked, CommitSteps
<1> QED BY <1>1, <1>2, <1>3, <1>4 DEF Next

\* Without images and without input in the middle of a call nobody's message is
\* given up for nothing, for any number of messages, operations, attempts and
\* faults: it was dispatched as often as it may be without an answer, or a failure
\* forbade another attempt. What the user adds to a running call costs none.
THEOREM GivenUpIsSpent ==
    ASSUME ~WithImages, ~MidTurn PROVE Spec => []GivenUpAfterAttempts
<1>1. Init => IInv /\ AnswerInv /\ LeaseInv /\ ChargeInv
  BY InitTyped, InitAnswers, InitLeased, InitCharged
<1>2. IInv /\ AnswerInv /\ LeaseInv /\ ChargeInv /\ [Next]_vars
          => (IInv /\ AnswerInv /\ LeaseInv /\ ChargeInv)'
  BY StepTyped, AnswersStep, LeaseStep, ChargeStep
<1>3. ChargeInv => GivenUpAfterAttempts
  BY DEF ChargeInv
<1> QED BY <1>1, <1>2, <1>3, PTL DEF Spec
=============================================================================
