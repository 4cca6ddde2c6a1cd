--------------------------- MODULE ProviderBridge ---------------------------
(***************************************************************************)
(* Request multiplexing over one bridge process                            *)
(* (crates/core/src/provider/bridge.rs): callers share the process, its    *)
(* stdin is lent to one writer at a time, answers are matched to pending   *)
(* requests by id, and a process that fails, is cut off by a cancellation  *)
(* or loses its environment is replaced by one of the next generation.     *)
(*                                                                         *)
(* A caller makes one call (open, resolve or send: they differ in what an  *)
(* answer carries), may add to it while it runs (append) and may give it   *)
(* up at any time (cancellation or deadline).  A request is named by its   *)
(* caller and its kind, which stands for the fresh uuid of the code.       *)
(* A step of a caller runs from one await to the next.                     *)
(***************************************************************************)
EXTENDS Integers, Sequences, FiniteSets, SequencesExt

CONSTANTS Callers,
          Appenders,        \* bound: callers whose call is added to
          MaxGenerations,   \* bound: processes ever started or skipped
          MaxPending,       \* MAX_PENDING
          MaxBridgeFaults   \* bound: failures the environment may cause

ASSUME BridgeAssumption == MaxGenerations \in Nat /\ MaxBridgeFaults \in Nat

VARIABLES bridge,    \* BridgeState without the pending map
          pending,   \* BridgeState.pending: request id and its generation
          process,   \* each generation's process, as the operating system has it
          slot,      \* each request's oneshot channel
          caller,    \* where each caller is, and the generation it writes to
          writers,   \* FIFO of write_lock: its head holds it
          bridgeFaults

bridgeVars == <<bridge, pending, process, slot, caller, writers, bridgeFaults>>

RequestKinds == {"call", "append", "cancel"}
Requests == Callers \X RequestKinds
Gens == 1 .. MaxGenerations

BridgeState ==
    [gen : 0 .. MaxGenerations, stdin : BOOLEAN, pid : {0} \cup Gens,
     wait : {0} \cup Gens, reaping : {0} \cup Gens, failures : 0 .. 5,
     backoff : BOOLEAN, failed : 0 .. MaxGenerations, shutting : BOOLEAN]

NewBridge ==
    [gen |-> 0, stdin |-> FALSE, pid |-> 0, wait |-> 0, reaping |-> 0,
     failures |-> 0, backoff |-> FALSE, failed |-> 0, shutting |-> FALSE]

ProcessStates == {"none", "alive", "dying", "reaped"}
SlotStates == {"empty", "ok", "err", "dropped"}
CallerStates ==
    [pc : {"idle", "lock", "write", "writing", "failed", "wait", "ack",
           "grace", "abort", "done"},
     kind : RequestKinds, gen : 0 .. MaxGenerations, appended : BOOLEAN]

BridgeTypeOK ==
    /\ bridge \in BridgeState
    /\ \A p \in pending : p.id \in Requests /\ p.gen \in 0 .. MaxGenerations
    /\ process \in [Gens -> ProcessStates]
    /\ slot \in [Requests -> SlotStates]
    /\ caller \in [Callers -> CallerStates]
    /\ Range(writers) \subseteq Callers
    /\ bridgeFaults \in 0 .. MaxBridgeFaults

BridgeInit ==
    /\ bridge = NewBridge
    /\ pending = {}
    /\ process = [g \in Gens |-> "none"]
    /\ slot = [r \in Requests |-> "empty"]
    /\ caller = [c \in Callers |->
                    [pc |-> "idle", kind |-> "call", gen |-> 0, appended |-> FALSE]]
    /\ writers = <<>>
    /\ bridgeFaults = 0

BridgeFault == bridgeFaults < MaxBridgeFaults /\ bridgeFaults' = bridgeFaults + 1

----------------------------------------------------------------------------
(* Failing a generation.                                                   *)

Answers(s, ids, result) == [r \in Requests |-> IF r \in ids THEN result ELSE s[r]]

Ids(ps) == {p.id : p \in ps}

\* mark_reaping: the next start waits for the process the record still names.
MarkReaping(b) ==
    IF b.wait # 0 /\ process[b.wait] # "reaped" THEN [b EXCEPT !.reaping = b.wait] ELSE b

\* fail_generation_once for the current generation, and what it answers: a
\* pending request of another generation has its sender dropped.
FailedBridge(b) ==
    [b EXCEPT !.failed = b.gen,
              !.reaping = IF b.wait = b.gen /\ b.gen # 0 /\ process[b.gen] # "reaped"
                          THEN b.gen ELSE @,
              !.stdin = FALSE, !.pid = 0,
              !.failures = IF @ < 5 THEN @ + 1 ELSE @,
              !.backoff = TRUE]

\* Mutant: a request of an older process is left waiting.
FailedSlotsOfGeneration(b, ps) ==
    [r \in Requests |-> IF [id |-> r, gen |-> b.gen] \in ps THEN "err" ELSE slot[r]]

FailedSlots(b, ps) ==
    [r \in Requests |-> IF [id |-> r, gen |-> b.gen] \in ps THEN "err"
                        ELSE IF r \in Ids(ps) THEN "dropped" ELSE slot[r]]

Signal(pid) ==
    [g \in Gens |-> IF g = pid /\ process[g] = "alive" THEN "dying" ELSE process[g]]

\* Mutant: the requests of the failed process stay in the pending map.
ProtocolFailureKeeps(g, ps, gone) ==
    /\ pending' = ps
    /\ IF bridge.gen = g /\ bridge.failed # g
       THEN /\ bridge' = FailedBridge(bridge)
            /\ slot' = Answers(FailedSlots(bridge, ps), gone, "err")
            /\ process' = Signal(bridge.pid)
       ELSE slot' = Answers(slot, gone, "err") /\ UNCHANGED <<bridge, process>>

\* protocol_failure(g), after a failed write has already taken its own request
\* out of ps: nothing happens to another generation, nor twice to the same.
ProtocolFailure(g, ps, gone) ==
    IF bridge.gen = g /\ bridge.failed # g
    THEN /\ bridge' = FailedBridge(bridge)
         /\ pending' = {}
         /\ slot' = Answers(FailedSlots(bridge, ps), gone, "err")
         /\ process' = Signal(bridge.pid)
    ELSE /\ pending' = ps
         /\ slot' = Answers(slot, gone, "err")
         /\ UNCHANGED <<bridge, process>>

----------------------------------------------------------------------------
(* The write lock and a request.                                           *)

MoveCaller(c, pc) == caller' = [caller EXCEPT ![c].pc = pc]
Holds(c) == writers # <<>> /\ Head(writers) = c
Release == writers' = Tail(writers)

\* request, append and cancel all queue for the lock.
Begin(c) ==
    /\ caller[c].pc = "idle"
    /\ MoveCaller(c, "lock")
    /\ writers' = Append(writers, c)
    /\ UNCHANGED <<bridge, pending, process, slot, bridgeFaults>>

\* send: an input added while the call runs.
BeginAppend(c) ==
    /\ c \in Appenders /\ caller[c].pc = "wait" /\ ~caller[c].appended
    /\ caller' = [caller EXCEPT ![c].pc = "lock", ![c].kind = "append", ![c].appended = TRUE]
    /\ writers' = Append(writers, c)
    /\ UNCHANGED <<bridge, pending, process, slot, bridgeFaults>>

\* What a request that never became pending leads to: the call ends, an
\* append makes its call give up.
RequestRefused(c) ==
    IF caller[c].kind = "call"
    THEN MoveCaller(c, "done")
    ELSE /\ slot' = [slot EXCEPT ![<<c, "append">>] = "err"]
         /\ MoveCaller(c, "ack")

Refuse(c) ==
    /\ RequestRefused(c)
    /\ Release
    /\ caller[c].kind = "call" => UNCHANGED slot

\* wait_for_reap_before_start and ensure_started: the process to write to, if
\* there is one or one may be started.
Started(b) ==
    IF b.stdin THEN b
    ELSE [b EXCEPT !.gen = @ + 1, !.stdin = TRUE, !.pid = b.gen + 1, !.wait = b.gen + 1]

\* Mutant: a start does not wait for the process told to end.
ReapedOrNot == TRUE

Reaped == bridge.reaping # 0 => process[bridge.reaping] = "reaped"
MayStart == ~bridge.backoff /\ bridge.gen < MaxGenerations

\* request up to the insertion: the reaped process is forgotten, a process is
\* started when none is there, the request becomes pending.
StartRequest(c) ==
    LET started == Started([bridge EXCEPT !.reaping = 0])
    IN
    /\ Holds(c) /\ caller[c].pc = "lock" /\ caller[c].kind # "cancel"
    /\ ~bridge.shutting /\ Reaped /\ (bridge.stdin \/ MayStart)
    /\ bridge' = started
    /\ process' = IF bridge.stdin THEN process ELSE [process EXCEPT ![started.gen] = "alive"]
    /\ IF Cardinality(pending) >= MaxPending
       THEN Refuse(c) /\ UNCHANGED pending
       ELSE /\ pending' = pending \cup {[id |-> <<c, caller[c].kind>>, gen |-> started.gen]}
            /\ caller' = [caller EXCEPT ![c].pc = "write", ![c].gen = started.gen]
            /\ UNCHANGED <<slot, writers>>
    /\ UNCHANGED bridgeFaults

\* The bridge is shutting down, the old process is not reaped within
\* SHUTDOWN_REAP_LIMIT, or a restart must wait or is not possible.
RefuseRequest(c) ==
    /\ Holds(c) /\ caller[c].pc = "lock" /\ caller[c].kind # "cancel"
    /\ bridge.shutting \/ ~Reaped \/ (~bridge.stdin /\ ~MayStart)
    /\ bridge' = IF Reaped /\ ~bridge.shutting THEN [bridge EXCEPT !.reaping = 0] ELSE bridge
    /\ Refuse(c)
    /\ UNCHANGED <<pending, process, bridgeFaults>>

\* write_line of a cancellation has only to get the lock.
LockForCancel(c) ==
    /\ Holds(c) /\ caller[c].pc = "lock" /\ caller[c].kind = "cancel"
    /\ MoveCaller(c, "write")
    /\ UNCHANGED <<bridge, pending, process, slot, writers, bridgeFaults>>

\* A failed write: a request keeps the lock until it has failed the
\* generation, write_line of a cancellation has already let it go.
LineFails(c) ==
    /\ MoveCaller(c, "failed")
    /\ IF caller[c].kind = "cancel" THEN Release ELSE UNCHANGED writers

\* write_line_locked up to the write: stdin is lent to the writer.
TakeStdin(c) ==
    /\ caller[c].pc = "write"
    /\ IF bridge.gen = caller[c].gen /\ bridge.stdin
       THEN /\ bridge' = [bridge EXCEPT !.stdin = FALSE]
            /\ MoveCaller(c, "writing")
            /\ UNCHANGED writers
       ELSE LineFails(c) /\ UNCHANGED bridge
    /\ UNCHANGED <<pending, process, slot, bridgeFaults>>

LeaseIsCurrent(g) ==
    bridge.gen = g /\ bridge.failed # g /\ ~bridge.shutting /\ ~bridge.stdin

\* The line is written and stdin given back.
FinishWrite(c) ==
    /\ caller[c].pc = "writing" /\ LeaseIsCurrent(caller[c].gen)
    /\ process[caller[c].gen] # "reaped"
    /\ bridge' = [bridge EXCEPT !.stdin = TRUE]
    /\ MoveCaller(c, CASE caller[c].kind = "call" -> "wait"
                 [] caller[c].kind = "append" -> "ack"
                 [] caller[c].kind = "cancel" -> "grace")
    /\ Release
    /\ UNCHANGED <<pending, process, slot, bridgeFaults>>

\* The write fails, takes more than BRIDGE_WRITE_TIMEOUT or is no longer wanted.
FailWrite(c) ==
    /\ caller[c].pc = "writing"
    /\ IF LeaseIsCurrent(caller[c].gen) /\ process[caller[c].gen] # "reaped"
       THEN BridgeFault ELSE UNCHANGED bridgeFaults
    /\ LineFails(c)
    /\ UNCHANGED <<bridge, pending, process, slot>>

\* The error path of request and of cancel: the own request is answered with
\* the error, then protocol_failure.
FailRequest(c) ==
    LET own == <<c, caller[c].kind>>
    IN
    /\ caller[c].pc = "failed"
    /\ ProtocolFailure(caller[c].gen, {p \in pending : p.id # own},
                       {own} \cap Ids(pending))
    /\ IF caller[c].kind = "cancel"
       THEN MoveCaller(c, "grace") /\ UNCHANGED writers
       ELSE /\ MoveCaller(c, IF caller[c].kind = "call" THEN "done" ELSE "ack")
            /\ Release
    /\ UNCHANGED bridgeFaults

----------------------------------------------------------------------------
(* Answers and giving up.                                                  *)

\* send: the answer has come, or its sender is gone.
Return(c) ==
    /\ caller[c].pc = "wait" /\ slot[<<c, "call">>] # "empty"
    /\ MoveCaller(c, "done")
    /\ UNCHANGED <<bridge, pending, process, slot, writers, bridgeFaults>>

\* append: acknowledged.
Appended(c) ==
    /\ caller[c].pc = "ack" /\ slot[<<c, "append">>] = "ok"
    /\ caller' = [caller EXCEPT ![c].pc = "wait", ![c].kind = "call"]
    /\ UNCHANGED <<bridge, pending, process, slot, writers, bridgeFaults>>

\* Where the select of send may see the cancellation or the deadline: while it
\* waits for the answer and at every await of an append, whose future is then
\* dropped with the lock and the stdin it holds.  An append that failed gives
\* the call up as well.
MayGiveUp(c) ==
    \/ caller[c].pc = "wait"
    \/ caller[c].kind = "append" /\ caller[c].pc \in {"lock", "write", "writing", "failed", "ack"}

\* cancel_request: cancel inserts its own request under the generation of the
\* moment, and queues for the lock.
GiveUp(c) ==
    /\ MayGiveUp(c)
    /\ pending' = pending \cup {[id |-> <<c, "cancel">>, gen |-> bridge.gen]}
    /\ caller' = [caller EXCEPT ![c].pc = "lock", ![c].kind = "cancel", ![c].gen = bridge.gen]
    /\ writers' = Append(RemoveFirst(writers, c), c)
    /\ UNCHANGED <<bridge, process, slot, bridgeFaults>>

\* cancel_request: the answer and the acknowledgement came within CANCEL_GRACE.
Acknowledged(c) ==
    /\ caller[c].pc = "grace"
    /\ slot[<<c, "call">>] # "empty" /\ slot[<<c, "cancel">>] # "empty"
    /\ MoveCaller(c, "done")
    /\ UNCHANGED <<bridge, pending, process, slot, writers, bridgeFaults>>

\* cancel_request: they did not, so abort_generation ends the generation of the
\* moment, which counts as no failure.
Abort(c) ==
    /\ caller[c].pc = "grace"
    /\ slot[<<c, "call">>] = "empty" \/ slot[<<c, "cancel">>] = "empty"
    /\ MoveCaller(c, "abort")
    /\ IF bridge.failed = bridge.gen
       THEN UNCHANGED <<bridge, pending, process, slot>>
       ELSE /\ bridge' = [FailedBridge(bridge) EXCEPT !.failures = 0, !.backoff = FALSE]
            /\ slot' = FailedSlots(bridge, pending)
            /\ pending' = {}
            /\ process' = Signal(bridge.pid)
    /\ UNCHANGED <<writers, bridgeFaults>>

\* cancel_request: the answer is awaited without a limit.
AnsweredByAbort(c) ==
    /\ caller[c].pc = "abort" /\ slot[<<c, "call">>] # "empty"
    /\ MoveCaller(c, "done")
    /\ UNCHANGED <<bridge, pending, process, slot, writers, bridgeFaults>>

----------------------------------------------------------------------------
(* The process, the environment and the end.                               *)

\* The process knows a request once its line is written.
Sent(p) ==
    LET c == p.id[1]
    IN caller[c].kind = p.id[2] => caller[c].pc \notin {"lock", "write", "writing", "failed"}

\* handle_event: an answer of the current generation to one of its requests.
\* A cancellation is acknowledged once its target is over.
Answer(p) ==
    /\ process[bridge.gen] \in {"alive", "dying"}
    /\ p \in pending /\ p.gen = bridge.gen /\ Sent(p)
    /\ p.id[2] = "cancel" => <<p.id[1], "call">> \notin Ids(pending)
    /\ pending' = pending \ {p}
    /\ \E result \in {"ok", "err"} :
          /\ slot' = [slot EXCEPT ![p.id] = result]
          /\ bridge' = IF p.id[2] = "call" /\ result = "ok"
                       THEN [bridge EXCEPT !.failures = 0, !.backoff = FALSE] ELSE bridge
    /\ UNCHANGED <<process, caller, writers, bridgeFaults>>

\* read_stdout, read_stderr: a line that is no event, or too much output.
Garbage(g) ==
    /\ process[g] = "alive"
    /\ BridgeFault
    /\ ProtocolFailure(g, pending, {})
    /\ UNCHANGED <<caller, writers>>

\* The process ends: by itself, because it was told to, or because its stdin is
\* gone; process_exited, then wait_completion.
Exit(g) ==
    /\ process[g] \in {"alive", "dying"}
    /\ IF process[g] = "dying" \/ g # bridge.gen THEN UNCHANGED bridgeFaults ELSE BridgeFault
    /\ process' = [process EXCEPT ![g] = "reaped"]
    /\ IF bridge.gen = g /\ bridge.failed # g
       THEN /\ bridge' = FailedBridge(bridge)
            /\ slot' = FailedSlots(bridge, pending)
            /\ pending' = {}
       ELSE UNCHANGED <<bridge, slot, pending>>
    /\ UNCHANGED <<caller, writers>>

\* restart_not_before passes.
RestartAllowed ==
    /\ bridge.backoff
    /\ bridge' = [bridge EXCEPT !.backoff = FALSE]
    /\ UNCHANGED <<pending, process, slot, caller, writers, bridgeFaults>>

\* update_environment with other credentials: the process is told to stop.
UpdateEnvironment ==
    /\ ~bridge.shutting /\ bridge.gen < MaxGenerations
    /\ BridgeFault
    /\ bridge' = [MarkReaping(bridge) EXCEPT !.failures = 0, !.backoff = FALSE,
                     !.failed = 0, !.gen = @ + 1, !.pid = 0, !.stdin = FALSE]
    /\ slot' = Answers(slot, Ids(pending), "err")
    /\ pending' = {}
    /\ process' = Signal(bridge.pid)
    /\ UNCHANGED <<caller, writers>>

\* shutdown
Shutdown ==
    /\ ~bridge.shutting
    /\ BridgeFault
    /\ bridge' = [MarkReaping(bridge) EXCEPT !.shutting = TRUE, !.pid = 0, !.stdin = FALSE]
    /\ slot' = Answers(slot, Ids(pending), "err")
    /\ pending' = {}
    /\ process' = Signal(bridge.pid)
    /\ UNCHANGED <<caller, writers>>

----------------------------------------------------------------------------
CallerStep(c) ==
    \/ StartRequest(c) \/ RefuseRequest(c) \/ LockForCancel(c) \/ TakeStdin(c)
    \/ FinishWrite(c) \/ FailWrite(c) \/ FailRequest(c) \/ Return(c) \/ Appended(c)
    \/ GiveUp(c) \/ Acknowledged(c) \/ Abort(c) \/ AnsweredByAbort(c)

Environment ==
    \/ \E p \in pending : Answer(p)
    \/ \E g \in Gens : Garbage(g) \/ Exit(g)
    \/ RestartAllowed \/ UpdateEnvironment \/ Shutdown

BridgeNext ==
    \/ \E c \in Callers : Begin(c) \/ BeginAppend(c) \/ CallerStep(c)
    \/ Environment

BridgeSpec == BridgeInit /\ [][BridgeNext]_bridgeVars

----------------------------------------------------------------------------
(* A call that was made returns: with an answer, an error, or because its  *)
(* deadline gave it up, whatever the process, the environment and the      *)
(* other callers do (the last await of cancel_request has no limit).       *)
Called(c) == caller[c].pc # "idle"
Returned(c) == caller[c].pc = "done"

(* A process is started only when every process that was told to end is    *)
(* gone and no line is being written to another.  One that was not told to *)
(* may still run beside it: its stdin went with a write that failed or was *)
(* given up, so that no line reaches it any more, and what it answers is of *)
(* an older generation.                                                    *)
StartsAfterReap ==
    [][(\E g \in Gens : process[g] = "none" /\ process'[g] = "alive")
        => /\ \A g \in Gens : process[g] # "dying"
           /\ \A c \in Callers : caller[c].pc # "writing"]_bridgeVars

(* A call that has returned is not waited for in the pending map, where it *)
(* would count against the limit of the calls to come.                     *)
ReturnedIsForgotten ==
    \A c \in Callers : Returned(c) => <<c, "call">> \notin Ids(pending)
=============================================================================
