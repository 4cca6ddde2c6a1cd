--------------------------- MODULE Runtime_proofs ----------------------------
(***************************************************************************)
(* Proofs about RuntimeLanes and ProviderBridge, for any messages, callers *)
(* and bounds: the gate that blocks a start, the companion that is lost with *)
(* its task, and the provider process that every call shares.              *)
(***************************************************************************)
EXTENDS RuntimeLanes, ProviderBridge, LeastNumbers, SequenceTheorems, TLAPS

----------------------------------------------------------------------------
(* RuntimeLanes.                                                           *)

OpType == [kind : OpKinds, cancelled : BOOLEAN, cause : Causes, own : BOOLEAN, due : BOOLEAN,
           inputs : SUBSET LaneMessages, restart : BOOLEAN]
SourceType == [cancelled : BOOLEAN, cause : Causes]
Targets == LaneMessages \cup {NoMessage}
ActorType == [pending : BOOLEAN, retry : BOOLEAN, initialize : BOOLEAN, rebuild : BOOLEAN,
              recover : BOOLEAN, active : Targets, failed : Targets, unrecorded : Targets,
              overrun : BOOLEAN]
MailType == [users : SUBSET LaneMessages,
             command : [type : {"none", "cancel", "retry", "replace"}, target : Targets],
             control : SUBSET {"observe", "wake"}]

LaneTypes ==
    /\ source \in [Lanes -> SourceType]
    /\ op \in [Lanes -> OpType]
    /\ gate \in BOOLEAN
    /\ agents \in [{"observer", "companion"} -> {"here", "out", "gone"}]
    /\ message \in [LaneMessages -> {"new", "queued", "failed", "answered", "cancelled"}]
    /\ actor \in ActorType
    /\ mail \in MailType
    /\ waiters \subseteq LaneMessages

(* The companion is out exactly while the operation on its lane holds it,  *)
(* and a lost one has its rebuilding before it.                            *)
CompanionOK ==
    /\ agents["companion"] = "out" <=> HoldsCompanion(op["coo"])
    /\ agents["companion"] = "gone" /\ ~actor.overrun => actor.rebuild /\ actor.initialize

(* What a blocked lane needs: an operation that no longer follows its lane *)
(* has been cancelled, or its relay is about to.                           *)
QuietOp(o) == o.kind = "none" \/ o.cancelled \/ o.due

QuietOK ==
    \A l \in Lanes : /\ gate => source[l].cancelled
                     /\ gate \/ ~op[l].own => QuietOp(op[l])

LaneInv == LaneTypes /\ CompanionOK /\ QuietOK

----------------------------------------------------------------------------
LEMMA NoOpTyped == NoOp \in OpType /\ ~HoldsCompanion(NoOp) /\ QuietOp(NoOp)
BY DEF NoOp, OpType, OpKinds, Causes, HoldsCompanion, QuietOp

LEMMA CausedTyped ==
    ASSUME NEW c \in Causes, NEW r \in Causes PROVE Caused(c, r) \in Causes
BY DEF Caused

LEMMA FollowTyped ==
    ASSUME NEW o \in OpType, NEW r \in Causes
    PROVE  /\ Follow(o, r) \in OpType
           /\ Follow(o, r).kind = o.kind /\ Follow(o, r).own = o.own
           /\ o.own \/ QuietOp(o) => QuietOp(Follow(o, r))
<1>1. CASE o.kind = "none" \/ ~o.own
  BY <1>1 DEF Follow, QuietOp
<1>2. CASE ~(o.kind = "none" \/ ~o.own)
  <2> DEFINE c == Caused(o.cause, r)
             b == o.cancelled \/ ~Linked(o)
             d == Linked(o) /\ ~o.cancelled
  <2>1. c \in Causes /\ b \in BOOLEAN /\ d \in BOOLEAN
    BY CausedTyped DEF OpType, Linked
  <2>2. Follow(o, r) = [o EXCEPT !.cause = c, !.cancelled = b, !.due = d]
    BY <1>2 DEF Follow
  <2>3. b \/ d
    BY DEF OpType
  <2> HIDE DEF c, b, d
  <2>4. Follow(o, r) \in OpType
    BY <2>1, <2>2 DEF OpType
  <2>5. /\ Follow(o, r).kind = o.kind /\ Follow(o, r).own = o.own
        /\ Follow(o, r).cancelled = b /\ Follow(o, r).due = d
    BY <2>2 DEF OpType
  <2> QED
    BY <2>3, <2>4, <2>5 DEF QuietOp
<1> QED
  BY <1>1, <1>2

LEMMA CancelCurrentMoves ==
    ASSUME LaneInv, NEW r \in Causes, CancelCurrent(r)
    PROVE  /\ source' \in [Lanes -> SourceType]
           /\ op' \in [Lanes -> OpType]
           /\ \A l \in Lanes : /\ source'[l].cancelled
                               /\ op'[l].kind = op[l].kind /\ op'[l].own = op[l].own
                               /\ QuietOp(op'[l])
<1>1. \A l \in Lanes : CancelSource(source[l], r) \in SourceType /\ CancelSource(source[l], r).cancelled
  BY CausedTyped DEF LaneInv, LaneTypes, SourceType, CancelSource
<1>2. \A l \in Lanes : /\ Follow(op[l], r) \in OpType
                       /\ Follow(op[l], r).kind = op[l].kind /\ Follow(op[l], r).own = op[l].own
                       /\ QuietOp(Follow(op[l], r))
  BY FollowTyped DEF LaneInv, LaneTypes, QuietOK
<1> QED
  BY <1>1, <1>2 DEF CancelCurrent

(* The operation that starts on a lane: typed, of its kind.                *)
LEMMA StartOpMoves ==
    ASSUME LaneTypes, NEW l \in Lanes, NEW kind \in OpKinds, NEW inputs \in SUBSET LaneMessages,
           StartOp(l, kind, inputs)
    PROVE  /\ op' \in [Lanes -> OpType]
           /\ op'[l].kind = kind /\ op'[l].own
           /\ \A k \in Lanes : k # l => op'[k] = op[k]
<1> DEFINE c == IF kind \in {"observe", "wake"} /\ source[l].cancelled
                THEN Caused(source[l].cause, "other") ELSE source[l].cause
           o == [kind |-> kind, cancelled |-> source[l].cancelled, cause |-> c,
                 own |-> TRUE, due |-> FALSE, inputs |-> inputs, restart |-> FALSE]
<1>1. c \in Causes
  <2>1. "other" \in Causes
    BY DEF Causes
  <2> QED
    BY <2>1, CausedTyped DEF LaneTypes, SourceType
<1>2. o \in OpType /\ o.kind = kind /\ o.own
  BY <1>1 DEF LaneTypes, SourceType, OpType
<1>3. op' = [op EXCEPT ![l] = o]
  BY DEF StartOp
<1> HIDE DEF o
<1> QED
  BY <1>2, <1>3 DEF LaneTypes

LEMMA RenewedTyped ==
    ASSUME LaneTypes, NEW l \in Lanes
    PROVE  Renewed(l) \in SourceType /\ Renewed(l).cancelled = gate
BY DEF LaneTypes, SourceType, Renewed, Causes

LEMMA RenewAfterMoves ==
    ASSUME LaneInv, NEW l \in Lanes, RenewAfter(l) \/ RenewLane(l)
    PROVE  /\ source' \in [Lanes -> SourceType]
           /\ \A k \in Lanes : gate => source'[k].cancelled
<1>1. Renewed(l) \in SourceType /\ Renewed(l).cancelled = gate
  BY RenewedTyped DEF LaneInv
<1> QED
  BY <1>1 DEF LaneInv, LaneTypes, QuietOK, RenewAfter, RenewLane

(* The operation on a lane is over.                                        *)
LEMMA EndedMoves ==
    ASSUME LaneInv, NEW l \in Lanes, op' = [op EXCEPT ![l] = NoOp], UNCHANGED gate,
           RenewAfter(l) \/ RenewLane(l)
    PROVE  /\ op' \in [Lanes -> OpType]
           /\ source' \in [Lanes -> SourceType]
           /\ QuietOK'
           /\ l = "coo" => ~HoldsCompanion(op'["coo"])
           /\ l # "coo" => op'["coo"] = op["coo"]
<1>1. op' \in [Lanes -> OpType]
  BY NoOpTyped DEF LaneInv, LaneTypes
<1>2. op'[l] = NoOp /\ \A k \in Lanes : k # l => op'[k] = op[k]
  BY DEF LaneInv, LaneTypes
<1>3. \A k \in Lanes : gate \/ ~op'[k].own => QuietOp(op'[k])
  BY <1>2, NoOpTyped DEF LaneInv, QuietOK
<1>4. QuietOK'
  <2>2. \A k \in Lanes : gate => source'[k].cancelled
    BY RenewAfterMoves
  <2> QED
    BY <1>3, <2>2 DEF QuietOK, QuietOp
<1> QED
  BY <1>1, <1>2, <1>4, NoOpTyped, RenewAfterMoves DEF Lanes

----------------------------------------------------------------------------
(* Handles.                                                                *)

LEMMA SendMessageKeeps ==
    ASSUME LaneInv, NEW m \in LaneMessages, SendMessage(m) PROVE LaneInv'
<1>1. LaneTypes'
  <2>1. mail' \in MailType
    BY DEF LaneInv, LaneTypes, MailType, SendMessage
  <2> QED
    BY <2>1 DEF LaneInv, LaneTypes, SendMessage
<1> QED
  BY <1>1 DEF LaneInv, CompanionOK, QuietOK, SendMessage

LEMMA MailMoves ==
    ASSUME NEW q \in MailType
    PROVE  /\ \A c \in [type : {"none", "cancel", "retry", "replace"}, target : Targets] :
                  [q EXCEPT !.command = c] \in MailType
           /\ [q EXCEPT !.command = NoCommand] \in MailType
           /\ \A k \in {"observe", "wake"} : /\ [q EXCEPT !.control = q.control \cup {k}] \in MailType
                                           /\ [q EXCEPT !.control = q.control \ {k}] \in MailType
           /\ \A m \in LaneMessages : [q EXCEPT !.users = q.users \ {m}] \in MailType
<1>1. NoCommand \in [type : {"none", "cancel", "retry", "replace"}, target : Targets]
  BY DEF NoCommand, Targets
<1> QED
  BY <1>1 DEF MailType

LEMMA AskLaneKeeps ==
    ASSUME LaneInv,
           \/ \E m \in LaneMessages : AskUser("cancel", m) \/ AskUser("retry", m)
           \/ \E kind \in {"observe", "wake"} : AskControl(kind)
    PROVE  LaneInv'
<1>1. mail' \in MailType
  <2>1. ASSUME NEW m \in LaneMessages, NEW t \in {"cancel", "retry"}, AskUser(t, m)
        PROVE  mail' \in MailType
    <3>1. [type |-> t, target |-> m] \in [type : {"none", "cancel", "retry", "replace"}, target : Targets]
      BY DEF Targets
    <3> QED
      BY <2>1, <3>1, MailMoves DEF LaneInv, LaneTypes, AskUser
  <2>2. ASSUME NEW kind \in {"observe", "wake"}, AskControl(kind) PROVE mail' \in MailType
    BY <2>2, MailMoves DEF LaneInv, LaneTypes, AskControl
  <2> QED
    BY <2>1, <2>2
<1>2. UNCHANGED <<source, op, gate, agents, message, actor, waiters>>
  BY DEF AskUser, AskControl
<1> QED
  BY <1>1, <1>2 DEF LaneInv, LaneTypes, CompanionOK, QuietOK

LEMMA CancelAllKeeps ==
    ASSUME LaneInv, AskReplace \/ BlockStarts PROVE LaneInv'
<1>1. CancelCurrent("config") /\ "config" \in Causes
  BY DEF AskReplace, BlockStarts, Causes
<1>2. mail' \in MailType
  <2>1. [type |-> "replace", target |-> NoMessage]
            \in [type : {"none", "cancel", "retry", "replace"}, target : Targets]
    BY DEF Targets
  <2>2. mail \in MailType
    BY DEF LaneInv, LaneTypes
  <2>3. CASE AskReplace
    BY <2>1, <2>2, <2>3, MailMoves DEF AskReplace
  <2>4. CASE BlockStarts
    BY <2>2, <2>4 DEF BlockStarts
  <2> QED
    BY <2>3, <2>4
<1>3. gate' \in BOOLEAN /\ UNCHANGED <<agents, message, actor, waiters>>
  BY DEF LaneInv, LaneTypes, AskReplace, BlockStarts
<1>4. LaneTypes'
  BY <1>1, <1>2, <1>3, CancelCurrentMoves DEF LaneInv, LaneTypes
<1>5. CompanionOK'
  BY <1>1, <1>3, CancelCurrentMoves DEF LaneInv, CompanionOK, HoldsCompanion, Lanes
<1>6. QuietOK'
  BY <1>1, CancelCurrentMoves DEF QuietOK, QuietOp
<1> QED
  BY <1>4, <1>5, <1>6 DEF LaneInv

LEMMA ReleaseKeeps ==
    ASSUME LaneInv, ReleaseStarts PROVE LaneInv'
<1>1. /\ source' \in [Lanes -> SourceType]
      /\ op' \in [Lanes -> OpType]
      /\ \A l \in Lanes : /\ op'[l].kind = op[l].kind
                          /\ op'[l].cancelled = op[l].cancelled /\ op'[l].due = op[l].due
  <2>1. \A l \in Lanes : op[l] \in OpType
    BY DEF LaneInv, LaneTypes
  <2>2. \A l \in Lanes : op'[l] = [op[l] EXCEPT !.own = FALSE]
    BY DEF ReleaseStarts
  <2>3. ASSUME NEW l \in Lanes
        PROVE  /\ op'[l] \in OpType /\ op'[l].kind = op[l].kind
               /\ op'[l].cancelled = op[l].cancelled /\ op'[l].due = op[l].due
    <3> DEFINE o == op[l]
    <3>1. o \in OpType /\ op'[l] = [o EXCEPT !.own = FALSE]
      BY <2>1, <2>2
    <3> HIDE DEF o
    <3>2. /\ op'[l] \in OpType /\ op'[l].kind = o.kind
          /\ op'[l].cancelled = o.cancelled /\ op'[l].due = o.due
      BY <3>1 DEF OpType
    <3> QED
      BY <3>2 DEF o
  <2>4. op' \in [Lanes -> OpType]
    BY <2>3 DEF ReleaseStarts
  <2>5. source' \in [Lanes -> SourceType]
    BY DEF ReleaseStarts, SourceType, Causes
  <2> QED
    BY <2>3, <2>4, <2>5
<1>2. CompanionOK'
  BY <1>1 DEF LaneInv, CompanionOK, HoldsCompanion, Lanes, ReleaseStarts
<1>3. QuietOK'
  BY <1>1 DEF LaneInv, LaneTypes, QuietOK, QuietOp, ReleaseStarts
<1> QED
  BY <1>1, <1>2, <1>3 DEF LaneInv, LaneTypes, ReleaseStarts

(* An operation is told to end, or its relay tells it.                     *)
LEMMA CancelOpMoves ==
    ASSUME LaneInv, NEW l \in Lanes, NEW c \in Causes,
           op' = [op EXCEPT ![l] = [op[l] EXCEPT !.cancelled = TRUE, !.due = FALSE, !.cause = c]]
    PROVE  /\ op' \in [Lanes -> OpType]
           /\ \A k \in Lanes : /\ op'[k].kind = op[k].kind /\ op'[k].own = op[k].own
                               /\ QuietOp(op[k]) => QuietOp(op'[k])
<1> DEFINE o == [op[l] EXCEPT !.cancelled = TRUE, !.due = FALSE, !.cause = c]
<1>1. /\ o \in OpType /\ o.kind = op[l].kind /\ o.own = op[l].own /\ o.cancelled
  <2>1. op[l] \in OpType
    BY DEF LaneInv, LaneTypes
  <2> QED
    BY <2>1 DEF OpType
<1>2. op' = [op EXCEPT ![l] = o] /\ op \in [Lanes -> OpType]
  BY DEF LaneInv, LaneTypes
<1> HIDE DEF o
<1>3. op'[l] = o /\ \A k \in Lanes : k # l => op'[k] = op[k]
  BY <1>2
<1> QED
  BY <1>1, <1>2, <1>3 DEF QuietOp

LEMMA RelayKeeps ==
    ASSUME LaneInv, NEW l \in Lanes, Relay(l) PROVE LaneInv'
<1>1. op' = [op EXCEPT ![l] = [op[l] EXCEPT !.cancelled = TRUE, !.due = FALSE, !.cause = op[l].cause]]
  BY DEF Relay, LaneInv, LaneTypes, OpType
<1>2. op[l].cause \in Causes
  BY DEF LaneInv, LaneTypes, OpType
<1>3. /\ op' \in [Lanes -> OpType]
      /\ \A k \in Lanes : /\ op'[k].kind = op[k].kind /\ op'[k].own = op[k].own
                          /\ QuietOp(op[k]) => QuietOp(op'[k])
  BY <1>1, <1>2, CancelOpMoves
<1>4. CompanionOK' /\ QuietOK'
  BY <1>3 DEF LaneInv, CompanionOK, QuietOK, QuietOp, HoldsCompanion, Lanes, Relay
<1> QED
  BY <1>3, <1>4 DEF LaneInv, LaneTypes, Relay

LEMMA CancelRequestKeeps ==
    ASSUME LaneInv, NEW l \in Lanes, CancelRequest(l) PROVE LaneInv'
<1> DEFINE c == Caused(op[l].cause, "other")
           s == IF op[l].own THEN Caused(source[l].cause, "other") ELSE source[l].cause
<1>1. "other" \in Causes /\ c \in Causes /\ s \in Causes
  <2>1. "other" \in Causes
    BY DEF Causes
  <2> QED
    BY <2>1, CausedTyped DEF LaneInv, LaneTypes, OpType, SourceType
<1>2. op' = [op EXCEPT ![l] = [op[l] EXCEPT !.cancelled = TRUE, !.due = FALSE, !.cause = c]]
  BY DEF CancelRequest
<1>3. source' = [source EXCEPT ![l] = [source[l] EXCEPT !.cause = s]]
  BY DEF CancelRequest
<1> HIDE DEF c, s
<1>4. /\ op' \in [Lanes -> OpType]
      /\ \A k \in Lanes : /\ op'[k].kind = op[k].kind /\ op'[k].own = op[k].own
                          /\ QuietOp(op[k]) => QuietOp(op'[k])
  BY <1>1, <1>2, CancelOpMoves
<1>5. source' \in [Lanes -> SourceType] /\ \A k \in Lanes : source'[k].cancelled = source[k].cancelled
  BY <1>1, <1>3 DEF LaneInv, LaneTypes, SourceType
<1>6. UNCHANGED <<gate, agents, message, actor, mail, waiters>>
  BY DEF CancelRequest
<1>7. CompanionOK' /\ QuietOK'
  BY <1>4, <1>5, <1>6 DEF LaneInv, CompanionOK, QuietOK, QuietOp, HoldsCompanion, Lanes
<1> QED
  BY <1>4, <1>5, <1>6, <1>7 DEF LaneInv, LaneTypes

----------------------------------------------------------------------------
(* The loop.                                                               *)

LEMMA JoinMoves ==
    ASSUME NEW o \in OpType, NEW m \in LaneMessages
    PROVE  /\ [o EXCEPT !.inputs = o.inputs \cup {m}] \in OpType
           /\ [o EXCEPT !.inputs = o.inputs \cup {m}].kind = o.kind
           /\ [o EXCEPT !.inputs = o.inputs \cup {m}].own = o.own
           /\ QuietOp(o) => QuietOp([o EXCEPT !.inputs = o.inputs \cup {m}])
           /\ [o EXCEPT !.restart = TRUE, !.cancelled = TRUE] \in OpType
           /\ [o EXCEPT !.restart = TRUE, !.cancelled = TRUE].kind = o.kind
           /\ [o EXCEPT !.restart = TRUE, !.cancelled = TRUE].own = o.own
           /\ QuietOp([o EXCEPT !.restart = TRUE, !.cancelled = TRUE])
BY DEF OpType, QuietOp

LEMMA PreemptMoves ==
    ASSUME NEW o \in OpType
    PROVE  /\ [o EXCEPT !.cancelled = TRUE, !.due = FALSE, !.cause = "user"] \in OpType
           /\ [o EXCEPT !.cancelled = TRUE, !.due = FALSE, !.cause = "user"].kind = o.kind
           /\ [o EXCEPT !.cancelled = TRUE, !.due = FALSE, !.cause = "user"].own = o.own
           /\ QuietOp([o EXCEPT !.cancelled = TRUE, !.due = FALSE, !.cause = "user"])
BY DEF OpType, QuietOp, Causes

LEMMA AcceptMessageKeeps ==
    ASSUME LaneInv, NEW m \in LaneMessages, NEW how \in {"append", "restart", "wait"}, AcceptUser(m, how)
    PROVE  LaneInv'
<1> DEFINE preempted == {l \in Lanes : Preemptible(op[l])}
           Taken(l) ==
               IF l \in preempted THEN [op[l] EXCEPT !.cancelled = TRUE, !.due = FALSE, !.cause = "user"]
               ELSE IF l = "coo" /\ how = "append" THEN [op[l] EXCEPT !.inputs = op[l].inputs \cup {m}]
               ELSE IF l = "coo" /\ how = "restart"
                    THEN [op[l] EXCEPT !.restart = TRUE, !.cancelled = TRUE]
               ELSE op[l]
           Told(l) ==
               IF ~op[l].own THEN source[l]
               ELSE [cancelled |-> source[l].cancelled \/ (op'[l].cancelled /\ ~Linked(op[l])),
                     cause |-> IF l \in preempted THEN "user" ELSE source[l].cause]
<1>1. op' = [l \in Lanes |-> Taken(l)]
  BY DEF AcceptUser
<1>2. source' = [l \in Lanes |-> Told(l)]
  BY DEF AcceptUser
<1>3. ASSUME NEW l \in Lanes
      PROVE  /\ Taken(l) \in OpType /\ Taken(l).kind = op[l].kind /\ Taken(l).own = op[l].own
             /\ QuietOp(op[l]) => QuietOp(Taken(l))
  <2>1. op[l] \in OpType
    BY DEF LaneInv, LaneTypes
  <2>2. CASE l \in preempted
    BY <2>1, <2>2, PreemptMoves
  <2>3. CASE l \notin preempted /\ l = "coo" /\ how # "wait"
    BY <2>1, <2>3, JoinMoves
  <2>4. CASE l \notin preempted /\ ~(l = "coo" /\ how # "wait")
    BY <2>1, <2>4
  <2> QED
    BY <2>2, <2>3, <2>4
<1> HIDE DEF Taken
<1>4. op' \in [Lanes -> OpType]
  BY <1>1, <1>3
<1>5. ASSUME NEW l \in Lanes
      PROVE  Told(l) \in SourceType /\ (source[l].cancelled => Told(l).cancelled)
  BY <1>4 DEF LaneInv, LaneTypes, SourceType, OpType, Causes, Linked
<1> HIDE DEF Told
<1>6. source' \in [Lanes -> SourceType]
  BY <1>2, <1>5
<1>7. mail' \in MailType /\ waiters' \subseteq LaneMessages
  BY MailMoves DEF LaneInv, LaneTypes, AcceptUser
<1>8. /\ actor' \in ActorType
      /\ actor'.rebuild = actor.rebuild /\ actor'.initialize = actor.initialize
      /\ actor'.overrun = actor.overrun
  <2> DEFINE r == actor.recover \/ "coo" \in preempted
  <2>1. actor' = [actor EXCEPT !.pending = TRUE, !.recover = r] /\ r \in BOOLEAN
    BY DEF AcceptUser, LaneInv, LaneTypes, ActorType
  <2> HIDE DEF r
  <2> QED
    BY <2>1 DEF LaneInv, LaneTypes, ActorType
<1>9. UNCHANGED <<gate, agents, message>>
  BY DEF AcceptUser
<1>10. CompanionOK'
  BY <1>1, <1>3, <1>8, <1>9 DEF LaneInv, CompanionOK, HoldsCompanion, Lanes
<1>11. QuietOK'
  <2>1. ASSUME NEW l \in Lanes
        PROVE  /\ gate => source'[l].cancelled
               /\ gate \/ ~op'[l].own => QuietOp(op'[l])
    BY <1>1, <1>2, <1>3, <1>5 DEF LaneInv, QuietOK
  <2> QED
    BY <2>1, <1>9 DEF QuietOK, QuietOp
<1> QED
  BY <1>4, <1>6, <1>7, <1>8, <1>9, <1>10, <1>11 DEF LaneInv, LaneTypes

(* What starts on an idle lane that is not blocked follows it.             *)
LEMMA StartedQuiet ==
    ASSUME LaneInv, NEW l \in Lanes, NEW kind \in OpKinds, NEW inputs \in SUBSET LaneMessages,
           StartOp(l, kind, inputs), ~gate, UNCHANGED <<source, gate>>
    PROVE  /\ op' \in [Lanes -> OpType]
           /\ op'[l].kind = kind
           /\ \A k \in Lanes : k # l => op'[k] = op[k]
           /\ QuietOK'
<1>1. /\ op' \in [Lanes -> OpType]
      /\ op'[l].kind = kind /\ op'[l].own
      /\ \A k \in Lanes : k # l => op'[k] = op[k]
  BY StartOpMoves DEF LaneInv
<1>2. QuietOK'
  BY <1>1 DEF LaneInv, QuietOK, QuietOp
<1> QED
  BY <1>1, <1>2

(* An operation that takes the companion with it.                          *)
LEMMA CompanionLeaves ==
    ASSUME LaneInv, NEW kind \in {"user", "wake", "recovery", "init"},
           NEW inputs \in SUBSET LaneMessages, StartOp("coo", kind, inputs), ~gate,
           agents' = [agents EXCEPT !["companion"] = "out"],
           actor' \in ActorType, mail' \in MailType,
           UNCHANGED <<source, gate, message, waiters>>
    PROVE  LaneInv'
<1>1. "coo" \in Lanes /\ kind \in OpKinds
  BY DEF Lanes, OpKinds
<1>2. op' \in [Lanes -> OpType] /\ op'["coo"].kind = kind /\ QuietOK'
  BY <1>1, StartedQuiet
<1>3. CompanionOK'
  BY <1>2 DEF LaneInv, LaneTypes, CompanionOK, HoldsCompanion
<1>4. agents' \in [{"observer", "companion"} -> {"here", "out", "gone"}]
  BY DEF LaneInv, LaneTypes
<1> QED
  BY <1>2, <1>3, <1>4 DEF LaneInv, LaneTypes

LEMMA ActorMoves ==
    ASSUME NEW a \in ActorType
    PROVE  /\ \A b \in BOOLEAN : [a EXCEPT !.recover = b] \in ActorType
           /\ \A b \in BOOLEAN : [a EXCEPT !.initialize = b] \in ActorType
           /\ \A b \in BOOLEAN : [a EXCEPT !.pending = b] \in ActorType
           /\ \A b, c, d \in BOOLEAN : [a EXCEPT !.recover = b, !.pending = c, !.initialize = d] \in ActorType
           /\ \A f \in Targets, b \in BOOLEAN : [a EXCEPT !.pending = b, !.failed = f] \in ActorType
           /\ \A m \in Targets, b, c \in BOOLEAN :
                  [a EXCEPT !.active = m, !.pending = b, !.initialize = c] \in ActorType
BY DEF ActorType

LEMMA StartUserKeeps ==
    ASSUME LaneInv, StartUser PROVE LaneInv'
<1>1. CASE agents["companion"] # "here" \/ Queue = {}
  <2> DEFINE f == IF agents["companion"] # "here" THEN actor.failed
                  ELSE IF actor.failed = NoMessage /\ Failed # {}
                       THEN CHOOSE m \in Failed : TRUE ELSE actor.failed
  <2>1. actor' = [actor EXCEPT !.pending = FALSE, !.failed = f]
    BY <1>1 DEF StartUser, LaneInv, LaneTypes, ActorType
  <2>2. f \in Targets
    <3>1. Failed # {} => (CHOOSE m \in Failed : TRUE) \in Failed
      OBVIOUS
    <3> QED
      BY <3>1 DEF LaneInv, LaneTypes, ActorType, Targets, Failed
  <2> HIDE DEF f
  <2>3. /\ actor' \in ActorType
        /\ actor'.rebuild = actor.rebuild /\ actor'.initialize = actor.initialize
        /\ actor'.overrun = actor.overrun
    BY <2>1, <2>2 DEF LaneInv, LaneTypes, ActorType
  <2>4. UNCHANGED <<source, op, gate, agents, message, mail, waiters>>
    BY <1>1 DEF StartUser
  <2> QED
    BY <2>3, <2>4 DEF LaneInv, LaneTypes, CompanionOK, QuietOK
<1>2. CASE ~(agents["companion"] # "here" \/ Queue = {})
  <2>1. PICK inputs \in {{m} : m \in Queue} \cup {Queue} :
               /\ StartOp("coo", "user", inputs)
               /\ agents' = [agents EXCEPT !["companion"] = "out"]
               /\ actor' = [actor EXCEPT !.active = CHOOSE m \in inputs : TRUE,
                                         !.pending = TRUE, !.initialize = FALSE]
    BY <1>2 DEF StartUser
  <2>2. inputs \in SUBSET LaneMessages /\ inputs # {}
    BY <1>2 DEF Queue
  <2>3. (CHOOSE m \in inputs : TRUE) \in Targets
    BY <2>2 DEF Targets
  <2>4. actor' \in ActorType
    BY <2>1, <2>3, ActorMoves DEF LaneInv, LaneTypes
  <2>5. ~gate /\ UNCHANGED <<source, gate, message, mail, waiters>>
    BY DEF StartUser, StartsUser
  <2> QED
    BY <2>1, <2>2, <2>4, <2>5, CompanionLeaves DEF LaneInv, LaneTypes
<1> QED
  BY <1>1, <1>2

LEMMA StartRecoveryKeeps ==
    ASSUME LaneInv, StartRecovery PROVE LaneInv'
<1>1. /\ StartOp("coo", "recovery", {}) /\ ~gate
      /\ agents' = [agents EXCEPT !["companion"] = "out"]
      /\ actor' = [actor EXCEPT !.recover = FALSE]
      /\ UNCHANGED <<source, gate, message, mail, waiters>>
  BY DEF StartRecovery
<1>2. actor' \in ActorType /\ mail' \in MailType
  BY <1>1, ActorMoves DEF LaneInv, LaneTypes
<1>3. UNCHANGED <<source, gate, message, waiters>>
  BY <1>1
<1>4. "recovery" \in {"user", "wake", "recovery", "init"} /\ {} \in SUBSET LaneMessages
  OBVIOUS
<1> QED
  BY <1>1, <1>2, <1>3, <1>4, CompanionLeaves

LEMMA StartObserveKeeps ==
    ASSUME LaneInv, StartObserve PROVE LaneInv'
<1>1. mail' \in MailType
  BY MailMoves DEF LaneInv, LaneTypes, StartObserve
<1>2. UNCHANGED <<source, gate, message, actor, waiters>>
  BY DEF StartObserve
<1>3. CASE gate \/ agents["observer"] # "here"
  BY <1>1, <1>2, <1>3 DEF LaneInv, LaneTypes, CompanionOK, QuietOK, StartObserve
<1>4. CASE ~(gate \/ agents["observer"] # "here")
  <2>1. StartOp("observer", "observe", {}) /\ ~gate /\ agents' = [agents EXCEPT !["observer"] = "out"]
    BY <1>4 DEF StartObserve
  <2>2. "observer" \in Lanes /\ "coo" \in Lanes /\ "observe" \in OpKinds
    BY DEF Lanes, OpKinds
  <2>3. op' \in [Lanes -> OpType] /\ op'["coo"] = op["coo"] /\ QuietOK'
    BY <1>2, <2>1, <2>2, StartedQuiet
  <2> QED
    BY <1>1, <1>2, <2>1, <2>3 DEF LaneInv, LaneTypes, CompanionOK
<1> QED
  BY <1>3, <1>4

LEMMA StartWakeKeeps ==
    ASSUME LaneInv, StartWake PROVE LaneInv'
<1>1. mail' \in MailType
  BY MailMoves DEF LaneInv, LaneTypes, StartWake
<1>2. UNCHANGED <<source, gate, message, actor, waiters>>
  BY DEF StartWake
<1>3. CASE UNCHANGED <<op, agents>>
  BY <1>1, <1>2, <1>3 DEF LaneInv, LaneTypes, CompanionOK, QuietOK
<1>4. CASE ~gate /\ StartOp("coo", "wake", {}) /\ agents' = [agents EXCEPT !["companion"] = "out"]
  BY <1>1, <1>2, <1>4, CompanionLeaves DEF LaneInv, LaneTypes
<1> QED
  BY <1>3, <1>4 DEF StartWake

LEMMA StartInitializationKeeps ==
    ASSUME LaneInv, StartInitialization PROVE LaneInv'
<1>1. ~gate /\ UNCHANGED <<source, gate, message, mail, waiters>>
  BY DEF StartInitialization
<1>2. CASE actor.rebuild
  <2>1. StartOp("coo", "build", {}) /\ UNCHANGED <<agents, actor>> /\ op["coo"].kind = "none"
    BY <1>2 DEF StartInitialization, Idle
  <2>2. "coo" \in Lanes /\ "build" \in OpKinds
    BY DEF Lanes, OpKinds
  <2>3. op' \in [Lanes -> OpType] /\ op'["coo"].kind = "build" /\ QuietOK'
    BY <1>1, <2>1, <2>2, StartedQuiet
  <2> QED
    BY <1>1, <2>1, <2>3 DEF LaneInv, LaneTypes, CompanionOK, HoldsCompanion
<1>3. CASE ~actor.rebuild /\ agents["companion"] = "here"
  BY <1>1, <1>3, CompanionLeaves DEF StartInitialization, LaneInv, LaneTypes
<1>4. CASE ~actor.rebuild /\ agents["companion"] # "here"
  <2>1. actor' = [actor EXCEPT !.initialize = FALSE] /\ UNCHANGED <<op, agents>>
    BY <1>4 DEF StartInitialization
  <2>2. actor' \in ActorType /\ actor'.rebuild = actor.rebuild /\ actor'.overrun = actor.overrun
    BY <2>1 DEF LaneInv, LaneTypes, ActorType
  <2> QED
    BY <1>1, <1>4, <2>1, <2>2 DEF LaneInv, LaneTypes, CompanionOK, QuietOK
<1> QED
  BY <1>2, <1>3, <1>4

LEMMA RetryDueKeeps ==
    ASSUME LaneInv, RetryDue PROVE LaneInv'
<1>1. /\ actor' \in ActorType
      /\ actor'.rebuild = actor.rebuild /\ actor'.initialize = actor.initialize
      /\ actor'.overrun = actor.overrun
  BY DEF LaneInv, LaneTypes, ActorType, Targets, RetryDue
<1>2. message' \in [LaneMessages -> {"new", "queued", "failed", "answered", "cancelled"}]
  BY DEF LaneInv, LaneTypes, RetryDue
<1> QED
  BY <1>1, <1>2 DEF LaneInv, LaneTypes, CompanionOK, QuietOK, RetryDue

----------------------------------------------------------------------------
(* The end of an operation.                                                *)

LEMMA FinishObserveKeeps ==
    ASSUME LaneInv, FinishObserve PROVE LaneInv'
<1>1. op' = [op EXCEPT !["observer"] = NoOp] /\ RenewAfter("observer")
      /\ UNCHANGED <<gate, message, mail, waiters>>
  BY DEF FinishObserve
<1>2. /\ op' \in [Lanes -> OpType] /\ source' \in [Lanes -> SourceType] /\ QuietOK'
      /\ op'["coo"] = op["coo"]
  <2>1. "observer" \in Lanes /\ "coo" \in Lanes
    BY DEF Lanes
  <2> QED
    BY <1>1, <2>1, EndedMoves
<1>3. /\ actor' \in ActorType
      /\ actor'.rebuild = actor.rebuild /\ actor'.initialize = actor.initialize
      /\ actor'.overrun = actor.overrun
  <2> DEFINE b == actor.pending \/ QueuedUserWork
  <2>1. actor' = [actor EXCEPT !.pending = b] /\ b \in BOOLEAN
    BY DEF FinishObserve, QueuedUserWork, LaneInv, LaneTypes, ActorType
  <2> HIDE DEF b
  <2> QED
    BY <2>1 DEF LaneInv, LaneTypes, ActorType
<1>4. /\ agents' \in [{"observer", "companion"} -> {"here", "out", "gone"}]
      /\ agents'["companion"] = agents["companion"]
  BY DEF FinishObserve, LaneInv, LaneTypes
<1> QED
  BY <1>1, <1>2, <1>3, <1>4 DEF LaneInv, LaneTypes, CompanionOK

(* The companion comes back from the operation on its lane.                *)
LEMMA CompanionReturns ==
    ASSUME LaneInv, op' = [op EXCEPT !["coo"] = NoOp], RenewAfter("coo"), UNCHANGED <<gate, mail>>,
           agents' \in [{"observer", "companion"} -> {"here", "out", "gone"}],
           \/ agents'["companion"] = "here"
           \/ /\ UNCHANGED agents /\ ~HoldsCompanion(op["coo"])
              /\ (actor.rebuild => actor'.rebuild) /\ (actor.initialize => actor'.initialize),
           actor' \in ActorType, actor'.overrun = actor.overrun,
           message' \in [LaneMessages -> {"new", "queued", "failed", "answered", "cancelled"}],
           waiters' \subseteq LaneMessages
    PROVE  LaneInv'
<1>1. /\ op' \in [Lanes -> OpType] /\ source' \in [Lanes -> SourceType] /\ QuietOK'
      /\ ~HoldsCompanion(op'["coo"])
  <2>1. "coo" \in Lanes
    BY DEF Lanes
  <2> QED
    BY <2>1, EndedMoves
<1>2. CompanionOK'
  BY <1>1 DEF LaneInv, CompanionOK, HoldsCompanion
<1> QED
  BY <1>1, <1>2 DEF LaneInv, LaneTypes

LEMMA FinishUserKeeps ==
    ASSUME LaneInv, NEW result \in {"answered", "repeat", "retry", "failed"}, FinishUser(result)
    PROVE  LaneInv'
<1> DEFINE settled == CASE result = "answered" -> op["coo"].inputs [] result = "failed" -> {actor.active}
                        [] OTHER -> {}
           p == (result = "failed") \/ Queue \ settled # {}
           f == CASE result = "failed" -> actor.active
                  [] result = "answered" -> NoMessage [] OTHER -> actor.failed
<1>1. /\ op' = [op EXCEPT !["coo"] = NoOp] /\ RenewAfter("coo") /\ UNCHANGED <<gate, mail>>
      /\ agents' = [agents EXCEPT !["companion"] = "here"]
      /\ waiters' = IF result = "repeat" THEN waiters ELSE waiters \ op["coo"].inputs
  BY DEF FinishUser
<1>2. message' = [m \in LaneMessages |->
                      IF m \in settled /\ message[m] = "queued" THEN result ELSE message[m]]
  BY DEF FinishUser
<1>3. actor' = [actor EXCEPT !.active = NoMessage, !.retry = (result = "retry"), !.pending = p, !.failed = f]
  BY DEF FinishUser
<1>4. message' \in [LaneMessages -> {"new", "queued", "failed", "answered", "cancelled"}]
  <2>1. \A m \in settled : result \in {"answered", "failed"}
    OBVIOUS
  <2> HIDE DEF settled
  <2> QED
    BY <1>2, <2>1 DEF LaneInv, LaneTypes
<1>5. f \in Targets
  BY DEF LaneInv, LaneTypes, ActorType, Targets
<1>6. p \in BOOLEAN
  OBVIOUS
<1> HIDE DEF settled, p, f
<1>7. actor' \in ActorType /\ actor'.overrun = actor.overrun
  <2> DEFINE r == result = "retry"
  <2>1. actor \in ActorType /\ NoMessage \in Targets /\ r \in BOOLEAN
    BY DEF LaneInv, LaneTypes, Targets
  <2> DEFINE half == [actor EXCEPT !.active = NoMessage, !.retry = r]
  <2>2. half \in ActorType /\ half.overrun = actor.overrun
    BY <2>1 DEF ActorType
  <2>3. actor' = [half EXCEPT !.pending = p, !.failed = f]
    BY <1>3
  <2> HIDE DEF r, half
  <2>4. actor' \in ActorType /\ actor'.overrun = half.overrun
    BY <1>5, <1>6, <2>2, <2>3 DEF ActorType
  <2> QED
    BY <2>2, <2>4
<1>8. /\ agents' \in [{"observer", "companion"} -> {"here", "out", "gone"}]
      /\ agents'["companion"] = "here"
  BY <1>1 DEF LaneInv, LaneTypes
<1>9. waiters' \subseteq LaneMessages
  BY <1>1 DEF LaneInv, LaneTypes
<1> QED
  BY <1>1, <1>4, <1>7, <1>8, <1>9, CompanionReturns

LEMMA FinishCompanionKeeps ==
    ASSUME LaneInv, NEW ok \in BOOLEAN, FinishCompanion(ok) PROVE LaneInv'
<1> DEFINE o == op["coo"]
           outrun == o.kind # "init" /\ o.cause \in {"user", "config"}
           r == actor.recover \/ outrun \/ (o.kind = "init" /\ ok)
           p == actor.pending \/ o.kind = "init"
           i == IF o.kind = "init" THEN ~ok ELSE actor.initialize \/ (~ok /\ ~outrun)
<1>1. /\ op' = [op EXCEPT !["coo"] = NoOp] /\ RenewAfter("coo") /\ UNCHANGED <<gate, message, mail, waiters>>
      /\ agents' = [agents EXCEPT !["companion"] = "here"]
      /\ actor' = [actor EXCEPT !.recover = r, !.pending = p, !.initialize = i]
  BY DEF FinishCompanion
<1>2. r \in BOOLEAN /\ p \in BOOLEAN /\ i \in BOOLEAN
  BY DEF LaneInv, LaneTypes, ActorType
<1> HIDE DEF r, p, i
<1>3. actor' \in ActorType /\ actor'.overrun = actor.overrun
  BY <1>1, <1>2 DEF LaneInv, LaneTypes, ActorType
<1>4. /\ agents' \in [{"observer", "companion"} -> {"here", "out", "gone"}]
      /\ agents'["companion"] = "here"
  BY <1>1 DEF LaneInv, LaneTypes
<1> QED
  BY <1>1, <1>3, <1>4, CompanionReturns DEF LaneInv, LaneTypes

LEMMA FinishBuildKeeps ==
    ASSUME LaneInv, NEW ok \in BOOLEAN, FinishBuild(ok) PROVE LaneInv'
<1> DEFINE b == actor.rebuild /\ ~ok
<1>1. /\ op' = [op EXCEPT !["coo"] = NoOp] /\ RenewAfter("coo") /\ UNCHANGED <<gate, message, mail, waiters>>
      /\ agents' = IF ok THEN [a \in DOMAIN agents |-> "here"] ELSE agents
      /\ actor' = [actor EXCEPT !.rebuild = b, !.initialize = TRUE]
      /\ op["coo"].kind = "build"
  BY DEF FinishBuild
<1>2. b \in BOOLEAN
  OBVIOUS
<1> HIDE DEF b
<1>3. /\ actor' \in ActorType /\ actor'.overrun = actor.overrun
      /\ actor'.initialize /\ actor'.rebuild = b
  BY <1>1, <1>2 DEF LaneInv, LaneTypes, ActorType
<1>4. agents' \in [{"observer", "companion"} -> {"here", "out", "gone"}]
  BY <1>1 DEF LaneInv, LaneTypes
<1>5. ~HoldsCompanion(op["coo"])
  BY <1>1 DEF HoldsCompanion
<1>6. CASE ok
  <2>1. agents'["companion"] = "here"
    BY <1>1, <1>6 DEF LaneInv, LaneTypes
  <2> QED
    BY <1>1, <1>3, <1>4, <2>1, CompanionReturns DEF LaneInv, LaneTypes
<1>7. CASE ~ok
  <2>1. actor.rebuild => actor'.rebuild
    BY <1>3, <1>7 DEF b
  <2> QED
    BY <1>1, <1>3, <1>4, <1>5, <1>7, <2>1, CompanionReturns DEF LaneInv, LaneTypes
<1> QED
  BY <1>6, <1>7

LEMMA PanicKeeps ==
    ASSUME LaneInv, NEW l \in Lanes, Panic(l) PROVE LaneInv'
<1> DEFINE r == Rebuild(actor).retry \/ op[l].kind = "user"
           p == Rebuild(actor).pending \/ (l = "observer" /\ QueuedUserWork)
           x == IF l = "observer" THEN "observer" ELSE "companion"
<1>1. /\ op' = [op EXCEPT ![l] = NoOp] /\ RenewAfter(l) /\ UNCHANGED <<gate, message, mail>>
      /\ waiters' = waiters \ op[l].inputs
      /\ actor' = [Rebuild(actor) EXCEPT !.retry = r, !.pending = p]
      /\ agents' = [agents EXCEPT ![x] = IF op[l].kind = "build" THEN @ ELSE "gone"]
      /\ op[l].kind # "none"
  BY DEF Panic, Idle
<1>2. r \in BOOLEAN /\ p \in BOOLEAN
  BY DEF LaneInv, LaneTypes, ActorType, QueuedUserWork, Rebuild
<1>3. actor' \in ActorType /\ actor'.rebuild /\ actor'.initialize
  <2> HIDE DEF r, p
  <2> QED
    BY <1>1, <1>2 DEF LaneInv, LaneTypes, ActorType, Rebuild
<1>4. agents' \in [{"observer", "companion"} -> {"here", "out", "gone"}]
  BY <1>1 DEF LaneInv, LaneTypes
<1>5. /\ op' \in [Lanes -> OpType] /\ source' \in [Lanes -> SourceType] /\ QuietOK'
      /\ l = "coo" => ~HoldsCompanion(op'["coo"])
      /\ l # "coo" => op'["coo"] = op["coo"]
  BY <1>1, EndedMoves
<1>6. CompanionOK'
  <2>1. CASE l = "coo"
    BY <1>1, <1>3, <1>5, <2>1 DEF LaneInv, LaneTypes, CompanionOK, HoldsCompanion
  <2>2. CASE l = "observer"
    BY <1>1, <1>3, <1>5, <2>2 DEF LaneInv, LaneTypes, CompanionOK, HoldsCompanion
  <2> QED
    BY <2>1, <2>2 DEF Lanes
<1>7. waiters' \subseteq LaneMessages
  BY <1>1 DEF LaneInv, LaneTypes
<1> QED
  BY <1>1, <1>3, <1>4, <1>5, <1>6, <1>7 DEF LaneInv, LaneTypes

----------------------------------------------------------------------------
(* Priority commands.                                                      *)

LEMMA TerminalTyped ==
    LaneTypes => TerminalInput \in Targets /\ CurrentMessage \in Targets
<1> SUFFICES ASSUME LaneTypes PROVE TerminalInput \in Targets /\ CurrentMessage \in Targets
  OBVIOUS
<1>1. Failed # {} => (CHOOSE m \in Failed : TRUE) \in Failed
  OBVIOUS
<1>2. Failed \subseteq Targets /\ NoMessage \in Targets
  BY DEF Failed, Targets
<1>3. TerminalInput \in Targets
  BY <1>1, <1>2 DEF LaneTypes, ActorType, TerminalInput
<1> QED
  BY <1>3 DEF LaneTypes, ActorType, CurrentMessage

LEMMA InterruptedTyped ==
    LaneTypes => /\ Interrupted(actor) \in ActorType
                 /\ Interrupted(actor).rebuild = actor.rebuild
                 /\ Interrupted(actor).initialize = actor.initialize
                 /\ Interrupted(actor).overrun = actor.overrun
<1> SUFFICES ASSUME LaneTypes PROVE /\ Interrupted(actor) \in ActorType
                 /\ Interrupted(actor).rebuild = actor.rebuild
                 /\ Interrupted(actor).initialize = actor.initialize
                 /\ Interrupted(actor).overrun = actor.overrun
  OBVIOUS
<1> DEFINE r == actor.recover \/ op["coo"].kind \in {"wake", "recovery"}
           p == actor.pending \/ op["coo"].kind = "user"
           m == IF op["coo"].kind = "user" THEN NoMessage ELSE actor.active
<1>1. Interrupted(actor) = [actor EXCEPT !.recover = r, !.pending = p, !.active = m]
  BY DEF Interrupted
<1>2. r \in BOOLEAN /\ p \in BOOLEAN /\ m \in Targets
  BY DEF LaneTypes, ActorType, Targets
<1> HIDE DEF r, p, m
<1> QED
  BY <1>1, <1>2 DEF LaneTypes, ActorType

(* The agents after an operation was ended: the companion is out no more,  *)
(* and lost only if it was, or if its operation was aborted.               *)
LEMMA RestoredMoves ==
    ASSUME LaneInv, NEW lanes, "coo" \in lanes, NEW aborted \in BOOLEAN
    PROVE  /\ Restored(agents, lanes, aborted) \in [{"observer", "companion"} -> {"here", "out", "gone"}]
           /\ Restored(agents, lanes, aborted)["companion"] # "out"
           /\ Restored(agents, lanes, aborted)["companion"] = "gone"
                 => agents["companion"] = "gone" \/ aborted
BY DEF LaneInv, LaneTypes, CompanionOK, Restored

(* What a command leaves, if nothing runs on the companion's lane then.    *)
LEMMA CommandLeaves ==
    ASSUME LaneInv,
           op' \in [Lanes -> OpType], op'["coo"] = NoOp, source' \in [Lanes -> SourceType], QuietOK',
           agents' \in [{"observer", "companion"} -> {"here", "out", "gone"}],
           agents'["companion"] # "out",
           agents'["companion"] = "gone" => agents["companion"] = "gone" \/ actor'.overrun,
           actor' \in ActorType, actor.overrun => actor'.overrun, actor'.rebuild = actor.rebuild,
           actor.initialize => actor'.initialize,
           message' \in [LaneMessages -> {"new", "queued", "failed", "answered", "cancelled"}],
           mail' \in MailType, waiters' \subseteq LaneMessages, UNCHANGED gate
    PROVE  LaneInv'
<1>1. CompanionOK'
  BY NoOpTyped DEF LaneInv, CompanionOK, HoldsCompanion
<1> QED
  BY <1>1 DEF LaneInv, LaneTypes

LEMMA RefuseKeeps ==
    ASSUME LaneInv, RefuseCommand PROVE LaneInv'
<1>1. mail' \in MailType
  BY MailMoves DEF LaneInv, LaneTypes, RefuseCommand
<1> QED
  BY <1>1 DEF LaneInv, LaneTypes, CompanionOK, QuietOK, RefuseCommand

LEMMA EndAllMoves ==
    ASSUME LaneInv, NEW aborted \in BOOLEAN, EndAll(aborted), UNCHANGED gate
    PROVE  /\ op' \in [Lanes -> OpType] /\ op'["coo"] = NoOp
           /\ source' \in [Lanes -> SourceType] /\ QuietOK'
           /\ mail' \in MailType /\ waiters' \subseteq LaneMessages
<1>1. op' = [l \in Lanes |-> NoOp] /\ source' = [l \in Lanes |-> Renewed(l)]
  BY DEF EndAll
<1>2. \A l \in Lanes : Renewed(l) \in SourceType /\ Renewed(l).cancelled = gate
  BY RenewedTyped DEF LaneInv
<1>3. QuietOK'
  BY <1>1, <1>2, NoOpTyped DEF QuietOK, QuietOp
<1>4. mail' \in MailType /\ waiters' \subseteq LaneMessages
  BY MailMoves DEF EndAll, LaneInv, LaneTypes
<1> QED
  BY <1>1, <1>2, <1>3, <1>4, NoOpTyped DEF Lanes

LEMMA CancelUserMessageKeeps ==
    ASSUME LaneInv, NEW aborted \in BOOLEAN, NEW recorded \in BOOLEAN, CancelUserMessage(aborted, recorded)
    PROVE  LaneInv'
<1> DEFINE input == CurrentMessage
           a == Interrupted(actor)
           m == IF recorded THEN NoMessage ELSE actor.active
           p == a.pending \/ (recorded /\ actor.failed = input)
           f == IF recorded /\ a.failed = input THEN NoMessage ELSE a.failed
           u == IF recorded THEN a.unrecorded ELSE input
           r == (a.retry /\ ~(recorded /\ actor.failed = input)) \/ ~recorded
           v == a.overrun \/ aborted
<1>1. /\ mail' = [mail EXCEPT !.command = NoCommand] /\ UNCHANGED gate
      /\ agents' = Restored(agents, {"coo"}, aborted)
      /\ op' = [op EXCEPT !["coo"] = NoOp] /\ RenewLane("coo")
      /\ waiters' = waiters \ {input}
      /\ message' = IF recorded THEN [message EXCEPT ![input] = "cancelled"] ELSE message
  BY DEF CancelUserMessage
<1>2. actor' = [a EXCEPT !.active = m, !.pending = p, !.failed = f, !.unrecorded = u, !.retry = r, !.overrun = v]
  BY DEF CancelUserMessage
<1>3. /\ a \in ActorType /\ a.rebuild = actor.rebuild /\ a.initialize = actor.initialize
      /\ a.overrun = actor.overrun /\ input \in Targets
  BY InterruptedTyped, TerminalTyped DEF LaneInv
<1>4. m \in Targets /\ p \in BOOLEAN /\ f \in Targets /\ u \in Targets /\ r \in BOOLEAN /\ v \in BOOLEAN
  <2> HIDE DEF a, input
  <2> QED
    BY <1>3 DEF LaneInv, LaneTypes, ActorType, Targets
<1>5. v <=> actor.overrun \/ aborted
  BY <1>3
<1> HIDE DEF a, input, m, p, f, u, r, v
<1>6. /\ actor' \in ActorType /\ actor'.rebuild = actor.rebuild
      /\ actor'.initialize = actor.initialize /\ actor'.overrun = v
  <2> DEFINE half == [a EXCEPT !.active = m, !.pending = p, !.failed = f]
  <2>1. half \in ActorType /\ half.rebuild = a.rebuild /\ half.initialize = a.initialize
    BY <1>3, <1>4 DEF ActorType
  <2>2. actor' = [half EXCEPT !.unrecorded = u, !.retry = r, !.overrun = v]
    BY <1>2
  <2> HIDE DEF half
  <2>3. /\ actor' \in ActorType /\ actor'.rebuild = half.rebuild
        /\ actor'.initialize = half.initialize /\ actor'.overrun = v
    BY <1>4, <2>1, <2>2 DEF ActorType
  <2> QED
    BY <1>3, <2>1, <2>3
<1>7. /\ op' \in [Lanes -> OpType] /\ source' \in [Lanes -> SourceType] /\ QuietOK' /\ op'["coo"] = NoOp
  <2>1. "coo" \in Lanes
    BY DEF Lanes
  <2> QED
    BY <1>1, <2>1, EndedMoves DEF LaneInv, LaneTypes
<1>8. /\ message' \in [LaneMessages -> {"new", "queued", "failed", "answered", "cancelled"}]
      /\ mail' \in MailType /\ waiters' \subseteq LaneMessages
  BY <1>1, MailMoves DEF LaneInv, LaneTypes
<1>9. /\ agents' \in [{"observer", "companion"} -> {"here", "out", "gone"}]
      /\ agents'["companion"] # "out"
      /\ agents'["companion"] = "gone" => agents["companion"] = "gone" \/ aborted
  BY <1>1, RestoredMoves
<1> QED
  BY <1>1, <1>5, <1>6, <1>7, <1>8, <1>9, CommandLeaves

LEMMA RetryUserKeeps ==
    ASSUME LaneInv, NEW aborted \in BOOLEAN, RetryUser(aborted) PROVE LaneInv'
<1> DEFINE a == Interrupted(actor)
           f == IF a.failed = mail.command.target THEN NoMessage ELSE a.failed
           v == a.overrun \/ aborted
<1>1. EndAll(aborted) /\ agents' = Restored(agents, Lanes, aborted) /\ UNCHANGED gate
  BY DEF RetryUser
<1>2. actor' = [a EXCEPT !.pending = TRUE, !.active = NoMessage, !.retry = FALSE, !.failed = f, !.overrun = v]
  BY DEF RetryUser
<1>3. /\ a \in ActorType /\ a.rebuild = actor.rebuild /\ a.initialize = actor.initialize
      /\ a.overrun = actor.overrun
  BY InterruptedTyped DEF LaneInv
<1>4. f \in Targets /\ v \in BOOLEAN /\ NoMessage \in Targets /\ (v <=> actor.overrun \/ aborted)
  <2> HIDE DEF a
  <2> QED
    BY <1>3 DEF ActorType, Targets
<1> HIDE DEF a, f, v
<1>5. /\ actor' \in ActorType /\ actor'.rebuild = actor.rebuild
      /\ actor'.initialize = actor.initialize /\ actor'.overrun = v
  BY <1>2, <1>3, <1>4 DEF ActorType
<1>6. message' \in [LaneMessages -> {"new", "queued", "failed", "answered", "cancelled"}]
  BY DEF RetryUser, LaneInv, LaneTypes
<1>7. /\ agents' \in [{"observer", "companion"} -> {"here", "out", "gone"}]
      /\ agents'["companion"] # "out"
      /\ agents'["companion"] = "gone" => agents["companion"] = "gone" \/ aborted
  <2>1. "coo" \in Lanes
    BY DEF Lanes
  <2> QED
    BY <1>1, <2>1, RestoredMoves
<1> QED
  BY <1>1, <1>4, <1>5, <1>6, <1>7, EndAllMoves, CommandLeaves

LEMMA ReplaceConfigKeeps ==
    ASSUME LaneInv, NEW aborted \in BOOLEAN, ReplaceConfig(aborted) PROVE LaneInv'
<1>1. /\ EndAll(aborted) /\ agents' = [x \in DOMAIN agents |-> "here"] /\ UNCHANGED gate
      /\ actor' = [Interrupted(actor) EXCEPT !.initialize = TRUE]
  BY DEF ReplaceConfig
<1>2. /\ actor' \in ActorType /\ actor'.rebuild = actor.rebuild /\ actor'.initialize
      /\ actor'.overrun = actor.overrun
  BY <1>1, InterruptedTyped DEF LaneInv, ActorType
<1>3. message' \in [LaneMessages -> {"new", "queued", "failed", "answered", "cancelled"}]
  BY DEF ReplaceConfig, LaneInv, LaneTypes
<1>4. /\ agents' \in [{"observer", "companion"} -> {"here", "out", "gone"}]
      /\ agents'["companion"] = "here"
  BY <1>1 DEF LaneInv, LaneTypes
<1> QED
  BY <1>1, <1>2, <1>3, <1>4, EndAllMoves, CommandLeaves

----------------------------------------------------------------------------
LEMMA LaneInitInv == LaneInit => LaneInv
<1> SUFFICES ASSUME LaneInit PROVE LaneInv
  OBVIOUS
<1>1. source \in [Lanes -> SourceType]
  BY DEF LaneInit, SourceType, Causes
<1>2. op \in [Lanes -> OpType] /\ \A l \in Lanes : op[l] = NoOp
  BY NoOpTyped DEF LaneInit
<1>3. /\ actor \in ActorType /\ mail \in MailType
  BY DEF LaneInit, ActorType, MailType, Targets, NoCommand
<1>4. CompanionOK
  BY <1>2, NoOpTyped DEF LaneInit, CompanionOK, Lanes
<1>5. QuietOK
  BY <1>2, NoOpTyped DEF LaneInit, QuietOK
<1> QED
  BY <1>1, <1>2, <1>3, <1>4, <1>5 DEF LaneInit, LaneInv, LaneTypes

LEMMA LaneStepInv == LaneInv /\ [LaneNext]_laneVars => LaneInv'
<1> SUFFICES ASSUME LaneInv, [LaneNext]_laneVars PROVE LaneInv'
  OBVIOUS
<1>1. ASSUME NEW m \in LaneMessages, AcceptMessage(m) \/ SendMessage(m) PROVE LaneInv'
  BY <1>1, AcceptMessageKeeps, SendMessageKeeps DEF AcceptMessage
<1>2. CASE \E m \in LaneMessages : AskUser("cancel", m) \/ AskUser("retry", m)
  BY <1>2, AskLaneKeeps
<1>3. CASE StartUser \/ StartRecovery \/ StartObserve \/ StartWake \/ StartInitialization \/ RetryDue
  BY <1>3, StartUserKeeps, StartRecoveryKeeps, StartObserveKeeps, StartWakeKeeps,
     StartInitializationKeeps, RetryDueKeeps
<1>4. CASE FinishObserve \/ FinishCoo
  BY <1>4, FinishObserveKeeps, FinishUserKeeps, FinishCompanionKeeps, FinishBuildKeeps DEF FinishCoo
<1>5. CASE DoCommand
  BY <1>5, RefuseKeeps, CancelUserMessageKeeps, RetryUserKeeps, ReplaceConfigKeeps DEF DoCommand
<1>6. ASSUME NEW l \in Lanes, Relay(l) \/ CancelRequest(l) \/ Panic(l) PROVE LaneInv'
  BY <1>6, RelayKeeps, CancelRequestKeeps, PanicKeeps
<1>7. CASE \E kind \in {"observe", "wake"} : AskControl(kind)
  BY <1>7, AskLaneKeeps
<1>8. CASE AskReplace \/ BlockStarts \/ ReleaseStarts
  BY <1>8, CancelAllKeeps, ReleaseKeeps
<1>9. CASE UNCHANGED laneVars
  BY <1>9 DEF laneVars, LaneInv, LaneTypes, CompanionOK, QuietOK
<1> QED
  BY <1>1, <1>2, <1>3, <1>4, <1>5, <1>6, <1>7, <1>8, <1>9 DEF LaneNext

LEMMA LaneInvariant == LaneSpec => []LaneInv
<1> QED
  BY LaneInitInv, LaneStepInv, PTL DEF LaneSpec

(* The lanes, their operations and the flags of the actor keep their types *)
(* (runtime.rs), and the companion is out exactly while the operation on   *)
(* its lane holds it: it comes back with every outcome, and is lost only   *)
(* with a task that ended without one.                                     *)
THEOREM LanesTyped == LaneSpec => []LaneTypeOK
<1>1. LaneInv => LaneTypeOK
  BY DEF LaneInv, LaneTypes, LaneTypeOK, CompanionOK, SourceType, OpType, ActorType, MailType, Targets
<1> QED
  BY <1>1, LaneInvariant, PTL

(* While the starts are blocked for a configuration (ProviderStartGate,    *)
(* runtime_operation_state.rs) both lanes are cancelled and whatever still *)
(* runs on them has been told so, through every renewal of a lane.         *)
THEOREM BlockedLanesAreQuiet == LaneSpec => []BlockedIsQuiet
<1>1. LaneInv => BlockedIsQuiet
  BY DEF LaneInv, QuietOK, QuietOp, BlockedIsQuiet, Idle
<1> QED
  BY <1>1, LaneInvariant, PTL

(* A companion lost with the task it was lent to is being rebuilt or will  *)
(* be (runtime_operation.rs, finish_operation), whatever cancels, restarts *)
(* or replaces operations meanwhile, unless its operation was aborted.     *)
THEOREM LostCompanionIsRebuilt == LaneSpec => []LostIsRebuilt
<1>1. LaneInv => LostIsRebuilt
  BY DEF LaneInv, CompanionOK, LostIsRebuilt
<1> QED
  BY <1>1, LaneInvariant, PTL

----------------------------------------------------------------------------
(* ProviderBridge.                                                         *)

BridgeTypes ==
    /\ bridge \in BridgeState
    /\ process \in [Gens -> ProcessStates]
    /\ slot \in [Requests -> SlotStates]
    /\ caller \in [Callers -> CallerStates]

(* The call of a caller: before it is made there is no trace of it, while  *)
(* it is pending nobody has answered it, and when it has returned it is no *)
(* longer pending.                                                         *)
NotSent(k) == k.pc = "idle" \/ (k.pc = "lock" /\ k.kind = "call")
Call(c) == <<c, "call">>

CallOK ==
    /\ \A c \in Callers :
          /\ NotSent(caller[c]) => slot[Call(c)] = "empty" /\ Call(c) \notin Ids(pending)
          /\ Call(c) \in Ids(pending) => slot[Call(c)] = "empty"
          /\ caller[c].pc = "done" => Call(c) \notin Ids(pending)
    /\ \A p, q \in pending : p.id = q.id /\ p.id[2] = "call" => p = q

(* A process that was told to end and has not ended is the last one, and   *)
(* the next start waits for it; while the last may be told, none is.       *)
DyingOK ==
    /\ \A g \in Gens : process[g] = "dying" => bridge.reaping = g /\ bridge.wait = g
    /\ bridge.pid # 0 => bridge.pid = bridge.gen /\ bridge.wait = bridge.pid /\ bridge.reaping = 0

BridgeInv == BridgeTypes /\ CallOK /\ DyingOK

----------------------------------------------------------------------------
LEMMA CallNamed == \A c, d \in Callers : /\ Call(c) \in Requests /\ (Call(c) = Call(d) <=> c = d)
                                       /\ Call(c)[1] = c /\ Call(c)[2] = "call"
                                       /\ \A k \in {"append", "cancel"} : Call(c) # <<d, k>>
BY DEF Call, Requests, RequestKinds

(* Nobody becomes pending, and only what was pending is answered.          *)
LEMMA CallsEnd ==
    ASSUME CallOK, pending' \subseteq pending,
           \A c \in Callers :
              /\ Call(c) \in Ids(pending') \/ Call(c) \notin Ids(pending) => slot'[Call(c)] = slot[Call(c)]
              /\ NotSent(caller'[c]) => NotSent(caller[c])
              /\ caller'[c].pc = "done" => caller[c].pc = "done" \/ Call(c) \notin Ids(pending')
    PROVE  CallOK'
<1>1. Ids(pending') \subseteq Ids(pending)
  BY DEF Ids
<1>2. ASSUME NEW c \in Callers
      PROVE  /\ NotSent(caller'[c]) => slot'[Call(c)] = "empty" /\ Call(c) \notin Ids(pending')
             /\ Call(c) \in Ids(pending') => slot'[Call(c)] = "empty"
             /\ caller'[c].pc = "done" => Call(c) \notin Ids(pending')
  BY <1>1, <1>2 DEF CallOK
<1>3. \A p, q \in pending' : p.id = q.id /\ p.id[2] = "call" => p = q
  BY DEF CallOK
<1> QED
  BY <1>2, <1>3 DEF CallOK, NotSent, Ids, Call

(* What failing a generation does to the record, and to the requests.      *)
LEMMA FailedFacts ==
    ASSUME BridgeTypes
    PROVE  LET b == FailedBridge(bridge)
           IN /\ b \in BridgeState /\ b.pid = 0 /\ b.wait = bridge.wait /\ b.gen = bridge.gen
              /\ b.reaping \in {bridge.reaping, bridge.wait}
              /\ bridge.wait = bridge.gen /\ bridge.gen # 0 /\ process[bridge.gen] # "reaped"
                    => b.reaping = bridge.gen
<1> DEFINE r == IF bridge.wait = bridge.gen /\ bridge.gen # 0 /\ process[bridge.gen] # "reaped"
                THEN bridge.gen ELSE bridge.reaping
           f == IF bridge.failures < 5 THEN bridge.failures + 1 ELSE bridge.failures
           half == [bridge EXCEPT !.failed = bridge.gen, !.reaping = r, !.stdin = FALSE]
<1>1. bridge \in BridgeState
  BY DEF BridgeTypes
<1>2. /\ r \in {0} \cup Gens /\ r \in {bridge.reaping, bridge.wait}
      /\ bridge.wait = bridge.gen /\ bridge.gen # 0 /\ process[bridge.gen] # "reaped" => r = bridge.gen
      /\ f \in 0 .. 5
  BY <1>1 DEF BridgeState
<1> HIDE DEF r, f
<1>3. /\ half \in BridgeState /\ half.wait = bridge.wait /\ half.gen = bridge.gen /\ half.reaping = r
  BY <1>1, <1>2 DEF BridgeState
<1>4. FailedBridge(bridge) = [half EXCEPT !.pid = 0, !.failures = f, !.backoff = TRUE]
  BY <1>1 DEF FailedBridge, r, f, BridgeState
<1> HIDE DEF half
<1> DEFINE b == [half EXCEPT !.pid = 0, !.failures = f, !.backoff = TRUE]
<1>5. b \in BridgeState
  BY <1>2, <1>3 DEF BridgeState
<1>6. b.pid = 0 /\ b.wait = half.wait /\ b.gen = half.gen /\ b.reaping = half.reaping
  BY <1>3 DEF BridgeState
<1> QED
  BY <1>2, <1>3, <1>4, <1>5, <1>6

(* The failures are forgotten.                                             *)
Cleared(b) == [b EXCEPT !.failures = 0, !.backoff = FALSE]

LEMMA ClearedFacts ==
    ASSUME NEW b \in BridgeState
    PROVE  /\ Cleared(b) \in BridgeState /\ Cleared(b).pid = b.pid /\ Cleared(b).wait = b.wait
           /\ Cleared(b).gen = b.gen /\ Cleared(b).reaping = b.reaping
<1> DEFINE h == [b EXCEPT !.failures = 0]
<1>1. h \in BridgeState /\ h.pid = b.pid /\ h.wait = b.wait /\ h.gen = b.gen /\ h.reaping = b.reaping
  BY DEF BridgeState
<1>2. Cleared(b) = [h EXCEPT !.backoff = FALSE]
  BY DEF Cleared, BridgeState
<1> HIDE DEF h
<1> QED
  BY <1>1, <1>2 DEF BridgeState

LEMMA MarkedFacts ==
    ASSUME BridgeTypes
    PROVE  LET b == MarkReaping(bridge)
           IN /\ b \in BridgeState /\ b.pid = bridge.pid /\ b.wait = bridge.wait /\ b.gen = bridge.gen
              /\ b.reaping \in {bridge.reaping, bridge.wait}
              /\ bridge.wait # 0 /\ process[bridge.wait] # "reaped" => b.reaping = bridge.wait
BY DEF BridgeTypes, BridgeState, MarkReaping

(* The last process is told to end, and recorded as the one to wait for.   *)
LEMMA SignalKeeps ==
    ASSUME BridgeTypes, DyingOK, bridge'.pid = 0, bridge'.wait = bridge.wait,
           bridge'.reaping \in {bridge.reaping, bridge.wait},
           bridge.pid # 0 /\ process[bridge.pid] # "reaped" => bridge'.reaping = bridge.pid,
           process' = Signal(bridge.pid)
    PROVE  DyingOK' /\ process' \in [Gens -> ProcessStates]
<1>1. process' \in [Gens -> ProcessStates]
  BY DEF BridgeTypes, Signal, ProcessStates
<1>2. ASSUME NEW g \in Gens, process'[g] = "dying" PROVE bridge'.reaping = g /\ bridge'.wait = g
  <2>1. CASE process[g] = "dying"
    BY <2>1 DEF DyingOK
  <2>2. CASE process[g] # "dying"
    <3>1. g = bridge.pid /\ process[g] = "alive"
      BY <1>2, <2>2 DEF Signal
    <3>2. g # 0
      BY DEF Gens
    <3> QED
      BY <3>1, <3>2 DEF DyingOK
  <2> QED
    BY <2>1, <2>2
<1> QED
  BY <1>1, <1>2 DEF DyingOK

(* No process is told, and the record may fail or forget none it waits for. *)
LEMMA RecordKeeps ==
    ASSUME BridgeTypes, DyingOK, bridge'.pid = bridge.pid, bridge'.wait = bridge.wait,
           bridge'.gen = bridge.gen, bridge'.reaping = bridge.reaping, process' = process
    PROVE  DyingOK'
BY DEF DyingOK

LEMMA SlotsFail ==
    ASSUME BridgeTypes, NEW ps, ps \subseteq pending
    PROVE  /\ FailedSlots(bridge, ps) \in [Requests -> SlotStates]
           /\ \A r \in Requests : r \notin Ids(pending) => FailedSlots(bridge, ps)[r] = slot[r]
<1>1. \A r \in Requests : r \notin Ids(pending) => r \notin Ids(ps)
  BY DEF Ids
<1>2. \A r \in Requests : [id |-> r, gen |-> bridge.gen] \in ps => r \in Ids(ps)
  BY DEF Ids
<1> QED
  BY <1>1, <1>2 DEF FailedSlots, BridgeTypes, SlotStates

LEMMA SlotsAnswered ==
    ASSUME NEW s \in [Requests -> SlotStates], NEW ids, NEW result \in SlotStates
    PROVE  /\ Answers(s, ids, result) \in [Requests -> SlotStates]
           /\ \A r \in Requests : r \notin ids => Answers(s, ids, result)[r] = s[r]
BY DEF Answers

(* protocol_failure                                                        *)
LEMMA FailureKeeps ==
    ASSUME BridgeInv, NEW g, NEW ps, NEW gone, ps \subseteq pending, gone \subseteq Ids(pending),
           gone \cap Ids(ps) = {}, ProtocolFailure(g, ps, gone)
    PROVE  /\ bridge' \in BridgeState /\ process' \in [Gens -> ProcessStates]
           /\ slot' \in [Requests -> SlotStates] /\ DyingOK'
           /\ pending' \subseteq ps
           /\ \A c \in Callers : Call(c) \in Ids(pending') \/ Call(c) \notin Ids(pending)
                                  => slot'[Call(c)] = slot[Call(c)]
<1>1. BridgeTypes /\ DyingOK
  BY DEF BridgeInv
<1>2. CASE bridge.gen = g /\ bridge.failed # g
  <2>1. /\ bridge' = FailedBridge(bridge) /\ pending' = {} /\ process' = Signal(bridge.pid)
        /\ slot' = Answers(FailedSlots(bridge, ps), gone, "err")
    BY <1>2 DEF ProtocolFailure
  <2>2. /\ FailedSlots(bridge, ps) \in [Requests -> SlotStates]
        /\ \A r \in Requests : r \notin Ids(pending) => FailedSlots(bridge, ps)[r] = slot[r]
    BY <1>1, SlotsFail
  <2>3. /\ slot' \in [Requests -> SlotStates]
        /\ \A r \in Requests : r \notin gone => slot'[r] = FailedSlots(bridge, ps)[r]
    <3>1. "err" \in SlotStates
      BY DEF SlotStates
    <3> QED
      BY <2>1, <2>2, <3>1, SlotsAnswered
  <2>4. bridge.pid # 0 /\ process[bridge.pid] # "reaped" => bridge'.reaping = bridge.pid
    BY <1>1, <2>1, FailedFacts DEF DyingOK
  <2>5. DyingOK' /\ process' \in [Gens -> ProcessStates]
    BY <1>1, <2>1, <2>4, FailedFacts, SignalKeeps
  <2>6. Ids(pending') = {}
    BY <2>1 DEF Ids
  <2> QED
    BY <1>1, <2>1, <2>2, <2>3, <2>5, <2>6, FailedFacts, CallNamed
<1>3. CASE ~(bridge.gen = g /\ bridge.failed # g)
  <2>1. /\ pending' = ps /\ slot' = Answers(slot, gone, "err") /\ UNCHANGED <<bridge, process>>
    BY <1>3 DEF ProtocolFailure
  <2>2. /\ slot' \in [Requests -> SlotStates]
        /\ \A r \in Requests : r \notin gone => slot'[r] = slot[r]
    <3>1. "err" \in SlotStates /\ slot \in [Requests -> SlotStates]
      BY <1>1 DEF SlotStates, BridgeTypes
    <3> QED
      BY <2>1, <3>1, SlotsAnswered
  <2>3. DyingOK'
    BY <1>1, <2>1, RecordKeeps
  <2> QED
    BY <1>1, <2>1, <2>2, <2>3, CallNamed DEF BridgeTypes
<1> QED
  BY <1>2, <1>3

----------------------------------------------------------------------------
CallerPcs == {"idle", "lock", "write", "writing", "failed", "wait", "ack", "grace", "abort", "done"}

LEMMA CallerMoved ==
    ASSUME BridgeTypes, NEW c \in Callers, NEW pc \in CallerPcs, MoveCaller(c, pc)
    PROVE  /\ caller' \in [Callers -> CallerStates] /\ caller'[c].pc = pc /\ caller'[c].kind = caller[c].kind
           /\ \A d \in Callers : d # c => caller'[d] = caller[d]
<1> DEFINE t == [caller[c] EXCEPT !.pc = pc]
<1>1. t \in CallerStates /\ t.pc = pc /\ t.kind = caller[c].kind /\ caller' = [caller EXCEPT ![c] = t]
  BY DEF BridgeTypes, CallerStates, CallerPcs, MoveCaller
<1> HIDE DEF t
<1> QED
  BY <1>1 DEF BridgeTypes

(* A caller moves on; no process is told to end and no answer comes.       *)
LEMMA MoveKeeps ==
    ASSUME BridgeInv, NEW c \in Callers, NEW pc \in CallerPcs, MoveCaller(c, pc),
           NotSent([pc |-> pc, kind |-> caller[c].kind]) => NotSent(caller[c]),
           pc = "done" => Call(c) \notin Ids(pending),
           bridge' \in BridgeState, bridge'.pid = bridge.pid, bridge'.wait = bridge.wait,
           bridge'.gen = bridge.gen, bridge'.reaping = bridge.reaping,
           UNCHANGED <<pending, process, slot>>
    PROVE  BridgeInv'
<1>1. /\ caller' \in [Callers -> CallerStates] /\ caller'[c].pc = pc /\ caller'[c].kind = caller[c].kind
      /\ \A d \in Callers : d # c => caller'[d] = caller[d]
  BY CallerMoved DEF BridgeInv
<1>2. \A d \in Callers : /\ NotSent(caller'[d]) => NotSent(caller[d])
                         /\ caller'[d].pc = "done" => caller[d].pc = "done" \/ Call(d) \notin Ids(pending)
  BY <1>1 DEF NotSent
<1>3. CallOK'
  BY <1>2, CallsEnd DEF BridgeInv
<1>4. DyingOK'
  BY RecordKeeps DEF BridgeInv
<1> QED
  BY <1>1, <1>3, <1>4 DEF BridgeInv, BridgeTypes

LEMMA BeginKeeps == ASSUME BridgeInv, NEW c \in Callers, Begin(c) PROVE BridgeInv'
<1>1. NotSent(caller[c])
  BY DEF Begin, NotSent
<1> QED
  BY <1>1, MoveKeeps DEF Begin, CallerPcs, BridgeInv, BridgeTypes

(* The calls of the others, and what is said of the processes, stay.       *)
LEMMA OtherCallersStay ==
    ASSUME BridgeInv, NEW c \in Callers, NEW t \in CallerStates, caller' = [caller EXCEPT ![c] = t],
           ~NotSent(t), t.pc # "done", UNCHANGED <<bridge, process, slot>>, pending \subseteq pending',
           \A p \in pending' : p \in pending \/ p.id[2] # "call"
    PROVE  BridgeInv'
<1>1. /\ caller' \in [Callers -> CallerStates] /\ caller'[c] = t
      /\ \A d \in Callers : d # c => caller'[d] = caller[d]
  BY DEF BridgeInv, BridgeTypes
<1>2. \A d \in Callers : Call(d) \in Ids(pending') => Call(d) \in Ids(pending)
  BY CallNamed DEF Ids
<1>3. ASSUME NEW d \in Callers
      PROVE  /\ NotSent(caller'[d]) => slot[Call(d)] = "empty" /\ Call(d) \notin Ids(pending')
             /\ Call(d) \in Ids(pending') => slot[Call(d)] = "empty"
             /\ caller'[d].pc = "done" => Call(d) \notin Ids(pending')
  BY <1>1, <1>2 DEF BridgeInv, CallOK
<1>4. CallOK'
  BY <1>3 DEF BridgeInv, CallOK, NotSent, Ids, Call
<1>5. DyingOK'
  BY RecordKeeps DEF BridgeInv
<1> QED
  BY <1>1, <1>4, <1>5 DEF BridgeInv, BridgeTypes

LEMMA BeginAppendKeeps == ASSUME BridgeInv, NEW c \in Callers, BeginAppend(c) PROVE BridgeInv'
<1> DEFINE t == [caller[c] EXCEPT !.pc = "lock", !.kind = "append", !.appended = TRUE]
<1>1. caller[c] \in CallerStates
  BY DEF BridgeInv, BridgeTypes
<1>2. caller' = [caller EXCEPT ![c] = t]
  BY DEF BeginAppend, BridgeInv, BridgeTypes
<1>3. t \in CallerStates /\ t.pc = "lock" /\ t.kind = "append"
  BY <1>1 DEF CallerStates, RequestKinds
<1> HIDE DEF t
<1>4. ~NotSent(t) /\ UNCHANGED <<bridge, pending, process, slot>>
  BY <1>3 DEF NotSent, BeginAppend
<1> QED
  BY <1>2, <1>3, <1>4, OtherCallersStay

LEMMA AppendedKeeps == ASSUME BridgeInv, NEW c \in Callers, Appended(c) PROVE BridgeInv'
<1> DEFINE t == [caller[c] EXCEPT !.pc = "wait", !.kind = "call"]
<1>1. caller[c] \in CallerStates
  BY DEF BridgeInv, BridgeTypes
<1>2. caller' = [caller EXCEPT ![c] = t]
  BY DEF Appended, BridgeInv, BridgeTypes
<1>3. t \in CallerStates /\ t.pc = "wait"
  BY <1>1 DEF CallerStates, RequestKinds
<1> HIDE DEF t
<1>4. ~NotSent(t) /\ UNCHANGED <<bridge, pending, process, slot>>
  BY <1>3 DEF NotSent, Appended
<1> QED
  BY <1>2, <1>3, <1>4, OtherCallersStay

LEMMA GiveUpKeeps == ASSUME BridgeInv, NEW c \in Callers, GiveUp(c) PROVE BridgeInv'
<1> DEFINE g == bridge.gen
           t == [caller[c] EXCEPT !.pc = "lock", !.kind = "cancel", !.gen = g]
           new == [id |-> <<c, "cancel">>, gen |-> g]
<1>1. caller[c] \in CallerStates /\ g \in 0 .. MaxGenerations
  BY DEF BridgeInv, BridgeTypes, BridgeState
<1>2. caller' = [caller EXCEPT ![c] = t]
  BY DEF GiveUp, BridgeInv, BridgeTypes
<1> HIDE DEF g
<1>3. t \in CallerStates /\ t.pc = "lock" /\ t.kind = "cancel"
  BY <1>1 DEF CallerStates, RequestKinds
<1> HIDE DEF t
<1>4. ~NotSent(t) /\ UNCHANGED <<bridge, process, slot>> /\ pending' = pending \cup {new}
  BY <1>3 DEF NotSent, GiveUp, g
<1>5. new.id[2] # "call"
  OBVIOUS
<1> HIDE DEF new
<1> QED
  BY <1>2, <1>3, <1>4, <1>5, OtherCallersStay

----------------------------------------------------------------------------
(* A call that is refused was never pending; an append is over.            *)
LEMMA RefuseCallKeeps ==
    ASSUME BridgeInv, NEW c \in Callers, caller[c].pc = "lock", caller[c].kind # "cancel", Refuse(c),
           UNCHANGED pending, DyingOK', bridge' \in BridgeState, process' \in [Gens -> ProcessStates]
    PROVE  BridgeInv'
<1>1. caller[c].kind \in {"call", "append"}
  BY DEF BridgeInv, BridgeTypes, CallerStates, RequestKinds
<1> DEFINE pc == IF caller[c].kind = "call" THEN "done" ELSE "ack"
<1>2. /\ MoveCaller(c, pc)
      /\ slot' = slot \/ slot' = [slot EXCEPT ![<<c, "append">>] = "err"]
  BY <1>1 DEF Refuse, RequestRefused
<1>3. pc \in CallerPcs /\ pc \in {"done", "ack"} /\ (pc = "done" => NotSent(caller[c]))
  BY DEF CallerPcs, NotSent
<1> HIDE DEF pc
<1>4. /\ caller' \in [Callers -> CallerStates] /\ caller'[c].pc = pc
      /\ \A d \in Callers : d # c => caller'[d] = caller[d]
  BY <1>2, <1>3, CallerMoved DEF BridgeInv
<1>5. slot' \in [Requests -> SlotStates] /\ \A d \in Callers : slot'[Call(d)] = slot[Call(d)]
  BY <1>2, CallNamed DEF BridgeInv, BridgeTypes, SlotStates
<1>6. \A d \in Callers : /\ NotSent(caller'[d]) => NotSent(caller[d])
                         /\ caller'[d].pc = "done" => caller[d].pc = "done" \/ Call(d) \notin Ids(pending)
  BY <1>3, <1>4 DEF NotSent, BridgeInv, CallOK
<1>7. CallOK'
  BY <1>5, <1>6, CallsEnd DEF BridgeInv
<1> QED
  BY <1>4, <1>5, <1>7 DEF BridgeInv, BridgeTypes

(* A process starts only when none is still to be waited for.              *)
LEMMA StartFacts ==
    ASSUME BridgeInv, NEW c \in Callers, StartRequest(c)
    PROVE  /\ \A g \in Gens : process[g] # "dying"
           /\ LET started == Started([bridge EXCEPT !.reaping = 0])
              IN /\ bridge' = started /\ started \in BridgeState
                 /\ process' = process \/ process' = [process EXCEPT ![started.gen] = "alive"]
           /\ process' \in [Gens -> ProcessStates]
           /\ DyingOK'
<1> DEFINE old == [bridge EXCEPT !.reaping = 0]
           started == Started(old)
<1>1. /\ Reaped /\ (bridge.stdin \/ MayStart) /\ bridge' = started
      /\ process' = IF bridge.stdin THEN process ELSE [process EXCEPT ![started.gen] = "alive"]
  BY DEF StartRequest
<1>2. bridge \in BridgeState /\ process \in [Gens -> ProcessStates]
  BY DEF BridgeInv, BridgeTypes
<1>3. old \in BridgeState /\ old.reaping = 0 /\ old.gen = bridge.gen /\ old.stdin = bridge.stdin
      /\ old.pid = bridge.pid /\ old.wait = bridge.wait
  BY <1>2 DEF BridgeState
<1>4. ASSUME NEW g \in Gens PROVE process[g] # "dying"
  BY <1>1 DEF BridgeInv, DyingOK, Reaped, Gens
<1> HIDE DEF old
<1>5. CASE bridge.stdin
  <2>1. started = old /\ process' = process
    BY <1>1, <1>3, <1>5 DEF Started
  <2>2. DyingOK'
    BY <1>1, <1>3, <1>4, <2>1 DEF BridgeInv, DyingOK
  <2> QED
    BY <1>1, <1>2, <1>3, <1>4, <2>1, <2>2 DEF old
<1>6. CASE ~bridge.stdin
  <2> DEFINE g == bridge.gen + 1
  <2>1. g \in Gens /\ g \in 0 .. MaxGenerations /\ g # 0
    BY <1>1, <1>2, <1>6, BridgeAssumption DEF MayStart, Gens, BridgeState
  <2>2. started = [old EXCEPT !.gen = g, !.stdin = TRUE, !.pid = g, !.wait = g]
    BY <1>3, <1>6 DEF Started, BridgeState
  <2> HIDE DEF g
  <2> DEFINE half == [old EXCEPT !.gen = g, !.stdin = TRUE]
             new == [half EXCEPT !.pid = g, !.wait = g]
  <2>3. half \in BridgeState /\ half.gen = g /\ half.reaping = 0
    BY <1>3, <2>1 DEF BridgeState
  <2>4. started = new
    BY <1>3, <2>2 DEF BridgeState
  <2> HIDE DEF half
  <2>5. new \in BridgeState /\ new.gen = g /\ new.pid = g /\ new.wait = g /\ new.reaping = 0
    BY <2>1, <2>3 DEF BridgeState
  <2> HIDE DEF new
  <2>6. process' = [process EXCEPT ![g] = "alive"]
    BY <1>1, <1>6, <2>4, <2>5
  <2>7. process' \in [Gens -> ProcessStates] /\ \A h \in Gens : process'[h] # "dying"
    BY <1>2, <1>4, <2>1, <2>6 DEF ProcessStates
  <2>8. DyingOK'
    BY <1>1, <2>4, <2>5, <2>7 DEF DyingOK
  <2> QED
    BY <1>1, <1>4, <2>4, <2>5, <2>6, <2>7, <2>8 DEF old
<1> QED
  BY <1>5, <1>6

LEMMA StartRequestKeeps == ASSUME BridgeInv, NEW c \in Callers, StartRequest(c) PROVE BridgeInv'
<1> DEFINE started == Started([bridge EXCEPT !.reaping = 0])
           k == caller[c].kind
<1>1. /\ caller[c].pc = "lock" /\ k # "cancel" /\ bridge' = started
      /\ bridge' \in BridgeState /\ process' \in [Gens -> ProcessStates] /\ DyingOK'
  BY StartFacts DEF StartRequest
<1>2. CASE Cardinality(pending) >= MaxPending
  BY <1>1, <1>2, RefuseCallKeeps DEF StartRequest
<1>3. CASE ~(Cardinality(pending) >= MaxPending)
  <2> DEFINE new == [id |-> <<c, k>>, gen |-> started.gen]
             t == [caller[c] EXCEPT !.pc = "write", !.gen = started.gen]
  <2>1. caller[c] \in CallerStates /\ started.gen \in 0 .. MaxGenerations /\ k \in RequestKinds
    BY <1>1 DEF BridgeInv, BridgeTypes, BridgeState, CallerStates
  <2>2. /\ pending' = pending \cup {new} /\ slot' = slot
        /\ caller' = [caller EXCEPT ![c].pc = "write", ![c].gen = started.gen]
    BY <1>3 DEF StartRequest
  <2>3. caller' = [caller EXCEPT ![c] = t]
    BY <2>2 DEF BridgeInv, BridgeTypes
  <2> HIDE DEF started
  <2>4. t \in CallerStates /\ t.pc = "write"
    BY <2>1 DEF CallerStates
  <2> HIDE DEF t
  <2>5. /\ caller' \in [Callers -> CallerStates] /\ ~NotSent(caller'[c]) /\ caller'[c].pc # "done"
        /\ \A d \in Callers : d # c => caller'[d] = caller[d]
    BY <2>3, <2>4 DEF BridgeInv, BridgeTypes, NotSent
  <2>6. new.id = <<c, k>> /\ (k = "call" => new.id = Call(c))
    BY DEF Call
  <2>7. k = "call" => NotSent(caller[c])
    BY <1>1 DEF NotSent
  <2> HIDE DEF new
  <2>8. \A d \in Callers : Call(d) = new.id => k = "call" /\ d = c
    BY <2>1, <2>6, CallNamed
  <2>9. \A r : r \in Ids(pending') <=> r \in Ids(pending) \/ r = new.id
    BY <2>2 DEF Ids
  <2>10. ASSUME NEW d \in Callers
         PROVE  /\ NotSent(caller'[d]) => slot[Call(d)] = "empty" /\ Call(d) \notin Ids(pending')
                /\ Call(d) \in Ids(pending') => slot[Call(d)] = "empty"
                /\ caller'[d].pc = "done" => Call(d) \notin Ids(pending')
    BY <2>5, <2>7, <2>8, <2>9 DEF BridgeInv, CallOK
  <2>11. \A p, q \in pending' : p.id = q.id /\ p.id[2] = "call" => p = q
    <3>1. ASSUME NEW p \in pending, p.id = new.id, new.id[2] = "call" PROVE FALSE
      <4>1. new.id = Call(c) /\ Call(c) \notin Ids(pending)
        BY <2>1, <2>6, <2>7, <3>1 DEF BridgeInv, CallOK
      <4> QED
        BY <3>1, <4>1 DEF Ids
    <3> QED
      BY <2>2, <3>1 DEF BridgeInv, CallOK
  <2>12. CallOK'
    BY <2>2, <2>10, <2>11 DEF CallOK, NotSent, Ids, Call
  <2> QED
    BY <1>1, <2>2, <2>5, <2>12 DEF BridgeInv, BridgeTypes
<1> QED
  BY <1>2, <1>3

LEMMA RefusedKeeps == ASSUME BridgeInv, NEW c \in Callers, RefuseRequest(c) PROVE BridgeInv'
<1>1. /\ caller[c].pc = "lock" /\ caller[c].kind # "cancel" /\ Refuse(c) /\ UNCHANGED <<pending, process>>
      /\ bridge' = IF Reaped /\ ~bridge.shutting THEN [bridge EXCEPT !.reaping = 0] ELSE bridge
  BY DEF RefuseRequest
<1>2. bridge \in BridgeState /\ process \in [Gens -> ProcessStates]
  BY DEF BridgeInv, BridgeTypes
<1>3. /\ bridge' \in BridgeState /\ bridge'.pid = bridge.pid /\ bridge'.gen = bridge.gen
      /\ bridge'.wait = bridge.wait
      /\ bridge'.reaping = bridge.reaping \/ (bridge'.reaping = 0 /\ Reaped)
  BY <1>1, <1>2 DEF BridgeState
<1>4. DyingOK'
  BY <1>1, <1>3 DEF BridgeInv, DyingOK, Reaped, Gens
<1> QED
  BY <1>1, <1>2, <1>3, <1>4, RefuseCallKeeps

LEMMA WriteKeeps ==
    ASSUME BridgeInv, NEW c \in Callers, LockForCancel(c) \/ TakeStdin(c) \/ FinishWrite(c) \/ FailWrite(c)
    PROVE  BridgeInv'
<1>1. bridge \in BridgeState /\ caller[c].kind \in RequestKinds
  BY DEF BridgeInv, BridgeTypes, CallerStates
<1>2. UNCHANGED <<pending, process, slot>>
  BY DEF LockForCancel, TakeStdin, FinishWrite, FailWrite
<1>3. \E pc \in {"write", "writing", "failed", "wait", "ack", "grace"} : MoveCaller(c, pc)
  <2>1. CASE FinishWrite(c)
    <3> DEFINE pc == CASE caller[c].kind = "call" -> "wait"
                       [] caller[c].kind = "append" -> "ack"
                       [] caller[c].kind = "cancel" -> "grace"
    <3>1. MoveCaller(c, pc)
      BY <2>1 DEF FinishWrite
    <3>2. pc \in {"wait", "ack", "grace"}
      BY <1>1 DEF RequestKinds
    <3> QED
      BY <3>1, <3>2
  <2> QED
    BY <2>1 DEF LockForCancel, TakeStdin, FailWrite, LineFails
<1>4. /\ bridge' \in BridgeState /\ bridge'.pid = bridge.pid /\ bridge'.wait = bridge.wait
      /\ bridge'.gen = bridge.gen /\ bridge'.reaping = bridge.reaping
  <2>1. bridge' = bridge \/ \E x \in BOOLEAN : bridge' = [bridge EXCEPT !.stdin = x]
    BY DEF LockForCancel, TakeStdin, FinishWrite, FailWrite
  <2> QED
    BY <1>1, <2>1 DEF BridgeState
<1>5. PICK pc \in {"write", "writing", "failed", "wait", "ack", "grace"} : MoveCaller(c, pc)
  BY <1>3
<1>6. pc \in CallerPcs /\ pc # "done" /\ ~NotSent([pc |-> pc, kind |-> caller[c].kind])
  BY DEF CallerPcs, NotSent
<1> QED
  BY <1>2, <1>4, <1>5, <1>6, MoveKeeps

LEMMA FailRequestKeeps == ASSUME BridgeInv, NEW c \in Callers, FailRequest(c) PROVE BridgeInv'
<1> DEFINE own == <<c, caller[c].kind>>
           ps == {p \in pending : p.id # own}
           gone == {own} \cap Ids(pending)
           pc == IF caller[c].kind = "cancel" THEN "grace" ELSE IF caller[c].kind = "call" THEN "done" ELSE "ack"
<1>1. ProtocolFailure(caller[c].gen, ps, gone) /\ MoveCaller(c, pc)
  BY DEF FailRequest
<1>2. ps \subseteq pending /\ gone \subseteq Ids(pending) /\ gone \cap Ids(ps) = {} /\ own \notin Ids(ps)
  BY DEF Ids
<1>3. pc \in CallerPcs /\ pc \in {"done", "ack", "grace"} /\ (pc = "done" => own = Call(c))
  BY DEF CallerPcs, Call
<1> HIDE DEF pc, ps, gone
<1>4. /\ bridge' \in BridgeState /\ process' \in [Gens -> ProcessStates]
      /\ slot' \in [Requests -> SlotStates] /\ DyingOK'
      /\ pending' \subseteq ps
      /\ \A d \in Callers : Call(d) \in Ids(pending') \/ Call(d) \notin Ids(pending)
                             => slot'[Call(d)] = slot[Call(d)]
  BY <1>1, <1>2, FailureKeeps
<1>5. /\ caller' \in [Callers -> CallerStates] /\ caller'[c].pc = pc
      /\ \A d \in Callers : d # c => caller'[d] = caller[d]
  BY <1>1, <1>3, CallerMoved DEF BridgeInv
<1>6. pc = "done" => Call(c) \notin Ids(pending')
  BY <1>2, <1>3, <1>4 DEF Ids
<1>7. \A d \in Callers : /\ NotSent(caller'[d]) => NotSent(caller[d])
                         /\ caller'[d].pc = "done" => caller[d].pc = "done" \/ Call(d) \notin Ids(pending')
  BY <1>3, <1>5, <1>6 DEF NotSent
<1>8. pending' \subseteq pending
  BY <1>2, <1>4
<1>9. CallOK'
  BY <1>4, <1>7, <1>8, CallsEnd DEF BridgeInv
<1> QED
  BY <1>4, <1>5, <1>9 DEF BridgeInv, BridgeTypes

LEMMA ReturnKeeps ==
    ASSUME BridgeInv, NEW c \in Callers, Return(c) \/ Acknowledged(c) \/ AnsweredByAbort(c)
    PROVE  BridgeInv'
<1>1. slot[Call(c)] # "empty" /\ MoveCaller(c, "done") /\ UNCHANGED <<bridge, pending, process, slot>>
  BY DEF Return, Acknowledged, AnsweredByAbort, Call
<1>2. Call(c) \notin Ids(pending) /\ ~NotSent([pc |-> "done", kind |-> caller[c].kind])
  BY <1>1 DEF BridgeInv, CallOK, NotSent
<1> QED
  BY <1>1, <1>2, MoveKeeps DEF CallerPcs, BridgeInv, BridgeTypes

(* Every pending request is answered at once, or all stay.                 *)
LEMMA AllAnswered ==
    ASSUME BridgeInv, pending' = {}, slot' \in [Requests -> SlotStates],
           \A r \in Requests : r \notin Ids(pending) => slot'[r] = slot[r],
           \A d \in Callers : /\ NotSent(caller'[d]) => NotSent(caller[d])
                              /\ caller'[d].pc = "done" => caller[d].pc = "done"
    PROVE  CallOK'
<1>1. Ids(pending') = {}
  BY DEF Ids
<1>2. \A d \in Callers : Call(d) \in Ids(pending') \/ Call(d) \notin Ids(pending)
                         => slot'[Call(d)] = slot[Call(d)]
  BY <1>1, CallNamed
<1> QED
  BY <1>1, <1>2, CallsEnd DEF BridgeInv

LEMMA AbortKeeps == ASSUME BridgeInv, NEW c \in Callers, Abort(c) PROVE BridgeInv'
<1>1. MoveCaller(c, "abort")
  BY DEF Abort
<1>2. /\ caller' \in [Callers -> CallerStates] /\ caller'[c].pc = "abort"
      /\ \A d \in Callers : d # c => caller'[d] = caller[d]
  BY <1>1, CallerMoved DEF BridgeInv, CallerPcs
<1>3. \A d \in Callers : /\ NotSent(caller'[d]) => NotSent(caller[d])
                         /\ caller'[d].pc = "done" => caller[d].pc = "done"
  BY <1>2 DEF NotSent
<1>4. CASE bridge.failed = bridge.gen
  <2>1. UNCHANGED <<bridge, pending, process, slot>> /\ ~NotSent([pc |-> "abort", kind |-> caller[c].kind])
    BY <1>4 DEF Abort, NotSent
  <2> QED
    BY <1>1, <2>1, MoveKeeps DEF CallerPcs, BridgeInv, BridgeTypes
<1>5. CASE bridge.failed # bridge.gen
  <2> DEFINE b == FailedBridge(bridge)
  <2>1. /\ bridge' = Cleared(b) /\ slot' = FailedSlots(bridge, pending)
        /\ pending' = {} /\ process' = Signal(bridge.pid)
    BY <1>5 DEF Abort, Cleared
  <2>2. /\ b \in BridgeState /\ b.pid = 0 /\ b.wait = bridge.wait
        /\ b.reaping \in {bridge.reaping, bridge.wait}
        /\ bridge.pid # 0 /\ process[bridge.pid] # "reaped" => b.reaping = bridge.pid
    BY FailedFacts DEF BridgeInv, DyingOK
  <2> HIDE DEF b
  <2>3. /\ bridge' \in BridgeState /\ bridge'.pid = 0 /\ bridge'.wait = b.wait /\ bridge'.reaping = b.reaping
    BY <2>1, <2>2, ClearedFacts
  <2>4. DyingOK' /\ process' \in [Gens -> ProcessStates]
    BY <2>1, <2>2, <2>3, SignalKeeps DEF BridgeInv
  <2>5. /\ slot' \in [Requests -> SlotStates]
        /\ \A r \in Requests : r \notin Ids(pending) => slot'[r] = slot[r]
    BY <2>1, SlotsFail DEF BridgeInv
  <2>6. CallOK'
    BY <1>3, <2>1, <2>5, AllAnswered
  <2> QED
    BY <1>2, <2>3, <2>4, <2>5, <2>6 DEF BridgeInv, BridgeTypes
<1> QED
  BY <1>4, <1>5

----------------------------------------------------------------------------
LEMMA AnswerKeeps == ASSUME BridgeInv, NEW p \in pending, Answer(p) PROVE BridgeInv'
<1>1. PICK result \in {"ok", "err"} :
         /\ slot' = [slot EXCEPT ![p.id] = result]
         /\ bridge' \in {bridge, Cleared(bridge)}
  BY DEF Answer, Cleared
<1>2. pending' = pending \ {p} /\ UNCHANGED <<process, caller>>
  BY DEF Answer
<1>3. /\ bridge' \in BridgeState /\ bridge'.pid = bridge.pid /\ bridge'.wait = bridge.wait
      /\ bridge'.gen = bridge.gen /\ bridge'.reaping = bridge.reaping
  BY <1>1, ClearedFacts DEF BridgeInv, BridgeTypes
<1>4. slot' \in [Requests -> SlotStates] /\ \A r \in Requests : r # p.id => slot'[r] = slot[r]
  BY <1>1 DEF BridgeInv, BridgeTypes, SlotStates
<1>5. ASSUME NEW d \in Callers, Call(d) \in Ids(pending') PROVE Call(d) # p.id
  <2>1. PICK q \in pending : q.id = Call(d) /\ q # p
    BY <1>2, <1>5 DEF Ids
  <2>2. q.id[2] = "call"
    BY <2>1, CallNamed
  <2> QED
    BY <2>1, <2>2 DEF BridgeInv, CallOK
<1>6. \A d \in Callers : Call(d) \in Ids(pending') \/ Call(d) \notin Ids(pending)
                         => slot'[Call(d)] = slot[Call(d)]
  <2>1. p.id \in Ids(pending)
    BY DEF Ids
  <2> QED
    BY <1>4, <1>5, <2>1, CallNamed
<1>7. CallOK'
  BY <1>2, <1>6, CallsEnd DEF BridgeInv, NotSent
<1>8. DyingOK'
  BY <1>2, <1>3, RecordKeeps DEF BridgeInv
<1> QED
  BY <1>2, <1>3, <1>4, <1>7, <1>8 DEF BridgeInv, BridgeTypes

LEMMA GarbageKeeps == ASSUME BridgeInv, NEW g \in Gens, Garbage(g) PROVE BridgeInv'
<1>1. ProtocolFailure(g, pending, {}) /\ UNCHANGED caller
  BY DEF Garbage
<1>2. /\ bridge' \in BridgeState /\ process' \in [Gens -> ProcessStates]
      /\ slot' \in [Requests -> SlotStates] /\ DyingOK'
      /\ pending' \subseteq pending
      /\ \A d \in Callers : Call(d) \in Ids(pending') \/ Call(d) \notin Ids(pending)
                             => slot'[Call(d)] = slot[Call(d)]
  BY <1>1, FailureKeeps
<1>3. CallOK'
  BY <1>1, <1>2, CallsEnd DEF BridgeInv, NotSent
<1> QED
  BY <1>1, <1>2, <1>3 DEF BridgeInv, BridgeTypes

LEMMA ExitProcessKeeps == ASSUME BridgeInv, NEW g \in Gens, Exit(g) PROVE BridgeInv'
<1>1. process' = [process EXCEPT ![g] = "reaped"] /\ UNCHANGED caller
  BY DEF Exit
<1>2. process' \in [Gens -> ProcessStates] /\ \A h \in Gens : process'[h] = "dying" => h # g /\ process[h] = "dying"
  BY <1>1 DEF BridgeInv, BridgeTypes, ProcessStates
<1>3. CASE bridge.gen = g /\ bridge.failed # g
  <2>1. bridge' = FailedBridge(bridge) /\ slot' = FailedSlots(bridge, pending) /\ pending' = {}
    BY <1>3 DEF Exit
  <2>2. /\ bridge' \in BridgeState /\ bridge'.pid = 0 /\ bridge'.wait = bridge.wait
        /\ bridge'.reaping \in {bridge.reaping, bridge.wait}
    BY <2>1, FailedFacts DEF BridgeInv
  <2>3. DyingOK'
    BY <1>2, <2>2 DEF BridgeInv, DyingOK
  <2>4. /\ slot' \in [Requests -> SlotStates]
        /\ \A r \in Requests : r \notin Ids(pending) => slot'[r] = slot[r]
    BY <2>1, SlotsFail DEF BridgeInv
  <2>5. CallOK'
    BY <1>1, <2>1, <2>4, AllAnswered DEF NotSent
  <2> QED
    BY <1>1, <1>2, <2>2, <2>3, <2>4, <2>5 DEF BridgeInv, BridgeTypes
<1>4. CASE ~(bridge.gen = g /\ bridge.failed # g)
  <2>1. UNCHANGED <<bridge, slot, pending>>
    BY <1>4 DEF Exit
  <2>2. DyingOK'
    BY <1>2, <2>1 DEF BridgeInv, DyingOK
  <2>3. CallOK'
    BY <1>1, <2>1 DEF BridgeInv, CallOK, NotSent, Ids, Call
  <2> QED
    BY <1>1, <1>2, <2>1, <2>2, <2>3 DEF BridgeInv, BridgeTypes
<1> QED
  BY <1>3, <1>4

LEMMA EndProcessKeeps == ASSUME BridgeInv, UpdateEnvironment \/ Shutdown PROVE BridgeInv'
<1> DEFINE b == MarkReaping(bridge)
<1>1. /\ pending' = {} /\ slot' = Answers(slot, Ids(pending), "err") /\ process' = Signal(bridge.pid)
      /\ UNCHANGED caller
  BY DEF UpdateEnvironment, Shutdown
<1>2. /\ b \in BridgeState /\ b.wait = bridge.wait /\ b.gen = bridge.gen /\ bridge \in BridgeState
      /\ b.reaping \in {bridge.reaping, bridge.wait}
      /\ bridge.pid # 0 /\ process[bridge.pid] # "reaped" => b.reaping = bridge.pid
  BY MarkedFacts DEF BridgeInv, DyingOK, BridgeTypes
<1>3. /\ bridge' \in BridgeState /\ bridge'.pid = 0 /\ bridge'.wait = b.wait /\ bridge'.reaping = b.reaping
  <2>1. CASE Shutdown
    <3>1. bridge' = [b EXCEPT !.shutting = TRUE, !.pid = 0, !.stdin = FALSE]
      BY <2>1 DEF Shutdown
    <3> HIDE DEF b
    <3> QED
      BY <1>2, <3>1 DEF BridgeState
  <2>2. CASE UpdateEnvironment
    <3> DEFINE c == Cleared(b)
               half == [c EXCEPT !.failed = 0]
               n == b.gen + 1
    <3>1. bridge' = [b EXCEPT !.failures = 0, !.backoff = FALSE,
                        !.failed = 0, !.gen = n, !.pid = 0, !.stdin = FALSE]
      BY <2>2 DEF UpdateEnvironment
    <3>2. n \in 0 .. MaxGenerations /\ 0 \in 0 .. MaxGenerations
      BY <1>2, <2>2, BridgeAssumption DEF UpdateEnvironment, BridgeState
    <3> HIDE DEF b, n
    <3>3. bridge' = [half EXCEPT !.gen = n, !.pid = 0, !.stdin = FALSE]
      BY <1>2, <3>1 DEF BridgeState, Cleared
    <3>4. c \in BridgeState /\ c.wait = b.wait /\ c.reaping = b.reaping
      BY <1>2, ClearedFacts
    <3> HIDE DEF c
    <3>5. half \in BridgeState /\ half.wait = b.wait /\ half.reaping = b.reaping
      BY <3>2, <3>4 DEF BridgeState
    <3> HIDE DEF half
    <3> QED
      BY <3>2, <3>3, <3>5 DEF BridgeState
  <2> QED
    BY <2>1, <2>2
<1> HIDE DEF b
<1>4. DyingOK' /\ process' \in [Gens -> ProcessStates]
  BY <1>1, <1>2, <1>3, SignalKeeps DEF BridgeInv
<1>5. /\ slot' \in [Requests -> SlotStates]
      /\ \A r \in Requests : r \notin Ids(pending) => slot'[r] = slot[r]
  <2>1. "err" \in SlotStates /\ slot \in [Requests -> SlotStates]
    BY DEF SlotStates, BridgeInv, BridgeTypes
  <2> QED
    BY <1>1, <2>1, SlotsAnswered
<1>6. CallOK'
  BY <1>1, <1>5, AllAnswered DEF NotSent
<1> QED
  BY <1>1, <1>3, <1>4, <1>5, <1>6 DEF BridgeInv, BridgeTypes

LEMMA AllowedKeeps == ASSUME BridgeInv, RestartAllowed \/ UNCHANGED bridgeVars PROVE BridgeInv'
<1>1. UNCHANGED <<pending, process, slot, caller>>
  BY DEF RestartAllowed, bridgeVars
<1>2. /\ bridge' \in BridgeState /\ bridge'.pid = bridge.pid /\ bridge'.wait = bridge.wait
      /\ bridge'.gen = bridge.gen /\ bridge'.reaping = bridge.reaping
  BY DEF RestartAllowed, bridgeVars, BridgeInv, BridgeTypes, BridgeState
<1>3. DyingOK'
  BY <1>1, <1>2, RecordKeeps DEF BridgeInv
<1>4. CallOK'
  BY <1>1 DEF BridgeInv, CallOK, NotSent, Ids, Call
<1> QED
  BY <1>1, <1>2, <1>3, <1>4 DEF BridgeInv, BridgeTypes

----------------------------------------------------------------------------
LEMMA BridgeInitially == BridgeInit => BridgeInv
<1> SUFFICES ASSUME BridgeInit PROVE BridgeInv
  OBVIOUS
<1>1. 0 \in 0 .. MaxGenerations
  BY BridgeAssumption
<1>2. bridge \in BridgeState /\ bridge.pid = 0
  BY <1>1 DEF BridgeInit, NewBridge, BridgeState
<1>3. /\ process \in [Gens -> ProcessStates] /\ slot \in [Requests -> SlotStates]
      /\ caller \in [Callers -> CallerStates]
  BY <1>1 DEF BridgeInit, ProcessStates, SlotStates, CallerStates, RequestKinds
<1>4. CallOK
  BY CallNamed DEF BridgeInit, CallOK, Ids
<1>5. DyingOK
  BY <1>2 DEF BridgeInit, DyingOK
<1> QED
  BY <1>2, <1>3, <1>4, <1>5 DEF BridgeInv, BridgeTypes

LEMMA CallerStepKeeps == ASSUME BridgeInv, NEW c \in Callers, CallerStep(c) PROVE BridgeInv'
BY StartRequestKeeps, RefusedKeeps, WriteKeeps, FailRequestKeeps, ReturnKeeps, AppendedKeeps, GiveUpKeeps,
   AbortKeeps DEF CallerStep

LEMMA BridgeStep == BridgeInv /\ [BridgeNext]_bridgeVars => BridgeInv'
<1> SUFFICES ASSUME BridgeInv, [BridgeNext]_bridgeVars PROVE BridgeInv'
  OBVIOUS
<1>1. CASE \E c \in Callers : Begin(c) \/ BeginAppend(c) \/ CallerStep(c)
  BY <1>1, BeginKeeps, BeginAppendKeeps, CallerStepKeeps
<1>2. CASE Environment
  BY <1>2, AnswerKeeps, GarbageKeeps, ExitProcessKeeps, AllowedKeeps, EndProcessKeeps DEF Environment
<1>3. CASE UNCHANGED bridgeVars
  BY <1>3, AllowedKeeps
<1> QED
  BY <1>1, <1>2, <1>3 DEF BridgeNext

LEMMA BridgeInvariant == BridgeSpec => []BridgeInv
BY BridgeInitially, BridgeStep, PTL DEF BridgeSpec

(* A call that has returned is not pending any more, however it returned.  *)
THEOREM CallsAreForgotten == BridgeSpec => []ReturnedIsForgotten
<1>1. BridgeInv => ReturnedIsForgotten
  BY DEF BridgeInv, CallOK, ReturnedIsForgotten, Returned, Call
<1> QED
  BY <1>1, BridgeInvariant, PTL

(* Nothing but a request starts a process.                                 *)
LEMMA OnlyRequestsStart ==
    ASSUME BridgeInv, [BridgeNext]_bridgeVars, NEW g \in Gens, process[g] = "none", process'[g] = "alive"
    PROVE  \E c \in Callers : StartRequest(c)
<1>1. \A pid : Signal(pid)[g] = "none"
  BY DEF Signal
<1>2. ASSUME NEW h, NEW ps, NEW gone, ProtocolFailure(h, ps, gone) PROVE FALSE
  BY <1>1, <1>2 DEF ProtocolFailure
<1>3. CASE \E c \in Callers : Begin(c) \/ BeginAppend(c) \/ CallerStep(c)
  <2>1. PICK c \in Callers : Begin(c) \/ BeginAppend(c) \/ CallerStep(c)
    BY <1>3
  <2>2. ~FailRequest(c)
    BY <1>2 DEF FailRequest
  <2>3. ~Abort(c)
    BY <1>1 DEF Abort
  <2> QED
    BY <2>1, <2>2, <2>3 DEF CallerStep, Begin, BeginAppend, RefuseRequest, LockForCancel, TakeStdin,
       FinishWrite, FailWrite, Return, Appended, GiveUp, Acknowledged, AnsweredByAbort
<1>4. CASE Environment
  <2>1. ~\E h \in Gens : Garbage(h) \/ Exit(h)
    BY <1>2 DEF Garbage, Exit, BridgeInv, BridgeTypes
  <2>2. ~UpdateEnvironment /\ ~Shutdown
    BY <1>1 DEF UpdateEnvironment, Shutdown
  <2> QED
    BY <1>4, <2>1, <2>2 DEF Environment, Answer, RestartAllowed
<1>5. CASE UNCHANGED bridgeVars
  BY <1>5 DEF bridgeVars
<1> QED
  BY <1>3, <1>4, <1>5 DEF BridgeNext

----------------------------------------------------------------------------
(* The lock of the writers. Whoever has got it and not let it go is the    *)
(* head of the queue, also when others give up and queue anew.             *)

Locking(k) == k.pc \in {"write", "writing"} \/ (k.pc = "failed" /\ k.kind # "cancel")

WritersOK == writers \in Seq(Callers) /\ \A c \in Callers : Locking(caller[c]) => Holds(c)

RequestsTyped == \A p \in pending : p.id \in Requests /\ p.gen \in 0 .. MaxGenerations

LockInv == WritersOK /\ RequestsTyped /\ bridgeFaults \in 0 .. MaxBridgeFaults

\* One occurrence leaves the queue; the head stays, unless it is the one.
LEMMA RemoveFirstFacts ==
    ASSUME NEW S, NEW s \in Seq(S), NEW e
    PROVE  /\ RemoveFirst(s, e) \in Seq(S)
           /\ s # <<>> /\ Head(s) # e => RemoveFirst(s, e) # <<>> /\ Head(RemoveFirst(s, e)) = Head(s)
<1> DEFINE I == {i \in 1 .. Len(s) : s[i] = e}
           k == Min(I)
<1>1. Len(s) \in Nat /\ \A i \in 1 .. Len(s) : s[i] \in S
  OBVIOUS
<1>2. CASE I = {}
  <2>1. RemoveFirst(s, e) = s
    BY <1>2 DEF RemoveFirst
  <2> QED BY <2>1
<1>3. CASE I # {}
  <2>1. \E x \in I : \A y \in I : x <= y
    <3>1. I \in SUBSET Nat
      BY <1>1
    <3> QED BY <1>3, <3>1, LeastNatural
  <2>2. k \in 1 .. Len(s) /\ s[k] = e
    <3>1. k \in I
      BY <2>1 DEF Min
    <3> QED BY <3>1
  <2>3. RemoveFirst(s, e) = RemoveAt(s, k)
    BY <1>3 DEF RemoveFirst, SelectInSeq
  <2> HIDE DEF k, I
  <2> DEFINE front == SubSeq(s, 1, k - 1)
             back == SubSeq(s, k + 1, Len(s))
  <2>4. /\ front \in Seq(S) /\ Len(front) = k - 1
        /\ \A i \in 1 .. k - 1 : front[i] = s[i]
    <3>1. 1 \in Int /\ k - 1 \in Int /\ \A i \in 1 .. k - 1 : s[i] \in S
      BY <1>1, <2>2
    <3>2. /\ front \in Seq(S)
          /\ Len(front) = IF 1 <= k - 1 THEN k - 1 - 1 + 1 ELSE 0
          /\ \A i \in 1 .. k - 1 - 1 + 1 : front[i] = s[1 + i - 1]
      BY <3>1, SubSeqProperties
    <3>3. k \in Nat /\ k >= 1
      BY <2>2
    <3> HIDE DEF front
    <3> QED BY <3>2, <3>3
  <2>5. back \in Seq(S)
    <3>1. k + 1 \in Int /\ Len(s) \in Int /\ \A i \in k + 1 .. Len(s) : s[i] \in S
      BY <1>1, <2>2
    <3> QED BY <3>1, SubSeqProperties
  <2>6. RemoveFirst(s, e) = front \o back
    BY <2>3 DEF RemoveAt
  <2> HIDE DEF front, back
  <2>7. /\ front \o back \in Seq(S) /\ Len(front \o back) = Len(front) + Len(back)
        /\ \A i \in 1 .. Len(front) + Len(back) : (front \o back)[i] =
               IF i <= Len(front) THEN front[i] ELSE back[i - Len(front)]
    BY <2>4, <2>5, ConcatProperties
  <2>8. ASSUME s # <<>>, Head(s) # e
        PROVE  front \o back # <<>> /\ Head(front \o back) = Head(s)
    <3>1. Head(s) = s[1]
      OBVIOUS
    <3>2. k # 1
      BY <2>2, <2>8, <3>1
    <3>3. Len(front) >= 1 /\ Len(back) \in Nat /\ Len(front) \in Nat
      BY <2>2, <2>4, <2>5, <3>2
    <3>4. (front \o back)[1] = front[1] /\ Len(front \o back) >= 1
      BY <2>7, <3>3
    <3>5. front[1] = s[1]
      BY <2>2, <2>4, <3>3
    <3> HIDE <2>8
    <3> QED BY <2>7, <3>1, <3>4, <3>5
  <2> QED BY <2>6, <2>7, <2>8
<1> QED BY <1>2, <1>3

LEMMA WritersStay ==
    ASSUME WritersOK, UNCHANGED writers,
           \A d \in Callers : Locking(caller'[d]) => Locking(caller[d]) \/ Holds(d)
    PROVE  WritersOK'
BY DEF WritersOK, Holds

LEMMA QueueJoined ==
    ASSUME WritersOK, NEW c \in Callers, writers' = Append(writers, c), ~Locking(caller'[c]),
           \A d \in Callers : d # c => caller'[d] = caller[d]
    PROVE  WritersOK'
<1>1. writers' \in Seq(Callers)
  BY DEF WritersOK
<1>2. writers # <<>> => writers' # <<>> /\ Head(writers') = Head(writers)
  BY AppendProperties DEF WritersOK
<1>3. ASSUME NEW d \in Callers, Locking(caller'[d]) PROVE Holds(d)'
  BY <1>2, <1>3 DEF WritersOK, Holds
<1> QED BY <1>1, <1>3 DEF WritersOK

LEMMA QueueLeft ==
    ASSUME WritersOK, NEW c \in Callers, Holds(c), Release, ~Locking(caller'[c]),
           \A d \in Callers : d # c => caller'[d] = caller[d]
    PROVE  WritersOK'
<1>1. writers' \in Seq(Callers)
  BY HeadTailProperties DEF WritersOK, Holds, Release
<1>2. ASSUME NEW d \in Callers, Locking(caller'[d]) PROVE FALSE
  BY <1>2 DEF WritersOK, Holds
<1> QED BY <1>1, <1>2 DEF WritersOK

LEMMA QueueRejoined == ASSUME BridgeInv, WritersOK, NEW c \in Callers, GiveUp(c) PROVE WritersOK'
<1> DEFINE q == RemoveFirst(writers, c)
<1>1. /\ q \in Seq(Callers)
      /\ writers # <<>> /\ Head(writers) # c => q # <<>> /\ Head(q) = Head(writers)
  BY RemoveFirstFacts DEF WritersOK
<1>2. writers' = Append(q, c)
  BY DEF GiveUp
<1> HIDE DEF q
<1>3. writers' \in Seq(Callers) /\ (q # <<>> => writers' # <<>> /\ Head(writers') = Head(q))
  BY <1>1, <1>2, AppendProperties
<1>4. caller'[c].pc = "lock" /\ \A d \in Callers : d # c => caller'[d] = caller[d]
  BY DEF GiveUp, BridgeInv, BridgeTypes, CallerStates
<1>5. ASSUME NEW d \in Callers, Locking(caller'[d]) PROVE Holds(d)'
  <2>1. d # c /\ Locking(caller[d])
    BY <1>4, <1>5 DEF Locking
  <2>2. writers # <<>> /\ Head(writers) = d
    BY <2>1 DEF WritersOK, Holds
  <2> QED BY <1>1, <1>3, <2>1, <2>2 DEF Holds
<1> QED BY <1>3, <1>5 DEF WritersOK

\* The caller moves on and neither joins nor leaves the queue.
LEMMA MovedStays ==
    ASSUME BridgeInv, WritersOK, NEW c \in Callers, NEW pc \in CallerPcs, MoveCaller(c, pc),
           Locking([pc |-> pc, kind |-> caller[c].kind]) => Locking(caller[c]) \/ Holds(c),
           UNCHANGED writers
    PROVE  WritersOK'
BY CallerMoved, WritersStay DEF BridgeInv, Locking

LEMMA MovedLeaves ==
    ASSUME BridgeInv, WritersOK, NEW c \in Callers, NEW pc \in CallerPcs, MoveCaller(c, pc),
           ~Locking([pc |-> pc, kind |-> caller[c].kind]), Holds(c), Release
    PROVE  WritersOK'
BY CallerMoved, QueueLeft DEF BridgeInv, Locking

LEMMA LineFailsQueue ==
    ASSUME BridgeInv, WritersOK, NEW c \in Callers, caller[c].pc \in {"write", "writing"}, LineFails(c)
    PROVE  WritersOK'
<1>1. Locking(caller[c]) /\ Holds(c)
  BY DEF Locking, WritersOK
<1>2. MoveCaller(c, "failed") /\ "failed" \in CallerPcs
  BY DEF LineFails, CallerPcs
<1>3. CASE caller[c].kind = "cancel"
  <2>1. Release /\ ~Locking([pc |-> "failed", kind |-> caller[c].kind])
    BY <1>3 DEF LineFails, Locking
  <2> QED BY <1>1, <1>2, <2>1, MovedLeaves
<1>4. CASE caller[c].kind # "cancel"
  BY <1>1, <1>2, <1>4, MovedStays DEF LineFails
<1> QED BY <1>3, <1>4

LEMMA RefuseQueue ==
    ASSUME BridgeInv, WritersOK, NEW c \in Callers, Holds(c), Refuse(c)
    PROVE  WritersOK'
<1> DEFINE pc == IF caller[c].kind = "call" THEN "done" ELSE "ack"
<1>1. MoveCaller(c, pc) /\ Release
  BY DEF Refuse, RequestRefused
<1>2. pc \in CallerPcs /\ ~Locking([pc |-> pc, kind |-> caller[c].kind])
  BY DEF CallerPcs, Locking
<1> HIDE DEF pc
<1> QED BY <1>1, <1>2, MovedLeaves

LEMMA CallerQueue == ASSUME BridgeInv, WritersOK, NEW c \in Callers, CallerStep(c) PROVE WritersOK'
<1>1. ASSUME StartRequest(c) PROVE WritersOK'
  <2>1. Holds(c)
    BY <1>1 DEF StartRequest
  <2>2. CASE Cardinality(pending) >= MaxPending
    BY <1>1, <2>1, <2>2, RefuseQueue DEF StartRequest
  <2>3. CASE ~(Cardinality(pending) >= MaxPending)
    <3>1. UNCHANGED writers /\ \A d \in Callers : d # c => caller'[d] = caller[d]
      BY <1>1, <2>3 DEF StartRequest, BridgeInv, BridgeTypes
    <3> QED BY <2>1, <3>1, WritersStay
  <2> QED BY <2>2, <2>3
<1>2. ASSUME RefuseRequest(c) PROVE WritersOK'
  BY <1>2, RefuseQueue DEF RefuseRequest
<1>3. ASSUME LockForCancel(c) PROVE WritersOK'
  BY <1>3, MovedStays DEF LockForCancel, CallerPcs
<1>4. ASSUME TakeStdin(c) PROVE WritersOK'
  <2>1. caller[c].pc = "write" /\ Locking(caller[c])
    BY <1>4 DEF TakeStdin, Locking
  <2> QED BY <1>4, <2>1, LineFailsQueue, MovedStays DEF TakeStdin, CallerPcs
<1>5. ASSUME FinishWrite(c) PROVE WritersOK'
  <2> DEFINE pc == CASE caller[c].kind = "call" -> "wait"
                     [] caller[c].kind = "append" -> "ack"
                     [] caller[c].kind = "cancel" -> "grace"
  <2>1. caller[c].pc = "writing" /\ MoveCaller(c, pc) /\ Release
    BY <1>5 DEF FinishWrite
  <2>2. Holds(c)
    BY <2>1 DEF Locking, WritersOK
  <2>3. caller[c].kind \in RequestKinds
    BY DEF BridgeInv, BridgeTypes, CallerStates
  <2>4. pc \in CallerPcs /\ ~Locking([pc |-> pc, kind |-> caller[c].kind])
    BY <2>3 DEF CallerPcs, Locking, RequestKinds
  <2> HIDE DEF pc
  <2> QED BY <2>1, <2>2, <2>4, MovedLeaves
<1>6. ASSUME FailWrite(c) PROVE WritersOK'
  BY <1>6, LineFailsQueue DEF FailWrite
<1>7. ASSUME FailRequest(c) PROVE WritersOK'
  <2>1. CASE caller[c].kind = "cancel"
    <3>1. MoveCaller(c, "grace") /\ UNCHANGED writers /\ "grace" \in CallerPcs
      BY <1>7, <2>1 DEF FailRequest, CallerPcs
    <3>2. ~Locking([pc |-> "grace", kind |-> caller[c].kind])
      BY DEF Locking
    <3> QED BY <3>1, <3>2, MovedStays
  <2>2. CASE caller[c].kind # "cancel"
    <3>1. Holds(c) /\ Release
      BY <1>7, <2>2 DEF FailRequest, Locking, WritersOK
    <3>2. \E pc \in {"done", "ack"} : MoveCaller(c, pc)
      BY <1>7, <2>2 DEF FailRequest
    <3>3. \A pc \in {"done", "ack"} : pc \in CallerPcs /\ ~Locking([pc |-> pc, kind |-> caller[c].kind])
      BY DEF CallerPcs, Locking
    <3> QED BY <3>1, <3>2, <3>3, MovedLeaves
  <2> QED BY <2>1, <2>2
<1>8. ASSUME Return(c) \/ Acknowledged(c) \/ AnsweredByAbort(c) \/ Abort(c) PROVE WritersOK'
  <2>1. UNCHANGED writers /\ \E pc \in {"done", "abort"} : MoveCaller(c, pc)
    BY <1>8 DEF Return, Acknowledged, AnsweredByAbort, Abort
  <2>2. \A pc \in {"done", "abort"} : pc \in CallerPcs /\ ~Locking([pc |-> pc, kind |-> caller[c].kind])
    BY DEF CallerPcs, Locking
  <2> QED BY <2>1, <2>2, MovedStays
<1>9. ASSUME Appended(c) PROVE WritersOK'
  <2>1. /\ UNCHANGED writers /\ caller'[c].pc = "wait"
        /\ \A d \in Callers : d # c => caller'[d] = caller[d]
    BY <1>9 DEF Appended, BridgeInv, BridgeTypes, CallerStates
  <2>2. ~Locking(caller'[c])
    BY <2>1 DEF Locking
  <2> QED BY <2>1, <2>2, WritersStay
<1> QED BY <1>1, <1>2, <1>3, <1>4, <1>5, <1>6, <1>7, <1>8, <1>9, QueueRejoined DEF CallerStep

LEMMA BridgeQueue == ASSUME BridgeInv, WritersOK, [BridgeNext]_bridgeVars PROVE WritersOK'
<1>1. ASSUME NEW c \in Callers, Begin(c) \/ BeginAppend(c) PROVE WritersOK'
  <2>1. /\ writers' = Append(writers, c) /\ caller'[c].pc = "lock"
        /\ \A d \in Callers : d # c => caller'[d] = caller[d]
    BY <1>1 DEF Begin, BeginAppend, MoveCaller, BridgeInv, BridgeTypes, CallerStates
  <2>2. ~Locking(caller'[c])
    BY <2>1 DEF Locking
  <2> QED BY <2>1, <2>2, QueueJoined
<1>2. ASSUME Environment \/ UNCHANGED bridgeVars PROVE WritersOK'
  <2>1. UNCHANGED <<writers, caller>>
    BY <1>2 DEF Environment, Answer, Garbage, Exit, RestartAllowed, UpdateEnvironment, Shutdown, bridgeVars
  <2> QED BY <2>1, WritersStay
<1> QED BY <1>1, <1>2, CallerQueue DEF BridgeNext

\* Only a request that is made and a cancellation become pending.
LEMMA RequestsStay == ASSUME BridgeInv, RequestsTyped, [BridgeNext]_bridgeVars PROVE RequestsTyped'
<1>1. ASSUME pending' \subseteq pending PROVE RequestsTyped'
  BY <1>1 DEF RequestsTyped
<1>2. ASSUME NEW g, NEW ps, NEW gone, ps \subseteq pending, ProtocolFailure(g, ps, gone)
      PROVE  RequestsTyped'
  BY <1>1, <1>2 DEF ProtocolFailure
<1>3. ASSUME NEW c \in Callers, StartRequest(c) PROVE RequestsTyped'
  <2> DEFINE started == Started([bridge EXCEPT !.reaping = 0])
             k == caller[c].kind
             new == [id |-> <<c, k>>, gen |-> started.gen]
  <2>1. started.gen \in 0 .. MaxGenerations
    BY <1>3, StartFacts DEF BridgeState
  <2>2. pending' \subseteq pending \cup {new}
    BY <1>3 DEF StartRequest
  <2>3. new.id = <<c, k>> /\ new.gen = started.gen
    OBVIOUS
  <2>4. <<c, k>> \in Requests
    BY DEF BridgeInv, BridgeTypes, CallerStates, Requests
  <2> HIDE DEF started, new, k
  <2> QED BY <2>1, <2>2, <2>3, <2>4 DEF RequestsTyped
<1>4. ASSUME NEW c \in Callers, GiveUp(c) PROVE RequestsTyped'
  <2> DEFINE new == [id |-> <<c, "cancel">>, gen |-> bridge.gen]
  <2>1. pending' = pending \cup {new} /\ new.id = <<c, "cancel">> /\ new.gen = bridge.gen
    BY <1>4 DEF GiveUp
  <2>2. <<c, "cancel">> \in Requests /\ bridge.gen \in 0 .. MaxGenerations
    BY DEF BridgeInv, BridgeTypes, BridgeState, Requests, RequestKinds
  <2> HIDE DEF new
  <2> QED BY <2>1, <2>2 DEF RequestsTyped
<1>5. ASSUME NEW c \in Callers, FailRequest(c) PROVE RequestsTyped'
  <2>1. {p \in pending : p.id # <<c, caller[c].kind>>} \subseteq pending
    OBVIOUS
  <2> QED BY <1>2, <1>5, <2>1 DEF FailRequest
<1>6. ASSUME NEW c \in Callers, Begin(c) \/ BeginAppend(c) \/ CallerStep(c) PROVE RequestsTyped'
  BY <1>1, <1>3, <1>4, <1>5, <1>6 DEF CallerStep, Begin, BeginAppend, RefuseRequest, LockForCancel,
     TakeStdin, FinishWrite, FailWrite, Return, Appended, Acknowledged, Abort, AnsweredByAbort
<1>7. ASSUME Environment \/ UNCHANGED bridgeVars PROVE RequestsTyped'
  BY <1>1, <1>2, <1>7 DEF Environment, Answer, Garbage, Exit, RestartAllowed, UpdateEnvironment,
     Shutdown, bridgeVars
<1> QED BY <1>6, <1>7 DEF BridgeNext

LEMMA FaultsStay ==
    ASSUME bridgeFaults \in 0 .. MaxBridgeFaults, [BridgeNext]_bridgeVars
    PROVE  bridgeFaults' \in 0 .. MaxBridgeFaults
<1>1. bridgeFaults' = bridgeFaults \/ BridgeFault
  BY DEF BridgeNext, CallerStep, Begin, BeginAppend, StartRequest, RefuseRequest, LockForCancel,
     TakeStdin, FinishWrite, FailWrite, FailRequest, Return, Appended, GiveUp, Acknowledged, Abort,
     AnsweredByAbort, Environment, Answer, Garbage, Exit, RestartAllowed, UpdateEnvironment, Shutdown,
     bridgeVars
<1> QED BY <1>1, BridgeAssumption DEF BridgeFault

LEMMA LockInvariant == BridgeSpec => []LockInv
<1>1. BridgeInit => LockInv
  BY BridgeAssumption DEF BridgeInit, LockInv, WritersOK, RequestsTyped, Locking
<1>2. BridgeInv /\ LockInv /\ [BridgeNext]_bridgeVars => LockInv'
  BY BridgeQueue, RequestsStay, FaultsStay DEF LockInv
<1> QED BY <1>1, <1>2, BridgeInvariant, PTL DEF BridgeSpec

(* A process never starts while one that was told to end may still run, nor *)
(* while a line is being written (provider/bridge.rs): whoever starts it    *)
(* holds the lock of the writers.                                          *)
THEOREM ProcessesTakeTurns == BridgeSpec => StartsAfterReap
<1> DEFINE Starts == \E g \in Gens : process[g] = "none" /\ process'[g] = "alive"
           Clear == /\ \A g \in Gens : process[g] # "dying"
                    /\ \A c \in Callers : caller[c].pc # "writing"
<1>1. ASSUME BridgeInv, LockInv, [BridgeNext]_bridgeVars PROVE [Starts => Clear]_bridgeVars
  <2>1. SUFFICES ASSUME Starts PROVE Clear
    OBVIOUS
  <2>2. PICK c \in Callers : StartRequest(c)
    BY <1>1, <2>1, OnlyRequestsStart
  <2>3. \A g \in Gens : process[g] # "dying"
    BY <1>1, <2>2, StartFacts
  <2>4. ASSUME NEW d \in Callers PROVE caller[d].pc # "writing"
    BY <1>1, <2>2 DEF StartRequest, Holds, LockInv, WritersOK, Locking
  <2> QED
    BY <2>3, <2>4
<1> QED
  BY <1>1, BridgeInvariant, LockInvariant, PTL DEF BridgeSpec, StartsAfterReap

(* The record of the bridge, its pending requests, channels, callers and   *)
(* the queue for its lock keep their types, for any callers and bounds.    *)
THEOREM BridgeTyped == BridgeSpec => []BridgeTypeOK
<1>1. BridgeInv /\ LockInv => BridgeTypeOK
  BY DEF BridgeInv, BridgeTypes, LockInv, WritersOK, RequestsTyped, BridgeTypeOK, Range
<1> QED BY <1>1, BridgeInvariant, LockInvariant, PTL

(* stdin is lent to one writer at a time (write_line_locked takes it out   *)
(* of the record): two callers never write at once, though a caller may    *)
(* drop the future of an append that has the lock and queue for it anew.   *)
OneWriter ==
    \A c, d \in Callers : caller[c].pc = "writing" /\ caller[d].pc = "writing" => c = d

(* One caller at a time writes to the standard input of the provider.     *)
THEOREM WritersTakeTurns == BridgeSpec => []OneWriter
<1>1. LockInv => OneWriter
  BY DEF LockInv, WritersOK, Locking, Holds, OneWriter
<1> QED BY <1>1, LockInvariant, PTL
==============================================================================
