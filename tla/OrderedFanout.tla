---------------------------- MODULE OrderedFanout ----------------------------
(***************************************************************************)
(* What the remark pipeline promises (RemarkDelivery shows that it keeps   *)
(* it): every item sent reaches every receiver in the order of the items,  *)
(* each receiver takes its items in that order, and an item a receiver has *)
(* settled (accepted or thrown away) is never shown to it again, however   *)
(* often the receiver stops with items in hand and takes them anew.        *)
(***************************************************************************)
EXTENDS Naturals

CONSTANTS Items,      \* positive numbers, in the order they are sent
          Receivers

VARIABLES
    sent,       \* items handed over for delivery
    arrived,    \* <<receiver, item>> pairs that were delivered
    held,       \* pairs a receiver has taken and not settled
    settled,    \* pairs that are over
    showing     \* receiver -> the item it is showing, or 0

fanout == <<sent, arrived, held, settled, showing>>

Init ==
    /\ sent = {} /\ arrived = {} /\ held = {} /\ settled = {}
    /\ showing = [r \in Receivers |-> 0]

Send(m) ==
    /\ m \notin sent
    /\ sent' = sent \cup {m}
    /\ UNCHANGED <<arrived, held, settled, showing>>

\* Nothing overtakes an item that was sent and has not arrived.
Arrive(r, m) ==
    /\ m \in sent
    /\ \A k \in sent : k < m => <<r, k>> \in arrived
    /\ arrived' = arrived \cup {<<r, m>>}
    /\ UNCHANGED <<sent, held, settled, showing>>

Take(r, m) ==
    /\ <<r, m>> \in arrived \ settled
    /\ \A k \in Items : k < m /\ <<r, k>> \in arrived => <<r, k>> \in held \cup settled
    /\ held' = held \cup {<<r, m>>}
    /\ UNCHANGED <<sent, arrived, settled, showing>>

Show(r, m) ==
    /\ <<r, m>> \in held \ settled /\ showing[r] = 0
    /\ showing' = [showing EXCEPT ![r] = m]
    /\ UNCHANGED <<sent, arrived, held, settled>>

\* Accepted after it was shown, or thrown away.
Settle(r, m) ==
    /\ <<r, m>> \in held /\ showing[r] \in {0, m}
    /\ settled' = settled \cup {<<r, m>>}
    /\ held' = held \ {<<r, m>>}
    /\ showing' = [showing EXCEPT ![r] = 0]
    /\ UNCHANGED <<sent, arrived>>

\* A receiver looks away from what it shows and keeps it in hand ...
LookAway(S) ==
    /\ showing' = [r \in Receivers |-> IF r \in S THEN 0 ELSE showing[r]]
    /\ UNCHANGED <<sent, arrived, held, settled>>

\* ... or puts back what it has in hand.
PutBack(r, S) ==
    /\ held' = held \ ({r} \X S)
    /\ showing' = [showing EXCEPT ![r] = 0]
    /\ UNCHANGED <<sent, arrived, settled>>

Next ==
    \/ \E m \in Items : Send(m)
    \/ \E r \in Receivers, m \in Items :
           Arrive(r, m) \/ Take(r, m) \/ Show(r, m) \/ Settle(r, m)
    \/ \E S \in SUBSET Receivers : LookAway(S)
    \/ \E r \in Receivers, S \in SUBSET Items : PutBack(r, S)

Spec == Init /\ [][Next]_fanout
=============================================================================
