------------------------------ MODULE MCUserTurn ------------------------------
(***************************************************************************)
(* The small instances of UserTurn that TLC checks. Two messages are the   *)
(* smallest queue with an order and a batch; three are the smallest in     *)
(* which a message that was withdrawn is quoted while a running operation  *)
(* is still being added to.                                                *)
(***************************************************************************)
EXTENDS UserTurn

TwoMessages == 2
ThreeMessages == 3

\* MAX_USER_RESPONSE_ATTEMPTS, as in the code.
CodeAttempts == 2
=============================================================================
