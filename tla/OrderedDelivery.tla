--------------------------- MODULE OrderedDelivery ---------------------------
(***************************************************************************)
(* What a message queue promises its callers: messages are submitted, one  *)
(* or several at a time, and each is delivered exactly once, in the order  *)
(* of submission.  The n-th message submitted is the number n.             *)
(***************************************************************************)
EXTENDS Naturals, Sequences

VARIABLES submitted,  \* how many messages have been submitted
          delivered   \* the messages delivered, in the order of delivery

vars == <<submitted, delivered>>

Init == submitted = 0 /\ delivered = <<>>

Submit == /\ submitted' \in Nat
          /\ submitted' >= submitted
          /\ UNCHANGED delivered

Deliver == /\ Len(delivered) < submitted
           /\ delivered' = Append(delivered, Len(delivered) + 1)
           /\ UNCHANGED submitted

Next == Submit \/ Deliver

Spec == Init /\ [][Next]_vars
=============================================================================
