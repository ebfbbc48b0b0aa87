---------------------------- MODULE BookingLedger ----------------------------
(***************************************************************************)
(* What the front desk promises about a booking, whatever statements,      *)
(* locks and failures it takes: a booking is made, its guest arrives once  *)
(* and leaves once, and a payment whose receipt is given has been summed   *)
(* up in the booking.  Every step is atomic here.                          *)
(***************************************************************************)
CONSTANTS Booking, Payment

VARIABLES
  stage,     \* how far a booking has come
  received,  \* the payments taken for a booking
  summed,    \* those that the booking's paid amount stands for
  receipts,  \* the payments the payer was given a receipt for
  greeted    \* the bookings whose check-in was confirmed to somebody

vars == <<stage, received, summed, receipts, greeted>>

Stage == {"none", "confirmed", "checked_in", "checked_out"}

Init ==
  /\ stage = [b \in Booking |-> "none"]
  /\ received = [b \in Booking |-> {}]
  /\ summed = [b \in Booking |-> {}]
  /\ receipts = {}
  /\ greeted = {}

Move(b, from, to) ==
  /\ stage[b] = from
  /\ stage' = [stage EXCEPT ![b] = to]
  /\ UNCHANGED <<received, summed, receipts>>

Book(b)     == Move(b, "none", "confirmed") /\ UNCHANGED greeted
WalkIn(b)   == Move(b, "none", "checked_in") /\ UNCHANGED greeted
CheckOut(b) == Move(b, "checked_in", "checked_out") /\ UNCHANGED greeted

(* Only the confirmed guest is checked in, so greeted is set once.         *)
CheckIn(b) ==
  /\ Move(b, "confirmed", "checked_in")
  /\ b \notin greeted
  /\ greeted' \in {greeted, greeted \cup {b}}

Receive(b, p) ==
  /\ stage[b] # "none"
  /\ \A c \in Booking : p \notin received[c]
  /\ received' = [received EXCEPT ![b] = @ \cup {p}]
  /\ UNCHANGED <<stage, summed, receipts, greeted>>

(* Payment p may be given its receipt once the sum includes it.            *)
SumUp(b, p) ==
  /\ p \in received[b]
  /\ summed' = [summed EXCEPT ![b] = received[b]]
  /\ receipts' \in {receipts, receipts \cup {p}}
  /\ UNCHANGED <<stage, received, greeted>>

Next ==
  \E b \in Booking :
    \/ Book(b) \/ WalkIn(b) \/ CheckIn(b) \/ CheckOut(b)
    \/ \E p \in Payment : Receive(b, p) \/ SumUp(b, p)

Spec == Init /\ [][Next]_vars
=============================================================================
