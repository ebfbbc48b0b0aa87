--------------------------- MODULE FrontDeskClaims ---------------------------
(***************************************************************************)
(* What the repository's documents and comments say of the front desk and  *)
(* its code does not do.  Each statement is refuted by a run in which no   *)
(* statement fails (Faults = FALSE), so what refutes it is the code alone. *)
(***************************************************************************)
EXTENDS FrontDesk

(* MVP-API-Testing.md:311, "Auto-trigger cleaning tasks on checkout": a    *)
(* completeCheckOut that found its guest checked in is not refused.        *)
CheckOutIsCompleted ==
  [][\A q \in Request : pc[q] \in {"soil", "task"} => pc'[q] # "failed"]_vars

(* bookings.service.ts:242, "Validate amount to prevent overflow": once a  *)
(* payment has been validated, summing it up does not overflow.            *)
ValidatedPaymentIsSummarised ==
  [][\A q \in Request : pc[q] = "summarise" => pc'[q] # "failed"]_vars

(* checkin.service.ts:33, "Update room status to occupied": at an          *)
(* acknowledged check-in of a booking whose create was acknowledged too,   *)
(* the booking's room becomes occupied.                                    *)
CheckInOccupiesTheRoom ==
  [][\A q \in Request :
       LET b   == call[q].booking
           row == bookings[b]
           r   == IF row.room # NULL THEN row.room ELSE row.assigned IN
       pc[q] = "commitIn" /\ pc'[q] = "ok" /\ pc[b] = "ok" /\ rooms[r] # NULL
         => rooms'[r] = "occupied"]_vars

(* checkin.service.ts:226, "Record Payment if any", and                    *)
(* MVP-API-Testing.md:312, "Centralized payment ledger": a further payment *)
(* that is not negative does not lower the amount paid for a booking.      *)
FurtherPaymentAddsUp ==
  [][\A q \in Request :
       LET b == call[q].booking IN
       /\ pc[q] = "summarise" /\ pc'[q] = "ok"
       /\ bookings[b].paid # NULL
       /\ call[q].amount >= 0
       => bookings'[b].paid >= bookings[b].paid]_vars

(* MVP-API-Testing.md:189, "Check Availability" for given dates: a room    *)
(* that is offered has no acknowledged booking that overlaps the dates.    *)
OfferedRoomIsFree ==
  [][\A q \in Request : \A r \in offered'[q] \ offered[q] : \A b \in Request :
       ~ /\ pc[b] = "ok"
         /\ bookings[b] # NULL
         /\ bookings[b].status \in {"confirmed", "checked_in"}
         /\ bookings[b].assigned = r
         /\ Overlap(bookings[b].stay, call[q].stay)]_vars
=============================================================================
