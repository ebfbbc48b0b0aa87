----------------------------- MODULE MCFrontDesk -----------------------------
(* Small instances of FrontDesk: the bodies the clients may send, and the  *)
(* symmetry of the requests and of the rooms, which are all alike.         *)
EXTENDS FrontDeskClaims, TLC

OneNight == <<0, 1>>

Create(r, total, advance, body, newGuest) ==
  [op |-> "create", room |-> r, stay |-> OneNight, total |-> total,
   advance |-> advance, newGuest |-> newGuest, body |-> body]
Quick(r, total, paid, newGuest) ==
  [op |-> "quickCheckIn", room |-> r, stay |-> OneNight, total |-> total,
   paid |-> paid, newGuest |-> newGuest]

(* A booking worth 2 and payments, of which two may exceed MaxAmount = 2.  *)
PaymentBodies ==
  {Create(r, 2, FALSE, "ok", FALSE) : r \in Room}
    \cup {Quick(r, 2, 1, FALSE) : r \in Room}
    \cup [op: {"recordPayment"}, booking: Request, amount: {-1, 1, 2}]
    \cup [op: {"completeCheckOut"}, booking: Request, total: {1}]

(* Everything that moves a booking or a room.                              *)
StayBodies ==
  {Create(r, 1, a, "ok", FALSE) : r \in Room, a \in BOOLEAN}
    \cup {Quick(r, 1, 1, TRUE) : r \in Room}
    \cup CheckInCall
    \cup [op: {"completeCheckOut"}, booking: Request, total: {2}]
    \cup [op: {"updateStatus"}, room: Room, status: {"available"}]

(* Every handler, with bodies that each of its checks and columns refuses. *)
HandlerBodies ==
  {Create(r, 1, FALSE, body, TRUE) :
     r \in Room, body \in {"ok", "badDates", "badGuest", "badRow"}}
    \cup {Quick(r, 1, 0, TRUE) : r \in Room}
    \cup [op: {"recordPayment"}, booking: Request, amount: {-3, 1, 3}]
    \cup CheckInCall
    \cup [op: {"completeCheckOut"}, booking: Request, total: {1}]
    \cup [op: {"calculateBill"}, booking: Request, charge: {0, 1}]
    \cup [op: {"updateStatus"}, room: Room, status: {"dirty"}]
    \cup [op: {"checkAvailability"}, stay: {OneNight}]

(* One body for each handler that waits for a lock or holds one.           *)
LockBodies ==
  {Create(r, 1, TRUE, "ok", FALSE) : r \in Room}
    \cup {Quick(r, 1, 1, FALSE) : r \in Room}
    \cup [op: {"recordPayment"}, booking: Request, amount: {1}]
    \cup CheckInCall
    \cup [op: {"completeCheckOut"}, booking: Request, total: {1}]
    \cup [op: {"updateStatus"}, room: Room, status: {"available"}]

(* Payments that are not negative, with a walk-in that pays at once.       *)
PayingBodies ==
  {Create(r, 2, FALSE, "ok", FALSE) : r \in Room}
    \cup {Quick(r, 2, 2, FALSE) : r \in Room}
    \cup [op: {"recordPayment"}, booking: Request, amount: {1, 2}]

(* Bookings, a room that the staff frees again, and searches for a room.   *)
SearchBodies ==
  {Create(r, 1, TRUE, "ok", FALSE) : r \in Room}
    \cup [op: {"updateStatus"}, room: Room, status: {"available"}]
    \cup [op: {"checkAvailability"}, stay: {OneNight}]

Symmetry == Permutations(Request) \cup Permutations(Room)
=============================================================================
