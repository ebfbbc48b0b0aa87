------------------------------ MODULE FrontDesk ------------------------------
(***************************************************************************)
(* The hotel front desk: BookingsService and CheckinService working on the *)
(* rooms, bookings, guests, booking_payments and booking_charges tables.   *)
(*                                                                         *)
(* A request is one HTTP call.  The Node.js process serves many at a time  *)
(* and yields at every await, so requests interleave between any two of    *)
(* their SQL statements; one action is one statement together with the     *)
(* JavaScript that follows it.  BookingsService runs each statement as a   *)
(* transaction of its own (SqlServerService.query), CheckinService runs    *)
(* all of a request's statements in one (SqlServerService.transaction).    *)
(*                                                                         *)
(* The tables below hold what is committed.  What an open transaction has  *)
(* written stays with its request until the commit, and the row it wrote   *)
(* is locked until then: at SQL Server's default isolation level, READ     *)
(* COMMITTED with locks, a statement that needs the row waits.             *)
(*                                                                         *)
(* A row is named by the request that inserts it, because an IDENTITY key  *)
(* is never given out twice and no handler inserts two rows in a table.    *)
(***************************************************************************)
EXTENDS Integers, FiniteSets

CONSTANTS
  Request,       \* the HTTP requests, and the rows they insert
  Room,          \* primary keys a request may name as a room
  Call,          \* what the clients may ask for, see Body
  MaxAmount,     \* the largest value of a decimal(10, 2) column
  CheckInSchema, \* TRUE: table.sql plus the columns, tables and defaults that
                 \* checkin.service.ts relies on; FALSE: table.sql as it is
  Faults,        \* whether a statement or its answer may be lost
  NULL           \* SQL's NULL, and a row that does not exist

BookingStatus == {"confirmed", "pending", "active", "checked_in", "checked_out"}

RoomStatus == {"available", "advance", "occupied", "dirty", "maintenance"}

(* The bodies of the requests, one kind of record for each handler.  The   *)
(* body of a create is "ok", or fails a check of the handler ("badDates"), *)
(* or a NOT NULL column of guests ("badGuest") or of bookings ("badRow").  *)
CreateCall ==
  [op: {"create"}, room: Room, stay: Int \X Int, total: Int, advance: BOOLEAN,
   newGuest: BOOLEAN, body: {"ok", "badDates", "badGuest", "badRow"}]
PaymentCall  == [op: {"recordPayment"}, booking: Request, amount: Int]
CheckInCall  == [op: {"completeCheckIn"}, booking: Request]
CheckOutCall == [op: {"completeCheckOut"}, booking: Request, total: Int]
QuickCall ==
  [op: {"quickCheckIn"}, room: Room, stay: Int \X Int, total: Int, paid: Int,
   newGuest: BOOLEAN]
BillCall   == [op: {"calculateBill"}, booking: Request, charge: Int]
StatusCall == [op: {"updateStatus"}, room: Room, status: RoomStatus]
SearchCall == [op: {"checkAvailability"}, stay: Int \X Int]

Body == CreateCall \cup PaymentCall \cup CheckInCall \cup CheckOutCall
          \cup QuickCall \cup BillCall \cup StatusCall \cup SearchCall

BookingRow ==
  [status: BookingStatus, assigned: Room \cup {NULL}, room: Room \cup {NULL},
   stay: Int \X Int, total: Int, paid: Int \cup {NULL},
   payment: {"paid", "partial", "pending", NULL}]

ASSUME FrontDeskAssumption ==
  /\ Call \subseteq Body
  /\ MaxAmount \in Nat
  /\ CheckInSchema \in BOOLEAN
  /\ Faults \in BOOLEAN
  /\ NULL \notin Request
  /\ NULL \notin Room
  /\ NULL \notin Int
  /\ NULL \notin RoomStatus
  /\ NULL \notin Body
  /\ NULL \notin BookingRow
-----------------------------------------------------------------------------
VARIABLES
  rooms,        \* rooms.status, NULL when there is no such room
  bookings,     \* the bookings rows
  guests,       \* the guests rows that requests inserted
  history,      \* booking_payments: the rows of a booking and their SUM(amount)
  charges,      \* the booking_charges rows
  bookingLock,  \* the request whose open transaction has locked a bookings row
  roomLock,     \* the same for a rooms row
  pc,           \* the statement a request executes next, or its answer
  call,         \* what a request asks for
  firm,         \* create: whether firmId was found
  offered,      \* checkAvailability: the rooms in the answer
  counted       \* history variable: the payments that paid_amount sums up

tables == <<rooms, bookings, guests, history, charges>>
locks  == <<bookingLock, roomLock>>
vars   == <<tables, locks, pc, call, firm, offered, counted>>

(* Slips: each definition named ...Slip is its neighbour with a plausible  *)
(* mistake in the code, and shows that a property would notice it.  Here   *)
(* the route of the check-out calls the wrong handler.                     *)
FirstStepSlip ==
  [create |-> "locate", recordPayment |-> "verify", completeCheckIn |-> "claim",
   completeCheckOut |-> "claim", quickCheckIn |-> "register",
   calculateBill |-> "bill", updateStatus |-> "setStatus",
   checkAvailability |-> "search"]

FirstStep ==
  [create |-> "locate", recordPayment |-> "verify", completeCheckIn |-> "claim",
   completeCheckOut |-> "close", quickCheckIn |-> "register",
   calculateBill |-> "bill", updateStatus |-> "setStatus",
   checkAvailability |-> "search"]

Step ==
  {"locate", "guest", "insert", "mark", "verify", "record", "summarise", "claim",
   "occupy", "commitIn", "close", "soil", "task", "register", "seat",
   "commitQuick", "bill", "charge", "setStatus", "search"}

Answered(q) == pc[q] \in {"ok", "failed"}

Init ==
  /\ rooms \in [Room -> {"available", NULL}]
  /\ bookings = [b \in Request |-> NULL]
  /\ guests = {}
  /\ history = [b \in Request |-> [rows |-> {}, sum |-> 0]]
  /\ charges = {}
  /\ bookingLock = [b \in Request |-> NULL]
  /\ roomLock = [r \in Room |-> NULL]
  /\ pc = [q \in Request |-> "idle"]
  /\ call = [q \in Request |-> NULL]
  /\ firm = [q \in Request |-> FALSE]
  /\ offered = [q \in Request |-> {}]
  /\ counted = [b \in Request |-> {}]
-----------------------------------------------------------------------------
(* What the actions share.                                                 *)

(* Whether a decimal(10, 2) column can hold x; writing more is error 8115. *)
Fits(x) == x \in -MaxAmount .. MaxAmount

(* Slip: the statement reads past the locks (WITH (NOLOCK)).               *)
RowFreeSlip(lock, x) == TRUE

(* A statement that reads or writes row x can run: nobody has locked it.   *)
RowFree(lock, x) == lock[x] = NULL

(* Slip: the transaction is neither committed nor rolled back.             *)
ReleaseSlip(lock, q) == lock

(* COMMIT and ROLLBACK give back every row lock of the transaction.        *)
Release(lock, q) == [x \in DOMAIN lock |-> IF lock[x] = q THEN NULL ELSE lock[x]]

Goto(q, step) == pc' = [pc EXCEPT ![q] = step]

(* The last statement is done; its answer, or the handler's, may be lost.  *)
Reply(q) == \/ Goto(q, "ok")
            \/ Faults /\ Goto(q, "failed")

(* The handler throws.  In a transaction the catch block rolls back.       *)
Abort(q) ==
  /\ Goto(q, "failed")
  /\ bookingLock' = Release(bookingLock, q)
  /\ roomLock' = Release(roomLock, q)
  /\ UNCHANGED <<tables, call, firm, offered, counted>>

Arrive(q) ==
  /\ pc[q] = "idle"
  /\ \E c \in Call : /\ call' = [call EXCEPT ![q] = c]
                     /\ Goto(q, FirstStep[c.op])
  /\ UNCHANGED <<tables, locks, firm, offered, counted>>

(* A statement of an unanswered request fails: a time-out, a lost          *)
(* connection or a crash of the process.  Nothing later of it runs.        *)
Fail(q) ==
  /\ Faults
  /\ pc[q] \in Step
  /\ Abort(q)
-----------------------------------------------------------------------------
(* BookingsService.create: up to four statements, each its own transaction.*)

(* firm_id and branch_id come from the room, else from the token or from   *)
(* the tenant's first active firm, of which there may be none.             *)
CreateLocate(q) ==
  /\ pc[q] = "locate"
  /\ RowFree(roomLock, call[q].room)
  /\ \E found \in BOOLEAN : /\ rooms[call[q].room] # NULL => found
                            /\ firm' = [firm EXCEPT ![q] = found]
  /\ Goto(q, IF call[q].newGuest THEN "guest" ELSE "insert")
  /\ UNCHANGED <<tables, locks, call, offered, counted>>

(* The guest is committed before the dates and the firm are looked at.     *)
CreateGuest(q) ==
  /\ pc[q] = "guest"
  /\ IF call[q].body = "badGuest"
     THEN Abort(q)
     ELSE /\ guests' = guests \cup {q}
          /\ Goto(q, "insert")
          /\ UNCHANGED <<rooms, bookings, history, charges, locks, call, firm,
                         offered, counted>>

(* The dates are valid, a firm is known and the row satisfies the table.   *)
Bookable(q) ==
  /\ call[q].body # "badDates"
  /\ firm[q]
  /\ call[q].body # "badRow"
  /\ Fits(call[q].total)

(* Nothing asks whether the room exists or is free.                        *)
NewBooking(c) ==
  [status |-> "confirmed", assigned |-> c.room, room |-> NULL, stay |-> c.stay,
   total |-> c.total, paid |-> NULL, payment |-> NULL]

CreateInsert(q) ==
  /\ pc[q] = "insert"
  /\ IF Bookable(q)
     THEN /\ bookings' = [bookings EXCEPT ![q] = NewBooking(call[q])]
          /\ Goto(q, "mark")
          /\ UNCHANGED <<rooms, guests, history, charges, locks, call, firm,
                         offered, counted>>
     ELSE Abort(q)

(* UPDATE rooms SET status = s WHERE id = r, which may match no row.       *)
WithStatus(r, s) ==
  IF rooms[r] = NULL THEN rooms ELSE [rooms EXCEPT ![r] = s]

CreateMark(q) ==
  /\ pc[q] = "mark"
  /\ RowFree(roomLock, call[q].room)
  /\ rooms' = WithStatus(call[q].room,
                         IF call[q].advance THEN "advance" ELSE "occupied")
  /\ Reply(q)
  /\ UNCHANGED <<bookings, guests, history, charges, locks, call, firm, offered,
                 counted>>
-----------------------------------------------------------------------------
(* BookingsService.recordPayment: three statements, each its own           *)
(* transaction.  Only an upper limit is set to the amount.                 *)

PaymentVerify(q) ==
  LET b == call[q].booking IN
  /\ pc[q] = "verify"
  /\ IF call[q].amount > MaxAmount
     THEN Abort(q)
     ELSE /\ RowFree(bookingLock, b)
          /\ IF bookings[b] = NULL
             THEN Abort(q)
             ELSE /\ Goto(q, "record")
                  /\ UNCHANGED <<tables, locks, call, firm, offered, counted>>

(* Slip: the summary's UPDATE is not awaited, and the answer comes first.  *)
PaymentRecordSlip(q) ==
  LET b == call[q].booking IN
  /\ pc[q] = "record"
  /\ history' = [history EXCEPT ![b] = [rows |-> @.rows \cup {q},
                                        sum  |-> @.sum + call[q].amount]]
  /\ Reply(q)
  /\ UNCHANGED <<rooms, bookings, guests, charges, locks, call, firm, offered,
                 counted>>

PaymentRecord(q) ==
  LET b == call[q].booking IN
  /\ pc[q] = "record"
  /\ IF Fits(call[q].amount)
     THEN /\ history' = [history EXCEPT ![b] =
                           [rows |-> @.rows \cup {q},
                            sum  |-> @.sum + call[q].amount]]
          /\ Goto(q, "summarise")
          /\ UNCHANGED <<rooms, bookings, guests, charges, locks, call, firm,
                         offered, counted>>
     ELSE Abort(q)

(* Slip: a payment of exactly the total does not count as paid.            *)
SummaryStatusSlip(sum, total) ==
  IF sum > total THEN "paid" ELSE IF sum > 0 THEN "partial" ELSE "pending"

(* The CASE expression that compares the history's sum with the total.     *)
SummaryStatus(sum, total) ==
  IF sum >= total THEN "paid" ELSE IF sum > 0 THEN "partial" ELSE "pending"

(* The UPDATE writes the sum of every payment of the booking so far.       *)
PaymentSummarise(q) ==
  LET b == call[q].booking  sum == history[b].sum IN
  /\ pc[q] = "summarise"
  /\ RowFree(bookingLock, b)
  /\ IF Fits(sum)
     THEN /\ bookings' = [bookings EXCEPT
                            ![b].paid = sum,
                            ![b].payment = SummaryStatus(sum, bookings[b].total)]
          /\ counted' = [counted EXCEPT ![b] = history[b].rows]
          /\ Reply(q)
          /\ UNCHANGED <<rooms, guests, history, charges, locks, call, firm,
                         offered>>
     ELSE Abort(q)
-----------------------------------------------------------------------------
(* CheckinService.completeCheckIn: one transaction.                        *)

(* Slip: the UPDATE has no condition on booking_status.                    *)
CanCheckInSlip(row) == row # NULL

CanCheckIn(row) == row # NULL /\ row.status \in {"confirmed", "pending", "active"}

(* The conditional UPDATE locks the booking, or matches nothing: throw.    *)
CheckInClaim(q) ==
  LET b == call[q].booking IN
  /\ pc[q] = "claim"
  /\ IF ~CheckInSchema
     THEN Abort(q)
     ELSE /\ RowFree(bookingLock, b)
          /\ IF CanCheckIn(bookings[b])
             THEN /\ bookingLock' = [bookingLock EXCEPT ![b] = q]
                  /\ Goto(q, "occupy")
                  /\ UNCHANGED <<tables, roomLock, call, firm, offered, counted>>
             ELSE Abort(q)

(* An UPDATE rooms inside a transaction, the row named by room_id: NULL or *)
(* a key that no row has matches nothing.                                  *)
LockRoom(q, r, next) ==
  /\ IF r = NULL
     THEN UNCHANGED roomLock
     ELSE /\ RowFree(roomLock, r)
          /\ roomLock' = IF rooms[r] = NULL THEN roomLock
                                            ELSE [roomLock EXCEPT ![r] = q]
  /\ Goto(q, next)
  /\ UNCHANGED <<tables, bookingLock, call, firm, offered, counted>>

(* Slip: the answer does not wait for the commit.                          *)
CheckInOccupySlip(q) ==
  /\ pc[q] = "occupy"
  /\ LockRoom(q, bookings[call[q].booking].room, "ok")

CheckInOccupy(q) ==
  /\ pc[q] = "occupy"
  /\ LockRoom(q, bookings[call[q].booking].room, "commitIn")

(* Slip: the UPDATE rooms is forgotten.                                    *)
CommitRoomsSlip(q, s) == UNCHANGED rooms

(* At COMMIT the room rows that q has locked get status s.                 *)
CommitRooms(q, s) ==
  rooms' = [r \in Room |-> IF roomLock[r] = q THEN s ELSE rooms[r]]

CheckInCommit(q) ==
  /\ pc[q] = "commitIn"
  /\ bookings' = [bookings EXCEPT ![call[q].booking].status = "checked_in"]
  /\ CommitRooms(q, "occupied")
  /\ bookingLock' = Release(bookingLock, q)
  /\ roomLock' = Release(roomLock, q)
  /\ Reply(q)
  /\ UNCHANGED <<guests, history, charges, call, firm, offered, counted>>
-----------------------------------------------------------------------------
(* CheckinService.completeCheckOut: one transaction, in which the booking  *)
(* becomes 'checked_out' and the room 'dirty'.                             *)

CanCheckOut(row) == row # NULL /\ row.status = "checked_in"

(* Slip: the final amount is saved by a statement on the pool, and the     *)
(* status is left to the transaction.                                      *)
CheckOutCloseSlip(q) ==
  LET b == call[q].booking IN
  /\ pc[q] = "close"
  /\ RowFree(bookingLock, b)
  /\ CanCheckOut(bookings[b])
  /\ bookings' = [bookings EXCEPT ![b].total = call[q].total]
  /\ Goto(q, "soil")
  /\ UNCHANGED <<rooms, guests, history, charges, locks, call, firm, offered,
                 counted>>

CheckOutClose(q) ==
  LET b == call[q].booking IN
  /\ pc[q] = "close"
  /\ IF ~CheckInSchema
     THEN Abort(q)
     ELSE /\ RowFree(bookingLock, b)
          /\ IF CanCheckOut(bookings[b]) /\ Fits(call[q].total)
             THEN /\ bookingLock' = [bookingLock EXCEPT ![b] = q]
                  /\ Goto(q, "soil")
                  /\ UNCHANGED <<tables, roomLock, call, firm, offered, counted>>
             ELSE Abort(q)

CheckOutSoil(q) ==
  /\ pc[q] = "soil"
  /\ LockRoom(q, bookings[call[q].booking].room, "task")

(* The INSERT into housekeeping_tasks uses @tenant_id, @hotel_id, @room_id *)
(* but the request declares tenantId, hotelId, roomId: error 137 in any    *)
(* schema, so the transaction is rolled back and never committed.          *)
CheckOutTask(q) ==
  /\ pc[q] = "task"
  /\ Abort(q)
-----------------------------------------------------------------------------
(* CheckinService.quickCheckIn: one transaction that inserts a guest if    *)
(* needed, a booking, perhaps a charge, and marks the room.  Its new rows  *)
(* carry the request's name and nobody sees them before the commit.        *)

(* The guest, the room's hotel_id, which has to wait for the room's lock,  *)
(* and the booking, whose new row is locked.                               *)
QuickRegister(q) ==
  /\ pc[q] = "register"
  /\ IF ~CheckInSchema
     THEN Abort(q)
     ELSE /\ RowFree(roomLock, call[q].room)
          /\ IF Fits(call[q].total) /\ Fits(call[q].paid)
             THEN /\ bookingLock' = [bookingLock EXCEPT ![q] = q]
                  /\ Goto(q, "seat")
                  /\ UNCHANGED <<tables, roomLock, call, firm, offered, counted>>
             ELSE Abort(q)

(* Slip: the charge is inserted on the pool instead of the transaction.    *)
QuickSeatSlip(q) ==
  /\ pc[q] = "seat"
  /\ RowFree(roomLock, call[q].room)
  /\ charges' = charges \cup {q}
  /\ Goto(q, "commitQuick")
  /\ UNCHANGED <<rooms, bookings, guests, history, locks, call, firm, offered,
                 counted>>

QuickSeat(q) ==
  /\ pc[q] = "seat"
  /\ LockRoom(q, call[q].room, "commitQuick")

(* The new booking holds the amount paid, and no payment row stands for it.*)
WalkIn(c) ==
  [status |-> "checked_in", assigned |-> NULL, room |-> c.room, stay |-> c.stay,
   total |-> c.total, paid |-> c.paid,
   payment |-> IF c.paid >= c.total THEN "paid" ELSE "partial"]

QuickCommit(q) ==
  LET c == call[q] IN
  /\ pc[q] = "commitQuick"
  /\ bookings' = [bookings EXCEPT ![q] = WalkIn(c)]
  /\ guests'  = IF c.newGuest THEN guests \cup {q} ELSE guests
  /\ charges' = IF c.paid > 0 THEN charges \cup {q} ELSE charges
  /\ CommitRooms(q, "occupied")
  /\ bookingLock' = Release(bookingLock, q)
  /\ roomLock' = Release(roomLock, q)
  /\ Reply(q)
  /\ UNCHANGED <<history, call, firm, offered, counted>>
-----------------------------------------------------------------------------
(* CheckinService.calculateBill, RoomsService.updateStatus and             *)
(* BookingsService.checkAvailability.                                      *)

(* The join with rooms drops a booking whose room_id is NULL.              *)
HasBill(b) ==
  bookings[b] # NULL /\ bookings[b].room # NULL /\ rooms[bookings[b].room] # NULL

BillRead(q) ==
  LET b == call[q].booking IN
  /\ pc[q] = "bill"
  /\ IF ~CheckInSchema
     THEN Abort(q)
     ELSE /\ RowFree(bookingLock, b)
          /\ HasBill(b) => RowFree(roomLock, bookings[b].room)
          /\ IF HasBill(b)
             THEN /\ IF call[q].charge = 0 THEN Reply(q) ELSE Goto(q, "charge")
                  /\ UNCHANGED <<tables, locks, call, firm, offered, counted>>
             ELSE Abort(q)

BillCharge(q) ==
  /\ pc[q] = "charge"
  /\ IF Fits(call[q].charge)
     THEN /\ charges' = charges \cup {q}
          /\ Reply(q)
          /\ UNCHANGED <<rooms, bookings, guests, history, locks, call, firm,
                         offered, counted>>
     ELSE Abort(q)

(* updateStatus, and updateRoom when its body names a status.              *)
SetStatus(q) ==
  /\ pc[q] = "setStatus"
  /\ RowFree(roomLock, call[q].room)
  /\ rooms' = WithStatus(call[q].room, call[q].status)
  /\ Reply(q)
  /\ UNCHANGED <<bookings, guests, history, charges, locks, call, firm, offered,
                 counted>>

Overlap(s, t) == ~(s[2] <= t[1] \/ s[1] >= t[2])

(* The subquery's rows for a room.  bookings has no column status, so the  *)
(* unqualified status in it is that of the room in the outer query.        *)
TakenBy(r, b, stay) ==
  /\ rooms[r] \in {"confirmed", "checked_in"}
  /\ bookings[b] # NULL
  /\ bookings[b].assigned = r
  /\ Overlap(bookings[b].stay, stay)

(* A room row that is locked makes the search wait.  It may also wait for  *)
(* locked bookings, if the plan reads them; not waiting allows more.       *)
Search(q) ==
  /\ pc[q] = "search"
  /\ \A r \in Room : RowFree(roomLock, r)
  /\ offered' = [offered EXCEPT ![q] =
       {r \in Room : /\ rooms[r] = "available"
                     /\ ~\E b \in Request : TakenBy(r, b, call[q].stay)}]
  /\ Reply(q)
  /\ UNCHANGED <<tables, locks, call, firm, counted>>
-----------------------------------------------------------------------------
Execute(q) ==
  \/ CreateLocate(q) \/ CreateGuest(q) \/ CreateInsert(q) \/ CreateMark(q)
  \/ PaymentVerify(q) \/ PaymentRecord(q) \/ PaymentSummarise(q)
  \/ CheckInClaim(q) \/ CheckInOccupy(q) \/ CheckInCommit(q)
  \/ CheckOutClose(q) \/ CheckOutSoil(q) \/ CheckOutTask(q)
  \/ QuickRegister(q) \/ QuickSeat(q) \/ QuickCommit(q)
  \/ BillRead(q) \/ BillCharge(q) \/ SetStatus(q) \/ Search(q)

(* Every request has its answer: the one state in which nothing is left.   *)
Quiescent == (\A q \in Request : Answered(q)) /\ UNCHANGED vars

Next == (\E q \in Request : Arrive(q) \/ Execute(q) \/ Fail(q)) \/ Quiescent

(* The event loop runs every continuation, and SQL Server every statement  *)
(* whose rows are not locked.  No client has to send a request.            *)
Fairness == \A q \in Request : WF_vars(Execute(q))

Spec == Init /\ [][Next]_vars /\ Fairness
-----------------------------------------------------------------------------
(* Properties.                                                             *)

(* Types, and that a request is at a statement of the handler it called.   *)
StepsOf ==
  [create |-> {"locate", "guest", "insert", "mark"},
   recordPayment |-> {"verify", "record", "summarise"},
   completeCheckIn |-> {"claim", "occupy", "commitIn"},
   completeCheckOut |-> {"close", "soil", "task"},
   quickCheckIn |-> {"register", "seat", "commitQuick"},
   calculateBill |-> {"bill", "charge"},
   updateStatus |-> {"setStatus"},
   checkAvailability |-> {"search"}]

TypeOK ==
  /\ rooms \in [Room -> RoomStatus \cup {NULL}]
  /\ bookings \in [Request -> BookingRow \cup {NULL}]
  /\ guests \subseteq Request
  /\ history \in [Request -> [rows: SUBSET Request, sum: Int]]
  /\ charges \subseteq Request
  /\ bookingLock \in [Request -> Request \cup {NULL}]
  /\ roomLock \in [Room -> Request \cup {NULL}]
  /\ pc \in [Request -> Step \cup {"idle", "ok", "failed"}]
  /\ call \in [Request -> Body \cup {NULL}]
  /\ firm \in [Request -> BOOLEAN]
  /\ offered \in [Request -> SUBSET Room]
  /\ counted \in [Request -> SUBSET Request]
  /\ \A q \in Request :
       \/ pc[q] = "idle" /\ call[q] = NULL
       \/ /\ call[q] \in Body
          /\ pc[q] \in StepsOf[call[q].op] \cup {"ok", "failed"}

(* A row lock is held by a transaction that is still open and has executed *)
(* the UPDATE or INSERT that takes it: neither a commit nor any way of     *)
(* failing (SqlServerService.transaction's catch) leaves a lock behind.    *)
LocksBelongToOpenTransactions ==
  /\ \A b \in Request : bookingLock[b] # NULL =>
       LET q == bookingLock[b] IN
       \/ /\ pc[q] \in {"occupy", "commitIn", "soil", "task"}
          /\ b = call[q].booking
       \/ pc[q] \in {"seat", "commitQuick"} /\ b = q
  /\ \A r \in Room : roomLock[r] # NULL =>
       pc[roomLock[r]] \in {"commitIn", "task", "commitQuick"}

(* The rows that the next statement of q reads or writes, and who has them *)
(* locked.                                                                 *)
AskedBookings(q) ==
  IF pc[q] \in {"verify", "summarise", "claim", "close", "bill"}
  THEN {call[q].booking} ELSE {}

AskedRooms(q) ==
  CASE pc[q] \in {"locate", "mark", "register", "seat", "setStatus"} -> {call[q].room}
    [] pc[q] \in {"occupy", "soil"} -> {bookings[call[q].booking].room} \ {NULL}
    [] pc[q] = "bill" /\ HasBill(call[q].booking) -> {bookings[call[q].booking].room}
    [] pc[q] = "search" -> Room
    [] OTHER -> {}

Holders(q) ==
  ({bookingLock[b] : b \in AskedBookings(q)} \cup {roomLock[r] : r \in AskedRooms(q)})
    \ {NULL}

(* No circle of waits, however many requests lock whatever rows: who waits *)
(* for a row waits for an open transaction that can go on, or that waits   *)
(* for one that can.                                                       *)
WaitsAreShort ==
  \A q \in Request : \A h \in Holders(q) :
    /\ pc[h] \in Step
    /\ \A g \in Holders(h) : pc[g] \in Step /\ Holders(g) = {}

(* What the conditional UPDATE of a check-in or a check-out found is still *)
(* so at every later statement of that transaction, whatever the requests  *)
(* that run in between do: the commit never acts on a stale status.        *)
CheckedStatusIsNotStale ==
  \A q \in Request :
    /\ pc[q] \in {"occupy", "commitIn"} => CanCheckIn(bookings[call[q].booking])
    /\ pc[q] \in {"soil", "task"} => CanCheckOut(bookings[call[q].booking])

(* Requests that the handler op has answered without an error.             *)
Acknowledged(op) == {q \in Request : pc[q] = "ok" /\ call[q].op = op}

(* However many clients send a completeCheckIn for the same booking, at    *)
(* most one of them is told that it has checked the guest in.              *)
OneCheckInPerBooking ==
  \A q1, q2 \in Acknowledged("completeCheckIn") :
    call[q1].booking = call[q2].booking => q1 = q2

(* A check-in that was acknowledged is never undone: not by the rollback   *)
(* of a check-out that had already updated the row, nor by any payment.    *)
AcknowledgedCheckInHolds ==
  \A q \in Acknowledged("completeCheckIn") :
    LET b == call[q].booking IN
    bookings[b] # NULL /\ bookings[b].status \in {"checked_in", "checked_out"}

(* recordPayment is three commits.  Once every payment row of a booking    *)
(* has been summed up, the booking's paid_amount is the history's sum and  *)
(* payment_status is what that sum and total_amount say.                   *)
SummaryAgreesWithHistory ==
  \A b \in Request :
    LET sum == history[b].sum  row == bookings[b] IN
    history[b].rows # {} /\ counted[b] = history[b].rows =>
      /\ row # NULL
      /\ row.paid = sum
      /\ row.payment = "paid" <=> sum >= row.total
      /\ row.payment = "partial" <=> 0 < sum /\ sum < row.total
      /\ row.payment = "pending" <=> sum <= 0 /\ sum < row.total

(* A payment that was acknowledged is in the history and in paid_amount,   *)
(* and stays there whatever other payments, check-ins, check-outs and      *)
(* failures follow or overlap.  A payment row that paid_amount leaves out  *)
(* is one whose request has not finished or was answered with an error.    *)
AcknowledgedPaymentIsCounted ==
  \A b \in Request :
    /\ counted[b] \subseteq history[b].rows
    /\ \A q \in Acknowledged("recordPayment") :
         call[q].booking = b => q \in counted[b]

(* quickCheckIn commits the guest, the booking and the charge together or, *)
(* when any statement fails, none of them.                                 *)
QuickCheckInAllOrNothing ==
  \A q \in Request : pc[q] # "idle" /\ call[q].op = "quickCheckIn" =>
    /\ q \in guests <=> bookings[q] # NULL /\ call[q].newGuest
    /\ q \in charges <=> bookings[q] # NULL /\ call[q].paid > 0
    /\ pc[q] = "ok" => bookings[q] # NULL

(* A room in which a walk-in guest stays is shown as available only if the *)
(* staff said so (SetStatus): no other handler, however interleaved, and   *)
(* no rollback makes it available.                                         *)
WalkInRoomIsNotAvailable ==
  \A b \in Request :
    /\ bookings[b] # NULL
    /\ bookings[b].room \in Room
    /\ rooms[bookings[b].room] = "available"
    => \E q \in Request : /\ Answered(q)
                          /\ call[q] \in StatusCall
                          /\ call[q].room = bookings[b].room

(* No request leaves another waiting for ever, for a lock or for anything  *)
(* else: everyone who calls is answered.                                   *)
EveryRequestAnswered ==
  \A q \in Request : pc[q] \in Step ~> Answered(q)

(* The committed status of a booking only goes forward, and what was       *)
(* booked (the rooms, the stay and the total) does not change: the total   *)
(* that a check-out writes never becomes visible without the check-out.    *)
Progress(row) ==
  IF row.status = "checked_out" THEN 2 ELSE IF row.status = "checked_in" THEN 1 ELSE 0

BookingNeverMovesBack ==
  [][\A b \in Request : bookings[b] # NULL =>
       LET old == bookings[b]  new == bookings'[b] IN
       /\ new # NULL
       /\ Progress(new) >= Progress(old)
       /\ new.assigned = old.assigned /\ new.room = old.room
       /\ new.stay = old.stay
       /\ new.total = old.total \/ Progress(new) = 2]_bookings
-----------------------------------------------------------------------------
(* The front desk implements the ledger of BookingLedger.tla: the tables   *)
(* are its state, and an acknowledged request is its receipt or greeting.  *)
StageOf(row) ==
  IF row = NULL THEN "none"
  ELSE IF row.status \in {"confirmed", "pending", "active"} THEN "confirmed"
  ELSE row.status

Ledger == INSTANCE BookingLedger WITH
  Booking  <- Request,
  Payment  <- Request,
  stage    <- [b \in Request |-> StageOf(bookings[b])],
  received <- [b \in Request |-> history[b].rows],
  summed   <- counted,
  receipts <- Acknowledged("recordPayment"),
  greeted  <- {call[q].booking : q \in Acknowledged("completeCheckIn")}

(* Every statement, commit, rollback and failure of the front desk is a    *)
(* step of the ledger or changes nothing that the ledger shows.            *)
LedgerSpec == Ledger!Spec
=============================================================================
