--------------------------- MODULE FrontDeskProofs ---------------------------
(***************************************************************************)
(* What holds of the front desk for every set of requests, rooms and       *)
(* bodies, with and without faults, and in both schemas.                   *)
(***************************************************************************)
EXTENDS FrontDesk, TLAPS

(* A transaction that is open holds the lock of the row it has written.    *)
BookingIsLocked ==
  \A q \in Request :
    pc[q] \in {"occupy", "commitIn", "soil", "task"} =>
      bookingLock[call[q].booking] = q

(* The row that a request inserts is not there before its INSERT commits.  *)
NotYetBooked ==
  \A q \in Request :
    pc[q] \in {"idle", "locate", "guest", "insert", "register", "seat",
               "commitQuick"} => bookings[q] = NULL

(* A payment that has been verified is one for a booking that exists.      *)
PaidBookingExists ==
  \A q \in Request :
    pc[q] \in {"record", "summarise"} => bookings[call[q].booking] # NULL

(* The inductive invariant under everything else.                          *)
FrontDeskInv ==
  /\ TypeOK
  /\ BookingIsLocked
  /\ NotYetBooked
  /\ PaidBookingExists
  /\ CheckedStatusIsNotStale
-----------------------------------------------------------------------------
(* The statement a request is at tells which handler it called.            *)
LEMMA HandlerOfStep ==
  ASSUME TypeOK, NEW q \in Request
  PROVE  /\ pc[q] # "idle" => call[q] \in Body
         /\ pc[q] \in {"locate", "guest", "insert", "mark"} => call[q] \in CreateCall
         /\ pc[q] \in {"verify", "record", "summarise"} => call[q] \in PaymentCall
         /\ pc[q] \in {"claim", "occupy", "commitIn"} => call[q] \in CheckInCall
         /\ pc[q] \in {"close", "soil", "task"} => call[q] \in CheckOutCall
         /\ pc[q] \in {"register", "seat", "commitQuick"} => call[q] \in QuickCall
         /\ pc[q] \in {"bill", "charge"} => call[q] \in BillCall
         /\ pc[q] = "setStatus" => call[q] \in StatusCall
         /\ pc[q] = "search" => call[q] \in SearchCall
PROOF
  <1>1. CASE pc[q] = "idle"
    BY <1>1
  <1>2. CASE pc[q] # "idle"
    <2>1. call[q] \in Body /\ pc[q] \in StepsOf[call[q].op] \cup {"ok", "failed"}
      BY <1>2 DEF TypeOK
    <2>2. CASE call[q] \in CreateCall
      BY <2>1, <2>2 DEF StepsOf, CreateCall
    <2>3. CASE call[q] \in PaymentCall
      BY <2>1, <2>3 DEF StepsOf, PaymentCall
    <2>4. CASE call[q] \in CheckInCall
      BY <2>1, <2>4 DEF StepsOf, CheckInCall
    <2>5. CASE call[q] \in CheckOutCall
      BY <2>1, <2>5 DEF StepsOf, CheckOutCall
    <2>6. CASE call[q] \in QuickCall
      BY <2>1, <2>6 DEF StepsOf, QuickCall
    <2>7. CASE call[q] \in BillCall
      BY <2>1, <2>7 DEF StepsOf, BillCall
    <2>8. CASE call[q] \in StatusCall
      BY <2>1, <2>8 DEF StepsOf, StatusCall
    <2>9. CASE call[q] \in SearchCall
      BY <2>1, <2>9 DEF StepsOf, SearchCall
    <2> QED
      BY <2>1, <2>2, <2>3, <2>4, <2>5, <2>6, <2>7, <2>8, <2>9 DEF Body
  <1> QED
    BY <1>1, <1>2

LEMMA BookingOfStep ==
  ASSUME TypeOK, NEW q \in Request,
         pc[q] \in {"verify", "record", "summarise", "claim", "occupy", "commitIn",
                   "close", "soil", "task", "bill", "charge"}
  PROVE  call[q].booking \in Request
PROOF
  BY HandlerOfStep DEF PaymentCall, CheckInCall, CheckOutCall, BillCall

(* Going on to a statement of the same handler, or to its answer, keeps    *)
(* the program counters well typed.                                        *)
LEMMA GotoKeepsTypes ==
  ASSUME TypeOK, NEW q \in Request, NEW s, Goto(q, s), UNCHANGED call,
         call[q] \in Body,
         s \in StepsOf[call[q].op] \cup {"ok", "failed"}
  PROVE  /\ pc' \in [Request -> Step \cup {"idle", "ok", "failed"}]
         /\ \A p \in Request :
              \/ pc'[p] = "idle" /\ call'[p] = NULL
              \/ /\ call'[p] \in Body
                 /\ pc'[p] \in StepsOf[call'[p].op] \cup {"ok", "failed"}
PROOF
  <1>1. s \in Step \cup {"ok", "failed"}
    BY DEF Body, StepsOf, Step, CreateCall, PaymentCall, CheckInCall, CheckOutCall,
           QuickCall, BillCall, StatusCall, SearchCall
  <1>2. pc' = [pc EXCEPT ![q] = s]
    BY DEF Goto
  <1> QED
    BY <1>1, <1>2 DEF TypeOK

(* A step that leaves the bookings alone keeps the invariant if what the   *)
(* invariant says of the request's next statement is so.                   *)
LEMMA GotoKeepsInv ==
  ASSUME FrontDeskInv, NEW q \in Request, NEW s, Goto(q, s),
         UNCHANGED <<bookings, call>>,
         \A b, p \in Request : p # q /\ bookings[b] # NULL /\ bookingLock[b] = p
                             => bookingLock'[b] = p,
         s \in {"occupy", "commitIn", "soil", "task"} =>
           bookingLock'[call[q].booking] = q,
         s \in {"idle", "locate", "guest", "insert", "register", "seat",
               "commitQuick"} => bookings[q] = NULL,
         s \in {"record", "summarise"} => bookings[call[q].booking] # NULL,
         s \in {"occupy", "commitIn"} => CanCheckIn(bookings[call[q].booking]),
         s \in {"soil", "task"} => CanCheckOut(bookings[call[q].booking])
  PROVE  /\ BookingIsLocked' /\ NotYetBooked'
         /\ PaidBookingExists' /\ CheckedStatusIsNotStale'
PROOF
  <1> USE DEF FrontDeskInv
  <1>1. pc'[q] = s /\ \A p \in Request \ {q} : pc'[p] = pc[p]
    BY DEF Goto, TypeOK
  <1>2. BookingIsLocked'
    <2> SUFFICES ASSUME NEW p \in Request,
                        pc'[p] \in {"occupy", "commitIn", "soil", "task"}
                 PROVE  bookingLock'[call'[p].booking] = p
      BY DEF BookingIsLocked
    <2>1. CASE p = q
      BY <1>1, <2>1
    <2>2. CASE p # q
      <3>1. pc[p] \in {"occupy", "commitIn", "soil", "task"}
        BY <1>1, <2>2
      <3>2. /\ call[p].booking \in Request /\ bookingLock[call[p].booking] = p
            /\ bookings[call[p].booking] # NULL
        BY <3>1, BookingOfStep
           DEF BookingIsLocked, CheckedStatusIsNotStale, CanCheckIn, CanCheckOut
      <3> QED
        BY <2>2, <3>2
    <2> QED
      BY <2>1, <2>2
  <1>3. NotYetBooked'
    BY <1>1 DEF NotYetBooked
  <1>4. PaidBookingExists'
    BY <1>1 DEF PaidBookingExists
  <1>5. CheckedStatusIsNotStale'
    BY <1>1 DEF CheckedStatusIsNotStale, CanCheckIn, CanCheckOut
  <1> QED
    BY <1>2, <1>3, <1>4, <1>5

(* A rollback, whatever caused it, touches nothing but the locks it gives  *)
(* back.                                                                   *)
LEMMA AbortKeepsInv ==
  ASSUME FrontDeskInv, NEW q \in Request, pc[q] # "idle", Abort(q)
  PROVE  FrontDeskInv'
PROOF
  <1> USE DEF FrontDeskInv
  <1>1. call[q] \in Body
    BY HandlerOfStep
  <1>2. Goto(q, "failed") /\ UNCHANGED <<tables, call, firm, offered, counted>>
    BY DEF Abort
  <1>3. /\ bookingLock' \in [Request -> Request \cup {NULL}]
        /\ roomLock' \in [Room -> Request \cup {NULL}]
        /\ \A b, p \in Request : p # q /\ bookingLock[b] = p => bookingLock'[b] = p
    BY DEF Abort, Release, TypeOK
  <1>4. TypeOK'
    BY <1>1, <1>2, <1>3, GotoKeepsTypes DEF TypeOK, tables
  <1> QED
    BY <1>2, <1>3, <1>4, GotoKeepsInv DEF tables

(* An answered or an arriving request is at no statement that the          *)
(* invariant speaks of; Reply is the last step of most handlers.           *)
LEMMA ReplyKeepsInv ==
  ASSUME FrontDeskInv, NEW q \in Request, Reply(q), UNCHANGED <<bookings, call, bookingLock>>
  PROVE  /\ BookingIsLocked' /\ NotYetBooked'
         /\ PaidBookingExists' /\ CheckedStatusIsNotStale'
PROOF
  <1>1. PICK s \in {"ok", "failed"} : Goto(q, s)
    BY DEF Reply
  <1> QED
    BY <1>1, GotoKeepsInv

LEMMA ReplyKeepsTypes ==
  ASSUME TypeOK, NEW q \in Request, Reply(q), UNCHANGED call, call[q] \in Body
  PROVE  /\ pc' \in [Request -> Step \cup {"idle", "ok", "failed"}]
         /\ \A p \in Request :
              \/ pc'[p] = "idle" /\ call'[p] = NULL
              \/ /\ call'[p] \in Body
                 /\ pc'[p] \in StepsOf[call'[p].op] \cup {"ok", "failed"}
PROOF
  <1>1. PICK s \in {"ok", "failed"} : Goto(q, s)
    BY DEF Reply
  <1> QED
    BY <1>1, GotoKeepsTypes
-----------------------------------------------------------------------------
(* One lemma for each handler: its statements keep the invariant.          *)

LEMMA ArriveKeepsInv ==
  ASSUME FrontDeskInv, NEW q \in Request, Arrive(q)
  PROVE  FrontDeskInv'
PROOF
  <1> USE DEF FrontDeskInv
  <1>1. PICK c \in Call : call' = [call EXCEPT ![q] = c] /\ Goto(q, FirstStep[c.op])
    BY DEF Arrive
  <1>2. c \in Body
    BY FrontDeskAssumption
  <1>3. /\ FirstStep[c.op] \in StepsOf[c.op] \cap Step
        /\ FirstStep[c.op] \in {"locate", "verify", "claim", "close", "register", "bill",
                               "setStatus", "search"}
    BY <1>2 DEF Body, FirstStep, StepsOf, Step, CreateCall, PaymentCall, CheckInCall,
           CheckOutCall, QuickCall, BillCall, StatusCall, SearchCall
  <1>4. /\ pc'[q] = FirstStep[c.op] /\ call'[q] = c
        /\ \A p \in Request \ {q} : pc'[p] = pc[p] /\ call'[p] = call[p]
        /\ UNCHANGED <<tables, locks, firm, offered, counted>>
    BY <1>1 DEF Arrive, Goto, TypeOK
  <1>5. TypeOK'
    BY <1>1, <1>2, <1>3, <1>4 DEF TypeOK, tables, locks, Goto
  <1>6. BookingIsLocked'
    BY <1>3, <1>4 DEF BookingIsLocked, locks
  <1>7. NotYetBooked'
    BY <1>3, <1>4 DEF NotYetBooked, tables, Arrive
  <1>8. PaidBookingExists'
    BY <1>3, <1>4 DEF PaidBookingExists, tables
  <1>9. CheckedStatusIsNotStale'
    BY <1>3, <1>4 DEF CheckedStatusIsNotStale, CanCheckIn, CanCheckOut, tables
  <1> QED
    BY <1>5, <1>6, <1>7, <1>8, <1>9

LEMMA CreateKeepsInv ==
  ASSUME FrontDeskInv, NEW q \in Request,
         CreateLocate(q) \/ CreateGuest(q) \/ CreateInsert(q) \/ CreateMark(q)
  PROVE  FrontDeskInv'
PROOF
  <1> USE DEF FrontDeskInv
  <1>1. pc[q] \in {"locate", "guest", "insert", "mark"}
    BY DEF CreateLocate, CreateGuest, CreateInsert, CreateMark
  <1>2. call[q] \in CreateCall /\ call[q] \in Body
    BY <1>1, HandlerOfStep
  <1>3. \A s \in {"locate", "guest", "insert", "mark"} :
          s \in StepsOf[call[q].op] \cup {"ok", "failed"}
    BY <1>2 DEF CreateCall, StepsOf
  <1>4. CASE Abort(q)
    BY <1>1, <1>4, AbortKeepsInv
  <1>5. CASE CreateLocate(q)
    <2>1. PICK s \in {"guest", "insert"} : Goto(q, s)
      BY <1>5 DEF CreateLocate
    <2>2. pc[q] = "locate" /\ UNCHANGED <<tables, locks, call, offered, counted>>
      BY <1>5 DEF CreateLocate
    <2>3. firm' \in [Request -> BOOLEAN]
      BY <1>5 DEF CreateLocate, TypeOK
    <2>4. TypeOK'
      BY <1>2, <1>3, <2>1, <2>2, <2>3, GotoKeepsTypes DEF TypeOK, tables, locks
    <2> QED
      BY <2>1, <2>2, <2>4, GotoKeepsInv DEF NotYetBooked, tables, locks
  <1>6. CASE CreateGuest(q) /\ ~Abort(q)
    <2>1. /\ pc[q] = "guest" /\ Goto(q, "insert") /\ guests' = guests \cup {q}
          /\ UNCHANGED <<rooms, bookings, history, charges, locks, call, firm,
                        offered, counted>>
      BY <1>6 DEF CreateGuest
    <2>2. TypeOK'
      BY <1>2, <1>3, <2>1, GotoKeepsTypes DEF TypeOK, locks
    <2> QED
      BY <2>1, <2>2, GotoKeepsInv DEF NotYetBooked, locks
  <1>7. CASE CreateInsert(q) /\ ~Abort(q)
    <2>1. /\ pc[q] = "insert" /\ Goto(q, "mark")
          /\ bookings' = [bookings EXCEPT ![q] = NewBooking(call[q])]
          /\ UNCHANGED <<rooms, guests, history, charges, locks, call, firm,
                        offered, counted>>
      BY <1>7 DEF CreateInsert
    <2>2. NewBooking(call[q]) \in BookingRow
      BY <1>2 DEF NewBooking, BookingRow, BookingStatus, CreateCall
    <2>3. TypeOK'
      BY <1>2, <1>3, <2>1, <2>2, GotoKeepsTypes DEF TypeOK, locks
    <2>4. /\ bookings[q] = NULL
          /\ \A p \in Request \ {q} : pc'[p] = pc[p] /\ bookings'[p] = bookings[p]
          /\ pc'[q] = "mark" /\ bookings'[q] # NULL
      BY <2>1, <2>2, FrontDeskAssumption DEF NotYetBooked, TypeOK, Goto
    <2>5. BookingIsLocked' /\ NotYetBooked'
      BY <2>1, <2>4 DEF BookingIsLocked, NotYetBooked, locks
    <2>6. PaidBookingExists'
      BY <2>1, <2>4, BookingOfStep DEF PaidBookingExists
    <2>7. CheckedStatusIsNotStale'
      BY <2>1, <2>4, BookingOfStep DEF CheckedStatusIsNotStale, CanCheckIn, CanCheckOut
    <2> QED
      BY <2>3, <2>5, <2>6, <2>7
  <1>8. CASE CreateMark(q)
    <2>1. /\ pc[q] = "mark" /\ Reply(q)
          /\ UNCHANGED <<bookings, guests, history, charges, locks, call, firm,
                        offered, counted>>
      BY <1>8 DEF CreateMark
    <2>2. rooms' \in [Room -> RoomStatus \cup {NULL}]
      BY <1>8 DEF CreateMark, WithStatus, RoomStatus, TypeOK
    <2>3. TypeOK'
      BY <1>2, <2>1, <2>2, ReplyKeepsTypes DEF TypeOK, locks
    <2> QED
      BY <2>1, <2>3, ReplyKeepsInv DEF locks
  <1> QED
    BY <1>4, <1>5, <1>6, <1>7, <1>8

LEMMA PaymentKeepsInv ==
  ASSUME FrontDeskInv, NEW q \in Request,
         PaymentVerify(q) \/ PaymentRecord(q) \/ PaymentSummarise(q)
  PROVE  FrontDeskInv'
PROOF
  <1> USE DEF FrontDeskInv
  <1> DEFINE b == call[q].booking
  <1>1. pc[q] \in {"verify", "record", "summarise"}
    BY DEF PaymentVerify, PaymentRecord, PaymentSummarise
  <1>2. call[q] \in PaymentCall /\ call[q] \in Body /\ b \in Request
    BY <1>1, HandlerOfStep, BookingOfStep
  <1>3. \A s \in {"verify", "record", "summarise"} :
          s \in StepsOf[call[q].op] \cup {"ok", "failed"}
    BY <1>2 DEF PaymentCall, StepsOf
  <1>4. CASE Abort(q)
    BY <1>1, <1>4, AbortKeepsInv
  <1>5. CASE PaymentVerify(q) /\ ~Abort(q)
    <2>1. /\ bookings[b] # NULL /\ Goto(q, "record")
          /\ UNCHANGED <<tables, locks, call, firm, offered, counted>>
      BY <1>5 DEF PaymentVerify
    <2>2. TypeOK'
      BY <1>2, <1>3, <2>1, GotoKeepsTypes DEF TypeOK, tables, locks
    <2> QED
      BY <2>1, <2>2, GotoKeepsInv DEF tables, locks
  <1>6. CASE PaymentRecord(q) /\ ~Abort(q)
    <2>1. /\ pc[q] = "record" /\ Goto(q, "summarise")
          /\ history' = [history EXCEPT ![b] = [rows |-> @.rows \cup {q},
                                               sum  |-> @.sum + call[q].amount]]
          /\ UNCHANGED <<rooms, bookings, guests, charges, locks, call, firm,
                        offered, counted>>
      BY <1>6 DEF PaymentRecord
    <2>2. history' \in [Request -> [rows: SUBSET Request, sum: Int]]
      <3>1. history[b] \in [rows: SUBSET Request, sum: Int] /\ call[q].amount \in Int
        BY <1>2 DEF TypeOK, PaymentCall
      <3> QED
        BY <1>2, <2>1, <3>1 DEF TypeOK
    <2>3. TypeOK'
      BY <1>2, <1>3, <2>1, <2>2, GotoKeepsTypes DEF TypeOK, locks
    <2> QED
      BY <2>1, <2>3, GotoKeepsInv DEF PaidBookingExists, locks
  <1>7. CASE PaymentSummarise(q) /\ ~Abort(q)
    <2> DEFINE sum == history[b].sum
               row == [bookings[b] EXCEPT
                         !.paid = sum,
                         !.payment = SummaryStatus(sum, bookings[b].total)]
    <2>1. /\ pc[q] = "summarise" /\ Reply(q)
          /\ bookings' = [bookings EXCEPT
                            ![b].paid = sum,
                            ![b].payment = SummaryStatus(sum, bookings[b].total)]
          /\ counted' = [counted EXCEPT ![b] = history[b].rows]
          /\ UNCHANGED <<rooms, guests, history, charges, locks, call, firm, offered>>
      BY <1>7 DEF PaymentSummarise
    <2>2. bookings[b] \in BookingRow
      BY <1>2, <2>1 DEF PaidBookingExists, TypeOK
    <2>3. /\ bookings' = [bookings EXCEPT ![b] = row]
          /\ row \in BookingRow /\ row.status = bookings[b].status
      <3>1. sum \in Int
        BY <1>2 DEF TypeOK
      <3>2. SummaryStatus(sum, bookings[b].total) \in {"paid", "partial", "pending"}
        BY DEF SummaryStatus
      <3> QED
        BY <1>2, <2>1, <2>2, <3>1, <3>2 DEF BookingRow, TypeOK
    <2> HIDE DEF row
    <2>4. counted' \in [Request -> SUBSET Request]
      BY <1>2, <2>1 DEF TypeOK
    <2>5. bookings' \in [Request -> BookingRow \cup {NULL}]
      BY <2>3 DEF TypeOK
    <2>6. TypeOK'
      BY <1>2, <2>1, <2>4, <2>5, ReplyKeepsTypes DEF TypeOK, locks
    <2>7. /\ pc'[q] \in {"ok", "failed"}
          /\ \A p \in Request \ {q} : pc'[p] = pc[p]
      BY <2>1 DEF Reply, Goto, TypeOK
    <2>8. \A c \in Request : \/ bookings'[c] = bookings[c]
                             \/ /\ bookings[c] # NULL /\ bookings'[c] # NULL
                                /\ bookings'[c].status = bookings[c].status
      <3>1. row # NULL /\ bookings[b] # NULL
        BY <2>1, <2>3, FrontDeskAssumption DEF PaidBookingExists
      <3> QED
        BY <1>2, <2>3, <3>1 DEF TypeOK
    <2>9. BookingIsLocked' /\ NotYetBooked'
      BY <2>1, <2>7, <2>8 DEF BookingIsLocked, NotYetBooked, locks
    <2>10. PaidBookingExists'
      BY <2>1, <2>7, <2>8, BookingOfStep DEF PaidBookingExists
    <2>11. CheckedStatusIsNotStale'
      <3> SUFFICES ASSUME NEW p \in Request, pc'[p] \in {"occupy", "commitIn", "soil", "task"}
                   PROVE  /\ pc'[p] \in {"occupy", "commitIn"} =>
                               CanCheckIn(bookings'[call[p].booking])
                          /\ pc'[p] \in {"soil", "task"} =>
                               CanCheckOut(bookings'[call[p].booking])
        BY <2>1 DEF CheckedStatusIsNotStale, CanCheckIn, CanCheckOut
      <3>1. pc'[p] = pc[p] /\ call[p].booking \in Request
        BY <2>7, BookingOfStep
      <3> QED
        BY <2>8, <3>1 DEF CheckedStatusIsNotStale, CanCheckIn, CanCheckOut
    <2> QED
      BY <2>6, <2>9, <2>10, <2>11
  <1> QED
    BY <1>4, <1>5, <1>6, <1>7

(* Locking a room changes a room's lock and the program counter only.      *)
LEMMA LockRoomTypes ==
  ASSUME TypeOK, NEW q \in Request, NEW r, NEW next, LockRoom(q, r, next)
  PROVE  /\ roomLock' \in [Room -> Request \cup {NULL}]
         /\ Goto(q, next)
         /\ UNCHANGED <<tables, bookingLock, call, firm, offered, counted>>
PROOF
  BY DEF LockRoom, TypeOK

(* A commit gives the rooms that q has locked a status and frees the locks.*)
LEMMA CommitTypes ==
  ASSUME TypeOK, NEW q \in Request, CommitRooms(q, "occupied"),
         bookingLock' = Release(bookingLock, q), roomLock' = Release(roomLock, q)
  PROVE  /\ rooms' \in [Room -> RoomStatus \cup {NULL}]
         /\ bookingLock' \in [Request -> Request \cup {NULL}]
         /\ roomLock' \in [Room -> Request \cup {NULL}]
         /\ \A b, p \in Request : p # q /\ bookingLock[b] = p => bookingLock'[b] = p
PROOF
  <1>1. rooms' \in [Room -> RoomStatus \cup {NULL}]
    BY DEF CommitRooms, RoomStatus, TypeOK
  <1> QED
    BY <1>1 DEF Release, TypeOK

LEMMA CheckInKeepsInv ==
  ASSUME FrontDeskInv, NEW q \in Request,
         CheckInClaim(q) \/ CheckInOccupy(q) \/ CheckInCommit(q)
  PROVE  FrontDeskInv'
PROOF
  <1> USE DEF FrontDeskInv
  <1> DEFINE b == call[q].booking
  <1>1. pc[q] \in {"claim", "occupy", "commitIn"}
    BY DEF CheckInClaim, CheckInOccupy, CheckInCommit
  <1>2. call[q] \in CheckInCall /\ call[q] \in Body /\ b \in Request
    BY <1>1, HandlerOfStep, BookingOfStep
  <1>3. \A s \in {"claim", "occupy", "commitIn"} :
          s \in StepsOf[call[q].op] \cup {"ok", "failed"}
    BY <1>2 DEF CheckInCall, StepsOf
  <1>4. CASE Abort(q)
    BY <1>1, <1>4, AbortKeepsInv
  <1>5. CASE CheckInClaim(q) /\ ~Abort(q)
    <2>1. /\ bookingLock[b] = NULL /\ CanCheckIn(bookings[b])
          /\ bookingLock' = [bookingLock EXCEPT ![b] = q]
          /\ Goto(q, "occupy")
          /\ UNCHANGED <<tables, roomLock, call, firm, offered, counted>>
      BY <1>5 DEF CheckInClaim, RowFree
    <2>2. /\ bookingLock' \in [Request -> Request \cup {NULL}]
          /\ bookingLock'[b] = q
          /\ \A c, p \in Request : p # q /\ bookingLock[c] = p => bookingLock'[c] = p
      BY <1>2, <2>1, FrontDeskAssumption DEF TypeOK
    <2>3. TypeOK'
      BY <1>2, <1>3, <2>1, <2>2, GotoKeepsTypes DEF TypeOK, tables
    <2> QED
      BY <2>1, <2>2, <2>3, GotoKeepsInv DEF tables
  <1>6. CASE CheckInOccupy(q)
    <2>1. pc[q] = "occupy" /\ LockRoom(q, bookings[b].room, "commitIn")
      BY <1>6 DEF CheckInOccupy
    <2>2. /\ roomLock' \in [Room -> Request \cup {NULL}] /\ Goto(q, "commitIn")
          /\ UNCHANGED <<tables, bookingLock, call, firm, offered, counted>>
      BY <2>1, LockRoomTypes
    <2>3. TypeOK'
      BY <1>2, <1>3, <2>2, GotoKeepsTypes DEF TypeOK, tables
    <2> QED
      BY <2>1, <2>2, <2>3, GotoKeepsInv
         DEF tables, BookingIsLocked, CheckedStatusIsNotStale
  <1>7. CASE CheckInCommit(q)
    <2> DEFINE row == [bookings[b] EXCEPT !.status = "checked_in"]
    <2>1. /\ pc[q] = "commitIn" /\ Reply(q)
          /\ bookings' = [bookings EXCEPT ![b] = row]
          /\ CommitRooms(q, "occupied")
          /\ bookingLock' = Release(bookingLock, q)
          /\ roomLock' = Release(roomLock, q)
          /\ UNCHANGED <<guests, history, charges, call, firm, offered, counted>>
      BY <1>7 DEF CheckInCommit
    <2>2. bookings[b] # NULL /\ bookings[b] \in BookingRow
      BY <1>2, <2>1 DEF CheckedStatusIsNotStale, CanCheckIn, TypeOK
    <2>3. row \in BookingRow /\ row # NULL
      BY <2>2, FrontDeskAssumption DEF BookingRow, BookingStatus
    <2> HIDE DEF row
    <2>4. bookings' \in [Request -> BookingRow \cup {NULL}]
      BY <2>1, <2>3 DEF TypeOK
    <2>5. TypeOK'
      BY <1>2, <2>1, <2>4, CommitTypes, ReplyKeepsTypes DEF TypeOK
    <2>6. /\ pc'[q] \in {"ok", "failed"}
          /\ \A p \in Request \ {q} : pc'[p] = pc[p]
      BY <2>1 DEF Reply, Goto, TypeOK
    <2>7. \A c \in Request : \/ bookings'[c] = bookings[c]
                             \/ c = b /\ bookings[c] # NULL /\ bookings'[c] # NULL
      BY <1>2, <2>1, <2>2, <2>3 DEF TypeOK
    <2>8. \A p \in Request \ {q} :
            pc[p] \in {"occupy", "commitIn", "soil", "task"} =>
              /\ bookingLock'[call[p].booking] = p
              /\ bookings'[call[p].booking] = bookings[call[p].booking]
      <3> SUFFICES ASSUME NEW p \in Request \ {q},
                          pc[p] \in {"occupy", "commitIn", "soil", "task"}
                   PROVE  /\ bookingLock'[call[p].booking] = p
                          /\ bookings'[call[p].booking] = bookings[call[p].booking]
        OBVIOUS
      <3>1. /\ bookingLock[call[p].booking] = p /\ call[p].booking \in Request
            /\ bookingLock[b] = q
        BY <2>1, BookingOfStep DEF BookingIsLocked
      <3> QED
        BY <2>1, <2>7, <3>1, CommitTypes
    <2>9. BookingIsLocked'
      BY <2>1, <2>6, <2>8 DEF BookingIsLocked
    <2>10. NotYetBooked' /\ PaidBookingExists'
      BY <2>1, <2>6, <2>7, BookingOfStep DEF NotYetBooked, PaidBookingExists
    <2>11. CheckedStatusIsNotStale'
      BY <2>1, <2>6, <2>8 DEF CheckedStatusIsNotStale, CanCheckIn, CanCheckOut
    <2> QED
      BY <2>5, <2>9, <2>10, <2>11
  <1> QED
    BY <1>4, <1>5, <1>6, <1>7

LEMMA CheckOutKeepsInv ==
  ASSUME FrontDeskInv, NEW q \in Request,
         CheckOutClose(q) \/ CheckOutSoil(q) \/ CheckOutTask(q)
  PROVE  FrontDeskInv'
PROOF
  <1> USE DEF FrontDeskInv
  <1> DEFINE b == call[q].booking
  <1>1. pc[q] \in {"close", "soil", "task"}
    BY DEF CheckOutClose, CheckOutSoil, CheckOutTask
  <1>2. call[q] \in CheckOutCall /\ call[q] \in Body /\ b \in Request
    BY <1>1, HandlerOfStep, BookingOfStep
  <1>3. \A s \in {"close", "soil", "task"} :
          s \in StepsOf[call[q].op] \cup {"ok", "failed"}
    BY <1>2 DEF CheckOutCall, StepsOf
  <1>4. CASE Abort(q)
    BY <1>1, <1>4, AbortKeepsInv
  <1>5. CASE CheckOutClose(q) /\ ~Abort(q)
    <2>1. /\ bookingLock[b] = NULL /\ CanCheckOut(bookings[b])
          /\ bookingLock' = [bookingLock EXCEPT ![b] = q]
          /\ Goto(q, "soil")
          /\ UNCHANGED <<tables, roomLock, call, firm, offered, counted>>
      BY <1>5 DEF CheckOutClose, RowFree
    <2>2. /\ bookingLock' \in [Request -> Request \cup {NULL}]
          /\ bookingLock'[b] = q
          /\ \A c, p \in Request : p # q /\ bookingLock[c] = p => bookingLock'[c] = p
      BY <1>2, <2>1, FrontDeskAssumption DEF TypeOK
    <2>3. TypeOK'
      BY <1>2, <1>3, <2>1, <2>2, GotoKeepsTypes DEF TypeOK, tables
    <2> QED
      BY <2>1, <2>2, <2>3, GotoKeepsInv DEF tables
  <1>6. CASE CheckOutSoil(q)
    <2>1. pc[q] = "soil" /\ LockRoom(q, bookings[b].room, "task")
      BY <1>6 DEF CheckOutSoil
    <2>2. /\ roomLock' \in [Room -> Request \cup {NULL}] /\ Goto(q, "task")
          /\ UNCHANGED <<tables, bookingLock, call, firm, offered, counted>>
      BY <2>1, LockRoomTypes
    <2>3. TypeOK'
      BY <1>2, <1>3, <2>2, GotoKeepsTypes DEF TypeOK, tables
    <2> QED
      BY <2>1, <2>2, <2>3, GotoKeepsInv
         DEF tables, BookingIsLocked, CheckedStatusIsNotStale
  <1>7. CASE CheckOutTask(q)
    BY <1>4, <1>7 DEF CheckOutTask
  <1> QED
    BY <1>4, <1>5, <1>6, <1>7

LEMMA QuickKeepsInv ==
  ASSUME FrontDeskInv, NEW q \in Request,
         QuickRegister(q) \/ QuickSeat(q) \/ QuickCommit(q)
  PROVE  FrontDeskInv'
PROOF
  <1> USE DEF FrontDeskInv
  <1>1. pc[q] \in {"register", "seat", "commitQuick"}
    BY DEF QuickRegister, QuickSeat, QuickCommit
  <1>2. call[q] \in QuickCall /\ call[q] \in Body /\ bookings[q] = NULL
    BY <1>1, HandlerOfStep DEF NotYetBooked
  <1>3. \A s \in {"register", "seat", "commitQuick"} :
          s \in StepsOf[call[q].op] \cup {"ok", "failed"}
    BY <1>2 DEF QuickCall, StepsOf
  <1>4. CASE Abort(q)
    BY <1>1, <1>4, AbortKeepsInv
  <1>5. CASE QuickRegister(q) /\ ~Abort(q)
    <2>1. /\ bookingLock' = [bookingLock EXCEPT ![q] = q]
          /\ Goto(q, "seat")
          /\ UNCHANGED <<tables, roomLock, call, firm, offered, counted>>
      BY <1>5 DEF QuickRegister
    <2>2. /\ bookingLock' \in [Request -> Request \cup {NULL}]
          /\ \A b, p \in Request : p # q /\ bookings[b] # NULL /\ bookingLock[b] = p
                                => bookingLock'[b] = p
      BY <1>2, <2>1 DEF TypeOK
    <2>3. TypeOK'
      BY <1>2, <1>3, <2>1, <2>2, GotoKeepsTypes DEF TypeOK, tables
    <2> QED
      BY <1>2, <2>1, <2>2, <2>3, GotoKeepsInv DEF tables
  <1>6. CASE QuickSeat(q)
    <2>1. LockRoom(q, call[q].room, "commitQuick")
      BY <1>6 DEF QuickSeat
    <2>2. /\ roomLock' \in [Room -> Request \cup {NULL}] /\ Goto(q, "commitQuick")
          /\ UNCHANGED <<tables, bookingLock, call, firm, offered, counted>>
      BY <2>1, LockRoomTypes
    <2>3. TypeOK'
      BY <1>2, <1>3, <2>2, GotoKeepsTypes DEF TypeOK, tables
    <2> QED
      BY <1>2, <2>2, <2>3, GotoKeepsInv DEF tables
  <1>7. CASE QuickCommit(q)
    <2>1. /\ bookings' = [bookings EXCEPT ![q] = WalkIn(call[q])]
          /\ guests' \in SUBSET (guests \cup {q}) /\ charges' \in SUBSET (charges \cup {q})
          /\ CommitRooms(q, "occupied")
          /\ bookingLock' = Release(bookingLock, q)
          /\ roomLock' = Release(roomLock, q)
          /\ Reply(q)
          /\ UNCHANGED <<history, call, firm, offered, counted>>
      BY <1>7 DEF QuickCommit
    <2>2. WalkIn(call[q]) \in BookingRow /\ WalkIn(call[q]) # NULL
      <3>1. WalkIn(call[q]) \in BookingRow
        BY <1>2 DEF WalkIn, BookingRow, BookingStatus, QuickCall
      <3> QED
        BY <3>1, FrontDeskAssumption
    <2>3. bookings' \in [Request -> BookingRow \cup {NULL}]
      BY <2>1, <2>2 DEF TypeOK
    <2>4. TypeOK'
      BY <1>2, <2>1, <2>3, CommitTypes, ReplyKeepsTypes DEF TypeOK
    <2>5. /\ pc'[q] \in {"ok", "failed"}
          /\ \A p \in Request \ {q} : pc'[p] = pc[p] /\ bookings'[p] = bookings[p]
          /\ bookings'[q] # NULL
      BY <2>1, <2>2 DEF Reply, Goto, TypeOK
    <2>6. \A p \in Request \ {q} :
            pc[p] \in {"occupy", "commitIn", "soil", "task"} =>
              /\ bookingLock'[call[p].booking] = p
              /\ bookings'[call[p].booking] = bookings[call[p].booking]
      <3> SUFFICES ASSUME NEW p \in Request \ {q},
                          pc[p] \in {"occupy", "commitIn", "soil", "task"}
                   PROVE  /\ bookingLock'[call[p].booking] = p
                          /\ bookings'[call[p].booking] = bookings[call[p].booking]
        OBVIOUS
      <3>1. /\ bookingLock[call[p].booking] = p /\ call[p].booking \in Request
            /\ bookings[call[p].booking] # NULL
        BY BookingOfStep
           DEF BookingIsLocked, CheckedStatusIsNotStale, CanCheckIn, CanCheckOut
      <3> QED
        BY <1>2, <2>1, <2>5, <3>1, CommitTypes
    <2>7. BookingIsLocked'
      BY <2>1, <2>5, <2>6 DEF BookingIsLocked
    <2>8. NotYetBooked' /\ PaidBookingExists'
      BY <2>1, <2>5, BookingOfStep DEF NotYetBooked, PaidBookingExists
    <2>9. CheckedStatusIsNotStale'
      BY <2>1, <2>5, <2>6 DEF CheckedStatusIsNotStale, CanCheckIn, CanCheckOut
    <2> QED
      BY <2>4, <2>7, <2>8, <2>9
  <1> QED
    BY <1>4, <1>5, <1>6, <1>7

(* calculateBill, updateStatus and checkAvailability touch no booking.     *)
LEMMA OtherKeepsInv ==
  ASSUME FrontDeskInv, NEW q \in Request,
         BillRead(q) \/ BillCharge(q) \/ SetStatus(q) \/ Search(q)
  PROVE  FrontDeskInv'
PROOF
  <1> USE DEF FrontDeskInv
  <1>1. pc[q] \in {"bill", "charge", "setStatus", "search"}
    BY DEF BillRead, BillCharge, SetStatus, Search
  <1>2. call[q] \in Body
    BY <1>1, HandlerOfStep
  <1>3. CASE Abort(q)
    BY <1>1, <1>3, AbortKeepsInv
  <1>4. CASE BillRead(q) /\ ~Abort(q)
    <2>1. /\ pc[q] = "bill" /\ (Reply(q) \/ Goto(q, "charge"))
          /\ UNCHANGED <<tables, locks, call, firm, offered, counted>>
      BY <1>4 DEF BillRead
    <2>2. "charge" \in StepsOf[call[q].op]
      BY <2>1, HandlerOfStep DEF StepsOf, BillCall
    <2>3. TypeOK'
      BY <1>2, <2>1, <2>2, GotoKeepsTypes, ReplyKeepsTypes DEF TypeOK, tables, locks
    <2> QED
      BY <2>1, <2>3, GotoKeepsInv, ReplyKeepsInv DEF tables, locks
  <1>5. CASE BillCharge(q) /\ ~Abort(q)
    <2>1. /\ charges' = charges \cup {q} /\ Reply(q)
          /\ UNCHANGED <<rooms, bookings, guests, history, locks, call, firm, offered,
                        counted>>
      BY <1>5 DEF BillCharge
    <2>2. TypeOK'
      BY <1>2, <2>1, ReplyKeepsTypes DEF TypeOK, locks
    <2> QED
      BY <2>1, <2>2, ReplyKeepsInv DEF locks
  <1>6. CASE SetStatus(q)
    <2>1. /\ pc[q] = "setStatus" /\ Reply(q)
          /\ rooms' = WithStatus(call[q].room, call[q].status)
          /\ UNCHANGED <<bookings, guests, history, charges, locks, call, firm, offered,
                        counted>>
      BY <1>6 DEF SetStatus
    <2>2. call[q].status \in RoomStatus
      BY <2>1, HandlerOfStep DEF StatusCall
    <2>3. rooms' \in [Room -> RoomStatus \cup {NULL}]
      BY <2>1, <2>2 DEF WithStatus, TypeOK
    <2>4. TypeOK'
      BY <1>2, <2>1, <2>3, ReplyKeepsTypes DEF TypeOK, locks
    <2> QED
      BY <2>1, <2>4, ReplyKeepsInv DEF locks
  <1>7. CASE Search(q)
    <2>1. /\ Reply(q) /\ UNCHANGED <<tables, locks, call, firm, counted>>
      BY <1>7 DEF Search
    <2>2. offered' \in [Request -> SUBSET Room]
      BY <1>7 DEF Search, TypeOK
    <2>3. TypeOK'
      BY <1>2, <2>1, <2>2, ReplyKeepsTypes DEF TypeOK, tables, locks
    <2> QED
      BY <2>1, <2>3, ReplyKeepsInv DEF tables, locks
  <1> QED
    BY <1>3, <1>4, <1>5, <1>6, <1>7
-----------------------------------------------------------------------------
LEMMA InitEstablishesInv == Init => FrontDeskInv
PROOF
  <1> SUFFICES ASSUME Init PROVE FrontDeskInv
    OBVIOUS
  <1>1. TypeOK
    BY DEF Init, TypeOK, RoomStatus
  <1> QED
    BY <1>1 DEF Init, FrontDeskInv, BookingIsLocked, NotYetBooked, PaidBookingExists,
                CheckedStatusIsNotStale

LEMMA NextKeepsInv == FrontDeskInv /\ [Next]_vars => FrontDeskInv'
PROOF
  <1> SUFFICES ASSUME FrontDeskInv, [Next]_vars PROVE FrontDeskInv'
    OBVIOUS
  <1>1. CASE UNCHANGED vars
    BY <1>1 DEF vars, tables, locks, FrontDeskInv, TypeOK, BookingIsLocked, NotYetBooked,
                PaidBookingExists, CheckedStatusIsNotStale, CanCheckIn, CanCheckOut
  <1>2. ASSUME NEW q \in Request, Arrive(q) PROVE FrontDeskInv'
    BY <1>2, ArriveKeepsInv
  <1>3. ASSUME NEW q \in Request, Fail(q) PROVE FrontDeskInv'
    BY <1>3, AbortKeepsInv DEF Fail, Step
  <1>4. ASSUME NEW q \in Request, Execute(q) PROVE FrontDeskInv'
    BY <1>4, CreateKeepsInv, PaymentKeepsInv, CheckInKeepsInv, CheckOutKeepsInv,
       QuickKeepsInv, OtherKeepsInv DEF Execute
  <1> QED
    BY <1>1, <1>2, <1>3, <1>4 DEF Next, Quiescent

LEMMA FrontDeskInvariant == Spec => []FrontDeskInv
PROOF
  BY InitEstablishesInv, NextKeepsInv, PTL DEF Spec

(* The tables, the locks and the program counters are always well typed,   *)
(* and a request is only ever at a statement of the handler it called.     *)
THEOREM TypeCorrect == Spec => []TypeOK
PROOF
  BY FrontDeskInvariant, PTL DEF FrontDeskInv

(* Every later statement of a check-in or a check-out, and its commit,     *)
(* still finds the booking in the status that its first UPDATE found.      *)
THEOREM StatusStaysChecked == Spec => []CheckedStatusIsNotStale
PROOF
  BY FrontDeskInvariant, PTL DEF FrontDeskInv
-----------------------------------------------------------------------------
(* What a step can do to a booking: nothing, insert it, write a payment's  *)
(* summary to it, or check a guest in whom CanCheckIn still allows.        *)

Inserted(b)   == bookings[b] = NULL /\ bookings'[b] \in BookingRow
Summarised(b) ==
  /\ \E q \in Request : PaymentSummarise(q) /\ ~Abort(q)
  /\ bookings[b] \in BookingRow
  /\ \E paid \in Int, payment \in {"paid", "partial", "pending"} :
       bookings'[b] = [bookings[b] EXCEPT !.paid = paid, !.payment = payment]
CheckedIn(b) ==
  /\ bookings[b] \in BookingRow
  /\ CanCheckIn(bookings[b])
  /\ bookings'[b] = [bookings[b] EXCEPT !.status = "checked_in"]

(* Statements that are not the one that writes to a booking.               *)
LEMMA OtherStepsKeepBookings ==
  ASSUME NEW q \in Request, Arrive(q) \/ Fail(q) \/ Execute(q),
         ~CreateInsert(q), ~PaymentSummarise(q), ~CheckInCommit(q), ~QuickCommit(q)
  PROVE  UNCHANGED bookings
PROOF
  <1>1. Abort(q) => UNCHANGED bookings
    BY DEF Abort, tables
  <1>2. CreateLocate(q) \/ CreateGuest(q) \/ CreateMark(q) => UNCHANGED bookings
    BY <1>1 DEF CreateLocate, CreateGuest, CreateMark, tables
  <1>3. PaymentVerify(q) \/ PaymentRecord(q) => UNCHANGED bookings
    BY <1>1 DEF PaymentVerify, PaymentRecord, tables
  <1>4. CheckInClaim(q) \/ CheckInOccupy(q) => UNCHANGED bookings
    BY <1>1 DEF CheckInClaim, CheckInOccupy, LockRoom, tables
  <1>5. CheckOutClose(q) \/ CheckOutSoil(q) \/ CheckOutTask(q) => UNCHANGED bookings
    BY <1>1 DEF CheckOutClose, CheckOutSoil, CheckOutTask, LockRoom, tables
  <1>6. QuickRegister(q) \/ QuickSeat(q) => UNCHANGED bookings
    BY <1>1 DEF QuickRegister, QuickSeat, LockRoom, tables
  <1>7. BillRead(q) \/ BillCharge(q) \/ SetStatus(q) \/ Search(q) => UNCHANGED bookings
    BY <1>1 DEF BillRead, BillCharge, SetStatus, Search, tables
  <1>8. Arrive(q) \/ Fail(q) => UNCHANGED bookings
    BY <1>1 DEF Arrive, Fail, tables
  <1> QED
    BY <1>2, <1>3, <1>4, <1>5, <1>6, <1>7, <1>8 DEF Execute

LEMMA BookingStep ==
  ASSUME FrontDeskInv, [Next]_vars, NEW b \in Request
  PROVE  bookings'[b] = bookings[b] \/ Inserted(b) \/ Summarised(b) \/ CheckedIn(b)
PROOF
  <1> USE DEF FrontDeskInv
  <1>1. CASE UNCHANGED vars \/ Quiescent
    BY <1>1 DEF Quiescent, vars, tables
  <1>2. CASE \E q \in Request : Arrive(q) \/ Execute(q) \/ Fail(q)
    <2>1. PICK q \in Request : Arrive(q) \/ Execute(q) \/ Fail(q)
      BY <1>2
    <2>2. CASE Abort(q)
      BY <2>2 DEF Abort, tables
    <2>3. CASE CreateInsert(q) /\ ~Abort(q)
      <3>1. pc[q] = "insert" /\ bookings' = [bookings EXCEPT ![q] = NewBooking(call[q])]
        BY <2>3 DEF CreateInsert
      <3>2. call[q] \in CreateCall /\ bookings[q] = NULL
        BY <3>1, HandlerOfStep DEF NotYetBooked
      <3>3. NewBooking(call[q]) \in BookingRow
        BY <3>2 DEF NewBooking, BookingRow, BookingStatus, CreateCall
      <3> QED
        BY <3>1, <3>2, <3>3 DEF Inserted, TypeOK
    <2>4. CASE PaymentSummarise(q) /\ ~Abort(q)
      <3> DEFINE c == call[q].booking
                 sum == history[c].sum
                 payment == SummaryStatus(sum, bookings[c].total)
      <3>1. /\ pc[q] = "summarise"
            /\ bookings' = [bookings EXCEPT ![c].paid = sum, ![c].payment = payment]
        BY <2>4 DEF PaymentSummarise
      <3>2. c \in Request /\ bookings[c] \in BookingRow
        BY <3>1, BookingOfStep DEF PaidBookingExists, TypeOK
      <3>3. bookings' = [bookings EXCEPT
                          ![c] = [bookings[c] EXCEPT !.paid = sum, !.payment = payment]]
        BY <3>1, <3>2 DEF TypeOK
      <3>4. sum \in Int /\ payment \in {"paid", "partial", "pending"}
        BY <3>2 DEF SummaryStatus, TypeOK
      <3> HIDE DEF c, sum, payment
      <3> QED
        BY <2>4, <3>2, <3>3, <3>4 DEF Summarised, TypeOK
    <2>5. CASE CheckInCommit(q)
      <3> DEFINE c == call[q].booking
      <3>1. /\ pc[q] = "commitIn"
            /\ bookings' = [bookings EXCEPT ![c].status = "checked_in"]
        BY <2>5 DEF CheckInCommit
      <3>2. c \in Request /\ bookings[c] \in BookingRow /\ CanCheckIn(bookings[c])
        BY <3>1, BookingOfStep DEF CheckedStatusIsNotStale, CanCheckIn, TypeOK
      <3> QED
        BY <3>1, <3>2 DEF CheckedIn, TypeOK
    <2>6. CASE QuickCommit(q)
      <3>1. pc[q] = "commitQuick" /\ bookings' = [bookings EXCEPT ![q] = WalkIn(call[q])]
        BY <2>6 DEF QuickCommit
      <3>2. call[q] \in QuickCall /\ bookings[q] = NULL
        BY <3>1, HandlerOfStep DEF NotYetBooked
      <3>3. WalkIn(call[q]) \in BookingRow
        BY <3>2 DEF WalkIn, BookingRow, BookingStatus, QuickCall
      <3> QED
        BY <3>1, <3>2, <3>3 DEF Inserted, TypeOK
    <2> QED
      BY <2>1, <2>2, <2>3, <2>4, <2>5, <2>6, OtherStepsKeepBookings
  <1> QED
    BY <1>1, <1>2 DEF Next

(* No step moves a booking back, or changes what was booked.               *)
LEMMA StepNeverMovesBack ==
  ASSUME FrontDeskInv, [Next]_vars, NEW b \in Request, bookings[b] # NULL
  PROVE  /\ bookings'[b] # NULL
         /\ Progress(bookings'[b]) >= Progress(bookings[b])
         /\ bookings'[b].assigned = bookings[b].assigned
         /\ bookings'[b].room = bookings[b].room
         /\ bookings'[b].stay = bookings[b].stay
         /\ bookings'[b].total = bookings[b].total
PROOF
  <1>1. CASE bookings'[b] = bookings[b]
    BY <1>1 DEF Progress
  <1>2. CASE Inserted(b)
    BY <1>2 DEF Inserted
  <1>3. CASE Summarised(b)
    <2>1. PICK paid \in Int, payment \in {"paid", "partial", "pending"} :
            bookings'[b] = [bookings[b] EXCEPT !.paid = paid, !.payment = payment]
      BY <1>3 DEF Summarised
    <2>2. bookings[b] \in BookingRow
      BY <1>3 DEF Summarised
    <2>3. /\ bookings'[b] \in BookingRow
          /\ bookings'[b].status = bookings[b].status
          /\ bookings'[b].assigned = bookings[b].assigned
          /\ bookings'[b].room = bookings[b].room
          /\ bookings'[b].stay = bookings[b].stay
          /\ bookings'[b].total = bookings[b].total
      BY <2>1, <2>2 DEF BookingRow
    <2> QED
      BY <2>3, FrontDeskAssumption DEF Progress
  <1>4. CASE CheckedIn(b)
    <2>1. bookings'[b] \in BookingRow
      BY <1>4 DEF CheckedIn, BookingRow, BookingStatus
    <2>2. /\ bookings'[b].status = "checked_in"
          /\ bookings[b].status \notin {"checked_in", "checked_out"}
          /\ bookings'[b].assigned = bookings[b].assigned
          /\ bookings'[b].room = bookings[b].room
          /\ bookings'[b].stay = bookings[b].stay
          /\ bookings'[b].total = bookings[b].total
      BY <1>4 DEF CheckedIn, CanCheckIn, BookingRow
    <2> QED
      BY <2>1, <2>2, FrontDeskAssumption DEF Progress
  <1> QED
    BY <1>1, <1>2, <1>3, <1>4, BookingStep

(* For every booking, in every behaviour: its status only goes forward and *)
(* its rooms, stay and total stay what they were when it was booked.       *)
THEOREM NeverMovesBack == Spec => BookingNeverMovesBack
PROOF
  <1>1. FrontDeskInv /\ [Next]_vars =>
          [\A b \in Request : bookings[b] # NULL =>
             LET old == bookings[b]  new == bookings'[b] IN
             /\ new # NULL
             /\ Progress(new) >= Progress(old)
             /\ new.assigned = old.assigned /\ new.room = old.room
             /\ new.stay = old.stay
             /\ new.total = old.total \/ Progress(new) = 2]_bookings
    BY StepNeverMovesBack
  <1> QED
    BY <1>1, FrontDeskInvariant, PTL DEF Spec, BookingNeverMovesBack
-----------------------------------------------------------------------------
(* A step moves one request, and only its arrival says what it asks for.   *)
LEMMA StepMovesOneRequest ==
  ASSUME TypeOK, NEW q \in Request, Execute(q) \/ Fail(q)
  PROVE  /\ UNCHANGED call
         /\ \A p \in Request \ {q} : pc'[p] = pc[p]
PROOF
  <1>1. (\E s : Goto(q, s)) => \A p \in Request \ {q} : pc'[p] = pc[p]
    BY DEF Goto, TypeOK
  <1>2. Abort(q) => UNCHANGED call /\ \E s : Goto(q, s)
    BY DEF Abort
  <1>3. Reply(q) => \E s : Goto(q, s)
    BY DEF Reply
  <1>4. ASSUME NEW r, NEW next, LockRoom(q, r, next)
        PROVE  UNCHANGED call /\ \E s : Goto(q, s)
    BY <1>4 DEF LockRoom
  <1>5. CreateLocate(q) \/ CreateGuest(q) \/ CreateInsert(q) \/ CreateMark(q)
          => UNCHANGED call /\ \E s : Goto(q, s)
    BY <1>2, <1>3 DEF CreateLocate, CreateGuest, CreateInsert, CreateMark
  <1>6. PaymentVerify(q) \/ PaymentRecord(q) \/ PaymentSummarise(q)
          => UNCHANGED call /\ \E s : Goto(q, s)
    BY <1>2, <1>3 DEF PaymentVerify, PaymentRecord, PaymentSummarise
  <1>7. CheckInClaim(q) \/ CheckInOccupy(q) \/ CheckInCommit(q)
          => UNCHANGED call /\ \E s : Goto(q, s)
    BY <1>2, <1>3, <1>4 DEF CheckInClaim, CheckInOccupy, CheckInCommit
  <1>8. CheckOutClose(q) \/ CheckOutSoil(q) \/ CheckOutTask(q)
          => UNCHANGED call /\ \E s : Goto(q, s)
    BY <1>2, <1>4 DEF CheckOutClose, CheckOutSoil, CheckOutTask
  <1>9. QuickRegister(q) \/ QuickSeat(q) \/ QuickCommit(q)
          => UNCHANGED call /\ \E s : Goto(q, s)
    BY <1>2, <1>3, <1>4 DEF QuickRegister, QuickSeat, QuickCommit
  <1>10. BillRead(q) \/ BillCharge(q) \/ SetStatus(q) \/ Search(q)
          => UNCHANGED call /\ \E s : Goto(q, s)
    BY <1>2, <1>3 DEF BillRead, BillCharge, SetStatus, Search
  <1>11. Fail(q) => UNCHANGED call /\ \E s : Goto(q, s)
    BY <1>2 DEF Fail
  <1> QED
    BY <1>1, <1>5, <1>6, <1>7, <1>8, <1>9, <1>10, <1>11 DEF Execute

(* An acknowledged check-in is the last step of the transaction that       *)
(* checked the guest in: no other statement acknowledges one.              *)
LEMMA AcknowledgedByCommit ==
  ASSUME TypeOK, NEW q \in Request, Execute(q) \/ Fail(q),
         call[q] \in CheckInCall, pc'[q] = "ok"
  PROVE  CheckInCommit(q)
PROOF
  <1>1. ~Abort(q)
    BY DEF Abort, Goto, TypeOK
  <1>2. /\ call[q] \notin CreateCall /\ call[q] \notin PaymentCall
        /\ call[q] \notin CheckOutCall /\ call[q] \notin QuickCall
        /\ call[q] \notin BillCall /\ call[q] \notin StatusCall
        /\ call[q] \notin SearchCall
    BY DEF CreateCall, PaymentCall, CheckInCall, CheckOutCall, QuickCall, BillCall,
           StatusCall, SearchCall
  <1>3. ~CreateLocate(q) /\ ~CreateGuest(q) /\ ~CreateInsert(q) /\ ~CreateMark(q)
    BY <1>2, HandlerOfStep DEF CreateLocate, CreateGuest, CreateInsert, CreateMark
  <1>4. ~PaymentVerify(q) /\ ~PaymentRecord(q) /\ ~PaymentSummarise(q)
    BY <1>2, HandlerOfStep DEF PaymentVerify, PaymentRecord, PaymentSummarise
  <1>5. ~CheckOutClose(q) /\ ~CheckOutSoil(q) /\ ~CheckOutTask(q)
    BY <1>2, HandlerOfStep DEF CheckOutClose, CheckOutSoil, CheckOutTask
  <1>6. ~QuickRegister(q) /\ ~QuickSeat(q) /\ ~QuickCommit(q)
    BY <1>2, HandlerOfStep DEF QuickRegister, QuickSeat, QuickCommit
  <1>7. ~BillRead(q) /\ ~BillCharge(q) /\ ~SetStatus(q) /\ ~Search(q)
    BY <1>2, HandlerOfStep DEF BillRead, BillCharge, SetStatus, Search
  <1>8. ~CheckInClaim(q) /\ ~CheckInOccupy(q)
    BY <1>1 DEF CheckInClaim, CheckInOccupy, LockRoom, Goto, TypeOK
  <1> QED
    BY <1>1, <1>3, <1>4, <1>5, <1>6, <1>7, <1>8 DEF Execute, Fail

(* The two facts about acknowledged check-ins need each other: a second    *)
(* commit would find the booking checked in, which CanCheckIn excludes.    *)
CheckInInv == FrontDeskInv /\ OneCheckInPerBooking /\ AcknowledgedCheckInHolds

LEMMA AcknowledgedCall ==
  ASSUME TypeOK, NEW q \in Acknowledged("completeCheckIn")
  PROVE  q \in Request /\ call[q] \in CheckInCall /\ call[q].booking \in Request
PROOF
  <1>1. q \in Request /\ pc[q] = "ok" /\ call[q].op = "completeCheckIn"
    BY DEF Acknowledged
  <1>2. call[q] \in Body
    BY <1>1, HandlerOfStep
  <1> QED
    BY <1>1, <1>2 DEF Body, CreateCall, PaymentCall, CheckInCall, CheckOutCall, QuickCall,
                      BillCall, StatusCall, SearchCall

LEMMA NextKeepsCheckIns == CheckInInv /\ [Next]_vars => CheckInInv'
PROOF
  <1> SUFFICES ASSUME CheckInInv, [Next]_vars PROVE CheckInInv'
    OBVIOUS
  <1> USE DEF CheckInInv
  <1> DEFINE acked == Acknowledged("completeCheckIn")
  <1>1. FrontDeskInv' /\ TypeOK /\ TypeOK'
    BY NextKeepsInv DEF FrontDeskInv
  <1>2. \A b \in Request :
          bookings[b] # NULL /\ bookings[b].status \in {"checked_in", "checked_out"}
            => bookings'[b] # NULL /\ bookings'[b].status \in {"checked_in", "checked_out"}
    BY StepNeverMovesBack DEF Progress
  <1>3. ASSUME \A p \in acked' : p \in acked /\ call'[p] = call[p]
        PROVE  CheckInInv'
    <2>1. OneCheckInPerBooking'
      BY <1>3 DEF OneCheckInPerBooking
    <2>2. AcknowledgedCheckInHolds'
      BY <1>2, <1>3, <1>1, AcknowledgedCall DEF AcknowledgedCheckInHolds
    <2> QED
      BY <1>1, <2>1, <2>2
  <1>4. CASE UNCHANGED vars \/ Quiescent
    BY <1>3, <1>4 DEF Quiescent, vars, Acknowledged
  <1>5. ASSUME NEW q \in Request, Arrive(q)
        PROVE  CheckInInv'
    <2>1. PICK c \in Call : call' = [call EXCEPT ![q] = c] /\ Goto(q, FirstStep[c.op])
      BY <1>5 DEF Arrive
    <2>2. FirstStep[c.op] # "ok"
      BY FrontDeskAssumption
         DEF Body, FirstStep, CreateCall, PaymentCall, CheckInCall, CheckOutCall, QuickCall,
             BillCall, StatusCall, SearchCall
    <2> QED
      BY <1>1, <1>3, <2>1, <2>2 DEF Acknowledged, Goto, TypeOK
  <1>6. ASSUME NEW q \in Request, Execute(q) \/ Fail(q)
        PROVE  CheckInInv'
    <2>1. UNCHANGED call /\ \A p \in Request \ {q} : pc'[p] = pc[p]
      BY <1>1, <1>6, StepMovesOneRequest
    <2>2. CASE q \notin acked'
      BY <1>3, <2>1, <2>2 DEF Acknowledged
    <2>3. CASE q \in acked'
      <3> DEFINE b == call[q].booking
      <3>1. call[q] \in CheckInCall /\ pc'[q] = "ok"
        <4>1. pc'[q] = "ok" /\ call'[q] = call[q] /\ call[q].op = "completeCheckIn"
          BY <2>1, <2>3 DEF Acknowledged
        <4>2. call[q] \in Body
          BY <1>1, <4>1 DEF TypeOK
        <4> QED
          BY <4>1, <4>2 DEF Body, CreateCall, PaymentCall, CheckInCall, CheckOutCall,
                            QuickCall, BillCall, StatusCall, SearchCall
      <3>2. CheckInCommit(q)
        BY <1>1, <1>6, <3>1, AcknowledgedByCommit
      <3>3. b \in Request /\ CanCheckIn(bookings[b]) /\ bookings[b] \in BookingRow
        BY <1>1, <3>1, <3>2
           DEF CheckInCommit, CheckInCall, FrontDeskInv, CheckedStatusIsNotStale, CanCheckIn,
               TypeOK
      <3>4. bookings'[b] # NULL /\ bookings'[b].status \in {"checked_in", "checked_out"}
        <4>1. bookings' = [bookings EXCEPT ![b] = [bookings[b] EXCEPT !.status = "checked_in"]]
          BY <1>1, <3>2, <3>3 DEF CheckInCommit, TypeOK
        <4> QED
          BY <1>1, <3>3, <4>1, StepNeverMovesBack DEF BookingRow, CanCheckIn, TypeOK
      <3>5. \A p \in acked : call[p].booking # b
        BY <3>3 DEF AcknowledgedCheckInHolds, CanCheckIn
      <3>6. \A p \in acked' : p \in acked \/ p = q
        BY <2>1 DEF Acknowledged
      <3>7. OneCheckInPerBooking'
        BY <2>1, <3>5, <3>6 DEF OneCheckInPerBooking
      <3>8. AcknowledgedCheckInHolds'
        BY <1>1, <1>2, <2>1, <3>4, <3>6, AcknowledgedCall DEF AcknowledgedCheckInHolds
      <3> QED
        BY <1>1, <3>7, <3>8
    <2> QED
      BY <2>2, <2>3
  <1> QED
    BY <1>4, <1>5, <1>6 DEF Next

LEMMA CheckInInvariant == Spec => []CheckInInv
PROOF
  <1>1. Init => CheckInInv
    BY InitEstablishesInv
       DEF Init, CheckInInv, OneCheckInPerBooking, AcknowledgedCheckInHolds, Acknowledged
  <1> QED
    BY <1>1, NextKeepsCheckIns, PTL DEF Spec

(* However many clients ask for it, and however their statements and their *)
(* failures interleave, one check-in of a booking at most is acknowledged. *)
THEOREM CheckInIsOnce == Spec => []OneCheckInPerBooking
PROOF
  BY CheckInInvariant, PTL DEF CheckInInv

(* The booking of an acknowledged check-in is checked in for ever after,   *)
(* or checked out: no rollback and no late statement takes it back.        *)
THEOREM CheckInHolds == Spec => []AcknowledgedCheckInHolds
PROOF
  BY CheckInInvariant, PTL DEF CheckInInv
=============================================================================
