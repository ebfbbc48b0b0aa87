----------------------- MODULE FrontDeskTransactionProofs -----------------------
(***************************************************************************)
(* What the transactions of CheckinService achieve with their row locks,   *)
(* for every set of requests and rooms and with any failures: no lock      *)
(* outlives its transaction, quickCheckIn commits everything or nothing,   *)
(* and a walk-in's room is not made available behind the staff's back.     *)
(* With what the payments achieve (FrontDeskPaymentProofs), the front desk *)
(* implements BookingLedger: all its statements, locks, failures and       *)
(* retries show of a booking is a behaviour of the ledger, in which every  *)
(* step is atomic.                                                         *)
(***************************************************************************)
EXTENDS FrontDeskPaymentProofs

(* The statements before which a transaction has locked a row.             *)
Holding == {"occupy", "commitIn", "soil", "task", "seat", "commitQuick"}

(* What a step of request q can do to the locks: leave them alone, give    *)
(* all of its own back, lock the booking it updates or inserts, or, with   *)
(* the booking already locked, lock a room that exists.                    *)
KeepsLocks(q) == UNCHANGED locks /\ pc[q] \notin Holding

FreesLocks(q) ==
  /\ bookingLock' = Release(bookingLock, q)
  /\ roomLock' = Release(roomLock, q)
  /\ pc'[q] \in {"ok", "failed"}

LocksABooking(q) ==
  /\ pc[q] \notin Holding \cup {"idle"}
  /\ \E b \in Request :
       /\ bookingLock' = [bookingLock EXCEPT ![b] = q]
       /\ \/ pc'[q] \in {"occupy", "soil"} /\ b = call[q].booking
          \/ pc'[q] = "seat" /\ b = q
  /\ UNCHANGED roomLock

LocksARoom(q) ==
  /\ \/ pc[q] = "occupy" /\ pc'[q] = "commitIn"
     \/ pc[q] = "soil" /\ pc'[q] = "task"
     \/ pc[q] = "seat" /\ pc'[q] = "commitQuick"
  /\ \A r \in Room : \/ roomLock'[r] = roomLock[r]
                     \/ roomLock[r] = NULL /\ roomLock'[r] = q /\ rooms[r] # NULL
  /\ UNCHANGED bookingLock

LEMMA LockStep ==
  ASSUME FrontDeskInv, NEW q \in Request, Arrive(q) \/ Execute(q) \/ Fail(q)
  PROVE  KeepsLocks(q) \/ FreesLocks(q) \/ LocksABooking(q) \/ LocksARoom(q)
PROOF
  <1> USE DEF FrontDeskInv
  <1>1. \A s : Goto(q, s) => pc'[q] = s
    BY DEF Goto, TypeOK
  <1>2. Abort(q) => FreesLocks(q)
    BY <1>1 DEF Abort, FreesLocks
  <1>3. Arrive(q) => KeepsLocks(q)
    BY DEF Arrive, KeepsLocks, Holding
  <1>4. Fail(q) => FreesLocks(q)
    BY <1>2 DEF Fail
  <1>5. CreateLocate(q) \/ CreateGuest(q) \/ CreateInsert(q) \/ CreateMark(q)
          => KeepsLocks(q) \/ FreesLocks(q)
    BY <1>2 DEF CreateLocate, CreateGuest, CreateInsert, CreateMark, KeepsLocks, Holding
  <1>6. PaymentVerify(q) \/ PaymentRecord(q) \/ PaymentSummarise(q)
          => KeepsLocks(q) \/ FreesLocks(q)
    BY <1>2 DEF PaymentVerify, PaymentRecord, PaymentSummarise, KeepsLocks, Holding, locks
  <1>7. CheckInClaim(q) \/ CheckOutClose(q) => FreesLocks(q) \/ LocksABooking(q)
    BY <1>1, <1>2, BookingOfStep DEF CheckInClaim, CheckOutClose, LocksABooking, Holding
  <1>8. QuickRegister(q) => FreesLocks(q) \/ LocksABooking(q)
    BY <1>1, <1>2 DEF QuickRegister, LocksABooking, Holding
  <1>9. ASSUME NEW r, NEW next, LockRoom(q, r, next)
        PROVE  /\ pc'[q] = next
               /\ \A x \in Room : \/ roomLock'[x] = roomLock[x]
                                  \/ /\ roomLock[x] = NULL /\ roomLock'[x] = q
                                     /\ rooms[x] # NULL
               /\ UNCHANGED bookingLock
    BY <1>1, <1>9 DEF LockRoom, RowFree, TypeOK
  <1>10. CheckInOccupy(q) \/ CheckOutSoil(q) \/ QuickSeat(q) => LocksARoom(q)
    BY <1>9 DEF CheckInOccupy, CheckOutSoil, QuickSeat, LocksARoom
  <1>11. CheckInCommit(q) \/ QuickCommit(q) \/ CheckOutTask(q) => FreesLocks(q)
    BY <1>1, <1>2 DEF CheckInCommit, QuickCommit, CheckOutTask, Reply, FreesLocks
  <1>12. BillRead(q) \/ BillCharge(q) \/ SetStatus(q) \/ Search(q)
          => KeepsLocks(q) \/ FreesLocks(q)
    BY <1>2 DEF BillRead, BillCharge, SetStatus, Search, KeepsLocks, Holding, locks
  <1> QED
    BY <1>3, <1>4, <1>5, <1>6, <1>7, <1>8, <1>10, <1>11, <1>12 DEF Execute

(* The other requests do not move, and a request that has called anything  *)
(* keeps its body.                                                         *)
LEMMA OthersStay ==
  ASSUME TypeOK, NEW q \in Request, Arrive(q) \/ Execute(q) \/ Fail(q)
  PROVE  /\ \A p \in Request \ {q} : pc'[p] = pc[p] /\ call'[p] = call[p]
         /\ pc[q] # "idle" => call'[q] = call[q]
         /\ pc[q] \notin {"ok", "failed"}
PROOF
  <1>1. CASE Arrive(q)
    BY <1>1 DEF Arrive, Goto, TypeOK
  <1>2. CASE Execute(q) \/ Fail(q)
    <2>1. pc[q] \notin {"ok", "failed"}
      BY <1>2 DEF Execute, Fail, Step, CreateLocate, CreateGuest, CreateInsert, CreateMark,
                  PaymentVerify, PaymentRecord, PaymentSummarise, CheckInClaim,
                  CheckInOccupy, CheckInCommit, CheckOutClose, CheckOutSoil, CheckOutTask,
                  QuickRegister, QuickSeat, QuickCommit, BillRead, BillCharge, SetStatus,
                  Search
    <2> QED
      BY <1>2, <2>1, StepMovesOneRequest
  <1> QED
    BY <1>1, <1>2
-----------------------------------------------------------------------------
LockInv == FrontDeskInv /\ LocksBelongToOpenTransactions

LEMMA StepKeepsLocks ==
  ASSUME LockInv, NEW q \in Request, Arrive(q) \/ Execute(q) \/ Fail(q)
  PROVE  LocksBelongToOpenTransactions'
PROOF
  <1> USE DEF LockInv
  <1> DEFINE OwnsBooking(p, b) ==
               \/ pc[p] \in {"occupy", "commitIn", "soil", "task"} /\ b = call[p].booking
               \/ pc[p] \in {"seat", "commitQuick"} /\ b = p
             OwnsRoom(p) == pc[p] \in {"commitIn", "task", "commitQuick"}
  <1>1. TypeOK
    BY DEF FrontDeskInv
  <1>2. /\ \A p \in Request \ {q} : pc'[p] = pc[p] /\ call'[p] = call[p]
        /\ pc[q] # "idle" => call'[q] = call[q]
    BY <1>1, OthersStay
  <1>3. /\ \A b \in Request : bookingLock[b] # NULL =>
             bookingLock[b] \in Request /\ OwnsBooking(bookingLock[b], b)
        /\ \A r \in Room : roomLock[r] # NULL =>
             roomLock[r] \in Request /\ OwnsRoom(roomLock[r])
    BY <1>1 DEF LocksBelongToOpenTransactions, TypeOK
  <1>4. SUFFICES /\ \A b \in Request : bookingLock'[b] # NULL => OwnsBooking(bookingLock[b], b)'
                 /\ \A r \in Room : roomLock'[r] # NULL => OwnsRoom(roomLock[r])'
    BY DEF LocksBelongToOpenTransactions
  <1>5. CASE KeepsLocks(q)
    BY <1>2, <1>3, <1>5 DEF KeepsLocks, Holding, locks
  <1>6. CASE FreesLocks(q)
    <2>1. /\ \A b \in Request : bookingLock'[b] # NULL =>
               bookingLock'[b] = bookingLock[b] /\ bookingLock[b] # q
          /\ \A r \in Room : roomLock'[r] # NULL =>
               roomLock'[r] = roomLock[r] /\ roomLock[r] # q
      BY <1>1, <1>6 DEF FreesLocks, Release, TypeOK
    <2> QED
      BY <1>2, <1>3, <2>1
  <1>7. CASE LocksABooking(q)
    <2>1. PICK b \in Request :
            /\ bookingLock' = [bookingLock EXCEPT ![b] = q]
            /\ \/ pc'[q] \in {"occupy", "soil"} /\ b = call[q].booking
               \/ pc'[q] = "seat" /\ b = q
      BY <1>7 DEF LocksABooking
    <2>2. pc[q] \notin Holding \cup {"idle"} /\ UNCHANGED roomLock
      BY <1>7 DEF LocksABooking
    <2> QED
      BY <1>1, <1>2, <1>3, <2>1, <2>2 DEF Holding, TypeOK
  <1>8. CASE LocksARoom(q)
    BY <1>2, <1>3, <1>8 DEF LocksARoom
  <1> QED
    BY <1>5, <1>6, <1>7, <1>8, LockStep

LEMMA NextKeepsLocks == LockInv /\ [Next]_vars => LockInv'
PROOF
  <1> SUFFICES ASSUME LockInv, [Next]_vars PROVE LocksBelongToOpenTransactions'
    BY NextKeepsInv DEF LockInv
  <1>1. CASE UNCHANGED vars \/ Quiescent
    BY <1>1 DEF Quiescent, vars, locks, LockInv, LocksBelongToOpenTransactions
  <1>2. ASSUME NEW q \in Request, Arrive(q) \/ Execute(q) \/ Fail(q)
        PROVE  LocksBelongToOpenTransactions'
    BY <1>2, StepKeepsLocks
  <1> QED
    BY <1>1, <1>2 DEF Next

LEMMA LockInvariant == Spec => []LockInv
PROOF
  <1>1. Init => LockInv
    BY InitEstablishesInv DEF Init, LockInv, LocksBelongToOpenTransactions
  <1> QED
    BY <1>1, NextKeepsLocks, PTL DEF Spec

(* Whatever fails and whenever: a row that is locked is locked by a        *)
(* transaction that has updated it and is still open, so that its commit   *)
(* or rollback is there to free it.                                        *)
THEOREM NoLockIsLeftBehind == Spec => []LocksBelongToOpenTransactions
PROOF
  BY LockInvariant, PTL DEF LockInv
-----------------------------------------------------------------------------
LEMMA AskedRowsExist ==
  ASSUME FrontDeskInv, NEW q \in Request
  PROVE  AskedBookings(q) \subseteq Request /\ AskedRooms(q) \subseteq Room
PROOF
  <1>1. CASE pc[q] \in {"verify", "summarise", "claim", "close", "bill", "occupy", "soil"}
    <2> DEFINE row == bookings[call[q].booking]
    <2>1. TypeOK /\ call[q].booking \in Request
      BY <1>1, BookingOfStep DEF FrontDeskInv
    <2>2. row # NULL => row.room \in Room \cup {NULL}
      BY <2>1 DEF TypeOK, BookingRow
    <2>3. pc[q] \in {"occupy", "soil"} => row # NULL
      BY DEF FrontDeskInv, CheckedStatusIsNotStale, CanCheckIn, CanCheckOut
    <2>4. HasBill(call[q].booking) => row # NULL /\ row.room # NULL
      BY DEF HasBill
    <2>5. AskedRooms(q) \subseteq {row.room} \ {NULL} /\ (AskedRooms(q) # {} => row # NULL)
      BY <1>1, <2>3, <2>4 DEF AskedRooms
    <2> QED
      BY <1>1, <2>1, <2>2, <2>5 DEF AskedBookings
  <1>2. CASE pc[q] \in {"locate", "mark", "register", "seat", "setStatus"}
    <2>1. call[q].room \in Room
      BY <1>2, HandlerOfStep DEF FrontDeskInv, CreateCall, QuickCall, StatusCall
    <2> QED
      BY <1>2, <2>1 DEF AskedBookings, AskedRooms
  <1> QED
    BY <1>1, <1>2 DEF AskedBookings, AskedRooms

(* However many requests lock whatever bookings and rooms, no wait can     *)
(* close a circle: completeCheckIn, completeCheckOut and quickCheckIn lock *)
(* the booking before the room, and wait for nothing once they have both.  *)
THEOREM NoCircleOfWaits == Spec => []WaitsAreShort
PROOF
  <1>1. ASSUME LockInv, NEW h \in Request, pc[h] \in {"commitIn", "task", "commitQuick"}
        PROVE  pc[h] \in Step /\ Holders(h) = {}
    BY <1>1 DEF Step, Holders, AskedBookings, AskedRooms
  <1>2. ASSUME LockInv, NEW q \in Request, NEW h \in Holders(q)
        PROVE  /\ h \in Request /\ pc[h] \in Holding
               /\ AskedBookings(q) = {} => pc[h] \in {"commitIn", "task", "commitQuick"}
    BY <1>2, AskedRowsExist
       DEF LockInv, FrontDeskInv, LocksBelongToOpenTransactions, TypeOK, Holders, Holding
  <1>3. ASSUME LockInv, NEW q \in Request, NEW h \in Holders(q), NEW g \in Holders(h)
        PROVE  pc[g] \in Step /\ Holders(g) = {}
    <2>1. h \in Request /\ AskedBookings(h) = {}
      BY <1>2, <1>3 DEF AskedBookings, Holding
    <2> QED
      BY <1>1, <1>2, <1>3, <2>1
  <1>4. LockInv => WaitsAreShort
    BY <1>2, <1>3 DEF WaitsAreShort, Holding, Step
  <1> QED
    BY <1>4, LockInvariant, PTL
-----------------------------------------------------------------------------
(* Only a create, a bill and a walk-in write the guests and the charges,   *)
(* and each writes its own rows.                                           *)
LEMMA OwnRowsOnly ==
  ASSUME TypeOK, NEW q \in Request, Arrive(q) \/ Execute(q) \/ Fail(q)
  PROVE  \A p \in Request \ {q} : /\ p \in guests' <=> p \in guests
                                  /\ p \in charges' <=> p \in charges
PROOF
  <1>1. Abort(q) => UNCHANGED <<guests, charges>>
    BY DEF Abort, tables
  <1>2. Arrive(q) \/ Fail(q) => UNCHANGED <<guests, charges>>
    BY <1>1 DEF Arrive, Fail, tables
  <1>3. CreateLocate(q) \/ CreateInsert(q) \/ CreateMark(q) => UNCHANGED <<guests, charges>>
    BY <1>1 DEF CreateLocate, CreateInsert, CreateMark, tables
  <1>4. PaymentVerify(q) \/ PaymentRecord(q) \/ PaymentSummarise(q)
          => UNCHANGED <<guests, charges>>
    BY <1>1 DEF PaymentVerify, PaymentRecord, PaymentSummarise, tables
  <1>5. CheckInClaim(q) \/ CheckInOccupy(q) \/ CheckInCommit(q)
          => UNCHANGED <<guests, charges>>
    BY <1>1 DEF CheckInClaim, CheckInOccupy, CheckInCommit, LockRoom, tables
  <1>6. CheckOutClose(q) \/ CheckOutSoil(q) \/ CheckOutTask(q)
          => UNCHANGED <<guests, charges>>
    BY <1>1 DEF CheckOutClose, CheckOutSoil, CheckOutTask, LockRoom, tables
  <1>7. QuickRegister(q) \/ QuickSeat(q) => UNCHANGED <<guests, charges>>
    BY <1>1 DEF QuickRegister, QuickSeat, LockRoom, tables
  <1>8. BillRead(q) \/ SetStatus(q) \/ Search(q) => UNCHANGED <<guests, charges>>
    BY <1>1 DEF BillRead, SetStatus, Search, tables
  <1>9. CreateGuest(q) \/ BillCharge(q) \/ QuickCommit(q)
          => guests' \in {guests, guests \cup {q}} /\ charges' \in {charges, charges \cup {q}}
    BY <1>1 DEF CreateGuest, BillCharge, QuickCommit
  <1> QED
    BY <1>2, <1>3, <1>4, <1>5, <1>6, <1>7, <1>8, <1>9 DEF Execute

(* A booking's row is inserted by the request that it is named after.      *)
LEMMA OwnBookingOnly ==
  ASSUME FrontDeskInv, NEW q \in Request, Arrive(q) \/ Execute(q) \/ Fail(q)
  PROVE  \A p \in Request :
           \/ bookings'[p] # NULL <=> bookings[p] # NULL
           \/ p = q /\ (CreateInsert(q) \/ QuickCommit(q))
PROOF
  <1> USE DEF FrontDeskInv
  <1>1. ASSUME NEW p \in Request, bookings[p] # NULL
        PROVE  bookings'[p] # NULL
    <2>1. [Next]_vars
      BY DEF Next
    <2> QED
      BY <1>1, <2>1, StepNeverMovesBack
  <1>2. CASE CreateInsert(q) \/ QuickCommit(q)
    <2>1. UNCHANGED bookings \/ \E row : bookings' = [bookings EXCEPT ![q] = row]
      BY <1>2 DEF CreateInsert, QuickCommit, Abort, tables
    <2> QED
      BY <1>2, <2>1 DEF TypeOK
  <1>3. CASE PaymentSummarise(q) \/ CheckInCommit(q)
    <2> DEFINE c == call[q].booking
    <2>1. pc[q] \in {"summarise", "commitIn"} /\ c \in Request /\ bookings[c] # NULL
      BY <1>3, BookingOfStep
         DEF PaymentSummarise, CheckInCommit, PaidBookingExists, CheckedStatusIsNotStale,
             CanCheckIn
    <2>2. UNCHANGED bookings \/ \E row : bookings' = [bookings EXCEPT ![c] = row]
      <3>1. PaymentSummarise(q) =>
              \/ UNCHANGED bookings
              \/ bookings' = [bookings EXCEPT ![c].paid = history[c].sum,
                                ![c].payment = SummaryStatus(history[c].sum,
                                                             bookings[c].total)]
        BY DEF PaymentSummarise, Abort, tables
      <3>2. CheckInCommit(q) => bookings' = [bookings EXCEPT ![c].status = "checked_in"]
        BY DEF CheckInCommit
      <3>3. ASSUME NEW x, NEW y, bookings' = [bookings EXCEPT ![c].paid = x, ![c].payment = y]
            PROVE  bookings' = [bookings EXCEPT
                                  ![c] = [bookings[c] EXCEPT !.paid = x, !.payment = y]]
        BY <2>1, <3>3 DEF TypeOK
      <3> QED
        BY <1>3, <3>1, <3>2, <3>3
    <2> QED
      BY <1>1, <2>1, <2>2 DEF TypeOK
  <1>4. CASE ~CreateInsert(q) /\ ~QuickCommit(q) /\ ~PaymentSummarise(q)
              /\ ~CheckInCommit(q)
    BY <1>4, OtherStepsKeepBookings
  <1> QED
    BY <1>2, <1>3, <1>4

(* The step of a walk-in: its commit writes every table, any other         *)
(* statement and any failure writes none.                                  *)
LEMMA WalkInStep ==
  ASSUME TypeOK, NEW q \in Request, Execute(q) \/ Fail(q), call[q] \in QuickCall
  PROVE  \/ QuickCommit(q)
         \/ /\ UNCHANGED tables
            /\ pc'[q] \in {"seat", "commitQuick", "failed"}
            /\ pc'[q] = "commitQuick" => QuickSeat(q)
PROOF
  <1>1. \A s : Goto(q, s) => pc'[q] = s
    BY DEF Goto, TypeOK
  <1>2. /\ call[q] \notin CreateCall /\ call[q] \notin PaymentCall
        /\ call[q] \notin CheckOutCall /\ call[q] \notin CheckInCall
        /\ call[q] \notin BillCall /\ call[q] \notin StatusCall
        /\ call[q] \notin SearchCall
    BY DEF CreateCall, PaymentCall, CheckInCall, CheckOutCall, QuickCall, BillCall,
           StatusCall, SearchCall
  <1>3. ~CreateLocate(q) /\ ~CreateGuest(q) /\ ~CreateInsert(q) /\ ~CreateMark(q)
    BY <1>2, HandlerOfStep DEF CreateLocate, CreateGuest, CreateInsert, CreateMark
  <1>4. ~PaymentVerify(q) /\ ~PaymentRecord(q) /\ ~PaymentSummarise(q)
    BY <1>2, HandlerOfStep DEF PaymentVerify, PaymentRecord, PaymentSummarise
  <1>5. ~CheckInClaim(q) /\ ~CheckInOccupy(q) /\ ~CheckInCommit(q)
    BY <1>2, HandlerOfStep DEF CheckInClaim, CheckInOccupy, CheckInCommit
  <1>6. ~CheckOutClose(q) /\ ~CheckOutSoil(q) /\ ~CheckOutTask(q)
    BY <1>2, HandlerOfStep DEF CheckOutClose, CheckOutSoil, CheckOutTask
  <1>7. ~BillRead(q) /\ ~BillCharge(q) /\ ~SetStatus(q) /\ ~Search(q)
    BY <1>2, HandlerOfStep DEF BillRead, BillCharge, SetStatus, Search
  <1>8. Abort(q) => UNCHANGED tables /\ pc'[q] = "failed"
    BY <1>1 DEF Abort
  <1>9. QuickRegister(q) => UNCHANGED tables /\ pc'[q] \in {"seat", "failed"}
    BY <1>1, <1>8 DEF QuickRegister
  <1>10. QuickSeat(q) => UNCHANGED tables /\ pc'[q] = "commitQuick"
    BY <1>1 DEF QuickSeat, LockRoom
  <1> QED
    BY <1>3, <1>4, <1>5, <1>6, <1>7, <1>8, <1>9, <1>10 DEF Execute, Fail

(* The rows of a request that nobody has sent are not there.               *)
NothingBeforeArrival ==
  \A q \in Request : pc[q] = "idle" => q \notin guests /\ q \notin charges

WalkInInv == FrontDeskInv /\ NothingBeforeArrival /\ QuickCheckInAllOrNothing

LEMMA QuickOp ==
  ASSUME TypeOK, NEW q \in Request, pc[q] # "idle"
  PROVE  call[q].op = "quickCheckIn" <=> call[q] \in QuickCall
PROOF
  BY HandlerOfStep DEF Body, CreateCall, PaymentCall, CheckInCall, CheckOutCall, QuickCall,
                       BillCall, StatusCall, SearchCall

LEMMA StepKeepsWalkIns ==
  ASSUME WalkInInv, FrontDeskInv', NEW q \in Request, Arrive(q) \/ Execute(q) \/ Fail(q)
  PROVE  NothingBeforeArrival' /\ QuickCheckInAllOrNothing'
PROOF
  <1> USE DEF WalkInInv
  <1> DEFINE Whole(p) ==
               /\ p \in guests <=> bookings[p] # NULL /\ call[p].newGuest
               /\ p \in charges <=> bookings[p] # NULL /\ call[p].paid > 0
               /\ pc[p] = "ok" => bookings[p] # NULL
  <1>1. TypeOK /\ TypeOK'
    BY DEF FrontDeskInv
  <1>2. \A p \in Request \ {q} :
          /\ pc'[p] = pc[p] /\ call'[p] = call[p]
          /\ p \in guests' <=> p \in guests
          /\ p \in charges' <=> p \in charges
          /\ bookings'[p] # NULL <=> bookings[p] # NULL
    BY <1>1, OthersStay, OwnRowsOnly, OwnBookingOnly
  <1>3. pc'[q] # "idle"
    <2>1. CASE Arrive(q)
      <3>1. PICK c \in Call : call' = [call EXCEPT ![q] = c] /\ Goto(q, FirstStep[c.op])
        BY <2>1 DEF Arrive
      <3>2. c \in Body
        BY FrontDeskAssumption
      <3>3. FirstStep[c.op] # "idle"
        BY <3>2 DEF Body, FirstStep, CreateCall, PaymentCall, CheckInCall, CheckOutCall,
                    QuickCall, BillCall, StatusCall, SearchCall
      <3> QED
        BY <1>1, <3>1, <3>3 DEF Goto, TypeOK
    <2>2. CASE Execute(q) \/ Fail(q)
      <3>1. pc[q] # "idle"
        BY <2>2 DEF Execute, Fail, Step, CreateLocate, CreateGuest, CreateInsert, CreateMark,
                    PaymentVerify, PaymentRecord, PaymentSummarise, CheckInClaim,
                    CheckInOccupy, CheckInCommit, CheckOutClose, CheckOutSoil, CheckOutTask,
                    QuickRegister, QuickSeat, QuickCommit, BillRead, BillCharge, SetStatus,
                    Search
      <3>2. call'[q] = call[q] /\ call[q] \in Body
        BY <1>1, <2>2, <3>1, StepMovesOneRequest DEF TypeOK
      <3>3. "idle" \notin StepsOf[call[q].op]
        BY <3>2 DEF Body, StepsOf, CreateCall, PaymentCall, CheckInCall, CheckOutCall,
                    QuickCall, BillCall, StatusCall, SearchCall
      <3>4. call'[q] = NULL \/ pc'[q] \in StepsOf[call'[q].op] \cup {"ok", "failed"}
        BY <1>1 DEF TypeOK
      <3>5. call'[q] # NULL
        BY <3>2, FrontDeskAssumption
      <3> QED
        BY <3>2, <3>3, <3>4, <3>5
    <2> QED
      BY <2>1, <2>2
  <1>4. NothingBeforeArrival'
    BY <1>2, <1>3 DEF NothingBeforeArrival
  <1>5. ASSUME call'[q].op = "quickCheckIn" PROVE Whole(q)'
    <2>1. call'[q] \in QuickCall
      <3>1. call'[q] \in Body
        BY <1>1, <1>3 DEF TypeOK
      <3> QED
        BY <1>5, <3>1 DEF Body, CreateCall, PaymentCall, CheckInCall, CheckOutCall,
                          QuickCall, BillCall, StatusCall, SearchCall
    <2>2. CASE Arrive(q)
      <3>1. pc[q] = "idle" /\ UNCHANGED tables /\ pc'[q] # "ok"
        <4>1. PICK c \in Call : call' = [call EXCEPT ![q] = c] /\ Goto(q, FirstStep[c.op])
          BY <2>2 DEF Arrive
        <4>2. FirstStep[c.op] # "ok"
          BY <1>1, <1>5, <4>1 DEF FirstStep, TypeOK
        <4> QED
          BY <1>1, <2>2, <4>1, <4>2 DEF Arrive, Goto, TypeOK
      <3>2. q \notin guests /\ q \notin charges /\ bookings[q] = NULL
        BY <3>1 DEF NothingBeforeArrival, FrontDeskInv, NotYetBooked
      <3> QED
        BY <3>1, <3>2 DEF tables
    <2>3. CASE Execute(q) \/ Fail(q)
      <3>1. UNCHANGED call /\ call[q] \in QuickCall /\ pc[q] # "idle"
        <4>1. UNCHANGED call /\ call[q] \in QuickCall
          BY <1>1, <2>1, <2>3, StepMovesOneRequest
        <4>2. call[q] \in Body /\ NULL \notin Body
          BY <4>1, FrontDeskAssumption DEF Body
        <4>3. "idle" \notin StepsOf[call[q].op] \cup {"ok", "failed"}
          BY <4>1 DEF StepsOf, QuickCall
        <4> QED
          BY <1>1, <4>1, <4>2, <4>3 DEF TypeOK
      <3>2. CASE UNCHANGED tables /\ pc'[q] \in {"seat", "commitQuick", "failed"}
        BY <1>1, <3>1, <3>2, QuickOp DEF tables, QuickCheckInAllOrNothing
      <3>3. CASE QuickCommit(q)
        <4>1. /\ bookings' = [bookings EXCEPT ![q] = WalkIn(call[q])]
              /\ guests'  = IF call[q].newGuest THEN guests \cup {q} ELSE guests
              /\ charges' = IF call[q].paid > 0 THEN charges \cup {q} ELSE charges
              /\ pc[q] = "commitQuick"
          BY <3>3 DEF QuickCommit
        <4>2. WalkIn(call[q]) # NULL
          <5>1. WalkIn(call[q]) \in BookingRow
            BY <3>1 DEF WalkIn, BookingRow, BookingStatus, QuickCall
          <5> QED
            BY <5>1, FrontDeskAssumption
        <4>3. q \notin guests /\ q \notin charges
          <5>1. bookings[q] = NULL /\ call[q].op = "quickCheckIn"
            BY <1>1, <3>1, <4>1, QuickOp DEF FrontDeskInv, NotYetBooked
          <5> QED
            BY <3>1, <5>1 DEF QuickCheckInAllOrNothing
        <4>4. bookings'[q] # NULL
          BY <1>1, <4>1, <4>2 DEF TypeOK
        <4> QED
          BY <3>1, <4>1, <4>3, <4>4
      <3> QED
        BY <1>1, <2>3, <3>1, <3>2, <3>3, WalkInStep
    <2> QED
      BY <2>2, <2>3
  <1>6. ASSUME NEW p \in Request \ {q}, pc'[p] # "idle", call'[p].op = "quickCheckIn"
        PROVE  Whole(p)'
    BY <1>2, <1>6 DEF QuickCheckInAllOrNothing
  <1>7. QuickCheckInAllOrNothing'
    BY <1>5, <1>6 DEF QuickCheckInAllOrNothing
  <1> QED
    BY <1>4, <1>7

LEMMA NextKeepsWalkIns == WalkInInv /\ [Next]_vars => WalkInInv'
PROOF
  <1> SUFFICES ASSUME WalkInInv, [Next]_vars PROVE WalkInInv'
    OBVIOUS
  <1>1. FrontDeskInv'
    BY NextKeepsInv DEF WalkInInv
  <1>2. CASE UNCHANGED vars \/ Quiescent
    BY <1>1, <1>2
       DEF Quiescent, vars, tables, WalkInInv, NothingBeforeArrival, QuickCheckInAllOrNothing
  <1>3. ASSUME NEW q \in Request, Arrive(q) \/ Execute(q) \/ Fail(q)
        PROVE  WalkInInv'
    BY <1>1, <1>3, StepKeepsWalkIns DEF WalkInInv
  <1> QED
    BY <1>2, <1>3 DEF Next

LEMMA WalkInInvariant == Spec => []WalkInInv
PROOF
  <1>1. Init => WalkInInv
    BY InitEstablishesInv
       DEF Init, WalkInInv, NothingBeforeArrival, QuickCheckInAllOrNothing
  <1> QED
    BY <1>1, NextKeepsWalkIns, PTL DEF Spec

(* A walk-in's guest, booking and charge are committed together or not at  *)
(* all, wherever the request fails and whatever runs between its steps.    *)
THEOREM WalkInIsAllOrNothing == Spec => []QuickCheckInAllOrNothing
PROOF
  BY WalkInInvariant, PTL DEF WalkInInv
-----------------------------------------------------------------------------
(* A transaction locks only rooms that exist, and a walk-in that is about  *)
(* to commit has locked its room, if there is such a room.                 *)
LockedRoomExists == \A r \in Room : roomLock[r] # NULL => rooms[r] # NULL

SeatIsHeld ==
  \A q \in Request : pc[q] = "commitQuick" =>
    roomLock[call[q].room] = q \/ rooms[call[q].room] = NULL

SeatInv ==
  FrontDeskInv /\ LockedRoomExists /\ SeatIsHeld /\ WalkInRoomIsNotAvailable

(* The staff have asked for a status of room r, and have their answer.     *)
AskedFor(q, r) == Answered(q) /\ call[q] \in StatusCall /\ call[q].room = r

(* A room does not come or go, and only updateStatus makes it available.   *)
LEMMA RoomStep ==
  ASSUME FrontDeskInv, LockedRoomExists, NEW q \in Request,
         Arrive(q) \/ Execute(q) \/ Fail(q), NEW r \in Room
  PROVE  /\ rooms'[r] = NULL <=> rooms[r] = NULL
         /\ rooms'[r] = "available" => rooms[r] = "available" \/ AskedFor(q, r)'
PROOF
  <1> USE DEF FrontDeskInv
  <1>1. Abort(q) => UNCHANGED rooms
    BY DEF Abort, tables
  <1>2. Arrive(q) \/ Fail(q) => UNCHANGED rooms
    BY <1>1 DEF Arrive, Fail, tables
  <1>3. CreateLocate(q) \/ CreateGuest(q) \/ CreateInsert(q) => UNCHANGED rooms
    BY <1>1 DEF CreateLocate, CreateGuest, CreateInsert, tables
  <1>4. PaymentVerify(q) \/ PaymentRecord(q) \/ PaymentSummarise(q) => UNCHANGED rooms
    BY <1>1 DEF PaymentVerify, PaymentRecord, PaymentSummarise, tables
  <1>5. CheckInClaim(q) \/ CheckInOccupy(q) => UNCHANGED rooms
    BY <1>1 DEF CheckInClaim, CheckInOccupy, LockRoom, tables
  <1>6. CheckOutClose(q) \/ CheckOutSoil(q) \/ CheckOutTask(q) => UNCHANGED rooms
    BY <1>1 DEF CheckOutClose, CheckOutSoil, CheckOutTask, LockRoom, tables
  <1>7. QuickRegister(q) \/ QuickSeat(q) => UNCHANGED rooms
    BY <1>1 DEF QuickRegister, QuickSeat, LockRoom, tables
  <1>8. BillRead(q) \/ BillCharge(q) \/ Search(q) => UNCHANGED rooms
    BY <1>1 DEF BillRead, BillCharge, Search, tables
  <1>9. ASSUME NEW x \in Room, NEW s \in RoomStatus, rooms' = WithStatus(x, s)
        PROVE  /\ rooms'[r] = NULL <=> rooms[r] = NULL
               /\ rooms'[r] = rooms[r] \/ (rooms'[r] = s /\ r = x)
    <2>1. s # NULL
      BY FrontDeskAssumption
    <2>2. rooms \in [Room -> RoomStatus \cup {NULL}]
      BY DEF TypeOK
    <2>3. rooms'[r] = IF rooms[x] # NULL /\ r = x THEN s ELSE rooms[r]
      BY <1>9, <2>2 DEF WithStatus
    <2> QED
      BY <2>1, <2>3
  <1>10. CASE CreateMark(q)
    <2>1. PICK s \in {"advance", "occupied"} : rooms' = WithStatus(call[q].room, s)
      BY <1>10 DEF CreateMark
    <2>2. call[q].room \in Room
      BY <1>10, HandlerOfStep DEF CreateMark, CreateCall
    <2> QED
      BY <1>9, <2>1, <2>2 DEF RoomStatus
  <1>11. CASE SetStatus(q)
    <2>1. /\ pc[q] = "setStatus" /\ Reply(q) /\ UNCHANGED call
          /\ rooms' = WithStatus(call[q].room, call[q].status)
      BY <1>11 DEF SetStatus
    <2>2. call[q] \in StatusCall /\ call[q].room \in Room /\ call[q].status \in RoomStatus
      BY <2>1, HandlerOfStep DEF StatusCall
    <2>3. pc'[q] \in {"ok", "failed"}
      BY <2>1 DEF Reply, Goto, TypeOK
    <2> QED
      BY <1>9, <2>1, <2>2, <2>3 DEF AskedFor, Answered
  <1>12. CASE CheckInCommit(q) \/ QuickCommit(q)
    <2>1. rooms'[r] = IF roomLock[r] = q THEN "occupied" ELSE rooms[r]
      BY <1>12 DEF CheckInCommit, QuickCommit, CommitRooms
    <2>2. "occupied" # NULL /\ q # NULL
      BY FrontDeskAssumption DEF RoomStatus
    <2> QED
      BY <2>1, <2>2 DEF LockedRoomExists
  <1> QED
    BY <1>2, <1>3, <1>4, <1>5, <1>6, <1>7, <1>8, <1>10, <1>11, <1>12 DEF Execute

(* A walk-in comes to its commit only by locking its room.                 *)
LEMMA OnlySeatLeadsToCommit ==
  ASSUME FrontDeskInv, FrontDeskInv', NEW q \in Request,
         Arrive(q) \/ Execute(q) \/ Fail(q), pc'[q] = "commitQuick"
  PROVE  QuickSeat(q) /\ call[q] \in QuickCall /\ call'[q] = call[q]
PROOF
  <1>1. TypeOK /\ TypeOK'
    BY DEF FrontDeskInv
  <1>2. call'[q] \in Body /\ pc'[q] \in StepsOf[call'[q].op]
    BY <1>1 DEF TypeOK
  <1>3. call'[q] \in QuickCall
    BY <1>2 DEF Body, StepsOf, CreateCall, PaymentCall, CheckInCall, CheckOutCall,
                QuickCall, BillCall, StatusCall, SearchCall
  <1>4. ~Arrive(q)
    <2>1. ASSUME NEW c \in Call, Goto(q, FirstStep[c.op]) PROVE FALSE
      <3>1. FirstStep[c.op] # "commitQuick"
        BY FrontDeskAssumption
           DEF Body, FirstStep, CreateCall, PaymentCall, CheckInCall, CheckOutCall,
               QuickCall, BillCall, StatusCall, SearchCall
      <3> QED
        BY <1>1, <2>1, <3>1 DEF Goto, TypeOK
    <2> QED
      BY <2>1 DEF Arrive
  <1>5. UNCHANGED call
    BY <1>1, <1>4, StepMovesOneRequest
  <1>6. ~QuickCommit(q)
    BY <1>1 DEF QuickCommit, Reply, Goto, TypeOK
  <1> QED
    BY <1>1, <1>3, <1>4, <1>5, <1>6, WalkInStep

LEMMA StepKeepsSeats ==
  ASSUME SeatInv, FrontDeskInv', NEW q \in Request, Arrive(q) \/ Execute(q) \/ Fail(q)
  PROVE  LockedRoomExists' /\ SeatIsHeld' /\ WalkInRoomIsNotAvailable'
PROOF
  <1> USE DEF SeatInv
  <1>1. TypeOK /\ TypeOK' /\ NULL # q
    BY FrontDeskAssumption DEF FrontDeskInv
  <1>2. \A r \in Room : /\ rooms'[r] = NULL <=> rooms[r] = NULL
                        /\ rooms'[r] = "available"
                             => rooms[r] = "available" \/ AskedFor(q, r)'
    BY RoomStep
  <1>3. /\ \A p \in Request \ {q} : pc'[p] = pc[p] /\ call'[p] = call[p]
        /\ pc[q] \notin {"ok", "failed"}
    BY <1>1, OthersStay
  <1>4. \A r \in Room :
          \/ roomLock'[r] = roomLock[r]
          \/ roomLock[r] = q /\ roomLock'[r] = NULL
          \/ roomLock[r] = NULL /\ roomLock'[r] = q /\ rooms[r] # NULL
    BY <1>1, LockStep
       DEF KeepsLocks, FreesLocks, LocksABooking, LocksARoom, Release, locks, TypeOK
  <1>5. LockedRoomExists'
    BY <1>2, <1>4 DEF LockedRoomExists
  <1>6. SeatIsHeld'
    <2> SUFFICES ASSUME NEW p \in Request, pc'[p] = "commitQuick"
                 PROVE  roomLock'[call'[p].room] = p \/ rooms'[call'[p].room] = NULL
      BY DEF SeatIsHeld
    <2>1. CASE p # q
      <3>1. pc[p] = "commitQuick" /\ call'[p] = call[p] /\ p # NULL
        BY <1>3, <2>1, FrontDeskAssumption
      <3>2. call[p].room \in Room
        BY <1>1, <3>1, HandlerOfStep DEF QuickCall
      <3> QED
        BY <1>2, <1>4, <2>1, <3>1, <3>2 DEF SeatIsHeld
    <2>2. CASE p = q
      <3>1. QuickSeat(q) /\ call[q] \in QuickCall /\ call'[q] = call[q]
        BY <2>2, OnlySeatLeadsToCommit
      <3>2. call[q].room \in Room /\ call[q].room # NULL
        BY <3>1, FrontDeskAssumption DEF QuickCall
      <3> QED
        BY <1>1, <2>2, <3>1, <3>2 DEF QuickSeat, LockRoom, tables, TypeOK
    <2> QED
      BY <2>1, <2>2
  <1>7. WalkInRoomIsNotAvailable'
    <2> SUFFICES ASSUME NEW b \in Request, NEW r \in Room, bookings'[b] # NULL,
                        r = bookings'[b].room, rooms'[r] = "available"
                 PROVE  \E p \in Request : AskedFor(p, r)'
      BY DEF WalkInRoomIsNotAvailable, AskedFor, Answered
    <2>1. CASE bookings[b] # NULL
      <3>1. bookings[b].room = r
        <4>1. [Next]_vars
          BY DEF Next
        <4> QED
          BY <2>1, <4>1, StepNeverMovesBack
      <3>2. CASE rooms[r] = "available"
        <4>1. PICK p \in Request : AskedFor(p, r)
          BY <2>1, <3>1, <3>2 DEF WalkInRoomIsNotAvailable, AskedFor, Answered
        <4>2. p # q
          BY <1>3, <4>1 DEF AskedFor, Answered
        <4> QED
          BY <1>3, <4>1, <4>2 DEF AskedFor, Answered
      <3> QED
        BY <1>2, <3>2
    <2>2. CASE bookings[b] = NULL
      <3>1. b = q
        BY <2>2, OwnBookingOnly
      <3>2. CASE CreateInsert(q)
        <4>1. bookings' = [bookings EXCEPT ![q] = NewBooking(call[q])]
          BY <2>2, <3>1, <3>2 DEF CreateInsert, Abort, tables
        <4> QED
          BY <1>1, <3>1, <4>1, FrontDeskAssumption DEF NewBooking, TypeOK
      <3>3. CASE QuickCommit(q)
        <4>1. /\ bookings' = [bookings EXCEPT ![q] = WalkIn(call[q])]
              /\ rooms' = [x \in Room |-> IF roomLock[x] = q THEN "occupied" ELSE rooms[x]]
              /\ pc[q] = "commitQuick"
          BY <3>3 DEF QuickCommit, CommitRooms
        <4>2. r = call[q].room
          BY <1>1, <3>1, <4>1 DEF WalkIn, TypeOK
        <4>3. NULL # "available"
          BY FrontDeskAssumption DEF RoomStatus
        <4> QED
          BY <4>1, <4>2, <4>3 DEF SeatIsHeld
      <3> QED
        BY <2>2, <3>2, <3>3, OwnBookingOnly
    <2> QED
      BY <2>1, <2>2
  <1> QED
    BY <1>5, <1>6, <1>7

LEMMA NextKeepsSeats == SeatInv /\ [Next]_vars => SeatInv'
PROOF
  <1> SUFFICES ASSUME SeatInv, [Next]_vars PROVE SeatInv'
    OBVIOUS
  <1>1. FrontDeskInv'
    BY NextKeepsInv DEF SeatInv
  <1>2. CASE UNCHANGED vars \/ Quiescent
    BY <1>1, <1>2
       DEF Quiescent, vars, tables, locks, SeatInv, LockedRoomExists, SeatIsHeld,
           WalkInRoomIsNotAvailable, Answered
  <1>3. ASSUME NEW q \in Request, Arrive(q) \/ Execute(q) \/ Fail(q)
        PROVE  SeatInv'
    BY <1>1, <1>3, StepKeepsSeats DEF SeatInv
  <1> QED
    BY <1>2, <1>3 DEF Next

LEMMA SeatInvariant == Spec => []SeatInv
PROOF
  <1>1. Init => SeatInv
    BY InitEstablishesInv
       DEF Init, SeatInv, LockedRoomExists, SeatIsHeld, WalkInRoomIsNotAvailable
  <1> QED
    BY <1>1, NextKeepsSeats, PTL DEF Spec

(* However its statements interleave with creates, check-ins, check-outs   *)
(* and rollbacks, a room that a walk-in took is shown as available only    *)
(* after a request of the staff that named this room.                      *)
THEOREM WalkInKeepsItsRoom == Spec => []WalkInRoomIsNotAvailable
PROOF
  BY SeatInvariant, PTL DEF SeatInv
-----------------------------------------------------------------------------
(* The invariant of the refinement: a check-in commits for a guest who has *)
(* not been greeted, and a payment is received once.                       *)
LedgerInv == CheckInInv /\ PaymentInv

(* What the ledger shows of the bookings, the receipts and the greetings.  *)
Stages   == [b \in Request |-> StageOf(bookings[b])]
Received == [b \in Request |-> history[b].rows]
Receipts == Acknowledged("recordPayment")
Greeted  == {call[q].booking : q \in Acknowledged("completeCheckIn")}

LEMMA LedgerVars == Ledger!vars = <<Stages, Received, counted, Receipts, Greeted>>
PROOF
  BY DEF Ledger!vars, Stages, Received, Receipts, Greeted

LEMMA InitMapsToInit == Init => Ledger!Init
PROOF
  <1> SUFFICES ASSUME Init PROVE Ledger!Init
    OBVIOUS
  <1>1. \A op : Acknowledged(op) = {}
    BY DEF Init, Acknowledged
  <1>2. \A b \in Request : StageOf(bookings[b]) = "none" /\ history[b].rows = {}
    BY DEF Init, StageOf
  <1>3. counted = [b \in Request |-> {}]
    BY DEF Init
  <1> QED
    BY <1>1, <1>2, <1>3 DEF Ledger!Init

(* An answer of q is the only acknowledgement that its step adds.          *)
LEMMA AcknowledgedByStep ==
  ASSUME TypeOK, NEW q \in Request, Execute(q) \/ Fail(q)
  PROVE  /\ Receipts' = IF pc'[q] = "ok" /\ call[q].op = "recordPayment"
                        THEN Receipts \cup {q} ELSE Receipts
         /\ Greeted' = IF pc'[q] = "ok" /\ call[q].op = "completeCheckIn"
                       THEN Greeted \cup {call[q].booking} ELSE Greeted
PROOF
  <1>1. /\ UNCHANGED call /\ \A p \in Request \ {q} : pc'[p] = pc[p]
        /\ pc[q] # "ok"
    BY StepMovesOneRequest, OthersStay
  <1>2. \A op : Acknowledged(op)' = IF pc'[q] = "ok" /\ call[q].op = op
                                    THEN Acknowledged(op) \cup {q} ELSE Acknowledged(op)
    BY <1>1 DEF Acknowledged
  <1> QED
    BY <1>1, <1>2 DEF Receipts, Greeted

LEMMA ArrivalShowsNothing ==
  ASSUME TypeOK, NEW q \in Request, Arrive(q)
  PROVE  UNCHANGED <<Stages, Received, counted, Receipts, Greeted>>
PROOF
  <1>1. PICK c \in Call : call' = [call EXCEPT ![q] = c] /\ Goto(q, FirstStep[c.op])
    BY DEF Arrive
  <1>2. FirstStep[c.op] # "ok"
    BY FrontDeskAssumption
       DEF Body, FirstStep, CreateCall, PaymentCall, CheckInCall, CheckOutCall, QuickCall,
           BillCall, StatusCall, SearchCall
  <1>3. /\ pc[q] # "ok" /\ pc'[q] # "ok"
        /\ \A p \in Request \ {q} : pc'[p] = pc[p] /\ call'[p] = call[p]
        /\ UNCHANGED <<bookings, history, counted>>
    BY <1>1, <1>2 DEF Arrive, Goto, TypeOK, tables
  <1>4. \A op : Acknowledged(op)' = Acknowledged(op)
    BY <1>3 DEF Acknowledged
  <1>5. \A p \in Acknowledged("completeCheckIn") : call'[p] = call[p]
    BY <1>3 DEF Acknowledged
  <1> QED
    BY <1>3, <1>4, <1>5 DEF Stages, Received, Receipts, Greeted
-----------------------------------------------------------------------------
(* The five commits that the ledger shows, each as its action there.       *)

LEMMA InsertIsBook ==
  ASSUME LedgerInv, NEW q \in Request, CreateInsert(q), ~Abort(q)
  PROVE  Ledger!Book(q)
PROOF
  <1>1. TypeOK /\ FrontDeskInv
    BY DEF LedgerInv, CheckInInv, FrontDeskInv
  <1>2. /\ bookings' = [bookings EXCEPT ![q] = NewBooking(call[q])]
        /\ pc[q] = "insert" /\ pc'[q] = "mark"
        /\ UNCHANGED <<history, counted>>
    BY <1>1 DEF CreateInsert, Goto, TypeOK
  <1>3. bookings[q] = NULL /\ NewBooking(call[q]) # NULL
    <2>1. call[q] \in CreateCall
      BY <1>1, <1>2, HandlerOfStep
    <2>2. NewBooking(call[q]) \in BookingRow
      BY <2>1 DEF NewBooking, BookingRow, BookingStatus, CreateCall
    <2> QED
      BY <1>1, <1>2, <2>2, FrontDeskAssumption DEF FrontDeskInv, NotYetBooked
  <1>4. StageOf(bookings[q]) = "none" /\ StageOf(NewBooking(call[q])) = "confirmed"
    BY <1>3 DEF StageOf, NewBooking
  <1>5. Stages' = [Stages EXCEPT ![q] = "confirmed"] /\ Stages[q] = "none"
    BY <1>1, <1>2, <1>4 DEF Stages, TypeOK
  <1>6. UNCHANGED <<Received, counted, Receipts, Greeted>>
    <2>1. Execute(q)
      BY DEF Execute
    <2> QED
      BY <1>1, <1>2, <2>1, AcknowledgedByStep DEF Received
  <1> QED
    BY <1>5, <1>6 DEF Ledger!Book, Ledger!Move, Stages, Received, Receipts, Greeted

LEMMA QuickIsWalkIn ==
  ASSUME LedgerInv, NEW q \in Request, QuickCommit(q)
  PROVE  Ledger!WalkIn(q)
PROOF
  <1>1. TypeOK /\ FrontDeskInv
    BY DEF LedgerInv, CheckInInv, FrontDeskInv
  <1>2. /\ bookings' = [bookings EXCEPT ![q] = WalkIn(call[q])]
        /\ pc[q] = "commitQuick"
        /\ UNCHANGED <<history, counted>>
    BY DEF QuickCommit
  <1>3. call[q] \in QuickCall
    BY <1>1, <1>2, HandlerOfStep
  <1>4. bookings[q] = NULL /\ WalkIn(call[q]) # NULL
    <2>1. WalkIn(call[q]) \in BookingRow
      BY <1>3 DEF WalkIn, BookingRow, BookingStatus, QuickCall
    <2> QED
      BY <1>1, <1>2, <2>1, FrontDeskAssumption DEF FrontDeskInv, NotYetBooked
  <1>5. StageOf(bookings[q]) = "none" /\ StageOf(WalkIn(call[q])) = "checked_in"
    BY <1>4 DEF StageOf, WalkIn
  <1>6. Stages' = [Stages EXCEPT ![q] = "checked_in"] /\ Stages[q] = "none"
    BY <1>1, <1>2, <1>5 DEF Stages, TypeOK
  <1>7. UNCHANGED <<Received, counted, Receipts, Greeted>>
    <2>1. Execute(q)
      BY DEF Execute
    <2> QED
      BY <1>1, <1>2, <1>3, <2>1, AcknowledgedByStep DEF Received, QuickCall
  <1> QED
    BY <1>6, <1>7 DEF Ledger!WalkIn, Ledger!Move, Stages, Received, Receipts, Greeted

(* A booking whose check-in was confirmed is checked in for good, so a     *)
(* commit that still finds it confirmed greets its guest for the first time.*)
LEMMA CommitIsCheckIn ==
  ASSUME LedgerInv, NEW q \in Request, CheckInCommit(q),
         NEW b \in Request, b = call[q].booking
  PROVE  Ledger!CheckIn(b)
PROOF
  <1>1. TypeOK /\ FrontDeskInv
    BY DEF LedgerInv, CheckInInv, FrontDeskInv
  <1>2. /\ bookings' = [bookings EXCEPT ![b].status = "checked_in"]
        /\ pc[q] = "commitIn"
        /\ UNCHANGED <<history, counted>>
    BY DEF CheckInCommit
  <1>3. call[q] \in CheckInCall /\ b \in Request
    BY <1>1, <1>2, HandlerOfStep, BookingOfStep
  <1>4. CanCheckIn(bookings[b]) /\ bookings[b] \in BookingRow
    BY <1>1, <1>2, <1>3 DEF FrontDeskInv, CheckedStatusIsNotStale, CanCheckIn, TypeOK
  <1> DEFINE row == [bookings[b] EXCEPT !.status = "checked_in"]
  <1>5. bookings' = [bookings EXCEPT ![b] = row]
    BY <1>2
  <1>6. row \in BookingRow /\ row.status = "checked_in"
    BY <1>4 DEF BookingRow, BookingStatus
  <1>7. StageOf(bookings[b]) = "confirmed" /\ StageOf(row) = "checked_in"
    BY <1>4, <1>6, FrontDeskAssumption DEF StageOf, CanCheckIn
  <1> HIDE DEF row
  <1>8. Stages' = [Stages EXCEPT ![b] = "checked_in"] /\ Stages[b] = "confirmed"
    BY <1>1, <1>3, <1>5, <1>7 DEF Stages, TypeOK
  <1>9. b \notin Greeted
    BY <1>4 DEF LedgerInv, CheckInInv, AcknowledgedCheckInHolds, Greeted, CanCheckIn
  <1>10. UNCHANGED <<Received, counted, Receipts>> /\ Greeted' \in {Greeted, Greeted \cup {b}}
    <2>1. Execute(q)
      BY DEF Execute
    <2> QED
      BY <1>1, <1>2, <1>3, <2>1, AcknowledgedByStep DEF Received, CheckInCall
  <1> QED
    BY <1>8, <1>9, <1>10 DEF Ledger!CheckIn, Ledger!Move, Stages, Received, Receipts, Greeted

LEMMA RecordIsReceive ==
  ASSUME LedgerInv, NEW q \in Request, PaymentRecord(q), ~Abort(q),
         NEW b \in Request, b = call[q].booking
  PROVE  Ledger!Receive(b, q)
PROOF
  <1>1. TypeOK /\ FrontDeskInv /\ RowsAreRecorded
    BY DEF LedgerInv, PaymentInv, FrontDeskInv
  <1>2. /\ history' = [history EXCEPT ![b] = [rows |-> @.rows \cup {q},
                                             sum  |-> @.sum + call[q].amount]]
        /\ pc[q] = "record" /\ Goto(q, "summarise")
        /\ UNCHANGED <<bookings, counted>>
    BY DEF PaymentRecord
  <1>3. b \in Request /\ bookings[b] # NULL /\ bookings[b] \in BookingRow
    BY <1>1, <1>2, BookingOfStep DEF FrontDeskInv, PaidBookingExists, TypeOK
  <1>4. Stages[b] # "none"
    BY <1>3 DEF Stages, StageOf, BookingRow, BookingStatus
  <1>5. \A c \in Request : q \notin Received[c]
    BY <1>1, <1>2 DEF RowsAreRecorded, Received
  <1>6. Received' = [Received EXCEPT ![b] = @ \cup {q}]
    <2>1. /\ \A c \in Request \ {b} : history'[c] = history[c]
          /\ history'[b].rows = history[b].rows \cup {q}
      BY <1>1, <1>2, <1>3 DEF TypeOK
    <2> QED
      BY <1>3, <2>1 DEF Received
  <1>7. UNCHANGED <<Stages, counted, Receipts, Greeted>>
    <2>1. Execute(q) /\ pc'[q] # "ok"
      BY <1>1, <1>2 DEF Execute, Goto, TypeOK
    <2> QED
      BY <1>1, <1>2, <2>1, AcknowledgedByStep DEF Stages
  <1> QED
    BY <1>4, <1>5, <1>6, <1>7 DEF Ledger!Receive, Stages, Received, Receipts, Greeted

LEMMA SummariseIsSumUp ==
  ASSUME LedgerInv, NEW q \in Request, PaymentSummarise(q), ~Abort(q),
         NEW b \in Request, b = call[q].booking
  PROVE  Ledger!SumUp(b, q)
PROOF
  <1> DEFINE payment == SummaryStatus(history[b].sum, bookings[b].total)
             row == [bookings[b] EXCEPT !.paid = history[b].sum, !.payment = payment]
  <1>1. TypeOK /\ FrontDeskInv /\ RowsAreRecorded
    BY DEF LedgerInv, PaymentInv, FrontDeskInv
  <1>2. /\ bookings' = [bookings EXCEPT ![b].paid = history[b].sum, ![b].payment = payment]
        /\ counted' = [counted EXCEPT ![b] = history[b].rows]
        /\ pc[q] = "summarise"
        /\ UNCHANGED history
    BY DEF PaymentSummarise
  <1>3. /\ call[q] \in PaymentCall /\ b \in Request
        /\ bookings[b] # NULL /\ bookings[b] \in BookingRow /\ history[b].sum \in Int
    BY <1>1, <1>2, HandlerOfStep, BookingOfStep DEF FrontDeskInv, PaidBookingExists, TypeOK
  <1>4. q \in Received[b] /\ Received[b] = history[b].rows
    BY <1>1, <1>2, <1>3 DEF RowsAreRecorded, Received
  <1>5. payment \in {"paid", "partial", "pending"}
    BY DEF SummaryStatus
  <1>6. bookings' = [bookings EXCEPT ![b] = row]
    BY <1>1, <1>2, <1>3 DEF TypeOK
  <1>7. row \in BookingRow /\ row.status = bookings[b].status
    BY <1>3, <1>5 DEF BookingRow
  <1>8. StageOf(row) = StageOf(bookings[b])
    BY <1>3, <1>7, FrontDeskAssumption DEF StageOf
  <1> HIDE DEF row, payment
  <1>9. UNCHANGED Stages
    BY <1>1, <1>3, <1>6, <1>8 DEF Stages, TypeOK
  <1>10. UNCHANGED <<Received, Greeted>> /\ Receipts' \in {Receipts, Receipts \cup {q}}
    <2>1. Execute(q)
      BY DEF Execute
    <2> QED
      BY <1>1, <1>2, <1>3, <2>1, AcknowledgedByStep DEF Received, PaymentCall
  <1>11. counted' = [counted EXCEPT ![b] = Received[b]]
    BY <1>2, <1>4
  <1> QED
    BY <1>4, <1>9, <1>10, <1>11 DEF Ledger!SumUp, Stages, Received, Receipts, Greeted
-----------------------------------------------------------------------------
(* No other statement, and no failure, shows in the ledger.                *)
LEMMA OtherStepsShowNothing ==
  ASSUME LedgerInv, NEW q \in Request, Execute(q) \/ Fail(q),
         \/ Abort(q)
         \/ /\ ~CreateInsert(q) /\ ~QuickCommit(q) /\ ~CheckInCommit(q)
            /\ ~PaymentRecord(q) /\ ~PaymentSummarise(q)
  PROVE  UNCHANGED <<Stages, Received, counted, Receipts, Greeted>>
PROOF
  <1>1. TypeOK /\ FrontDeskInv
    BY DEF LedgerInv, CheckInInv, FrontDeskInv
  <1>2. CASE Abort(q)
    <2>1. pc'[q] = "failed" /\ UNCHANGED <<bookings, history, counted>>
      BY <1>1, <1>2 DEF Abort, Goto, TypeOK, tables
    <2> QED
      BY <1>1, <2>1, AcknowledgedByStep DEF Stages, Received
  <1>3. CASE ~Abort(q)
    <2>1. Execute(q)
      BY <1>3 DEF Fail
    <2>2. /\ UNCHANGED <<history, counted>>
          /\ pc[q] # "idle"
          /\ pc'[q] = "ok" => call[q].op # "recordPayment"
      BY <1>1, <1>3, <2>1, OtherStatements
    <2>3. UNCHANGED bookings
      BY <1>3, OtherStepsKeepBookings
    <2>4. pc'[q] = "ok" => call[q].op # "completeCheckIn"
      <3>1. call[q].op = "completeCheckIn" => call[q] \in CheckInCall
        BY <1>1, <2>2, HandlerOfStep
           DEF Body, CreateCall, PaymentCall, CheckInCall, CheckOutCall, QuickCall,
               BillCall, StatusCall, SearchCall
      <3> QED
        BY <1>1, <1>3, <3>1, AcknowledgedByCommit
    <2> QED
      BY <1>1, <2>2, <2>3, <2>4, AcknowledgedByStep DEF Stages, Received
  <1> QED
    BY <1>2, <1>3

LEMMA StepMapsToStep == LedgerInv /\ [Next]_vars => [Ledger!Next]_Ledger!vars
PROOF
  <1> SUFFICES ASSUME LedgerInv, [Next]_vars
               PROVE  Ledger!Next \/ UNCHANGED Ledger!vars
    OBVIOUS
  <1>1. TypeOK
    BY DEF LedgerInv, CheckInInv, FrontDeskInv
  <1>2. SUFFICES Ledger!Next \/ UNCHANGED <<Stages, Received, counted, Receipts, Greeted>>
    BY DEF Ledger!vars, Stages, Received, Receipts, Greeted
  <1>3. CASE UNCHANGED vars \/ Quiescent
    BY <1>3 DEF Quiescent, vars, tables, Stages, Received, Receipts, Greeted, Acknowledged
  <1>4. ASSUME NEW q \in Request, Arrive(q)
        PROVE  UNCHANGED <<Stages, Received, counted, Receipts, Greeted>>
    BY <1>1, <1>4, ArrivalShowsNothing
  <1>5. ASSUME NEW q \in Request, Execute(q) \/ Fail(q)
        PROVE  Ledger!Next \/ UNCHANGED <<Stages, Received, counted, Receipts, Greeted>>
    <2>1. CASE CreateInsert(q) /\ ~Abort(q)
      BY <2>1, InsertIsBook DEF Ledger!Next
    <2>2. CASE QuickCommit(q)
      BY <2>2, QuickIsWalkIn DEF Ledger!Next
    <2>3. CASE CheckInCommit(q)
      <3>1. PICK b \in Request : b = call[q].booking
        BY <1>1, <2>3, BookingOfStep DEF CheckInCommit
      <3>2. Ledger!CheckIn(b)
        BY <2>3, <3>1, CommitIsCheckIn
      <3> QED
        BY <3>2 DEF Ledger!Next
    <2>4. CASE (PaymentRecord(q) \/ PaymentSummarise(q)) /\ ~Abort(q)
      <3>1. PICK b \in Request : b = call[q].booking
        BY <1>1, <2>4, BookingOfStep DEF PaymentRecord, PaymentSummarise
      <3>2. Ledger!Receive(b, q) \/ Ledger!SumUp(b, q)
        BY <2>4, <3>1, RecordIsReceive, SummariseIsSumUp
      <3> QED
        BY <3>2 DEF Ledger!Next
    <2> QED
      BY <1>5, <2>1, <2>2, <2>3, <2>4, OtherStepsShowNothing
  <1> QED
    BY <1>3, <1>4, <1>5 DEF Next

(* Every behaviour of the front desk, with any number of requests in       *)
(* flight and any failures, is a behaviour of the ledger: a booking is     *)
(* made, greeted and left once, and a receipt stands for a counted payment.*)
THEOREM FrontDeskImplementsLedger == Spec => LedgerSpec
PROOF
  <1>1. Spec => []LedgerInv
    BY CheckInInvariant, PaymentInvariant, PTL DEF LedgerInv
  <1> QED
    BY <1>1, InitMapsToInit, StepMapsToStep, PTL DEF Spec, LedgerSpec, Ledger!Spec
=============================================================================
