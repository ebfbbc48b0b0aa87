------------------------ MODULE FrontDeskPaymentProofs ------------------------
(***************************************************************************)
(* What recordPayment achieves although its three statements are three     *)
(* transactions, for every set of requests and with any failures.          *)
(***************************************************************************)
EXTENDS FrontDeskProofs

(* A payment's row is there before it is summed up, and only then.         *)
RowsAreRecorded ==
  /\ \A q \in Request :
       pc[q] = "summarise" => q \in history[call[q].booking].rows
  /\ \A b, q \in Request :
       q \in history[b].rows => pc[q] \in {"summarise", "ok", "failed"}

(* No booking that does not exist has a payment.                           *)
PaymentsHaveABooking ==
  \A b \in Request : history[b].rows # {} => bookings[b] # NULL

PaymentInv ==
  /\ FrontDeskInv
  /\ RowsAreRecorded
  /\ PaymentsHaveABooking
  /\ AcknowledgedPaymentIsCounted
  /\ SummaryAgreesWithHistory
-----------------------------------------------------------------------------
(* A statement that does not touch the payments, and that is not rolled    *)
(* back, neither acknowledges a payment nor writes a summary.              *)
LEMMA OtherStatements ==
  ASSUME FrontDeskInv, NEW q \in Request, Execute(q),
         ~Abort(q), ~PaymentRecord(q), ~PaymentSummarise(q)
  PROVE  /\ UNCHANGED <<history, counted>>
         /\ pc[q] \notin {"idle", "record", "summarise", "ok", "failed"}
         /\ pc'[q] # "summarise"
         /\ pc'[q] = "ok" => call[q].op # "recordPayment"
PROOF
  <1> USE DEF FrontDeskInv
  <1>1. \A s : Goto(q, s) => pc'[q] = s
    BY DEF Goto, TypeOK
  <1>2. Reply(q) => pc'[q] \in {"ok", "failed"}
    BY <1>1 DEF Reply
  <1>3. ASSUME NEW r, NEW next, LockRoom(q, r, next)
        PROVE  UNCHANGED <<history, counted>> /\ pc'[q] = next
    BY <1>1, <1>3 DEF LockRoom, tables
  <1>4. CASE CreateLocate(q) \/ CreateGuest(q) \/ CreateInsert(q) \/ CreateMark(q)
    <2>1. /\ UNCHANGED <<history, counted>>
          /\ pc[q] \in {"locate", "guest", "insert", "mark"}
          /\ pc'[q] # "summarise"
      BY <1>1, <1>2, <1>4 DEF CreateLocate, CreateGuest, CreateInsert, CreateMark, tables
    <2> QED
      BY <2>1, HandlerOfStep DEF CreateCall
  <1>5. CASE PaymentVerify(q)
    BY <1>1, <1>5 DEF PaymentVerify, tables
  <1>6. CASE CheckInClaim(q) \/ CheckInOccupy(q) \/ CheckInCommit(q)
    <2>1. /\ UNCHANGED <<history, counted>>
          /\ pc[q] \in {"claim", "occupy", "commitIn"}
          /\ pc'[q] # "summarise"
      BY <1>1, <1>2, <1>3, <1>6 DEF CheckInClaim, CheckInOccupy, CheckInCommit, tables
    <2> QED
      BY <2>1, HandlerOfStep DEF CheckInCall
  <1>7. CASE CheckOutClose(q) \/ CheckOutSoil(q) \/ CheckOutTask(q)
    <2>1. /\ UNCHANGED <<history, counted>>
          /\ pc[q] \in {"close", "soil", "task"}
          /\ pc'[q] # "summarise"
      BY <1>1, <1>3, <1>7 DEF CheckOutClose, CheckOutSoil, CheckOutTask, tables
    <2> QED
      BY <2>1, HandlerOfStep DEF CheckOutCall
  <1>8. CASE QuickRegister(q) \/ QuickSeat(q) \/ QuickCommit(q)
    <2>1. /\ UNCHANGED <<history, counted>>
          /\ pc[q] \in {"register", "seat", "commitQuick"}
          /\ pc'[q] # "summarise"
      BY <1>1, <1>2, <1>3, <1>8 DEF QuickRegister, QuickSeat, QuickCommit, tables
    <2> QED
      BY <2>1, HandlerOfStep DEF QuickCall
  <1>9. CASE BillRead(q) \/ BillCharge(q) \/ SetStatus(q) \/ Search(q)
    <2>1. /\ UNCHANGED <<history, counted>>
          /\ pc[q] \in {"bill", "charge", "setStatus", "search"}
          /\ pc'[q] # "summarise"
      BY <1>1, <1>2, <1>9 DEF BillRead, BillCharge, SetStatus, Search, tables
    <2> QED
      BY <2>1, HandlerOfStep DEF BillCall, StatusCall, SearchCall
  <1> QED
    BY <1>4, <1>5, <1>6, <1>7, <1>8, <1>9 DEF Execute

LEMMA PaymentCallOf ==
  ASSUME TypeOK, NEW q \in Acknowledged("recordPayment")
  PROVE  q \in Request /\ pc[q] = "ok" /\ call[q] \in PaymentCall
PROOF
  BY HandlerOfStep
     DEF Acknowledged, Body, CreateCall, PaymentCall, CheckInCall, CheckOutCall, QuickCall,
         BillCall, StatusCall, SearchCall

(* A step that adds no payment and sums none up keeps the invariant if it  *)
(* acknowledges no payment and leaves what was recorded alone.             *)
LEMMA OtherStepsKeepPayments ==
  ASSUME PaymentInv, FrontDeskInv', [Next]_vars,
         UNCHANGED <<history, counted>>,
         \A p \in Request :
           /\ pc'[p] = "summarise" => pc[p] = "summarise" /\ call'[p] = call[p]
           /\ pc[p] \in {"summarise", "ok", "failed"}
                => pc'[p] \in {"summarise", "ok", "failed"}
           /\ p \in Acknowledged("recordPayment")'
                => p \in Acknowledged("recordPayment") /\ call'[p] = call[p],
         \A b \in Request : bookings'[b] = bookings[b] \/ Inserted(b) \/ CheckedIn(b)
  PROVE  PaymentInv'
PROOF
  <1> USE DEF PaymentInv
  <1>1. RowsAreRecorded'
    BY DEF RowsAreRecorded
  <1>2. \A b \in Request : Inserted(b) \/ CheckedIn(b) => bookings'[b] # NULL
    BY FrontDeskAssumption DEF Inserted, CheckedIn, BookingRow, BookingStatus
  <1>3. PaymentsHaveABooking'
    BY <1>2 DEF PaymentsHaveABooking
  <1>4. AcknowledgedPaymentIsCounted'
    BY DEF AcknowledgedPaymentIsCounted, Acknowledged
  <1>5. SummaryAgreesWithHistory'
    <2> SUFFICES ASSUME NEW b \in Request,
                        history[b].rows # {}, counted[b] = history[b].rows
                 PROVE  /\ bookings'[b] # NULL
                        /\ bookings'[b].paid = history[b].sum
                        /\ bookings'[b].payment = "paid" <=>
                             history[b].sum >= bookings'[b].total
                        /\ bookings'[b].payment = "partial" <=>
                             0 < history[b].sum /\ history[b].sum < bookings'[b].total
                        /\ bookings'[b].payment = "pending" <=>
                             history[b].sum <= 0 /\ history[b].sum < bookings'[b].total
      BY DEF SummaryAgreesWithHistory
    <2>1. ~Inserted(b)
      BY DEF Inserted, PaymentsHaveABooking
    <2>2. CASE bookings'[b] = bookings[b]
      BY <2>2 DEF SummaryAgreesWithHistory
    <2>3. CASE CheckedIn(b)
      <3>1. /\ bookings'[b].paid = bookings[b].paid
            /\ bookings'[b].payment = bookings[b].payment
            /\ bookings'[b].total = bookings[b].total
        BY <2>3 DEF CheckedIn, BookingRow
      <3> QED
        BY <1>2, <2>3, <3>1 DEF SummaryAgreesWithHistory
    <2> QED
      BY <2>1, <2>2, <2>3
  <1> QED
    BY <1>1, <1>3, <1>4, <1>5

LEMMA RecordKeepsPayments ==
  ASSUME PaymentInv, FrontDeskInv', NEW q \in Request, PaymentRecord(q), ~Abort(q)
  PROVE  PaymentInv'
PROOF
  <1> USE DEF PaymentInv
  <1> DEFINE b == call[q].booking
  <1>1. /\ pc[q] = "record" /\ Goto(q, "summarise")
        /\ history' = [history EXCEPT ![b] = [rows |-> @.rows \cup {q},
                                             sum  |-> @.sum + call[q].amount]]
        /\ UNCHANGED <<bookings, call, counted>>
    BY DEF PaymentRecord
  <1>2. b \in Request /\ bookings[b] # NULL /\ TypeOK
    BY <1>1, BookingOfStep DEF FrontDeskInv, PaidBookingExists
  <1>3. /\ pc'[q] = "summarise" /\ \A p \in Request \ {q} : pc'[p] = pc[p]
        /\ history'[b].rows = history[b].rows \cup {q}
        /\ \A c \in Request \ {b} : history'[c] = history[c]
    BY <1>1, <1>2 DEF TypeOK, Goto
  <1>4. RowsAreRecorded'
    BY <1>1, <1>2, <1>3, BookingOfStep DEF RowsAreRecorded
  <1>5. PaymentsHaveABooking'
    BY <1>1, <1>2, <1>3 DEF PaymentsHaveABooking
  <1>6. AcknowledgedPaymentIsCounted'
    BY <1>1, <1>2, <1>3 DEF AcknowledgedPaymentIsCounted, Acknowledged
  <1>7. q \notin counted[b]
    BY <1>1, <1>2 DEF AcknowledgedPaymentIsCounted, RowsAreRecorded
  <1>8. SummaryAgreesWithHistory'
    BY <1>1, <1>2, <1>3, <1>7 DEF SummaryAgreesWithHistory
  <1> QED
    BY <1>4, <1>5, <1>6, <1>8

LEMMA SummariseKeepsPayments ==
  ASSUME PaymentInv, FrontDeskInv', NEW q \in Request, PaymentSummarise(q), ~Abort(q)
  PROVE  PaymentInv'
PROOF
  <1> USE DEF PaymentInv
  <1> DEFINE b == call[q].booking
             sum == history[b].sum
             payment == SummaryStatus(sum, bookings[b].total)
  <1>1. /\ pc[q] = "summarise" /\ Reply(q)
        /\ bookings' = [bookings EXCEPT ![b].paid = sum, ![b].payment = payment]
        /\ counted' = [counted EXCEPT ![b] = history[b].rows]
        /\ UNCHANGED <<history, call>>
    BY DEF PaymentSummarise
  <1>2. /\ b \in Request /\ bookings[b] # NULL /\ bookings[b] \in BookingRow
        /\ TypeOK /\ q \in history[b].rows
    BY <1>1, BookingOfStep DEF FrontDeskInv, PaidBookingExists, RowsAreRecorded, TypeOK
  <1>3. /\ pc'[q] \in {"ok", "failed"} /\ \A p \in Request \ {q} : pc'[p] = pc[p]
        /\ counted'[b] = history[b].rows
        /\ \A c \in Request \ {b} : counted'[c] = counted[c] /\ bookings'[c] = bookings[c]
    BY <1>1, <1>2 DEF TypeOK, Goto, Reply
  <1>4. /\ bookings'[b].paid = sum /\ bookings'[b].payment = payment
        /\ bookings'[b].total = bookings[b].total
    BY <1>1, <1>2 DEF TypeOK, BookingRow
  <1>5. bookings'[b] # NULL
    <2>1. /\ sum \in Int
          /\ payment \in {"paid", "partial", "pending", NULL}
      BY <1>2 DEF TypeOK, SummaryStatus
    <2>2. bookings'[b] = [bookings[b] EXCEPT !.paid = sum, !.payment = payment]
      BY <1>1, <1>2 DEF TypeOK
    <2>3. bookings'[b] \in BookingRow
      BY <1>2, <2>1, <2>2 DEF BookingRow
    <2> QED
      BY <2>3, FrontDeskAssumption
  <1>6. RowsAreRecorded'
    BY <1>1, <1>3 DEF RowsAreRecorded
  <1>7. PaymentsHaveABooking'
    BY <1>1, <1>3, <1>5 DEF PaymentsHaveABooking
  <1>8. AcknowledgedPaymentIsCounted'
    BY <1>1, <1>2, <1>3 DEF AcknowledgedPaymentIsCounted, Acknowledged
  <1>9. SummaryAgreesWithHistory'
    <2>1. sum \in Int /\ bookings[b].total \in Int
      BY <1>2 DEF TypeOK, BookingRow
    <2>2. /\ payment = "paid" <=> sum >= bookings[b].total
          /\ payment = "partial" <=> 0 < sum /\ sum < bookings[b].total
          /\ payment = "pending" <=> sum <= 0 /\ sum < bookings[b].total
      BY <2>1 DEF SummaryStatus
    <2> DEFINE Agrees(c) ==
                 /\ bookings'[c] # NULL
                 /\ bookings'[c].paid = history[c].sum
                 /\ bookings'[c].payment = "paid" <=> history[c].sum >= bookings'[c].total
                 /\ bookings'[c].payment = "partial" <=>
                      0 < history[c].sum /\ history[c].sum < bookings'[c].total
                 /\ bookings'[c].payment = "pending" <=>
                      history[c].sum <= 0 /\ history[c].sum < bookings'[c].total
    <2> HIDE DEF payment
    <2>3. Agrees(b)
      BY <1>4, <1>5, <2>2
    <2>4. ASSUME NEW c \in Request \ {b}, history[c].rows # {},
                 counted'[c] = history[c].rows
          PROVE  Agrees(c)
      BY <1>3, <2>4 DEF SummaryAgreesWithHistory
    <2> SUFFICES ASSUME NEW c \in Request, history[c].rows # {},
                        counted'[c] = history[c].rows
                 PROVE  Agrees(c)
      BY <1>1 DEF SummaryAgreesWithHistory
    <2> QED
      BY <2>3, <2>4
  <1> QED
    BY <1>6, <1>7, <1>8, <1>9

LEMMA NextKeepsPayments == PaymentInv /\ [Next]_vars => PaymentInv'
PROOF
  <1> SUFFICES ASSUME PaymentInv, [Next]_vars PROVE PaymentInv'
    OBVIOUS
  <1> USE DEF PaymentInv
  <1>1. FrontDeskInv' /\ TypeOK /\ TypeOK'
    BY NextKeepsInv DEF FrontDeskInv
  <1>2. ASSUME bookings' = bookings, UNCHANGED <<history, counted>>,
               \A p \in Request :
                 /\ pc'[p] = "summarise" => pc[p] = "summarise" /\ call'[p] = call[p]
                 /\ pc[p] \in {"summarise", "ok", "failed"}
                      => pc'[p] \in {"summarise", "ok", "failed"}
                 /\ pc'[p] = "ok" => pc[p] = "ok" /\ call'[p] = call[p]
        PROVE  PaymentInv'
    BY <1>1, <1>2, OtherStepsKeepPayments DEF Acknowledged
  <1>3. CASE UNCHANGED vars \/ Quiescent
    BY <1>2, <1>3 DEF Quiescent, vars, tables
  <1>4. ASSUME NEW q \in Request, Arrive(q)
        PROVE  PaymentInv'
    <2>1. PICK c \in Call : call' = [call EXCEPT ![q] = c] /\ Goto(q, FirstStep[c.op])
      BY <1>4 DEF Arrive
    <2>2. FirstStep[c.op] \notin {"summarise", "ok"}
      BY FrontDeskAssumption
         DEF Body, FirstStep, CreateCall, PaymentCall, CheckInCall, CheckOutCall, QuickCall,
             BillCall, StatusCall, SearchCall
    <2>3. pc[q] = "idle" /\ UNCHANGED <<bookings, history, counted>>
      BY <1>4 DEF Arrive, tables
    <2> QED
      BY <1>1, <1>2, <2>1, <2>2, <2>3 DEF Goto, TypeOK
  <1>5. ASSUME NEW q \in Request, Execute(q) \/ Fail(q)
        PROVE  PaymentInv'
    <2>1. UNCHANGED call /\ \A p \in Request \ {q} : pc'[p] = pc[p]
      BY <1>1, <1>5, StepMovesOneRequest
    <2>2. CASE Abort(q)
      <3>1. pc'[q] = "failed" /\ UNCHANGED <<bookings, history, counted>>
        BY <1>1, <2>2 DEF Abort, Goto, TypeOK, tables
      <3> QED
        BY <1>2, <2>1, <3>1
    <2>3. CASE ~Abort(q) /\ PaymentRecord(q)
      BY <1>1, <2>3, RecordKeepsPayments
    <2>4. CASE ~Abort(q) /\ PaymentSummarise(q)
      BY <1>1, <2>4, SummariseKeepsPayments
    <2>5. CASE ~Abort(q) /\ ~PaymentRecord(q) /\ ~PaymentSummarise(q)
      <3>1. Execute(q)
        BY <1>5, <2>5 DEF Fail
      <3>2. /\ UNCHANGED <<history, counted>>
            /\ pc[q] \notin {"idle", "record", "summarise", "ok", "failed"}
            /\ pc'[q] # "summarise"
            /\ pc'[q] = "ok" => call[q].op # "recordPayment"
        BY <2>5, <3>1, OtherStatements
      <3>3. ASSUME NEW b \in Request
            PROVE  bookings'[b] = bookings[b] \/ Inserted(b) \/ CheckedIn(b)
        <4>1. ASSUME NEW p \in Request, PaymentSummarise(p), ~Abort(p) PROVE FALSE
          <5>1. CASE p = q
            BY <2>5, <4>1, <5>1
          <5>2. CASE p # q
            <6>1. pc[p] = "summarise" /\ pc'[p] \in {"ok", "failed"}
              BY <1>1, <4>1 DEF PaymentSummarise, Reply, Goto, TypeOK
            <6> QED
              BY <2>1, <5>2, <6>1
          <5> QED
            BY <5>1, <5>2
        <4>2. ~Summarised(b)
          BY <4>1 DEF Summarised
        <4> QED
          BY <4>2, BookingStep
      <3>4. \A p \in Request :
              /\ pc'[p] = "summarise" => pc[p] = "summarise" /\ call'[p] = call[p]
              /\ pc[p] \in {"summarise", "ok", "failed"}
                   => pc'[p] \in {"summarise", "ok", "failed"}
              /\ p \in Acknowledged("recordPayment")'
                   => p \in Acknowledged("recordPayment") /\ call'[p] = call[p]
        BY <2>1, <3>2 DEF Acknowledged
      <3> QED
        BY <1>1, <3>2, <3>3, <3>4, OtherStepsKeepPayments
    <2> QED
      BY <2>2, <2>3, <2>4, <2>5
  <1> QED
    BY <1>3, <1>4, <1>5 DEF Next

LEMMA PaymentInvariant == Spec => []PaymentInv
PROOF
  <1>1. Init => PaymentInv
    BY InitEstablishesInv
       DEF Init, PaymentInv, RowsAreRecorded, PaymentsHaveABooking,
           AcknowledgedPaymentIsCounted, SummaryAgreesWithHistory, Acknowledged
  <1> QED
    BY <1>1, NextKeepsPayments, PTL DEF Spec

(* However payments, check-ins and failures interleave, the amount paid    *)
(* for a booking includes every payment that a client knows was recorded.  *)
THEOREM PaymentIsCounted == Spec => []AcknowledgedPaymentIsCounted
PROOF
  BY PaymentInvariant, PTL DEF PaymentInv

(* A booking whose payments are all summed up shows the history's sum and  *)
(* the payment status that follows from it and from the booking's total.   *)
THEOREM SummaryAgrees == Spec => []SummaryAgreesWithHistory
PROOF
  BY PaymentInvariant, PTL DEF PaymentInv
=============================================================================
