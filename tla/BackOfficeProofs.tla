--------------------------- MODULE BackOfficeProofs ---------------------------
(***************************************************************************)
(* What holds of the back office for every set of requests, every mix of   *)
(* calls and every contents of the tables to begin with.                   *)
(***************************************************************************)
EXTENDS BackOffice, FiniteSetTheorems, WellFoundedInduction, TLAPS

(* A request that has come keeps to its path.                              *)
Progress(q) ==
  pc[q] # "idle" =>
    /\ call[q] \in UNION Mix
    /\ draft[q] \in Draft
    /\ pc[q] \in Path[call[q].op] \cup {"ok", "failed"}
-----------------------------------------------------------------------------
(* What the body of a call gives.                                          *)
LEMMA CallFields ==
  ASSUME NEW c \in Call
  PROVE  /\ c.as \in Session
         /\ c.op \in DOMAIN Path
         /\ c.op \in {"createFirm", "updateFirm"} => c.set \in Named("firms")
         /\ c.op \in {"createHotel", "updateHotel"} => c.set \in Named("hotels")
         /\ c.op \in {"createGuest", "updateGuest"} => c.set \in Named("guests")
         /\ c.op \in {"createType", "updateType"} => c.set \in Named("types")
         /\ c.op \in {"createRoom", "updateRoom"} => c.set \in Named("rooms")
         /\ c.op = "createRoom" => c.set.name \in Number \cup {NULL}
         /\ c.op \in {"updateFirm", "updateHotel", "updateGuest", "updateType"}
              => c.id \in Id
         /\ c.op = "updateRoom" => c.id \in Id \X Number
         /\ c.op \in {"createGuest", "updateGuest", "createType", "updateType"}
              => c.kept \in Urls /\ c.files \in SUBSET File /\ "kept" \in DOMAIN c
         /\ c.op \in {"createType", "createRoom", "bulkCreateRooms"}
              => c.firm \in Id \cup {NULL} /\ c.branch \in Id \cup {NULL}
         /\ c.op = "bulkCreateRooms" => c.first \in Number /\ c.last \in Number
         /\ c.op \in {"createHourlyRule", "createSeasonalRate"}
              => c.type \in Id /\ c.from \in Nat /\ c.to \in Nat /\ c.factor \in Nat
         /\ c.op = "createHourlyRule" => c.days \in SUBSET (1..7)
         /\ c.op = "calculatePrice"
              => c.type \in Id /\ c.in \in Nat /\ c.out \in Nat /\ c.hourly \in BOOLEAN
PROOF
  <1>0. DOMAIN Path = {"createFirm", "updateFirm", "createHotel", "updateHotel",
          "createGuest", "updateGuest", "createType", "updateType", "createRoom",
          "updateRoom", "bulkCreateRooms", "createHourlyRule",
          "createSeasonalRate", "calculatePrice"}
    BY DEF Path
  <1>1. CASE c \in FirmCall
    BY <1>0, <1>1 DEF FirmCall
  <1>2. CASE c \in CreateHotelDto
    <2>1. [Columns["hotels"] -> Nat] \subseteq Named("hotels")
      BY DEF Named
    <2> QED
      BY <1>0, <1>2, <2>1 DEF CreateHotelDto
  <1>3. CASE c \in UpdateHotelCall
    BY <1>0, <1>3 DEF UpdateHotelCall
  <1>4. CASE c \in CreateGuestDto
    BY <1>0, <1>4 DEF CreateGuestDto
  <1>5. CASE c \in UpdateGuestCall
    BY <1>0, <1>5 DEF UpdateGuestCall
  <1>6. CASE c \in CreateRoomTypeDto
    BY <1>0, <1>6 DEF CreateRoomTypeDto
  <1>7. CASE c \in UpdateTypeCall
    BY <1>0, <1>7 DEF UpdateTypeCall
  <1>8. CASE c \in CreateRoomDto
    BY <1>0, <1>8 DEF CreateRoomDto
  <1>9. CASE c \in UpdateRoomCall
    BY <1>0, <1>9 DEF UpdateRoomCall
  <1>10. CASE c \in BulkCreateRoomsDto
    BY <1>0, <1>10 DEF BulkCreateRoomsDto
  <1>11. CASE c \in CreateHourlyRuleDto
    BY <1>0, <1>11 DEF CreateHourlyRuleDto
  <1>12. CASE c \in CreateSeasonalRateDto
    BY <1>0, <1>12 DEF CreateSeasonalRateDto
  <1>13. CASE c \in CalculatePriceDto
    BY <1>0, <1>13 DEF CalculatePriceDto
  <1> QED
    BY <1>1, <1>2, <1>3, <1>4, <1>5, <1>6, <1>7, <1>8, <1>9, <1>10, <1>11, <1>12,
       <1>13 DEF Call

LEMMA ColumnsOf ==
  /\ Columns["firms"] = {"name", "city"} /\ Columns["hotels"] = {"name", "city"}
  /\ Columns["guests"] = {"name", "note", "flag"}
  /\ Columns["rooms"] = {"name", "note", "flag"}
  /\ Columns["types"] = {"name", "hourly", "daily"}
PROOF
  BY DEF Columns

(* What an INSERT writes fits the columns, unless it is refused.           *)
LEMMA WrittenFits ==
  ASSUME NEW t \in {"firms", "hotels", "guests", "rooms", "types"},
         NEW set \in Named(t), ~Refused(Written(t, set))
  PROVE  Written(t, set) \in Cols(t)
PROOF
  <1>1. \A c \in Columns[t] : OrNull(set[c]) \in Nat \cup {NULL}
    BY DEF Named, OrNull
  <1>2. \A c : OrZero(set[c]) \in {0, 1}
    BY DEF OrZero
  <1>3. Written(t, set) \in [Columns[t] -> Nat \cup {NULL}]
    <2>1. ASSUME NEW c \in Columns[t]
          PROVE  (CASE c = "flag" -> OrZero(set[c])
                    [] c \in {"note", "hourly"} -> OrNull(set[c])
                    [] OTHER -> set[c]) \in Nat \cup {NULL}
      <3>1. set[c] \in Nat \cup {NULL}
        BY DEF Named
      <3> QED
        BY <1>1, <1>2, <3>1
    <2> QED
      BY <2>1 DEF Written
  <1>4. "flag" \in Columns[t] => Written(t, set)["flag"] \in {0, 1}
    BY <1>2 DEF Written
  <1> QED
    BY <1>3, <1>4 DEF Cols, Named

(* So does what an UPDATE with ISNULL writes.                              *)
LEMMA MergedFits ==
  ASSUME NEW t \in {"rooms", "types"}, NEW old \in Cols(t), NEW set \in Named(t),
         ~Refused(Merged(old, set))
  PROVE  Merged(old, set) \in Cols(t)
PROOF
  <1>1. DOMAIN old = Columns[t] /\ \A c \in Columns[t] : old[c] \in Nat \cup {NULL}
    BY DEF Cols, Named
  <1>2. \A c \in Columns[t] : OrNull(set[c]) \in Nat \cup {NULL}
    BY DEF Named, OrNull
  <1>3. \A c : OrZero(set[c]) \in {0, 1}
    BY DEF OrZero
  <1>4. Merged(old, set) \in [Columns[t] -> Nat \cup {NULL}]
    BY <1>1, <1>2, <1>3 DEF Merged, Or
  <1>5. "flag" \in Columns[t] => Merged(old, set)["flag"] \in {0, 1, NULL}
    BY <1>1, <1>3 DEF Merged, Cols
  <1> QED
    BY <1>4, <1>5 DEF Cols, Named
-----------------------------------------------------------------------------
(* One row is written, and no other.                                       *)
LEMMA PutRow ==
  ASSUME TablesOK, NEW t \in Table, NEW i \in RowsOf(t), NEW row, Put(t, i, row)
  PROVE  /\ db'[t][i] = row
         /\ \A u \in Table \ {t} : db'[u] = db[u]
         /\ \A j \in RowsOf(t) \ {i} : db'[t][j] = db[t][j]
         /\ row \in RowType[t] => TablesOK'
PROOF
  <1>1. /\ db = [u \in Table |-> db[u]] /\ db[t] \in [RowsOf(t) -> RowType[t] \cup {NULL}]
        /\ db' = [db EXCEPT ![t][i] = row]
    BY DEF TablesOK, Put
  <1>2. /\ DOMAIN db = Table /\ db'[t] = [db[t] EXCEPT ![i] = row]
        /\ \A u \in Table \ {t} : db'[u] = db[u]
    BY <1>1
  <1>3. db'[t][i] = row /\ \A j \in RowsOf(t) \ {i} : db'[t][j] = db[t][j]
    BY <1>1, <1>2
  <1>4. ASSUME row \in RowType[t] PROVE TablesOK'
    <2>1. db' = [u \in Table |-> db'[u]]
      BY <1>1
    <2>2. db'[t] \in [RowsOf(t) -> RowType[t] \cup {NULL}]
      BY <1>1, <1>2, <1>4
    <2> QED
      BY <1>2, <2>1, <2>2 DEF TablesOK
  <1> QED
    BY <1>2, <1>3, <1>4

(* What the rows of a table look like.                                     *)
LEMMA RowTypes ==
  /\ RowType["firms"] = [tenant: Tenant, created: Nat, cols: Cols("firms")]
  /\ RowType["branches"] = [firm: Id]
  /\ RowType["hotels"] = [tenant: Tenant, cols: Cols("hotels")]
  /\ RowType["guests"] = [tenant: Tenant, firm: Id \cup {NULL}, branch: Id \cup {NULL},
                          files: Urls, cols: Cols("guests")]
  /\ RowType["rooms"] = [tenant: Tenant, firm: Id \cup {NULL}, branch: Id \cup {NULL},
                         cols: Cols("rooms")]
  /\ RowType["types"] = [tenant: Tenant, firm: Id \cup {NULL}, branch: Id \cup {NULL},
                         files: Urls, cols: Cols("types")]
  /\ RowType["seasons"] = [tenant: Tenant, firm: Id \cup {NULL}, branch: Id \cup {NULL},
                           type: Id, from: Nat, to: Nat, factor: Nat, created: Nat]
  /\ RowType["rules"] = [tenant: Tenant, firm: Id \cup {NULL}, branch: Id \cup {NULL},
                         type: Id, from: Nat, to: Nat, factor: Nat,
                         days: SUBSET (1..7), created: Nat]
PROOF
  BY DEF RowType

(* A row that there is is one of its table's.                              *)
LEMMA RowsFit ==
  ASSUME TablesOK
  PROVE  \A t \in Table : \A i \in RowsOf(t) : db[t][i] # NULL => db[t][i] \in RowType[t]
PROOF
  BY DEF TablesOK
-----------------------------------------------------------------------------
(* Prices.  Of finitely many creation dates one is the latest.             *)
LEMMA LatestExists ==
  ASSUME NEW S, S # {}, NEW table, NEW n \in Nat,
         \A i \in S : table[i].created \in 0 .. n
  PROVE  \E i \in S : \A j \in S : table[i].created >= table[j].created
PROOF
  <1> DEFINE Less == {ss \in Nat \X Nat : ss[1] < ss[2]}
             T == {n - table[i].created : i \in S}
  <1>1. IsWellFoundedOn(Less, Nat)
    BY NatLessThanWellFounded DEF OpToRel
  <1>2. T \subseteq Nat /\ T # {}
    OBVIOUS
  <1>3. \E x \in T : \A y \in T : ~(<<y, x>> \in Less)
    BY <1>1, <1>2, WFMin
  <1>4. PICK i \in S : \A j \in S : ~(n - table[j].created < n - table[i].created)
    BY <1>2, <1>3
  <1>5. \A j \in S : table[i].created >= table[j].created
    BY <1>4
  <1> QED
    BY <1>5

(* The factors that the tables hold are whole tenths.                      *)
LEMMA FactorIsNat ==
  ASSUME NEW table, NEW rows, NEW n \in Nat,
         \A i \in rows : table[i].created \in 0 .. n /\ table[i].factor \in Nat
  PROVE  Factor(table, rows) \in Nat
PROOF
  <1>1. CASE rows = {}
    BY <1>1 DEF Factor
  <1>2. CASE rows # {}
    <2> DEFINE Latest(i) == \A j \in rows : table[i].created >= table[j].created
               k == CHOOSE i \in rows : Latest(i)
    <2>1. \E i \in rows : Latest(i)
      BY <1>2, LatestExists
    <2>2. k \in rows
      BY <2>1
    <2>3. Factor(table, rows) = table[k].factor
      BY <1>2 DEF Factor
    <2> QED
      BY <2>2, <2>3
  <1> QED
    BY <1>1, <1>2

(* Math.ceil: the least whole number of units that cover n.                *)
LEMMA CeilCovers ==
  ASSUME NEW n \in Int, NEW d \in {24, 60}
  PROVE  Ceil(n, d) \in Int /\ Ceil(n, d) * d >= n /\ (Ceil(n, d) - 1) * d < n
PROOF
  <1>1. CASE d = 24
    BY <1>1, Z3 DEF Ceil
  <1>2. CASE d = 60
    BY <1>2, Z3 DEF Ceil
  <1> QED
    BY <1>1, <1>2

(* The hours of a stay, and the hours or days it is charged for: rounding  *)
(* up to hours and then to days is rounding up to days.                    *)
LEMMA UnitsCover ==
  ASSUME NEW c, c.in \in Nat, c.out \in Nat, c.hourly \in BOOLEAN
  PROVE  LET stay == c.out - c.in
             unit == IF c.hourly THEN 60 ELSE 1440
             n == CHOOSE k \in stay \div unit .. (stay \div unit) + 1 :
                    k * unit >= stay /\ (k - 1) * unit < stay IN
         /\ Hours(c) \in Int /\ Hours(c) * 60 >= stay /\ (Hours(c) - 1) * 60 < stay
         /\ Units(c) \in Int /\ Units(c) = n
PROOF
  <1> DEFINE stay == c.out - c.in
             h == Hours(c)
  <1>1. stay \in Int /\ h = Ceil(stay, 60)
    BY DEF Hours
  <1> HIDE DEF stay, h
  <1>2. h \in Int /\ h * 60 >= stay /\ (h - 1) * 60 < stay
    BY <1>1, CeilCovers
  <1>3. CASE c.hourly
    <2> DEFINE P(k) == k * 60 >= stay /\ (k - 1) * 60 < stay
               R == stay \div 60 .. (stay \div 60) + 1
    <2>1. h \in R /\ P(h)
      BY <1>1, <1>2
    <2>2. \A k \in R : P(k) => k = h
      BY <1>1, <1>2
    <2>3. h = CHOOSE k \in R : P(k)
      BY <2>1, <2>2
    <2>4. Units(c) = h
      BY <1>3 DEF Units, h
    <2> QED
      BY <1>2, <1>3, <2>3, <2>4 DEF stay, h
  <1>4. CASE ~c.hourly
    <2> DEFINE u == Units(c)
               P(k) == k * 1440 >= stay /\ (k - 1) * 1440 < stay
               R == stay \div 1440 .. (stay \div 1440) + 1
    <2>1. u = Ceil(h, 24)
      BY <1>4 DEF Units, h
    <2> HIDE DEF u
    <2>2. u \in Int /\ u * 24 >= h /\ (u - 1) * 24 < h
      BY <1>2, <2>1, CeilCovers
    <2>3. P(u)
      BY <1>1, <1>2, <2>2
    <2>4. u \in R
      BY <1>1, <2>2, <2>3
    <2>5. \A k \in R : P(k) => k = u
      BY <1>1, <2>2, <2>3
    <2>6. u = CHOOSE k \in R : P(k)
      BY <2>3, <2>4, <2>5
    <2> QED
      BY <1>2, <1>4, <2>2, <2>6 DEF stay, h, u
  <1> QED
    BY <1>3, <1>4
-----------------------------------------------------------------------------
(* The tables that order their rows by created_at.                         *)
Dated == {"firms", "seasons", "rules"}

(* There are finitely many of those, and a new one would be the newest.    *)
DatesInv(t) ==
  /\ IsFiniteSet(Rows(t))
  /\ \A i \in Rows(t) : db[t][i].created <= Newest(t)

(* Everything but the history variables has its type.                      *)
StateInv ==
  /\ TablesOK
  /\ \A t \in Dated : DatesInv(t)
  /\ stored \subseteq Object
  /\ pc \in [Request -> Statement]
  /\ call \in [Request -> Call \cup {NULL}]
  /\ draft \in [Request -> Draft \cup {NULL}]
  /\ sending \in [Request -> SUBSET File]
  /\ quote \in [Request -> [hours: Int, cents: Int] \cup {NULL}]
  /\ \A q \in Request : Progress(q)

BackOfficeInv == TypeOK /\ StateInv

LEMMA DatedRows == \A t \in Dated : \A row \in RowType[t] : row.created \in Nat
PROOF
  <1>1. \A row \in RowType["firms"] : row.created \in Nat
    BY RowTypes
  <1>2. \A row \in RowType["seasons"] : row.created \in Nat
    BY RowTypes
  <1>3. \A row \in RowType["rules"] : row.created \in Nat
    BY RowTypes
  <1> QED
    BY <1>1, <1>2, <1>3 DEF Dated

LEMMA DatesOfTable ==
  ASSUME StateInv, NEW t \in Dated
  PROVE  /\ Newest(t) \in Nat
         /\ \A i \in Rows(t) : db[t][i] \in RowType[t] /\ db[t][i].created \in 0 .. Newest(t)
PROOF
  <1>1. IsFiniteSet(Rows(t)) /\ \A i \in Rows(t) : db[t][i].created <= Newest(t)
    BY DEF StateInv, DatesInv
  <1>2. Newest(t) \in Nat
    BY <1>1, FS_CardinalityType DEF Newest
  <1>3. \A i \in Rows(t) : db[t][i] \in RowType[t]
    BY RowsFit DEF StateInv, Dated, Table, Rows, RowsOf
  <1>4. \A row \in RowType[t] : row.created \in Nat
    BY DatedRows
  <1> QED
    BY <1>1, <1>2, <1>3, <1>4

LEMMA PutKeepsDates ==
  ASSUME StateInv, NEW t \in Table, NEW i \in RowsOf(t), NEW row \in RowType[t],
         Put(t, i, row), t \in Dated => row.created <= Newest(t), NEW u \in Dated
  PROVE  DatesInv(u)'
PROOF
  <1>1. TablesOK /\ u \in Table /\ IsFiniteSet(Rows(u)) /\ RowsOf(u) = Id
    BY DEF StateInv, DatesInv, Dated, Table, RowsOf
  <1>2. CASE u # t
    <2>1. db'[u] = db[u]
      BY <1>1, <1>2, PutRow
    <2> QED
      BY <2>1 DEF StateInv, DatesInv, Rows, Newest
  <1>3. CASE u = t
    <2>1. /\ db'[t][i] = row /\ row # NULL
          /\ \A j \in Id \ {i} : db'[t][j] = db[t][j]
      BY <1>1, <1>3, PutRow, DatabaseAssumption
    <2>2. Rows(t)' = Rows(t) \cup {i}
      BY <1>1, <1>3, <2>1 DEF Rows
    <2>3. IsFiniteSet(Rows(t)') /\ Rows(t) \subseteq Rows(t)'
      BY <1>1, <1>3, <2>2, FS_AddElement
    <2>4. Cardinality(Rows(t)) <= Cardinality(Rows(t)')
      BY <2>3, FS_Subset
    <2>5. Newest(t) \in Nat /\ Newest(t)' \in Nat /\ Newest(t) <= Newest(t)'
      BY <1>1, <1>3, <2>3, <2>4, FS_CardinalityType DEF Newest
    <2>6. \A j \in Rows(t) : db[t][j].created \in 0 .. Newest(t)
      BY <1>3, DatesOfTable
    <2>7. row.created \in Nat
      BY <1>3, DatedRows
    <2>8. ASSUME NEW j \in Rows(t)' PROVE db'[t][j].created <= Newest(t)'
      <3>1. CASE j = i
        BY <1>3, <2>1, <2>5, <2>7, <3>1
      <3>2. CASE j # i
        <4>1. j \in Rows(t) /\ db'[t][j] = db[t][j]
          BY <2>1, <2>2, <3>2 DEF Rows
        <4> QED
          BY <2>5, <2>6, <4>1
      <3> QED
        BY <3>1, <3>2
    <2> QED
      BY <1>3, <2>3, <2>8 DEF DatesInv
  <1> QED
    BY <1>2, <1>3

(* A request goes on: the others stay where they are.                      *)
LEMMA GoingOn ==
  ASSUME StateInv, NEW q \in Request, pc[q] # "idle", call' = call,
         NEW s \in Path[call[q].op] \cup {"ok", "failed"}, Goto(q, s),
         NEW d \in Draft, draft' = [draft EXCEPT ![q] = d]
  PROVE  /\ pc' \in [Request -> Statement]
         /\ call' \in [Request -> Call \cup {NULL}]
         /\ draft' \in [Request -> Draft \cup {NULL}]
         /\ \A p \in Request : Progress(p)'
PROOF
  <1>1. Progress(q) /\ call[q] \in Call
    BY BackOfficeAssumption DEF StateInv, Progress
  <1>2. s \in Statement
    BY <1>1, CallFields DEF Statement
  <1>3. pc' \in [Request -> Statement] /\ draft' \in [Request -> Draft \cup {NULL}]
    BY <1>2 DEF StateInv, Goto
  <1>4. ASSUME NEW p \in Request PROVE Progress(p)'
    <2>1. CASE p = q
      BY <1>1, <2>1 DEF StateInv, Goto, Progress
    <2>2. CASE p # q
      <3>1. pc'[p] = pc[p] /\ draft'[p] = draft[p] /\ Progress(p)
        BY <2>2 DEF StateInv, Goto
      <3> QED
        BY <3>1 DEF Progress
    <2> QED
      BY <2>1, <2>2
  <1> QED
    BY <1>3, <1>4 DEF StateInv

(* The same when it has computed nothing new.                              *)
LEMMA JustGoingOn ==
  ASSUME StateInv, NEW q \in Request, pc[q] # "idle", UNCHANGED <<call, draft>>,
         NEW s \in Path[call[q].op] \cup {"ok", "failed"}, Goto(q, s)
  PROVE  /\ pc' \in [Request -> Statement]
         /\ call' \in [Request -> Call \cup {NULL}]
         /\ draft' \in [Request -> Draft \cup {NULL}]
         /\ \A p \in Request : Progress(p)'
PROOF
  <1>1. draft[q] \in Draft /\ draft' = [draft EXCEPT ![q] = draft[q]]
    BY DEF StateInv, Progress
  <1> QED
    BY <1>1, GoingOn

LEMMA SameTables ==
  ASSUME StateInv, UNCHANGED db
  PROVE  TablesOK' /\ \A t \in Dated : DatesInv(t)'
PROOF
  BY DEF StateInv, TablesOK, DatesInv, Rows, Newest

(* A statement that changes nothing.                                       *)
LEMMA IdleStatement ==
  ASSUME StateInv, NEW q \in Request, pc[q] # "idle", UNCHANGED <<call, db, stored, work>>,
         NEW s \in Path[call[q].op] \cup {"ok", "failed"}, Goto(q, s)
  PROVE  StateInv'
PROOF
  <1>1. TablesOK' /\ \A t \in Dated : DatesInv(t)'
    BY SameTables
  <1>2. UNCHANGED <<draft, sending, quote>>
    BY DEF work
  <1>3. /\ pc' \in [Request -> Statement] /\ call' \in [Request -> Call \cup {NULL}]
        /\ draft' \in [Request -> Draft \cup {NULL}]
        /\ \A p \in Request : Progress(p)'
    BY <1>2, JustGoingOn
  <1> QED
    BY <1>1, <1>2, <1>3 DEF StateInv

(* A statement that writes a row.                                          *)
LEMMA WritingStatement ==
  ASSUME StateInv, NEW q \in Request, pc[q] # "idle", UNCHANGED <<call, stored, work>>,
         NEW t \in Table, NEW i \in RowsOf(t), NEW row \in RowType[t], Put(t, i, row),
         t \in Dated => row.created <= Newest(t),
         NEW s \in Path[call[q].op] \cup {"ok", "failed"}, Goto(q, s)
  PROVE  StateInv'
PROOF
  <1>1. TablesOK'
    BY PutRow DEF StateInv
  <1>2. \A u \in Dated : DatesInv(u)'
    BY PutKeepsDates
  <1>3. UNCHANGED <<draft, sending, quote>>
    BY DEF work
  <1>4. /\ pc' \in [Request -> Statement] /\ call' \in [Request -> Call \cup {NULL}]
        /\ draft' \in [Request -> Draft \cup {NULL}]
        /\ \A p \in Request : Progress(p)'
    BY <1>3, JustGoingOn
  <1> QED
    BY <1>1, <1>2, <1>3, <1>4 DEF StateInv

LEMMA SaveKeepsState ==
  ASSUME StateInv, NEW q \in Request, pc[q] # "idle", UNCHANGED call,
         NEW t \in Table, NEW i \in RowsOf(t), NEW row, Save(q, t, i, row),
         ~Refused(row.cols) => row \in RowType[t],
         t \in Dated => row.created <= Newest(t)
  PROVE  StateInv'
PROOF
  <1>1. CASE Refused(row.cols)
    BY <1>1, IdleStatement DEF Save
  <1>2. CASE ~Refused(row.cols)
    <2>1. Put(t, i, row) /\ UNCHANGED <<stored, work>> /\ row \in RowType[t]
      BY <1>2 DEF Save
    <2>2. Goto(q, "ok") \/ Goto(q, "failed")
      BY <1>2 DEF Save, Reply
    <2>3. "ok" \in Path[call[q].op] \cup {"ok", "failed"}
           /\ "failed" \in Path[call[q].op] \cup {"ok", "failed"}
      OBVIOUS
    <2> QED
      BY <2>1, <2>2, <2>3, WritingStatement
  <1> QED
    BY <1>1, <1>2

LEMMA NoRowKeepsState ==
  ASSUME StateInv, NEW q \in Request, pc[q] # "idle", UNCHANGED call,
         NoRow(q) \/ Throw(q)
  PROVE  StateInv'
PROOF
  <1>1. "ok" \in Path[call[q].op] \cup {"ok", "failed"}
         /\ "failed" \in Path[call[q].op] \cup {"ok", "failed"}
    OBVIOUS
  <1> QED
    BY <1>1, IdleStatement DEF NoRow, Throw, Reply
-----------------------------------------------------------------------------
(* Which handler is at a statement.                                        *)
LEMMA PathOf ==
  /\ Path["createFirm"] = {"firm", "branch"} /\ Path["updateFirm"] = {"setFirm"}
  /\ Path["createHotel"] = {"hotel"} /\ Path["updateHotel"] = {"setHotel"}
  /\ Path["createGuest"] = {"upload", "existing", "defaults", "guest"}
  /\ Path["updateGuest"] = {"upload", "setGuest"}
  /\ Path["createType"] = {"upload", "type"} /\ Path["updateType"] = {"upload", "setType"}
  /\ Path["createRoom"] = {"room"} /\ Path["updateRoom"] = {"setRoom"}
  /\ Path["bulkCreateRooms"] = {"bulk"}
  /\ Path["createHourlyRule"] = {"defaults", "addRule"}
  /\ Path["createSeasonalRate"] = {"defaults", "addSeason"}
  /\ Path["calculatePrice"] = {"defaults", "rates", "season", "rule"}
  /\ DOMAIN Path =
       {"createFirm", "updateFirm", "createHotel", "updateHotel", "createGuest",
        "updateGuest", "createType", "updateType", "createRoom", "updateRoom",
        "bulkCreateRooms", "createHourlyRule", "createSeasonalRate", "calculatePrice"}
PROOF
  BY DEF Path

LEMMA CallAt ==
  ASSUME StateInv, NEW q \in Request, pc[q] # "idle"
  PROVE  /\ call[q] \in Call /\ call[q] \in UNION Mix /\ draft[q] \in Draft
         /\ call[q].as.tenant \in Tenant
         /\ call[q].as.firm \in Id \cup {NULL} /\ call[q].as.branch \in Id \cup {NULL}
         /\ pc[q] \in {"firm", "branch"} => call[q].op = "createFirm"
         /\ pc[q] = "setFirm" => call[q].op = "updateFirm"
         /\ pc[q] = "hotel" => call[q].op = "createHotel"
         /\ pc[q] = "setHotel" => call[q].op = "updateHotel"
         /\ pc[q] = "upload" => call[q].op \in
              {"createGuest", "updateGuest", "createType", "updateType"}
         /\ pc[q] \in {"existing", "guest"} => call[q].op = "createGuest"
         /\ pc[q] = "defaults" => call[q].op \in
              {"createGuest", "createHourlyRule", "createSeasonalRate", "calculatePrice"}
         /\ pc[q] = "setGuest" => call[q].op = "updateGuest"
         /\ pc[q] = "type" => call[q].op = "createType"
         /\ pc[q] = "setType" => call[q].op = "updateType"
         /\ pc[q] = "room" => call[q].op = "createRoom"
         /\ pc[q] = "setRoom" => call[q].op = "updateRoom"
         /\ pc[q] = "bulk" => call[q].op = "bulkCreateRooms"
         /\ pc[q] = "addRule" => call[q].op = "createHourlyRule"
         /\ pc[q] = "addSeason" => call[q].op = "createSeasonalRate"
         /\ pc[q] \in {"rates", "season", "rule"} => call[q].op = "calculatePrice"
PROOF
  <1>1. /\ call[q] \in UNION Mix /\ call[q] \in Call /\ draft[q] \in Draft
        /\ pc[q] \in Path[call[q].op] \cup {"ok", "failed"}
    BY BackOfficeAssumption DEF StateInv, Progress
  <1>2. call[q].op \in DOMAIN Path /\ call[q].as \in Session
    BY <1>1, CallFields
  <1>3. /\ call[q].as.tenant \in Tenant
        /\ call[q].as.firm \in Id \cup {NULL} /\ call[q].as.branch \in Id \cup {NULL}
    BY <1>2 DEF Session
  <1> QED
    BY <1>1, <1>2, <1>3, PathOf

(* A statement that reads, and what its handler computes from it.          *)
LEMMA ReadingStatement ==
  ASSUME StateInv, NEW q \in Request, pc[q] # "idle", UNCHANGED <<call, db, stored, sending>>,
         NEW d \in Draft, draft' = [draft EXCEPT ![q] = d],
         quote' \in [Request -> [hours: Int, cents: Int] \cup {NULL}],
         NEW s \in Path[call[q].op] \cup {"ok", "failed"}, Goto(q, s)
  PROVE  StateInv'
PROOF
  <1>1. TablesOK' /\ \A t \in Dated : DatesInv(t)'
    BY SameTables
  <1>2. /\ pc' \in [Request -> Statement] /\ call' \in [Request -> Call \cup {NULL}]
        /\ draft' \in [Request -> Draft \cup {NULL}]
        /\ \A p \in Request : Progress(p)'
    BY GoingOn
  <1> QED
    BY <1>1, <1>2 DEF StateInv

(* The factors of well-formed tables are natural numbers.                  *)
LEMMA FactorsAreNat ==
  ASSUME NEW d, NEW c, NEW firm, NEW m \in Nat, NEW n \in Nat,
         \A i \in Id : d.seasons[i] # NULL =>
           d.seasons[i].created \in 0 .. m /\ d.seasons[i].factor \in Nat,
         \A i \in Id : d.rules[i] # NULL =>
           d.rules[i].created \in 0 .. n /\ d.rules[i].factor \in Nat
  PROVE  SeasonOf(d, c, firm) \in Nat /\ RuleOf(d, c, firm) \in Nat
PROOF
  <1>1. SeasonOf(d, c, firm) \in Nat
    BY FactorIsNat DEF SeasonOf
  <1>2. RuleOf(d, c, firm) \in Nat
    BY FactorIsNat DEF RuleOf
  <1> QED
    BY <1>1, <1>2

LEMMA FactorsNow ==
  ASSUME StateInv, NEW c, NEW firm
  PROVE  SeasonOf(db, c, firm) \in Nat /\ RuleOf(db, c, firm) \in Nat
PROOF
  <1>1. Newest("seasons") \in Nat /\ Newest("rules") \in Nat
    BY DatesOfTable DEF Dated
  <1>2. \A i \in Id : db.seasons[i] # NULL =>
          db.seasons[i] \in RowType["seasons"] /\ db.seasons[i].created \in 0 .. Newest("seasons")
    BY DatesOfTable DEF Dated, Rows
  <1>3. \A i \in Id : db.rules[i] # NULL =>
          db.rules[i] \in RowType["rules"] /\ db.rules[i].created \in 0 .. Newest("rules")
    BY DatesOfTable DEF Dated, Rows
  <1>4. \A row \in RowType["seasons"] : row.factor \in Nat
    BY RowTypes
  <1>5. \A row \in RowType["rules"] : row.factor \in Nat
    BY RowTypes
  <1> QED
    BY <1>1, <1>2, <1>3, <1>4, <1>5, FactorsAreNat

(* The rate of a type, which may have none by the hour.                    *)
LEMMA RateIsNat ==
  ASSUME NEW type \in RowType["types"], NEW c
  PROVE  Rate(type, c) \in Nat
PROOF
  <1>1. type.cols \in Cols("types")
    BY RowTypes
  <1>2. type.cols.hourly \in Nat \cup {NULL} /\ type.cols.daily \in Nat \cup {NULL}
    BY <1>1, ColumnsOf DEF Cols, Named
  <1> QED
    BY <1>2 DEF Rate
-----------------------------------------------------------------------------
LEMMA InsertFirmKeepsState ==
  ASSUME StateInv, NEW q \in Request, InsertFirm(q), UNCHANGED call
  PROVE  StateInv'
PROOF
  <1> DEFINE cols == Written("firms", call[q].set)
             row == [tenant |-> call[q].as.tenant, cols |-> cols,
                     created |-> Newest("firms")]
  <1>1. pc[q] = "firm" /\ call[q].op = "createFirm" /\ call[q] \in Call
        /\ call[q].as.tenant \in Tenant
    BY CallAt DEF InsertFirm
  <1>2. CASE Refused(cols)
    BY <1>1, <1>2, NoRowKeepsState DEF InsertFirm
  <1>3. CASE ~Refused(cols)
    <2>1. Put("firms", q, row) /\ Goto(q, "branch") /\ UNCHANGED <<stored, work>>
      BY <1>3 DEF InsertFirm
    <2>2. cols \in Cols("firms") /\ Newest("firms") \in Nat
      BY <1>1, <1>3, CallFields, WrittenFits, DatesOfTable DEF Dated
    <2>3. row \in RowType["firms"]
      BY <1>1, <2>2, RowTypes
    <2>4. row.created <= Newest("firms")
      BY <2>2
    <2>5. "branch" \in Path[call[q].op] /\ "firms" \in Table /\ q \in RowsOf("firms")
      BY <1>1, PathOf DEF Table, RowsOf, Id
    <2> HIDE DEF row
    <2> QED
      BY <1>1, <2>1, <2>3, <2>4, <2>5, WritingStatement
  <1> QED
    BY <1>2, <1>3

LEMMA InsertBranchKeepsState ==
  ASSUME StateInv, NEW q \in Request, InsertBranch(q), UNCHANGED call
  PROVE  StateInv'
PROOF
  <1>1. /\ pc[q] = "branch" /\ Put("branches", q, [firm |-> q])
        /\ UNCHANGED <<stored, work>>
        /\ Goto(q, "ok") \/ Goto(q, "failed")
    BY DEF InsertBranch, Reply
  <1>2. /\ [firm |-> q] \in RowType["branches"] /\ q \in RowsOf("branches")
        /\ "branches" \in Table /\ "branches" \notin Dated
    BY RowTypes DEF Id, RowsOf, Table, Dated
  <1> QED
    BY <1>1, <1>2, WritingStatement

LEMMA OverwriteKeepsState ==
  ASSUME StateInv, NEW q \in Request, NEW t \in {"firms", "hotels"}, pc[q] # "idle",
         call[q].id \in Id, call[q].set \in Named(t), Overwrite(q, t), UNCHANGED call
  PROVE  StateInv'
PROOF
  <1> DEFINE i == call[q].id
             row == [db[t][i] EXCEPT !.cols = Written(t, call[q].set)]
  <1>1. CASE NoRow(q)
    BY <1>1, NoRowKeepsState
  <1>2. CASE db[t][i] # NULL /\ Save(q, t, i, row)
    <2>1. t \in Table /\ i \in RowsOf(t) /\ db[t][i] \in RowType[t]
      BY <1>2, RowsFit DEF StateInv, Table, RowsOf
    <2>2. row.cols = Written(t, call[q].set)
          /\ (Written(t, call[q].set) \in Cols(t) => row \in RowType[t])
      <3>1. CASE t = "firms"
        BY <2>1, <3>1, RowTypes
      <3>2. CASE t = "hotels"
        BY <2>1, <3>2, RowTypes
      <3> QED
        BY <3>1, <3>2
    <2>3. ~Refused(row.cols) => row \in RowType[t]
      BY <2>2, WrittenFits
    <2>4. t \in Dated => row.created <= Newest(t)
      <3>1. CASE t = "firms"
        <4>1. row.created = db[t][i].created
          BY <2>1, <3>1, RowTypes
        <4> QED
          BY <1>2, <3>1, <4>1 DEF StateInv, DatesInv, Dated, Rows
      <3> QED
        BY <3>1 DEF Dated
    <2> HIDE DEF row, i
    <2> QED
      BY <1>2, <2>1, <2>3, <2>4, SaveKeepsState
  <1> QED
    BY <1>1, <1>2 DEF Overwrite

LEMMA InsertHotelKeepsState ==
  ASSUME StateInv, NEW q \in Request, InsertHotel(q), UNCHANGED call
  PROVE  StateInv'
PROOF
  <1> DEFINE cols == Written("hotels", call[q].set)
             row == [tenant |-> call[q].as.tenant, cols |-> cols]
  <1>1. /\ pc[q] = "hotel" /\ call[q].op = "createHotel" /\ call[q] \in Call
        /\ call[q].as.tenant \in Tenant /\ Save(q, "hotels", q, row)
    BY CallAt DEF InsertHotel
  <1>2. ~Refused(row.cols) => row \in RowType["hotels"]
    BY <1>1, CallFields, WrittenFits, RowTypes
  <1>3. "hotels" \in Table /\ "hotels" \notin Dated /\ q \in RowsOf("hotels")
    BY DEF Table, Dated, RowsOf, Id
  <1> HIDE DEF row
  <1> QED
    BY <1>1, <1>2, <1>3, SaveKeepsState

(* What the URLs of a multipart body come to.                              *)
LEMMA TotalUrlsAreUrls ==
  ASSUME StateInv, NEW q \in Request, pc[q] # "idle",
         call[q].op \in {"createGuest", "updateGuest", "createType", "updateType"}
  PROVE  TotalUrls(q) \in Urls
PROOF
  <1>1. call[q].kept \in Urls /\ call[q].files \in SUBSET File
    BY CallAt, CallFields
  <1>2. {q} \X call[q].files \subseteq Object
    BY <1>1 DEF Object, Id
  <1> QED
    BY <1>1, <1>2 DEF TotalUrls, Urls

(* A row with other columns and other URLs.                                *)
LEMMA RowRewritten ==
  ASSUME NEW t \in {"guests", "types"}, NEW old \in RowType[t], NEW cols, NEW files \in Urls
  PROVE  LET row == Rewritten(old, cols, files) IN
         /\ row.cols = cols /\ row.files = files
         /\ row.tenant = old.tenant /\ row.firm = old.firm /\ row.branch = old.branch
         /\ cols \in Cols(t) => row \in RowType[t]
PROOF
  <1> DEFINE half == [old EXCEPT !.cols = cols]
             row == [half EXCEPT !.files = files]
  <1>1. RowType[t] = [tenant: Tenant, firm: Id \cup {NULL}, branch: Id \cup {NULL},
                      files: Urls, cols: Cols(t)]
    BY RowTypes
  <1>2. /\ old = [tenant |-> old.tenant, firm |-> old.firm, branch |-> old.branch,
                  files |-> old.files, cols |-> old.cols]
        /\ old.tenant \in Tenant /\ old.firm \in Id \cup {NULL}
        /\ old.branch \in Id \cup {NULL}
    BY <1>1
  <1>3. half = [tenant |-> old.tenant, firm |-> old.firm, branch |-> old.branch,
                files |-> old.files, cols |-> cols]
    BY <1>2
  <1>4. row = Rewritten(old, cols, files)
    BY DEF Rewritten
  <1> HIDE DEF half
  <1>5. row = [tenant |-> old.tenant, firm |-> old.firm, branch |-> old.branch,
               files |-> files, cols |-> cols]
    BY <1>3
  <1> HIDE DEF row
  <1> QED
    BY <1>1, <1>2, <1>4, <1>5

LEMMA InsertGuestKeepsState ==
  ASSUME StateInv, NEW q \in Request, InsertGuest(q), UNCHANGED call
  PROVE  StateInv'
PROOF
  <1> DEFINE cols == Written("guests", call[q].set)
             row == [tenant |-> call[q].as.tenant, firm |-> draft[q].firm,
                     branch |-> draft[q].branch, files |-> TotalUrls(q), cols |-> cols]
  <1>1. /\ pc[q] = "guest" /\ call[q].op = "createGuest" /\ call[q] \in Call
        /\ call[q].as.tenant \in Tenant /\ Save(q, "guests", q, row)
        /\ draft[q].firm \in Id \cup {NULL} /\ draft[q].branch \in Id \cup {NULL}
    BY CallAt DEF InsertGuest, Draft
  <1>2. TotalUrls(q) \in Urls
    BY <1>1, TotalUrlsAreUrls
  <1>3. ~Refused(row.cols) => row \in RowType["guests"]
    BY <1>1, <1>2, CallFields, WrittenFits, RowTypes
  <1>4. "guests" \in Table /\ "guests" \notin Dated /\ q \in RowsOf("guests")
    BY DEF Table, Dated, RowsOf, Id
  <1> HIDE DEF row
  <1> QED
    BY <1>1, <1>3, <1>4, SaveKeepsState

LEMMA UpdateGuestKeepsState ==
  ASSUME StateInv, NEW q \in Request, UpdateGuest(q), UNCHANGED call
  PROVE  StateInv'
PROOF
  <1> DEFINE i == call[q].id
             old == db.guests[i]
             cols == Written("guests", call[q].set)
             row == Rewritten(old, cols, NULL)
  <1>1. /\ pc[q] = "setGuest" /\ call[q].op = "updateGuest" /\ call[q] \in Call
        /\ i \in Id /\ call[q].set \in Named("guests")
    BY CallAt, CallFields DEF UpdateGuest
  <1>2. CASE NoRow(q)
    BY <1>1, <1>2, NoRowKeepsState
  <1>3. CASE old # NULL /\ Save(q, "guests", i, row)
    <2>1. /\ "guests" \in Table /\ "guests" \notin Dated /\ i \in RowsOf("guests")
          /\ old \in RowType["guests"]
      BY <1>1, <1>3, RowsFit DEF StateInv, Table, RowsOf, Dated
    <2>2. row.cols = cols /\ (cols \in Cols("guests") => row \in RowType["guests"])
      BY <2>1, RowRewritten DEF Urls
    <2>3. ~Refused(row.cols) => row \in RowType["guests"]
      BY <1>1, <2>2, WrittenFits
    <2> HIDE DEF row, i
    <2> QED
      BY <1>1, <1>3, <2>1, <2>3, SaveKeepsState
  <1> QED
    BY <1>2, <1>3 DEF UpdateGuest

LEMMA InsertTypeKeepsState ==
  ASSUME StateInv, NEW q \in Request, InsertType(q), UNCHANGED call
  PROVE  StateInv'
PROOF
  <1> DEFINE cols == Written("types", call[q].set)
             row == [tenant |-> call[q].as.tenant,
                     firm |-> Or(call[q].firm, call[q].as.firm),
                     branch |-> Or(call[q].branch, call[q].as.branch),
                     files |-> TotalUrls(q), cols |-> cols]
  <1>1. /\ pc[q] = "type" /\ call[q].op = "createType" /\ call[q] \in Call
        /\ call[q].as.tenant \in Tenant /\ Save(q, "types", q, row)
        /\ call[q].as.firm \in Id \cup {NULL} /\ call[q].as.branch \in Id \cup {NULL}
    BY CallAt DEF InsertType
  <1>2. TotalUrls(q) \in Urls
    BY <1>1, TotalUrlsAreUrls
  <1>3. /\ Or(call[q].firm, call[q].as.firm) \in Id \cup {NULL}
        /\ Or(call[q].branch, call[q].as.branch) \in Id \cup {NULL}
    BY <1>1, CallFields DEF Or
  <1>4. ~Refused(row.cols) => row \in RowType["types"]
    BY <1>1, <1>2, <1>3, CallFields, WrittenFits, RowTypes
  <1>5. "types" \in Table /\ "types" \notin Dated /\ q \in RowsOf("types")
    BY DEF Table, Dated, RowsOf, Id
  <1> HIDE DEF row
  <1> QED
    BY <1>1, <1>4, <1>5, SaveKeepsState

LEMMA UpdateTypeKeepsState ==
  ASSUME StateInv, NEW q \in Request, UpdateType(q), UNCHANGED call
  PROVE  StateInv'
PROOF
  <1> DEFINE i == call[q].id
             old == db.types[i]
             cols == Merged(old.cols, call[q].set)
             row == Rewritten(old, cols, Or(TotalUrls(q), old.files))
  <1>1. /\ pc[q] = "setType" /\ call[q].op = "updateType" /\ call[q] \in Call
        /\ i \in Id /\ call[q].set \in Named("types")
    BY CallAt, CallFields DEF UpdateType
  <1>2. CASE NoRow(q)
    BY <1>1, <1>2, NoRowKeepsState
  <1>3. CASE old # NULL /\ Save(q, "types", i, row)
    <2>1. /\ "types" \in Table /\ "types" \notin Dated /\ i \in RowsOf("types")
          /\ old \in RowType["types"]
      BY <1>1, <1>3, RowsFit DEF StateInv, Table, RowsOf, Dated
    <2>2. old.cols \in Cols("types") /\ old.files \in Urls
      BY <2>1, RowTypes
    <2>3. Or(TotalUrls(q), old.files) \in Urls
      BY <1>1, <2>2, TotalUrlsAreUrls DEF Or
    <2>4. row.cols = cols /\ (cols \in Cols("types") => row \in RowType["types"])
      BY <2>1, <2>3, RowRewritten
    <2> HIDE DEF old
    <2>5. ~Refused(row.cols) => row \in RowType["types"]
      BY <1>1, <2>2, <2>4, MergedFits
    <2> HIDE DEF row, i
    <2> QED
      BY <1>1, <1>3, <2>1, <2>5, SaveKeepsState
  <1> QED
    BY <1>2, <1>3 DEF UpdateType

LEMMA RoomRowFits ==
  ASSUME StateInv, NEW q \in Request, pc[q] \in {"room", "bulk"}, NEW cols \in Cols("rooms")
  PROVE  RoomRow(q, cols) \in RowType["rooms"]
PROOF
  <1>1. /\ call[q].op \in {"createRoom", "bulkCreateRooms"} /\ call[q] \in Call
        /\ call[q].as.tenant \in Tenant
        /\ call[q].as.firm \in Id \cup {NULL} /\ call[q].as.branch \in Id \cup {NULL}
    BY CallAt
  <1>2. /\ Or(call[q].firm, call[q].as.firm) \in Id \cup {NULL}
        /\ Or(call[q].branch, call[q].as.branch) \in Id \cup {NULL}
    BY <1>1, CallFields DEF Or
  <1> QED
    BY <1>1, <1>2, RowTypes DEF RoomRow

LEMMA InsertRoomKeepsState ==
  ASSUME StateInv, NEW q \in Request, InsertRoom(q), UNCHANGED call
  PROVE  StateInv'
PROOF
  <1> DEFINE cols == Written("rooms", call[q].set)
             row == RoomRow(q, cols)
             i == <<q, cols.name>>
  <1>1. /\ pc[q] = "room" /\ call[q].op = "createRoom" /\ call[q] \in Call
        /\ call[q].set \in Named("rooms") /\ call[q].set.name \in Number \cup {NULL}
    BY CallAt, CallFields DEF InsertRoom
  <1>2. CASE Refused(cols)
    BY <1>1, <1>2, NoRowKeepsState DEF InsertRoom
  <1>3. CASE ~Refused(cols)
    <2>1. Save(q, "rooms", i, row)
      BY <1>3 DEF InsertRoom
    <2>2. row \in RowType["rooms"]
      BY <1>1, <1>3, WrittenFits, RoomRowFits
    <2>3. cols.name = call[q].set.name
      BY ColumnsOf DEF Written
    <2>4. cols.name # NULL
      BY <1>3, ColumnsOf DEF Refused, Required, Written
    <2>5. "rooms" \in Table /\ "rooms" \notin Dated /\ i \in RowsOf("rooms")
      BY <1>1, <2>3, <2>4 DEF Table, Dated, RowsOf, Id
    <2> HIDE DEF row, i
    <2> QED
      BY <1>1, <2>1, <2>2, <2>5, SaveKeepsState
  <1> QED
    BY <1>2, <1>3

LEMMA UpdateRoomKeepsState ==
  ASSUME StateInv, NEW q \in Request, UpdateRoom(q), UNCHANGED call
  PROVE  StateInv'
PROOF
  <1> DEFINE i == call[q].id
             old == db.rooms[i]
             cols == Merged(old.cols, call[q].set)
             row == [old EXCEPT !.cols = Merged(@, call[q].set)]
  <1>1. /\ pc[q] = "setRoom" /\ call[q].op = "updateRoom" /\ call[q] \in Call
        /\ i \in Id \X Number /\ call[q].set \in Named("rooms")
    BY CallAt, CallFields DEF UpdateRoom
  <1>2. CASE NoRow(q)
    BY <1>1, <1>2, NoRowKeepsState
  <1>3. CASE old # NULL /\ Save(q, "rooms", i, row)
    <2>1. /\ "rooms" \in Table /\ "rooms" \notin Dated /\ i \in RowsOf("rooms")
          /\ old \in RowType["rooms"]
      BY <1>1, <1>3, RowsFit DEF StateInv, Table, RowsOf, Dated
    <2>2. old.cols \in Cols("rooms")
      BY <2>1, RowTypes
    <2>3. row = [old EXCEPT !.cols = cols]
      BY <2>1, RowTypes
    <2> HIDE DEF old
    <2>4. row.cols = cols /\ (cols \in Cols("rooms") => row \in RowType["rooms"])
      <3> HIDE DEF row, cols
      <3> QED
        BY <2>1, <2>3, RowTypes
    <2>5. ~Refused(row.cols) => row \in RowType["rooms"]
      BY <1>1, <2>2, <2>4, MergedFits
    <2> HIDE DEF row, i
    <2> QED
      BY <1>1, <1>3, <2>1, <2>5, SaveKeepsState
  <1> QED
    BY <1>2, <1>3 DEF UpdateRoom

LEMMA BulkInsertKeepsState ==
  ASSUME StateInv, NEW q \in Request, BulkInsert(q), UNCHANGED call
  PROVE  StateInv'
PROOF
  <1>1. /\ pc[q] = "bulk" /\ call[q].op = "bulkCreateRooms" /\ call[q] \in Call
        /\ TablesOK /\ UNCHANGED <<draft, stored, sending, quote>>
        /\ call[q].first \in Number /\ call[q].last \in Number
    BY CallAt, CallFields DEF BulkInsert, StateInv, work
  <1>2. DOMAIN db["rooms"] = Id \X Number /\ DOMAIN db = Table /\ "rooms" \in Table
    BY <1>1 DEF TablesOK, RowsOf, Table
  <1>3. db' = [db EXCEPT !["rooms"] = [i \in Id \X Number |->
                 IF i[1] = q /\ i[2] \in call[q].first .. call[q].last
                 THEN RoomRow(q, [name |-> i[2], note |-> NULL, flag |-> NULL])
                 ELSE db["rooms"][i]]]
    BY <1>2 DEF BulkInsert
  <1>4. /\ \A t \in Table \ {"rooms"} : db'[t] = db[t]
        /\ db' = [t \in Table |-> db'[t]]
        /\ db'["rooms"] = [i \in Id \X Number |->
             IF i[1] = q /\ i[2] \in call[q].first .. call[q].last
             THEN RoomRow(q, [name |-> i[2], note |-> NULL, flag |-> NULL])
             ELSE db["rooms"][i]]
    BY <1>1, <1>2, <1>3 DEF TablesOK
  <1>5. ASSUME NEW n \in Number
        PROVE  RoomRow(q, [name |-> n, note |-> NULL, flag |-> NULL]) \in RowType["rooms"]
    <2> DEFINE cols == [name |-> n, note |-> NULL, flag |-> NULL]
    <2>1. n \in Nat /\ n # NULL
      BY BackOfficeAssumption, DatabaseAssumption
    <2>2. cols \in Named("rooms")
      BY <2>1, ColumnsOf DEF Named
    <2>3. cols \in Cols("rooms")
      <3>1. DOMAIN cols = {"name", "note", "flag"} /\ cols["name"] = n /\ cols["flag"] = NULL
        OBVIOUS
      <3> HIDE DEF cols
      <3> QED
        BY <2>1, <2>2, <3>1 DEF Cols, Refused, Required
    <2> QED
      BY <1>1, <2>3, RoomRowFits
  <1>6. db'["rooms"] \in [Id \X Number -> RowType["rooms"] \cup {NULL}]
    BY <1>1, <1>2, <1>4, <1>5 DEF TablesOK, RowsOf
  <1>7. TablesOK'
    BY <1>1, <1>2, <1>4, <1>6 DEF TablesOK, RowsOf
  <1>8. ASSUME NEW t \in Dated PROVE DatesInv(t)'
    <2>1. db'[t] = db[t]
      BY <1>4 DEF Dated, Table
    <2> QED
      BY <2>1 DEF StateInv, DatesInv, Rows, Newest
  <1>9. Goto(q, "ok") \/ Goto(q, "failed")
    BY DEF BulkInsert, Reply
  <1>10. /\ pc' \in [Request -> Statement] /\ call' \in [Request -> Call \cup {NULL}]
         /\ draft' \in [Request -> Draft \cup {NULL}]
         /\ \A p \in Request : Progress(p)'
    BY <1>1, <1>9, JustGoingOn
  <1> QED
    BY <1>1, <1>7, <1>8, <1>10 DEF StateInv

LEMMA AddRuleKeepsState ==
  ASSUME StateInv, NEW q \in Request, AddRule(q), UNCHANGED call
  PROVE  StateInv'
PROOF
  <1> DEFINE days == IF call[q].days = {} THEN 1..7 ELSE call[q].days
             row == [tenant |-> call[q].as.tenant, firm |-> draft[q].firm,
                     branch |-> draft[q].branch, type |-> call[q].type,
                     from |-> call[q].from, to |-> call[q].to,
                     factor |-> call[q].factor, days |-> days,
                     created |-> Newest("rules")]
  <1>1. /\ pc[q] = "addRule" /\ call[q].op = "createHourlyRule" /\ call[q] \in Call
        /\ call[q].as.tenant \in Tenant /\ Put("rules", q, row)
        /\ UNCHANGED <<stored, work>>
        /\ draft[q].firm \in Id \cup {NULL} /\ draft[q].branch \in Id \cup {NULL}
    BY CallAt DEF AddRule, Draft
  <1>2. Goto(q, "ok") \/ Goto(q, "failed")
    BY DEF AddRule, Reply
  <1>3. /\ call[q].type \in Id /\ call[q].from \in Nat /\ call[q].to \in Nat
        /\ call[q].factor \in Nat /\ call[q].days \in SUBSET (1..7)
    BY <1>1, CallFields
  <1>4. Newest("rules") \in Nat /\ "rules" \in Table /\ q \in RowsOf("rules")
    BY DatesOfTable DEF Dated, Table, RowsOf, Id
  <1>5. days \in SUBSET (1..7)
    BY <1>3
  <1> HIDE DEF days
  <1>6. row \in RowType["rules"] /\ row.created = Newest("rules")
    BY <1>1, <1>3, <1>4, <1>5, RowTypes
  <1> HIDE DEF row
  <1> QED
    BY <1>1, <1>2, <1>4, <1>6, WritingStatement

LEMMA AddSeasonKeepsState ==
  ASSUME StateInv, NEW q \in Request, AddSeason(q), UNCHANGED call
  PROVE  StateInv'
PROOF
  <1> DEFINE row == [tenant |-> call[q].as.tenant, firm |-> draft[q].firm,
                     branch |-> draft[q].branch, type |-> call[q].type,
                     from |-> call[q].from, to |-> call[q].to,
                     factor |-> call[q].factor, created |-> Newest("seasons")]
  <1>1. /\ pc[q] = "addSeason" /\ call[q].op = "createSeasonalRate" /\ call[q] \in Call
        /\ call[q].as.tenant \in Tenant /\ Put("seasons", q, row)
        /\ UNCHANGED <<stored, work>>
        /\ draft[q].firm \in Id \cup {NULL} /\ draft[q].branch \in Id \cup {NULL}
    BY CallAt DEF AddSeason, Draft
  <1>2. Goto(q, "ok") \/ Goto(q, "failed")
    BY DEF AddSeason, Reply
  <1>3. /\ call[q].type \in Id /\ call[q].from \in Nat /\ call[q].to \in Nat
        /\ call[q].factor \in Nat
    BY <1>1, CallFields
  <1>4. Newest("seasons") \in Nat /\ "seasons" \in Table /\ q \in RowsOf("seasons")
    BY DatesOfTable DEF Dated, Table, RowsOf, Id
  <1>5. row \in RowType["seasons"] /\ row.created = Newest("seasons")
    BY <1>1, <1>3, <1>4, RowTypes
  <1> HIDE DEF row
  <1> QED
    BY <1>1, <1>2, <1>4, <1>5, WritingStatement
-----------------------------------------------------------------------------
LEMMA DefaultsFit ==
  ASSUME NEW t, NEW d \in Defaults(t)
  PROVE  d.firm \in Id \cup {NULL} /\ d.branch \in Id \cup {NULL}
PROOF
  <1> DEFINE mine == {f \in Rows("firms") : db.firms[f].tenant = t}
             Of(f) == {b \in Rows("branches") : db.branches[b].firm = f}
             oldest == {f \in mine : \A g \in mine :
                          db.firms[f].created <= db.firms[g].created}
             Pairs(f) == [firm: {f}, branch: IF Of(f) = {} THEN {NULL} ELSE Of(f)]
  <1>1. Rows("firms") \subseteq Id /\ Rows("branches") \subseteq Id
    BY DEF Rows
  <1>2. CASE mine = {}
    <2>1. d \in {[firm |-> NULL, branch |-> NULL]}
      BY <1>2 DEF Defaults
    <2> QED
      BY <2>1
  <1>3. CASE mine # {}
    <2>1. d \in UNION {Pairs(f) : f \in oldest}
      BY <1>3 DEF Defaults
    <2>2. PICK f \in oldest : d \in Pairs(f)
      BY <2>1
    <2> QED
      BY <1>1, <2>2
  <1> QED
    BY <1>2, <1>3

LEMMA LookingUpKeepsState ==
  ASSUME StateInv, NEW q \in Request, FindGuest(q) \/ FillDefaults(q), UNCHANGED call
  PROVE  StateInv'
PROOF
  <1>1. CASE FindGuest(q)
    <2> DEFINE d == [firm |-> call[q].as.firm, branch |-> call[q].as.branch, amount |-> 0]
    <2>1. /\ pc[q] = "existing" /\ call[q].op = "createGuest"
          /\ call[q].as.firm \in Id \cup {NULL} /\ call[q].as.branch \in Id \cup {NULL}
      BY <1>1, CallAt DEF FindGuest
    <2>2. d \in Draft
      BY <2>1 DEF Draft
    <2>3. /\ draft' = [draft EXCEPT ![q] = d] /\ UNCHANGED <<db, stored, sending, quote>>
          /\ Goto(q, "guest") \/ Goto(q, "defaults")
      BY <1>1 DEF FindGuest
    <2>4. {"guest", "defaults"} \subseteq Path[call[q].op]
      BY <2>1, PathOf
    <2> HIDE DEF d
    <2> QED
      BY <2>1, <2>2, <2>3, <2>4, ReadingStatement DEF StateInv
  <1>2. CASE FillDefaults(q)
    <2>1. /\ pc[q] = "defaults"
          /\ call[q].op \in {"createGuest", "createHourlyRule", "createSeasonalRate",
                             "calculatePrice"}
          /\ call[q].as.firm \in Id \cup {NULL} /\ call[q].as.branch \in Id \cup {NULL}
      BY <1>2, CallAt DEF FillDefaults
    <2>2. PICK d \in Defaults(call[q].as.tenant) :
            draft' = [draft EXCEPT ![q] = [firm |-> Or(call[q].as.firm, d.firm),
                                           branch |-> Or(call[q].as.branch, d.branch),
                                           amount |-> 0]]
      BY <1>2 DEF FillDefaults
    <2> DEFINE e == [firm |-> Or(call[q].as.firm, d.firm),
                     branch |-> Or(call[q].as.branch, d.branch), amount |-> 0]
    <2>3. e \in Draft
      BY <2>1, DefaultsFit DEF Draft, Or
    <2>4. AfterDefaults[call[q].op] \in Path[call[q].op]
      BY <2>1, PathOf DEF AfterDefaults
    <2>5. UNCHANGED <<db, stored, sending, quote>> /\ Goto(q, AfterDefaults[call[q].op])
      BY <1>2 DEF FillDefaults
    <2>6. draft' = [draft EXCEPT ![q] = e]
      BY <2>2
    <2> HIDE DEF e
    <2> QED
      BY <2>1, <2>3, <2>4, <2>5, <2>6, ReadingStatement DEF StateInv
  <1> QED
    BY <1>1, <1>2
-----------------------------------------------------------------------------
LEMMA AnswerIsTyped ==
  ASSUME StateInv, NEW q \in Request, pc[q] \in {"season", "rule"}, UNCHANGED call,
         NEW amount \in Int, Answer(q, amount)
  PROVE  StateInv'
PROOF
  <1>1. call[q].op = "calculatePrice" /\ call[q] \in Call /\ draft[q] \in Draft
    BY CallAt
  <1>2. call[q].in \in Nat /\ call[q].out \in Nat /\ call[q].hourly \in BOOLEAN
    BY <1>1, CallFields
  <1>3. PICK cents \in Rounded(amount) :
          quote' = [quote EXCEPT ![q] = [hours |-> Hours(call[q]), cents |-> cents]]
    BY DEF Answer
  <1>4. Hours(call[q]) \in Int
    BY <1>2, UnitsCover
  <1>5. cents \in Int
    BY <1>3 DEF Rounded
  <1>6. quote' \in [Request -> [hours: Int, cents: Int] \cup {NULL}]
    BY <1>3, <1>4, <1>5 DEF StateInv
  <1> DEFINE d == [draft[q] EXCEPT !.amount = amount]
  <1>7. d \in Draft
    BY <1>1 DEF Draft
  <1>8. draft' = [draft EXCEPT ![q] = d] /\ UNCHANGED <<db, stored, sending>>
    BY DEF Answer
  <1>9. Goto(q, "ok") \/ Goto(q, "failed")
    BY DEF Answer, Reply
  <1> HIDE DEF d
  <1> QED
    BY <1>6, <1>7, <1>8, <1>9, ReadingStatement

LEMMA PricingKeepsState ==
  ASSUME StateInv, NEW q \in Request, ReadRates(q) \/ ReadSeason(q) \/ ReadRule(q),
         UNCHANGED call
  PROVE  StateInv'
PROOF
  <1>1. /\ pc[q] \in {"rates", "season", "rule"} /\ call[q].op = "calculatePrice"
        /\ call[q] \in Call /\ draft[q] \in Draft
    BY CallAt DEF ReadRates, ReadSeason, ReadRule
  <1>2. /\ call[q].type \in Id /\ call[q].in \in Nat /\ call[q].out \in Nat
        /\ call[q].hourly \in BOOLEAN
    BY <1>1, CallFields
  <1>3. CASE ReadRates(q)
    <2> DEFINE t == db.types[call[q].type]
               d == [draft[q] EXCEPT !.amount = Rate(t, call[q]) * Units(call[q]) * 100]
    <2>1. CASE Throw(q)
      BY <1>1, <2>1, NoRowKeepsState
    <2>2. CASE /\ t # NULL
               /\ draft' = [draft EXCEPT ![q].amount = Rate(t, call[q]) * Units(call[q]) * 100]
               /\ Goto(q, "season")
               /\ UNCHANGED <<db, stored, sending, quote>>
      <3>1. t \in RowType["types"]
        BY <1>2, <2>2, RowsFit DEF StateInv, Table, RowsOf
      <3>2. Rate(t, call[q]) \in Nat /\ Units(call[q]) \in Int
        BY <1>2, <3>1, RateIsNat, UnitsCover
      <3>3. d \in Draft
        BY <1>1, <3>2 DEF Draft
      <3>4. draft' = [draft EXCEPT ![q] = d]
        BY <2>2
      <3>5. "season" \in Path[call[q].op]
        BY <1>1, PathOf
      <3> HIDE DEF d
      <3> QED
        BY <1>1, <2>2, <3>3, <3>4, <3>5, ReadingStatement DEF StateInv
    <2> QED
      BY <1>3, <2>1, <2>2 DEF ReadRates
  <1>4. CASE ReadSeason(q)
    <2> DEFINE S == SeasonOf(db, call[q], draft[q].firm)
               amount == (draft[q].amount * S) \div 10
               d == [draft[q] EXCEPT !.amount = amount]
    <2>1. S \in Nat /\ draft[q].amount \in Int
      BY <1>1, FactorsNow DEF Draft
    <2>2. amount \in Int
      BY <2>1
    <2>3. pc[q] = "season"
      BY <1>4 DEF ReadSeason
    <2>4. CASE Answer(q, amount)
      BY <2>2, <2>3, <2>4, AnswerIsTyped
    <2>5. CASE /\ draft' = [draft EXCEPT ![q].amount = amount]
               /\ Goto(q, "rule")
               /\ UNCHANGED <<db, stored, sending, quote>>
      <3> HIDE DEF amount
      <3>1. d \in Draft
        BY <1>1, <2>2 DEF Draft
      <3>2. draft' = [draft EXCEPT ![q] = d]
        BY <2>5
      <3>3. "rule" \in Path[call[q].op]
        BY <1>1, PathOf
      <3> HIDE DEF d
      <3> QED
        BY <1>1, <2>5, <3>1, <3>2, <3>3, ReadingStatement DEF StateInv
    <2> QED
      BY <1>4, <2>4, <2>5 DEF ReadSeason
  <1>5. CASE ReadRule(q)
    <2> DEFINE amount == (draft[q].amount * RuleOf(db, call[q], draft[q].firm)) \div 10
    <2>1. RuleOf(db, call[q], draft[q].firm) \in Nat /\ draft[q].amount \in Int
      BY <1>1, FactorsNow DEF Draft
    <2>2. amount \in Int
      BY <2>1
    <2>3. pc[q] = "rule" /\ Answer(q, amount)
      BY <1>5 DEF ReadRule
    <2> HIDE DEF amount
    <2> QED
      BY <2>2, <2>3, AnswerIsTyped
  <1> QED
    BY <1>3, <1>4, <1>5
-----------------------------------------------------------------------------
LEMMA UploadingKeepsState ==
  ASSUME StateInv, NEW q \in Request, UNCHANGED call,
         Uploaded(q) \/ \E f \in File : Upload(q, f) \/ UploadFails(q, f)
  PROVE  StateInv'
PROOF
  <1>1. CASE Uploaded(q)
    <2>1. /\ pc[q] = "upload"
          /\ call[q].op \in {"createGuest", "updateGuest", "createType", "updateType"}
      BY <1>1, CallAt DEF Uploaded, Wait
    <2>2. AfterUpload[call[q].op] \in Path[call[q].op]
      BY <2>1, PathOf DEF AfterUpload
    <2>3. Goto(q, AfterUpload[call[q].op]) /\ UNCHANGED <<db, stored, work>>
      BY <1>1 DEF Uploaded
    <2> QED
      BY <2>1, <2>2, <2>3, IdleStatement
  <1>2. ASSUME NEW f \in File, Upload(q, f) \/ UploadFails(q, f)
        PROVE  StateInv'
    <2>1. UNCHANGED <<db, draft, quote>> /\ sending' = [sending EXCEPT ![q] = sending[q] \ {f}]
      BY <1>2 DEF Upload, UploadFails
    <2>2. TablesOK' /\ \A t \in Dated : DatesInv(t)'
      BY <2>1, SameTables
    <2>3. stored' \subseteq Object
      <3>1. <<q, f>> \in Object
        BY DEF Object, Id
      <3> QED
        BY <1>2, <3>1 DEF Upload, UploadFails, StateInv
    <2>4. /\ pc' \in [Request -> Statement] /\ \A p \in Request : Progress(p)'
      <3>1. CASE UNCHANGED pc
        BY <2>1, <3>1 DEF StateInv, Progress
      <3>2. CASE pc[q] = "upload" /\ Goto(q, "failed")
        BY <2>1, <3>2, JustGoingOn
      <3> QED
        BY <1>2, <3>1, <3>2 DEF Upload, UploadFails
    <2>5. sending' \in [Request -> SUBSET File]
      BY <2>1 DEF StateInv
    <2> QED
      BY <2>1, <2>2, <2>3, <2>4, <2>5 DEF StateInv
  <1> QED
    BY <1>1, <1>2

(* A request that comes finds the statement that its handler begins with.  *)
LEMMA FirstIsOnPath ==
  ASSUME NEW c \in Call
  PROVE  /\ First(c) \in Path[c.op]
         /\ c.op \in DOMAIN AfterUpload <=>
              c.op \in {"createGuest", "updateGuest", "createType", "updateType"}
         /\ First(c) = "upload" <=>
              c.op \in {"createGuest", "updateGuest", "createType", "updateType"}
         /\ First(c) \notin {"branch", "existing", "guest", "setGuest", "type", "setType",
                             "season", "rule", "ok", "failed", "idle"}
         /\ First(c) = "rates" <=> c.op = "calculatePrice" /\ c.as.firm # NULL
         /\ First(c) = "defaults" => c.as.firm = NULL \/ c.as.branch = NULL
         /\ First(c) \in {"addRule", "addSeason"} => Complete(c.as)
PROOF
  <1>1. c.op \in DOMAIN Path
    BY CallFields
  <1>2. DOMAIN AfterUpload = {"createGuest", "updateGuest", "createType", "updateType"}
    BY DEF AfterUpload
  <1>3. First(c) = IF \/ c.op \in {"createHourlyRule", "createSeasonalRate"} /\ ~Complete(c.as)
                      \/ c.op = "calculatePrice" /\ c.as.firm = NULL
                   THEN "defaults" ELSE FirstStep[c.op]
    BY DEF First
  <1>4. /\ FirstStep["createFirm"] = "firm" /\ FirstStep["updateFirm"] = "setFirm"
        /\ FirstStep["createHotel"] = "hotel" /\ FirstStep["updateHotel"] = "setHotel"
        /\ FirstStep["createGuest"] = "upload" /\ FirstStep["updateGuest"] = "upload"
        /\ FirstStep["createType"] = "upload" /\ FirstStep["updateType"] = "upload"
        /\ FirstStep["createRoom"] = "room" /\ FirstStep["updateRoom"] = "setRoom"
        /\ FirstStep["bulkCreateRooms"] = "bulk"
        /\ FirstStep["createHourlyRule"] = "addRule"
        /\ FirstStep["createSeasonalRate"] = "addSeason"
        /\ FirstStep["calculatePrice"] = "rates"
    BY DEF FirstStep
  <1>5. /\ Complete(c.as) \/ c.as.firm = NULL \/ c.as.branch = NULL
        /\ Complete(c.as) => c.as.firm # NULL
    BY DEF Complete
  <1> QED
    BY <1>1, <1>2, <1>3, <1>4, <1>5, PathOf

LEMMA ArriveKeepsState ==
  ASSUME StateInv, NEW q \in Request, Arrive(q)
  PROVE  StateInv'
PROOF
  <1>1. PICK calls \in Mix : \E c \in calls :
          /\ call' = [call EXCEPT ![q] = c]
          /\ Goto(q, First(c))
          /\ draft' = [draft EXCEPT ![q] = [firm |-> c.as.firm, branch |-> c.as.branch,
                                            amount |-> 0]]
          /\ sending' = [sending EXCEPT ![q] =
                           IF c.op \in DOMAIN AfterUpload THEN c.files ELSE {}]
    BY DEF Arrive
  <1>2. PICK c \in calls :
          /\ call' = [call EXCEPT ![q] = c]
          /\ Goto(q, First(c))
          /\ draft' = [draft EXCEPT ![q] = [firm |-> c.as.firm, branch |-> c.as.branch,
                                            amount |-> 0]]
          /\ sending' = [sending EXCEPT ![q] =
                           IF c.op \in DOMAIN AfterUpload THEN c.files ELSE {}]
    BY <1>1
  <1>3. c \in UNION Mix /\ c \in Call /\ pc[q] = "idle" /\ UNCHANGED <<db, stored, quote>>
    BY BackOfficeAssumption DEF Arrive
  <1>4. First(c) \in Path[c.op] /\ c.as \in Session /\ c.op \in DOMAIN Path
    BY <1>3, FirstIsOnPath, CallFields
  <1> DEFINE d == [firm |-> c.as.firm, branch |-> c.as.branch, amount |-> 0]
             sent == IF c.op \in DOMAIN AfterUpload THEN c.files ELSE {}
  <1>5. d \in Draft
    BY <1>4 DEF Draft, Session
  <1>6. sent \in SUBSET File
    BY <1>3, FirstIsOnPath, CallFields
  <1>7. draft' = [draft EXCEPT ![q] = d] /\ sending' = [sending EXCEPT ![q] = sent]
    BY <1>2
  <1> HIDE DEF d, sent
  <1>8. TablesOK' /\ \A t \in Dated : DatesInv(t)'
    BY <1>3, SameTables
  <1>9. First(c) \in Statement
    BY <1>4 DEF Statement
  <1>10. /\ pc' \in [Request -> Statement] /\ call' \in [Request -> Call \cup {NULL}]
         /\ draft' \in [Request -> Draft \cup {NULL}]
         /\ sending' \in [Request -> SUBSET File]
    BY <1>2, <1>3, <1>5, <1>6, <1>7, <1>9 DEF StateInv, Goto
  <1>11. ASSUME NEW p \in Request PROVE Progress(p)'
    <2>1. CASE p = q
      <3>1. pc'[q] = First(c) /\ call'[q] = c /\ draft'[q] = d
        BY <1>2, <1>7 DEF StateInv, Goto
      <3> QED
        BY <1>3, <1>4, <1>5, <2>1, <3>1 DEF Progress
    <2>2. CASE p # q
      <3>1. pc'[p] = pc[p] /\ call'[p] = call[p] /\ draft'[p] = draft[p]
        BY <1>2, <1>7, <2>2 DEF StateInv, Goto
      <3> QED
        BY <3>1 DEF StateInv, Progress
    <2> QED
      BY <2>1, <2>2
  <1> QED
    BY <1>3, <1>8, <1>10, <1>11 DEF StateInv

LEMMA StepKeepsState ==
  ASSUME StateInv, Step
  PROVE  StateInv'
PROOF
  <1>1. ASSUME NEW q \in Request, Arrive(q) PROVE StateInv'
    BY <1>1, ArriveKeepsState
  <1>2. ASSUME NEW q \in Request, Execute(q), UNCHANGED call PROVE StateInv'
    <2>1. CASE UpdateFirm(q)
      BY <1>2, <2>1, CallAt, CallFields, OverwriteKeepsState DEF UpdateFirm
    <2>2. CASE UpdateHotel(q)
      BY <1>2, <2>2, CallAt, CallFields, OverwriteKeepsState DEF UpdateHotel
    <2> QED
      BY <1>2, <2>1, <2>2, InsertFirmKeepsState, InsertBranchKeepsState,
         InsertHotelKeepsState, UploadingKeepsState, LookingUpKeepsState,
         InsertGuestKeepsState, UpdateGuestKeepsState, InsertTypeKeepsState,
         UpdateTypeKeepsState, InsertRoomKeepsState, UpdateRoomKeepsState,
         BulkInsertKeepsState, AddRuleKeepsState, AddSeasonKeepsState,
         PricingKeepsState DEF Execute
  <1>3. ASSUME NEW q \in Request, Fail(q), UNCHANGED call PROVE StateInv'
    BY <1>3, NoRowKeepsState DEF Fail
  <1>4. ASSUME NEW q \in Request, NEW f \in File, UNCHANGED call,
               Upload(q, f) \/ UploadFails(q, f)
        PROVE  StateInv'
    BY <1>4, UploadingKeepsState
  <1> QED
    BY <1>1, <1>2, <1>3, <1>4 DEF Step
-----------------------------------------------------------------------------
(* The rows that there are before any request are those of seeds.          *)
LEMMA SeedRows ==
  ASSUME NEW t \in Table, t # "rooms", NEW i \in Id, Database[t][i] # NULL
  PROVE  i \in Seed
PROOF
  <1>1. i \in RowsOf(t)
    BY DEF RowsOf
  <1>2. i \in Seed \cup (Seed \X Number)
    BY <1>1, DatabaseAssumption
  <1>3. Seed \X Number \subseteq Id \X Number /\ Id \cap (Id \X Number) = {}
    BY DatabaseAssumption DEF Id
  <1> QED
    BY <1>2, <1>3

LEMMA InitState == ASSUME Init PROVE StateInv
PROOF
  <1>1. db = Database /\ TablesOK
    BY DatabaseAssumption DEF Init, TablesOK
  <1>2. ASSUME NEW t \in Dated PROVE DatesInv(t)
    <2>1. Rows(t) \subseteq Seed /\ t \in Table /\ t \in {"firms", "seasons", "rules"}
          /\ RowsOf(t) = Id
      BY <1>1, SeedRows DEF Rows, Dated, Table, RowsOf
    <2>2. IsFiniteSet(Rows(t))
      BY <2>1, FS_Subset, DatabaseAssumption
    <2>3. \A i \in Rows(t) : db[t][i].created <= Newest(t)
      BY <1>1, <2>1, DatabaseAssumption DEF Rows, Newest
    <2> QED
      BY <2>2, <2>3 DEF DatesInv
  <1>3. stored \subseteq Object
    BY DEF Init, Object, Id
  <1>4. "idle" \in Statement
    BY DEF Statement
  <1>5. \A q \in Request : Progress(q)
    BY DEF Init, Progress
  <1> QED
    BY <1>1, <1>2, <1>3, <1>4, <1>5 DEF Init, StateInv

(* A step is one of a request.                                             *)
Move(q) ==
  \/ Arrive(q)
  \/ Execute(q) /\ UNCHANGED call
  \/ Fail(q) /\ UNCHANGED call
  \/ \E f \in File : (Upload(q, f) \/ UploadFails(q, f)) /\ UNCHANGED call

(* Only that request moves, and one that has come stays.                   *)
LEMMA OneMoves ==
  ASSUME StateInv, NEW r \in Request, Move(r)
  PROVE  /\ ~Over(r) \/ sending[r] # {}
         /\ pc[r] # "idle" => pc'[r] # "idle" /\ call'[r] = call[r]
         /\ \A p \in Request \ {r} :
              /\ pc'[p] = pc[p] /\ call'[p] = call[p] /\ draft'[p] = draft[p]
              /\ sending'[p] = sending[p] /\ quote'[p] = quote[p]
PROOF
  <1> DEFINE Only(q) == \A p \in Request \ {q} :
                /\ pc'[p] = pc[p] /\ call'[p] = call[p] /\ draft'[p] = draft[p]
                /\ sending'[p] = sending[p] /\ quote'[p] = quote[p]
             One(q) == /\ ~Over(q) \/ sending[q] # {}
                       /\ pc[q] # "idle" => pc'[q] # "idle" /\ call'[q] = call[q]
                       /\ Only(q)
  <1>0. /\ pc \in [Request -> Statement] /\ call \in [Request -> Call \cup {NULL}]
        /\ draft \in [Request -> Draft \cup {NULL}] /\ sending \in [Request -> SUBSET File]
        /\ quote \in [Request -> [hours: Int, cents: Int] \cup {NULL}]
    BY DEF StateInv
  <1>1. ASSUME NEW q \in Request, Arrive(q) PROVE One(q)
    <2>1. PICK calls \in Mix : \E c \in calls :
            /\ call' = [call EXCEPT ![q] = c]
            /\ Goto(q, First(c))
            /\ draft' = [draft EXCEPT ![q] = [firm |-> c.as.firm, branch |-> c.as.branch,
                                              amount |-> 0]]
            /\ sending' = [sending EXCEPT ![q] =
                             IF c.op \in DOMAIN AfterUpload THEN c.files ELSE {}]
      BY <1>1 DEF Arrive
    <2>2. PICK c \in calls :
            /\ call' = [call EXCEPT ![q] = c]
            /\ Goto(q, First(c))
            /\ draft' = [draft EXCEPT ![q] = [firm |-> c.as.firm, branch |-> c.as.branch,
                                              amount |-> 0]]
            /\ sending' = [sending EXCEPT ![q] =
                             IF c.op \in DOMAIN AfterUpload THEN c.files ELSE {}]
      BY <2>1
    <2>3. pc[q] = "idle" /\ quote' = quote /\ c \in Call
      BY <1>1, BackOfficeAssumption DEF Arrive
    <2>4. Only(q)
      BY <1>0, <2>2, <2>3 DEF Goto
    <2>5. First(c) # "idle"
      BY <2>3, FirstIsOnPath
    <2>6. pc'[q] # "idle" /\ ~Over(q)
      BY <1>0, <2>2, <2>3, <2>5 DEF Goto, Over
    <2> QED
      BY <2>3, <2>4, <2>6
  <1>2. ASSUME NEW q \in Request, NEW s, Goto(q, s)
        PROVE  pc'[q] = s /\ \A p \in Request \ {q} : pc'[p] = pc[p]
    BY <1>0, <1>2 DEF Goto
  <1>3. ASSUME NEW q \in Request, UNCHANGED work
        PROVE  \A p \in Request \ {q} : /\ draft'[p] = draft[p]
                 /\ sending'[p] = sending[p] /\ quote'[p] = quote[p]
    BY <1>3 DEF work
  <1>4. ASSUME NEW q \in Request, Execute(q), UNCHANGED call PROVE One(q)
    <2>1. CASE InsertFirm(q) \/ InsertBranch(q)
      BY <1>2, <1>3, <1>4, <2>1 DEF InsertFirm, InsertBranch, Reply, Throw, Over
    <2>2. CASE UpdateFirm(q) \/ UpdateHotel(q)
      BY <1>2, <1>3, <1>4, <2>2
      DEF UpdateFirm, UpdateHotel, Overwrite, NoRow, Save, Reply, Over
    <2>3. CASE InsertHotel(q) \/ InsertGuest(q) \/ InsertType(q)
      BY <1>2, <1>3, <1>4, <2>3 DEF InsertHotel, InsertGuest, InsertType, Save, Reply, Over
    <2>4. CASE UpdateGuest(q) \/ UpdateType(q) \/ UpdateRoom(q)
      BY <1>2, <1>3, <1>4, <2>4
      DEF UpdateGuest, UpdateType, UpdateRoom, NoRow, Save, Reply, Over
    <2>5. CASE InsertRoom(q)
      BY <1>2, <1>3, <1>4, <2>5 DEF InsertRoom, Throw, Save, Reply, Over
    <2>6. CASE BulkInsert(q) \/ AddRule(q) \/ AddSeason(q)
      BY <1>2, <1>3, <1>4, <2>6 DEF BulkInsert, AddRule, AddSeason, Reply, Over
    <2>7. CASE Uploaded(q)
      <3>1. /\ pc[q] = "upload" /\ UNCHANGED <<db, stored, work>>
            /\ call[q].op \in {"createGuest", "updateGuest", "createType", "updateType"}
            /\ Goto(q, AfterUpload[call[q].op])
        BY <2>7, CallAt DEF Uploaded, Wait
      <3>2. AfterUpload[call[q].op] # "idle"
        BY <3>1 DEF AfterUpload
      <3> QED
        BY <1>2, <1>3, <1>4, <3>1, <3>2 DEF Over
    <2>8. CASE FindGuest(q)
      BY <1>0, <1>2, <1>4, <2>8 DEF FindGuest, Over
    <2>9. CASE FillDefaults(q)
      <3>1. /\ pc[q] = "defaults" /\ UNCHANGED <<db, stored, sending, quote>>
            /\ call[q].op \in {"createGuest", "createHourlyRule", "createSeasonalRate",
                               "calculatePrice"}
            /\ Goto(q, AfterDefaults[call[q].op])
        BY <2>9, CallAt DEF FillDefaults
      <3>2. AfterDefaults[call[q].op] # "idle"
        BY <3>1 DEF AfterDefaults
      <3>3. \A p \in Request \ {q} : draft'[p] = draft[p]
        BY <1>0, <2>9 DEF FillDefaults
      <3> QED
        BY <1>2, <1>4, <3>1, <3>2, <3>3 DEF Over
    <2>10. CASE ReadRates(q)
      <3>1. \A p \in Request \ {q} : draft'[p] = draft[p]
        BY <1>0, <2>10 DEF ReadRates, Throw, work
      <3> QED
        BY <1>2, <1>3, <1>4, <2>10, <3>1 DEF ReadRates, Throw, Over
    <2>11. ASSUME NEW amount, Answer(q, amount)
           PROVE  pc'[q] # "idle" /\ Only(q)
      <3>1. \A p \in Request \ {q} : draft'[p] = draft[p] /\ quote'[p] = quote[p]
        BY <1>0, <2>11 DEF Answer
      <3> QED
        BY <1>2, <1>4, <2>11, <3>1 DEF Answer, Reply
    <2>12. CASE ReadSeason(q)
      <3> DEFINE amount == (draft[q].amount * SeasonOf(db, call[q], draft[q].firm)) \div 10
      <3>1. CASE Answer(q, amount)
        BY <1>4, <2>11, <2>12, <3>1 DEF ReadSeason, Over
      <3>2. CASE /\ draft' = [draft EXCEPT ![q].amount = amount]
                 /\ Goto(q, "rule")
                 /\ UNCHANGED <<db, stored, sending, quote>>
        <4>1. \A p \in Request \ {q} : draft'[p] = draft[p]
          BY <1>0, <3>2
        <4> QED
          BY <1>2, <1>4, <2>12, <3>2, <4>1 DEF ReadSeason, Over
      <3> QED
        BY <2>12, <3>1, <3>2 DEF ReadSeason
    <2>13. CASE ReadRule(q)
      BY <1>4, <2>11, <2>13 DEF ReadRule, Over
    <2> QED
      BY <1>4, <2>1, <2>2, <2>3, <2>4, <2>5, <2>6, <2>7, <2>8, <2>9, <2>10, <2>12, <2>13
      DEF Execute
  <1>5. ASSUME NEW q \in Request, Fail(q), UNCHANGED call PROVE One(q)
    BY <1>2, <1>3, <1>5 DEF Fail, Throw, Over
  <1>6. ASSUME NEW q \in Request, NEW f \in File, UNCHANGED call,
               Upload(q, f) \/ UploadFails(q, f)
        PROVE  One(q)
    <2>1. sending[q] # {} /\ sending' = [sending EXCEPT ![q] = sending[q] \ {f}]
          /\ UNCHANGED <<draft, quote>>
      BY <1>6 DEF Upload, UploadFails
    <2>2. CASE UNCHANGED pc
      BY <1>0, <1>6, <2>1, <2>2
    <2> QED
      BY <1>0, <1>2, <1>6, <2>1, <2>2 DEF Upload, UploadFails
  <1> QED
    BY <1>1, <1>4, <1>5, <1>6 DEF Move
-----------------------------------------------------------------------------
(* What a price is computed from, whatever the tables are.                 *)
GoodTables(d) ==
  /\ \A t \in {"types", "seasons", "rules"} : d[t] \in [Id -> RowType[t] \cup {NULL}]
  /\ \A t \in {"seasons", "rules"} :
       /\ IsFiniteSet({i \in Id : d[t][i] # NULL})
       /\ \A i \in Id :
            d[t][i] # NULL => d[t][i].created <= Cardinality({j \in Id : d[t][j] # NULL})

LEMMA PriceIsInt ==
  ASSUME NEW d, GoodTables(d), NEW c \in Call, c.op = "calculatePrice", NEW firm
  PROVE  /\ SeasonOf(d, c, firm) \in Nat /\ RuleOf(d, c, firm) \in Nat
         /\ Units(c) \in Int /\ c.type \in Id /\ c.hourly \in BOOLEAN
         /\ d.types[c.type] = NULL => Price(d, c, firm) = 0
         /\ d.types[c.type] # NULL =>
              /\ Rate(d.types[c.type], c) \in Nat
              /\ Price(d, c, firm) = Units(c) * Rate(d.types[c.type], c) * SeasonOf(d, c, firm)
                                       * (IF c.hourly THEN RuleOf(d, c, firm) ELSE 10)
         /\ Price(d, c, firm) \in Int
PROOF
  <1> DEFINE All(t) == {i \in Id : d[t][i] # NULL}
  <1>1. /\ c.type \in Id /\ c.in \in Nat /\ c.out \in Nat /\ c.hourly \in BOOLEAN
    BY CallFields
  <1>2. ASSUME NEW t \in {"seasons", "rules"}
        PROVE  /\ Cardinality(All(t)) \in Nat
               /\ \A i \in Id : d[t][i] # NULL =>
                    d[t][i].created \in 0 .. Cardinality(All(t)) /\ d[t][i].factor \in Nat
    <2>1. Cardinality(All(t)) \in Nat
      BY FS_CardinalityType DEF GoodTables
    <2>2. \A i \in Id : d[t][i] # NULL =>
            d[t][i] \in RowType[t] /\ d[t][i].created <= Cardinality(All(t))
      BY DEF GoodTables
    <2>3. \A row \in RowType[t] : row.created \in Nat /\ row.factor \in Nat
      <3>1. CASE t = "seasons"
        BY <3>1, RowTypes
      <3>2. CASE t = "rules"
        BY <3>2, RowTypes
      <3> QED
        BY <3>1, <3>2
    <2> HIDE DEF All
    <2> QED
      BY <2>1, <2>2, <2>3
  <1> HIDE DEF All
  <1>3. SeasonOf(d, c, firm) \in Nat /\ RuleOf(d, c, firm) \in Nat
    <2>1. Cardinality(All("seasons")) \in Nat /\ Cardinality(All("rules")) \in Nat
      BY <1>2
    <2>2. \A i \in Id : d.seasons[i] # NULL =>
            d.seasons[i].created \in 0 .. Cardinality(All("seasons")) /\ d.seasons[i].factor \in Nat
      BY <1>2
    <2>3. \A i \in Id : d.rules[i] # NULL =>
            d.rules[i].created \in 0 .. Cardinality(All("rules")) /\ d.rules[i].factor \in Nat
      BY <1>2
    <2> QED
      BY <2>1, <2>2, <2>3, FactorsAreNat
  <1>4. Units(c) \in Int
    BY <1>1, UnitsCover
  <1>5. d.types[c.type] = NULL => Price(d, c, firm) = 0
    BY DEF Price
  <1>6. ASSUME d.types[c.type] # NULL
        PROVE  /\ Rate(d.types[c.type], c) \in Nat
               /\ Price(d, c, firm) = Units(c) * Rate(d.types[c.type], c) * SeasonOf(d, c, firm)
                                        * (IF c.hourly THEN RuleOf(d, c, firm) ELSE 10)
    <2>1. d.types[c.type] \in RowType["types"]
      BY <1>1, <1>6 DEF GoodTables
    <2>2. Rate(d.types[c.type], c) \in Nat
      BY <2>1, RateIsNat
    <2> DEFINE stay == c.out - c.in
               unit == IF c.hourly THEN 60 ELSE 1440
               n == CHOOSE k \in stay \div unit .. (stay \div unit) + 1 :
                      k * unit >= stay /\ (k - 1) * unit < stay
    <2>3. Price(d, c, firm) = n * Rate(d.types[c.type], c) * SeasonOf(d, c, firm)
                                * (IF c.hourly THEN RuleOf(d, c, firm) ELSE 10)
      BY <1>6 DEF Price
    <2>4. n = Units(c)
      BY <1>1, UnitsCover
    <2> HIDE DEF n
    <2> QED
      BY <2>2, <2>3, <2>4
  <1>7. Price(d, c, firm) \in Int
    <2>1. CASE d.types[c.type] = NULL
      BY <1>5, <2>1
    <2>2. CASE d.types[c.type] # NULL
      <3> DEFINE f == IF c.hourly THEN RuleOf(d, c, firm) ELSE 10
      <3>1. f \in Nat
        BY <1>1, <1>3
      <3>2. Units(c) * Rate(d.types[c.type], c) * SeasonOf(d, c, firm) \in Int
        BY <1>3, <1>4, <1>6, <2>2
      <3> HIDE DEF f
      <3>3. (Units(c) * Rate(d.types[c.type], c) * SeasonOf(d, c, firm)) * f \in Int
        BY <3>1, <3>2
      <3> QED
        BY <1>6, <2>2, <3>3 DEF f
    <2> QED
      BY <2>1, <2>2
  <1> QED
    BY <1>1, <1>3, <1>4, <1>5, <1>6, <1>7

LEMMA TablesAreGood ==
  /\ StateInv => GoodTables(db)
  /\ StateInv' => GoodTables(db')
PROOF
  <1>1. ASSUME StateInv PROVE GoodTables(db)
    <2>1. \A t \in {"types", "seasons", "rules"} : db[t] \in [Id -> RowType[t] \cup {NULL}]
      BY <1>1 DEF StateInv, TablesOK, Table, RowsOf
    <2>2. \A t \in {"seasons", "rules"} :
            /\ IsFiniteSet({i \in Id : db[t][i] # NULL})
            /\ \A i \in {i \in Id : db[t][i] # NULL} :
                 db[t][i].created <= Cardinality({j \in Id : db[t][j] # NULL})
      BY <1>1 DEF StateInv, Dated, DatesInv, Rows, Newest
    <2> QED
      BY <2>1, <2>2 DEF GoodTables
  <1>2. ASSUME StateInv' PROVE GoodTables(db')
    <2>1. \A t \in {"types", "seasons", "rules"} : db'[t] \in [Id -> RowType[t] \cup {NULL}]
      BY <1>2 DEF StateInv, TablesOK, Table, RowsOf
    <2>2. \A t \in {"seasons", "rules"} :
            /\ IsFiniteSet({i \in Id : db'[t][i] # NULL})
            /\ \A i \in {i \in Id : db'[t][i] # NULL} :
                 db'[t][i].created <= Cardinality({j \in Id : db'[t][j] # NULL})
      BY <1>2 DEF StateInv, Dated, DatesInv, Rows, Newest
    <2> QED
      BY <2>1, <2>2 DEF GoodTables
  <1> QED
    BY <1>1, <1>2

(* What is noted of the prices there were.                                 *)
LEMMA WatchIsTyped ==
  ASSUME StateInv, StateInv', Step, Watch,
         moments \in [Request -> SUBSET Int], writes \in [Request -> SUBSET Request]
  PROVE  /\ moments' \in [Request -> SUBSET Int]
         /\ writes' \in [Request -> SUBSET Request]
PROOF
  <1>1. ASSUME NEW q \in Request, Quoting(q) \/ Quoting(q)'
        PROVE  Price(db', call'[q], draft'[q].firm) \in Int
    <2>1. call'[q] \in Call /\ call'[q].op = "calculatePrice"
      <3>1. CASE Quoting(q)
        <4>1. pc[q] # "idle" /\ call[q] \in Call /\ call[q].op = "calculatePrice"
          BY <3>1, CallAt DEF Quoting
        <4>2. PICK r \in Request : Move(r)
          BY DEF Step, Move
        <4>3. call'[q] = call[q]
          BY <4>1, <4>2, OneMoves
        <4> QED
          BY <4>1, <4>3
      <3>2. CASE Quoting(q)'
        <4>1. pc'[q] \in {"rates", "season", "rule"}
          BY <3>2 DEF Quoting
        <4>2. /\ call'[q] \in UNION Mix
              /\ pc'[q] \in Path[call'[q].op] \cup {"ok", "failed"}
          BY <4>1 DEF StateInv, Progress
        <4>3. call'[q] \in Call
          BY <4>2, BackOfficeAssumption
        <4> QED
          BY <4>1, <4>2, <4>3, CallFields, PathOf
      <3> QED
        BY <1>1, <3>1, <3>2
    <2>2. GoodTables(db')
      BY TablesAreGood
    <2> QED
      BY <2>1, <2>2, PriceIsInt
  <1>2. moments' \in [Request -> SUBSET Int]
    BY <1>1 DEF Watch
  <1>3. writes' \in [Request -> SUBSET Request]
    BY DEF Watch
  <1> QED
    BY <1>2, <1>3

LEMMA InitIsTyped == ASSUME Init PROVE BackOfficeInv
PROOF
  <1>1. StateInv
    BY InitState
  <1>2. moments \in [Request -> SUBSET Int] /\ writes \in [Request -> SUBSET Request]
    BY DEF Init
  <1> QED
    BY <1>1, <1>2 DEF BackOfficeInv, StateInv, TypeOK

LEMMA NextIsTyped ==
  ASSUME BackOfficeInv, [Next]_vars
  PROVE  BackOfficeInv'
PROOF
  <1>1. StateInv /\ moments \in [Request -> SUBSET Int] /\ writes \in [Request -> SUBSET Request]
    BY DEF BackOfficeInv, TypeOK
  <1>2. CASE Step /\ Watch
    <2>1. StateInv'
      BY <1>1, <1>2, StepKeepsState
    <2>2. moments' \in [Request -> SUBSET Int] /\ writes' \in [Request -> SUBSET Request]
      BY <1>1, <1>2, <2>1, WatchIsTyped
    <2> QED
      BY <2>1, <2>2 DEF BackOfficeInv, StateInv, TypeOK
  <1>3. CASE UNCHANGED vars
    BY <1>3 DEF vars, BackOfficeInv, StateInv, TypeOK, TablesOK, DatesInv, Rows, Newest, Progress
  <1> QED
    BY <1>2, <1>3 DEF Next, Quiescent

(* FirmsService, HotelsService, GuestsService, RoomsService and            *)
(* PricingService: whatever is asked for, in whatever order the statements *)
(* interleave or fail, the tables keep to their DDL, no NULL in a column   *)
(* that is NOT NULL and no bit other than 0 and 1.                         *)
THEOREM BackOfficeTypeCorrect == Spec => []TypeOK
PROOF
  <1>1. Init => BackOfficeInv
    BY InitIsTyped
  <1>2. BackOfficeInv /\ [Next]_vars => BackOfficeInv'
    BY NextIsTyped
  <1>3. BackOfficeInv => TypeOK
    BY DEF BackOfficeInv
  <1> QED
    BY <1>1, <1>2, <1>3, PTL DEF Spec
===============================================================================
