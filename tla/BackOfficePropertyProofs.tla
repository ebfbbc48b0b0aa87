----------------------- MODULE BackOfficePropertyProofs -----------------------
(***************************************************************************)
(* The safety properties of the back office.  Each has an inductive        *)
(* invariant of its own, which rests on BackOfficeInv; the first lemmas    *)
(* say what a step of a request can do to each table and to the request.   *)
(***************************************************************************)
EXTENDS BackOfficeProofs

(* All tables but t stay, and all rows of t but i.                         *)
OnlyRow(t, i) ==
  /\ \A u \in Table \ {t} : db'[u] = db[u]
  /\ \A j \in RowsOf(t) \ {i} : db'[t][j] = db[t][j]

LEMMA PutIsOneRow ==
  ASSUME StateInv, NEW t \in Table, NEW i \in RowsOf(t), NEW row, Put(t, i, row)
  PROVE  db'[t][i] = row /\ OnlyRow(t, i)
PROOF
  BY PutRow DEF StateInv, OnlyRow

LEMMA SaveIsOneRow ==
  ASSUME StateInv, NEW q \in Request, NEW t \in Table, NEW i \in RowsOf(t), NEW row,
         Save(q, t, i, row)
  PROVE  /\ pc'[q] \in {"ok", "failed"} /\ UNCHANGED <<stored, work>>
         /\ \/ UNCHANGED db /\ pc'[q] = "failed"
            \/ db'[t][i] = row /\ OnlyRow(t, i)
PROOF
  BY PutIsOneRow DEF Save, Reply, Goto, StateInv

LEMMA NoRowIsNoChange ==
  ASSUME StateInv, NEW q \in Request, NoRow(q) \/ Throw(q)
  PROVE  pc'[q] \in {"ok", "failed"} /\ UNCHANGED <<db, stored, work>>
PROOF
  BY DEF NoRow, Throw, Reply, Goto, StateInv

(* What a move of request q does to a row of each table.                   *)
FirmsMove(q) ==
  \A i \in Id :
    \/ db'.firms[i] = db.firms[i]
    \/ /\ i = q /\ pc[q] = "firm" /\ pc'[q] = "branch"
       /\ db'.firms[i] # NULL /\ db'.firms[i].tenant = call[q].as.tenant
    \/ /\ db.firms[i] # NULL /\ db'.firms[i] # NULL
       /\ db'.firms[i].tenant = db.firms[i].tenant

BranchesMove(q) ==
  \A i \in Id :
    \/ db'.branches[i] = db.branches[i]
    \/ i = q /\ pc[q] = "branch" /\ db'.branches[i] = [firm |-> q]

GuestsMove(q) ==
  \A i \in Id :
    \/ db'.guests[i] = db.guests[i]
    \/ /\ i = q /\ pc[q] = "guest"
       /\ db'.guests[i].tenant = call[q].as.tenant
       /\ db'.guests[i].firm = draft[q].firm /\ db'.guests[i].branch = draft[q].branch
       /\ db'.guests[i].files = TotalUrls(q)
    \/ /\ db.guests[i] # NULL /\ db'.guests[i] # NULL
       /\ db'.guests[i].tenant = db.guests[i].tenant
       /\ db'.guests[i].firm = db.guests[i].firm
       /\ db'.guests[i].branch = db.guests[i].branch
       /\ db'.guests[i].files = NULL

TypesMove(q) ==
  \A i \in Id :
    \/ db'.types[i] = db.types[i]
    \/ /\ i = q /\ pc[q] = "type" /\ db'.types[i] # NULL
       /\ db'.types[i].files = TotalUrls(q)
    \/ /\ pc[q] = "setType" /\ i = call[q].id /\ db.types[i] # NULL /\ db'.types[i] # NULL
       /\ db'.types[i].cols = Merged(db.types[i].cols, call[q].set)
       /\ db'.types[i].files = Or(TotalUrls(q), db.types[i].files)

RoomsMove(q) ==
  \A i \in Id \X Number :
    \/ db'.rooms[i] = db.rooms[i]
    \/ i[1] = q /\ pc[q] \in {"room", "bulk"}
    \/ /\ pc[q] = "setRoom" /\ i = call[q].id /\ db.rooms[i] # NULL
       /\ db'.rooms[i].cols = Merged(db.rooms[i].cols, call[q].set)

SeasonsMove(q) ==
  \A i \in Id :
    \/ db'.seasons[i] = db.seasons[i]
    \/ /\ i = q /\ pc[q] = "addSeason"
       /\ db'.seasons[i].tenant = call[q].as.tenant
       /\ db'.seasons[i].firm = draft[q].firm /\ db'.seasons[i].branch = draft[q].branch

RulesMove(q) ==
  \A i \in Id :
    \/ db'.rules[i] = db.rules[i]
    \/ /\ i = q /\ pc[q] = "addRule"
       /\ db'.rules[i].tenant = call[q].as.tenant
       /\ db'.rules[i].firm = draft[q].firm /\ db'.rules[i].branch = draft[q].branch

TablesMove(q) ==
  /\ FirmsMove(q) /\ BranchesMove(q) /\ GuestsMove(q) /\ TypesMove(q) /\ RoomsMove(q)
  /\ SeasonsMove(q) /\ RulesMove(q)

LEMMA SameTablesMove ==
  ASSUME NEW q, UNCHANGED db
  PROVE  TablesMove(q)
PROOF
  BY DEF TablesMove, FirmsMove, BranchesMove, GuestsMove, TypesMove, RoomsMove,
         SeasonsMove, RulesMove

(* A move that writes at most one row of table t is judged by that table.  *)
LEMMA OneRowMoves ==
  ASSUME NEW q, NEW t \in Table, NEW i \in RowsOf(t), OnlyRow(t, i),
         t = "firms" => FirmsMove(q), t = "branches" => BranchesMove(q),
         t = "guests" => GuestsMove(q), t = "types" => TypesMove(q),
         t = "rooms" => RoomsMove(q), t = "seasons" => SeasonsMove(q),
         t = "rules" => RulesMove(q)
  PROVE  TablesMove(q)
PROOF
  <1>1. \A u \in Table \ {t} : db'[u] = db[u]
    BY DEF OnlyRow
  <1>2. FirmsMove(q)
    BY <1>1 DEF Table, FirmsMove
  <1>3. BranchesMove(q)
    BY <1>1 DEF Table, BranchesMove
  <1>4. GuestsMove(q)
    BY <1>1 DEF Table, GuestsMove
  <1>5. TypesMove(q)
    BY <1>1 DEF Table, TypesMove
  <1>6. RoomsMove(q)
    BY <1>1 DEF Table, RoomsMove
  <1>7. SeasonsMove(q)
    BY <1>1 DEF Table, SeasonsMove
  <1>8. RulesMove(q)
    BY <1>1 DEF Table, RulesMove
  <1> QED
    BY <1>2, <1>3, <1>4, <1>5, <1>6, <1>7, <1>8 DEF TablesMove

LEMMA InsertFirmMoves ==
  ASSUME StateInv, NEW q \in Request, InsertFirm(q)
  PROVE  TablesMove(q)
PROOF
  <1> DEFINE cols == Written("firms", call[q].set)
             row == [tenant |-> call[q].as.tenant, cols |-> cols,
                     created |-> Newest("firms")]
  <1>1. "firms" \in Table /\ q \in RowsOf("firms") /\ pc[q] = "firm"
    BY DEF Table, RowsOf, Id, InsertFirm
  <1>2. CASE Refused(cols)
    BY <1>2, SameTablesMove DEF InsertFirm, Throw
  <1>3. CASE ~Refused(cols)
    <2>1. /\ call[q] \in Call /\ call[q].op = "createFirm" /\ call[q].as.tenant \in Tenant
          /\ Newest("firms") \in Nat
      BY <1>1, CallAt, DatesOfTable DEF Dated
    <2>2. row \in RowType["firms"] /\ row.tenant = call[q].as.tenant
      BY <1>3, <2>1, CallFields, WrittenFits, RowTypes
    <2>3. Put("firms", q, row) /\ pc'[q] = "branch"
      BY <1>3 DEF InsertFirm, Goto, StateInv
    <2> HIDE DEF row
    <2>4. db'["firms"][q] = row /\ OnlyRow("firms", q)
      BY <1>1, <2>3, PutIsOneRow
    <2>5. row # NULL
      BY <1>1, <2>2, DatabaseAssumption
    <2>6. FirmsMove(q)
      BY <1>1, <2>2, <2>3, <2>4, <2>5 DEF FirmsMove, OnlyRow, RowsOf
    <2> QED
      BY <1>1, <2>4, <2>6, OneRowMoves
  <1> QED
    BY <1>2, <1>3

LEMMA InsertBranchMoves ==
  ASSUME StateInv, NEW q \in Request, InsertBranch(q)
  PROVE  TablesMove(q)
PROOF
  <1>1. "branches" \in Table /\ q \in RowsOf("branches") /\ pc[q] = "branch"
    BY DEF Table, RowsOf, Id, InsertBranch
  <1>2. db'["branches"][q] = [firm |-> q] /\ OnlyRow("branches", q)
    BY <1>1, PutIsOneRow DEF InsertBranch
  <1>3. BranchesMove(q)
    BY <1>1, <1>2 DEF BranchesMove, OnlyRow, RowsOf
  <1> QED
    BY <1>1, <1>2, <1>3, OneRowMoves

LEMMA OverwriteMoves ==
  ASSUME StateInv, NEW q \in Request, UpdateFirm(q) \/ UpdateHotel(q)
  PROVE  TablesMove(q)
PROOF
  <1>1. PICK t \in {"firms", "hotels"} :
          /\ Overwrite(q, t) /\ pc[q] # "idle"
          /\ call[q].id \in Id /\ call[q].set \in Named(t)
    <2>1. CASE UpdateFirm(q)
      BY <2>1, CallAt, CallFields DEF UpdateFirm
    <2>2. CASE UpdateHotel(q)
      BY <2>2, CallAt, CallFields DEF UpdateHotel
    <2> QED
      BY <2>1, <2>2
  <1> DEFINE i == call[q].id
             row == [db[t][i] EXCEPT !.cols = Written(t, call[q].set)]
  <1>2. CASE NoRow(q)
    BY <1>2, NoRowIsNoChange, SameTablesMove
  <1>3. CASE db[t][i] # NULL /\ Save(q, t, i, row)
    <2>1. t \in Table /\ i \in RowsOf(t) /\ db[t][i] \in RowType[t]
      BY <1>1, <1>3, RowsFit DEF StateInv, Table, RowsOf
    <2>2. t = "firms" => row.tenant = db[t][i].tenant
      BY <2>1, RowTypes
    <2>3. ~Refused(row.cols) => row # NULL
      <3>1. CASE t = "firms"
        <4>1. Written(t, call[q].set) \in Cols(t) => row \in RowType[t]
          BY <2>1, <3>1, RowTypes
        <4>2. row.cols = Written(t, call[q].set)
          BY <2>1, <3>1, RowTypes
        <4> HIDE DEF row
        <4> QED
          BY <1>1, <2>1, <4>1, <4>2, WrittenFits, DatabaseAssumption
      <3>2. CASE t = "hotels"
        <4>1. Written(t, call[q].set) \in Cols(t) => row \in RowType[t]
          BY <2>1, <3>2, RowTypes
        <4>2. row.cols = Written(t, call[q].set)
          BY <2>1, <3>2, RowTypes
        <4> HIDE DEF row
        <4> QED
          BY <1>1, <2>1, <4>1, <4>2, WrittenFits, DatabaseAssumption
      <3> QED
        BY <3>1, <3>2
    <2> HIDE DEF row
    <2>4. \/ UNCHANGED db
          \/ db'[t][i] = row /\ OnlyRow(t, i) /\ ~Refused(row.cols)
      BY <1>3, <2>1, PutIsOneRow DEF Save
    <2>5. CASE UNCHANGED db
      BY <2>5, SameTablesMove
    <2>6. CASE db'[t][i] = row /\ OnlyRow(t, i) /\ ~Refused(row.cols)
      <3>1. CASE t = "firms"
        <4>1. FirmsMove(q)
          BY <1>3, <2>2, <2>3, <2>6, <3>1 DEF FirmsMove, OnlyRow, RowsOf
        <4> QED
          BY <2>1, <2>6, <3>1, <4>1, OneRowMoves
      <3>2. CASE t = "hotels"
        BY <2>1, <2>6, <3>2, OneRowMoves
      <3> QED
        BY <3>1, <3>2
    <2> QED
      BY <2>4, <2>5, <2>6
  <1> QED
    BY <1>1, <1>2, <1>3 DEF Overwrite

LEMMA InsertHotelMoves ==
  ASSUME StateInv, NEW q \in Request, InsertHotel(q)
  PROVE  TablesMove(q)
PROOF
  <1> DEFINE row == [tenant |-> call[q].as.tenant, cols |-> Written("hotels", call[q].set)]
  <1>1. "hotels" \in Table /\ q \in RowsOf("hotels") /\ Save(q, "hotels", q, row)
    BY DEF Table, RowsOf, Id, InsertHotel
  <1> HIDE DEF row
  <1>2. UNCHANGED db \/ OnlyRow("hotels", q)
    BY <1>1, SaveIsOneRow
  <1> QED
    BY <1>1, <1>2, SameTablesMove, OneRowMoves

LEMMA InsertGuestMoves ==
  ASSUME StateInv, NEW q \in Request, InsertGuest(q)
  PROVE  TablesMove(q)
PROOF
  <1> DEFINE row == [tenant |-> call[q].as.tenant, firm |-> draft[q].firm,
                     branch |-> draft[q].branch, files |-> TotalUrls(q),
                     cols |-> Written("guests", call[q].set)]
  <1>1. /\ "guests" \in Table /\ q \in RowsOf("guests") /\ Save(q, "guests", q, row)
        /\ pc[q] = "guest"
        /\ row.tenant = call[q].as.tenant /\ row.firm = draft[q].firm
        /\ row.branch = draft[q].branch /\ row.files = TotalUrls(q)
    BY DEF Table, RowsOf, Id, InsertGuest
  <1> HIDE DEF row
  <1>2. CASE UNCHANGED db
    BY <1>2, SameTablesMove
  <1>3. CASE db'["guests"][q] = row /\ OnlyRow("guests", q)
    <2>1. GuestsMove(q)
      BY <1>1, <1>3 DEF GuestsMove, OnlyRow, RowsOf
    <2> QED
      BY <1>1, <1>3, <2>1, OneRowMoves
  <1> QED
    BY <1>1, <1>2, <1>3, SaveIsOneRow

LEMMA UpdateGuestMoves ==
  ASSUME StateInv, NEW q \in Request, UpdateGuest(q)
  PROVE  TablesMove(q)
PROOF
  <1> DEFINE i == call[q].id
             old == db.guests[i]
             cols == Written("guests", call[q].set)
             row == Rewritten(old, cols, NULL)
  <1>1. pc[q] = "setGuest" /\ i \in Id /\ call[q].set \in Named("guests")
    BY CallAt, CallFields DEF UpdateGuest
  <1>2. CASE NoRow(q)
    BY <1>2, NoRowIsNoChange, SameTablesMove
  <1>3. CASE old # NULL /\ Save(q, "guests", i, row)
    <2>1. "guests" \in Table /\ i \in RowsOf("guests") /\ old \in RowType["guests"]
      BY <1>1, <1>3, RowsFit DEF StateInv, Table, RowsOf
    <2>2. /\ row.cols = cols /\ row.files = NULL /\ row.tenant = old.tenant
          /\ row.firm = old.firm /\ row.branch = old.branch
          /\ cols \in Cols("guests") => row \in RowType["guests"]
      BY <2>1, RowRewritten DEF Urls
    <2>3. ~Refused(row.cols) => row # NULL
      BY <1>1, <2>1, <2>2, WrittenFits, DatabaseAssumption
    <2> HIDE DEF row
    <2>4. \/ UNCHANGED db
          \/ db'["guests"][i] = row /\ OnlyRow("guests", i) /\ ~Refused(row.cols)
      BY <1>3, <2>1, PutIsOneRow DEF Save
    <2>5. CASE UNCHANGED db
      BY <2>5, SameTablesMove
    <2>6. CASE db'["guests"][i] = row /\ OnlyRow("guests", i) /\ ~Refused(row.cols)
      <3>1. GuestsMove(q)
        BY <1>3, <2>2, <2>3, <2>6 DEF GuestsMove, OnlyRow, RowsOf
      <3> QED
        BY <2>1, <2>6, <3>1, OneRowMoves
    <2> QED
      BY <2>4, <2>5, <2>6
  <1> QED
    BY <1>2, <1>3 DEF UpdateGuest

LEMMA InsertTypeMoves ==
  ASSUME StateInv, NEW q \in Request, InsertType(q)
  PROVE  TablesMove(q)
PROOF
  <1> DEFINE row == [tenant |-> call[q].as.tenant,
                     firm |-> Or(call[q].firm, call[q].as.firm),
                     branch |-> Or(call[q].branch, call[q].as.branch),
                     files |-> TotalUrls(q), cols |-> Written("types", call[q].set)]
  <1>1. /\ "types" \in Table /\ q \in RowsOf("types") /\ Save(q, "types", q, row)
        /\ pc[q] = "type" /\ row.files = TotalUrls(q)
    BY DEF Table, RowsOf, Id, InsertType
  <1>2. ~Refused(row.cols) => row # NULL
    <2>1. /\ call[q].op = "createType" /\ call[q] \in Call /\ call[q].as.tenant \in Tenant
          /\ call[q].as.firm \in Id \cup {NULL} /\ call[q].as.branch \in Id \cup {NULL}
          /\ TotalUrls(q) \in Urls
      BY <1>1, CallAt, TotalUrlsAreUrls
    <2>2. /\ Or(call[q].firm, call[q].as.firm) \in Id \cup {NULL}
          /\ Or(call[q].branch, call[q].as.branch) \in Id \cup {NULL}
      BY <2>1, CallFields DEF Or
    <2>3. ~Refused(row.cols) => row \in RowType["types"]
      BY <2>1, <2>2, CallFields, WrittenFits, RowTypes
    <2> QED
      BY <1>1, <2>3, DatabaseAssumption
  <1> HIDE DEF row
  <1>3. \/ UNCHANGED db
        \/ db'["types"][q] = row /\ OnlyRow("types", q) /\ ~Refused(row.cols)
    BY <1>1, PutIsOneRow DEF Save
  <1>4. CASE UNCHANGED db
    BY <1>4, SameTablesMove
  <1>5. CASE db'["types"][q] = row /\ OnlyRow("types", q) /\ ~Refused(row.cols)
    <2>1. TypesMove(q)
      BY <1>1, <1>2, <1>5 DEF TypesMove, OnlyRow, RowsOf
    <2> QED
      BY <1>1, <1>5, <2>1, OneRowMoves
  <1> QED
    BY <1>3, <1>4, <1>5

LEMMA UpdateTypeMoves ==
  ASSUME StateInv, NEW q \in Request, UpdateType(q)
  PROVE  TablesMove(q)
PROOF
  <1> DEFINE i == call[q].id
             old == db.types[i]
             cols == Merged(old.cols, call[q].set)
             row == Rewritten(old, cols, Or(TotalUrls(q), old.files))
  <1>1. /\ pc[q] = "setType" /\ call[q].op = "updateType" /\ i \in Id
        /\ call[q].set \in Named("types")
    BY CallAt, CallFields DEF UpdateType
  <1>2. CASE NoRow(q)
    BY <1>2, NoRowIsNoChange, SameTablesMove
  <1>3. CASE old # NULL /\ Save(q, "types", i, row)
    <2>1. "types" \in Table /\ i \in RowsOf("types") /\ old \in RowType["types"]
      BY <1>1, <1>3, RowsFit DEF StateInv, Table, RowsOf
    <2>2. old.files \in Urls /\ old.cols \in Cols("types")
      BY <2>1, RowTypes
    <2>3. Or(TotalUrls(q), old.files) \in Urls
      BY <1>1, <2>2, TotalUrlsAreUrls DEF Or
    <2>4. /\ row.cols = cols /\ row.files = Or(TotalUrls(q), old.files)
          /\ cols \in Cols("types") => row \in RowType["types"]
      BY <2>1, <2>3, RowRewritten
    <2> HIDE DEF row
    <2>5. ~Refused(row.cols) => row # NULL
      <3> HIDE DEF old
      <3> QED
        BY <1>1, <2>1, <2>2, <2>4, MergedFits, DatabaseAssumption
    <2>6. \/ UNCHANGED db
          \/ db'["types"][i] = row /\ OnlyRow("types", i) /\ ~Refused(row.cols)
      BY <1>3, <2>1, PutIsOneRow DEF Save
    <2>7. CASE UNCHANGED db
      BY <2>7, SameTablesMove
    <2>8. CASE db'["types"][i] = row /\ OnlyRow("types", i) /\ ~Refused(row.cols)
      <3>1. TypesMove(q)
        BY <1>1, <1>3, <2>4, <2>5, <2>8 DEF TypesMove, OnlyRow, RowsOf
      <3> QED
        BY <2>1, <2>8, <3>1, OneRowMoves
    <2> QED
      BY <2>6, <2>7, <2>8
  <1> QED
    BY <1>2, <1>3 DEF UpdateType

LEMMA RoomMoves ==
  ASSUME StateInv, NEW q \in Request, InsertRoom(q) \/ UpdateRoom(q) \/ BulkInsert(q)
  PROVE  TablesMove(q)
PROOF
  <1>1. CASE InsertRoom(q)
    <2> DEFINE cols == Written("rooms", call[q].set)
               row == RoomRow(q, cols)
               i == <<q, cols.name>>
    <2>1. /\ pc[q] = "room" /\ call[q].op = "createRoom" /\ call[q] \in Call
          /\ call[q].set.name \in Number \cup {NULL}
      BY <1>1, CallAt, CallFields DEF InsertRoom
    <2>2. CASE Refused(cols)
      BY <1>1, <2>2, SameTablesMove DEF InsertRoom, Throw
    <2>3. CASE ~Refused(cols)
      <3>1. cols.name = call[q].set.name /\ cols.name # NULL
        BY <2>3, ColumnsOf DEF Written, Refused, Required
      <3>2. "rooms" \in Table /\ i \in RowsOf("rooms") /\ Save(q, "rooms", i, row) /\ i[1] = q
        BY <1>1, <2>1, <2>3, <3>1 DEF InsertRoom, Table, RowsOf, Id
      <3> HIDE DEF row, i
      <3>3. CASE OnlyRow("rooms", i)
        <4>1. RoomsMove(q)
          BY <2>1, <3>2, <3>3 DEF RoomsMove, OnlyRow, RowsOf
        <4> QED
          BY <3>2, <3>3, <4>1, OneRowMoves
      <3> QED
        BY <3>2, <3>3, SaveIsOneRow, SameTablesMove
    <2> QED
      BY <2>2, <2>3
  <1>2. CASE UpdateRoom(q)
    <2> DEFINE i == call[q].id
               old == db.rooms[i]
               row == [old EXCEPT !.cols = Merged(@, call[q].set)]
    <2>1. pc[q] = "setRoom" /\ i \in Id \X Number
      BY <1>2, CallAt, CallFields DEF UpdateRoom
    <2>2. CASE NoRow(q)
      BY <2>2, NoRowIsNoChange, SameTablesMove
    <2>3. CASE old # NULL /\ Save(q, "rooms", i, row)
      <3>1. "rooms" \in Table /\ i \in RowsOf("rooms") /\ old \in RowType["rooms"]
        BY <2>1, <2>3, RowsFit DEF StateInv, Table, RowsOf
      <3>2. row.cols = Merged(old.cols, call[q].set)
        BY <3>1, RowTypes
      <3> HIDE DEF row
      <3>3. CASE UNCHANGED db
        BY <3>3, SameTablesMove
      <3>4. CASE db'["rooms"][i] = row /\ OnlyRow("rooms", i)
        <4>1. RoomsMove(q)
          BY <2>1, <2>3, <3>2, <3>4 DEF RoomsMove, OnlyRow, RowsOf
        <4> QED
          BY <3>1, <3>4, <4>1, OneRowMoves
      <3> QED
        BY <2>3, <3>1, <3>3, <3>4, SaveIsOneRow
    <2> QED
      BY <1>2, <2>2, <2>3 DEF UpdateRoom
  <1>3. CASE BulkInsert(q)
    <2>1. DOMAIN db["rooms"] = Id \X Number /\ DOMAIN db = Table /\ "rooms" \in Table
      BY DEF StateInv, TablesOK, RowsOf, Table
    <2>2. db' = [db EXCEPT !["rooms"] = [i \in Id \X Number |->
                   IF i[1] = q /\ i[2] \in call[q].first .. call[q].last
                   THEN RoomRow(q, [name |-> i[2], note |-> NULL, flag |-> NULL])
                   ELSE db["rooms"][i]]]
      BY <1>3, <2>1 DEF BulkInsert
    <2>3. /\ \A t \in Table \ {"rooms"} : db'[t] = db[t]
          /\ \A i \in Id \X Number : i[1] # q => db'["rooms"][i] = db["rooms"][i]
      BY <2>1, <2>2 DEF StateInv, TablesOK
    <2>4. RoomsMove(q)
      BY <1>3, <2>3 DEF RoomsMove, BulkInsert
    <2> QED
      BY <2>3, <2>4 DEF TablesMove, FirmsMove, BranchesMove, GuestsMove, TypesMove,
         SeasonsMove, RulesMove, Table
  <1> QED
    BY <1>1, <1>2, <1>3

LEMMA AddingMoves ==
  ASSUME StateInv, NEW q \in Request, AddRule(q) \/ AddSeason(q)
  PROVE  TablesMove(q)
PROOF
  <1>1. CASE AddRule(q)
    <2> DEFINE row == [tenant |-> call[q].as.tenant, firm |-> draft[q].firm,
                       branch |-> draft[q].branch, type |-> call[q].type,
                       from |-> call[q].from, to |-> call[q].to,
                       factor |-> call[q].factor,
                       days |-> IF call[q].days = {} THEN 1..7 ELSE call[q].days,
                       created |-> Newest("rules")]
    <2>1. /\ "rules" \in Table /\ q \in RowsOf("rules") /\ Put("rules", q, row)
          /\ pc[q] = "addRule" /\ row.tenant = call[q].as.tenant
          /\ row.firm = draft[q].firm /\ row.branch = draft[q].branch
      BY <1>1 DEF Table, RowsOf, Id, AddRule
    <2> HIDE DEF row
    <2>2. db'["rules"][q] = row /\ OnlyRow("rules", q)
      BY <2>1, PutIsOneRow
    <2>3. RulesMove(q)
      BY <2>1, <2>2 DEF RulesMove, OnlyRow, RowsOf
    <2> QED
      BY <2>1, <2>2, <2>3, OneRowMoves
  <1>2. CASE AddSeason(q)
    <2> DEFINE row == [tenant |-> call[q].as.tenant, firm |-> draft[q].firm,
                       branch |-> draft[q].branch, type |-> call[q].type,
                       from |-> call[q].from, to |-> call[q].to,
                       factor |-> call[q].factor, created |-> Newest("seasons")]
    <2>1. /\ "seasons" \in Table /\ q \in RowsOf("seasons") /\ Put("seasons", q, row)
          /\ pc[q] = "addSeason" /\ row.tenant = call[q].as.tenant
          /\ row.firm = draft[q].firm /\ row.branch = draft[q].branch
      BY <1>2 DEF Table, RowsOf, Id, AddSeason
    <2> HIDE DEF row
    <2>2. db'["seasons"][q] = row /\ OnlyRow("seasons", q)
      BY <2>1, PutIsOneRow
    <2>3. SeasonsMove(q)
      BY <2>1, <2>2 DEF SeasonsMove, OnlyRow, RowsOf
    <2> QED
      BY <2>1, <2>2, <2>3, OneRowMoves
  <1> QED
    BY <1>1, <1>2

LEMMA MoveTables ==
  ASSUME StateInv, NEW q \in Request, Move(q)
  PROVE  TablesMove(q)
PROOF
  <1>1. CASE UNCHANGED db
    BY <1>1, SameTablesMove
  <1>2. CASE Execute(q)
    <2>1. CASE Uploaded(q) \/ FindGuest(q) \/ FillDefaults(q)
      BY <1>1, <2>1 DEF Uploaded, FindGuest, FillDefaults
    <2>2. CASE ReadRates(q) \/ ReadSeason(q) \/ ReadRule(q)
      BY <1>1, <2>2 DEF ReadRates, ReadSeason, ReadRule, Throw, Answer
    <2> QED
      BY <1>2, <2>1, <2>2, InsertFirmMoves, InsertBranchMoves, OverwriteMoves,
         InsertHotelMoves, InsertGuestMoves, UpdateGuestMoves, InsertTypeMoves,
         UpdateTypeMoves, RoomMoves, AddingMoves DEF Execute
  <1> QED
    BY <1>1, <1>2 DEF Move, Arrive, Fail, Throw, Upload, UploadFails
-----------------------------------------------------------------------------
(* Which statement a request is at tells which one it executes.            *)
LEMMA ExecuteAt ==
  ASSUME StateInv, NEW q \in Request, Execute(q)
  PROVE  /\ pc[q] \notin {"idle", "ok", "failed"}
         /\ pc[q] = "branch" => InsertBranch(q)
         /\ pc[q] = "upload" => Uploaded(q)
         /\ pc[q] = "existing" => FindGuest(q)
         /\ pc[q] = "defaults" => FillDefaults(q)
         /\ pc[q] \in {"guest", "setGuest", "type", "setType", "addRule", "addSeason"}
              => pc'[q] \in {"ok", "failed"}
         /\ pc[q] = "setRoom" => UpdateRoom(q)
         /\ pc[q] = "setType" => UpdateType(q)
         /\ pc[q] = "addRule" => AddRule(q)
         /\ pc[q] = "addSeason" => AddSeason(q)
         /\ pc[q] = "rates" => ReadRates(q)
         /\ pc[q] = "season" => ReadSeason(q)
         /\ pc[q] = "rule" => ReadRule(q)
         /\ pc[q] \notin {"upload", "existing", "defaults", "rates", "season", "rule"} =>
              /\ UNCHANGED <<stored, draft, sending, quote>>
              /\ pc'[q] \in {"branch", "ok", "failed"}
         /\ pc[q] \notin {"upload", "existing", "defaults", "rates", "season", "rule", "firm"} =>
              pc'[q] \in {"ok", "failed"}
PROOF
  <1>0. ASSUME NEW s, Goto(q, s) PROVE pc'[q] = s
    BY <1>0 DEF Goto, StateInv
  <1>1. CASE InsertFirm(q) \/ InsertBranch(q)
    BY <1>0, <1>1 DEF InsertFirm, InsertBranch, Throw, Reply, work
  <1>2. CASE UpdateFirm(q) \/ UpdateHotel(q)
    BY <1>0, <1>2 DEF UpdateFirm, UpdateHotel, Overwrite, NoRow, Save, Reply, work
  <1>3. CASE InsertHotel(q) \/ InsertGuest(q) \/ InsertType(q)
    BY <1>0, <1>3 DEF InsertHotel, InsertGuest, InsertType, Save, Reply, work
  <1>4. CASE UpdateGuest(q) \/ UpdateType(q) \/ UpdateRoom(q)
    <2>1. pc'[q] \in {"ok", "failed"} /\ UNCHANGED <<stored, draft, sending, quote>>
      BY <1>0, <1>4 DEF UpdateGuest, UpdateType, UpdateRoom, NoRow, Save, Reply, work
    <2> QED
      BY <1>4, <2>1 DEF UpdateGuest, UpdateType, UpdateRoom
  <1>5. CASE InsertRoom(q)
    BY <1>0, <1>5 DEF InsertRoom, Save, Throw, Reply, work
  <1>6. CASE BulkInsert(q)
    <2>1. pc'[q] \in {"ok", "failed"} /\ UNCHANGED <<stored, draft, sending, quote>>
      BY <1>0, <1>6 DEF BulkInsert, Reply, work
    <2> QED
      BY <1>6, <2>1 DEF BulkInsert
  <1>7. CASE AddRule(q) \/ AddSeason(q)
    <2>1. pc'[q] \in {"ok", "failed"} /\ UNCHANGED <<stored, draft, sending, quote>>
      BY <1>0, <1>7 DEF AddRule, AddSeason, Reply, work
    <2> QED
      BY <1>7, <2>1 DEF AddRule, AddSeason
  <1>8. CASE Uploaded(q) \/ FindGuest(q) \/ FillDefaults(q)
    BY <1>8 DEF Uploaded, Wait, FindGuest, FillDefaults
  <1>9. CASE ReadRates(q) \/ ReadSeason(q) \/ ReadRule(q)
    BY <1>9 DEF ReadRates, ReadSeason, ReadRule
  <1> QED
    BY <1>1, <1>2, <1>3, <1>4, <1>5, <1>6, <1>7, <1>8, <1>9 DEF Execute

(* Where a statement leads to.                                             *)
LEMMA Onward ==
  ASSUME StateInv, NEW q \in Request, Execute(q)
  PROVE  /\ pc[q] = "upload" => pc'[q] \in {"existing", "setGuest", "type", "setType"}
         /\ pc[q] = "existing" => pc'[q] \in {"guest", "defaults"}
         /\ pc[q] = "defaults" =>
              \/ pc'[q] = "guest" /\ call[q].op = "createGuest"
              \/ pc'[q] = "addRule" /\ call[q].op = "createHourlyRule"
              \/ pc'[q] = "addSeason" /\ call[q].op = "createSeasonalRate"
              \/ pc'[q] = "rates" /\ call[q].op = "calculatePrice"
         /\ pc[q] = "rates" => pc'[q] \in {"season", "failed"}
         /\ pc[q] = "season" => pc'[q] \in {"rule", "ok", "failed"}
         /\ pc[q] = "rule" => pc'[q] \in {"ok", "failed"}
PROOF
  <1>0. ASSUME NEW s, Goto(q, s) PROVE pc'[q] = s
    BY <1>0 DEF Goto, StateInv
  <1>1. CASE pc[q] = "upload"
    <2>1. /\ pc'[q] = AfterUpload[call[q].op]
          /\ call[q].op \in {"createGuest", "updateGuest", "createType", "updateType"}
      BY <1>0, <1>1, ExecuteAt, CallAt DEF Uploaded
    <2> QED
      BY <1>1, <2>1 DEF AfterUpload
  <1>2. CASE pc[q] = "existing"
    BY <1>0, <1>2, ExecuteAt DEF FindGuest
  <1>3. CASE pc[q] = "defaults"
    <2>1. /\ pc'[q] = AfterDefaults[call[q].op]
          /\ call[q].op \in {"createGuest", "createHourlyRule", "createSeasonalRate",
                             "calculatePrice"}
      BY <1>0, <1>3, ExecuteAt, CallAt DEF FillDefaults
    <2> QED
      BY <1>3, <2>1 DEF AfterDefaults
  <1>4. CASE pc[q] = "rates"
    BY <1>0, <1>4, ExecuteAt DEF ReadRates, Throw
  <1>5. CASE pc[q] = "season"
    BY <1>0, <1>5, ExecuteAt DEF ReadSeason, Answer, Reply
  <1>6. CASE pc[q] = "rule"
    BY <1>0, <1>6, ExecuteAt DEF ReadRule, Answer, Reply
  <1> QED
    BY <1>1, <1>2, <1>3, <1>4, <1>5, <1>6

(* A handler that is over only waits for its uploads.                      *)
LEMMA OverMoves ==
  ASSUME StateInv, NEW q \in Request, Move(q), Over(q)
  PROVE  UNCHANGED <<db, pc, call, draft, quote>>
PROOF
  <1>1. CASE Execute(q)
    BY <1>1, ExecuteAt DEF Over
  <1> QED
    BY <1>1 DEF Move, Arrive, Fail, Over, Upload, UploadFails

(* An upload, whoever is waiting for it, touches no table.                 *)
LEMMA UploadMoves ==
  ASSUME StateInv, NEW q \in Request, NEW f \in File, Upload(q, f) \/ UploadFails(q, f)
  PROVE  /\ UNCHANGED <<db, draft, quote>>
         /\ sending'[q] = sending[q] \ {f}
         /\ pc' = pc \/ (pc[q] = "upload" /\ pc'[q] = "failed")
         /\ stored \subseteq stored'
         /\ UploadFails(q, f) => stored' = stored /\ (pc[q] = "upload" => pc'[q] = "failed")
         /\ Upload(q, f) => pc' = pc /\ <<q, f>> \in stored'
PROOF
  BY DEF Upload, UploadFails, Goto, StateInv
-----------------------------------------------------------------------------
(* A branch that a request inserts is one of the firm it inserts, and both *)
(* are new.                                                                *)
BranchInv ==
  /\ FirmGetsItsBranch
  /\ \A q \in Request : pc[q] \in {"idle", "firm"} => db.firms[q] = NULL
  /\ \A q \in Request : db.branches[q] # NULL => db.branches[q].firm = q

LEMMA InitBranches == ASSUME Init PROVE BranchInv
PROOF
  <1>1. db = Database /\ \A q \in Request : q \in Id /\ q \notin Seed
    BY DatabaseAssumption DEF Init, Id
  <1>2. \A q \in Request : db.firms[q] = NULL /\ db.branches[q] = NULL
    BY <1>1, SeedRows DEF Table
  <1> QED
    BY <1>2 DEF BranchInv, FirmGetsItsBranch

LEMMA MoveKeepsBranches ==
  ASSUME StateInv, BranchInv, NEW r \in Request, Move(r)
  PROVE  BranchInv'
PROOF
  <1>1. FirmsMove(r) /\ BranchesMove(r)
    BY MoveTables DEF TablesMove
  <1>2. ASSUME NEW q \in Request, db'.branches[q] # NULL
        PROVE  db'.branches[q].firm = q
    BY <1>1, <1>2 DEF BranchInv, BranchesMove, Id
  <1>3. ASSUME NEW b \in Id, db.branches[b] # NULL
        PROVE  db'.branches[b] # NULL /\ db'.branches[b].firm = db.branches[b].firm
    <2>1. [firm |-> r] # NULL
      <3>1. [firm |-> r] \in RowType["branches"] /\ "branches" \in Table
        BY RowTypes DEF Id, Table
      <3> QED
        BY <3>1, DatabaseAssumption
    <2> QED
      BY <1>1, <1>3, <2>1 DEF BranchesMove, BranchInv
  <1>4. ASSUME NEW q \in Request, db'.firms[q] # NULL
        PROVE  \/ \E b \in Rows("branches")' : db'.branches[b].firm = q
               \/ pc'[q] \in {"branch", "failed"}
    <2>1. CASE db.firms[q] = NULL
      BY <1>1, <1>4, <2>1 DEF FirmsMove, Id
    <2>2. CASE \E b \in Rows("branches") : db.branches[b].firm = q
      BY <1>3, <2>2 DEF Rows
    <2>3. CASE pc[q] \in {"branch", "failed"} /\ q # r
      BY <2>3, OneMoves
    <2>4. CASE pc[q] = "failed" /\ q = r
      BY <2>4, OverMoves DEF Over
    <2>5. CASE pc[q] = "branch" /\ q = r
      <3>1. CASE Execute(q)
        <4>1. Put("branches", q, [firm |-> q]) /\ "branches" \in Table /\ q \in RowsOf("branches")
          BY <2>5, <3>1, ExecuteAt DEF InsertBranch, Table, RowsOf, Id
        <4>2. db'["branches"][q] = [firm |-> q]
          BY <4>1, PutIsOneRow
        <4>3. [firm |-> q] \in RowType["branches"] /\ "branches" \in Table
          BY RowTypes DEF Id, Table
        <4>4. db'.branches[q] # NULL /\ db'.branches[q].firm = q
          BY <4>2, <4>3, DatabaseAssumption
        <4> QED
          BY <4>4 DEF Rows, Id
      <3>2. CASE Fail(q)
        BY <3>2 DEF Fail, Throw, Goto, StateInv
      <3>3. ASSUME NEW f \in File, Upload(q, f) \/ UploadFails(q, f)
            PROVE  pc'[q] = pc[q]
        BY <2>5, <3>3, UploadMoves
      <3>4. ~Arrive(q)
        BY <2>5 DEF Arrive
      <3> QED
        BY <2>5, <3>1, <3>2, <3>3, <3>4 DEF Move
    <2> QED
      BY <1>4, <2>1, <2>2, <2>3, <2>4, <2>5 DEF BranchInv, FirmGetsItsBranch
  <1>5. ASSUME NEW q \in Request, pc'[q] \in {"idle", "firm"}
        PROVE  db'.firms[q] = NULL
    <2>1. CASE q # r
      <3>1. db.firms[q] = NULL
        BY <1>5, <2>1, OneMoves DEF BranchInv
      <3> QED
        BY <1>1, <2>1, <3>1 DEF FirmsMove, Id
    <2>2. CASE q = r
      <3>1. pc[q] \in {"idle", "firm"}
        <4>1. CASE Execute(q)
          BY <1>5, <4>1, ExecuteAt, Onward
        <4>2. ASSUME NEW f \in File, Upload(q, f) \/ UploadFails(q, f)
              PROVE  pc[q] \in {"idle", "firm"}
          BY <1>5, <4>2, UploadMoves
        <4>3. CASE Fail(q)
          BY <1>5, <4>3 DEF Fail, Throw, Goto, StateInv
        <4> QED
          BY <2>2, <4>1, <4>2, <4>3 DEF Move, Arrive
      <3> QED
        BY <1>1, <1>5, <2>2, <3>1 DEF FirmsMove, BranchInv, Id
    <2> QED
      BY <2>1, <2>2
  <1> QED
    BY <1>2, <1>4, <1>5 DEF BranchInv, FirmGetsItsBranch

(* FirmsService.create, firms.service.ts:35: two commits without a         *)
(* transaction, and still a firm whose creator was told that all is well   *)
(* has a branch, whatever other requests did in between.                   *)
THEOREM EveryFirmGetsItsBranch == Spec => []FirmGetsItsBranch
PROOF
  <1>1. Init => BackOfficeInv /\ BranchInv
    BY InitIsTyped, InitBranches
  <1>2. BackOfficeInv /\ BranchInv /\ [Next]_vars => BackOfficeInv' /\ BranchInv'
    <2> SUFFICES ASSUME BackOfficeInv, BranchInv, [Next]_vars
                 PROVE  BackOfficeInv' /\ BranchInv'
      OBVIOUS
    <2>1. BackOfficeInv' /\ StateInv
      BY NextIsTyped DEF BackOfficeInv
    <2>2. CASE UNCHANGED vars
      BY <2>1, <2>2 DEF vars, BranchInv, FirmGetsItsBranch, Rows
    <2>3. ASSUME NEW r \in Request, Move(r) PROVE BranchInv'
      BY <2>1, <2>3, MoveKeepsBranches
    <2> QED
      BY <2>1, <2>2, <2>3 DEF Next, Quiescent, Step, Move
  <1>3. BranchInv => FirmGetsItsBranch
    BY DEF BranchInv
  <1> QED
    BY <1>1, <1>2, <1>3, PTL DEF Spec
-----------------------------------------------------------------------------
(* The files of a body are in the store once its handler has waited for    *)
(* them, and those not on their way any more are there while it waits.     *)
Sent(q, files) == {q} \X files \subseteq stored

Waited(q) ==
  /\ pc[q] = "upload" => Sent(q, call[q].files \ sending[q])
  /\ pc[q] \in {"existing", "guest", "setGuest", "type", "setType"} =>
       Sent(q, call[q].files)
  /\ pc[q] = "defaults" /\ call[q].op = "createGuest" => Sent(q, call[q].files)

FilesInv ==
  /\ StoredUrlsResolve
  /\ Seed \X File \subseteq stored
  /\ \A q \in Request : Waited(q)

LEMMA InitFiles == ASSUME Init PROVE FilesInv
PROOF
  <1>1. /\ db = Database /\ stored = Seed \X File /\ \A q \in Request : pc[q] = "idle"
    BY DEF Init
  <1>2. StoredUrlsResolve
    BY <1>1, DatabaseAssumption DEF StoredUrlsResolve
  <1> QED
    BY <1>1, <1>2 DEF FilesInv, Waited

(* What the handler then writes.                                           *)
LEMMA TotalUrlsAreStored ==
  ASSUME StateInv, FilesInv, NEW q \in Request, pc[q] \in {"guest", "type", "setType"}
  PROVE  TotalUrls(q) = NULL \/ TotalUrls(q) \subseteq stored
PROOF
  <1>1. /\ call[q] \in UNION Mix /\ call[q] \in Call
        /\ call[q].op \in {"createGuest", "createType", "updateType"}
    BY CallAt
  <1>2. call[q].kept = NULL \/ call[q].kept \subseteq Seed \X File
    BY <1>1, CallFields, BackOfficeAssumption
  <1> QED
    BY <1>2 DEF FilesInv, Waited, Sent, TotalUrls

LEMMA MoveKeepsFiles ==
  ASSUME StateInv, FilesInv, NEW r \in Request, Move(r)
  PROVE  FilesInv'
PROOF
  <1>0. /\ pc \in [Request -> Statement] /\ sending \in [Request -> SUBSET File]
        /\ call \in [Request -> Call \cup {NULL}]
    BY DEF StateInv
  <1>1. stored \subseteq stored'
    <2>1. CASE Execute(r)
      BY <2>1, ExecuteAt DEF Uploaded, FindGuest, FillDefaults, ReadRates, ReadSeason,
         ReadRule, Throw, Answer
    <2>2. CASE \E f \in File : Upload(r, f) \/ UploadFails(r, f)
      BY <2>2, UploadMoves
    <2> QED
      BY <2>1, <2>2 DEF Move, Arrive, Fail, Throw
  <1>2. StoredUrlsResolve'
    <2>1. GuestsMove(r) /\ TypesMove(r)
      BY MoveTables DEF TablesMove
    <2>2. ASSUME NEW i \in Id, db'.guests[i] # NULL
          PROVE  db'.guests[i].files = NULL \/ db'.guests[i].files \subseteq stored'
      <3>1. CASE db'.guests[i] = db.guests[i]
        BY <1>1, <2>2, <3>1 DEF FilesInv, StoredUrlsResolve
      <3>2. CASE pc[r] = "guest" /\ db'.guests[i].files = TotalUrls(r)
        BY <1>1, <3>2, TotalUrlsAreStored
      <3> QED
        BY <2>1, <3>1, <3>2 DEF GuestsMove
    <2>3. ASSUME NEW i \in Id, db'.types[i] # NULL
          PROVE  db'.types[i].files = NULL \/ db'.types[i].files \subseteq stored'
      <3>1. CASE db'.types[i] = db.types[i]
        BY <1>1, <2>3, <3>1 DEF FilesInv, StoredUrlsResolve
      <3>2. CASE pc[r] = "type" /\ db'.types[i].files = TotalUrls(r)
        BY <1>1, <3>2, TotalUrlsAreStored
      <3>3. CASE /\ pc[r] = "setType" /\ db.types[i] # NULL
                 /\ db'.types[i].files = Or(TotalUrls(r), db.types[i].files)
        BY <1>1, <3>3, TotalUrlsAreStored DEF FilesInv, StoredUrlsResolve, Or
      <3> QED
        BY <2>1, <3>1, <3>2, <3>3 DEF TypesMove
    <2> QED
      BY <2>2, <2>3 DEF StoredUrlsResolve
  <1>3. ASSUME NEW q \in Request
        PROVE  Waited(q)'
    <2>1. CASE pc'[q] = pc[q] /\ call'[q] = call[q] /\ sending'[q] = sending[q]
      BY <1>1, <2>1 DEF FilesInv, Waited, Sent
    <2>2. CASE q = r /\ Arrive(r)
      <3>1. PICK calls \in Mix : \E c \in calls :
              /\ call' = [call EXCEPT ![q] = c]
              /\ Goto(q, First(c))
              /\ sending' = [sending EXCEPT ![q] =
                               IF c.op \in DOMAIN AfterUpload THEN c.files ELSE {}]
        BY <2>2 DEF Arrive
      <3>2. PICK c \in calls :
              /\ call' = [call EXCEPT ![q] = c]
              /\ Goto(q, First(c))
              /\ sending' = [sending EXCEPT ![q] =
                               IF c.op \in DOMAIN AfterUpload THEN c.files ELSE {}]
        BY <3>1
      <3>3. c \in Call /\ pc'[q] = First(c) /\ call'[q] = c
            /\ sending'[q] = IF c.op \in DOMAIN AfterUpload THEN c.files ELSE {}
        BY <1>0, <3>2, BackOfficeAssumption DEF Goto
      <3>4. CASE First(c) = "upload"
        <4>1. sending'[q] = c.files
          BY <3>3, <3>4, FirstIsOnPath
        <4> QED
          BY <3>3, <3>4, <4>1 DEF Sent, Waited
      <3>5. CASE First(c) = "defaults"
        <4>1. c.op # "createGuest"
          BY <3>3, <3>5, FirstIsOnPath
        <4> QED
          BY <3>3, <3>5, <4>1 DEF Waited
      <3> QED
        BY <3>3, <3>4, <3>5, FirstIsOnPath DEF Waited
    <2>3. CASE q = r /\ Execute(r) /\ UNCHANGED call
      <3>1. CASE pc[r] = "upload"
        <4>1. sending[r] = {} /\ UNCHANGED stored /\ Sent(r, call[r].files \ sending[r])
              /\ Goto(r, AfterUpload[call[r].op])
              /\ call[r].op \in {"createGuest", "updateGuest", "createType", "updateType"}
          BY <2>3, <3>1, ExecuteAt, CallAt DEF Uploaded, Wait, Waited, FilesInv
        <4>2. Sent(r, call[r].files)
          <5>1. call[r].files \ sending[r] = call[r].files
            BY <4>1
          <5> QED
            BY <4>1, <5>1
        <4>3. pc'[r] # "upload"
          BY <1>0, <4>1 DEF Goto, AfterUpload
        <4> QED
          BY <2>3, <4>1, <4>2, <4>3 DEF Sent, Waited
      <3>2. CASE pc[r] = "existing"
        <4>1. UNCHANGED stored /\ Sent(r, call[r].files) /\ pc'[r] \in {"guest", "defaults"}
          BY <1>0, <2>3, <3>2, ExecuteAt DEF FindGuest, Waited, FilesInv, Goto
        <4> QED
          BY <2>3, <4>1 DEF Sent, Waited
      <3>3. CASE pc[r] = "defaults"
        <4>1. /\ UNCHANGED stored /\ pc'[r] = AfterDefaults[call[r].op]
              /\ call[r].op \in {"createGuest", "createHourlyRule", "createSeasonalRate",
                                 "calculatePrice"}
          BY <1>0, <2>3, <3>3, ExecuteAt, CallAt DEF FillDefaults, Goto
        <4>2. pc'[r] \in {"guest", "addRule", "addSeason", "rates"}
              /\ (pc'[r] = "guest" => call[r].op = "createGuest")
          BY <4>1 DEF AfterDefaults
        <4> QED
          BY <2>3, <3>3, <4>1, <4>2 DEF Sent, Waited, FilesInv
      <3>4. CASE pc[r] \in {"rates", "season", "rule"}
        <4>1. pc'[r] \in {"season", "rule", "ok", "failed"}
          BY <1>0, <2>3, <3>4, ExecuteAt
          DEF ReadRates, ReadSeason, ReadRule, Throw, Answer, Reply, Goto
        <4> QED
          BY <2>3, <4>1 DEF Waited
      <3> QED
        BY <2>3, <3>1, <3>2, <3>3, <3>4, ExecuteAt DEF Waited
    <2>4. CASE q = r /\ Fail(r)
      BY <1>0, <2>4 DEF Fail, Throw, Goto, Waited
    <2>5. ASSUME NEW f \in File, q = r, UNCHANGED call, Upload(r, f) \/ UploadFails(r, f)
          PROVE  Waited(q)'
      <3>1. sending'[q] = sending[q] \ {f}
        BY <1>0, <2>5, UploadMoves
      <3>2. CASE pc'[q] = "upload"
        <4>1. pc[q] = "upload" /\ Upload(r, f) /\ <<q, f>> \in stored'
          BY <2>5, <3>2, UploadMoves
        <4>2. Sent(q, call[q].files \ sending[q])
          BY <4>1 DEF FilesInv, Waited
        <4> QED
          BY <1>1, <2>5, <3>1, <3>2, <4>1, <4>2 DEF Sent, Waited
      <3>3. CASE pc'[q] # "upload" /\ pc'[q] # "failed"
        <4>1. pc'[q] = pc[q]
          BY <2>5, <3>3, UploadMoves
        <4> QED
          BY <1>1, <2>5, <3>3, <4>1 DEF FilesInv, Waited, Sent
      <3> QED
        BY <3>2, <3>3 DEF Waited
    <2>6. CASE q # r
      BY <2>1, <2>6, OneMoves
    <2> QED
      BY <2>2, <2>3, <2>4, <2>5, <2>6 DEF Move
  <1> QED
    BY <1>1, <1>2, <1>3 DEF FilesInv

(* guests.controller.ts:30 and rooms.controller.ts:27: a URL in a row is   *)
(* that of an object there is, in whatever order the uploads of a body     *)
(* end, and whichever of them fails while the others go on.                *)
THEOREM UrlsResolve == Spec => []StoredUrlsResolve
PROOF
  <1>1. Init => BackOfficeInv /\ FilesInv
    BY InitIsTyped, InitFiles
  <1>2. BackOfficeInv /\ FilesInv /\ [Next]_vars => BackOfficeInv' /\ FilesInv'
    <2> SUFFICES ASSUME BackOfficeInv, FilesInv, [Next]_vars
                 PROVE  BackOfficeInv' /\ FilesInv'
      OBVIOUS
    <2>1. BackOfficeInv' /\ StateInv
      BY NextIsTyped DEF BackOfficeInv
    <2>2. CASE UNCHANGED vars
      BY <2>1, <2>2 DEF vars, FilesInv, Waited, StoredUrlsResolve, Sent
    <2>3. ASSUME NEW r \in Request, Move(r) PROVE FilesInv'
      BY <2>1, <2>3, MoveKeepsFiles
    <2> QED
      BY <2>1, <2>2, <2>3 DEF Next, Quiescent, Step, Move
  <1>3. FilesInv => StoredUrlsResolve
    BY DEF FilesInv
  <1> QED
    BY <1>1, <1>2, <1>3, PTL DEF Spec
-----------------------------------------------------------------------------
(* A firm of the tenant, if any, and a branch of that firm, if any.        *)
Belongs(tenant, firm, branch) ==
  /\ firm # NULL => db.firms[firm] # NULL /\ db.firms[firm].tenant = tenant
  /\ branch # NULL => db.branches[branch] # NULL /\ db.branches[branch].firm = firm

(* What a handler writes for firm and branch: those of a token that has    *)
(* both, and for a token that has neither what belongs together.           *)
Scoped(q, firm, branch) ==
  LET s == call[q].as IN
  /\ Complete(s) => firm = s.firm /\ branch = s.branch
  /\ s.firm = NULL /\ s.branch = NULL => Belongs(s.tenant, firm, branch)

Scopes == {"guests", "rules", "seasons"}

(* The token's firm is still there and still the tenant's.                 *)
TokenInv ==
  \A c \in UNION Mix : c.as.firm # NULL =>
    db.firms[c.as.firm] # NULL /\ db.firms[c.as.firm].tenant = c.as.tenant

ScopeInv ==
  /\ TokenInv
  /\ \A q \in Request :
       pc[q] \in {"guest", "addRule", "addSeason"} =>
         Scoped(q, draft[q].firm, draft[q].branch)
  /\ \A t \in Scopes, q \in Request :
       db[t][q] # NULL =>
         /\ pc[q] # "idle" /\ db[t][q].tenant = call[q].as.tenant
         /\ Scoped(q, db[t][q].firm, db[t][q].branch)

LEMMA ScopesBelong ==
  ASSUME StateInv, ScopeInv
  PROVE  DefaultsBelongTogether
PROOF
  <1> SUFFICES ASSUME NEW t \in Scopes, NEW i \in Request, db[t][i] # NULL,
                      call[i].as.firm = NULL <=> call[i].as.branch = NULL,
                      call[i].as.branch # NULL =>
                        db.branches[call[i].as.branch].firm = call[i].as.firm
               PROVE  /\ db[t][i].firm # NULL =>
                           db.firms[db[t][i].firm].tenant = db[t][i].tenant
                      /\ db[t][i].branch # NULL =>
                           db.branches[db[t][i].branch].firm = db[t][i].firm
    BY DEF DefaultsBelongTogether, Scopes
  <1>1. /\ pc[i] # "idle" /\ db[t][i].tenant = call[i].as.tenant
        /\ Scoped(i, db[t][i].firm, db[t][i].branch)
    BY DEF ScopeInv
  <1>2. CASE Complete(call[i].as)
    <2>1. db[t][i].firm = call[i].as.firm /\ db[t][i].branch = call[i].as.branch
      BY <1>1, <1>2 DEF Scoped
    <2>2. call[i] \in UNION Mix
      BY <1>1, CallAt
    <2> QED
      BY <1>1, <2>1, <2>2 DEF ScopeInv, TokenInv
  <1>3. CASE ~Complete(call[i].as)
    BY <1>1, <1>3 DEF Scoped, Complete, Belongs
  <1> QED
    BY <1>2, <1>3

LEMMA InitScopes == ASSUME Init PROVE ScopeInv
PROOF
  <1>1. db = Database /\ \A q \in Request : pc[q] = "idle"
    BY DEF Init
  <1>2. TokenInv
    BY <1>1, BackOfficeAssumption DEF TokenInv
  <1>3. \A q \in Request : q \in Id /\ q \notin Seed
    BY DatabaseAssumption DEF Id
  <1>4. \A t \in Scopes, q \in Request : db[t][q] = NULL
    BY <1>1, <1>3, SeedRows DEF Scopes, Table
  <1> QED
    BY <1>1, <1>2, <1>4 DEF ScopeInv

(* Firms keep their tenant, and branches their firm.                       *)
LEMMA MoveKeepsBelongings ==
  ASSUME StateInv, BranchInv, NEW r \in Request, Move(r),
         NEW tenant, NEW firm \in Id \cup {NULL}, NEW branch \in Id \cup {NULL},
         Belongs(tenant, firm, branch)
  PROVE  Belongs(tenant, firm, branch)'
PROOF
  <1>1. FirmsMove(r) /\ BranchesMove(r)
    BY MoveTables DEF TablesMove
  <1>2. ASSUME firm # NULL
        PROVE  db'.firms[firm] # NULL /\ db'.firms[firm].tenant = tenant
    <2>1. firm \in Id /\ db.firms[firm] # NULL /\ db.firms[firm].tenant = tenant
      BY <1>2 DEF Belongs
    <2>2. ~(firm = r /\ pc[r] = "firm")
      BY <2>1 DEF BranchInv
    <2> QED
      BY <1>1, <2>1, <2>2 DEF FirmsMove
  <1>3. ASSUME branch # NULL
        PROVE  db'.branches[branch] # NULL /\ db'.branches[branch].firm = firm
    <2>1. /\ branch \in Id /\ db.branches[branch] # NULL
          /\ db.branches[branch].firm = firm
      BY <1>3 DEF Belongs
    <2>2. [firm |-> r] # NULL
      <3>1. [firm |-> r] \in RowType["branches"] /\ "branches" \in Table
        BY RowTypes DEF Id, Table
      <3> QED
        BY <3>1, DatabaseAssumption
    <2> QED
      BY <1>1, <2>1, <2>2 DEF BranchesMove, BranchInv
  <1> QED
    BY <1>2, <1>3 DEF Belongs

(* The defaults belong together, whatever other requests insert.           *)
LEMMA DefaultsBelong ==
  ASSUME NEW tenant, NEW d \in Defaults(tenant)
  PROVE  Belongs(tenant, d.firm, d.branch)
PROOF
  <1> DEFINE mine == {f \in Rows("firms") : db.firms[f].tenant = tenant}
             Of(f) == {b \in Rows("branches") : db.branches[b].firm = f}
             oldest == {f \in mine : \A g \in mine :
                          db.firms[f].created <= db.firms[g].created}
             Pairs(f) == [firm: {f}, branch: IF Of(f) = {} THEN {NULL} ELSE Of(f)]
  <1>1. CASE mine = {}
    <2>1. d \in {[firm |-> NULL, branch |-> NULL]}
      BY <1>1 DEF Defaults
    <2> QED
      BY <2>1 DEF Belongs
  <1>2. CASE mine # {}
    <2>1. d \in UNION {Pairs(f) : f \in oldest}
      BY <1>2 DEF Defaults
    <2>2. PICK f \in oldest : d \in Pairs(f)
      BY <2>1
    <2>3. d.firm = f /\ (d.branch = NULL \/ d.branch \in Of(f))
      BY <2>2
    <2>4. db.firms[f] # NULL /\ db.firms[f].tenant = tenant
      BY <2>2 DEF Rows
    <2> QED
      BY <2>3, <2>4 DEF Rows, Belongs
  <1> QED
    BY <1>1, <1>2

LEMMA MoveKeepsScopes ==
  ASSUME StateInv, StateInv', BranchInv, ScopeInv, NEW r \in Request, Move(r)
  PROVE  ScopeInv'
PROOF
  <1>0. /\ pc \in [Request -> Statement] /\ draft \in [Request -> Draft \cup {NULL}]
        /\ call \in [Request -> Call \cup {NULL}]
    BY DEF StateInv
  <1>1. FirmsMove(r) /\ GuestsMove(r) /\ RulesMove(r) /\ SeasonsMove(r)
    BY MoveTables DEF TablesMove
  <1>2. TokenInv'
    <2> SUFFICES ASSUME NEW c \in UNION Mix, c.as.firm # NULL
                 PROVE  /\ db'.firms[c.as.firm] # NULL
                        /\ db'.firms[c.as.firm].tenant = c.as.tenant
      BY DEF TokenInv
    <2>1. /\ db.firms[c.as.firm] # NULL /\ db.firms[c.as.firm].tenant = c.as.tenant
      BY DEF ScopeInv, TokenInv
    <2>2. c.as.firm \in Id
      BY BackOfficeAssumption, CallFields DEF Session
    <2>3. ~(c.as.firm = r /\ pc[r] = "firm")
      BY <2>1 DEF BranchInv
    <2> QED
      BY <1>1, <2>1, <2>2, <2>3 DEF FirmsMove
  (* What was in scope still is.                                           *)
  <1>3. ASSUME NEW q \in Request, pc[q] # "idle", NEW firm \in Id \cup {NULL},
               NEW branch \in Id \cup {NULL}, Scoped(q, firm, branch)
        PROVE  Scoped(q, firm, branch)'
    <2>1. call'[q] = call[q]
      BY <1>3, OneMoves
    <2> QED
      BY <1>3, <2>1, MoveKeepsBelongings DEF Scoped
  <1>4. ASSUME NEW q \in Request, pc'[q] \in {"guest", "addRule", "addSeason"}
        PROVE  Scoped(q, draft[q].firm, draft[q].branch)'
    <2>1. CASE pc'[q] = pc[q] /\ draft'[q] = draft[q]
      <3>1. /\ draft[q].firm \in Id \cup {NULL} /\ draft[q].branch \in Id \cup {NULL}
            /\ pc[q] # "idle" /\ Scoped(q, draft[q].firm, draft[q].branch)
        BY <1>4, <2>1, CallAt DEF Draft, ScopeInv
      <3> HIDE DEF Scoped
      <3>2. ASSUME NEW f, f = draft[q].firm, NEW b, b = draft[q].branch
            PROVE  Scoped(q, f, b)'
        BY <1>3, <3>1, <3>2
      <3> QED
        BY <2>1, <3>2 DEF Scoped, Belongs
    <2>2. CASE q = r /\ Arrive(r)
      <3>1. PICK calls \in Mix : \E c \in calls :
              /\ call' = [call EXCEPT ![q] = c]
              /\ Goto(q, First(c))
              /\ draft' = [draft EXCEPT ![q] = [firm |-> c.as.firm, branch |-> c.as.branch,
                                                amount |-> 0]]
        BY <2>2 DEF Arrive
      <3>2. PICK c \in calls :
              /\ call' = [call EXCEPT ![q] = c]
              /\ Goto(q, First(c))
              /\ draft' = [draft EXCEPT ![q] = [firm |-> c.as.firm, branch |-> c.as.branch,
                                                amount |-> 0]]
        BY <3>1
      <3>3. /\ c \in Call /\ pc'[q] = First(c) /\ call'[q] = c
            /\ draft'[q].firm = c.as.firm /\ draft'[q].branch = c.as.branch
        BY <1>0, <3>2, BackOfficeAssumption DEF Goto
      <3>4. Complete(c.as)
        BY <1>4, <3>3, FirstIsOnPath
      <3> QED
        BY <3>3, <3>4 DEF Scoped, Complete
    <2>3. CASE q = r /\ Execute(r) /\ UNCHANGED call
      <3>1. CASE pc[r] = "existing"
        <4>1. /\ draft'[q].firm = call[q].as.firm /\ draft'[q].branch = call[q].as.branch
              /\ pc'[q] = IF Complete(call[q].as) THEN "guest" ELSE "defaults"
          BY <1>0, <2>3, <3>1, ExecuteAt DEF FindGuest, Goto
        <4> QED
          BY <1>4, <2>3, <4>1 DEF Scoped, Complete
      <3>2. CASE pc[r] = "defaults"
        <4>1. PICK d \in Defaults(call[q].as.tenant) :
                draft' = [draft EXCEPT ![q] = [firm |-> Or(call[q].as.firm, d.firm),
                                               branch |-> Or(call[q].as.branch, d.branch),
                                               amount |-> 0]]
          BY <2>3, <3>2, ExecuteAt DEF FillDefaults
        <4>2. /\ draft'[q].firm = Or(call[q].as.firm, d.firm)
              /\ draft'[q].branch = Or(call[q].as.branch, d.branch) /\ UNCHANGED db
          BY <1>0, <2>3, <3>2, <4>1, ExecuteAt DEF FillDefaults
        <4>3. Belongs(call[q].as.tenant, d.firm, d.branch)
          BY DefaultsBelong
        <4> QED
          BY <2>3, <4>2, <4>3 DEF Scoped, Complete, Belongs, Or
      <3> QED
        BY <1>4, <2>3, <3>1, <3>2, ExecuteAt, Onward
    <2>4. CASE q = r /\ Fail(r)
      BY <1>0, <1>4, <2>4 DEF Fail, Throw, Goto
    <2>5. ASSUME NEW f \in File, q = r, Upload(r, f) \/ UploadFails(r, f)
          PROVE  pc'[q] = pc[q] /\ draft'[q] = draft[q]
      BY <1>4, <2>5, UploadMoves
    <2>6. CASE q # r
      BY <2>1, <2>6, OneMoves
    <2> QED
      BY <2>1, <2>2, <2>3, <2>4, <2>5, <2>6 DEF Move
  <1>5. ASSUME NEW t \in Scopes, NEW q \in Request, db'[t][q] # NULL
        PROVE  /\ pc'[q] # "idle" /\ db'[t][q].tenant = call'[q].as.tenant
               /\ Scoped(q, db[t][q].firm, db[t][q].branch)'
    <2>1. \/ /\ db[t][q] # NULL /\ db'[t][q].tenant = db[t][q].tenant
             /\ db'[t][q].firm = db[t][q].firm /\ db'[t][q].branch = db[t][q].branch
          \/ /\ q = r /\ pc[q] \in {"guest", "addRule", "addSeason"}
             /\ db'[t][q].tenant = call[q].as.tenant
             /\ db'[t][q].firm = draft[q].firm /\ db'[t][q].branch = draft[q].branch
      <3>1. CASE t = "guests"
        BY <1>1, <1>5, <3>1 DEF GuestsMove, Id
      <3>2. CASE t = "rules"
        BY <1>1, <1>5, <3>2 DEF RulesMove, Id
      <3>3. CASE t = "seasons"
        BY <1>1, <1>5, <3>3 DEF SeasonsMove, Id
      <3> QED
        BY <3>1, <3>2, <3>3 DEF Scopes
    <2>2. PICK firm, branch :
            /\ pc[q] # "idle" /\ db'[t][q].tenant = call[q].as.tenant
            /\ firm = db'[t][q].firm /\ branch = db'[t][q].branch
            /\ firm \in Id \cup {NULL} /\ branch \in Id \cup {NULL}
            /\ Scoped(q, firm, branch)
      <3>1. db'[t][q].firm \in Id \cup {NULL} /\ db'[t][q].branch \in Id \cup {NULL}
        <4>1. t \in Table /\ q \in RowsOf(t)
          BY DEF Scopes, Table, RowsOf, Id
        <4>2. db'[t][q] \in RowType[t]
          BY <1>5, <4>1 DEF StateInv, TablesOK
        <4>3. CASE t = "guests"
          BY <4>2, <4>3, RowTypes
        <4>4. CASE t = "rules"
          BY <4>2, <4>4, RowTypes
        <4>5. CASE t = "seasons"
          BY <4>2, <4>5, RowTypes
        <4> QED
          BY <4>3, <4>4, <4>5 DEF Scopes
      <3>2. CASE /\ db[t][q] # NULL /\ db'[t][q].tenant = db[t][q].tenant
                 /\ db'[t][q].firm = db[t][q].firm /\ db'[t][q].branch = db[t][q].branch
        BY <3>1, <3>2 DEF ScopeInv
      <3>3. CASE /\ q = r /\ pc[q] \in {"guest", "addRule", "addSeason"}
                 /\ db'[t][q].tenant = call[q].as.tenant
                 /\ db'[t][q].firm = draft[q].firm /\ db'[t][q].branch = draft[q].branch
        BY <3>1, <3>3 DEF ScopeInv
      <3> QED
        BY <2>1, <3>2, <3>3
    <2>3. call'[q] = call[q] /\ pc'[q] # "idle"
      BY <2>2, OneMoves
    <2>4. Scoped(q, firm, branch)'
      BY <1>3, <2>2
    <2> QED
      BY <2>2, <2>3, <2>4 DEF Scoped, Belongs
  <1> QED
    BY <1>2, <1>4, <1>5 DEF ScopeInv

(* The fallback of guests.create, createHourlyRule and createSeasonalRate: *)
(* what is written for a token that has both firm and branch, or neither,  *)
(* belongs together, whichever firms and branches come in meanwhile.       *)
THEOREM ScopesBelongTogether == Spec => []DefaultsBelongTogether
PROOF
  <1>1. Init => BackOfficeInv /\ BranchInv /\ ScopeInv
    BY InitIsTyped, InitBranches, InitScopes
  <1>2. BackOfficeInv /\ BranchInv /\ ScopeInv /\ [Next]_vars
          => BackOfficeInv' /\ BranchInv' /\ ScopeInv'
    <2> SUFFICES ASSUME BackOfficeInv, BranchInv, ScopeInv, [Next]_vars
                 PROVE  BackOfficeInv' /\ BranchInv' /\ ScopeInv'
      OBVIOUS
    <2>1. BackOfficeInv' /\ StateInv /\ StateInv'
      BY NextIsTyped DEF BackOfficeInv
    <2>2. CASE UNCHANGED vars
      <3>1. BranchInv'
        BY <2>2 DEF vars, BranchInv, FirmGetsItsBranch, Rows
      <3>2. ScopeInv'
        BY <2>2 DEF vars, ScopeInv, TokenInv, Scoped, Belongs
      <3> QED
        BY <2>1, <3>1, <3>2
    <2>3. ASSUME NEW r \in Request, Move(r) PROVE BranchInv' /\ ScopeInv'
      BY <2>1, <2>3, MoveKeepsBranches, MoveKeepsScopes
    <2> QED
      BY <2>1, <2>2, <2>3 DEF Next, Quiescent, Step, Move
  <1>3. BackOfficeInv /\ ScopeInv => DefaultsBelongTogether
    BY ScopesBelong DEF BackOfficeInv
  <1> QED
    BY <1>1, <1>2, <1>3, PTL DEF Spec
-----------------------------------------------------------------------------
(* The tables whose updates keep what the body leaves out.                 *)
Merging == {"rooms", "types"}

UpdateOp(t) == [rooms |-> "updateRoom", types |-> "updateType"][t]

Setting(t) == [rooms |-> "setRoom", types |-> "setType"][t]

Updates(t, p) == pc[p] # "idle" /\ call[p].op = UpdateOp(t)

(* What a body gives for a column, NULL if it leaves it as it is.          *)
GivesOf(set, c) ==
  CASE c = "flag" /\ set[c] # NULL -> OrZero(set[c])
    [] OTHER -> OrNull(set[c])

(* Each column that q gave holds what q or another update gave it.         *)
Keeps(t, q) ==
  db[t][call[q].id] # NULL =>
    \A c \in Columns[t] :
      GivesOf(call[q].set, c) # NULL =>
        \E p \in Request :
          /\ Updates(t, p) /\ call[p].id = call[q].id
          /\ db[t][call[q].id].cols[c] = GivesOf(call[p].set, c)

UpdatesInv ==
  \A t \in Merging, q \in Request :
    /\ Updates(t, q) /\ pc[q] = "ok" /\ call[q].id \in Seed \cup (Seed \X Number)
    => Keeps(t, q)

LEMMA UpdatesInvIsProperty == UpdatesInv <=> UpdatesKeepEachOther
PROOF
  BY DEF UpdatesInv, UpdatesKeepEachOther, Merging, Updates, UpdateOp, Keeps, GivesOf

LEMMA MergedGives ==
  ASSUME NEW t \in Merging, NEW old \in Cols(t), NEW set, NEW c \in Columns[t]
  PROVE  Merged(old, set)[c] = IF GivesOf(set, c) # NULL THEN GivesOf(set, c) ELSE old[c]
PROOF
  <1>1. DOMAIN old = Columns[t]
    BY DEF Cols, Named
  <1>2. NULL # 0 /\ NULL # 1
    BY DatabaseAssumption
  <1>3. CASE c # "flag"
    BY <1>1, <1>3 DEF Merged, GivesOf, Or
  <1>4. CASE c = "flag" /\ set[c] = NULL
    BY <1>1, <1>2, <1>4 DEF Merged, GivesOf, OrNull
  <1>5. CASE c = "flag" /\ set[c] # NULL
    BY <1>1, <1>2, <1>5 DEF Merged, GivesOf, OrZero
  <1> QED
    BY <1>3, <1>4, <1>5

(* An update that is acknowledged has found no row, or has merged it.      *)
LEMMA Acknowledged ==
  ASSUME StateInv, NEW r \in Request, NEW t \in Merging, pc[r] = Setting(t), Execute(r),
         pc'[r] = "ok"
  PROVE  \/ db'[t][call[r].id] = NULL
         \/ /\ db[t][call[r].id] \in RowType[t]
            /\ db'[t][call[r].id].cols = Merged(db[t][call[r].id].cols, call[r].set)
PROOF
  <1> DEFINE i == call[r].id
             old == db[t][i]
  <1>1. CASE t = "rooms"
    <2> DEFINE row == [old EXCEPT !.cols = Merged(@, call[r].set)]
    <2>1. UpdateRoom(r) /\ i \in Id \X Number
      BY <1>1, ExecuteAt, CallAt, CallFields DEF Setting
    <2>2. CASE old = NULL
      BY <1>1, <2>1, <2>2, NoRowIsNoChange DEF UpdateRoom
    <2>3. CASE old # NULL
      <3>1. t \in Table /\ i \in RowsOf(t) /\ old \in RowType[t] /\ Save(r, t, i, row)
        BY <1>1, <2>1, <2>3, RowsFit DEF StateInv, Table, RowsOf, UpdateRoom
      <3>2. row.cols = Merged(old.cols, call[r].set)
        BY <1>1, <3>1, RowTypes
      <3> HIDE DEF row
      <3>3. db'[t][i] = row
        BY <3>1, SaveIsOneRow
      <3> QED
        BY <3>1, <3>2, <3>3
    <2> QED
      BY <2>2, <2>3
  <1>2. CASE t = "types"
    <2> DEFINE cols == Merged(old.cols, call[r].set)
               row == Rewritten(old, cols, Or(TotalUrls(r), old.files))
    <2>1. UpdateType(r) /\ i \in Id /\ pc[r] = "setType" /\ call[r].op = "updateType"
      BY <1>2, ExecuteAt, CallAt, CallFields DEF Setting
    <2>2. CASE old = NULL
      BY <1>2, <2>1, <2>2, NoRowIsNoChange DEF UpdateType
    <2>3. CASE old # NULL
      <3>1. t \in Table /\ i \in RowsOf(t) /\ old \in RowType[t] /\ Save(r, t, i, row)
        BY <1>2, <2>1, <2>3, RowsFit DEF StateInv, Table, RowsOf, UpdateType
      <3>2. Or(TotalUrls(r), old.files) \in Urls
        <4>1. old.files \in Urls
          BY <1>2, <3>1, RowTypes
        <4> QED
          BY <2>1, <4>1, TotalUrlsAreUrls DEF Or
      <3>3. row.cols = cols
        BY <1>2, <3>1, <3>2, RowRewritten
      <3> HIDE DEF row
      <3>4. db'[t][i] = row
        BY <3>1, SaveIsOneRow
      <3> QED
        BY <3>1, <3>3, <3>4
    <2> QED
      BY <2>2, <2>3
  <1> QED
    BY <1>1, <1>2 DEF Merging

(* A move leaves the row of a seed alone, or merges an update into it.     *)
LEMMA MoveMerges ==
  ASSUME StateInv, NEW r \in Request, Move(r), NEW t \in Merging, NEW i \in RowsOf(t),
         i \in Seed \cup (Seed \X Number)
  PROVE  \/ db'[t][i] = db[t][i]
         \/ /\ pc[r] = Setting(t) /\ i = call[r].id /\ db[t][i] \in RowType[t]
            /\ db'[t][i].cols = Merged(db[t][i].cols, call[r].set)
PROOF
  <1>1. Request \cap Seed = {} /\ Id \cap (Id \X Number) = {} /\ Seed \subseteq Id
    BY DatabaseAssumption DEF Id
  <1>2. TypesMove(r) /\ RoomsMove(r)
    BY MoveTables DEF TablesMove
  <1>3. t \in Table /\ (db[t][i] # NULL => db[t][i] \in RowType[t])
    BY RowsFit DEF StateInv, Merging, Table
  <1>4. CASE t = "rooms"
    <2>1. i \in Id \X Number /\ i[1] # r
      BY <1>1, <1>4 DEF RowsOf
    <2> QED
      BY <1>2, <1>3, <1>4, <2>1 DEF RoomsMove, Setting
  <1>5. CASE t = "types"
    <2>1. i \in Id /\ i # r
      <3>1. i \notin Seed \X Number
        BY <1>1, <1>5 DEF RowsOf
      <3> QED
        BY <1>1, <1>5, <3>1 DEF RowsOf
    <2> QED
      BY <1>2, <1>3, <1>5, <2>1 DEF TypesMove, Setting
  <1> QED
    BY <1>4, <1>5 DEF Merging

LEMMA MoveKeepsUpdates ==
  ASSUME StateInv, UpdatesInv, NEW r \in Request, Move(r)
  PROVE  UpdatesInv'
PROOF
  <1> SUFFICES ASSUME NEW t \in Merging, NEW q \in Request, Updates(t, q)', pc'[q] = "ok",
                      call'[q].id \in Seed \cup (Seed \X Number),
                      db'[t][call'[q].id] # NULL,
                      NEW c \in Columns[t], GivesOf(call'[q].set, c) # NULL
               PROVE  \E p \in Request :
                        /\ Updates(t, p)' /\ call'[p].id = call'[q].id
                        /\ db'[t][call'[q].id].cols[c] = GivesOf(call'[p].set, c)
    BY DEF UpdatesInv, Keeps
  <1>1. ASSUME NEW p \in Request, Updates(t, p)
        PROVE  Updates(t, p)' /\ call'[p] = call[p]
    <2>1. pc'[p] # "idle" /\ call'[p] = call[p]
      BY <1>1, OneMoves DEF Updates
    <2> QED
      BY <1>1, <2>1 DEF Updates
  <1>2. ASSUME NEW p \in Request, Updates(t, p), NEW row \in RowType[t],
               db'[t][call[p].id].cols = Merged(row.cols, call[p].set)
        PROVE  db'[t][call[p].id].cols[c] = IF GivesOf(call[p].set, c) # NULL
                                            THEN GivesOf(call[p].set, c) ELSE row.cols[c]
    <2>1. row.cols \in Cols(t)
      <3>1. CASE t = "rooms"
        BY <3>1, RowTypes
      <3>2. CASE t = "types"
        BY <3>2, RowTypes
      <3> QED
        BY <3>1, <3>2 DEF Merging
    <2> QED
      BY <1>2, <2>1, MergedGives
  <1>3. CASE pc[q] = "ok"
    <2>1. call'[q] = call[q] /\ Updates(t, q)
      BY <1>3, OneMoves DEF Updates
    <2>2. call[q].id \in RowsOf(t) /\ call[q].op = UpdateOp(t)
      BY <1>3, <2>1, CallAt, CallFields DEF Updates, UpdateOp, Merging, RowsOf
    <2> DEFINE i == call[q].id
    <2>3. CASE db'[t][i] = db[t][i]
      <3>1. PICK p \in Request : /\ Updates(t, p) /\ call[p].id = i
                                 /\ db[t][i].cols[c] = GivesOf(call[p].set, c)
        BY <1>3, <2>1, <2>3 DEF UpdatesInv, Keeps
      <3> QED
        BY <1>1, <2>1, <2>3, <3>1
    <2>4. CASE /\ pc[r] = Setting(t) /\ i = call[r].id /\ db[t][i] \in RowType[t]
               /\ db'[t][i].cols = Merged(db[t][i].cols, call[r].set)
      <3>1. Updates(t, r)
        BY <2>4, CallAt DEF Updates, UpdateOp, Setting, Merging
      <3>2. db'[t][i].cols[c] = IF GivesOf(call[r].set, c) # NULL
                                THEN GivesOf(call[r].set, c) ELSE db[t][i].cols[c]
        BY <1>2, <2>4, <3>1
      <3>3. CASE GivesOf(call[r].set, c) # NULL
        BY <1>1, <2>1, <2>4, <3>1, <3>2, <3>3
      <3>4. CASE GivesOf(call[r].set, c) = NULL
        <4>1. db[t][i] # NULL
          <5>1. t \in Table
            BY DEF Merging, Table
          <5> QED
            BY <2>4, <5>1, DatabaseAssumption
        <4>2. PICK p \in Request : /\ Updates(t, p) /\ call[p].id = i
                                   /\ db[t][i].cols[c] = GivesOf(call[p].set, c)
          BY <1>3, <2>1, <4>1 DEF UpdatesInv, Keeps
        <4> QED
          BY <1>1, <2>1, <3>2, <3>4, <4>2
      <3> QED
        BY <3>3, <3>4
    <2> QED
      BY <2>1, <2>2, <2>3, <2>4, MoveMerges
  <1>4. CASE pc[q] # "ok"
    <2>1. q = r
      BY <1>4, OneMoves
    <2>2. Execute(r) /\ UNCHANGED call
      <3>1. ~Arrive(r)
        <4>1. ASSUME Arrive(r) PROVE pc'[r] # "ok"
          <5>1. PICK calls \in Mix : \E x \in calls : Goto(r, First(x))
            BY <4>1 DEF Arrive
          <5>2. PICK x \in calls : Goto(r, First(x))
            BY <5>1
          <5>3. pc'[r] = First(x) /\ x \in Call
            BY <5>2, BackOfficeAssumption DEF Goto, StateInv
          <5> QED
            BY <5>3, FirstIsOnPath
        <4> QED
          BY <2>1, <4>1
      <3>2. ~Fail(r)
        BY <2>1 DEF Fail, Throw, Goto, StateInv
      <3>3. ASSUME NEW f \in File PROVE ~(Upload(r, f) \/ UploadFails(r, f))
        BY <1>4, <2>1, <3>3, UploadMoves
      <3> QED
        BY <3>1, <3>2, <3>3 DEF Move
    <2>3. call'[q] = call[q] /\ pc[r] # "idle" /\ Updates(t, r)
      BY <2>1, <2>2, ExecuteAt DEF Updates
    <2>4. pc[r] = Setting(t)
      <3>1. pc[r] \in Path[UpdateOp(t)] \cup {"ok", "failed"}
        BY <2>3 DEF StateInv, Progress, Updates
      <3>2. pc[r] \in {"upload", Setting(t)}
        BY <2>2, <3>1, ExecuteAt, PathOf DEF UpdateOp, Setting, Merging
      <3> QED
        BY <2>1, <2>2, <3>2, Onward
    <2>5. /\ db[t][call[r].id] \in RowType[t]
          /\ db'[t][call[r].id].cols = Merged(db[t][call[r].id].cols, call[r].set)
      BY <2>1, <2>2, <2>4, Acknowledged
    <2>6. db'[t][call[r].id].cols[c] = GivesOf(call[r].set, c)
      BY <1>2, <2>1, <2>2, <2>3, <2>5
    <2> QED
      BY <1>1, <2>1, <2>3, <2>6
  <1> QED
    BY <1>3, <1>4

(* updateRoom and updateRoomType, rooms.service.ts:209 and 238: however    *)
(* the updates of a row interleave, none takes back what another one has   *)
(* been acknowledged for.                                                  *)
THEOREM NoUpdateIsLost == Spec => []UpdatesKeepEachOther
PROOF
  <1>1. Init => BackOfficeInv /\ UpdatesInv
    BY InitIsTyped DEF Init, UpdatesInv
  <1>2. BackOfficeInv /\ UpdatesInv /\ [Next]_vars => BackOfficeInv' /\ UpdatesInv'
    <2> SUFFICES ASSUME BackOfficeInv, UpdatesInv, [Next]_vars
                 PROVE  BackOfficeInv' /\ UpdatesInv'
      OBVIOUS
    <2>1. BackOfficeInv' /\ StateInv
      BY NextIsTyped DEF BackOfficeInv
    <2>2. CASE UNCHANGED vars
      BY <2>1, <2>2 DEF vars, UpdatesInv, Keeps, Updates
    <2>3. ASSUME NEW r \in Request, Move(r) PROVE UpdatesInv'
      BY <2>1, <2>3, MoveKeepsUpdates
    <2> QED
      BY <2>1, <2>2, <2>3 DEF Next, Quiescent, Step, Move
  <1>3. UpdatesInv => UpdatesKeepEachOther
    BY UpdatesInvIsProperty
  <1> QED
    BY <1>1, <1>2, <1>3, PTL DEF Spec
-----------------------------------------------------------------------------
(* What a quote is computed from, as the tables have it now.               *)
RateNow(q) == Rate(db.types[call[q].type], call[q])

SeasonNow(q) == SeasonOf(db, call[q], draft[q].firm)

RuleNow(q) == IF call[q].hourly THEN RuleOf(db, call[q], draft[q].firm) ELSE 10

PriceNow(q) == Price(db, call[q], draft[q].firm)

Few(q) == Cardinality(writes[q]) <= 1

(* At most one request has changed the rates: then either the factors that *)
(* have been read are those that the tables have now, or, since that       *)
(* request changed one of them after it was read, the price with those     *)
(* factors is the one there was just before.                               *)
OneOfSeason(q, a) ==
  Few(q) => \/ a = RateNow(q)
            \/ /\ writes[q] # {}
               /\ Units(call[q]) * a * SeasonNow(q) * RuleNow(q) \in moments[q]

OneOfRule(q, a, s) ==
  Few(q) => \/ a = RateNow(q) /\ s = SeasonNow(q)
            \/ /\ writes[q] # {}
               /\ Units(call[q]) * a * s * RuleNow(q) \in moments[q]

Computing(q) ==
  /\ Quoting(q) => PriceNow(q) \in moments[q]
  /\ pc[q] \in {"season", "rule"} => db.types[call[q].type] # NULL
  /\ pc[q] = "season" =>
       \E a \in Nat : draft[q].amount = a * Units(call[q]) * 100 /\ OneOfSeason(q, a)
  /\ pc[q] = "rule" =>
       /\ call[q].hourly
       /\ \E a \in Nat, s \in Nat :
            draft[q].amount = Units(call[q]) * a * s * 10 /\ OneOfRule(q, a, s)

(* The quote of one request.                                               *)
GoodQuote(q) ==
  quote[q] # NULL =>
    LET stay == call[q].out - call[q].in IN
    /\ quote[q].hours * 60 >= stay /\ (quote[q].hours - 1) * 60 < stay
    /\ Few(q) => \E p \in moments[q] : quote[q].cents * 100 - p \in -50..50

QuoteInv ==
  \A q \in Request :
    /\ IsFiniteSet(writes[q]) /\ \A p \in writes[q] : Over(p)
    /\ quote[q] # NULL => Over(q)
    /\ GoodQuote(q)
    /\ Computing(q)

LEMMA FewIsOne ==
  ASSUME NEW S, IsFiniteSet(S), Cardinality(S) <= 1, NEW a \in S, NEW b \in S
  PROVE  a = b
PROOF
  <1>1. Cardinality(S) \in Nat
    BY FS_CardinalityType
  <1>2. S # {}
    OBVIOUS
  <1>3. Cardinality(S) = 1
    BY <1>1, <1>2, FS_EmptySet
  <1> QED
    BY <1>3, FS_Singleton

(* A factor depends on its own table only.                                 *)
LEMMA FactorsOfTables ==
  ASSUME NEW d, NEW e, NEW c, NEW firm
  PROVE  /\ d.seasons = e.seasons => SeasonOf(d, c, firm) = SeasonOf(e, c, firm)
         /\ d.rules = e.rules => RuleOf(d, c, firm) = RuleOf(e, c, firm)
PROOF
  <1>1. ASSUME d.seasons = e.seasons PROVE SeasonOf(d, c, firm) = SeasonOf(e, c, firm)
    <2> DEFINE In(x) == {i \in Id : /\ x.seasons[i] # NULL
                                    /\ For(x.seasons[i], c, firm)
                                    /\ x.seasons[i].from <= c.in /\ c.out <= x.seasons[i].to}
    <2>1. In(d) = In(e)
      BY <1>1
    <2>2. SeasonOf(d, c, firm) = Factor(d.seasons, In(d))
          /\ SeasonOf(e, c, firm) = Factor(e.seasons, In(e))
      BY DEF SeasonOf
    <2> HIDE DEF In
    <2> QED
      BY <1>1, <2>1, <2>2
  <1>2. ASSUME d.rules = e.rules PROVE RuleOf(d, c, firm) = RuleOf(e, c, firm)
    <2> DEFINE In(x) == {i \in Id : /\ x.rules[i] # NULL
                                    /\ For(x.rules[i], c, firm)
                                    /\ c.in % 1440 \in x.rules[i].from .. x.rules[i].to
                                    /\ ((c.in \div 1440) % 7) + 1 \in x.rules[i].days}
    <2>1. In(d) = In(e)
      BY <1>2
    <2>2. RuleOf(d, c, firm) = Factor(d.rules, In(d))
          /\ RuleOf(e, c, firm) = Factor(e.rules, In(e))
      BY DEF RuleOf
    <2> HIDE DEF In
    <2> QED
      BY <1>2, <2>1, <2>2
  <1> QED
    BY <1>1, <1>2

(* A move changes at most one of the tables that prices come from, and     *)
(* only in the last statement of its handler.                              *)
LEMMA MoveRates ==
  ASSUME StateInv, StateInv', NEW r \in Request, Move(r)
  PROVE  /\ \/ db'.types = db.types /\ db'.seasons = db.seasons
            \/ db'.types = db.types /\ db'.rules = db.rules
            \/ db'.seasons = db.seasons /\ db'.rules = db.rules
         /\ \A i \in Id : db.types[i] # NULL => db'.types[i] # NULL
         /\ \A p \in Request \ {r} :
              db'.seasons[p] = db.seasons[p] /\ db'.rules[p] = db.rules[p]
         /\ db'.types # db.types => ~Over(r) /\ Over(r)'
         /\ db'.seasons # db.seasons => ~Over(r) /\ Over(r)'
         /\ db'.rules # db.rules => ~Over(r) /\ Over(r)'
         /\ db'.seasons # db.seasons => db'.seasons[r] # db.seasons[r]
         /\ db'.rules # db.rules => db'.rules[r] # db.rules[r]
PROOF
  <1>1. TypesMove(r) /\ SeasonsMove(r) /\ RulesMove(r)
    BY MoveTables DEF TablesMove
  <1>2. \A t \in {"types", "seasons", "rules"} :
          /\ db[t] \in [Id -> RowType[t] \cup {NULL}]
          /\ db'[t] \in [Id -> RowType[t] \cup {NULL}]
    BY DEF StateInv, TablesOK, Table, RowsOf
  <1>3. db'.types # db.types => pc[r] \in {"type", "setType"}
    BY <1>1, <1>2 DEF TypesMove
  <1>4. db'.seasons # db.seasons => pc[r] = "addSeason" /\ db'.seasons[r] # db.seasons[r]
    BY <1>1, <1>2 DEF SeasonsMove
  <1>5. db'.rules # db.rules => pc[r] = "addRule" /\ db'.rules[r] # db.rules[r]
    BY <1>1, <1>2 DEF RulesMove
  <1>6. ASSUME pc[r] \in {"type", "setType", "addSeason", "addRule"}, db' # db
        PROVE  ~Over(r) /\ Over(r)'
    <2>1. Execute(r)
      BY <1>6, UploadMoves DEF Move, Arrive, Fail, Throw
    <2> QED
      BY <1>6, <2>1, ExecuteAt DEF Over
  <1>7. \A i \in Id : db.types[i] # NULL => db'.types[i] # NULL
    BY <1>1 DEF TypesMove
  <1>8. \A p \in Request \ {r} :
          db'.seasons[p] = db.seasons[p] /\ db'.rules[p] = db.rules[p]
    BY <1>1 DEF SeasonsMove, RulesMove, Id
  <1> QED
    BY <1>3, <1>4, <1>5, <1>6, <1>7, <1>8

(* The tables that prices come from stay as they are.                      *)
SameRates == db'.types = db.types /\ db'.seasons = db.seasons /\ db'.rules = db.rules

(* What is noted of a move of request r while q computes a quote.          *)
LEMMA Noted ==
  ASSUME BackOfficeInv, StateInv', QuoteInv, NEW r \in Request, Move(r), Watch,
         NEW q \in Request
  PROVE  /\ moments[q] \subseteq moments'[q]
         /\ Quoting(q) \/ Quoting(q)' => (PriceNow(q))' \in moments'[q]
         /\ ~Quoting(q) /\ ~Quoting(q)' => moments'[q] = moments[q]
         /\ ~Quoting(q) \/ SameRates => writes'[q] = writes[q]
         /\ IsFiniteSet(writes'[q]) /\ \A p \in writes'[q] : Over(p)'
         /\ Few(q)' => Few(q)
         /\ Quoting(q) /\ ~SameRates /\ Few(q)' => writes[q] = {} /\ writes'[q] # {}
PROOF
  <1> DEFINE new == {p \in Request : \/ db'.types # db.types /\ pc'[p] # pc[p]
                                     \/ db.seasons[p] # db'.seasons[p]
                                     \/ db.rules[p] # db'.rules[p]}
  <1>0. StateInv
    BY DEF BackOfficeInv
  <1>1. /\ moments[q] \subseteq moments'[q]
        /\ Quoting(q) \/ Quoting(q)' => (PriceNow(q))' \in moments'[q]
        /\ ~Quoting(q) /\ ~Quoting(q)' => moments'[q] = moments[q]
    BY DEF Watch, PriceNow
  <1>2. writes'[q] = IF Quoting(q) THEN writes[q] \cup new ELSE writes[q]
    BY DEF Watch
  <1>3. new \subseteq {r} /\ (SameRates => new = {})
    BY <1>0, OneMoves, MoveRates DEF SameRates
  <1>4. ~SameRates => r \in new /\ ~Over(r) /\ Over(r)'
    <2>1. ASSUME ~SameRates PROVE r \in new
      <3>1. CASE db'.types # db.types
        <4>1. ~Over(r) /\ Over(r)'
          BY <1>0, <3>1, MoveRates
        <4>2. pc'[r] # pc[r]
          BY <4>1 DEF Over
        <4> QED
          BY <3>1, <4>2
      <3>2. CASE db'.seasons # db.seasons \/ db'.rules # db.rules
        BY <1>0, <3>2, MoveRates
      <3> QED
        BY <2>1, <3>1, <3>2 DEF SameRates
    <2>2. ~SameRates => ~Over(r) /\ Over(r)'
      BY <1>0, MoveRates DEF SameRates
    <2> QED
      BY <2>1, <2>2
  <1> HIDE DEF new
  <1>5. IsFiniteSet(writes[q]) /\ \A p \in writes[q] : Over(p)
    BY DEF QuoteInv
  <1>6. IsFiniteSet(writes'[q])
    <2>1. CASE writes'[q] = writes[q]
      BY <1>5, <2>1
    <2>2. CASE writes'[q] = writes[q] \cup {r}
      BY <1>5, <2>2, FS_AddElement
    <2> QED
      BY <1>2, <1>3, <2>1, <2>2
  <1>7. ASSUME NEW p \in writes'[q] PROVE Over(p)'
    <2>1. p \in Request
      <3>1. writes[q] \subseteq Request
        BY DEF BackOfficeInv, TypeOK
      <3> QED
        BY <1>2, <1>3, <1>7, <3>1
    <2>2. CASE p \in writes[q]
      <3>1. Over(p)
        BY <1>5, <2>2
      <3>2. pc'[p] = pc[p]
        BY <1>0, <2>1, <3>1, OneMoves, OverMoves
      <3> QED
        BY <3>1, <3>2 DEF Over
    <2>3. CASE p \in new
      BY <1>3, <1>4, <2>3
    <2> QED
      BY <1>2, <1>7, <2>2, <2>3
  <1>8. Few(q)' => Few(q)
    <2>1. writes[q] \in SUBSET (writes'[q])
      BY <1>2
    <2>2. Cardinality(writes[q]) <= Cardinality(writes'[q])
      BY <1>6, <2>1, FS_Subset
    <2>3. Cardinality(writes[q]) \in Nat /\ Cardinality(writes'[q]) \in Nat
      BY <1>5, <1>6, FS_CardinalityType
    <2> QED
      BY <2>2, <2>3 DEF Few
  <1>9. ASSUME Quoting(q), ~SameRates, Few(q)'
        PROVE  writes[q] = {} /\ writes'[q] # {}
    <2>1. r \in writes'[q] /\ r \notin writes[q]
      BY <1>2, <1>4, <1>5, <1>9
    <2>2. ASSUME NEW p \in writes[q] PROVE FALSE
      <3>1. p \in writes'[q] /\ Cardinality(writes'[q]) <= 1
        BY <1>2, <1>9, <2>2 DEF Few
      <3>2. p = r
        BY <1>6, <2>1, <3>1, FewIsOne
      <3> QED
        BY <2>1, <2>2, <3>2
    <2> QED
      BY <2>1, <2>2
  <1>10. ~Quoting(q) \/ SameRates => writes'[q] = writes[q]
    BY <1>2, <1>3
  <1> QED
    BY <1>1, <1>6, <1>7, <1>8, <1>9, <1>10

(* The factors of a quote that another request does not compute.           *)
LEMMA RatesNow ==
  ASSUME StateInv, NEW q \in Request, Quoting(q)
  PROVE  /\ call[q].op = "calculatePrice" /\ call[q] \in Call /\ call[q].type \in Id
         /\ Units(call[q]) \in Int /\ SeasonNow(q) \in Nat /\ RuleNow(q) \in Nat
         /\ db.types[call[q].type] # NULL =>
              /\ RateNow(q) \in Nat
              /\ PriceNow(q) = Units(call[q]) * RateNow(q) * SeasonNow(q) * RuleNow(q)
PROOF
  <1>1. call[q].op = "calculatePrice" /\ call[q] \in Call
    BY CallAt DEF Quoting
  <1>2. GoodTables(db)
    BY TablesAreGood
  <1> QED
    BY <1>1, <1>2, PriceIsInt DEF SeasonNow, RuleNow, RateNow, PriceNow

(* Another request moves while q computes a quote.                         *)
LEMMA OthersKeepQuote ==
  ASSUME BackOfficeInv, StateInv', QuoteInv, NEW r \in Request, Move(r), Watch,
         NEW q \in Request, q # r
  PROVE  Computing(q)' /\ GoodQuote(q)' /\ (quote'[q] # NULL => Over(q)')
PROOF
  <1>0. StateInv /\ Computing(q) /\ GoodQuote(q) /\ (quote[q] # NULL => Over(q))
    BY DEF BackOfficeInv, QuoteInv
  <1>1. /\ pc'[q] = pc[q] /\ call'[q] = call[q] /\ draft'[q] = draft[q]
        /\ quote'[q] = quote[q]
    BY <1>0, OneMoves
  <1>2. /\ moments[q] \subseteq moments'[q] /\ (Few(q)' => Few(q))
        /\ Quoting(q) => PriceNow(q)' \in moments'[q]
        /\ ~Quoting(q) => moments'[q] = moments[q] /\ writes'[q] = writes[q]
        /\ SameRates => writes'[q] = writes[q]
        /\ Quoting(q) /\ ~SameRates /\ Few(q)' => writes[q] = {} /\ writes'[q] # {}
    BY <1>1, Noted DEF Quoting
  <1>3. CASE ~Quoting(q)
    BY <1>0, <1>1, <1>2, <1>3 DEF Computing, GoodQuote, Few, Over, Quoting
  <1>4. CASE Quoting(q)
    <2>1. quote[q] = NULL
      BY <1>0, <1>4 DEF Quoting, Over
    <2>2. /\ call[q].type \in Id /\ Units(call[q]) \in Int /\ SeasonNow(q) \in Nat
          /\ RuleNow(q) \in Nat
          /\ db.types[call[q].type] # NULL =>
               /\ RateNow(q) \in Nat
               /\ PriceNow(q) = Units(call[q]) * RateNow(q) * SeasonNow(q) * RuleNow(q)
      BY <1>0, <1>4, RatesNow
    <2>3. /\ db'.types = db.types => RateNow(q)' = RateNow(q)
          /\ db'.seasons = db.seasons => SeasonNow(q)' = SeasonNow(q)
          /\ db'.rules = db.rules => RuleNow(q)' = RuleNow(q)
      <3>1. db'.types = db.types => RateNow(q)' = RateNow(q)
        BY <1>1 DEF RateNow
      <3>2. ASSUME db'.seasons = db.seasons PROVE SeasonNow(q)' = SeasonNow(q)
        <4>1. SeasonOf(db', call[q], draft[q].firm) = SeasonOf(db, call[q], draft[q].firm)
          BY <3>2, FactorsOfTables
        <4> QED
          BY <1>1, <4>1 DEF SeasonNow
      <3>3. ASSUME db'.rules = db.rules PROVE RuleNow(q)' = RuleNow(q)
        <4>1. RuleOf(db', call[q], draft[q].firm) = RuleOf(db, call[q], draft[q].firm)
          BY <3>3, FactorsOfTables
        <4> QED
          BY <1>1, <4>1 DEF RuleNow
      <3> QED
        BY <3>1, <3>2, <3>3
    <2>4. /\ \/ db'.types = db.types /\ db'.seasons = db.seasons
             \/ db'.types = db.types /\ db'.rules = db.rules
             \/ db'.seasons = db.seasons /\ db'.rules = db.rules
          /\ db.types[call[q].type] # NULL => db'.types[call[q].type] # NULL
      BY <1>0, <2>2, MoveRates
    <2>5. ASSUME pc[q] = "season"
          PROVE  \E a \in Nat : /\ draft[q].amount = a * Units(call[q]) * 100
                                /\ OneOfSeason(q, a)'
      <3>1. PICK a \in Nat : /\ draft[q].amount = a * Units(call[q]) * 100
                             /\ OneOfSeason(q, a)
        BY <1>0, <2>5 DEF Computing
      <3>2. CASE SameRates
        BY <1>1, <1>2, <2>3, <3>1, <3>2 DEF OneOfSeason, SameRates, Few
      <3>3. CASE ~SameRates /\ Few(q)'
        <4>1. writes[q] = {} /\ writes'[q] # {} /\ Few(q)
          BY <1>2, <1>4, <3>3
        <4>2. a = RateNow(q)
          BY <3>1, <4>1 DEF OneOfSeason
        <4>3. Units(call[q]) * a * SeasonNow(q) * RuleNow(q) \in moments'[q]
          BY <1>0, <1>2, <1>4, <2>2, <2>5, <4>2 DEF Computing
        <4>4. ASSUME db'.types = db.types PROVE OneOfSeason(q, a)'
          BY <2>3, <4>2, <4>4 DEF OneOfSeason
        <4>5. ASSUME db'.seasons = db.seasons /\ db'.rules = db.rules
              PROVE  OneOfSeason(q, a)'
          BY <1>1, <2>3, <4>1, <4>3, <4>5 DEF OneOfSeason
        <4> QED
          BY <2>4, <3>1, <4>4, <4>5
      <3>4. CASE ~Few(q)'
        BY <3>1, <3>4 DEF OneOfSeason
      <3> QED
        BY <3>1, <3>2, <3>3, <3>4
    <2>6. ASSUME pc[q] = "rule"
          PROVE  \E a \in Nat, s \in Nat :
                   /\ draft[q].amount = Units(call[q]) * a * s * 10
                   /\ OneOfRule(q, a, s)'
      <3>1. PICK a \in Nat, s \in Nat : /\ draft[q].amount = Units(call[q]) * a * s * 10
                                        /\ OneOfRule(q, a, s)
        BY <1>0, <2>6 DEF Computing
      <3>2. CASE SameRates
        BY <1>1, <1>2, <2>3, <3>1, <3>2 DEF OneOfRule, SameRates, Few
      <3>3. CASE ~SameRates /\ Few(q)'
        <4>1. writes[q] = {} /\ writes'[q] # {} /\ Few(q)
          BY <1>2, <1>4, <3>3
        <4>2. a = RateNow(q) /\ s = SeasonNow(q)
          BY <3>1, <4>1 DEF OneOfRule
        <4>3. Units(call[q]) * a * s * RuleNow(q) \in moments'[q]
          BY <1>0, <1>2, <1>4, <2>2, <2>6, <4>2 DEF Computing
        <4>4. ASSUME db'.types = db.types /\ db'.seasons = db.seasons PROVE OneOfRule(q, a, s)'
          BY <2>3, <4>2, <4>4 DEF OneOfRule
        <4>5. ASSUME db'.rules = db.rules
              PROVE  OneOfRule(q, a, s)'
          BY <1>1, <2>3, <4>1, <4>3, <4>5 DEF OneOfRule
        <4> QED
          BY <2>4, <3>1, <4>4, <4>5
      <3>4. CASE ~Few(q)'
        BY <3>1, <3>4 DEF OneOfRule
      <3> QED
        BY <3>1, <3>2, <3>3, <3>4
    <2>7. Computing(q)'
      BY <1>0, <1>1, <1>2, <1>4, <2>4, <2>5, <2>6 DEF Computing
    <2> QED
      BY <1>1, <2>1, <2>7 DEF GoodQuote
  <1> QED
    BY <1>3, <1>4

(* Math.round is never off by more than half a cent.                       *)
LEMMA RoundedIsClose ==
  ASSUME NEW amount \in Int, NEW cents \in Rounded(amount)
  PROVE  cents \in Int /\ cents * 100 - amount \in -50 .. 50
PROOF
  BY DEF Rounded

(* The moves of the request itself while it computes its quote.            *)
LEMMA OwnMoves ==
  ASSUME StateInv, NEW q \in Request, Move(q)
  PROVE  /\ ~Quoting(q) => quote'[q] = quote[q] /\ pc'[q] \notin {"season", "rule"}
         /\ Quoting(q) =>
              \/ UNCHANGED <<db, pc, call, draft, quote>>
              \/ UNCHANGED <<db, draft, quote>> /\ call'[q] = call[q] /\ pc'[q] = "failed"
              \/ /\ UNCHANGED call
                 /\ \/ pc[q] = "rates" /\ ReadRates(q)
                    \/ pc[q] = "season" /\ ReadSeason(q)
                    \/ pc[q] = "rule" /\ ReadRule(q)
PROOF
  <1>1. pc \in [Request -> Statement]
    BY DEF StateInv
  <1>2. ASSUME NEW s, Goto(q, s) PROVE pc'[q] = s
    BY <1>1, <1>2 DEF Goto
  <1>3. CASE Arrive(q)
    <2>1. PICK c : Goto(q, First(c)) /\ quote' = quote /\ pc[q] = "idle" /\ c \in Call
      <3>1. PICK c \in UNION Mix : Goto(q, First(c))
        BY <1>3 DEF Arrive
      <3>2. c \in Call
        BY BackOfficeAssumption DEF BackOfficeAssumption
      <3> QED
        BY <1>3, <3>1, <3>2 DEF Arrive
    <2>2. First(c) \notin {"season", "rule"}
      <3>1. c.op \in DOMAIN Path
        BY <2>1, CallFields
      <3> QED
        BY <3>1 DEF First, FirstStep, Path
    <2> QED
      BY <1>2, <2>1, <2>2 DEF Quoting
  <1>4. CASE Execute(q) /\ UNCHANGED call
    <2>1. ASSUME ~Quoting(q) PROVE pc'[q] \notin {"season", "rule"} /\ quote' = quote
      <3>1. CASE pc[q] \in {"upload", "existing", "defaults"}
        <4>1. Uploaded(q) \/ FindGuest(q) \/ FillDefaults(q)
          BY <1>4, <3>1, ExecuteAt
        <4>2. pc'[q] \notin {"season", "rule"}
          BY <1>4, <3>1, Onward
        <4> QED
          BY <4>1, <4>2 DEF Uploaded, FindGuest, FillDefaults, work
      <3>2. CASE pc[q] \notin {"upload", "existing", "defaults"}
        BY <1>4, <2>1, <3>2, ExecuteAt DEF Quoting
      <3> QED
        BY <3>1, <3>2
    <2>2. Quoting(q) => \/ pc[q] = "rates" /\ ReadRates(q)
                        \/ pc[q] = "season" /\ ReadSeason(q)
                        \/ pc[q] = "rule" /\ ReadRule(q)
      <3>1. /\ pc[q] = "rates" => ReadRates(q)
            /\ pc[q] = "season" => ReadSeason(q)
        BY <1>4, ExecuteAt
      <3>2. pc[q] = "rule" => ReadRule(q)
        BY <1>4, ExecuteAt
      <3> QED
        BY <3>1, <3>2 DEF Quoting
    <2> QED
      BY <1>4, <2>1, <2>2
  <1>5. CASE Fail(q) /\ UNCHANGED call
    <2>1. Goto(q, "failed") /\ UNCHANGED <<db, draft, quote, call>>
      BY <1>5 DEF Fail, Throw, work
    <2> QED
      BY <1>2, <2>1
  <1>6. ASSUME NEW f \in File, Upload(q, f) \/ UploadFails(q, f), UNCHANGED call
        PROVE  /\ UNCHANGED <<db, call, draft, quote>>
               /\ pc' = pc \/ (pc[q] = "upload" /\ pc'[q] = "failed")
    BY <1>6, UploadMoves
  <1>7. ASSUME NEW f \in File, Upload(q, f) \/ UploadFails(q, f), UNCHANGED call
        PROVE  /\ ~Quoting(q) => quote'[q] = quote[q] /\ pc'[q] \notin {"season", "rule"}
               /\ Quoting(q) => UNCHANGED <<db, pc, call, draft, quote>>
    BY <1>6, <1>7 DEF Quoting
  <1> QED
    BY <1>3, <1>4, <1>5, <1>7 DEF Move

(* One tenth of an amount that is a multiple of ten.                       *)
LEMMA Tenth ==
  ASSUME NEW x \in Int
  PROVE  (x * 10) \div 10 = x
PROOF
  OBVIOUS

(* The amounts that are not rounded yet are products of the factors read.  *)
LEMMA Products ==
  ASSUME NEW u \in Int, NEW a \in Nat, NEW s \in Nat, NEW k \in Nat
  PROVE  /\ ((a * u * 100) * s) \div 10 = u * a * s * 10
         /\ ((u * a * s * 10) * k) \div 10 = u * a * s * k
         /\ u * a * s * k \in Int /\ u * a * s * 10 \in Int
PROOF
  <1>1. u * a * s \in Int
    <2>1. u * a \in Int
      OBVIOUS
    <2> QED
      BY <2>1
  <1>2. u * a * s * k \in Int
    BY <1>1
  <1>3. (a * u * 100) * s = (u * a * s * 10) * 10
    OBVIOUS
  <1>4. (u * a * s * 10) * k = (u * a * s * k) * 10
    OBVIOUS
  <1>5. u * a * s * 10 \in Int
    BY <1>1
  <1> QED
    BY <1>2, <1>3, <1>4, <1>5, Tenth

(* An answer gives the hours of the stay and a rounded amount.             *)
LEMMA AnswerQuotes ==
  ASSUME StateInv, NEW q \in Request, pc[q] # "idle", call[q].op = "calculatePrice",
         UNCHANGED call, NEW amount \in Int, Answer(q, amount)
  PROVE  /\ pc'[q] \in {"ok", "failed"} /\ UNCHANGED db
         /\ quote'[q] # NULL =>
              /\ quote'[q].hours * 60 >= call[q].out - call[q].in
              /\ (quote'[q].hours - 1) * 60 < call[q].out - call[q].in
              /\ quote'[q].cents * 100 - amount \in -50 .. 50
PROOF
  <1>1. PICK cents \in Rounded(amount) :
          quote' = [quote EXCEPT ![q] = [hours |-> Hours(call[q]), cents |-> cents]]
    BY DEF Answer
  <1>2. quote'[q] = [hours |-> Hours(call[q]), cents |-> cents]
    BY <1>1 DEF StateInv
  <1>3. /\ call[q].in \in Nat /\ call[q].out \in Nat /\ call[q].hourly \in BOOLEAN
    BY CallAt, CallFields
  <1>4. /\ Hours(call[q]) * 60 >= call[q].out - call[q].in
        /\ (Hours(call[q]) - 1) * 60 < call[q].out - call[q].in
    BY <1>3, UnitsCover
  <1>5. pc'[q] \in {"ok", "failed"} /\ UNCHANGED db
    BY DEF Answer, Reply, Goto, StateInv
  <1>6. cents * 100 - amount \in -50 .. 50
    BY RoundedIsClose
  <1> QED
    BY <1>2, <1>4, <1>5, <1>6

(* It is good if the amount is a price that there was.                     *)
LEMMA AnswerIsGood ==
  ASSUME StateInv, NEW q \in Request, pc[q] # "idle", call[q].op = "calculatePrice",
         UNCHANGED call, NEW amount \in Int, Answer(q, amount),
         Few(q)' => amount \in moments'[q]
  PROVE  Computing(q)' /\ GoodQuote(q)' /\ (quote'[q] # NULL => Over(q)')
PROOF
  <1>1. pc'[q] \in {"ok", "failed"}
    BY AnswerQuotes
  <1>2. quote'[q] # NULL =>
          /\ quote'[q].hours * 60 >= call[q].out - call[q].in
          /\ (quote'[q].hours - 1) * 60 < call[q].out - call[q].in
          /\ quote'[q].cents * 100 - amount \in -50 .. 50
    BY AnswerQuotes
  <1> QED
    BY <1>1, <1>2 DEF Computing, GoodQuote, Over, Quoting

(* The request itself moves.                                               *)
LEMMA OwnKeepsQuote ==
  ASSUME BackOfficeInv, StateInv', QuoteInv, NEW q \in Request, Move(q), Watch
  PROVE  Computing(q)' /\ GoodQuote(q)' /\ (quote'[q] # NULL => Over(q)')
PROOF
  <1>0. StateInv /\ Computing(q) /\ GoodQuote(q) /\ (quote[q] # NULL => Over(q))
    BY DEF BackOfficeInv, QuoteInv
  <1>1. /\ moments[q] \subseteq moments'[q] /\ (Few(q)' => Few(q))
        /\ Quoting(q) \/ Quoting(q)' => PriceNow(q)' \in moments'[q]
        /\ ~Quoting(q) /\ ~Quoting(q)' => moments'[q] = moments[q]
        /\ ~Quoting(q) \/ SameRates => writes'[q] = writes[q]
    BY Noted
  <1>2. CASE ~Quoting(q)
    <2>1. quote'[q] = quote[q] /\ pc'[q] \notin {"season", "rule"}
      BY <1>0, <1>2, OwnMoves
    <2>2. Computing(q)'
      BY <1>1, <2>1 DEF Computing
    <2>3. ASSUME quote[q] # NULL PROVE GoodQuote(q)' /\ Over(q)'
      <3>1. Over(q) /\ UNCHANGED <<db, pc, call, draft, quote>>
        BY <1>0, <2>3, OverMoves
      <3>2. Over(q)' /\ ~Quoting(q)'
        BY <1>2, <3>1 DEF Over, Quoting
      <3> QED
        BY <1>0, <1>1, <1>2, <3>1, <3>2 DEF GoodQuote, Few
    <2>4. quote[q] = NULL => GoodQuote(q)'
      BY <2>1 DEF GoodQuote
    <2> QED
      BY <2>1, <2>2, <2>3, <2>4
  <1>3. CASE Quoting(q)
    <2>0. quote[q] = NULL
      BY <1>0, <1>3 DEF Quoting, Over
    <2>1. /\ pc[q] # "idle" /\ call[q].op = "calculatePrice" /\ call[q].type \in Id
          /\ Units(call[q]) \in Int /\ SeasonNow(q) \in Nat /\ RuleNow(q) \in Nat
          /\ db.types[call[q].type] # NULL =>
               /\ RateNow(q) \in Nat
               /\ PriceNow(q) = Units(call[q]) * RateNow(q) * SeasonNow(q) * RuleNow(q)
      BY <1>0, <1>3, RatesNow DEF Quoting
    <2>2. CASE UNCHANGED <<db, pc, call, draft, quote>>
      <3>1. SameRates
        BY <2>2 DEF SameRates
      <3>2. /\ PriceNow(q)' = PriceNow(q) /\ RateNow(q)' = RateNow(q)
            /\ SeasonNow(q)' = SeasonNow(q) /\ RuleNow(q)' = RuleNow(q)
        BY <2>2 DEF PriceNow, RateNow, SeasonNow, RuleNow
      <3>3. /\ \A a \in Nat : OneOfSeason(q, a) => OneOfSeason(q, a)'
            /\ \A a, s \in Nat : OneOfRule(q, a, s) => OneOfRule(q, a, s)'
        BY <1>1, <2>2, <3>1, <3>2 DEF OneOfSeason, OneOfRule, Few
      <3>4. Computing(q)'
        BY <1>0, <1>1, <1>3, <2>2, <3>3 DEF Computing
      <3> QED
        BY <2>0, <2>2, <3>4 DEF GoodQuote
    <2>3. CASE UNCHANGED <<db, draft, quote>> /\ call'[q] = call[q] /\ pc'[q] = "failed"
      BY <2>0, <2>3 DEF Computing, GoodQuote, Quoting
    <2>4. CASE pc[q] = "rates" /\ ReadRates(q) /\ UNCHANGED call
      <3>1. CASE UNCHANGED <<db, draft, quote>> /\ pc'[q] = "failed"
        BY <2>0, <2>4, <3>1 DEF Computing, GoodQuote, Quoting
      <3>2. CASE /\ db.types[call[q].type] # NULL /\ UNCHANGED <<db, quote>>
                 /\ pc' = [pc EXCEPT ![q] = "season"]
                 /\ draft' = [draft EXCEPT ![q].amount = RateNow(q) * Units(call[q]) * 100]
        <4>1. pc'[q] = "season" /\ draft'[q].amount = RateNow(q) * Units(call[q]) * 100
          BY <1>0, <2>1, <3>2, CallAt DEF StateInv, Draft
        <4>2. RateNow(q)' = RateNow(q)
          BY <2>4, <3>2 DEF RateNow
        <4>3. OneOfSeason(q, RateNow(q))'
          BY <4>2 DEF OneOfSeason
        <4>4. Computing(q)'
          BY <1>1, <1>3, <2>1, <2>4, <3>2, <4>1, <4>2, <4>3 DEF Computing
        <4> QED
          BY <2>0, <3>2, <4>4 DEF GoodQuote
      <3> QED
        BY <1>0, <2>4, <3>1, <3>2 DEF ReadRates, Throw, Goto, RateNow, work, StateInv
    <2>5. CASE pc[q] = "season" /\ ReadSeason(q) /\ UNCHANGED call
      <3>1. PICK a \in Nat : draft[q].amount = a * Units(call[q]) * 100 /\ OneOfSeason(q, a)
        BY <1>0, <2>5 DEF Computing
      <3> DEFINE amount == (draft[q].amount * SeasonNow(q)) \div 10
      <3>2. amount = Units(call[q]) * a * SeasonNow(q) * 10 /\ amount \in Int
        BY <2>1, <3>1, Products
      <3>3. UNCHANGED <<db, call>>
        BY <2>5 DEF ReadSeason, Answer
      <3>4. SameRates /\ writes'[q] = writes[q]
        BY <1>1, <3>3 DEF SameRates
      <3>5. db.types[call[q].type] # NULL /\ PriceNow(q) \in moments[q]
        BY <1>0, <1>3, <2>5 DEF Computing
      <3>6. CASE ~call[q].hourly
        <4>1. Answer(q, amount)
          BY <2>5, <3>6 DEF ReadSeason, SeasonNow
        <4>2. RuleNow(q) = 10
          BY <3>6 DEF RuleNow
        <4>3. Few(q)' => amount \in moments'[q]
          BY <1>1, <2>1, <3>1, <3>2, <3>5, <4>2 DEF OneOfSeason
        <4> HIDE DEF amount
        <4> QED
          BY <1>0, <2>1, <2>5, <3>2, <4>1, <4>3, AnswerIsGood
      <3>7. CASE call[q].hourly
        <4>1. /\ draft' = [draft EXCEPT ![q].amount = amount]
              /\ pc'[q] = "rule" /\ UNCHANGED quote
          BY <1>0, <2>5, <3>7 DEF ReadSeason, SeasonNow, Goto, StateInv
        <4>2. draft'[q].amount = amount /\ draft'[q].firm = draft[q].firm
          BY <1>0, <2>1, <4>1, CallAt DEF StateInv, Draft
        <4>3. RateNow(q)' = RateNow(q) /\ SeasonNow(q)' = SeasonNow(q) /\ RuleNow(q)' = RuleNow(q)
          BY <3>3, <4>2 DEF RateNow, SeasonNow, RuleNow
        <4>4. OneOfRule(q, a, SeasonNow(q))'
          BY <1>1, <3>1, <3>3, <3>4, <4>3 DEF OneOfRule, OneOfSeason
        <4> HIDE DEF amount
        <4>5. Computing(q)'
          BY <1>1, <1>3, <2>1, <3>2, <3>3, <3>5, <3>7, <4>1, <4>2, <4>3, <4>4 DEF Computing
        <4> QED
          BY <2>0, <4>1, <4>5 DEF GoodQuote
      <3> QED
        BY <3>6, <3>7
    <2>6. CASE pc[q] = "rule" /\ ReadRule(q) /\ UNCHANGED call
      <3>1. PICK a \in Nat, s \in Nat :
              draft[q].amount = Units(call[q]) * a * s * 10 /\ OneOfRule(q, a, s)
        BY <1>0, <2>6 DEF Computing
      <3> DEFINE amount == (draft[q].amount * RuleNow(q)) \div 10
      <3>2. amount = Units(call[q]) * a * s * RuleNow(q) /\ amount \in Int
        BY <2>1, <3>1, Products
      <3>3. call[q].hourly
        BY <1>0, <2>6 DEF Computing
      <3>4. Answer(q, amount)
        BY <2>6, <3>3 DEF ReadRule, RuleNow
      <3>5. db.types[call[q].type] # NULL /\ PriceNow(q) \in moments[q]
        BY <1>0, <1>3, <2>6 DEF Computing
      <3>6. Few(q)' => amount \in moments'[q]
        BY <1>1, <2>1, <3>1, <3>2, <3>5 DEF OneOfRule
      <3> HIDE DEF amount
      <3> QED
        BY <1>0, <2>1, <2>6, <3>2, <3>4, <3>6, AnswerIsGood
    <2> QED
      BY <1>0, <1>3, <2>2, <2>3, <2>4, <2>5, <2>6, OwnMoves
  <1> QED
    BY <1>2, <1>3
-----------------------------------------------------------------------------
LEMMA InitQuotes == ASSUME Init PROVE QuoteInv
PROOF
  <1>1. \A q \in Request : pc[q] = "idle" /\ quote[q] = NULL /\ writes[q] = {}
    BY DEF Init
  <1> QED
    BY <1>1, FS_EmptySet DEF QuoteInv, GoodQuote, Computing, Quoting

LEMMA MoveKeepsQuotes ==
  ASSUME BackOfficeInv, StateInv', QuoteInv, NEW r \in Request, Move(r), Watch
  PROVE  QuoteInv'
PROOF
  <1> SUFFICES ASSUME NEW q \in Request
               PROVE  /\ IsFiniteSet(writes'[q]) /\ \A p \in writes'[q] : Over(p)'
                      /\ quote'[q] # NULL => Over(q)'
                      /\ GoodQuote(q)' /\ Computing(q)'
    BY DEF QuoteInv
  <1>1. IsFiniteSet(writes'[q]) /\ \A p \in writes'[q] : Over(p)'
    BY Noted
  <1>2. CASE q = r
    BY <1>1, <1>2, OwnKeepsQuote
  <1>3. CASE q # r
    BY <1>1, <1>3, OthersKeepQuote
  <1> QED
    BY <1>2, <1>3

(* PricingService.calculatePrice reads the rates in three statements with  *)
(* nothing locked between them: a quote is still, to the nearest cent, the *)
(* price of the stay at one moment while it was computed, if at most one   *)
(* request changed the rates meanwhile, and its hours cover the stay.      *)
THEOREM QuotesArePricesOfOneMoment == Spec => []QuoteIsThePriceOfOneMoment
PROOF
  <1>1. Init => BackOfficeInv /\ QuoteInv
    BY InitIsTyped, InitQuotes
  <1>2. BackOfficeInv /\ QuoteInv /\ [Next]_vars => BackOfficeInv' /\ QuoteInv'
    <2> SUFFICES ASSUME BackOfficeInv, QuoteInv, [Next]_vars
                 PROVE  BackOfficeInv' /\ QuoteInv'
      OBVIOUS
    <2>1. BackOfficeInv' /\ StateInv'
      BY NextIsTyped DEF BackOfficeInv
    <2>2. CASE UNCHANGED vars
      <3>1. \A q \in Request :
              /\ (Over(q)' <=> Over(q)) /\ (Quoting(q)' <=> Quoting(q))
              /\ PriceNow(q)' = PriceNow(q) /\ RateNow(q)' = RateNow(q)
              /\ SeasonNow(q)' = SeasonNow(q) /\ RuleNow(q)' = RuleNow(q)
        BY <2>2 DEF vars, Over, Quoting, PriceNow, RateNow, SeasonNow, RuleNow
      <3>2. \A q \in Request : (GoodQuote(q)' <=> GoodQuote(q))
                               /\ (Computing(q)' <=> Computing(q))
        BY <2>2, <3>1 DEF vars, GoodQuote, Computing, Few, OneOfSeason, OneOfRule
      <3> QED
        BY <2>1, <2>2, <3>1, <3>2 DEF vars, QuoteInv, Over
    <2>3. ASSUME NEW r \in Request, Move(r), Watch PROVE QuoteInv'
      BY <2>1, <2>3, MoveKeepsQuotes
    <2> QED
      BY <2>1, <2>2, <2>3 DEF Next, Quiescent, Step, Move
  <1>3. QuoteInv => QuoteIsThePriceOfOneMoment
    BY DEF QuoteInv, GoodQuote, Few, QuoteIsThePriceOfOneMoment
  <1> QED
    BY <1>1, <1>2, <1>3, PTL DEF Spec
===============================================================================
