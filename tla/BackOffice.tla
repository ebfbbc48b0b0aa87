------------------------------ MODULE BackOffice ------------------------------
(***************************************************************************)
(* What a hotel sets up and maintains: FirmsService, HotelsService,        *)
(* GuestsService, RoomsService and PricingService, with the uploads that   *)
(* guests and room types come with.                                        *)
(*                                                                         *)
(* None of these handlers opens a transaction: every statement commits, so *)
(* a handler of several statements may stop between them, and nothing is   *)
(* ever locked from one to the next.  One action is one statement, or one  *)
(* object written to the store, with the JavaScript that follows it.       *)
(*                                                                         *)
(* A row is named by the request that inserts it, a room also by its       *)
(* number, since bulkCreateRooms inserts many.  Columns that are treated   *)
(* alike are one column here.  A column holds a number; 0 stands for what  *)
(* JavaScript takes for false: 0, the empty string and false itself.       *)
(* Money is in cents, rate_multiplier in tenths, time in minutes.          *)
(***************************************************************************)
EXTENDS Integers, FiniteSets

CONSTANTS
  Request,   \* the HTTP requests, and the rows they insert
  Seed,      \* the rows there are before any request
  Tenant,    \* the tenants
  Number,    \* room numbers; bounds bulkCreateRooms
  File,      \* the files of one multipart body
  Mix,       \* sets of calls; bounds what is asked for together
  Database,  \* the tables before any request
  Faults,    \* whether a statement, an upload or an answer may be lost
  NULL

Id == Request \cup Seed

(* The columns of each table, by how its service treats them.              *)
Columns ==
  [firms  |-> {"name", "city"}, hotels |-> {"name", "city"},
   guests |-> {"name", "note", "flag"}, rooms |-> {"name", "note", "flag"},
   types  |-> {"name", "hourly", "daily"}]

(* Those that table.sql declares NOT NULL.                                 *)
Required == {"name", "daily"}

(* What a body gives for the columns; NULL for one that it leaves out.     *)
Named(t) == [Columns[t] -> Nat \cup {NULL}]

Refused(cols) == \E c \in DOMAIN cols \cap Required : cols[c] = NULL

(* What the columns of a row hold: a bit is a bit.                         *)
Cols(t) == {cols \in Named(t) : /\ ~Refused(cols)
                                /\ "flag" \in Columns[t] => cols["flag"] \in {0, 1, NULL}}

(* The firm and branch that the caller's token carries.                    *)
Session == [tenant: Tenant, firm: Id \cup {NULL}, branch: Id \cup {NULL}]

(* An object of the store, named by the request that wrote it.             *)
Object == Id \X File

(* The URLs that a body or a column holds; NULL if it is left out.         *)
Urls == (SUBSET Object) \cup {NULL}

(* The rows of each table, and what names them.                            *)
Table ==
  {"firms", "branches", "hotels", "guests", "rooms", "types", "seasons", "rules"}

RowType ==
  LET ref == Id \cup {NULL} IN
  [firms    |-> [tenant: Tenant, created: Nat, cols: Cols("firms")],
   branches |-> [firm: Id],
   hotels   |-> [tenant: Tenant, cols: Cols("hotels")],
   guests   |-> [tenant: Tenant, firm: ref, branch: ref, files: Urls, cols: Cols("guests")],
   rooms    |-> [tenant: Tenant, firm: ref, branch: ref, cols: Cols("rooms")],
   types    |-> [tenant: Tenant, firm: ref, branch: ref, files: Urls, cols: Cols("types")],
   seasons  |-> [tenant: Tenant, firm: ref, branch: ref, type: Id, from: Nat, to: Nat,
                 factor: Nat, created: Nat],
   rules    |-> [tenant: Tenant, firm: ref, branch: ref, type: Id, from: Nat, to: Nat,
                 factor: Nat, days: SUBSET (1..7), created: Nat]]

RowsOf(t) == IF t = "rooms" THEN Id \X Number ELSE Id

(* The tables before any request: well-formed, no row of a request yet,    *)
(* created_at in the order of the rows, and no URL of an object that there *)
(* is not.                                                                 *)
ASSUME DatabaseAssumption ==
  /\ IsFiniteSet(Seed)
  /\ Request \cap Seed = {} /\ Id \cap (Id \X Number) = {}
  /\ NULL \notin Id \cup Nat /\ \A t \in Table : NULL \notin RowType[t]
  /\ Database = [t \in Table |-> Database[t]]
  /\ \A t \in Table :
       /\ Database[t] \in [RowsOf(t) -> RowType[t] \cup {NULL}]
       /\ \A i \in RowsOf(t) :
            Database[t][i] # NULL => i \in Seed \cup (Seed \X Number)
  /\ \A t \in {"firms", "seasons", "rules"}, i \in Id :
       Database[t][i] # NULL =>
         Database[t][i].created <= Cardinality({j \in Id : Database[t][j] # NULL})
  /\ \A t \in {"guests", "types"}, i \in Id :
       Database[t][i] # NULL /\ Database[t][i].files # NULL
         => Database[t][i].files \subseteq Seed \X File

VARIABLES
  db,       \* the tables: db[t][i] is a row, or NULL
  stored,   \* the objects in the store
  pc,       \* the statement a request executes next, or its answer
  call,     \* what a request asks for
  draft,    \* what its handler has computed: [firm, branch, amount]
  sending,  \* the files its handler is uploading
  quote,    \* the price a request was answered with: [hours, cents]
  moments,  \* history variable: the prices there were while it computed one
  writes    \* history variable: the requests that changed the rates meanwhile

vars == <<db, stored, pc, call, draft, sending, quote, moments, writes>>
work == <<draft, sending, quote>>
-----------------------------------------------------------------------------
(* The bodies.  The ValidationPipe sees to the DTOs of hotels, rooms and   *)
(* pricing; the other bodies are read as they come.  `firm` and `branch`   *)
(* are those of the body, NULL if it has none, or 0 where the DTO demands  *)
(* a number; `kept` are the URLs it names, which a multipart body always   *)
(* does, and `files` the files of a multipart body.                        *)
FirmCall == [op: {"createFirm"}, as: Session, set: Named("firms")]
              \cup [op: {"updateFirm"}, as: Session, id: Id, set: Named("firms")]
CreateHotelDto ==
  [op: {"createHotel"}, as: Session, set: [Columns["hotels"] -> Nat]]
UpdateHotelCall == [op: {"updateHotel"}, as: Session, id: Id, set: Named("hotels")]
CreateGuestDto ==
  [op: {"createGuest"}, as: Session, set: Named("guests"), kept: Urls,
   files: SUBSET File]
UpdateGuestCall ==
  [op: {"updateGuest"}, as: Session, id: Id, set: Named("guests"),
   kept: Urls, files: SUBSET File]
CreateRoomTypeDto ==
  [op: {"createType"}, as: Session, firm: Id \cup {NULL}, branch: Id \cup {NULL},
   set: Named("types"), kept: Urls, files: SUBSET File]
UpdateTypeCall ==
  [op: {"updateType"}, as: Session, id: Id, set: Named("types"),
   kept: Urls, files: SUBSET File]
CreateRoomDto ==
  [op: {"createRoom"}, as: Session, firm: Id \cup {NULL}, branch: Id \cup {NULL},
   set: {s \in Named("rooms") : s.name \in Number \cup {NULL}}]
UpdateRoomCall ==
  [op: {"updateRoom"}, as: Session, id: Id \X Number, set: Named("rooms")]
BulkCreateRoomsDto ==
  [op: {"bulkCreateRooms"}, as: Session, firm: Id \cup {NULL},
   branch: Id \cup {NULL}, first: Number, last: Number]
CreateHourlyRuleDto ==
  [op: {"createHourlyRule"}, as: Session, type: Id, from: Nat, to: Nat,
   factor: Nat, days: SUBSET (1..7)]
CreateSeasonalRateDto ==
  [op: {"createSeasonalRate"}, as: Session, type: Id, from: Nat, to: Nat,
   factor: Nat]
CalculatePriceDto ==
  [op: {"calculatePrice"}, as: Session, type: Id, in: Nat, out: Nat,
   hourly: BOOLEAN]

Call ==
  FirmCall \cup CreateHotelDto \cup UpdateHotelCall \cup CreateGuestDto
    \cup UpdateGuestCall \cup CreateRoomTypeDto \cup UpdateTypeCall
    \cup CreateRoomDto \cup UpdateRoomCall \cup BulkCreateRoomsDto
    \cup CreateHourlyRuleDto \cup CreateSeasonalRateDto \cup CalculatePriceDto

(* A token carries a firm of its tenant, as login reads it from the row of *)
(* the user; a body that keeps URLs keeps those of objects there are.      *)
ASSUME BackOfficeAssumption ==
  /\ Number \subseteq Nat
  /\ Faults \in BOOLEAN
  /\ UNION Mix \subseteq Call
  /\ \A c \in UNION Mix : c.as.firm # NULL =>
       /\ Database.firms[c.as.firm] # NULL
       /\ Database.firms[c.as.firm].tenant = c.as.tenant
  /\ \A c \in UNION Mix : "kept" \in DOMAIN c => c.kept = NULL \/ c.kept \subseteq Seed \X File

Init ==
  /\ db = Database
  /\ stored = Seed \X File
  /\ pc = [q \in Request |-> "idle"]
  /\ call = [q \in Request |-> NULL]
  /\ draft = [q \in Request |-> NULL]
  /\ sending = [q \in Request |-> {}]
  /\ quote = [q \in Request |-> NULL]
  /\ moments = [q \in Request |-> {}]
  /\ writes = [q \in Request |-> {}]
-----------------------------------------------------------------------------
Goto(q, step) == pc' = [pc EXCEPT ![q] = step]

Over(q) == pc[q] \in {"ok", "failed"}

(* The last statement is done; the answer may be lost.                     *)
Reply(q) == \/ Goto(q, "ok")
            \/ Faults /\ Goto(q, "failed")

Throw(q) == Goto(q, "failed") /\ UNCHANGED <<db, stored, work>>

Put(t, i, row) == db' = [db EXCEPT ![t][i] = row]

Rows(t) == {i \in Id : db[t][i] # NULL}

(* created_at orders the rows of a table.                                  *)
Newest(t) == Cardinality(Rows(t))

(* The parameters `x || null` and `x ? 1 : 0`.                             *)
OrNull(x) == IF x = 0 THEN NULL ELSE x
OrZeroSlip(x) == IF x \in {0, NULL} THEN 0 ELSE x
OrZero(x) == IF x \in {0, NULL} THEN 0 ELSE 1

Or(x, y) == IF x # NULL THEN x ELSE y

(* The row that an INSERT makes; also an UPDATE of firms, hotels and       *)
(* guests, which sets every column whether the body names it or not.       *)
Written(t, set) ==
  [c \in Columns[t] |->
     CASE c = "flag" -> OrZero(set[c])
       [] c \in {"note", "hourly"} -> OrNull(set[c])
       [] OTHER -> set[c]]

(* Slip: SET x = @x, without the ISNULL.                                   *)
MergedSlip(old, set) ==
  [c \in DOMAIN old |-> IF c = "flag" THEN OrZero(set[c]) ELSE OrNull(set[c])]

(* ISNULL(@x, x) in the UPDATEs of rooms and room types.                   *)
Merged(old, set) ==
  [c \in DOMAIN old |->
     IF c # "flag" THEN Or(OrNull(set[c]), old[c])
     ELSE IF set[c] = NULL THEN old[c] ELSE OrZero(set[c])]

(* An INSERT or UPDATE of a single row, and the answer to its caller.      *)
Save(q, t, i, row) ==
  /\ IF Refused(row.cols) THEN Goto(q, "failed") /\ UNCHANGED db
     ELSE Put(t, i, row) /\ Reply(q)
  /\ UNCHANGED <<stored, work>>

(* No row matches the WHERE: the answer is empty.                          *)
NoRow(q) == Reply(q) /\ UNCHANGED <<db, stored, work>>

(* The tenant's oldest firm and a branch of it: TOP 1 of a LEFT JOIN.      *)
DefaultsSlip(t) ==
  LET mine == {f \in Rows("firms") : db.firms[f].tenant = t} IN
  IF mine = {} THEN {[firm |-> NULL, branch |-> NULL]}
  ELSE [firm: {f \in mine : \A g \in mine :
                 db.firms[f].created <= db.firms[g].created},
        branch: {b \in Rows("branches") : db.branches[b].firm \in mine}]

Defaults(t) ==
  LET mine == {f \in Rows("firms") : db.firms[f].tenant = t}
      Of(f) == {b \in Rows("branches") : db.branches[b].firm = f} IN
  IF mine = {} THEN {[firm |-> NULL, branch |-> NULL]}
  ELSE UNION {[firm: {f}, branch: IF Of(f) = {} THEN {NULL} ELSE Of(f)] :
                f \in {f \in mine : \A g \in mine :
                         db.firms[f].created <= db.firms[g].created}}
-----------------------------------------------------------------------------
(* A firm, and in a second commit its default branch.                      *)
InsertFirm(q) ==
  LET cols == Written("firms", call[q].set) IN
  /\ pc[q] = "firm"
  /\ IF Refused(cols) THEN Throw(q)
     ELSE /\ Put("firms", q, [tenant |-> call[q].as.tenant, cols |-> cols,
                              created |-> Newest("firms")])
          /\ Goto(q, "branch")
          /\ UNCHANGED <<stored, work>>

(* Slip: the branch's INSERT is not awaited, and its error is lost.        *)
InsertBranchSlip(q) ==
  /\ pc[q] = "branch"
  /\ Put("branches", q, [firm |-> q]) \/ UNCHANGED db
  /\ Reply(q)
  /\ UNCHANGED <<stored, work>>

InsertBranch(q) ==
  /\ pc[q] = "branch"
  /\ Put("branches", q, [firm |-> q])
  /\ Reply(q)
  /\ UNCHANGED <<stored, work>>

(* UPDATE ... WHERE id = @id AND tenant_id = @tenantId.                    *)
Overwrite(q, t) ==
  LET i == call[q].id IN
  IF db[t][i] = NULL THEN NoRow(q)
  ELSE IF db[t][i].tenant # call[q].as.tenant THEN NoRow(q)
  ELSE Save(q, t, i, [db[t][i] EXCEPT !.cols = Written(t, call[q].set)])

UpdateFirm(q) == pc[q] = "setFirm" /\ Overwrite(q, "firms")

InsertHotel(q) ==
  /\ pc[q] = "hotel"
  /\ Save(q, "hotels", q, [tenant |-> call[q].as.tenant,
                           cols |-> Written("hotels", call[q].set)])

UpdateHotel(q) == pc[q] = "setHotel" /\ Overwrite(q, "hotels")
-----------------------------------------------------------------------------
(* The files of a multipart body are uploaded at once; the handler goes on *)
(* when all are there, and throws at the first that fails while the others *)
(* go on.                                                                  *)
AfterUpload ==
  [createGuest |-> "existing", updateGuest |-> "setGuest",
   createType |-> "type", updateType |-> "setType"]

(* Slip: the handler does not wait for the uploads.                        *)
WaitSlip(q) == pc[q] = "upload"

Wait(q) == pc[q] = "upload" /\ sending[q] = {}

Upload(q, f) ==
  /\ f \in sending[q]
  /\ sending' = [sending EXCEPT ![q] = @ \ {f}]
  /\ stored' = stored \cup {<<q, f>>}
  /\ UNCHANGED <<db, pc, draft, quote>>

UploadFails(q, f) ==
  /\ Faults
  /\ f \in sending[q]
  /\ sending' = [sending EXCEPT ![q] = @ \ {f}]
  /\ IF pc[q] = "upload" THEN Goto(q, "failed") ELSE UNCHANGED pc
  /\ UNCHANGED <<db, stored, draft, quote>>

Uploaded(q) ==
  /\ Wait(q)
  /\ Goto(q, AfterUpload[call[q].op])
  /\ UNCHANGED <<db, stored, work>>

TotalUrls(q) ==
  IF call[q].kept = NULL THEN NULL ELSE call[q].kept \cup ({q} \X call[q].files)
-----------------------------------------------------------------------------
(* guests.create looks for the guest, and goes on whatever it finds.       *)
Complete(s) == s.firm # NULL /\ s.branch # NULL

FindGuest(q) ==
  /\ pc[q] = "existing"
  /\ draft' = [draft EXCEPT ![q] = [firm |-> call[q].as.firm,
                                    branch |-> call[q].as.branch, amount |-> 0]]
  /\ Goto(q, IF Complete(call[q].as) THEN "guest" ELSE "defaults")
  /\ UNCHANGED <<db, stored, sending, quote>>

AfterDefaults ==
  [createGuest |-> "guest", createHourlyRule |-> "addRule",
   createSeasonalRate |-> "addSeason", calculatePrice |-> "rates"]

(* What the session lacks, firm or branch, is filled from the defaults.    *)
FillDefaults(q) ==
  /\ pc[q] = "defaults"
  /\ \E d \in Defaults(call[q].as.tenant) :
       draft' = [draft EXCEPT ![q] = [firm |-> Or(call[q].as.firm, d.firm),
                                      branch |-> Or(call[q].as.branch, d.branch),
                                      amount |-> 0]]
  /\ Goto(q, AfterDefaults[call[q].op])
  /\ UNCHANGED <<db, stored, sending, quote>>

InsertGuest(q) ==
  /\ pc[q] = "guest"
  /\ Save(q, "guests", q,
          [tenant |-> call[q].as.tenant, firm |-> draft[q].firm,
           branch |-> draft[q].branch, files |-> TotalUrls(q),
           cols |-> Written("guests", call[q].set)])

Rewritten(row, cols, files) == [row EXCEPT !.cols = cols, !.files = files]

(* The controller puts the URLs into id_proof_url; the UPDATE takes        *)
(* id_document_url, which is then undefined.                               *)
UpdateGuest(q) ==
  LET i == call[q].id IN
  /\ pc[q] = "setGuest"
  /\ IF db.guests[i] = NULL THEN NoRow(q)
     ELSE IF db.guests[i].tenant # call[q].as.tenant THEN NoRow(q)
     ELSE Save(q, "guests", i,
               Rewritten(db.guests[i], Written("guests", call[q].set), NULL))
-----------------------------------------------------------------------------
InsertType(q) ==
  /\ pc[q] = "type"
  /\ Save(q, "types", q,
          [tenant |-> call[q].as.tenant, firm |-> Or(call[q].firm, call[q].as.firm),
           branch |-> Or(call[q].branch, call[q].as.branch), files |-> TotalUrls(q),
           cols |-> Written("types", call[q].set)])

UpdateType(q) ==
  LET i   == call[q].id
      old == db.types[i] IN
  /\ pc[q] = "setType"
  /\ IF old = NULL THEN NoRow(q)
     ELSE Save(q, "types", i, Rewritten(old, Merged(old.cols, call[q].set),
                                        Or(TotalUrls(q), old.files)))

RoomRow(q, cols) ==
  [tenant |-> call[q].as.tenant, firm |-> Or(call[q].firm, call[q].as.firm),
   branch |-> Or(call[q].branch, call[q].as.branch), cols |-> cols]

(* A body without a room number does not pass the ValidationPipe.          *)
InsertRoom(q) ==
  LET cols == Written("rooms", call[q].set) IN
  /\ pc[q] = "room"
  /\ IF Refused(cols) THEN Throw(q)
     ELSE Save(q, "rooms", <<q, cols.name>>, RoomRow(q, cols))

UpdateRoom(q) ==
  LET i == call[q].id IN
  /\ pc[q] = "setRoom"
  /\ IF db.rooms[i] = NULL THEN NoRow(q)
     ELSE Save(q, "rooms", i, [db.rooms[i] EXCEPT !.cols = Merged(@, call[q].set)])

(* One bulk INSERT of the rooms first..last, none if first > last.         *)
BulkInsert(q) ==
  /\ pc[q] = "bulk"
  /\ db' = [db EXCEPT !.rooms = [i \in DOMAIN @ |->
              IF i[1] = q /\ i[2] \in call[q].first .. call[q].last
              THEN RoomRow(q, [name |-> i[2], note |-> NULL, flag |-> NULL])
              ELSE @[i]]]
  /\ Reply(q)
  /\ UNCHANGED <<stored, work>>
-----------------------------------------------------------------------------
AddRule(q) ==
  /\ pc[q] = "addRule"
  /\ Put("rules", q,
         [tenant |-> call[q].as.tenant, firm |-> draft[q].firm,
          branch |-> draft[q].branch, type |-> call[q].type, from |-> call[q].from,
          to |-> call[q].to, factor |-> call[q].factor,
          days |-> IF call[q].days = {} THEN 1..7 ELSE call[q].days,
          created |-> Newest("rules")])
  /\ Reply(q)
  /\ UNCHANGED <<stored, work>>

AddSeason(q) ==
  /\ pc[q] = "addSeason"
  /\ Put("seasons", q,
         [tenant |-> call[q].as.tenant, firm |-> draft[q].firm,
          branch |-> draft[q].branch, type |-> call[q].type, from |-> call[q].from,
          to |-> call[q].to, factor |-> call[q].factor,
          created |-> Newest("seasons")])
  /\ Reply(q)
  /\ UNCHANGED <<stored, work>>

(* Math.ceil of a quotient, of a stay that may be reversed.                *)
Ceil(n, d) == -((-n) \div d)

Hours(c) == Ceil(c.out - c.in, 60)

(* Slip: part of a day is not charged.                                     *)
UnitsSlip(c) == IF c.hourly THEN Hours(c) ELSE Hours(c) \div 24

Units(c) == IF c.hourly THEN Hours(c) ELSE Ceil(Hours(c), 24)

Rate(type, c) ==
  LET r == IF c.hourly THEN type.cols.hourly ELSE type.cols.daily IN
  IF r = NULL THEN 0 ELSE r

(* The factor of the newest row that applies, 10 if none does.             *)
Factor(table, rows) ==
  IF rows = {} THEN 10
  ELSE table[CHOOSE i \in rows : \A j \in rows : table[i].created >= table[j].created].factor

For(row, c, firm) ==
  row.tenant = c.as.tenant /\ row.type = c.type /\ firm # NULL /\ row.firm = firm

SeasonOf(d, c, firm) ==
  Factor(d.seasons,
         {i \in Id : /\ d.seasons[i] # NULL
                     /\ For(d.seasons[i], c, firm)
                     /\ d.seasons[i].from <= c.in /\ c.out <= d.seasons[i].to})

RuleOf(d, c, firm) ==
  Factor(d.rules,
         {i \in Id : /\ d.rules[i] # NULL
                     /\ For(d.rules[i], c, firm)
                     /\ c.in % 1440 \in d.rules[i].from .. d.rules[i].to
                     /\ ((c.in \div 1440) % 7) + 1 \in d.rules[i].days})

(* The amount so far, in hundredths of a cent.                             *)
ReadRates(q) ==
  LET t == db.types[call[q].type] IN
  /\ pc[q] = "rates"
  /\ IF t = NULL THEN Throw(q)
     ELSE IF t.tenant # call[q].as.tenant THEN Throw(q)
     ELSE /\ draft' = [draft EXCEPT ![q].amount =
                         Rate(t, call[q]) * Units(call[q]) * 100]
          /\ Goto(q, "season")
          /\ UNCHANGED <<db, stored, sending, quote>>

(* Math.round(x * 100) / 100.  A tie may go down: x is a binary fraction.  *)
Rounded(amount) ==
  {(amount + 50) \div 100, -((50 - amount) \div 100)}

Answer(q, amount) ==
  /\ \E cents \in Rounded(amount) :
       quote' = [quote EXCEPT ![q] = [hours |-> Hours(call[q]), cents |-> cents]]
  /\ draft' = [draft EXCEPT ![q].amount = amount]
  /\ Reply(q)
  /\ UNCHANGED <<db, stored, sending>>

ReadSeason(q) ==
  LET amount == (draft[q].amount * SeasonOf(db, call[q], draft[q].firm)) \div 10 IN
  /\ pc[q] = "season"
  /\ IF ~call[q].hourly THEN Answer(q, amount)
     ELSE /\ draft' = [draft EXCEPT ![q].amount = amount]
          /\ Goto(q, "rule")
          /\ UNCHANGED <<db, stored, sending, quote>>

ReadRule(q) ==
  /\ pc[q] = "rule"
  /\ Answer(q, (draft[q].amount * RuleOf(db, call[q], draft[q].firm)) \div 10)
-----------------------------------------------------------------------------
FirstStep ==
  [createFirm |-> "firm", updateFirm |-> "setFirm", createHotel |-> "hotel",
   updateHotel |-> "setHotel", createGuest |-> "upload", updateGuest |-> "upload",
   createType |-> "upload", updateType |-> "upload", createRoom |-> "room",
   updateRoom |-> "setRoom", bulkCreateRooms |-> "bulk",
   createHourlyRule |-> "addRule", createSeasonalRate |-> "addSeason",
   calculatePrice |-> "rates"]

(* The two inserts ask for defaults if firm or branch is missing, the      *)
(* calculation only if the firm is.                                        *)
First(c) ==
  IF \/ c.op \in {"createHourlyRule", "createSeasonalRate"} /\ ~Complete(c.as)
     \/ c.op = "calculatePrice" /\ c.as.firm = NULL
  THEN "defaults" ELSE FirstStep[c.op]

Arrive(q) ==
  /\ pc[q] = "idle"
  /\ \E calls \in Mix : \E c \in calls :
       /\ \A p \in Request : pc[p] # "idle" => call[p] \in calls
       /\ call' = [call EXCEPT ![q] = c]
       /\ Goto(q, First(c))
       /\ draft' = [draft EXCEPT ![q] = [firm |-> c.as.firm, branch |-> c.as.branch,
                                         amount |-> 0]]
       /\ sending' = [sending EXCEPT ![q] =
                        IF c.op \in DOMAIN AfterUpload THEN c.files ELSE {}]
  /\ UNCHANGED <<db, stored, quote>>

(* The statement is lost, before or after it took effect at the server: a  *)
(* statement of which only the answer is lost is the failed Reply, or the  *)
(* next Fail.                                                              *)
Fail(q) ==
  /\ Faults
  /\ pc[q] \notin {"idle", "upload"}
  /\ ~Over(q)
  /\ Throw(q)

Execute(q) ==
  \/ InsertFirm(q) \/ InsertBranch(q) \/ UpdateFirm(q)
  \/ InsertHotel(q) \/ UpdateHotel(q)
  \/ Uploaded(q) \/ FindGuest(q) \/ FillDefaults(q)
  \/ InsertGuest(q) \/ UpdateGuest(q)
  \/ InsertType(q) \/ UpdateType(q)
  \/ InsertRoom(q) \/ UpdateRoom(q) \/ BulkInsert(q)
  \/ AddRule(q) \/ AddSeason(q)
  \/ ReadRates(q) \/ ReadSeason(q) \/ ReadRule(q)
-----------------------------------------------------------------------------
(* The price of a stay: the least number of hours or days that cover it,   *)
(* times its rate and the factors, all of the tables d.                    *)
Price(d, c, firm) ==
  LET t    == d.types[c.type]
      unit == IF c.hourly THEN 60 ELSE 1440
      stay == c.out - c.in
      n    == CHOOSE k \in stay \div unit .. (stay \div unit) + 1 :
                k * unit >= stay /\ (k - 1) * unit < stay IN
  IF t = NULL THEN 0
  ELSE n * Rate(t, c) * SeasonOf(d, c, firm)
         * (IF c.hourly THEN RuleOf(d, c, firm) ELSE 10)

Quoting(q) == pc[q] \in {"rates", "season", "rule"}

Watch ==
  /\ moments' = [q \in Request |->
       IF Quoting(q) \/ Quoting(q)'
       THEN moments[q] \cup {Price(db', call'[q], draft'[q].firm)} ELSE moments[q]]
  /\ writes' = [q \in Request |->
       IF Quoting(q)
       THEN writes[q] \cup {p \in Request : \/ db'.types # db.types /\ pc'[p] # pc[p]
                                            \/ db.seasons[p] # db'.seasons[p]
                                            \/ db.rules[p] # db'.rules[p]}
       ELSE writes[q]]

Step ==
  \E q \in Request :
    \/ Arrive(q)
    \/ Execute(q) /\ UNCHANGED call
    \/ Fail(q) /\ UNCHANGED call
    \/ \E f \in File : (Upload(q, f) \/ UploadFails(q, f)) /\ UNCHANGED call

Quiescent == (\A q \in Request : Over(q) /\ sending[q] = {}) /\ UNCHANGED vars

Next == (Step /\ Watch) \/ Quiescent

Spec == Init /\ [][Next]_vars
-----------------------------------------------------------------------------
TablesOK ==
  /\ db = [t \in Table |-> db[t]]
  /\ \A t \in Table : db[t] \in [RowsOf(t) -> RowType[t] \cup {NULL}]

(* The statements that a handler may be at.                                *)
Path ==
  [createFirm |-> {"firm", "branch"}, updateFirm |-> {"setFirm"},
   createHotel |-> {"hotel"}, updateHotel |-> {"setHotel"},
   createGuest |-> {"upload", "existing", "defaults", "guest"},
   updateGuest |-> {"upload", "setGuest"},
   createType |-> {"upload", "type"}, updateType |-> {"upload", "setType"},
   createRoom |-> {"room"}, updateRoom |-> {"setRoom"}, bulkCreateRooms |-> {"bulk"},
   createHourlyRule |-> {"defaults", "addRule"},
   createSeasonalRate |-> {"defaults", "addSeason"},
   calculatePrice |-> {"defaults", "rates", "season", "rule"}]

Statement == {"idle", "ok", "failed"} \cup UNION {Path[o] : o \in DOMAIN Path}

Draft == [firm: Id \cup {NULL}, branch: Id \cup {NULL}, amount: Int]

(* Types.  In the tables: no NULL in a column that is NOT NULL, and a bit  *)
(* is a bit (DDL of the tables; `x ? 1 : 0` in the services).              *)
TypeOK ==
  /\ TablesOK
  /\ stored \subseteq Object
  /\ pc \in [Request -> Statement]
  /\ call \in [Request -> Call \cup {NULL}]
  /\ draft \in [Request -> Draft \cup {NULL}]
  /\ sending \in [Request -> SUBSET File]
  /\ quote \in [Request -> [hours: Int, cents: Int] \cup {NULL}]
  /\ moments \in [Request -> SUBSET Int]
  /\ writes \in [Request -> SUBSET Request]

(* FirmsService.create, firms.service.ts:35: a firm has a branch, unless   *)
(* its creator was told that it failed or has not been answered yet.       *)
FirmGetsItsBranch ==
  \A q \in Request :
    db.firms[q] # NULL =>
      \/ \E b \in Rows("branches") : db.branches[b].firm = q
      \/ pc[q] \in {"branch", "failed"}

(* The fallback of guests.create, createHourlyRule and createSeasonalRate: *)
(* a caller whose token has both a firm and its branch, or neither, writes *)
(* a row whose firm is the tenant's and whose branch is that firm's.  (A   *)
(* token with a firm only gets the branch of the tenant's oldest firm.)    *)
DefaultsBelongTogether ==
  \A t \in {"guests", "rules", "seasons"}, i \in Request :
    LET row == db[t][i]
        s   == call[i].as IN
    /\ row # NULL
    /\ s.firm = NULL <=> s.branch = NULL
    /\ s.branch # NULL => db.branches[s.branch].firm = s.firm
    => /\ row.firm # NULL => db.firms[row.firm].tenant = row.tenant
       /\ row.branch # NULL => db.branches[row.branch].firm = row.firm

(* PricingService.calculatePrice: a quote is, to the nearest cent, the     *)
(* price of the stay at one moment while it was computed, provided that at *)
(* most one request changed the rates meanwhile; its hours are the least   *)
(* whole number that covers the stay.  Three statements read the tables,   *)
(* so with two changes the quote may be a price there never was.           *)
QuoteIsThePriceOfOneMoment ==
  \A q \in Request :
    quote[q] # NULL =>
      LET stay == call[q].out - call[q].in IN
      /\ quote[q].hours * 60 >= stay /\ (quote[q].hours - 1) * 60 < stay
      /\ Cardinality(writes[q]) <= 1 =>
           \E p \in moments[q] :
             quote[q].cents * 100 - p \in -50..50

(* updateRoom and updateRoomType, rooms.service.ts:209 and 238: of two     *)
(* overlapping updates neither takes back what the other has written to a  *)
(* column.  Once an update of a row that was there has been acknowledged,  *)
(* each column that it gave a value for holds that value, or one that      *)
(* another update of the row gave for it.                                  *)
UpdatesKeepEachOther ==
  \A t \in {"rooms", "types"}, q \in Request :
    LET op == [rooms |-> "updateRoom", types |-> "updateType"][t]
        Updates(p) == pc[p] # "idle" /\ call[p].op = op
        Gives(p, c) == CASE c = "flag" /\ call[p].set[c] # NULL -> OrZero(call[p].set[c])
                         [] OTHER -> OrNull(call[p].set[c]) IN
    Updates(q) /\ pc[q] = "ok" /\ call[q].id \in Seed \cup (Seed \X Number) =>
      LET row == db[t][call[q].id] IN
      row # NULL => \A c \in Columns[t] :
        Gives(q, c) # NULL =>
          \E p \in Request :
            Updates(p) /\ call[p].id = call[q].id /\ row.cols[c] = Gives(p, c)

(* guests.controller.ts:30 and rooms.controller.ts:27 write the URLs after *)
(* Promise.all: a URL in a row is that of an object there is, whichever    *)
(* upload fails or comes last.                                             *)
StoredUrlsResolve ==
  \A t \in {"guests", "types"}, i \in Id :
    db[t][i] # NULL => db[t][i].files = NULL \/ db[t][i].files \subseteq stored
=============================================================================
