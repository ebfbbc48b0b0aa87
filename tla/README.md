# A formal model of the Rokadiyo hotel management backend

The backend (`src/src/`) is a NestJS application on Fastify that keeps all of
its state in SQL Server and talks to it through `mssql`. This directory holds
TLA+ modules that model every handler that writes to it:

- the front desk: bookings, payments, check-in and check-out, room status;
- the accounts: users, tenants, invitations, password resets, sessions, and the
  roles, permissions and subscriptions they share tables with;
- the back office: firms, hotels, guests, rooms, room types, uploads, rates and
  the price of a stay;
- the connections under all of them: start-up, pools, transactions and logs.

Beside them are the TLC configurations that check them on small instances, and
TLAPS proofs, for every instance, of all their properties but liveness.

Paths below are relative to `src/`. `bookings`, `checkin` and so on stand for
`src/modules/<name>/<name>.service.ts`.

## 1. The system

### 1.1 How a request runs

A controller hands an HTTP call to one method of a service, the *handler*. A
handler is an `async` function: a straight line of `await sql.query(...)`
calls with JavaScript between them. Node.js runs the JavaScript of one request
at a time and switches at every `await`, so two requests interleave between any
two SQL statements, and a process may serve any number at once. Nothing is kept
in memory between requests except the connection pools; there is no lock, queue
or cache in the application. All coordination is what the database does:

- `SqlServerService.query` (`src/core/database/sql-server.service.ts:143-179`)
  runs one statement, which is its own transaction.
- `SqlServerService.transaction` (216-233) opens a transaction, runs a callback,
  commits, and on any exception rolls back and rethrows.

`table.sql` creates the tables without foreign keys or triggers, and does not
turn on `READ_COMMITTED_SNAPSHOT`. So SQL Server's default applies: READ
COMMITTED with row locks. What a transaction writes stays locked to its end; a
statement that needs a locked row waits. UNIQUE constraints back the keys of
permissions, plans and menus; nothing backs the names of users and roles. Three
INSERTs of the accounts go through procedures of `table.sql` (`sp_CreateUser`,
`sp_CreateInvitation`, `sp_CreatePasswordReset`), which are part of the model.

### 1.2 Components

| Component | State it keeps | Operations that change state | Interacts through | What makes it correct |
|---|---|---|---|---|
| Bookings (`bookings`) | `bookings`, `booking_payments`, `guests`, `rooms.status` | `create`, `recordPayment` (`checkAvailability`, `findAll` and the analytics read) | own statements; shares all four tables with check-in and rooms | an acknowledged payment is in `paid_amount`; the summary agrees with the history; a search offers free rooms |
| Check-in and check-out (`checkin`) | `bookings`, `guests`, `rooms.status`, `booking_charges`, `housekeeping_tasks` | `completeCheckIn`, `completeCheckOut`, `quickCheckIn`, `calculateBill` | transactions; row locks against Bookings and Rooms | one check-in per booking; all or nothing; a booking never moves back |
| Room inventory (`rooms`) | `rooms`, `room_types` | `createRoom`, `bulkCreateRooms`, `updateRoom`, `updateStatus`, room types | `rooms.status` is written by Bookings and Check-in too | a room's status tells the truth about its guest |
| SQL Server access (`sql-server.service.ts`) | pools per database | connect with retries, `query`, `execute`, `transaction`, `bulkInsert`, close | called by every service; pool of `DB_POOL_MAX` (10) connections | a transaction commits or leaves nothing; a request gets a connection in the end, and gives it back |
| Logging (`logging.service.ts`) | log tables | `logActivity`, `logError`, `logAudit` | takes a second connection, also inside an open transaction (`auth.service.ts:414`, `:587`) | never stops the request it logs |
| Accounts (`auth`) | `users`, `user_roles`, `tenants`, `firms`, `branches`, `invitations`, `password_resets` | `register`, `login`, `switchContext`, `createTenantWithUser`, `sendInvitation`, `acceptInvitation`, `rejectInvitation`, `forgotPassword`, `resetPassword`, tenant updates | checks outside a transaction, writes inside; calls Logging within it | one user per invitation; a reset token works once; a session stays in its tenant |
| Roles and permissions (`access-control`) | `roles`, `permissions`, `role_permissions`, `user_roles`, `menu_permissions` | create / update / delete / clone role, create / update / delete permission and menu permission, assign permissions, assign user roles | count-then-delete against replace-all transactions | no user with a role that does not exist; the last assignment wins whole |
| Subscriptions | `subscription_plans`, `subscription_features`, `subscription_feature_permissions` | create plan / feature, `assignFeaturePermissions` | as roles | as roles |
| Guards and JWT strategy | none (reads `users`, `user_roles`) | none | token of the request, one read | decides from roles that are current |
| Pricing (`pricing`) | `pricing_hourly_rules`, `pricing_seasonal_rates` | create a rule or a rate; `calculatePrice` reads and computes | reads `room_types` | a quote is the price at one moment |
| Guests, Firms and branches, Hotels | `guests`, `firms`, `branches`, `hotels` | `create`, `update` | Bookings reads `firms` and `branches` | a firm has a branch; a row's branch is its firm's |
| Uploads (R2) | objects of the store | the uploads of guests and room types | run at once, before the row is written | a URL in a row resolves |
| Health | none | none | takes a connection of two pools | reports, whatever fails |
| Dashboard, analytics | none | none | read only | - |
| Encryption, tokens, Google login | none | crypto | - | - |
| Interceptors, filter, tenant context, bootstrap, config | none | wrap answers, copy headers, wire modules | - | - |

### 1.3 Which behaviours are hard

`PROJECT.json` lists them line by line under `hazards`. In short:

- **Overlapping payments.** `recordPayment` is three commits (check, insert,
  summarise). Two requests may insert in one order and summarise in the other.
- **Failures between commits.** `create` and `recordPayment` can stop after any
  statement and leave the earlier ones; a lost answer hides a commit.
- **Transactions against single statements.** A check-in's conditional UPDATE
  decides a race by its row lock. What it saw must still hold at the commit.
- **Checks that age.** A plan, a role or a token is looked up one to three commits
  before the write that relies on it.
- **Waiting.** Requests wait for row locks; nobody must wait for ever.
- **Two names for one thing.** `create` writes the room to `assigned_to`, check-in
  reads `room_id`; `quickCheckIn` writes a payment to `booking_charges`,
  `recordPayment` sums up `booking_payments`; the search filters on `status`,
  which is a column of another table.
- **Boundaries.** `decimal(10,2)` overflows in the sum though not in any term;
  payments of exactly the total; refunds below zero.
- **Check, then act.** Nearly every check of the accounts and roles (is the
  invitation pending, is the name free, is the role unused, is the token good)
  is a statement outside the transaction, and the statement it guards has no
  condition of its own. Two requests that overlap both pass. What can be
  promised, and is, concerns requests that do not overlap.
- **Replace-all.** An assignment deletes and inserts in one transaction, but where
  it finds nothing to delete it locks nothing, and two of them add up.
- **Two commits that belong together.** A firm and its branch, a cloned role and
  its permissions.
- **A connection inside a transaction.** `logActivity` in an open transaction asks
  the same pool for a second connection: with all connections held by such
  transactions, everyone waits on everyone until the acquire time-out.
- **Start-up.** Each database is tried `DB_RETRY_ATTEMPTS` times and then, except
  MAIN, done without; `getPool` and `getLogsDatabase` fall back to MAIN.
- **A value from three reads.** `calculatePrice` reads the room type, the season and
  the hourly rule while others change them.
- **Uploads at once.** `Promise.all` throws at the first failure while the other
  uploads go on.

## 2. Modules

| Module | What it is |
|---|---|
| `FrontDesk` | State, one action per SQL statement, fairness, properties, refinement mapping |
| `BookingLedger` | The abstract promise: bookings, payments and receipts as atomic steps |
| `FrontDeskClaims` | What documents and comments say and the code does not do |
| `MCFrontDesk` | The bodies that the clients may send in each run, and the symmetry |
| `FrontDeskProofs` | Inductive invariant; types, check-ins, and steps of a booking proved |
| `FrontDeskPaymentProofs` | The payment properties proved |
| `FrontDeskTransactionProofs` | Locks, walk-ins and the refinement of `BookingLedger` proved |
| `AccessControl` | Roles, permissions, menus, subscriptions: one action per SQL statement, locks |
| `Accounts` | Extends it by the handlers of `auth`; who may call what; properties of both; refinement mapping |
| `AccountLedger` | The abstract promise of the accounts: all-or-nothing steps |
| `MCAccounts` | The database, and the calls that may overlap |
| `AccountsProofs` | Inductive invariant of the accounts and roles; what a step does to each table |
| `AccountsPropertyProofs` | Their properties and the refinement of `AccountLedger` proved |
| `BackOffice` | Firms, hotels, guests, rooms, room types, uploads, rates and quotes |
| `MCBackOffice` | The database, and the calls that may overlap |
| `BackOfficeProofs` | Inductive invariant of the back office; types proved |
| `BackOfficePropertyProofs` | What a step does to each table; the properties proved |
| `Connections` | Start-up, pools, transactions, logs, the exception filter, the health check |
| `MCConnections` | The sizes of the pools |
| `ConnectionsProofs` | Inductive invariant of pools and requests; the safety properties proved |

`FrontDesk`, `Accounts` and `BackOffice` say what the statements do to the rows and
leave the pools out; `Connections` says which connections a handler holds while
it asks for another one and leaves the rows out. What one module sees of
another is only that a statement, a commit or an answer may be lost (`Faults`),
which is what an exhausted pool comes to.

### 2.1 `FrontDesk`: state

| Variable | Stands for |
|---|---|
| `rooms` | `rooms.status` of each room id a request may name, `NULL` for an id with no row |
| `bookings` | a row of `bookings`: `booking_status`, `assigned_to`, `room_id`, the dates, `total_amount`, `paid_amount`, `payment_status` |
| `guests`, `charges` | the rows that requests inserted in `guests` and `booking_charges` |
| `history` | `booking_payments`: for each booking its rows, and the SUM of their amounts |
| `bookingLock`, `roomLock` | which open transaction has written to the row |
| `pc`, `call` | the statement that a request runs next, and its body |
| `firm`, `offered` | a local variable of `create`; the answer of `checkAvailability` |
| `counted` | history variable: the payments that `paid_amount` sums up |

A row is named by the request that inserts it: an IDENTITY value is never used
twice, and no handler inserts two rows in one of these tables. `history` keeps
the sum beside the rows, as SQL computes it, so that no definition is recursive.
`housekeeping_tasks` has no variable because its only INSERT always fails.

### 2.2 `FrontDesk`: actions

One action is one SQL statement and the JavaScript up to the next `await`; its
guards are the handler's checks, and an exception is `Abort` (answer `failed`,
and in a transaction the rollback).

| Handler | Actions | Transaction |
|---|---|---|
| `bookings.create` | `CreateLocate`, `CreateGuest`, `CreateInsert`, `CreateMark` | each statement |
| `bookings.recordPayment` | `PaymentVerify`, `PaymentRecord`, `PaymentSummarise` | each statement |
| `checkin.completeCheckIn` | `CheckInClaim`, `CheckInOccupy`, `CheckInCommit` | all |
| `checkin.completeCheckOut` | `CheckOutClose`, `CheckOutSoil`, `CheckOutTask` | all |
| `checkin.quickCheckIn` | `QuickRegister`, `QuickSeat`, `QuickCommit` | all |
| `checkin.calculateBill` | `BillRead`, `BillCharge` | each statement |
| `rooms.updateStatus`, `rooms.updateRoom` of a status | `SetStatus` | the statement |
| `bookings.checkAvailability` | `Search` | the statement |

`Arrive` receives a call. `Fail` loses a statement of any unfinished request
(time-out, broken connection, crash of the process: nothing later of the request
runs and its transaction is rolled back). `Reply` may lose an answer after the
statement, including a COMMIT, has taken effect. `Quiescent` is the state in
which every request is answered, so that TLC's deadlock check means what it
should: requests that wait for each other for ever.

The tables show committed values only. The writes of an open transaction take
effect in its commit action; until then its locks keep everyone else away from
the rows, which is exactly when others could see them.

### 2.3 What the model assumes

- **One tenant.** Each statement filters on `tenant_id`; tenants share no row.
- **Rooms exist before the requests**, or never. Creating rooms is not in this
  module; a request may name an id without a row.
- **READ COMMITTED with locks**, one statement atomic. For the summary's UPDATE
  this says that its `SUM` sub-queries are read while it holds the booking row.
  A plan that reads them before it waits for the row is listed as a hazard.
- **`CheckInSchema`.** `checkin.service.ts` does not run against `table.sql`:
  `bookings` there has no `room_id` or `hotel_id`, `booking_charges` does not
  exist, and columns that `quickCheckIn` leaves out are NOT NULL without a
  default. `CheckInSchema = FALSE` is `table.sql` as it is: the first statement
  of each of these handlers is an error. `TRUE` is the smallest schema in which
  the statements of both services are accepted: those columns and that table
  exist, and the columns left out have a default or accept NULL. The runs of
  the handlers' logic use `TRUE`; the proofs hold for both.
- **Statuses.** `updateStatus` accepts any string. The five of `RoomStatus` are
  those that the source and its documents use.
- **Firms.** `create` finds a firm through the room, the token or a query of the
  tenant's firms; the last two are a free choice of whether one is found.
- **Amounts** are integers and `MaxAmount` is the bound of `decimal(10,2)`.
- **Guests, pricing and branches** of a booking are data that no property tells
  apart, and are left out.

### 2.4 `BookingLedger`: what is promised

A booking goes from `none` through `confirmed` and `checked_in` to
`checked_out`; a payment is received, then summed up, and gets its receipt only
with a summary that includes it; a check-in is confirmed to one caller at most.
`FrontDesk` maps its tables to the ledger's state and its acknowledged requests
to `receipts` and `greeted`; `LedgerSpec` says that every statement, commit,
rollback and failure is one atomic step of the ledger or none.

### 2.5 `AccessControl` and `Accounts`

State. `rows[t]` are the rows of `roles`, `permissions`, `subscription_plans`,
`subscription_features` and `menu_permissions`, of which a name or key, the
tenant and the system flag are kept. `links` are the rows of `user_roles`,
`role_permissions` and `subscription_feature_permissions`, each with the request
that inserted it. `tenants`, `users`, `firms`, `branches`, `invitations`,
`resets` are the tables of these names. `read`, `items`, `wiped`, `locked` are the
locals and the uncommitted writes of an open transaction; `session` is the token
a login was answered with; `seen` is a history variable: the requests that were
over when a request came. A user, a role, an invitation or a token is named by
the request that inserts it, a password by the request that sets it. `KeyRow` to
`LinkRow` are the types of the rows, and `Path` the statements of each handler.

Actions. `Arrive` is the controller with `JwtAuthGuard`, `RolesGuard` and the
checks in the methods (`Allows`, `OwnTenant`). Then one action per statement:

| Handlers | Actions | Transaction |
|---|---|---|
| `createRole`, `createPermission`, `createPlan` | `Unique`, `Insert` | each statement |
| `createMenuPermission`, `createFeature` | `Insert` | the statement |
| `updateRole`, `updateMenuPermission` | `Lookup`, `Write` | each statement |
| `updatePermission` | `Lookup`, `Unique`, `Write` | each statement |
| `deleteRole` | `Lookup`, `Count`, `Strip`, `Drop` | each statement |
| `deletePermission`; `deleteMenuPermission` | `Lookup`, `Count`, `Drop`; `Lookup`, `Drop` | each statement |
| `assignRolePermissions` | `Role`, `Plan`, `Allowed`, `Wipe`, `Grant`, `CommitLinks` | the last three |
| `assignUserRoles`, `assignFeaturePermissions` | `Wipe`, `Grant`, `CommitLinks` | all |
| `cloneRole` | `Lookup`, `Unique`, `Insert`, `Copy`, `Role`, `Wipe`, `Grant`, `CommitLinks` | the last three |
| `register` | `CheckUser`, `Create` | each statement |
| `createTenantWithUser` | `CheckUser`, `BasicPlan`, `InsertTenant`, `AdminRoleId`, `InsertAdmin`, `CommitTenant` | from `InsertTenant` on |
| `login`, `switchContext` | `FindLogin`, `FindContext`, `CountLogin`; `FindUser`, `CheckFirm`, `CheckBranch` | each statement |
| `sendInvitation` | `CheckEmail`, `Invite` | each statement |
| `acceptInvitation`, `rejectInvitation` | `FindInvitation`, `CheckName`, `InsertMember`, `MarkAccepted`, `CommitMember`; `Decline` | the three of the member |
| `forgotPassword`, `resetPassword` | `FindEmail`, `Invalidate`, `Issue`; `FindToken`, `SetPassword`, `Spend`, `CommitReset` | the three of the reset |
| updates of a tenant, `assignPlan` | `FindTenant`, `FindPlan`, `WriteTenant` | each statement |

`Expire` is the passing of `expires_at`. `Fail` loses a statement, and with it the
transaction; `Reply` may lose the answer to a commit.

Assumptions. The searched columns have no index, so a search reads the whole table
and waits for every transaction that has written to it (`Scan`); access by key
waits for that row only (`Seek`). What a transaction does not find it does not
lock (READ COMMITTED takes no range locks). `BigintsAreStrings` is how the driver
hands over `BIGINT` columns; `tedious` gives strings, and the run sets `TRUE`.
Then `createRole` by a tenant's administrator for the own tenant is always
refused, because the controller compares the string with a number by `!==`
(`access-control.controller.ts:37`; `users.tenant_id` is `BIGINT`). The ids of
`subscription_feature_permissions` are `INT` and stay numbers, so a tenant's
`assignRolePermissions` grants what its body and the tenant's plan have in common
(`access-control.service.ts:345`). The plan, and then its permissions, are read in
statements of their own before the transaction opens; `GrantsStayInThePlan` says
what is left of the check when others change the plan meanwhile.
The log row of a handler is left to `Connections`. `acceptInvitation` does not
look again whether the e-mail has meanwhile become a user; neither does the
model.

`AccountLedger` has one step for each promise: a tenant comes with its
administrator, firm and branch; a member comes with the acceptance of the
invitation; a password changes with its token being spent; nothing else changes
these tables. `LedgerSpec` says that every statement of every handler is such a
step or changes nothing of them.

### 2.6 `BackOffice`

State. `db` holds the tables (`RowType` is the type of the rows of each, `Path` the
statements of each handler); a row is named by the request that inserted it, a
room also by its number, since `bulkCreateRooms` inserts many. Columns that a
service treats alike are one column. A column is a number: 0 is whatever
JavaScript takes for false, `NULL` a property that a body leaves out, 2 in a flag
any other true value, such as the string `'false'` of a multipart form. Money is
in cents, a factor in tenths, time in minutes. `stored` are the objects in the
store, `sending` the uploads under way, `draft` the locals of a handler. `moments`
and `writes` are history variables: what the price was while a quote was
computed, and who changed it.

Actions. No handler here has a transaction. `InsertFirm` and `InsertBranch` are
`firms.create`; `UpdateFirm`, `InsertHotel`, `UpdateHotel`, `InsertRoom`,
`UpdateRoom`, `BulkInsert`, `InsertType`, `UpdateType` are single statements;
`FindGuest`, `FillDefaults`, `InsertGuest`, `UpdateGuest` are `guests`; `AddRule`,
`AddSeason` after `FillDefaults`, and `ReadRates`, `ReadSeason`, `ReadRule` are
`pricing`. `Upload`, `UploadFails` and `Uploaded` are `Promise.all` over the files of
a multipart body, before the row is written. An upload that fails
answers the client while the others go on.

Assumptions. The columns are those that the services name; where `table.sql` lacks
one (`guests.id_proof_url`, `room_types.images`) or the table
(`pricing_hourly_rules`, `pricing_seasonal_rates`) the model takes the code's word,
and `NOT NULL` is from `table.sql`. The `ValidationPipe` (`src/main.ts:42-51`) checks
the bodies that are typed by a DTO class, no others. Generated codes are unique
(they are made from the clock); a collision would be one more failing statement.
`firms`, `hotels` and `guests` are updated with a filter on the tenant, `rooms` and
`room_types` by id alone, as in the code.

### 2.7 `Connections`

State. `boot`, `attempt`, `pools` are the start-up: which database is being
connected, how often that has failed, and which have a pool. For each request,
`kind` and `todo` are what it does with the pools, one entry per await; `conn` the
pool whose connection its statement uses, `tx` the pool whose connection its
transaction keeps, `reply` its answer. `did` and `failed` are history variables.

Actions. `Connect` and `ConnectFails` (`Retry`, `GiveUp`) are `connectDatabase` with its
loop; `Arrive` needs a server that listens; `Grant` is the pool handing out a
connection; `Finish` and `Fail` end a step, `TimeOut` a wait. `Recovery` is the catch
block of `transaction` followed by the exception filter, which answers first and
does not wait for its own log. Steps of `Swallowed` have a catch block of their
own (`LoggingService`, the filter, the health check).

Assumptions. What the statements say is left out. The pool of `mssql` (`tarn`) is
external: it lends at most `max` connections, in any order, and a request that
finds none gives up after the pool's acquire time-out.

## 3. Model checking

Deadlock checking is on where every request that is answered makes the model
stutter (`Quiescent`): in all runs of `FrontDesk` and `BackOffice`. It is off in
`MCConnections`, where the server may stop for good, and in `MCAccounts`, where
requests that are over have no step; there `EveryRequestIsAnswered` and
`EveryRequestAnswered` say that nobody waits for ever.

Where `Faults` is `TRUE` the deadlock check says little, as a waiting request may
always fail. `WaitsAreShort` says it in each state instead: whoever waits for a row
waits for an open transaction that can go on, or that waits for one that can.

| Run | Instance | Checks | Shows |
|---|---|---|---|
| `MCPayments` | 4 requests, 1 room, amounts -1, 1, 2, `MaxAmount` 2, faults | `SummaryAgreesWithHistory`, `AcknowledgedPaymentIsCounted` | overlapping, failing, overflowing and refunded payments lose no acknowledged payment; a complete summary is right |
| `MCStays` | 4 requests, 1 room, faults | `LocksBelongToOpenTransactions`, `WaitsAreShort`, `CheckedStatusIsNotStale`, `OneCheckInPerBooking`, `AcknowledgedCheckInHolds`, `QuickCheckInAllOrNothing`, `WalkInRoomIsNotAvailable`, `BookingNeverMovesBack` | transactions keep what they promise against single statements, rollbacks and lost answers |
| `MCHandlers` | 3 requests, every handler, bodies that each check refuses, faults | `TypeOK`, `LedgerSpec` | types; the front desk implements the ledger |
| `MCAnswers` | 3 requests, no faults, fairness | `EveryRequestAnswered` | no wait for ever, no lock left behind |
| `MCConnections` | 2 requests, four databases, 1 retry, MAIN pool of 2, the others of 1; fairness | `TypeOK`, `PoolsExistAndSuffice`, `AnsweredHoldsNoTransaction`, `AnswerTellsTheOutcome`, `LoggingNeverFailsARequest`, `CircularWaitNeedsTheSharedPool`, `StartUpEnds`, `EveryRequestIsAnswered` | connections come back whatever throws, an answer says what became of the transaction, logs never fail a request, and transactions that wait on each other for a connection are all answered |
| `MCAccounts` | 2 requests over two tenants with a row of every kind, faults, fairness | `TypeOK`, `InvitationIsFinal`, `SpentTokensStaySpent`, `SessionStaysInItsTenant`, `UsernamesCollideOnlyByOverlap`, `RoleNamesCollideOnlyByOverlap`, `LinksMixOnlyByOverlap`, `DeleteLeavesNoDanglingLink`, `GrantsStayInThePlan`, `WaitsAreShort`, `ProtectedRowsStay`, `LedgerSpec`, `EveryRequestAnswered` | every check holds against requests that do not overlap, and the accounts implement their ledger whatever overlaps or fails |
| `MCBackOffice` | 3 requests, a tenant with two firms (one without a branch) and an empty one, faults | `TypeOK`, `FirmGetsItsBranch`, `DefaultsBelongTogether`, `QuoteIsThePriceOfOneMoment`, `UpdatesKeepEachOther`, `StoredUrlsResolve` | several commits and several reads of one request, with others between them |

Bounds and why they suffice, for the front desk. Requests are the only actors.
The interesting races need a booking's `create` (or a walk-in) and two requests on it; a fourth
one adds a second payment, check-in or a retry after a lost answer. A
transaction locks at most one booking and then one room, and holds no lock while
it waits for the booking, so a second room adds no cycle of waits: one room
suffices. A room may be missing, because `Init` also has it as
`NULL`. `MaxAmount` 2 with amounts up to 2 lets a sum overflow, reach the total
exactly, stay below it and fall below zero. Requests and rooms are symmetric:
no definition orders or names one; symmetry is off in the liveness run.

For the other three:

- `MCConnections`. The circular wait needs as many transactions as the pool has
  connections: two, with a MAIN pool of two. Either LOGS is connected or not,
  and the start-up chooses. One retry shows the loop going round and running out.
- `MCAccounts`. Every property is about at most two requests: one that has been
  answered and a later one, or two that overlap. What a third one could have
  prepared is in the database from the start (`MCDatabase`). `Mix` is a set of
  sets of calls: two requests ask for calls of the same set, among them calls on
  the row that the other one inserts. Each set holds the handlers that share
  tables; the bodies include those that each check refuses.
- `MCBackOffice`. A quote and two changes of the rates, or two updates and a read,
  are three requests. Stays are of 61 minutes on two days, of 25 hours, of
  nothing, and reversed; factors and rates are chosen so that the amount is no
  whole number of cents. Each set of `MCMix` holds the calls that meet in the
  tables of some property.

Several of the properties would be false in a stronger form, and TLC shows it:
with two overlapping changes of the rates, a quote can be a price that never was;
a token with a firm and no branch gets a branch of another firm; two overlapping
assignments to a role without permissions add up; two overlapping acceptances of
one invitation make two users. The comments of the properties say so, and
`hazards` lists the lines. No document of the repository promises otherwise.

Fairness of the front desk and the accounts is weak fairness of each request's
next statement (`Execute`, `Step`): the event loop runs every
continuation that is ready, and SQL Server runs every statement whose rows are
not locked. Weak fairness is enough because in these instances there is a point
from which a lock that a request waits for is no longer taken, each request
being answered once. Clients need not call (`Arrive` has no fairness), and
faults are not fair. In `Connections` an attempt to connect ends one way or the
other, a statement does (`requestTimeout`, `src/config/database.config.ts:18`), and so
does the wait for a connection (the pool's acquire time-out); the pool need not be fair, and nothing
is said about which outcome it is.

Each property has a *slip* in the module it is checked of: a plausible mistake in the code
(a dropped condition in a WHERE, a missing rollback, a lock hint that reads past
locks, a statement on the pool instead of the transaction, `>` for `>=`, an
answer before the commit) with which TLC finds the property violated.

### 3.1 Where the code differs from what is said of it

The runs named after a property of `FrontDeskClaims` end in a counterexample,
without any fault.

| Property | Said by | What the code does |
|---|---|---|
| `CheckOutIsCompleted` | `MVP-API-Testing.md:311` | `checkin.service.ts:142`: the housekeeping INSERT uses `@tenant_id`, `@hotel_id`, `@room_id`, which are declared under other names; each check-out is rolled back |
| `ValidatedPaymentIsSummarised` | `bookings.service.ts:242` | the limit is on one amount, not on the sum that is stored; the payment row stays and the summary can no longer be written |
| `CheckInOccupiesTheRoom` | `checkin.service.ts:33` | `create` stores the room in `assigned_to`, check-in updates the room in `room_id`, which is NULL |
| `FurtherPaymentAddsUp` | `checkin.service.ts:226`, `MVP-API-Testing.md:312` | a walk-in's first payment goes to `booking_charges`; the first `recordPayment` replaces `paid_amount` by a sum without it |
| `OfferedRoomIsFree` | `MVP-API-Testing.md:189` | `status` in the sub-query of the search is `rooms.status`; no booking ever excludes a room |

Consequence for reading the passing properties: as no check-out commits,
`checked_out` is never reached. The properties say `checked_out` where they
would have to after a repair of line 142, and hold all the same.

## 4. Proofs

TLAPS proves every invariant, action property and refinement that a run checks,
for every value of the constants: any set of requests, rooms, rows and calls, any
contents of the tables to begin with, any `MaxAmount` and pool sizes, both
schemas, with and without faults. What stays with TLC is listed at the end.

| Theorem | Says |
|---|---|
| **`FrontDeskProofs`** | |
| `TypeCorrect` | `[]TypeOK`, including that a request is at a statement of its own handler |
| `StatusStaysChecked` | `[]CheckedStatusIsNotStale` |
| `NeverMovesBack` | `BookingNeverMovesBack` |
| `CheckInIsOnce` | `[]OneCheckInPerBooking` |
| `CheckInHolds` | `[]AcknowledgedCheckInHolds` |
| **`FrontDeskPaymentProofs`** | |
| `PaymentIsCounted` | `[]AcknowledgedPaymentIsCounted` |
| `SummaryAgrees` | `[]SummaryAgreesWithHistory` |
| **`FrontDeskTransactionProofs`** | |
| `NoLockIsLeftBehind` | `[]LocksBelongToOpenTransactions` |
| `NoCircleOfWaits` | `[]WaitsAreShort` |
| `WalkInIsAllOrNothing` | `[]QuickCheckInAllOrNothing` |
| `WalkInKeepsItsRoom` | `[]WalkInRoomIsNotAvailable` |
| `FrontDeskImplementsLedger` | `LedgerSpec`: `FrontDesk` implements `BookingLedger` |
| **`ConnectionsProofs`** | |
| `ConnectionsTypeCorrect` | `[]TypeOK` |
| `NoPoolIsOverdrawn` | `[]PoolsExistAndSuffice` |
| `NoAnswerBeforeTheTransactionEnds` | `[]AnsweredHoldsNoTransaction` |
| `AnswersAreTruthful` | `[]AnswerTellsTheOutcome` |
| `LogsAreExpendable` | `[]LoggingNeverFailsARequest` |
| `OnlyASharedPoolDeadlocks` | `[]CircularWaitNeedsTheSharedPool` |
| **`BackOfficeProofs`** | |
| `BackOfficeTypeCorrect` | `[]TypeOK` |
| **`BackOfficePropertyProofs`** | |
| `EveryFirmGetsItsBranch` | `[]FirmGetsItsBranch` |
| `UrlsResolve` | `[]StoredUrlsResolve` |
| `ScopesBelongTogether` | `[]DefaultsBelongTogether` |
| `NoUpdateIsLost` | `[]UpdatesKeepEachOther` |
| `QuotesArePricesOfOneMoment` | `[]QuoteIsThePriceOfOneMoment` |
| **`AccountsProofs`** | |
| `AccountsTypeCorrect` | `[]TypeOK` |
| **`AccountsPropertyProofs`** | |
| `NoCircleOfWaitsForRows` | `[]WaitsAreShort` |
| `SessionsStayInTheirTenant` | `[]SessionStaysInItsTenant` |
| `ProtectedRowsAreKept` | `ProtectedRowsStay` |
| `DeletesLeaveNoDanglingLink` | `[]DeleteLeavesNoDanglingLink` |
| `AssignmentsReplace` | `[]LinksMixOnlyByOverlap` |
| `TenantsGrantWithinTheirPlan` | `[]GrantsStayInThePlan` |
| `NamesCollideOnlyByOverlap` | `[]UsernamesCollideOnlyByOverlap` |
| `InvitationsAreDecidedOnce` | `[]InvitationIsFinal` |
| `SpentTokensAreUseless` | `[]SpentTokensStaySpent` |
| `RoleNamesAreLookedUp` | `[]RoleNamesCollideOnlyByOverlap` |
| `AccountsImplementLedger` | `LedgerSpec`: `Accounts` implements `AccountLedger` |

### 4.1 Assumptions

TLC evaluates each of them in the runs of its module.

- `FrontDeskAssumption`: the calls are well-formed bodies, and `NULL` is none of the
  values.
- `ConnectionsAssumption`: a pool has at least one connection; `NULL` is no value.
- `AccessControlAssumption`, `AccountsAssumption`: the rows of requests are not those
  of the seed, as an IDENTITY value is never used twice; the calls are well-formed;
  `NULL` is no value.
- `DatabaseAssumption` of `Accounts`: before the first request the tables hold
  well-typed rows, none of a request; no two users have one name, as each handler
  that inserts a user looks for the name; the user of a reset token exists, as no
  handler deletes a user.
- `DatabaseAssumption` of `BackOffice`: the same, and finitely many rows, whose
  `created_at` is in their order; a URL in a row is that of an object in the store.
- `BackOfficeAssumption`: a token's firm exists and is of the token's tenant, which
  is what `SessionsStayInTheirTenant` proves of the tokens that `auth` hands out; and
  the URLs that an update keeps are such as were stored.

### 4.2 `FrontDesk`

**The inductive invariant.** `CheckedStatusIsNotStale` is not inductive: between
the conditional UPDATE and the commit another request could change the booking.
`FrontDeskInv` adds the reasons why none does:

- `BookingIsLocked`: a request between its first statement and its commit holds
  the lock of the row. So no second transaction can be there, and a COMMIT by
  another request is on another row.
- `NotYetBooked`: before a `create` or a walk-in inserts it, the row named by the
  request does not exist, so an insert never replaces a row that was checked.
- `PaidBookingExists`: a payment past its check has a booking, because rows are
  never deleted; hence the summary writes to a row with a status, and leaves the
  status alone.

There is one lemma for each group of actions (`CreateKeepsInv`,
`PaymentKeepsInv`, `CheckInKeepsInv`, `CheckOutKeepsInv`, `QuickKeepsInv`,
`OtherKeepsInv`), and `NextKeepsInv` combines them.

**From states to steps.** `BookingStep` says what a step can do to a booking:
insert it, write a summary, check a guest in whom `CanCheckIn` still allows, or
nothing. `NeverMovesBack` follows from it, and the two facts about acknowledged
check-ins are proved together from it, as each needs the other: a second
acknowledged check-in would have found the booking confirmed, which the first
one excludes.

**Payments.** `PaymentInv` adds to `FrontDeskInv` that a payment's row is in the
history once its request is at the summary (`RowsAreRecorded`) and that only
existing bookings have payments (`PaymentsHaveABooking`). The argument is that a
summary writes the *whole* sum, never an increment: whichever request writes
last, it has read at least the rows that earlier ones read.

**Locks.** A step leaves the locks alone, gives all of its request's back, locks a
booking or locks a room (`LockStep`); with `FrontDeskInv`,
`LocksBelongToOpenTransactions` is then inductive. It says that who holds a room is
before its commit or rollback, where nothing is waited for, and who holds a booking
waits for a room at most: a wait has at most two links, which is `WaitsAreShort`.

**Walk-ins.** `WalkInInv` adds that a request that has not come has left no guest and
no charge. `SeatInv` adds that a walk-in before its commit still holds the room it
asked for, if there is one (`SeatIsHeld`), and that a locked room exists; so the
commit makes the room occupied, and only a request for a status makes it
available again.

**The refinement.** The ledger's variables are those of the `INSTANCE` in `FrontDesk`.
Its invariant is `LedgerInv`, the conjunction of those of check-ins and payments. A
commit of a transaction is the ledger's step for all its statements at once, as
the tables show committed values only; `PaymentRecord` and `PaymentSummarise` are
two steps, the second of which gives the receipt; every other step changes
nothing that the ledger sees.

### 4.3 `Connections`

`ConnectionsInv` says, for each request, that `todo` is one of the `Plans`, the rest of
a program or the recovery from an error, and that this rest determines everything:
a transaction keeps a connection of MAIN exactly if it has begun (`HasBegun`: `begin` is
done and the commit or rollback is still to come), a statement has the connection
its step borrows (`Holds`), what was answered (`Answers`) and whether there was an error
that is not swallowed (`Outcome`). `PoolInv` counts: the holders of a pool are finitely
many and at most its maximum, where a step adds at most one to them (lemmas on
cardinalities), and only where `Grant` has found one free. `OnlyASharedPoolDeadlocks`
follows without a further invariant: who waits with a connection in hand is a
transaction at a log, and the pool of the logs is MAIN only without one of its own.

### 4.4 `BackOffice`

`BackOfficeInv` strengthens the types to what each step needs: a request is on the
`Path` of its handler with the locals it should have (`Progress`), and of the tables
with a creation time there are finitely many rows, none newer than the newest
(`DatesInv`). A first group of lemmas in `BackOfficePropertyProofs` says what a step
can do to each table, so that each property looks only at its own: `BranchInv`
(a firm without a branch is that of a `create` under way), `FilesInv` (what the handler
will write has been sent, and no upload is taken back), `ScopeInv` (the defaults
looked up are still right when they are written, as no handler moves a firm, and
a branch stays in its firm), `UpdatesInv`.

`QuoteInv` is the hard one. Between the reads of `calculatePrice` the rates may change;
if one request changes them, then either the factors read so far are still those
of the tables, or the change came after one of them was read, and then the price
with the old factors was in `moments` before the change (`OneOfSeason`, `OneOfRule`).
Two requests could change one factor before and one after a read, and so it is
claimed of one only.

### 4.5 `Accounts`

`AccountsInv` strengthens the types by three parts for each request: `Fresh`, it has
left nothing in any table before it is over, except the role of a clone;
`StillFound`, what its handler has looked up is still there; `Holds`, it has locks only
inside a transaction and keeps locked what it has wiped. `StepAt` reduces a step to
the statement of its `pc`, `OnlyMoves` says that a step changes the variables of one
request, and there is one lemma for what a step can do to each table (`UsersMove`,
`InvitationsMove`, ... `LinksMove`).

The properties about overlap share an argument. A check and the statement it guards
are apart, so the check does not hold at the write. But a row that was there, with
its request over, when the request came (`Early`) was seen by the check, and a row that
appears later is that of a request that was not over then (`Kept`): so a collision
is with a request that overlaps. Each invariant says what the check found and that it
remains true of early rows: `NamesInv` and `RolesInv` of names, `DeleteInv` of links,
`MixInv` of links that the open transaction has wiped, `DecisionInv` of
invitations, `TokensInv` of tokens (here also that a token which another one has
superseded is marked as used). `ProtectInv` says that the row which was looked up is
either gone or still one that the caller may change, because no handler changes the
owner or the system flag of a row. `PlanInv` says that the plan which was read is
still the tenant's, and that what is left of the body is in it: whoever changes
either of them is a request that was not over when the assignment came, and of
those nothing is claimed. `WaitInv` says that the row of an invitation
or a token is locked only just before the commit.

**The refinement.** `enrolled` is the one variable of `AccountLedger` that is defined
(`Enrolled`). `UserAdded` and `EnrolledMove` say how it changes, `ReassignMaps` that
a commit of links takes from it and gives nothing back, `ExpiryMaps` and `StepMaps` map
each step to one of the ledger's or to a stutter; that a member's row and its
invitation come together is the commit at which all of them become visible.

### 4.6 Only model-checked

- `EveryRequestAnswered` of `FrontDesk` and of `Accounts`, `StartUpEnds` and
  `EveryRequestIsAnswered` of `Connections`: liveness under fairness, which needs
  ENABLED, is out of the prover's reach. `WaitsAreShort`, `NoLockIsLeftBehind` and
  `NoAnswerBeforeTheTransactionEnds` are the safety parts of it, and are proved.
- That the conditions under which a statement waits in `WaitsAreShort` (`Holders`,
  `Awaited`) are those of the actions' guards is a matter of reading the two: a
  theorem about it would be about ENABLED.
- The runs of `FrontDeskClaims` end in counterexamples, and there is nothing to prove.

No module has a RECURSIVE operator, and no proof needs induction over data: sums
are kept in the state as SQL computes them.

## 5. Plan

All services that write are modelled, and the safety of all of them is proved. What is
left, in this order:

1. The summary's UPDATE of `recordPayment` in two actions, read and write, for the
   plan in which the sums are read before the row is locked; with it the payment
   proofs for the variant that locks first.
2. Proofs of what further lemmas would say of the code: how long a quote can be off
   with two changes of the rates, what a retry after a lost answer can repeat.

## 6. Not modelled, and why

- Read-only parts: `findAll` and other lists, dashboards, analytics, profiles,
  `getEffectivePermissions`.
- Cryptography and third parties: encryption, JWT signing, password hashes, mails,
  Google login.
- Wrapping of answers and copying of headers: interceptors, tenant-context
  middleware, Swagger, the format of the exception filter's answer.
- Guards that no route uses (four of the six); `RolesGuard` and `JwtAuthGuard` are in
  `Arrive`.
- The endpoints of `upload.controller.ts` write objects that no table names. Nobody
  calls `deleteFile` or `closeAll`.
- `access-control.service.ts:570-629, 634-691, 722-738` hold merge-conflict
  markers; what follows from either side is not modelled.
- `main.ts` is bootstrap code: that requests come only after start-up is in
  `Connections`. It ends with an obfuscated statement that has nothing to do with the
  system's logic; it is not modelled and was not run.
- `AdminModule` re-exports the access-control module and is not imported. Tables of
  `table.sql` that no service uses, the seeds and the lock files are left out.
