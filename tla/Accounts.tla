------------------------------- MODULE Accounts -------------------------------
(***************************************************************************)
(* AuthService composed with AccessControl: registration, login, the       *)
(* firms and branches of a session, tenant onboarding, invitations,        *)
(* password resets and the tenants' plans.  Both work on roles, user_roles,*)
(* tenants and plans.                                                      *)
(*                                                                         *)
(* A user, an invitation or a reset token is named by the request that     *)
(* inserts it, and a password by the request that sets it: hashes, tokens  *)
(* and the signed payload are left out.  So is logActivity, which neither  *)
(* fails a handler nor touches these tables (see Connections).             *)
(***************************************************************************)
EXTENDS AccessControl

CONSTANTS
  Mix,       \* sets of calls; bounds what is asked for together
  Database,  \* the tables before any request
  Basic,     \* the slug 'basic'
  AdminRole  \* the name 'tenant_administration'

VARIABLES
  users,        \* users: [email, name, tenant, type, password, logins]
  firms,        \* firms: [tenant]
  branches,     \* branches: [firm]
  invitations,  \* invitations: [email, tenant, role, type, status, expired]
  resets,       \* password_resets: [user, used, expired]
  session       \* the token a request was answered with: [user, firm, branch]

accounts == <<users, firms, branches, invitations, resets>>
vars == <<accessVars, accounts, session>>

RegisterDto == [op: {"register"}, as: Caller, email: Key, name: Key]
LoginDto    == [op: {"login"}, as: Caller, name: Key, secret: Id]
SwitchDto   == [op: {"switchContext"}, as: Caller, user: Id, firm: Id,
                branch: Id \cup {NULL}]
CreateTenantDto == [op: {"createTenant"}, as: Caller, email: Key, name: Key]
SendInvitationDto ==
  [op: {"sendInvitation"}, as: Caller, email: Key, role: Id, type: UserType]
AcceptInvitationDto == [op: {"acceptInvitation"}, as: Caller, id: Id, name: Key]
RejectInvitationDto == [op: {"rejectInvitation"}, as: Caller, id: Id]
PasswordCall == [op: {"forgotPassword"}, as: Caller, email: Key]
                  \cup [op: {"resetPassword"}, as: Caller, id: Id]
TenantCall ==
  [op: {"updateTenant", "activateTenant", "deactivateTenant", "deleteTenant"},
   as: Caller, id: Id]
PlanCall == [op: {"assignPlan"}, as: Caller, id: Id, plan: Id]

AccountCall ==
  UNION {RegisterDto, LoginDto, SwitchDto, CreateTenantDto, SendInvitationDto,
         AcceptInvitationDto, RejectInvitationDto, PasswordCall, TenantCall, PlanCall}

ASSUME AccountsAssumption ==
  /\ UNION Mix \subseteq AccessCall \cup AccountCall
  /\ {Basic, AdminRole} \subseteq Key
  /\ NULL \notin Key

(* The rows of the tables.                                                 *)
OrNone(S) == S \cup {NULL}

KeyRow    == [key: Key, tenant: OrNone(Id), system: BOOLEAN]
TenantRow == [active: BOOLEAN, plan: OrNone(Id)]
UserRow   == [email: Key, name: Key, tenant: OrNone(Id),
              type: UserType, password: Id, logins: Nat]
FirmRow   == [tenant: Id]
BranchRow == [firm: Id]
InvitationRow == [email: Key, tenant: Id, role: Id, type: UserType,
                  status: {"pending", "accepted", "declined"}, expired: BOOLEAN]
ResetRow  == [user: Id, used: BOOLEAN, expired: BOOLEAN]
LinkRow   == [in: Link \ {"featurePermissions"}, from: Id, to: Id, by: Id]
               \cup [in: {"featurePermissions"}, from: Id \X Id, to: Id, by: Id]

(* The tables before any request: the rows are those of Seed, no two users *)
(* have one name, which every handler that inserts a user sees to, and the *)
(* user of a token is one, since no handler deletes a user.                *)
ASSUME DatabaseAssumption ==
  /\ Database.rows \in [Table -> [Id -> OrNone(KeyRow)]]
  /\ Database.links \subseteq LinkRow
  /\ Database.tenants \in [Id -> OrNone(TenantRow)]
  /\ Database.users \in [Id -> OrNone(UserRow)]
  /\ Database.firms \in [Id -> OrNone(FirmRow)]
  /\ Database.branches \in [Id -> OrNone(BranchRow)]
  /\ Database.invitations \in [Id -> OrNone(InvitationRow)]
  /\ Database.resets \in [Id -> OrNone(ResetRow)]
  /\ NULL \notin KeyRow \cup TenantRow \cup UserRow \cup FirmRow \cup BranchRow
                \cup InvitationRow \cup ResetRow
  /\ \A l \in Database.links : l.by \in Seed
  /\ \A q \in Request :
       /\ \A t \in Table : Database.rows[t][q] = NULL
       /\ Database.tenants[q] = NULL /\ Database.users[q] = NULL
       /\ Database.firms[q] = NULL /\ Database.branches[q] = NULL
       /\ Database.invitations[q] = NULL /\ Database.resets[q] = NULL
  /\ \A u \in Seed : Database.users[u] # NULL =>
       /\ Database.users[u].password \in Seed
       /\ \A v \in Seed \ {u} :
            Database.users[v] # NULL => Database.users[v].name # Database.users[u].name
  /\ \A t \in Seed :
       Database.resets[t] # NULL => Database.users[Database.resets[t].user] # NULL

Init ==
  /\ rows = Database.rows
  /\ links = Database.links
  /\ tenants = Database.tenants
  /\ users = Database.users
  /\ firms = Database.firms
  /\ branches = Database.branches
  /\ invitations = Database.invitations
  /\ resets = Database.resets
  /\ pc = [q \in Request |-> "idle"]
  /\ call = [q \in Request |-> NULL]
  /\ read = [q \in Request |-> NULL]
  /\ items = [q \in Request |-> {}]
  /\ wiped = [q \in Request |-> {}]
  /\ locked = [q \in Request |-> {}]
  /\ seen = [q \in Request |-> {}]
  /\ session = [q \in Request |-> NULL]
-----------------------------------------------------------------------------
(* JwtAuthGuard, RolesGuard and @Public: who may call what.                *)
Public == UserType \cup {"anonymous"}

AccountRoutes ==
  [register |-> Public, login |-> Public, switchContext |-> UserType,
   createTenant |-> {"SUPER_ADMIN"},
   sendInvitation |-> {"SUPER_ADMIN", "TENANT_ADMIN"},
   acceptInvitation |-> Public, rejectInvitation |-> Public,
   forgotPassword |-> Public, resetPassword |-> Public,
   updateTenant |-> {"SUPER_ADMIN"}, activateTenant |-> {"SUPER_ADMIN"},
   deactivateTenant |-> {"SUPER_ADMIN"}, deleteTenant |-> {"SUPER_ADMIN"},
   assignPlan |-> {"SUPER_ADMIN"}]

AccountFirst ==
  [register |-> "checkUser", createTenant |-> "checkUser", login |-> "findLogin",
   switchContext |-> "findUser", sendInvitation |-> "checkEmail",
   acceptInvitation |-> "findInvitation", rejectInvitation |-> "findInvitation",
   forgotPassword |-> "findEmail", resetPassword |-> "findToken",
   updateTenant |-> "findTenant", activateTenant |-> "findTenant",
   deactivateTenant |-> "findTenant", deleteTenant |-> "findTenant",
   assignPlan |-> "findTenant"]

Allows(c) ==
  IF c.op \in DOMAIN AccessRoutes
  THEN c.as.type \in AccessRoutes[c.op] /\ OwnTenant(c)
  ELSE c.as.type \in AccountRoutes[c.op]

FirstStep(c) ==
  IF c.op \in DOMAIN AccessFirst THEN AccessFirst[c.op] ELSE AccountFirst[c.op]

Arrive(q) ==
  /\ pc[q] = "idle"
  /\ \E calls \in Mix : \E c \in calls :
       /\ \A p \in Request : pc[p] # "idle" => call[p] \in calls
       /\ call' = [call EXCEPT ![q] = c]
       /\ Goto(q, IF Allows(c) THEN FirstStep(c) ELSE "failed")
  /\ seen' = [seen EXCEPT ![q] = {p \in Request : Over(p)}]
  /\ UNCHANGED <<data, pending, accounts, session>>

(* A statement throws, or runs out of its requestTimeout while it waits.   *)
(* When it commits by itself, what it did stays: the failure of the next   *)
(* statement has the same outcome.                                         *)
Fail(q) ==
  /\ Faults
  /\ pc[q] # "idle" /\ ~Over(q)
  /\ Abort(q)
  /\ UNCHANGED <<accounts, session>>

Refuse(q) == Abort(q) /\ UNCHANGED <<accounts, session>>

(* A statement that only reads, and perhaps keeps what it has found.       *)
ReadOnly == UNCHANGED <<data, asked, items, wiped, locked, accounts, session>>
Found(q, r) == read' = [read EXCEPT ![q] = r]

(* A statement that writes in its transaction.                             *)
Wrote(q, rs) ==
  /\ Lock(q, rs)
  /\ UNCHANGED <<data, asked, read, items, wiped, accounts, session>>

Row0(email, name, tenant, type, q) ==
  [email |-> email, name |-> name, tenant |-> tenant, type |-> type,
   password |-> q, logins |-> 0]

UserRole(q, role) == [in |-> "userRoles", from |-> q, to |-> role, by |-> q]
-----------------------------------------------------------------------------
(* register and createTenantWithUser.                                      *)

Users == {u \in Id : users[u] # NULL}

CheckUser(q) ==
  /\ pc[q] = "checkUser"
  /\ Scan("users", q)
  /\ IF \E u \in Users : users[u].email = call[q].email \/ users[u].name = call[q].name
     THEN Refuse(q)
     ELSE /\ Goto(q, IF Op(q) = "register" THEN "create" ELSE "basicPlan")
          /\ ReadOnly /\ UNCHANGED read

(* sp_CreateUser, without a tenant and so without a default role.          *)
Create(q) ==
  /\ pc[q] = "create"
  /\ users' = [users EXCEPT ![q] =
                 Row0(call[q].email, call[q].name, NULL, "TENANT_USER", q)]
  /\ Reply(q)
  /\ UNCHANGED <<data, asked, pending, firms, branches, invitations, resets, session>>

BasicPlan(q) ==
  /\ pc[q] = "basicPlan"
  /\ LET basic == {p \in Id : rows.plans[p] # NULL /\ rows.plans[p].key = Basic}
     IN \/ basic = {} /\ Refuse(q)
        \/ /\ \E p \in basic : Found(q, p)
           /\ Goto(q, "insertTenant")
           /\ ReadOnly

(* Slip: the tenant is inserted before the transaction.                    *)
InsertTenantSlip(q) ==
  /\ pc[q] = "insertTenant"
  /\ tenants' = [tenants EXCEPT ![q] = [active |-> TRUE, plan |-> read[q]]]
  /\ Goto(q, "adminRole")
  /\ UNCHANGED <<rows, links, asked, pending, accounts, session>>

(* The transaction opens.  tenant_code is unique but holds the time in     *)
(* milliseconds: a collision is one of the failures.                       *)
InsertTenant(q) ==
  /\ pc[q] = "insertTenant"
  /\ Goto(q, "adminRole")
  /\ Wrote(q, {<<"tenants", q>>})

AdminRoleId(q) ==
  /\ pc[q] = "adminRole"
  /\ LET named == {r \in Id : rows.roles[r] # NULL /\ rows.roles[r].key = AdminRole}
     IN \/ named = {} /\ Refuse(q)
        \/ /\ \E r \in named : items' = [items EXCEPT ![q] = {r}]
           /\ Goto(q, "insertAdmin")
           /\ UNCHANGED <<data, asked, read, wiped, locked, accounts, session>>

(* The INSERTs of the user, its role, the firm and the branch, none of     *)
(* which can wait.                                                         *)
InsertAdmin(q) ==
  /\ pc[q] = "insertAdmin"
  /\ Goto(q, "commitTenant")
  /\ Wrote(q, {<<t, q>> : t \in {"users", "userRoles", "firms", "branches"}})

CommitTenant(q) ==
  /\ pc[q] = "commitTenant"
  /\ tenants' = [tenants EXCEPT ![q] = [active |-> TRUE, plan |-> read[q]]]
  /\ users' = [users EXCEPT ![q] =
                 Row0(call[q].email, call[q].name, q, "TENANT_ADMIN", q)]
  /\ links' = links \cup {UserRole(q, r) : r \in items[q]}
  /\ firms' = [firms EXCEPT ![q] = [tenant |-> q]]
  /\ branches' = [branches EXCEPT ![q] = [firm |-> q]]
  /\ Reply(q)
  /\ Settle(q)
  /\ UNCHANGED <<rows, asked, invitations, resets, session>>
-----------------------------------------------------------------------------
(* login and switchContext.  Nothing here gives a user a default firm or   *)
(* takes its status from 'active'.                                         *)

FindLogin(q) ==
  /\ pc[q] = "findLogin"
  /\ Scan("users", q) /\ Scan("userRoles", q)
  /\ LET named == {u \in Users : call[q].name \in {users[u].email, users[u].name}}
     IN \/ named = {} /\ Refuse(q)
        \/ \E u \in named : users[u].password # call[q].secret /\ Refuse(q)
        \/ \E u \in named : /\ users[u].password = call[q].secret
                            /\ Found(q, u)
                            /\ Goto(q, "findContext")
                            /\ ReadOnly

Token(q, firm, branch) ==
  session' = [session EXCEPT ![q] = [user |-> read[q], firm |-> firm, branch |-> branch]]

FirmsOf(u) == {f \in Id : /\ firms[f] # NULL
                          /\ users[u].tenant # NULL
                          /\ firms[f].tenant = users[u].tenant}

(* Slip: the branch is not looked for in its firm.                         *)
BranchesOfSlip(f) == {b \in Id : branches[b] # NULL}

BranchesOf(f) == {b \in Id : branches[b] # NULL /\ branches[b].firm = f}

OrNull(S) == IF S = {} THEN {NULL} ELSE S

(* The oldest firm of the user's tenant and its oldest branch.  The        *)
(* creation times are left out: any firm, any branch of it.                *)
FindContext(q) ==
  /\ pc[q] = "findContext"
  /\ Scan("firms", q) /\ Scan("branches", q)
  /\ \E f \in OrNull(FirmsOf(read[q])) :
       \E b \in OrNull(BranchesOf(f)) : Token(q, f, b)
  /\ Goto(q, "countLogin")
  /\ UNCHANGED <<data, asked, pending, accounts>>

(* login_count = login_count + 1.                                          *)
CountLogin(q) ==
  /\ pc[q] = "countLogin"
  /\ Seek("users", read[q], q)
  /\ users' = [users EXCEPT ![read[q]].logins = @ + 1]
  /\ Reply(q)
  /\ UNCHANGED <<data, asked, pending, firms, branches, invitations, resets, session>>

FindUser(q) ==
  /\ pc[q] = "findUser"
  /\ Seek("users", call[q].user, q) /\ Scan("userRoles", q)
  /\ \/ users[call[q].user] = NULL /\ Refuse(q)
     \/ /\ users[call[q].user] # NULL
        /\ Found(q, call[q].user)
        /\ Goto(q, "checkFirm")
        /\ ReadOnly

CheckFirm(q) ==
  /\ pc[q] = "checkFirm"
  /\ Seek("firms", call[q].firm, q)
  /\ IF call[q].firm \notin FirmsOf(read[q])
     THEN Refuse(q)
     ELSE IF call[q].branch # NULL
     THEN Goto(q, "checkBranch") /\ ReadOnly /\ UNCHANGED read
     ELSE /\ Goto(q, "ok") /\ Token(q, call[q].firm, NULL)
          /\ UNCHANGED <<data, asked, pending, accounts>>

CheckBranch(q) ==
  /\ pc[q] = "checkBranch"
  /\ Seek("branches", call[q].branch, q)
  /\ IF call[q].branch \notin BranchesOf(call[q].firm)
     THEN Refuse(q)
     ELSE /\ Goto(q, "ok") /\ Token(q, call[q].firm, call[q].branch)
          /\ UNCHANGED <<data, asked, pending, accounts>>
-----------------------------------------------------------------------------
(* Invitations.                                                            *)

(* Without a tenant the handler throws, or, for the super admin, the       *)
(* NOT NULL tenant_id of invitations does.                                 *)
CheckEmail(q) ==
  /\ pc[q] = "checkEmail"
  /\ Scan("users", q)
  /\ IF call[q].as.tenant = NULL \/ \E u \in Users : users[u].email = call[q].email
     THEN Refuse(q)
     ELSE Goto(q, "invite") /\ ReadOnly /\ UNCHANGED read

(* sp_CreateInvitation.                                                    *)
Invite(q) ==
  /\ pc[q] = "invite"
  /\ invitations' = [invitations EXCEPT ![q] =
       [email |-> call[q].email, tenant |-> call[q].as.tenant, role |-> call[q].role,
        type |-> call[q].type, status |-> "pending", expired |-> FALSE]]
  /\ Reply(q)
  /\ UNCHANGED <<data, asked, pending, users, firms, branches, resets, session>>

(* Slip: the status is not asked for.                                      *)
OpenSlip(i) == invitations[i] # NULL

Open(i) == invitations[i] # NULL /\ invitations[i].status = "pending"

(* acceptInvitation asks for expires_at, rejectInvitation does not.        *)
FindInvitation(q) ==
  /\ pc[q] = "findInvitation"
  /\ Scan("invitations", q)
  /\ IF \/ ~Open(call[q].id)
        \/ Op(q) = "acceptInvitation" /\ invitations[call[q].id].expired
     THEN Refuse(q)
     ELSE /\ Goto(q, IF Op(q) = "acceptInvitation" THEN "checkName" ELSE "decline")
          /\ ReadOnly /\ UNCHANGED read

(* Slip: the name is not looked for.                                       *)
CheckNameSlip(q) ==
  /\ pc[q] = "checkName"
  /\ Goto(q, "insertMember")
  /\ ReadOnly /\ UNCHANGED read

(* Only the name: the invitation's e-mail is not checked again.            *)
CheckName(q) ==
  /\ pc[q] = "checkName"
  /\ Scan("users", q)
  /\ IF \E u \in Users : users[u].name = call[q].name
     THEN Refuse(q)
     ELSE Goto(q, "insertMember") /\ ReadOnly /\ UNCHANGED read

(* Slip: the invitation is read again WITH (HOLDLOCK), which lets another  *)
(* reader do the same, before the UPDATE needs the row alone.              *)
InsertMemberSlip(q) ==
  /\ pc[q] = "insertMember"
  /\ Goto(q, "markAccepted")
  /\ Wrote(q, {<<"users", q>>, <<"userRoles", q>>, <<"invitations", call[q].id>>})

(* The transaction opens: the user and its role.                           *)
InsertMember(q) ==
  /\ pc[q] = "insertMember"
  /\ Goto(q, "markAccepted")
  /\ Wrote(q, {<<"users", q>>, <<"userRoles", q>>})

(* UPDATE ... WHERE id, whatever the status has become.                    *)
MarkAccepted(q) ==
  /\ pc[q] = "markAccepted"
  /\ Seek("invitations", call[q].id, q)
  /\ Goto(q, "commitMember")
  /\ Wrote(q, {<<"invitations", call[q].id>>})

CommitMember(q) ==
  /\ pc[q] = "commitMember"
  /\ LET i == invitations[call[q].id]
     IN /\ users' = [users EXCEPT ![q] = Row0(i.email, call[q].name, i.tenant, i.type, q)]
        /\ links' = links \cup {UserRole(q, i.role)}
  /\ invitations' = [invitations EXCEPT ![call[q].id].status = "accepted"]
  /\ Reply(q)
  /\ Settle(q)
  /\ UNCHANGED <<rows, tenants, asked, firms, branches, resets, session>>

(* UPDATE ... WHERE invitation_token, whatever the status has become.      *)
Decline(q) ==
  /\ pc[q] = "decline"
  /\ Scan("invitations", q)
  /\ invitations' = [invitations EXCEPT ![call[q].id].status = "declined"]
  /\ Reply(q)
  /\ UNCHANGED <<data, asked, pending, users, firms, branches, resets, session>>
-----------------------------------------------------------------------------
(* Password resets.                                                        *)

(* An unknown e-mail is answered like a known one.                         *)
FindEmail(q) ==
  /\ pc[q] = "findEmail"
  /\ Scan("users", q)
  /\ LET owners == {u \in Users : users[u].email = call[q].email}
     IN \/ owners = {} /\ Goto(q, "ok") /\ UNCHANGED read
        \/ \E u \in owners : Found(q, u) /\ Goto(q, "invalidate")
  /\ ReadOnly

(* Slip: the tokens that were sent before stay valid.                      *)
InvalidateSlip(q) ==
  /\ pc[q] = "invalidate"
  /\ Goto(q, "issue")
  /\ UNCHANGED <<data, asked, pending, accounts, session>>

(* sp_CreatePasswordReset, two statements.                                 *)
Invalidate(q) ==
  /\ pc[q] = "invalidate"
  /\ Scan("resets", q)
  /\ resets' = [t \in Id |-> IF resets[t] # NULL /\ resets[t].user = read[q]
                             THEN [resets[t] EXCEPT !.used = TRUE] ELSE resets[t]]
  /\ Goto(q, "issue")
  /\ UNCHANGED <<data, asked, pending, users, firms, branches, invitations, session>>

(* The mail is sent afterwards and may throw.                              *)
Issue(q) ==
  /\ pc[q] = "issue"
  /\ resets' = [resets EXCEPT ![q] = [user |-> read[q], used |-> FALSE, expired |-> FALSE]]
  /\ \/ Goto(q, "ok")
     \/ Goto(q, "failed")
  /\ UNCHANGED <<data, asked, pending, users, firms, branches, invitations, session>>

FindToken(q) ==
  /\ pc[q] = "findToken"
  /\ Seek("resets", call[q].id, q)
  /\ LET t == resets[call[q].id]
     IN IF t = NULL \/ t.used \/ t.expired
        THEN Refuse(q)
        ELSE /\ Seek("users", t.user, q)
             /\ Found(q, t.user)
             /\ Goto(q, "setPassword")
             /\ ReadOnly

SetPassword(q) ==
  /\ pc[q] = "setPassword"
  /\ Seek("users", read[q], q)
  /\ Goto(q, "spend")
  /\ Wrote(q, {<<"users", read[q]>>})

(* UPDATE ... WHERE reset_token, whether or not it has been used meanwhile.*)
Spend(q) ==
  /\ pc[q] = "spend"
  /\ Seek("resets", call[q].id, q)
  /\ Goto(q, "commitReset")
  /\ Wrote(q, {<<"resets", call[q].id>>})

CommitReset(q) ==
  /\ pc[q] = "commitReset"
  /\ users' = [users EXCEPT ![read[q]].password = q]
  /\ resets' = [resets EXCEPT ![call[q].id].used = TRUE]
  /\ Reply(q)
  /\ Settle(q)
  /\ UNCHANGED <<data, asked, firms, branches, invitations, session>>
-----------------------------------------------------------------------------
(* Tenants.  The row that is read again for the answer is left out.        *)

(* getTenantById joins the tenant with its users and its plan.             *)
FindTenant(q) ==
  /\ pc[q] = "findTenant"
  /\ Seek("tenants", call[q].id, q) /\ Scan("users", q)
  /\ \/ tenants[call[q].id] = NULL /\ Refuse(q)
     \/ /\ tenants[call[q].id] # NULL
        /\ Goto(q, IF Op(q) = "assignPlan" THEN "findPlan" ELSE "writeTenant")
        /\ ReadOnly /\ UNCHANGED read

FindPlan(q) ==
  /\ pc[q] = "findPlan"
  /\ \/ rows.plans[call[q].plan] = NULL /\ Refuse(q)
     \/ /\ rows.plans[call[q].plan] # NULL
        /\ Goto(q, "writeTenant")
        /\ ReadOnly /\ UNCHANGED read

(* updateTenant writes, if any, the columns left out here.                 *)
WriteTenant(q) ==
  /\ pc[q] = "writeTenant"
  /\ Seek("tenants", call[q].id, q)
  /\ tenants' = [tenants EXCEPT ![call[q].id] =
       [active |-> IF Op(q) \in {"updateTenant", "assignPlan"} THEN @.active
                   ELSE Op(q) = "activateTenant",
        plan |-> IF Op(q) = "assignPlan" THEN call[q].plan ELSE @.plan]]
  /\ Reply(q)
  /\ UNCHANGED <<rows, links, asked, pending, accounts, session>>
-----------------------------------------------------------------------------
AccountStep(q) ==
  \/ CheckUser(q) \/ Create(q) \/ BasicPlan(q) \/ InsertTenant(q) \/ AdminRoleId(q)
  \/ InsertAdmin(q) \/ CommitTenant(q) \/ FindLogin(q) \/ FindContext(q)
  \/ CountLogin(q) \/ FindUser(q) \/ CheckFirm(q) \/ CheckBranch(q) \/ CheckEmail(q)
  \/ Invite(q) \/ FindInvitation(q) \/ CheckName(q) \/ InsertMember(q)
  \/ MarkAccepted(q) \/ CommitMember(q) \/ Decline(q) \/ FindEmail(q)
  \/ Invalidate(q) \/ Issue(q) \/ FindToken(q) \/ SetPassword(q) \/ Spend(q)
  \/ CommitReset(q) \/ FindTenant(q) \/ FindPlan(q) \/ WriteTenant(q)

Step(q) ==
  \/ AccessStep(q) /\ UNCHANGED <<accounts, session>>
  \/ AccountStep(q)

(* expires_at passes; bounded to what the request q is about to look up.   *)
Expire(q) ==
  /\ LET i == call[q].id
     IN \/ /\ pc[q] = "findInvitation"
           /\ invitations[i] # NULL /\ ~invitations[i].expired
           /\ invitations' = [invitations EXCEPT ![i].expired = TRUE]
           /\ UNCHANGED resets
        \/ /\ pc[q] = "findToken"
           /\ resets[i] # NULL /\ ~resets[i].expired
           /\ resets' = [resets EXCEPT ![i].expired = TRUE]
           /\ UNCHANGED invitations
  /\ UNCHANGED <<accessVars, users, firms, branches, session>>

Next ==
  \E q \in Request : Arrive(q) \/ Fail(q) \/ Step(q) \/ Expire(q)

(* A statement that does not wait for a lock ends.  Requests need not      *)
(* come, nothing need fail, and expiry is not relied upon.                 *)
Fairness == \A q \in Request : WF_vars(Step(q))

Spec == Init /\ [][Next]_vars /\ Fairness
-----------------------------------------------------------------------------
AccessPc == {"idle", "ok", "failed", "unique", "insert", "lookup", "write", "count",
             "strip", "drop", "copy", "role", "plan", "allowed", "wipe", "grant",
             "commitLinks"}

AccountPc ==
  {"checkUser", "create", "basicPlan", "insertTenant", "adminRole", "insertAdmin",
   "commitTenant", "findLogin", "findContext", "countLogin", "findUser", "checkFirm",
   "checkBranch", "checkEmail", "invite", "findInvitation", "checkName",
   "insertMember", "markAccepted", "commitMember", "decline", "findEmail",
   "invalidate", "issue", "findToken", "setPassword", "spend", "commitReset",
   "findTenant", "findPlan", "writeTenant"}

(* The statements that a handler may be at.                                *)
Path ==
  LET links_  == {"wipe", "grant", "commitLinks"}
      tenant_ == {"findTenant", "writeTenant"} IN
  [createRole |-> {"unique", "insert"}, createPermission |-> {"unique", "insert"},
   createPlan |-> {"unique", "insert"}, createFeature |-> {"insert"},
   createMenuPermission |-> {"insert"},
   updateRole |-> {"lookup", "write"}, updatePermission |-> {"lookup", "unique", "write"},
   updateMenuPermission |-> {"lookup", "write"},
   deleteRole |-> {"lookup", "count", "strip", "drop"},
   deletePermission |-> {"lookup", "count", "drop"},
   deleteMenuPermission |-> {"lookup", "drop"},
   cloneRole |-> {"lookup", "unique", "insert", "copy", "role"} \cup links_,
   assignRolePermissions |-> {"role", "plan", "allowed"} \cup links_,
   assignUserRoles |-> links_, assignFeaturePermissions |-> links_,
   register |-> {"checkUser", "create"},
   createTenant |-> {"checkUser", "basicPlan", "insertTenant", "adminRole",
                     "insertAdmin", "commitTenant"},
   login |-> {"findLogin", "findContext", "countLogin"},
   switchContext |-> {"findUser", "checkFirm", "checkBranch"},
   sendInvitation |-> {"checkEmail", "invite"},
   acceptInvitation |-> {"findInvitation", "checkName", "insertMember",
                         "markAccepted", "commitMember"},
   rejectInvitation |-> {"findInvitation", "decline"},
   forgotPassword |-> {"findEmail", "invalidate", "issue"},
   resetPassword |-> {"findToken", "setPassword", "spend", "commitReset"},
   updateTenant |-> tenant_, activateTenant |-> tenant_, deactivateTenant |-> tenant_,
   deleteTenant |-> tenant_, assignPlan |-> {"findPlan"} \cup tenant_]

Lockable ==
  (Table \cup Link \cup {"tenants", "users", "firms", "branches", "invitations", "resets"})
    \X (Id \cup (Id \X Id))

(* The type of the state; a handler is at a statement of its own, a        *)
(* request holds locks only between the statements of a transaction, and   *)
(* what it has deleted there is still there until it commits.              *)
TypeOK ==
  /\ rows \in [Table -> [Id -> OrNone(KeyRow)]]
  /\ links \subseteq LinkRow
  /\ tenants \in [Id -> OrNone(TenantRow)]
  /\ pc \in [Request -> AccessPc \cup AccountPc]
  /\ call \in [Request -> OrNone(UNION Mix)]
  /\ \A q \in Request :
       IF pc[q] = "idle" THEN call[q] = NULL
       ELSE call[q] \in UNION Mix /\ pc[q] \in Path[Op(q)] \cup {"ok", "failed"}
  /\ locked \in [Request -> SUBSET Lockable]
  /\ \A q \in Request : pc[q] \in {"idle", "ok", "failed"} => locked[q] = {}
  /\ read \in [Request -> OrNone(Id)]
  /\ items \in [Request -> SUBSET Id]
  /\ wiped \in [Request -> SUBSET links]
  /\ seen \in [Request -> SUBSET Request]
  /\ users \in [Id -> OrNone(UserRow)]
  /\ firms \in [Id -> OrNone(FirmRow)]
  /\ branches \in [Id -> OrNone(BranchRow)]
  /\ invitations \in [Id -> OrNone(InvitationRow)]
  /\ resets \in [Id -> OrNone(ResetRow)]
  /\ session \in [Request -> OrNone([user: Id, firm: OrNone(Id), branch: OrNone(Id)])]

(* p was answered before q came; otherwise the two have overlapped, or q   *)
(* came first.  Most checks of these services precede the statement they   *)
(* guard by an await or more, and hold only against requests that do not   *)
(* overlap: the properties below say so.                                   *)
Before(p, q) == p \in seen[q]
Asks(q, ops) == pc[q] # "idle" /\ Op(q) \in ops

(* What acceptInvitation and rejectInvitation decide is final: a request   *)
(* that comes after the answer of another one for the same invitation      *)
(* neither creates a user nor declines.                                    *)
Decided(q) == \/ Op(q) = "acceptInvitation" /\ users[q] # NULL
              \/ Op(q) = "rejectInvitation" /\ pc[q] = "ok"

InvitationIsFinal ==
  \A p, q \in Request :
    /\ Asks(q, {"acceptInvitation", "rejectInvitation"})
    /\ Asks(p, {"acceptInvitation", "rejectInvitation"})
    /\ Before(p, q) /\ call[p].id = call[q].id
    => ~(Decided(p) /\ Decided(q))

(* A reset token works once, and not any more when a new one has been      *)
(* issued: resetPassword does nothing with a token that an earlier         *)
(* resetPassword has used, or that was there when a later forgotPassword   *)
(* issued another one for the same user.                                   *)
SpentTokensStaySpent ==
  \A p, q \in Request :
    /\ Asks(q, {"resetPassword"}) /\ Before(p, q)
    /\ \/ Asks(p, {"resetPassword"}) /\ pc[p] = "ok" /\ call[p].id = call[q].id
       \/ /\ resets[p] # NULL /\ call[q].id # p
          /\ resets[call[q].id] # NULL /\ resets[call[q].id].user = resets[p].user
          /\ call[q].id \in Seed \/ Before(call[q].id, p)
    => pc[q] # "ok" /\ \A u \in Users : users[u].password # q

(* The firm and the branch that login and switchContext put into a token   *)
(* belong together and to the tenant of the user.                          *)
SessionStaysInItsTenant ==
  \A q \in Request :
    session[q] # NULL =>
      LET s == session[q]
      IN /\ s.firm # NULL => firms[s.firm].tenant = users[s.user].tenant
         /\ s.branch # NULL => s.firm # NULL /\ branches[s.branch].firm = s.firm

(* register, createTenantWithUser and acceptInvitation look for the name   *)
(* before they insert it, and no constraint backs them: two users have one *)
(* name only if the requests that made them have overlapped.               *)
UsernamesCollideOnlyByOverlap ==
  \A u, v \in Users :
    u # v /\ users[u].name = users[v].name
    => {u, v} \subseteq Request /\ ~Before(u, v) /\ ~Before(v, u)

(* The same of createRole and cloneRole, except for roles that updateRole, *)
(* which does not look, has renamed.                                       *)
RoleNamesCollideOnlyByOverlap ==
  \A r \in Id, q \in Request :
    /\ r # q /\ rows.roles[r] # NULL /\ rows.roles[q] # NULL
    /\ rows.roles[r].key = rows.roles[q].key
    /\ rows.roles[r].tenant \in {rows.roles[q].tenant, NULL}
    /\ r \in Seed \/ Before(r, q)
    => \E p \in Request : Asks(p, {"updateRole"}) /\ call[p].id \in {r, q}

(* assignRolePermissions, assignUserRoles and assignFeaturePermissions     *)
(* replace what was there: nothing remains of an assignment that had been  *)
(* answered when the later one came.                                       *)
Assigns == {"assignRolePermissions", "assignUserRoles", "assignFeaturePermissions"}

LinksMixOnlyByOverlap ==
  \A l, m \in links :
    /\ l.in = m.in /\ l.from = m.from
    /\ m.by \in Request /\ Asks(m.by, Assigns)
    => l.by \notin Seed /\ ~(Before(l.by, m.by))

(* deleteRole and deletePermission spare what is in use: when one of them  *)
(* is acknowledged, a link that had been there when it came is not left    *)
(* dangling, and a deleted role keeps no permission it had.                *)
DeleteLeavesNoDanglingLink ==
  \A l \in links, q \in Request :
    /\ Asks(q, {"deleteRole", "deletePermission"}) /\ pc[q] = "ok"
    /\ l.by \in Seed \/ Before(l.by, q)
    => /\ ~(l.in = UsedIn[Op(q)] /\ l.to = call[q].id)
       /\ ~(Op(q) = "deleteRole" /\ l.in = "rolePermissions" /\ l.from = call[q].id)

(* The tenant's plan has a feature with the permission.                    *)
PlanIncludes(t, permission) ==
  /\ tenants[t] # NULL
  /\ \E l \in links : /\ l.in = "featurePermissions"
                      /\ l.from[2] = tenants[t].plan
                      /\ l.to = permission

(* Request p gives the tenant another plan, or its plan other permissions. *)
Replans(p, t) ==
  \/ Asks(p, {"assignPlan"}) /\ call[p].id = t
  \/ Asks(p, {"assignFeaturePermissions"}) /\ call[p].tenant = tenants[t].plan

(* What a tenant's assignRolePermissions grants is in the tenant's plan.   *)
(* The plan and its permissions are read in two statements that commit     *)
(* before the transaction opens, so this is promised as long as nobody     *)
(* replans the tenant but in requests that were over when it came.         *)
GrantsStayInThePlan ==
  \A l \in links, q \in Request :
    /\ l.by = q /\ Asks(q, {"assignRolePermissions"}) /\ Scope(q) # NULL
    /\ \A p \in Request : Replans(p, Scope(q)) => Before(p, q)
    => PlanIncludes(Scope(q), l.to)

(* System rows are never changed or deleted, and the roles of a tenant     *)
(* only by a request of that tenant, of the super admin or of a user       *)
(* without a tenant, though each handler looks at the row only once and    *)
(* acts on it one to three statements later.                               *)
ProtectedRowsStay ==
  [][\A t \in Table, r \in Id :
       rows[t][r] # NULL /\ rows'[t][r] # rows[t][r] =>
         /\ ~rows[t][r].system
         /\ \E q \in Request :
              /\ pc'[q] # pc[q]
              /\ t = "roles" /\ Scope(q) # NULL
                   => rows.roles[r].tenant \in {Scope(q), NULL}]_vars

(* The statements of the transactions but for the first of each, which     *)
(* opens it, and the row that one of them has to wait for.                 *)
InTransaction ==
  {"grant", "commitLinks", "adminRole", "insertAdmin", "commitTenant", "markAccepted",
   "commitMember", "spend", "commitReset"}

Awaited(q) ==
  CASE pc[q] = "markAccepted" -> {<<"invitations", call[q].id>>}
    [] pc[q] = "spend" -> {<<"resets", call[q].id>>}
    [] OTHER -> {}

(* No circle of waits, however many requests lock whatever rows: who has   *)
(* locked a row is inside its transaction and does not wait, or waits for  *)
(* a transaction that does not.                                            *)
WaitsAreShort ==
  \A q \in Request : locked[q] # {} =>
    /\ pc[q] \in InTransaction
    /\ \A p \in Request \ {q} : locked[p] \cap Awaited(q) # {} => Awaited(p) = {}

(* Nobody waits for ever, whatever the requests lock and whether or not    *)
(* statements fail: each request that comes is answered.                   *)
EveryRequestAnswered == \A q \in Request : pc[q] # "idle" ~> Over(q)

(* The users that have the role they came with.                            *)
Enrolled == {u \in Users : \E l \in links : l.in = "userRoles" /\ l.from = u /\ l.by = u}

Ledger == INSTANCE AccountLedger WITH enrolled <- Enrolled

(* Every step is one of the AccountLedger's: a tenant comes with its       *)
(* administrator, firm and branch or not at all, a member with the         *)
(* invitation's acceptance, a password with its token.                     *)
LedgerSpec == Ledger!Spec
=============================================================================
