---------------------------- MODULE AccountsProofs ----------------------------
(***************************************************************************)
(* What holds of the accounts for every set of requests, every mix of      *)
(* calls and every contents of the tables to begin with.                   *)
(***************************************************************************)
EXTENDS Accounts, TLAPS

(* What request q, or the clock at the row it is about to look up, may do. *)
Move(q) == Arrive(q) \/ Fail(q) \/ Step(q) \/ Expire(q)

(* The row of request q has been inserted, or never will be.               *)
Inserted(q) ==
  \/ Over(q)
  \/ pc[q] \in {"copy", "role", "wipe", "grant", "commitLinks"} /\ Op(q) = "cloneRole"

(* Only a request that is over has left something in the tables, except    *)
(* for a clone, whose role is there while its permissions are copied.      *)
Fresh(q) ==
  /\ ~Over(q) =>
       /\ users[q] = NULL /\ tenants[q] = NULL /\ firms[q] = NULL /\ branches[q] = NULL
       /\ invitations[q] = NULL /\ resets[q] = NULL
       /\ \A u \in Users : users[u].password # q
       /\ \A l \in links : l.by # q
  /\ ~Inserted(q) => \A t \in Table : rows[t][q] = NULL

(* What a handler has looked for is still there.                           *)
StillFound(q) ==
  /\ pc[q] \in {"findContext", "countLogin", "checkFirm", "checkBranch", "invalidate",
                "issue", "setPassword", "spend", "commitReset"} => read[q] \in Users
  /\ pc[q] = "checkBranch" => call[q].firm \in FirmsOf(read[q])
  /\ pc[q] \in {"setPassword", "spend", "commitReset"} =>
       resets[call[q].id] # NULL /\ resets[call[q].id].user = read[q]
  /\ pc[q] \in {"checkName", "insertMember", "markAccepted", "commitMember", "decline"} =>
       invitations[call[q].id] # NULL
  /\ pc[q] \in {"findPlan", "writeTenant"} => tenants[call[q].id] # NULL
  /\ pc[q] \in {"insertAdmin", "commitTenant"} => items[q] # {}
  /\ pc[q] = "invite" => call[q].as.tenant # NULL
  /\ pc[q] = "plan" => Scope(q) # NULL

(* A transaction holds what it has deleted.                                *)
Holds(q) ==
  /\ pc[q] \notin InTransaction => locked[q] = {}
  /\ pc[q] \notin {"grant", "commitLinks"} => wiped[q] = {}
  /\ wiped[q] # {} => <<LinkOf[Op(q)], Target(q)>> \in locked[q]
  /\ wiped[q] \subseteq {l \in LinkRow : l.in = LinkOf[Op(q)] /\ l.from = Target(q)}

AccountsInv ==
  /\ TypeOK
  /\ \A q \in Request : Fresh(q) /\ StillFound(q) /\ Holds(q)
  /\ \A p, q \in Request : p # q => wiped[p] \cap wiped[q] = {}
  /\ \A t \in Id : resets[t] # NULL => resets[t].user \in Users
  /\ \A p, q \in Request : p \in seen[q] => Over(p)
-----------------------------------------------------------------------------
(* What a call asks for.                                                   *)
Creates == {"createRole", "createPermission", "createPlan", "createFeature",
            "createMenuPermission", "cloneRole"}
Deletes == {"deleteRole", "deletePermission", "deleteMenuPermission"}
TenantOps == {"updateTenant", "activateTenant", "deactivateTenant", "deleteTenant",
              "assignPlan"}

LEMMA CallFields ==
  ASSUME NEW c \in UNION Mix
  PROVE  /\ c.as \in Caller /\ c.op \in DOMAIN Path
         /\ c.op \in Creates => c.key \in Key /\ c.tenant \in OrNone(Id)
                                /\ c.system \in BOOLEAN
         /\ c.op \in Updates => c.id \in Id /\ c.key \in OrNone(Key)
         /\ c.op \in Deletes \cup {"cloneRole"} => c.id \in Id
         /\ c.op \in Assigns => c.id \in Id /\ c.items \in SUBSET Id
         /\ c.op = "assignFeaturePermissions" => c.tenant \in Id
         /\ c.op \in {"register", "createTenant"} => c.email \in Key /\ c.name \in Key
         /\ c.op = "login" => c.name \in Key /\ c.secret \in Id
         /\ c.op = "switchContext" => c.user \in Id /\ c.firm \in Id
                                      /\ c.branch \in OrNone(Id)
         /\ c.op = "sendInvitation" => c.email \in Key /\ c.role \in Id
                                       /\ c.type \in UserType
         /\ c.op \in {"acceptInvitation", "rejectInvitation", "resetPassword"} => c.id \in Id
         /\ c.op = "acceptInvitation" => c.name \in Key
         /\ c.op = "forgotPassword" => c.email \in Key
         /\ c.op \in TenantOps => c.id \in Id
         /\ c.op = "assignPlan" => c.plan \in Id
PROOF
  <1>0. DOMAIN Path = {"createRole", "createPermission", "createPlan", "createFeature",
          "createMenuPermission", "updateRole", "updatePermission", "updateMenuPermission",
          "deleteRole", "deletePermission", "deleteMenuPermission", "cloneRole",
          "assignRolePermissions", "assignUserRoles", "assignFeaturePermissions",
          "register", "createTenant", "login", "switchContext", "sendInvitation",
          "acceptInvitation", "rejectInvitation", "forgotPassword", "resetPassword",
          "updateTenant", "activateTenant", "deactivateTenant", "deleteTenant",
          "assignPlan"}
    BY DEF Path
  <1>1. c \in AccessCall \/ c \in AccountCall
    BY AccountsAssumption DEF AccountsAssumption
  <1>2. CASE c \in CreateRoleDto \/ c \in CreatePermissionDto \/ c \in CreateSubscriptionPlanDto
             \/ c \in CreateSubscriptionFeatureDto \/ c \in CreateMenuPermissionDto
             \/ c \in CloneRoleDto
    BY <1>0, <1>2 DEF CreateRoleDto, CreatePermissionDto, CreateSubscriptionPlanDto,
       CreateSubscriptionFeatureDto, CreateMenuPermissionDto, CloneRoleDto, CallOf, OrNone,
       Creates, Deletes, Updates, Assigns, TenantOps
  <1>3. CASE c \in UpdateRoleDto \/ c \in UpdatePermissionDto \/ c \in UpdateMenuPermissionDto
             \/ c \in DeleteRoleDto \/ c \in DeletePermissionDto
             \/ c \in DeleteMenuPermissionDto
    BY <1>0, <1>3 DEF UpdateRoleDto, UpdatePermissionDto, UpdateMenuPermissionDto,
       DeleteRoleDto, DeletePermissionDto, DeleteMenuPermissionDto, CallOf, OrNone,
       Creates, Deletes, Updates, Assigns, TenantOps
  <1>4. CASE c \in AssignRolePermissionsDto \/ c \in AssignUserRolesDto
             \/ c \in AssignFeaturePermissionsDto
    BY <1>0, <1>4 DEF AssignRolePermissionsDto, AssignUserRolesDto,
       AssignFeaturePermissionsDto, CallOf, Creates, Deletes, Updates, Assigns, TenantOps
  <1>5. CASE c \in RegisterDto \/ c \in LoginDto \/ c \in SwitchDto \/ c \in CreateTenantDto
    BY <1>0, <1>5 DEF RegisterDto, LoginDto, SwitchDto, CreateTenantDto, OrNone,
       Creates, Deletes, Updates, Assigns, TenantOps
  <1>6. CASE c \in SendInvitationDto \/ c \in AcceptInvitationDto
             \/ c \in RejectInvitationDto \/ c \in PasswordCall
    BY <1>0, <1>6 DEF SendInvitationDto, AcceptInvitationDto, RejectInvitationDto,
       PasswordCall, Creates, Deletes, Updates, Assigns, TenantOps
  <1>7. CASE c \in TenantCall \/ c \in PlanCall
    BY <1>0, <1>7 DEF TenantCall, PlanCall, Creates, Deletes, Updates, Assigns, TenantOps
  <1> QED
    BY <1>1, <1>2, <1>3, <1>4, <1>5, <1>6, <1>7 DEF AccessCall, AccountCall

(* The statements of each handler.                                         *)
LEMMA PathOf ==
  /\ \A o \in {"createRole", "createPermission", "createPlan"} : Path[o] = {"unique", "insert"}
  /\ \A o \in {"createFeature", "createMenuPermission"} : Path[o] = {"insert"}
  /\ \A o \in {"updateRole", "updateMenuPermission"} : Path[o] = {"lookup", "write"}
  /\ Path["updatePermission"] = {"lookup", "unique", "write"}
  /\ Path["deleteRole"] = {"lookup", "count", "strip", "drop"}
  /\ Path["deletePermission"] = {"lookup", "count", "drop"}
  /\ Path["deleteMenuPermission"] = {"lookup", "drop"}
  /\ Path["cloneRole"] = {"lookup", "unique", "insert", "copy", "role", "wipe", "grant",
                          "commitLinks"}
  /\ Path["assignRolePermissions"] = {"role", "plan", "allowed", "wipe", "grant",
                                      "commitLinks"}
  /\ \A o \in {"assignUserRoles", "assignFeaturePermissions"} :
       Path[o] = {"wipe", "grant", "commitLinks"}
  /\ Path["register"] = {"checkUser", "create"}
  /\ Path["createTenant"] = {"checkUser", "basicPlan", "insertTenant", "adminRole",
                             "insertAdmin", "commitTenant"}
  /\ Path["login"] = {"findLogin", "findContext", "countLogin"}
  /\ Path["switchContext"] = {"findUser", "checkFirm", "checkBranch"}
  /\ Path["sendInvitation"] = {"checkEmail", "invite"}
  /\ Path["acceptInvitation"] = {"findInvitation", "checkName", "insertMember",
                                 "markAccepted", "commitMember"}
  /\ Path["rejectInvitation"] = {"findInvitation", "decline"}
  /\ Path["forgotPassword"] = {"findEmail", "invalidate", "issue"}
  /\ Path["resetPassword"] = {"findToken", "setPassword", "spend", "commitReset"}
  /\ \A o \in TenantOps \ {"assignPlan"} : Path[o] = {"findTenant", "writeTenant"}
  /\ Path["assignPlan"] = {"findPlan", "findTenant", "writeTenant"}
PROOF
  BY DEF Path, TenantOps

(* Which handlers have a statement, and what their calls ask for.          *)
LEMMA CallAt ==
  ASSUME TypeOK, NEW q \in Request, pc[q] # "idle"
  PROVE  /\ call[q] \in UNION Mix /\ pc[q] \in Path[Op(q)] \cup {"ok", "failed"}
         /\ pc[q] = "insert" => Op(q) \in Creates
         /\ pc[q] = "unique" => Op(q) \in {"createRole", "createPermission", "createPlan",
                                           "cloneRole", "updatePermission"}
         /\ pc[q] = "lookup" => Op(q) \in Updates \cup Deletes \cup {"cloneRole"}
         /\ pc[q] = "write" => Op(q) \in Updates
         /\ pc[q] = "count" => Op(q) \in {"deleteRole", "deletePermission"}
         /\ pc[q] = "strip" => Op(q) = "deleteRole"
         /\ pc[q] = "drop" => Op(q) \in Deletes
         /\ pc[q] = "copy" => Op(q) = "cloneRole"
         /\ pc[q] = "role" => Op(q) \in {"cloneRole", "assignRolePermissions"}
         /\ pc[q] \in {"plan", "allowed"} => Op(q) = "assignRolePermissions"
         /\ pc[q] \in {"wipe", "grant", "commitLinks"} => Op(q) \in Assigns \cup {"cloneRole"}
         /\ pc[q] = "checkUser" => Op(q) \in {"register", "createTenant"}
         /\ pc[q] = "create" => Op(q) = "register"
         /\ pc[q] \in {"basicPlan", "insertTenant", "adminRole", "insertAdmin", "commitTenant"}
              => Op(q) = "createTenant"
         /\ pc[q] \in {"findLogin", "findContext", "countLogin"} => Op(q) = "login"
         /\ pc[q] \in {"findUser", "checkFirm", "checkBranch"} => Op(q) = "switchContext"
         /\ pc[q] \in {"checkEmail", "invite"} => Op(q) = "sendInvitation"
         /\ pc[q] = "findInvitation" => Op(q) \in {"acceptInvitation", "rejectInvitation"}
         /\ pc[q] \in {"checkName", "insertMember", "markAccepted", "commitMember"}
              => Op(q) = "acceptInvitation"
         /\ pc[q] = "decline" => Op(q) = "rejectInvitation"
         /\ pc[q] \in {"findEmail", "invalidate", "issue"} => Op(q) = "forgotPassword"
         /\ pc[q] \in {"findToken", "setPassword", "spend", "commitReset"}
              => Op(q) = "resetPassword"
         /\ pc[q] \in {"findTenant", "writeTenant"} => Op(q) \in TenantOps
         /\ pc[q] = "findPlan" => Op(q) = "assignPlan"
PROOF
  <1>1. call[q] \in UNION Mix /\ pc[q] \in Path[Op(q)] \cup {"ok", "failed"}
    BY DEF TypeOK
  <1>2. Op(q) \in DOMAIN Path
    BY <1>1, CallFields DEF Op
  <1>3. CASE Op(q) \in Creates \cup Updates \cup Deletes
    BY <1>1, <1>3, PathOf DEF Creates, Updates, Deletes, Assigns
  <1>4. CASE Op(q) \in Assigns
    BY <1>1, <1>4, PathOf DEF Assigns
  <1>5. CASE Op(q) \in TenantOps
    BY <1>1, <1>5, PathOf DEF TenantOps
  <1>6. CASE Op(q) \in {"register", "createTenant", "login", "switchContext",
                        "sendInvitation", "acceptInvitation", "rejectInvitation",
                        "forgotPassword", "resetPassword"}
    BY <1>1, <1>6, PathOf
  <1> QED
    BY <1>2, <1>3, <1>4, <1>5, <1>6
       DEF Path, Creates, Updates, Deletes, Assigns, TenantOps

(* Which statement a request is at tells which one it executes.            *)
LEMMA Guards ==
  ASSUME NEW q
  PROVE  /\ (Unique(q) => pc[q] = "unique") /\ (Insert(q) => pc[q] = "insert")
         /\ (Lookup(q) => pc[q] = "lookup") /\ (Write(q) => pc[q] = "write")
         /\ (Count(q) => pc[q] = "count") /\ (Strip(q) => pc[q] = "strip")
         /\ (Drop(q) => pc[q] = "drop") /\ (Copy(q) => pc[q] = "copy")
         /\ (Role(q) => pc[q] = "role") /\ (Plan(q) => pc[q] = "plan")
         /\ (Allowed(q) => pc[q] = "allowed") /\ (Wipe(q) => pc[q] = "wipe")
         /\ (Grant(q) => pc[q] = "grant") /\ (CommitLinks(q) => pc[q] = "commitLinks")
         /\ (CheckUser(q) => pc[q] = "checkUser") /\ (Create(q) => pc[q] = "create")
         /\ (BasicPlan(q) => pc[q] = "basicPlan")
         /\ (InsertTenant(q) => pc[q] = "insertTenant")
         /\ (AdminRoleId(q) => pc[q] = "adminRole")
         /\ (InsertAdmin(q) => pc[q] = "insertAdmin")
         /\ (CommitTenant(q) => pc[q] = "commitTenant")
         /\ (FindLogin(q) => pc[q] = "findLogin")
         /\ (FindContext(q) => pc[q] = "findContext")
         /\ (CountLogin(q) => pc[q] = "countLogin") /\ (FindUser(q) => pc[q] = "findUser")
         /\ (CheckFirm(q) => pc[q] = "checkFirm") /\ (CheckBranch(q) => pc[q] = "checkBranch")
         /\ (CheckEmail(q) => pc[q] = "checkEmail") /\ (Invite(q) => pc[q] = "invite")
         /\ (FindInvitation(q) => pc[q] = "findInvitation")
         /\ (CheckName(q) => pc[q] = "checkName")
         /\ (InsertMember(q) => pc[q] = "insertMember")
         /\ (MarkAccepted(q) => pc[q] = "markAccepted")
         /\ (CommitMember(q) => pc[q] = "commitMember") /\ (Decline(q) => pc[q] = "decline")
         /\ (FindEmail(q) => pc[q] = "findEmail") /\ (Invalidate(q) => pc[q] = "invalidate")
         /\ (Issue(q) => pc[q] = "issue") /\ (FindToken(q) => pc[q] = "findToken")
         /\ (SetPassword(q) => pc[q] = "setPassword") /\ (Spend(q) => pc[q] = "spend")
         /\ (CommitReset(q) => pc[q] = "commitReset")
         /\ (FindTenant(q) => pc[q] = "findTenant") /\ (FindPlan(q) => pc[q] = "findPlan")
         /\ (WriteTenant(q) => pc[q] = "writeTenant")
PROOF
  <1>1. /\ (Unique(q) => pc[q] = "unique") /\ (Insert(q) => pc[q] = "insert")
        /\ (Lookup(q) => pc[q] = "lookup") /\ (Write(q) => pc[q] = "write")
        /\ (Count(q) => pc[q] = "count") /\ (Strip(q) => pc[q] = "strip")
        /\ (Drop(q) => pc[q] = "drop") /\ (Copy(q) => pc[q] = "copy")
        /\ (Role(q) => pc[q] = "role") /\ (Plan(q) => pc[q] = "plan")
        /\ (Allowed(q) => pc[q] = "allowed") /\ (Wipe(q) => pc[q] = "wipe")
        /\ (Grant(q) => pc[q] = "grant") /\ (CommitLinks(q) => pc[q] = "commitLinks")
    BY DEF Unique, Insert, Lookup, Write, Count, Strip, Drop, Copy, Role, Plan, Allowed,
       Wipe, Grant, CommitLinks
  <1>2. /\ (CheckUser(q) => pc[q] = "checkUser") /\ (Create(q) => pc[q] = "create")
        /\ (BasicPlan(q) => pc[q] = "basicPlan")
        /\ (InsertTenant(q) => pc[q] = "insertTenant")
        /\ (AdminRoleId(q) => pc[q] = "adminRole")
        /\ (InsertAdmin(q) => pc[q] = "insertAdmin")
        /\ (CommitTenant(q) => pc[q] = "commitTenant")
        /\ (FindLogin(q) => pc[q] = "findLogin")
        /\ (FindContext(q) => pc[q] = "findContext")
        /\ (CountLogin(q) => pc[q] = "countLogin") /\ (FindUser(q) => pc[q] = "findUser")
        /\ (CheckFirm(q) => pc[q] = "checkFirm") /\ (CheckBranch(q) => pc[q] = "checkBranch")
        /\ (CheckEmail(q) => pc[q] = "checkEmail") /\ (Invite(q) => pc[q] = "invite")
    BY DEF CheckUser, Create, BasicPlan, InsertTenant, AdminRoleId, InsertAdmin,
       CommitTenant, FindLogin, FindContext, CountLogin, FindUser, CheckFirm, CheckBranch,
       CheckEmail, Invite
  <1>3. /\ (FindInvitation(q) => pc[q] = "findInvitation")
        /\ (CheckName(q) => pc[q] = "checkName")
        /\ (InsertMember(q) => pc[q] = "insertMember")
        /\ (MarkAccepted(q) => pc[q] = "markAccepted")
        /\ (CommitMember(q) => pc[q] = "commitMember") /\ (Decline(q) => pc[q] = "decline")
        /\ (FindEmail(q) => pc[q] = "findEmail") /\ (Invalidate(q) => pc[q] = "invalidate")
        /\ (Issue(q) => pc[q] = "issue") /\ (FindToken(q) => pc[q] = "findToken")
        /\ (SetPassword(q) => pc[q] = "setPassword") /\ (Spend(q) => pc[q] = "spend")
        /\ (CommitReset(q) => pc[q] = "commitReset")
        /\ (FindTenant(q) => pc[q] = "findTenant") /\ (FindPlan(q) => pc[q] = "findPlan")
        /\ (WriteTenant(q) => pc[q] = "writeTenant")
    BY DEF FindInvitation, CheckName, InsertMember, MarkAccepted, CommitMember, Decline,
       FindEmail, Invalidate, Issue, FindToken, SetPassword, Spend, CommitReset, FindTenant,
       FindPlan, WriteTenant
  <1> QED
    BY <1>1, <1>2, <1>3
-----------------------------------------------------------------------------
(* Of what belongs to a request, a move changes only what belongs to the   *)
(* one that moves.                                                         *)
OnlyAt(f, g, q) == g = [f EXCEPT ![q] = g[q]]

OnlyOf(q) ==
  /\ OnlyAt(pc, pc', q) /\ OnlyAt(call, call', q) /\ OnlyAt(read, read', q)
  /\ OnlyAt(items, items', q) /\ OnlyAt(wiped, wiped', q) /\ OnlyAt(locked, locked', q)
  /\ OnlyAt(seen, seen', q) /\ OnlyAt(session, session', q)

LEMMA Overwritten ==
  ASSUME NEW S, NEW V, NEW f \in [S -> V], NEW q \in S, NEW g,
         g = f \/ \E v : g = [f EXCEPT ![q] = v]
  PROVE  OnlyAt(f, g, q)
PROOF
  BY DEF OnlyAt

LEMMA OnlyMoves ==
  ASSUME TypeOK, NEW q \in Request, Move(q)
  PROVE  OnlyOf(q)
PROOF
  <1> DEFINE Keeps(f, g) == g = f \/ \E v : g = [f EXCEPT ![q] = v]
             Local == /\ Keeps(pc, pc') /\ Keeps(call, call') /\ Keeps(read, read')
                      /\ Keeps(items, items') /\ Keeps(wiped, wiped')
                      /\ Keeps(locked, locked') /\ Keeps(seen, seen')
                      /\ Keeps(session, session')
  <1>0. ASSUME NEW V, NEW f \in [Request -> V], NEW g, Keeps(f, g) PROVE OnlyAt(f, g, q)
    BY <1>0, Overwritten DEF Keeps
  <1> SUFFICES Local
    <2> HIDE DEF Keeps
    <2> QED
      BY <1>0 DEF OnlyOf, TypeOK
  <1>1. /\ \A s : Goto(q, s) => Keeps(pc, pc')
        /\ \A rs : Lock(q, rs) => Keeps(locked, locked')
        /\ \A r : Found(q, r) => Keeps(read, read')
        /\ \A f, b : Token(q, f, b) => Keeps(session, session')
        /\ Reply(q) => Keeps(pc, pc')
    BY DEF Goto, Lock, Found, Token, Reply
  <1>2. Settle(q) => /\ Keeps(read, read') /\ Keeps(items, items')
                     /\ Keeps(wiped, wiped') /\ Keeps(locked, locked')
    BY DEF Settle
  <1>3. Abort(q) => /\ Keeps(pc, pc') /\ Keeps(read, read') /\ Keeps(items, items')
                    /\ Keeps(wiped, wiped') /\ Keeps(locked, locked')
                    /\ UNCHANGED <<call, seen>>
    BY <1>1, <1>2 DEF Abort, asked
  <1>4. ASSUME NEW rs, Wrote(q, rs) PROVE Keeps(locked, locked') /\
          UNCHANGED <<call, seen, read, items, wiped, session>>
    BY <1>1, <1>4 DEF Wrote, asked
  <1>5. ASSUME ReadOnly PROVE UNCHANGED <<call, seen, items, wiped, locked, session>>
    BY <1>5 DEF ReadOnly, asked
  <1>6. ASSUME Refuse(q) PROVE Local
    BY <1>3, <1>6 DEF Refuse
  <1>7. CASE Arrive(q)
    <2>1. PICK c, s : call' = [call EXCEPT ![q] = c] /\ Goto(q, s)
      BY <1>7 DEF Arrive
    <2> QED
      BY <1>1, <1>7, <2>1 DEF Arrive, pending
  <1>8. CASE Fail(q)
    BY <1>3, <1>8 DEF Fail
  <1>9. CASE Expire(q)
    BY <1>9 DEF Expire, accessVars, asked, pending
  <1>10. CASE AccessStep(q) /\ UNCHANGED <<accounts, session>>
    <2> HIDE DEF Keeps
    <2>0. \A f : Keeps(f, f)
      BY DEF Keeps
    <2>1. CASE Unique(q) \/ Insert(q) \/ Write(q) \/ Count(q) \/ Strip(q) \/ Drop(q)
      BY <1>1, <1>3, <1>10, <2>0, <2>1
         DEF Unique, Insert, Write, Count, Strip, Drop, asked, pending
    <2>2. CASE Lookup(q)
      <3>1. Keeps(read, read')
        BY <1>3, <2>0, <2>2 DEF Lookup, Keeps
      <3> QED
        BY <1>1, <1>3, <1>10, <2>0, <2>2, <3>1 DEF Lookup, asked
    <2>3. CASE Copy(q) \/ Role(q) \/ Plan(q) \/ Allowed(q)
      <3>1. Keeps(items, items') /\ Keeps(read, read')
        BY <1>3, <2>0, <2>3 DEF Copy, Role, Plan, Allowed, Keeps
      <3> QED
        BY <1>1, <1>3, <1>10, <2>0, <2>3, <3>1 DEF Copy, Role, Plan, Allowed, asked
    <2>4. CASE Wipe(q) \/ Grant(q)
      <3>1. Keeps(items, items') /\ Keeps(wiped, wiped')
        BY <1>3, <2>0, <2>4 DEF Wipe, Grant, Keeps
      <3> QED
        BY <1>1, <1>10, <2>0, <2>4, <3>1 DEF Wipe, Grant, asked
    <2>5. CASE CommitLinks(q)
      BY <1>1, <1>2, <1>10, <2>0, <2>5 DEF CommitLinks, asked
    <2> QED
      BY <1>10, <2>1, <2>2, <2>3, <2>4, <2>5 DEF AccessStep
  <1>11. CASE AccountStep(q)
    <2> HIDE DEF Keeps
    <2>0. \A f : Keeps(f, f)
      BY DEF Keeps
    <2>1. CASE CheckUser(q) \/ Create(q) \/ BasicPlan(q) \/ InsertTenant(q)
               \/ InsertAdmin(q) \/ CommitTenant(q)
      BY <1>1, <1>2, <1>4, <1>5, <1>6, <2>0, <2>1 DEF CheckUser, Create, BasicPlan,
         InsertTenant, InsertAdmin, CommitTenant, asked, pending
    <2>2. CASE AdminRoleId(q)
      <3>1. Keeps(items, items')
        BY <1>6, <2>0, <2>2 DEF AdminRoleId, Keeps
      <3> QED
        BY <1>1, <1>6, <2>0, <2>2, <3>1 DEF AdminRoleId, asked
    <2>3. CASE FindLogin(q) \/ CountLogin(q) \/ FindUser(q)
      BY <1>1, <1>5, <1>6, <2>0, <2>3 DEF FindLogin, CountLogin, FindUser, asked, pending
    <2>4. CASE CheckFirm(q) \/ CheckBranch(q) \/ FindContext(q)
      BY <1>1, <1>5, <1>6, <2>0, <2>4 DEF CheckFirm, CheckBranch, FindContext, asked,
         pending
    <2>5. CASE CheckEmail(q) \/ Invite(q) \/ FindInvitation(q) \/ CheckName(q)
               \/ InsertMember(q) \/ MarkAccepted(q) \/ CommitMember(q) \/ Decline(q)
      BY <1>1, <1>2, <1>4, <1>5, <1>6, <2>0, <2>5 DEF CheckEmail, Invite, FindInvitation,
         CheckName, InsertMember, MarkAccepted, CommitMember, Decline, asked, pending
    <2>6. CASE FindEmail(q) \/ Invalidate(q) \/ Issue(q) \/ FindToken(q) \/ SetPassword(q)
               \/ Spend(q) \/ CommitReset(q)
      BY <1>1, <1>2, <1>4, <1>5, <1>6, <2>0, <2>6 DEF FindEmail, Invalidate, Issue,
         FindToken, SetPassword, Spend, CommitReset, asked, pending
    <2>7. CASE FindTenant(q) \/ FindPlan(q) \/ WriteTenant(q)
      BY <1>1, <1>5, <1>6, <2>0, <2>7 DEF FindTenant, FindPlan, WriteTenant, asked, pending
    <2> QED
      BY <1>11, <2>1, <2>2, <2>3, <2>4, <2>5, <2>6, <2>7 DEF AccountStep
  <1> QED
    BY <1>7, <1>8, <1>9, <1>10, <1>11 DEF Move, Step

LEMMA StepAt ==
  ASSUME NEW q, Step(q)
  PROVE  /\ pc[q] \in AccessPc =>
              /\ UNCHANGED <<accounts, session>>
              /\ (pc[q] = "unique" => Unique(q)) /\ (pc[q] = "insert" => Insert(q))
              /\ (pc[q] = "lookup" => Lookup(q)) /\ (pc[q] = "write" => Write(q))
              /\ (pc[q] = "count" => Count(q)) /\ (pc[q] = "strip" => Strip(q))
              /\ (pc[q] = "drop" => Drop(q)) /\ (pc[q] = "copy" => Copy(q))
              /\ (pc[q] = "role" => Role(q)) /\ (pc[q] = "plan" => Plan(q))
              /\ (pc[q] = "allowed" => Allowed(q)) /\ (pc[q] = "wipe" => Wipe(q))
              /\ (pc[q] = "grant" => Grant(q))
              /\ (pc[q] = "commitLinks" => CommitLinks(q))
         /\ pc[q] \notin {"idle", "ok", "failed"}
         /\ (pc[q] = "checkUser" => CheckUser(q)) /\ (pc[q] = "create" => Create(q))
         /\ (pc[q] = "basicPlan" => BasicPlan(q))
         /\ (pc[q] = "insertTenant" => InsertTenant(q))
         /\ (pc[q] = "adminRole" => AdminRoleId(q))
         /\ (pc[q] = "insertAdmin" => InsertAdmin(q))
         /\ (pc[q] = "commitTenant" => CommitTenant(q))
         /\ (pc[q] = "findLogin" => FindLogin(q))
         /\ (pc[q] = "findContext" => FindContext(q))
         /\ (pc[q] = "countLogin" => CountLogin(q))
         /\ (pc[q] = "findUser" => FindUser(q))
         /\ (pc[q] = "checkFirm" => CheckFirm(q))
         /\ (pc[q] = "checkBranch" => CheckBranch(q))
         /\ (pc[q] = "checkEmail" => CheckEmail(q))
         /\ (pc[q] = "invite" => Invite(q))
         /\ (pc[q] = "findInvitation" => FindInvitation(q))
         /\ (pc[q] = "checkName" => CheckName(q))
         /\ (pc[q] = "insertMember" => InsertMember(q))
         /\ (pc[q] = "markAccepted" => MarkAccepted(q))
         /\ (pc[q] = "commitMember" => CommitMember(q))
         /\ (pc[q] = "decline" => Decline(q))
         /\ (pc[q] = "findEmail" => FindEmail(q))
         /\ (pc[q] = "invalidate" => Invalidate(q)) /\ (pc[q] = "issue" => Issue(q))
         /\ (pc[q] = "findToken" => FindToken(q))
         /\ (pc[q] = "setPassword" => SetPassword(q))
         /\ (pc[q] = "spend" => Spend(q))
         /\ (pc[q] = "commitReset" => CommitReset(q))
         /\ (pc[q] = "findTenant" => FindTenant(q))
         /\ (pc[q] = "findPlan" => FindPlan(q))
         /\ (pc[q] = "writeTenant" => WriteTenant(q))
PROOF
  <1>1. CASE AccessStep(q) /\ UNCHANGED <<accounts, session>>
    BY <1>1, Guards DEF AccessStep, AccessPc
  <1>2. CASE AccountStep(q)
    BY <1>2, Guards DEF AccountStep, AccessPc
  <1> QED
    BY <1>1, <1>2 DEF Step

(* Where a statement leads to, if it does not fail.                        *)
LEMMA Onward ==
  ASSUME TypeOK, NEW q \in Request, Step(q), pc'[q] # "failed"
  PROVE  /\ pc[q] = "unique" => IF Op(q) = "updatePermission" THEN pc'[q] = "write"
                                ELSE pc'[q] = "insert"
         /\ pc[q] = "insert" => IF Op(q) = "cloneRole" THEN pc'[q] = "copy"
                                ELSE pc'[q] = "ok"
         /\ pc[q] = "lookup" =>
              \/ Op(q) \in Updates /\ pc'[q] = "write"
              \/ Op(q) \in {"updatePermission", "cloneRole"} /\ pc'[q] = "unique"
              \/ Op(q) \in {"deleteRole", "deletePermission"} /\ pc'[q] = "count"
              \/ Op(q) = "deleteMenuPermission" /\ pc'[q] = "drop"
         /\ pc[q] = "count" => IF Op(q) = "deleteRole" THEN pc'[q] = "strip"
                               ELSE pc'[q] = "drop"
         /\ pc[q] = "strip" => pc'[q] = "drop"
         /\ pc[q] = "copy" => pc'[q] \in {"ok", "role"}
         /\ pc[q] = "role" => IF Op(q) = "cloneRole" THEN pc'[q] = "wipe"
                              ELSE pc'[q] \in {"plan", "wipe"}
         /\ pc[q] = "plan" => pc'[q] \in {"wipe", "allowed"}
         /\ pc[q] = "allowed" => pc'[q] = "wipe"
         /\ pc[q] = "wipe" => pc'[q] = "grant"
         /\ pc[q] = "grant" => pc'[q] = "commitLinks"
         /\ pc[q] = "checkUser" => IF Op(q) = "register" THEN pc'[q] = "create"
                                   ELSE pc'[q] = "basicPlan"
         /\ pc[q] = "basicPlan" => pc'[q] = "insertTenant"
         /\ pc[q] = "insertTenant" => pc'[q] = "adminRole"
         /\ pc[q] = "adminRole" => pc'[q] = "insertAdmin"
         /\ pc[q] = "insertAdmin" => pc'[q] = "commitTenant"
         /\ pc[q] = "findLogin" => pc'[q] = "findContext"
         /\ pc[q] = "findContext" => pc'[q] = "countLogin"
         /\ pc[q] = "findUser" => pc'[q] = "checkFirm"
         /\ pc[q] = "checkFirm" => pc'[q] \in {"ok", "checkBranch"}
         /\ pc[q] = "checkEmail" => pc'[q] = "invite"
         /\ pc[q] = "findInvitation" => IF Op(q) = "acceptInvitation"
                                        THEN pc'[q] = "checkName" ELSE pc'[q] = "decline"
         /\ pc[q] = "checkName" => pc'[q] = "insertMember"
         /\ pc[q] = "insertMember" => pc'[q] = "markAccepted"
         /\ pc[q] = "markAccepted" => pc'[q] = "commitMember"
         /\ pc[q] = "findEmail" => pc'[q] \in {"ok", "invalidate"}
         /\ pc[q] = "invalidate" => pc'[q] = "issue"
         /\ pc[q] = "findToken" => pc'[q] = "setPassword"
         /\ pc[q] = "setPassword" => pc'[q] = "spend"
         /\ pc[q] = "spend" => pc'[q] = "commitReset"
         /\ pc[q] = "findTenant" => IF Op(q) = "assignPlan" THEN pc'[q] = "findPlan"
                                    ELSE pc'[q] = "writeTenant"
         /\ pc[q] = "findPlan" => pc'[q] = "writeTenant"
         /\ pc[q] \in {"write", "drop", "commitLinks", "create", "commitTenant", "countLogin",
                       "checkBranch", "invite", "commitMember", "decline", "issue",
                       "commitReset", "writeTenant"} => pc'[q] = "ok"
PROOF
  <1>0. ASSUME NEW s, Goto(q, s) PROVE pc'[q] = s
    BY <1>0 DEF Goto, TypeOK
  <1>1. ~Abort(q) /\ ~Refuse(q)
    BY <1>0 DEF Abort, Refuse
  <1>2. Reply(q) => pc'[q] = "ok"
    BY <1>0 DEF Reply
  <1>3. CASE pc[q] \in {"unique", "insert", "write", "count", "strip", "drop"}
    BY <1>0, <1>1, <1>2, <1>3, StepAt
       DEF AccessPc, Unique, Insert, Write, Count, Strip, Drop
  <1>4. CASE pc[q] = "lookup"
    <2>1. Op(q) \in Updates \cup Deletes \cup {"cloneRole"}
      BY <1>4, CallAt
    <2>2. pc'[q] = IF Op(q) \in Updates /\ call[q].key = NULL THEN "write"
                   ELSE AfterLookup[Op(q)]
      BY <1>0, <1>1, <1>4, StepAt DEF AccessPc, Lookup
    <2> QED
      BY <1>4, <2>1, <2>2 DEF AfterLookup, Updates, Deletes
  <1>5. CASE pc[q] \in {"copy", "plan", "allowed", "wipe", "grant", "commitLinks"}
    BY <1>0, <1>1, <1>2, <1>5, StepAt
       DEF AccessPc, Copy, Plan, Allowed, Wipe, Grant, CommitLinks
  <1>6. CASE pc[q] = "role"
    BY <1>0, <1>1, <1>6, StepAt DEF AccessPc, Role
  <1>7. CASE pc[q] \in {"checkUser", "create", "basicPlan", "insertTenant", "adminRole",
                        "insertAdmin", "commitTenant"}
    BY <1>0, <1>1, <1>2, <1>7, StepAt DEF CheckUser, Create, BasicPlan, InsertTenant,
       AdminRoleId, InsertAdmin, CommitTenant
  <1>8. CASE pc[q] \in {"findLogin", "findContext", "countLogin", "findUser", "checkFirm",
                        "checkBranch"}
    BY <1>0, <1>1, <1>2, <1>8, StepAt DEF FindLogin, FindContext, CountLogin, FindUser,
       CheckFirm, CheckBranch
  <1>9. CASE pc[q] \in {"checkEmail", "invite", "findInvitation", "checkName",
                        "insertMember", "markAccepted", "commitMember", "decline"}
    BY <1>0, <1>1, <1>2, <1>9, StepAt DEF CheckEmail, Invite, FindInvitation, CheckName,
       InsertMember, MarkAccepted, CommitMember, Decline
  <1>10. CASE pc[q] \in {"findEmail", "invalidate", "issue", "findToken", "setPassword",
                         "spend", "commitReset"}
    BY <1>0, <1>1, <1>2, <1>10, StepAt DEF FindEmail, Invalidate, Issue, FindToken,
       SetPassword, Spend, CommitReset
  <1>11. CASE pc[q] \in {"findTenant", "findPlan", "writeTenant"}
    BY <1>0, <1>1, <1>2, <1>11, StepAt DEF FindTenant, FindPlan, WriteTenant
  <1>12. pc[q] \in AccessPc \cup AccountPc
    BY DEF TypeOK
  <1> QED
    BY <1>3, <1>4, <1>5, <1>6, <1>7, <1>8, <1>9, <1>10, <1>11, <1>12, StepAt
       DEF AccessPc, AccountPc

LEMMA PathIsTyped ==
  ASSUME NEW o \in DOMAIN Path
  PROVE  Path[o] \subseteq (AccessPc \cup AccountPc) \ {"idle"}
PROOF
  BY PathOf DEF Path, AccessPc, AccountPc, TenantOps

(* Where a request begins.                                                 *)
Starts == {"unique", "insert", "lookup", "role", "wipe", "checkUser", "findLogin",
           "findUser", "checkEmail", "findInvitation", "findEmail", "findToken",
           "findTenant", "failed"}

LEMMA FirstIsOnPath ==
  ASSUME NEW c \in UNION Mix
  PROVE  FirstStep(c) \in Path[c.op] \cap Starts
PROOF
  <1>1. c.op \in DOMAIN Path
    BY CallFields
  <1>2. CASE c.op \in Creates \cup Updates \cup Deletes
    <2>1. FirstStep(c) = AccessFirst[c.op]
      BY <1>2 DEF FirstStep, AccessFirst, Creates, Updates, Deletes
    <2> QED
      BY <1>2, <2>1, PathOf DEF AccessFirst, Creates, Updates, Deletes, Starts
  <1>3. CASE c.op \in Assigns
    <2>1. FirstStep(c) = AccessFirst[c.op]
      BY <1>3 DEF FirstStep, AccessFirst, Assigns
    <2> QED
      BY <1>3, <2>1, PathOf DEF AccessFirst, Assigns, Starts
  <1>4. CASE c.op \in TenantOps \cup
                      {"register", "createTenant", "login", "switchContext",
                       "sendInvitation", "acceptInvitation", "rejectInvitation",
                       "forgotPassword", "resetPassword"}
    <2>1. FirstStep(c) = AccountFirst[c.op]
      BY <1>4 DEF FirstStep, AccessFirst, TenantOps
    <2> QED
      BY <1>4, <2>1, PathOf DEF AccountFirst, TenantOps, Starts
  <1> QED
    BY <1>1, <1>2, <1>3, <1>4 DEF Path, Creates, Updates, Deletes, Assigns, TenantOps

LEMMA ArriveAt ==
  ASSUME TypeOK, NEW q \in Request, Arrive(q)
  PROVE  /\ pc[q] = "idle" /\ call'[q] \in UNION Mix
         /\ pc'[q] \in (Path[call'[q].op] \cap Starts) \cup {"failed"}
         /\ seen'[q] = {p \in Request : Over(p)}
         /\ UNCHANGED <<data, pending, accounts, session>>
PROOF
  <1>1. PICK c \in UNION Mix : /\ call' = [call EXCEPT ![q] = c]
                               /\ Goto(q, IF Allows(c) THEN FirstStep(c) ELSE "failed")
    BY DEF Arrive
  <1>2. call'[q] = c
    BY <1>1 DEF TypeOK
  <1>3. pc'[q] \in {FirstStep(c), "failed"}
    BY <1>1 DEF Goto, TypeOK
  <1>4. seen'[q] = {p \in Request : Over(p)}
    BY DEF Arrive, TypeOK
  <1>5. pc'[q] \in (Path[c.op] \cap Starts) \cup {"failed"}
    BY <1>3, FirstIsOnPath
  <1> QED
    BY <1>2, <1>4, <1>5 DEF Arrive

(* Only to come makes a call; a request that has come goes on or ends.     *)
LEMMA PathMoves ==
  ASSUME TypeOK, NEW q \in Request, Move(q)
  PROVE  /\ ~Arrive(q) => UNCHANGED <<call, seen>>
         /\ ~Arrive(q) => pc[q] # "idle"
         /\ pc'[q] # "idle"
         /\ pc'[q] \in Path[call'[q].op] \cup {"ok", "failed"}
         /\ Over(q) => UNCHANGED pc
PROOF
  <1>0. ASSUME Abort(q) PROVE pc'[q] = "failed" /\ UNCHANGED <<call, seen>>
    BY <1>0 DEF Abort, Goto, TypeOK, asked
  <1>1. CASE Arrive(q)
    <2>1. pc'[q] # "idle"
      <3>1. "idle" \notin Starts
        BY DEF Starts
      <3> QED
        BY <1>1, <3>1, ArriveAt
    <2> QED
      BY <1>1, <2>1, ArriveAt DEF Over
  <1>2. CASE Fail(q)
    BY <1>0, <1>2 DEF Fail
  <1>3. CASE Expire(q)
    <2>1. UNCHANGED <<pc, call, seen>> /\ pc[q] \in {"findInvitation", "findToken"}
      BY <1>3 DEF Expire, accessVars, asked
    <2> QED
      BY <2>1, CallAt DEF Over, Op
  <1>4. CASE Step(q)
    <2>1. pc[q] \in AccessPc \cup AccountPc /\ pc[q] \notin {"idle", "ok", "failed"}
      BY <1>4, StepAt DEF TypeOK
    <2>2. UNCHANGED <<call, seen>>
      <3>1. CASE AccessStep(q)
        BY <1>0, <3>1 DEF AccessStep, Unique, Insert, Lookup, Write, Count, Strip, Drop, Copy,
           Role, Plan, Allowed, Wipe, Grant, CommitLinks, asked
      <3>2. CASE AccountStep(q)
        BY <1>0, <3>2 DEF AccountStep, CheckUser, Create, BasicPlan, InsertTenant,
           AdminRoleId, InsertAdmin, CommitTenant, FindLogin, FindContext, CountLogin,
           FindUser, CheckFirm, CheckBranch, CheckEmail, Invite, FindInvitation, CheckName,
           InsertMember, MarkAccepted, CommitMember, Decline, FindEmail, Invalidate, Issue,
           FindToken, SetPassword, Spend, CommitReset, FindTenant, FindPlan, WriteTenant,
           Refuse, ReadOnly, Wrote, asked
      <3> QED
        BY <1>4, <3>1, <3>2 DEF Step
    <2>3. CASE pc'[q] = "failed"
      BY <1>4, <2>1, <2>2, <2>3, StepAt DEF Over
    <2>4. CASE pc'[q] # "failed"
      <3>1. pc'[q] \in Path[Op(q)] \cup {"ok"}
        <4>1. CASE Op(q) \in Creates \cup Updates \cup Deletes \cup Assigns
          BY <1>4, <2>1, <2>4, <4>1, Onward, CallAt, PathOf
             DEF Creates, Updates, Deletes, Assigns
        <4>2. CASE Op(q) \in TenantOps
          BY <1>4, <2>1, <2>4, <4>2, Onward, CallAt, PathOf DEF TenantOps
        <4>3. CASE Op(q) \in {"register", "createTenant", "login", "switchContext"}
          BY <1>4, <2>1, <2>4, <4>3, Onward, CallAt, PathOf DEF TenantOps, Assigns
        <4>4. CASE Op(q) \in {"sendInvitation", "acceptInvitation", "rejectInvitation",
                              "forgotPassword", "resetPassword"}
          BY <1>4, <2>1, <2>4, <4>4, Onward, CallAt, PathOf DEF TenantOps, Assigns
        <4>5. Op(q) \in DOMAIN Path
          BY <2>1, CallAt, CallFields DEF Op
        <4> QED
          BY <4>1, <4>2, <4>3, <4>4, <4>5
             DEF Path, Creates, Updates, Deletes, Assigns, TenantOps
      <3>2. Path[Op(q)] \subseteq (AccessPc \cup AccountPc) \ {"idle"}
        <4>1. Op(q) \in DOMAIN Path
          BY <2>1, CallAt, CallFields DEF Op
        <4> QED
          BY <4>1, PathIsTyped
      <3> QED
        BY <1>4, <2>1, <2>2, <2>4, <3>1, <3>2, StepAt DEF Over, Op
    <2> QED
      BY <2>3, <2>4
  <1> QED
    BY <1>1, <1>2, <1>3, <1>4 DEF Move
-----------------------------------------------------------------------------
(* Which statements write, and to which tables.                            *)
LEMMA Writers ==
  ASSUME NEW q \in Request, Move(q)
  PROVE  /\ rows' # rows => Step(q) /\ pc[q] \in {"insert", "write", "drop"}
         /\ links' # links =>
              Step(q) /\ pc[q] \in {"strip", "commitLinks", "commitTenant", "commitMember"}
         /\ tenants' # tenants => Step(q) /\ pc[q] \in {"commitTenant", "writeTenant"}
         /\ users' # users =>
              Step(q) /\ pc[q] \in {"create", "commitTenant", "countLogin", "commitMember",
                                    "commitReset"}
         /\ firms' # firms \/ branches' # branches => Step(q) /\ pc[q] = "commitTenant"
         /\ invitations' # invitations =>
              Expire(q) \/ (Step(q) /\ pc[q] \in {"invite", "commitMember", "decline"})
         /\ resets' # resets =>
              Expire(q) \/ (Step(q) /\ pc[q] \in {"invalidate", "issue", "commitReset"})
         /\ session' # session =>
              Step(q) /\ pc[q] \in {"findContext", "checkFirm", "checkBranch"}
PROOF
  <1>1. CASE Arrive(q)
    BY <1>1 DEF Arrive, data, accounts
  <1>2. CASE Fail(q)
    BY <1>2 DEF Fail, Abort, data, accounts
  <1>3. CASE Expire(q)
    <2>1. /\ rows' = rows /\ links' = links /\ tenants' = tenants /\ users' = users
          /\ firms' = firms /\ branches' = branches /\ session' = session
      BY <1>3 DEF Expire, accessVars, data
    <2> QED
      BY <1>3, <2>1
  <1>4. CASE Step(q) /\ AccessStep(q) /\ UNCHANGED <<accounts, session>>
    BY <1>4 DEF AccessStep, Unique, Insert, Lookup, Write, Count, Strip, Drop, Copy, Role,
       Plan, Allowed, Wipe, Grant, CommitLinks, Abort, data, accounts
  <1>5. CASE Step(q) /\ AccountStep(q)
    <2>1. Refuse(q) \/ ReadOnly \/ (\E rs : Wrote(q, rs)) =>
            UNCHANGED <<rows, links, tenants, users, firms, branches, invitations, resets,
                        session>>
      BY DEF Refuse, Abort, ReadOnly, Wrote, data, accounts
    <2>2. CASE CheckUser(q) \/ Create(q) \/ BasicPlan(q) \/ InsertTenant(q)
               \/ InsertAdmin(q) \/ CommitTenant(q) \/ AdminRoleId(q)
      BY <1>5, <2>1, <2>2 DEF CheckUser, Create, BasicPlan, InsertTenant, InsertAdmin,
         CommitTenant, AdminRoleId, data, accounts
    <2>3. CASE FindLogin(q) \/ CountLogin(q) \/ FindUser(q) \/ CheckFirm(q)
               \/ CheckBranch(q) \/ FindContext(q)
      BY <1>5, <2>1, <2>3 DEF FindLogin, CountLogin, FindUser, CheckFirm, CheckBranch,
         FindContext, data, accounts
    <2>4. CASE CheckEmail(q) \/ Invite(q) \/ FindInvitation(q) \/ CheckName(q)
               \/ InsertMember(q) \/ MarkAccepted(q) \/ CommitMember(q) \/ Decline(q)
      BY <1>5, <2>1, <2>4 DEF CheckEmail, Invite, FindInvitation, CheckName, InsertMember,
         MarkAccepted, CommitMember, Decline, data, accounts
    <2>5. CASE FindEmail(q) \/ Invalidate(q) \/ Issue(q) \/ FindToken(q) \/ SetPassword(q)
               \/ Spend(q) \/ CommitReset(q)
      BY <1>5, <2>1, <2>5 DEF FindEmail, Invalidate, Issue, FindToken, SetPassword, Spend,
         CommitReset, data, accounts
    <2>6. CASE FindTenant(q) \/ FindPlan(q) \/ WriteTenant(q)
      BY <1>5, <2>1, <2>6 DEF FindTenant, FindPlan, WriteTenant, data, accounts
    <2> QED
      BY <1>5, <2>2, <2>3, <2>4, <2>5, <2>6 DEF AccountStep
  <1> QED
    BY <1>1, <1>2, <1>3, <1>4, <1>5 DEF Move, Step

(* Users: one more, one login more, or another password.                   *)
LEMMA UsersMove ==
  ASSUME AccountsInv, NEW q \in Request, Move(q)
  PROVE  /\ users' \in [Id -> OrNone(UserRow)]
         /\ \A u \in Users :
              /\ users'[u] # NULL
              /\ users'[u].email = users[u].email /\ users'[u].name = users[u].name
              /\ users'[u].tenant = users[u].tenant /\ users'[u].type = users[u].type
              /\ users'[u].password # users[u].password =>
                   /\ users'[u].password = q /\ Step(q) /\ pc[q] = "commitReset"
         /\ \A u \in Id \ Users : users'[u] # NULL =>
              /\ u = q /\ Step(q)
              /\ users'[q].name = call[q].name /\ users'[q].password = q
              /\ pc[q] \in {"create", "commitTenant", "commitMember"}
PROOF
  <1> USE DEF AccountsInv
  <1>0. users \in [Id -> OrNone(UserRow)] /\ q \in Id /\ NULL \notin UserRow
    BY DatabaseAssumption DEF TypeOK, Id, DatabaseAssumption
  <1>1. CASE users' = users
    BY <1>0, <1>1 DEF Users
  <1>2. ASSUME NEW e \in Key, NEW n \in Key, NEW t \in OrNone(Id), NEW y \in UserType,
               users' = [users EXCEPT ![q] = Row0(e, n, t, y, q)]
        PROVE  /\ users' \in [Id -> OrNone(UserRow)]
               /\ q \notin Users => 
                    /\ \A u \in Users : users'[u] = users[u]
                    /\ \A u \in Id \ Users : users'[u] # NULL => u = q
               /\ users'[q].name = n /\ users'[q].password = q
    <2>1. Row0(e, n, t, y, q) \in UserRow
      BY <1>0 DEF Row0, UserRow
    <2> QED
      BY <1>0, <1>2, <2>1 DEF Users, OrNone, Row0
  <1>3. CASE Step(q) /\ pc[q] \in {"create", "commitTenant", "commitMember"}
    <2>1. q \notin Users
      BY <1>3 DEF Fresh, Over, Users
    <2>2. NULL \notin UserRow
      BY <1>0
    <2>3. \E e \in Key, t \in OrNone(Id), y \in UserType :
            users' = [users EXCEPT ![q] = Row0(e, call[q].name, t, y, q)]
      <3>1. CASE pc[q] = "create"
        BY <1>3, <3>1, StepAt, CallAt, CallFields DEF Create, OrNone, UserType, Op
      <3>2. CASE pc[q] = "commitTenant"
        BY <1>0, <1>3, <3>2, StepAt, CallAt, CallFields
           DEF CommitTenant, OrNone, UserType, Op
      <3>3. CASE pc[q] = "commitMember"
        <4>1. call[q].id \in Id /\ call[q].name \in Key
          BY <3>3, CallAt, CallFields DEF Op
        <4>2. invitations[call[q].id] \in InvitationRow
          BY <3>3, <4>1 DEF StillFound, TypeOK, OrNone
        <4> QED
          BY <1>3, <3>3, <4>1, <4>2, StepAt DEF CommitMember, OrNone, InvitationRow
      <3> QED
        BY <1>3, <3>1, <3>2, <3>3
    <2>4. call[q].name \in Key
      BY <1>3, CallAt, CallFields DEF Op
    <2>5. PICK e \in Key, t \in OrNone(Id), y \in UserType :
            users' = [users EXCEPT ![q] = Row0(e, call[q].name, t, y, q)]
      BY <2>3
    <2>6. /\ users' \in [Id -> OrNone(UserRow)]
          /\ \A u \in Users : users'[u] = users[u]
          /\ \A u \in Id \ Users : users'[u] # NULL => u = q
          /\ users'[q].name = call[q].name /\ users'[q].password = q
      BY <1>2, <2>1, <2>4, <2>5
    <2> QED
      BY <1>3, <2>6 DEF Users
  <1>4. CASE Step(q) /\ pc[q] = "countLogin"
    <2>1. read[q] \in Users
      BY <1>4 DEF StillFound
    <2>2. users' = [users EXCEPT ![read[q]].logins = @ + 1]
      BY <1>4, StepAt DEF CountLogin
    <2>3. \A u \in Users : users[u] \in UserRow
      BY <1>0 DEF Users, OrNone
    <2>4. [users[read[q]] EXCEPT !.logins = @ + 1] \in UserRow
      BY <2>1, <2>3 DEF UserRow
    <2> QED
      BY <1>0, <1>4, <2>1, <2>2, <2>3, <2>4 DEF Users, UserRow, OrNone
  <1>5. CASE Step(q) /\ pc[q] = "commitReset"
    <2>1. read[q] \in Users
      BY <1>5 DEF StillFound
    <2>2. users' = [users EXCEPT ![read[q]].password = q]
      BY <1>5, StepAt DEF CommitReset
    <2>3. \A u \in Users : users[u] \in UserRow
      BY <1>0 DEF Users, OrNone
    <2>4. [users[read[q]] EXCEPT !.password = q] \in UserRow
      BY <1>0, <2>1, <2>3 DEF UserRow
    <2> QED
      BY <1>0, <1>5, <2>1, <2>2, <2>3, <2>4 DEF Users, UserRow, OrNone
  <1> QED
    BY <1>1, <1>3, <1>4, <1>5, Writers

(* Invitations: one more, or one with another status or expired.           *)
LEMMA InvitationsMove ==
  ASSUME AccountsInv, NEW q \in Request, Move(q)
  PROVE  /\ invitations' \in [Id -> OrNone(InvitationRow)]
         /\ \A i \in Id : invitations[i] # NULL =>
              /\ invitations'[i] # NULL
              /\ invitations[i].status # "pending" => invitations'[i].status # "pending"
         /\ \A i \in Id : invitations[i] = NULL /\ invitations'[i] # NULL =>
              i = q /\ Step(q) /\ pc[q] = "invite"
         /\ Step(q) /\ pc[q] \in {"commitMember", "decline"} =>
              invitations'[call[q].id].status # "pending"
PROOF
  <1> USE DEF AccountsInv
  <1>0. invitations \in [Id -> OrNone(InvitationRow)] /\ q \in Id /\ NULL \notin InvitationRow
    BY DatabaseAssumption DEF TypeOK, Id, DatabaseAssumption
  <1>1. CASE invitations' = invitations /\ ~(Step(q) /\ pc[q] \in {"commitMember", "decline"})
    BY <1>0, <1>1
  <1>2. CASE Step(q) /\ pc[q] = "invite"
    <2> DEFINE new == [email |-> call[q].email, tenant |-> call[q].as.tenant,
                       role |-> call[q].role, type |-> call[q].type, status |-> "pending",
                       expired |-> FALSE]
    <2>1. invitations[q] = NULL
      BY <1>2 DEF Fresh, Over
    <2>2. invitations' = [invitations EXCEPT ![q] = new]
      BY <1>2, StepAt DEF Invite
    <2>3. new \in InvitationRow
      <3>1. call[q].as.tenant \in Id
        BY <1>2, CallAt, CallFields DEF StillFound, Caller
      <3> QED
        BY <1>2, <3>1, CallAt, CallFields DEF InvitationRow, Op
    <2> HIDE DEF new
    <2> QED
      BY <1>0, <1>2, <2>1, <2>2, <2>3 DEF OrNone
  <1>3. ASSUME NEW i \in Id, invitations[i] # NULL, NEW s \in {"accepted", "declined"},
               invitations' = [invitations EXCEPT ![i].status = s]
        PROVE  /\ invitations' \in [Id -> OrNone(InvitationRow)]
               /\ \A j \in Id : invitations[j] # NULL =>
                    /\ invitations'[j] # NULL
                    /\ invitations[j].status # "pending" => invitations'[j].status # "pending"
               /\ \A j \in Id : invitations[j] = NULL => invitations'[j] = NULL
               /\ invitations'[i].status # "pending"
    <2>1. invitations[i] \in InvitationRow
      BY <1>0, <1>3 DEF OrNone
    <2>2. [invitations[i] EXCEPT !.status = s] \in InvitationRow
      BY <2>1 DEF InvitationRow
    <2>3. invitations'[i].status = s /\ s # "pending"
      BY <1>0, <1>3, <2>1 DEF InvitationRow
    <2> QED
      BY <1>0, <1>3, <2>1, <2>2, <2>3 DEF OrNone
  <1>4. CASE Step(q) /\ pc[q] \in {"commitMember", "decline"}
    <2>1. call[q].id \in Id /\ invitations[call[q].id] # NULL
      BY <1>4, CallAt, CallFields DEF Op, StillFound
    <2>2. \E s \in {"accepted", "declined"} :
            invitations' = [invitations EXCEPT ![call[q].id].status = s]
      BY <1>4, StepAt DEF CommitMember, Decline
    <2> QED
      BY <1>3, <1>4, <2>1, <2>2
  <1>5. CASE Expire(q) /\ invitations' # invitations
    <2> DEFINE i == call[q].id
    <2>1. i \in Id
      BY <1>5, CallAt, CallFields DEF Op, Expire
    <2>2. invitations[i] \in InvitationRow
      BY <1>0, <1>5, <2>1 DEF OrNone, Expire
    <2>3. invitations' = [invitations EXCEPT ![i].expired = TRUE]
      BY <1>5 DEF Expire
    <2>4. [invitations[i] EXCEPT !.expired = TRUE] \in InvitationRow
      BY <2>2 DEF InvitationRow
    <2>5. ~(pc[q] \in {"commitMember", "decline"})
      BY <1>5 DEF Expire
    <2> HIDE DEF i
    <2> QED
      BY <1>0, <1>5, <2>1, <2>2, <2>3, <2>4, <2>5 DEF OrNone, InvitationRow
  <1> QED
    BY <1>1, <1>2, <1>4, <1>5, Writers

(* Tokens: one more, or some used up or expired.                           *)
LEMMA ResetsMove ==
  ASSUME AccountsInv, NEW q \in Request, Move(q)
  PROVE  /\ resets' \in [Id -> OrNone(ResetRow)]
         /\ \A t \in Id : resets[t] # NULL =>
              /\ resets'[t] # NULL /\ resets'[t].user = resets[t].user
              /\ resets[t].used => resets'[t].used
              /\ Step(q) /\ pc[q] = "invalidate" /\ resets[t].user = read[q] =>
                   resets'[t].used
         /\ \A t \in Id : resets[t] = NULL /\ resets'[t] # NULL =>
              t = q /\ Step(q) /\ pc[q] = "issue" /\ resets'[q].user = read[q]
         /\ Step(q) /\ pc[q] = "commitReset" => resets'[call[q].id].used
PROOF
  <1> USE DEF AccountsInv
  <1>0. resets \in [Id -> OrNone(ResetRow)] /\ q \in Id /\ NULL \notin ResetRow
    BY DatabaseAssumption DEF TypeOK, Id, DatabaseAssumption
  <1>1. CASE resets' = resets /\ ~(Step(q) /\ pc[q] \in {"invalidate", "commitReset"})
    BY <1>0, <1>1
  <1>2. CASE Step(q) /\ pc[q] = "issue"
    <2> DEFINE new == [user |-> read[q], used |-> FALSE, expired |-> FALSE]
    <2>1. resets[q] = NULL
      BY <1>2 DEF Fresh, Over
    <2>2. resets' = [resets EXCEPT ![q] = new]
      BY <1>2, StepAt DEF Issue
    <2>3. new \in ResetRow /\ new.user = read[q]
      BY <1>2 DEF StillFound, Users, ResetRow
    <2> HIDE DEF new
    <2> QED
      BY <1>0, <1>2, <2>1, <2>2, <2>3 DEF OrNone
  <1>3. CASE Step(q) /\ pc[q] = "invalidate"
    <2> DEFINE spent(t) == [resets[t] EXCEPT !.used = TRUE]
    <2>1. resets' = [t \in Id |-> IF resets[t] # NULL /\ resets[t].user = read[q]
                                  THEN spent(t) ELSE resets[t]]
      BY <1>3, StepAt DEF Invalidate
    <2>2. \A t \in Id : resets[t] # NULL => spent(t) \in ResetRow /\ spent(t).used
                                            /\ spent(t).user = resets[t].user
      BY <1>0 DEF ResetRow, OrNone
    <2> HIDE DEF spent
    <2> QED
      BY <1>0, <1>3, <2>1, <2>2 DEF OrNone
  <1>4. CASE Step(q) /\ pc[q] = "commitReset"
    <2> DEFINE i == call[q].id
               spent == [resets[i] EXCEPT !.used = TRUE]
    <2>1. i \in Id /\ resets[i] # NULL
      BY <1>4, CallAt, CallFields DEF Op, StillFound
    <2>2. resets' = [resets EXCEPT ![i] = spent]
      BY <1>4, StepAt DEF CommitReset
    <2>3. spent \in ResetRow /\ spent.used /\ spent.user = resets[i].user
      BY <1>0, <2>1 DEF ResetRow, OrNone
    <2> HIDE DEF spent
    <2> QED
      BY <1>0, <1>4, <2>1, <2>2, <2>3 DEF OrNone
  <1>5. CASE Expire(q) /\ resets' # resets
    <2> DEFINE i == call[q].id
               old == [resets[i] EXCEPT !.expired = TRUE]
    <2>1. pc[q] = "findToken" /\ resets[i] # NULL /\ resets' = [resets EXCEPT ![i] = old]
      BY <1>5 DEF Expire
    <2>2. i \in Id
      BY <2>1, CallAt, CallFields DEF Op
    <2>3. old \in ResetRow /\ old.used = resets[i].used /\ old.user = resets[i].user
      BY <1>0, <2>1, <2>2 DEF ResetRow, OrNone
    <2> HIDE DEF old, i
    <2> QED
      BY <1>0, <2>1, <2>2, <2>3 DEF OrNone
  <1> QED
    BY <1>1, <1>2, <1>3, <1>4, <1>5, Writers

(* Firms and branches: one more of each.                                   *)
LEMMA PlacesMove ==
  ASSUME AccountsInv, NEW q \in Request, Move(q)
  PROVE  /\ firms' \in [Id -> OrNone(FirmRow)]
         /\ branches' \in [Id -> OrNone(BranchRow)]
         /\ \A f \in Id : firms[f] # NULL => firms'[f] = firms[f]
         /\ \A b \in Id : branches[b] # NULL => branches'[b] = branches[b]
         /\ \A i \in Id : \/ firms[i] = NULL /\ firms'[i] # NULL
                          \/ branches[i] = NULL /\ branches'[i] # NULL
                          => i = q /\ Step(q) /\ pc[q] = "commitTenant"
PROOF
  <1>0. /\ firms \in [Id -> OrNone(FirmRow)] /\ branches \in [Id -> OrNone(BranchRow)]
        /\ q \in Id
    BY DEF AccountsInv, TypeOK, Id
  <1>1. CASE firms' = firms /\ branches' = branches
    BY <1>0, <1>1
  <1>2. CASE Step(q) /\ pc[q] = "commitTenant"
    <2>1. firms[q] = NULL /\ branches[q] = NULL
      BY <1>2 DEF AccountsInv, Fresh, Over
    <2>2. /\ firms' = [firms EXCEPT ![q] = [tenant |-> q]]
          /\ branches' = [branches EXCEPT ![q] = [firm |-> q]]
      BY <1>2, StepAt DEF CommitTenant
    <2>3. [tenant |-> q] \in FirmRow /\ [firm |-> q] \in BranchRow
      BY <1>0 DEF FirmRow, BranchRow
    <2> QED
      BY <1>0, <1>2, <2>1, <2>2, <2>3 DEF OrNone
  <1> QED
    BY <1>1, <1>2, Writers

(* Tenants: one more, or one written over.                                 *)
LEMMA TenantsMove ==
  ASSUME AccountsInv, NEW q \in Request, Move(q)
  PROVE  /\ tenants' \in [Id -> OrNone(TenantRow)]
         /\ \A t \in Id : tenants[t] # NULL => tenants'[t] # NULL
         /\ \A t \in Id : tenants[t] = NULL /\ tenants'[t] # NULL =>
              t = q /\ Step(q) /\ pc[q] = "commitTenant"
PROOF
  <1>0. tenants \in [Id -> OrNone(TenantRow)] /\ q \in Id /\ NULL \notin TenantRow
    BY DatabaseAssumption DEF AccountsInv, TypeOK, Id, DatabaseAssumption
  <1>1. CASE tenants' = tenants
    BY <1>0, <1>1
  <1>2. CASE Step(q) /\ pc[q] = "commitTenant"
    <2>1. tenants' = [tenants EXCEPT ![q] = [active |-> TRUE, plan |-> read[q]]]
      BY <1>2, StepAt DEF CommitTenant
    <2>2. [active |-> TRUE, plan |-> read[q]] \in TenantRow
      BY DEF AccountsInv, TypeOK, TenantRow
    <2> QED
      BY <1>0, <1>2, <2>1, <2>2 DEF OrNone
  <1>3. CASE Step(q) /\ pc[q] = "writeTenant"
    <2> DEFINE i == call[q].id
               row == [active |-> IF Op(q) \in {"updateTenant", "assignPlan"}
                                  THEN tenants[i].active ELSE Op(q) = "activateTenant",
                       plan |-> IF Op(q) = "assignPlan" THEN call[q].plan
                                ELSE tenants[i].plan]
    <2>1. tenants' = [tenants EXCEPT ![i] = row]
      BY <1>3, StepAt DEF WriteTenant
    <2>2. i \in Id /\ (Op(q) = "assignPlan" => call[q].plan \in Id)
      BY <1>3, CallAt, CallFields DEF AccountsInv, Op
    <2>3. tenants[i] # NULL
      BY <1>3 DEF AccountsInv, StillFound
    <2>4. row \in TenantRow
      BY <1>0, <2>2, <2>3 DEF OrNone, TenantRow
    <2> HIDE DEF i, row
    <2> QED
      BY <1>0, <1>3, <2>1, <2>2, <2>3, <2>4 DEF OrNone
  <1> QED
    BY <1>1, <1>2, <1>3, Writers

LEMMA TableAt ==
  ASSUME TypeOK, NEW q \in Request,
         pc[q] \in {"unique", "insert", "lookup", "write", "drop", "count", "strip"}
  PROVE  /\ T(q) \in Table
         /\ pc[q] # "insert" /\ Op(q) # "cloneRole" /\ Op(q) \notin Creates => call[q].id \in Id
         /\ pc[q] \in {"lookup", "write", "drop", "count", "strip"} => call[q].id \in Id
         /\ pc[q] = "write" => call[q].key \in OrNone(Key)
PROOF
  BY CallAt, CallFields DEF T, TableOf, Table, Op, Creates, Updates, Deletes

(* Rows: one more, one with another key or one less.                       *)
LEMMA RowsMove ==
  ASSUME AccountsInv, NEW q \in Request, Move(q)
  PROVE  /\ rows' \in [Table -> [Id -> OrNone(KeyRow)]]
         /\ \A t \in Table, r \in Id : rows'[t][r] # rows[t][r] =>
              /\ Step(q) /\ t = T(q)
              /\ \/ /\ pc[q] = "insert" /\ r = q /\ rows[t][q] = NULL
                    /\ rows'[t][q] = [key |-> call[q].key, tenant |-> NewTenant(q),
                                      system |-> call[q].system]
                 \/ /\ pc[q] = "write" /\ r = call[q].id
                    /\ rows[t][r] # NULL /\ rows'[t][r] # NULL
                    /\ rows'[t][r].key = call[q].key
                    /\ rows'[t][r].tenant = rows[t][r].tenant
                    /\ rows'[t][r].system = rows[t][r].system
                 \/ pc[q] = "drop" /\ r = call[q].id /\ rows'[t][r] = NULL
PROOF
  <1>0. rows \in [Table -> [Id -> OrNone(KeyRow)]] /\ q \in Id /\ NULL \notin KeyRow
    BY DatabaseAssumption DEF AccountsInv, TypeOK, Id, DatabaseAssumption
  <1>1. CASE rows' = rows
    BY <1>0, <1>1
  <1>2. ASSUME NEW t \in Table, NEW i \in Id, NEW new \in OrNone(KeyRow),
               rows' = [rows EXCEPT ![t][i] = new]
        PROVE  /\ rows' \in [Table -> [Id -> OrNone(KeyRow)]]
               /\ rows'[t][i] = new
               /\ \A s \in Table, r \in Id : rows'[s][r] # rows[s][r] => s = t /\ r = i
    <2> DEFINE col == [rows[t] EXCEPT ![i] = new]
    <2>1. col \in [Id -> OrNone(KeyRow)]
      BY <1>0, <1>2
    <2>2. rows' = [rows EXCEPT ![t] = col]
      BY <1>2
    <2>3. col[i] = new /\ \A r \in Id : r # i => col[r] = rows[t][r]
      BY <1>0
    <2> HIDE DEF col
    <2> QED
      BY <1>0, <2>1, <2>2, <2>3
  <1>3. CASE Step(q) /\ pc[q] = "insert"
    <2> DEFINE new == [key |-> call[q].key, tenant |-> NewTenant(q),
                       system |-> call[q].system]
    <2>1. T(q) \in Table
      BY <1>3, TableAt DEF AccountsInv
    <2>2. rows' = rows \/ rows' = [rows EXCEPT ![T(q)][q] = new]
      BY <1>3, StepAt DEF Insert, Abort, data, AccessPc
    <2>3. new \in KeyRow
      <3>1. Op(q) \in Creates /\ call[q] \in UNION Mix
        BY <1>3, CallAt DEF AccountsInv
      <3>2. NewTenant(q) \in OrNone(Id)
        BY <3>1, CallFields DEF NewTenant, Op, AccountsInv, TypeOK
      <3> QED
        BY <3>1, <3>2, CallFields DEF KeyRow, Op
    <2>4. rows[T(q)][q] = NULL
      BY <1>3, <2>1 DEF AccountsInv, Fresh, Inserted, Over
    <2> HIDE DEF new
    <2>5. new \in OrNone(KeyRow)
      BY <2>3 DEF OrNone
    <2>6. CASE rows' = [rows EXCEPT ![T(q)][q] = new]
      <3>1. /\ rows' \in [Table -> [Id -> OrNone(KeyRow)]]
            /\ rows'[T(q)][q] = new
            /\ \A s \in Table, r \in Id : rows'[s][r] # rows[s][r] => s = T(q) /\ r = q
        BY <1>0, <1>2, <2>1, <2>5, <2>6
      <3> QED
        BY <1>3, <2>4, <3>1 DEF new
    <2> QED
      BY <1>1, <2>2, <2>6
  <1>4. CASE Step(q) /\ pc[q] = "write"
    <2> DEFINE i == call[q].id
               new == [rows[T(q)][i] EXCEPT !.key = call[q].key]
    <2>1. T(q) \in Table /\ i \in Id /\ call[q].key \in OrNone(Key)
      BY <1>4, TableAt DEF AccountsInv
    <2>2. \/ rows' = rows
          \/ Row(q) # NULL /\ call[q].key # NULL /\ rows' = [rows EXCEPT ![T(q)][i] = new]
      BY <1>4, StepAt DEF Write, Abort, data, AccessPc
    <2>3. CASE /\ Row(q) # NULL /\ call[q].key # NULL
               /\ rows' = [rows EXCEPT ![T(q)][i] = new]
      <3>1. rows[T(q)][i] \in KeyRow
        BY <1>0, <2>1, <2>3 DEF Row, OrNone
      <3>2. /\ new \in KeyRow /\ new.key = call[q].key
            /\ new.tenant = rows[T(q)][i].tenant /\ new.system = rows[T(q)][i].system
        BY <2>1, <2>3, <3>1 DEF KeyRow, OrNone
      <3>3. Row(q) = rows[T(q)][i]
        BY DEF Row
      <3> HIDE DEF new, i
      <3>4. new \in OrNone(KeyRow)
        BY <3>2 DEF OrNone
      <3>5. /\ rows' \in [Table -> [Id -> OrNone(KeyRow)]]
            /\ rows'[T(q)][i] = new
            /\ \A s \in Table, r \in Id : rows'[s][r] # rows[s][r] => s = T(q) /\ r = i
        BY <1>0, <1>2, <2>1, <2>3, <3>4
      <3> QED
        BY <1>0, <1>4, <2>3, <3>2, <3>3, <3>5 DEF i
    <2> HIDE DEF new
    <2> QED
      BY <1>1, <2>2, <2>3
  <1>5. CASE Step(q) /\ pc[q] = "drop"
    <2>1. T(q) \in Table /\ call[q].id \in Id
      BY <1>5, TableAt DEF AccountsInv
    <2>2. rows' = [rows EXCEPT ![T(q)][call[q].id] = NULL]
      BY <1>5, StepAt DEF Drop, AccessPc
    <2>3. /\ rows' \in [Table -> [Id -> OrNone(KeyRow)]]
          /\ rows'[T(q)][call[q].id] = NULL
          /\ \A s \in Table, r \in Id :
               rows'[s][r] # rows[s][r] => s = T(q) /\ r = call[q].id
      BY <1>0, <1>2, <2>1, <2>2 DEF OrNone
    <2> QED
      BY <1>5, <2>3
  <1> QED
    BY <1>1, <1>3, <1>4, <1>5, Writers

(* Whose links an assignment replaces.                                     *)
LEMMA TargetAt ==
  ASSUME TypeOK, NEW q \in Request, pc[q] \in {"wipe", "grant", "commitLinks"}
  PROVE  /\ LinkOf[Op(q)] \in Link
         /\ LinkOf[Op(q)] # "featurePermissions" => Target(q) \in Id
         /\ LinkOf[Op(q)] = "featurePermissions" => Target(q) \in Id \X Id
         /\ Op(q) \in Assigns \cup {"cloneRole"}
         /\ Op(q) \in Assigns => call[q].items \in SUBSET Id
PROOF
  <1>1. call[q] \in UNION Mix /\ Op(q) \in Assigns \cup {"cloneRole"}
    BY CallAt
  <1>2. CASE Op(q) = "assignFeaturePermissions"
    BY <1>1, <1>2, CallFields DEF Op, Target, LinkOf, Link, Assigns
  <1>3. CASE Op(q) \in {"assignRolePermissions", "assignUserRoles", "cloneRole"}
    BY <1>1, <1>3, CallFields DEF Op, Target, LinkOf, Link, Assigns, Id
  <1> QED
    BY <1>1, <1>2, <1>3 DEF Assigns

LEMMA NewLinksTyped ==
  ASSUME TypeOK, NEW q \in Request, pc[q] = "commitLinks"
  PROVE  /\ NewLinks(q) \subseteq LinkRow
         /\ \A l \in NewLinks(q) : l.by = q /\ l.in = LinkOf[Op(q)] /\ l.from = Target(q)
PROOF
  <1>1. items[q] \subseteq Id /\ q \in Id
    BY DEF TypeOK, Id
  <1> QED
    BY <1>1, TargetAt DEF NewLinks, LinkRow

(* Links: those of a role's permissions go with it; an assignment puts its *)
(* own in the place of those it has deleted; a new user gets its role.     *)
LEMMA LinksMove ==
  ASSUME AccountsInv, NEW q \in Request, Move(q)
  PROVE  /\ links' \subseteq LinkRow
         /\ \A l \in links \ links' :
              /\ Step(q)
              /\ \/ pc[q] = "strip" /\ l.in = "rolePermissions" /\ l.from = call[q].id
                 \/ pc[q] = "commitLinks" /\ l \in wiped[q]
         /\ \A l \in links' \ links :
              /\ Step(q) /\ l.by = q
              /\ \/ pc[q] = "commitLinks" /\ l.in = LinkOf[Op(q)] /\ l.from = Target(q)
                 \/ /\ pc[q] \in {"commitTenant", "commitMember"}
                    /\ l.in = "userRoles" /\ l.from = q
         /\ Step(q) /\ pc[q] = "strip" =>
              ~(\E l \in links' : l.in = "rolePermissions" /\ l.from = call[q].id)
         /\ Step(q) /\ pc[q] = "commitLinks" => links' \cap wiped[q] = {}
PROOF
  <1>0. links \subseteq LinkRow /\ q \in Id
    BY DEF AccountsInv, TypeOK, Id
  <1>1. CASE links' = links /\ ~(Step(q) /\ pc[q] \in {"strip", "commitLinks"})
    BY <1>0, <1>1
  <1>2. CASE Step(q) /\ pc[q] = "strip"
    <2>1. links' = {l \in links : ~(l.in = "rolePermissions" /\ l.from = call[q].id)}
      BY <1>2, StepAt DEF Strip, AccessPc
    <2> QED
      BY <1>0, <1>2, <2>1
  <1>3. CASE Step(q) /\ pc[q] = "commitLinks"
    <2>1. links' = (links \ wiped[q]) \cup NewLinks(q)
      BY <1>3, StepAt DEF CommitLinks, AccessPc
    <2>2. \A l \in wiped[q] : l \in links /\ l.by # q
      BY <1>3 DEF AccountsInv, TypeOK, Fresh, Over
    <2>3. /\ NewLinks(q) \subseteq LinkRow
          /\ \A l \in NewLinks(q) : l.by = q /\ l.in = LinkOf[Op(q)] /\ l.from = Target(q)
      BY <1>3, NewLinksTyped DEF AccountsInv
    <2> QED
      BY <1>0, <1>3, <2>1, <2>2, <2>3
  <1>4. ASSUME NEW S \in SUBSET Id, links' = links \cup {UserRole(q, r) : r \in S},
               Step(q), pc[q] \in {"commitTenant", "commitMember"}
        PROVE  /\ links' \subseteq LinkRow /\ links \subseteq links'
               /\ \A l \in links' \ links : l.by = q /\ l.in = "userRoles" /\ l.from = q
    BY <1>0, <1>4 DEF UserRole, LinkRow, Link
  <1>5. CASE Step(q) /\ pc[q] = "commitTenant"
    <2>1. links' = links \cup {UserRole(q, r) : r \in items[q]} /\ items[q] \in SUBSET Id
      BY <1>5, StepAt DEF CommitTenant, AccountsInv, TypeOK
    <2> QED
      BY <1>4, <1>5, <2>1
  <1>6. CASE Step(q) /\ pc[q] = "commitMember"
    <2> DEFINE i == invitations[call[q].id]
    <2>1. i \in InvitationRow
      BY <1>6, CallAt, CallFields DEF AccountsInv, StillFound, TypeOK, OrNone, Op
    <2>2. links' = links \cup {UserRole(q, i.role)} /\ i.role \in Id
      BY <1>6, <2>1, StepAt DEF CommitMember, InvitationRow
    <2> HIDE DEF i
    <2>3. /\ {UserRole(q, i.role)} = {UserRole(q, r) : r \in {i.role}}
          /\ {i.role} \in SUBSET Id
      BY <2>2
    <2>4. links' = links \cup {UserRole(q, r) : r \in {i.role}}
      BY <2>2, <2>3
    <2> QED
      BY <1>4, <1>6, <2>3, <2>4
  <1> QED
    BY <1>1, <1>2, <1>3, <1>5, <1>6, Writers

(* What the transaction of q holds: it locks what it writes and lets go of *)
(* everything when it ends.                                                *)
LEMMA PendingMove ==
  ASSUME AccountsInv, NEW q \in Request, Move(q)
  PROVE  /\ read'[q] \in OrNone(Id) /\ items'[q] \in SUBSET Id
         /\ locked'[q] \in SUBSET Lockable
         /\ pc'[q] \notin InTransaction => locked'[q] = {}
         /\ pc'[q] \notin {"grant", "commitLinks"} => wiped'[q] = {}
         /\ pc'[q] \in {"grant", "commitLinks"} =>
              /\ Step(q)
              /\ \/ /\ pc[q] = "wipe" /\ wiped'[q] = Mine(q)
                    /\ Mine(q) # {} => <<LinkOf[Op(q)], Target(q)>> \in locked'[q]
                 \/ pc[q] = "grant" /\ wiped'[q] = wiped[q] /\ locked[q] \subseteq locked'[q]
PROOF
  <1> DEFINE Good ==
        /\ read'[q] \in OrNone(Id) /\ items'[q] \in SUBSET Id
        /\ locked'[q] \in SUBSET Lockable
        /\ pc'[q] \notin InTransaction => locked'[q] = {}
        /\ pc'[q] \notin {"grant", "commitLinks"} => wiped'[q] = {}
        /\ pc'[q] \in {"grant", "commitLinks"} =>
             /\ Step(q)
             /\ \/ /\ pc[q] = "wipe" /\ wiped'[q] = Mine(q)
                   /\ Mine(q) # {} => <<LinkOf[Op(q)], Target(q)>> \in locked'[q]
                \/ pc[q] = "grant" /\ wiped'[q] = wiped[q] /\ locked[q] \subseteq locked'[q]
  <1> SUFFICES Good
    OBVIOUS
  <1>0. /\ read \in [Request -> OrNone(Id)] /\ items \in [Request -> SUBSET Id]
        /\ locked \in [Request -> SUBSET Lockable] /\ wiped \in [Request -> SUBSET links]
        /\ NULL \notin Id /\ q \in Id
    BY AccessControlAssumption DEF AccountsInv, TypeOK, AccessControlAssumption, Id
  <1>1. pc[q] \notin InTransaction => locked[q] = {} /\ wiped[q] = {}
    BY DEF AccountsInv, Holds, InTransaction
  <1>2. ASSUME Settle(q), pc'[q] \in {"ok", "failed"} PROVE Good
    BY <1>0, <1>2 DEF Settle, OrNone, InTransaction
  <1>3. ASSUME Abort(q) PROVE Good
    <2>1. Settle(q) /\ pc'[q] = "failed"
      BY <1>3 DEF Abort, Goto, AccountsInv, TypeOK
    <2> QED
      BY <1>2, <2>1
  <1>4. ASSUME read'[q] \in OrNone(Id), items'[q] \in SUBSET Id,
               UNCHANGED <<wiped, locked>>, pc'[q] \notin InTransaction,
               pc[q] \notin InTransaction
        PROVE  Good
    BY <1>0, <1>1, <1>4 DEF InTransaction
  <1>5. CASE Arrive(q)
    BY <1>0, <1>4, <1>5, ArriveAt DEF AccountsInv, Arrive, pending, InTransaction, Starts
  <1>6. CASE Fail(q)
    BY <1>3, <1>6 DEF Fail
  <1>7. CASE Expire(q)
    <2>1. /\ pc' = pc /\ read' = read /\ items' = items /\ UNCHANGED <<wiped, locked>>
          /\ pc[q] \in {"findInvitation", "findToken"}
      BY <1>7 DEF Expire, accessVars, pending
    <2> QED
      BY <1>0, <1>4, <2>1 DEF InTransaction
  <1>8. ASSUME NEW rs \in SUBSET Lockable, Wrote(q, rs),
               pc'[q] \in InTransaction \ {"grant", "commitLinks"},
               pc[q] \notin {"grant", "commitLinks"}
        PROVE  Good
    <2>1. wiped'[q] = {}
      BY <1>8 DEF Wrote, AccountsInv, Holds
    <2> QED
      BY <1>0, <1>8, <2>1 DEF Wrote, Lock
  <1>9. Refuse(q) => Good
    BY <1>3 DEF Refuse
  <1>10. \A s : Goto(q, s) => pc'[q] = s
    BY DEF Goto, AccountsInv, TypeOK
  <1>11. Reply(q) => pc'[q] \in {"ok", "failed"}
    BY <1>10 DEF Reply
  <1>12. pc[q] \notin InTransaction /\ UNCHANGED pending /\ pc'[q] \notin InTransaction => Good
    BY <1>0, <1>4 DEF pending
  <1> HIDE DEF Good
  <1>13. CASE Step(q) /\ pc[q] \in {"unique", "insert", "write", "count", "strip", "drop"}
    <2>1. pc[q] \notin InTransaction
      BY <1>13 DEF InTransaction
    <2>2. Abort(q) \/ (UNCHANGED pending /\ pc'[q] \notin InTransaction)
      BY <1>10, <1>11, <1>13, StepAt
         DEF Unique, Insert, Write, Count, Strip, Drop, AccessPc, InTransaction
    <2> QED
      BY <1>3, <1>12, <2>1, <2>2
  <1>14. CASE Step(q) /\ pc[q] = "lookup"
    <2>1. T(q) \in Table /\ call[q].id \in Id
      BY <1>14, TableAt DEF AccountsInv
    <2>2. Row(q) # NULL => Row(q).tenant \in OrNone(Id)
      BY <2>1 DEF Row, AccountsInv, TypeOK, OrNone, KeyRow
    <2>3. \/ Abort(q)
          \/ /\ Row(q) # NULL /\ UNCHANGED <<items, wiped, locked>>
             /\ read' = [read EXCEPT ![q] = Row(q).tenant] \/ read' = read
      BY <1>14, StepAt DEF Lookup, AccessPc, Refused
    <2>4. pc'[q] \notin InTransaction /\ pc[q] \notin InTransaction
      BY <1>14, Onward DEF AccountsInv, InTransaction
    <2> QED
      BY <1>0, <1>3, <1>4, <2>2, <2>3, <2>4
  <1>15. CASE Step(q) /\ pc[q] \in {"copy", "role", "plan", "allowed"}
    <2>a. Abort(q) \/ UNCHANGED <<wiped, locked>>
      BY <1>15, StepAt DEF Copy, Role, Plan, Allowed, AccessPc
    <2>b. pc'[q] \notin InTransaction /\ pc[q] \notin InTransaction
      BY <1>15, Onward DEF AccountsInv, InTransaction
    <2>1. /\ Abort(q) \/ UNCHANGED <<wiped, locked>>
          /\ pc'[q] \notin InTransaction /\ pc[q] \notin InTransaction
      BY <2>a, <2>b
    <2>2. CASE pc[q] = "copy"
      <3>1. {l.to : l \in {x \in links : /\ x.in = "rolePermissions"
                                         /\ x.from = call[q].id}} \subseteq Id
        BY DEF AccountsInv, TypeOK, LinkRow
      <3> QED
        BY <1>0, <1>4, <1>15, <2>1, <2>2, <3>1, StepAt, <1>3 DEF Copy, AccessPc
    <2>3. CASE pc[q] = "role"
      <3>1. Op(q) # "cloneRole" => call[q].items \subseteq Id
        BY <2>3, CallAt, CallFields DEF AccountsInv, Op, Assigns
      <3>2. (read' = read /\ items'[q] \in SUBSET Id) \/ Abort(q)
        BY <1>0, <1>15, <2>3, <3>1, StepAt DEF Role, AccessPc
      <3> QED
        BY <1>0, <1>3, <1>4, <2>1, <3>2
    <2>4. CASE pc[q] = "plan"
      <3>1. call[q] \in UNION Mix /\ Op(q) = "assignRolePermissions"
        BY <2>4, CallAt DEF AccountsInv
      <3>2. Scope(q) \in Id
        BY <2>4, <3>1, CallFields DEF Caller, Scope, AccountsInv, StillFound
      <3>3. tenants[Scope(q)] # NULL => tenants[Scope(q)].plan \in OrNone(Id)
        BY <3>2 DEF AccountsInv, TypeOK, OrNone, TenantRow
      <3> DEFINE plan == tenants[Scope(q)].plan
      <3>4. \/ UNCHANGED read /\ items' = [items EXCEPT ![q] = {}]
            \/ /\ tenants[Scope(q)] # NULL
               /\ read' = [read EXCEPT ![q] = plan] /\ UNCHANGED items
        BY <1>15, <2>4, StepAt DEF Plan, AccessPc
      <3>5. plan \in OrNone(Id) \/ UNCHANGED read
        BY <3>3, <3>4
      <3> HIDE DEF plan
      <3>6. read'[q] \in OrNone(Id) /\ items'[q] \in SUBSET Id
        BY <1>0, <3>4, <3>5
      <3> QED
        BY <1>3, <1>4, <2>1, <3>6
    <2>5. CASE pc[q] = "allowed"
      <3>1. read' = read /\ items'[q] \subseteq items[q]
        BY <1>0, <1>15, <2>5, StepAt DEF Allowed, AccessPc
      <3> QED
        BY <1>0, <1>3, <1>4, <2>1, <3>1
    <2> QED
      BY <1>15, <2>2, <2>3, <2>4, <2>5
  <1>16. CASE Step(q) /\ pc[q] = "wipe"
    <2> DEFINE key == <<LinkOf[Op(q)], Target(q)>>
    <2>1. key \in Lockable
      BY <1>16, TargetAt DEF AccountsInv, Lockable, Link
    <2>2. Op(q) \in Assigns => call[q].items \in SUBSET Id
      BY <1>16, TargetAt DEF AccountsInv
    <2>3. /\ wiped' = [wiped EXCEPT ![q] = Mine(q)] /\ pc'[q] = "grant" /\ read' = read
          /\ locked' = [locked EXCEPT ![q] = @ \cup (IF Mine(q) = {} THEN {} ELSE {key})]
          /\ items'[q] = items[q] \/ (Op(q) \in Assigns /\ items'[q] = call[q].items)
      BY <1>0, <1>10, <1>16, StepAt DEF Wipe, AccessPc, Lock, Assigns
    <2> HIDE DEF key
    <2>4. /\ locked'[q] \in SUBSET Lockable /\ wiped'[q] = Mine(q)
          /\ Mine(q) # {} => key \in locked'[q]
      BY <1>0, <2>1, <2>3
    <2> QED
      BY <1>0, <1>16, <2>2, <2>3, <2>4 DEF Good, key, InTransaction
  <1>17. CASE Step(q) /\ pc[q] = "grant"
    <2> DEFINE key == <<LinkOf[Op(q)], Target(q)>>
    <2>1. key \in Lockable
      BY <1>17, TargetAt DEF AccountsInv, Lockable, Link
    <2>2. /\ UNCHANGED <<read, items, wiped>> /\ pc'[q] = "commitLinks"
          /\ locked' = [locked EXCEPT ![q] = @ \cup (IF items[q] = {} THEN {} ELSE {key})]
      BY <1>10, <1>17, StepAt DEF Grant, AccessPc, Lock
    <2> HIDE DEF key
    <2>3. locked'[q] \in SUBSET Lockable /\ locked[q] \subseteq locked'[q]
      BY <1>0, <2>1, <2>2
    <2> QED
      BY <1>0, <1>17, <2>2, <2>3 DEF Good, InTransaction
  <1>18. CASE /\ Step(q)
              /\ pc[q] \in {"commitLinks", "commitTenant", "commitMember", "commitReset"}
    BY <1>2, <1>11, <1>18, StepAt
       DEF AccessPc, CommitLinks, CommitTenant, CommitMember, CommitReset
  <1>19. CASE Step(q) /\ pc[q] \in {"create", "countLogin", "invite", "decline", "writeTenant",
                                    "invalidate", "issue", "findContext"}
    <2>1. pc[q] \notin InTransaction /\ UNCHANGED pending
      BY <1>19, StepAt DEF InTransaction, Create, CountLogin, Invite, Decline, WriteTenant,
         Invalidate, Issue, FindContext
    <2>2. pc'[q] \notin InTransaction
      BY <1>19, Onward DEF AccountsInv, InTransaction
    <2> QED
      BY <1>12, <2>1, <2>2
  <1>20. CASE Step(q) /\ pc[q] \in {"checkUser", "checkFirm", "checkBranch", "checkEmail",
                                    "findInvitation", "checkName", "findTenant", "findPlan"}
    <2>1. Refuse(q) \/ UNCHANGED pending
      BY <1>20, StepAt DEF CheckUser, CheckFirm, CheckBranch, CheckEmail, FindInvitation,
         CheckName, FindTenant, FindPlan, ReadOnly, pending
    <2>2. pc[q] \notin InTransaction /\ pc'[q] \notin InTransaction
      BY <1>20, Onward DEF AccountsInv, InTransaction
    <2> QED
      BY <1>9, <1>12, <2>1, <2>2
  <1>21. CASE Step(q) /\ pc[q] \in {"basicPlan", "findLogin", "findUser", "findEmail",
                                    "findToken"}
    <2>1. pc[q] \notin InTransaction /\ pc'[q] \notin InTransaction
      BY <1>21, Onward DEF AccountsInv, InTransaction
    <2>2. ASSUME NEW r \in OrNone(Id), read' = read \/ Found(q, r), ReadOnly PROVE Good
      BY <1>0, <1>4, <2>1, <2>2 DEF Found, ReadOnly
    <2>3. CASE pc[q] = "findUser"
      <3>1. call[q].user \in Id
        BY <2>3, CallAt, CallFields DEF AccountsInv, Op
      <3> QED
        BY <1>9, <1>21, <2>2, <2>3, <3>1, StepAt DEF FindUser, OrNone
    <2>4. CASE pc[q] = "findToken"
      <3>1. call[q].id \in Id
        BY <2>4, CallAt, CallFields DEF AccountsInv, Op
      <3>2. resets[call[q].id] # NULL => resets[call[q].id].user \in OrNone(Id)
        BY <3>1 DEF AccountsInv, Users, OrNone
      <3> QED
        BY <1>9, <1>21, <2>2, <2>4, <3>2, StepAt DEF FindToken
    <2>5. CASE pc[q] \in {"basicPlan", "findLogin", "findEmail"}
      <3>1. Refuse(q) \/ (ReadOnly /\ (UNCHANGED read \/ \E r \in Id : Found(q, r)))
        BY <1>21, <2>5, StepAt DEF BasicPlan, FindLogin, FindEmail, Users
      <3> QED
        BY <1>9, <2>2, <3>1 DEF OrNone
    <2> QED
      BY <1>21, <2>3, <2>4, <2>5
  <1>22. CASE Step(q) /\ pc[q] = "adminRole"
    <2>1. CASE Refuse(q)
      BY <1>9, <2>1
    <2>2. CASE ~Refuse(q)
      <3>1. /\ UNCHANGED <<read, wiped, locked>> /\ pc'[q] = "insertAdmin"
            /\ \E r \in Id : items' = [items EXCEPT ![q] = {r}]
        BY <1>10, <1>22, <2>2, StepAt DEF AdminRoleId
      <3>2. wiped[q] = {}
        BY <1>22 DEF AccountsInv, Holds
      <3> QED
        BY <1>0, <3>1, <3>2 DEF Good, InTransaction
    <2> QED
      BY <2>1, <2>2
  <1>23. CASE Step(q) /\ pc[q] \in {"insertTenant", "insertAdmin", "insertMember",
                                    "markAccepted", "setPassword", "spend"}
    <2>1. /\ pc'[q] \in InTransaction \ {"grant", "commitLinks"}
          /\ pc[q] \notin {"grant", "commitLinks"}
      BY <1>10, <1>23, StepAt DEF InTransaction, InsertTenant, InsertAdmin, InsertMember,
         MarkAccepted, SetPassword, Spend
    <2>2. ASSUME NEW rs, Wrote(q, rs), rs \in SUBSET Lockable PROVE Good
      BY <1>8, <2>1, <2>2
    <2>3. \A t \in Table \cup Link \cup {"tenants", "users", "firms", "branches",
                                         "invitations", "resets"}, r \in Id :
            <<t, r>> \in Lockable
      BY DEF Lockable
    <2>4. CASE pc[q] = "insertTenant"
      <3>1. Wrote(q, {<<"tenants", q>>})
        BY <1>23, <2>4, StepAt DEF InsertTenant
      <3> QED
        BY <1>0, <2>2, <2>3, <3>1
    <2>5. CASE pc[q] = "insertAdmin"
      <3> DEFINE rs == {<<t, q>> : t \in {"users", "userRoles", "firms", "branches"}}
      <3>1. Wrote(q, rs)
        BY <1>23, <2>5, StepAt DEF InsertAdmin
      <3>2. rs \in SUBSET Lockable
        BY <1>0, <2>3 DEF Link
      <3> HIDE DEF rs
      <3> QED
        BY <2>2, <3>1, <3>2
    <2>6. CASE pc[q] = "insertMember"
      <3>1. Wrote(q, {<<"users", q>>, <<"userRoles", q>>})
        BY <1>23, <2>6, StepAt DEF InsertMember
      <3>2. {<<"users", q>>, <<"userRoles", q>>} \in SUBSET Lockable
        BY <1>0, <2>3 DEF Link
      <3> QED
        BY <2>2, <3>1, <3>2
    <2>7. CASE pc[q] = "markAccepted"
      <3>1. Wrote(q, {<<"invitations", call[q].id>>}) /\ call[q].id \in Id
        BY <1>23, <2>7, StepAt, CallAt, CallFields DEF MarkAccepted, AccountsInv, Op
      <3> QED
        BY <2>2, <2>3, <3>1
    <2>8. CASE pc[q] = "setPassword"
      <3>1. Wrote(q, {<<"users", read[q]>>}) /\ read[q] \in Id
        BY <1>23, <2>8, StepAt DEF SetPassword, AccountsInv, StillFound, Users
      <3> QED
        BY <2>2, <2>3, <3>1
    <2>9. CASE pc[q] = "spend"
      <3>1. Wrote(q, {<<"resets", call[q].id>>}) /\ call[q].id \in Id
        BY <1>23, <2>9, StepAt, CallAt, CallFields DEF Spend, AccountsInv, Op
      <3> QED
        BY <2>2, <2>3, <3>1
    <2> QED
      BY <1>23, <2>4, <2>5, <2>6, <2>7, <2>8, <2>9
  <1>24. Step(q) => pc[q] \in (AccessPc \cup AccountPc) \ {"idle", "ok", "failed"}
    BY StepAt DEF AccountsInv, TypeOK
  <1> QED
    BY <1>5, <1>6, <1>7, <1>13, <1>14, <1>15, <1>16, <1>17, <1>18, <1>19, <1>20, <1>21,
       <1>22, <1>23, <1>24 DEF Move, AccessPc, AccountPc

(* A token names a firm and a branch of it that the user had just then.    *)
LEMMA SessionMove ==
  ASSUME AccountsInv, NEW q \in Request, Move(q), session' # session
  PROVE  /\ Step(q) /\ read[q] \in Users
         /\ session'[q].user = read[q]
         /\ session'[q].firm # NULL => session'[q].firm \in FirmsOf(read[q])
         /\ session'[q].branch # NULL =>
              session'[q].firm # NULL /\ session'[q].branch \in BranchesOf(session'[q].firm)
         /\ session'[q] \in [user: Id, firm: OrNone(Id), branch: OrNone(Id)]
PROOF
  <1>1. Step(q) /\ pc[q] \in {"findContext", "checkFirm", "checkBranch"}
    BY Writers
  <1>2. read[q] \in Users
    BY <1>1 DEF AccountsInv, StillFound
  <1>3. \A f, b : Token(q, f, b) =>
          session'[q] = [user |-> read[q], firm |-> f, branch |-> b]
    BY DEF Token, AccountsInv, TypeOK
  <1>4. BranchesOf(NULL) = {} /\ NULL \notin Id
    BY AccessControlAssumption
       DEF BranchesOf, AccountsInv, TypeOK, OrNone, BranchRow, AccessControlAssumption
  <1>5. \E f \in FirmsOf(read[q]) \cup {NULL}, b \in Id \cup {NULL} :
          /\ Token(q, f, b)
          /\ b # NULL => f # NULL /\ b \in BranchesOf(f)
    <2>1. CASE pc[q] = "findContext"
      <3>1. \E f \in OrNull(FirmsOf(read[q])) : \E b \in OrNull(BranchesOf(f)) : Token(q, f, b)
        BY <1>1, <2>1, StepAt DEF FindContext
      <3>2. \A f : BranchesOf(f) \subseteq Id
        BY DEF BranchesOf
      <3>3. \A S : OrNull(S) \subseteq S \cup {NULL}
        BY DEF OrNull
      <3> QED
        BY <1>4, <3>1, <3>2, <3>3
    <2>2. CASE pc[q] = "checkFirm"
      <3>1. call[q].firm \in FirmsOf(read[q]) /\ Token(q, call[q].firm, NULL)
        BY <1>1, <2>2, StepAt DEF CheckFirm, Refuse, ReadOnly
      <3> QED
        BY <3>1
    <2>3. CASE pc[q] = "checkBranch"
      <3>1. /\ call[q].branch \in BranchesOf(call[q].firm)
            /\ Token(q, call[q].firm, call[q].branch)
        BY <1>1, <2>3, StepAt DEF CheckBranch, Refuse
      <3>2. call[q].firm \in FirmsOf(read[q])
        BY <2>3 DEF AccountsInv, StillFound
      <3> QED
        BY <1>4, <3>1, <3>2 DEF BranchesOf, FirmsOf
    <2> QED
      BY <1>1, <2>1, <2>2, <2>3
  <1>6. PICK f \in FirmsOf(read[q]) \cup {NULL}, b \in Id \cup {NULL} :
          /\ Token(q, f, b)
          /\ b # NULL => f # NULL /\ b \in BranchesOf(f)
    BY <1>5
  <1>7. session'[q] = [user |-> read[q], firm |-> f, branch |-> b]
    BY <1>3, <1>6
  <1>8. read[q] \in Id /\ f \in OrNone(Id) /\ b \in OrNone(Id)
    BY <1>2, <1>6 DEF Users, FirmsOf, OrNone
  <1>9. /\ session'[q].user = read[q] /\ session'[q].firm = f /\ session'[q].branch = b
        /\ session'[q] \in [user: Id, firm: OrNone(Id), branch: OrNone(Id)]
    BY <1>7, <1>8
  <1> QED
    BY <1>1, <1>2, <1>6, <1>9

(* What belongs to the other requests stays as it is.                      *)
LEMMA Others ==
  ASSUME TypeOK, NEW q \in Request, Move(q), NEW p \in Request \ {q}
  PROVE  /\ pc'[p] = pc[p] /\ call'[p] = call[p] /\ read'[p] = read[p]
         /\ items'[p] = items[p] /\ wiped'[p] = wiped[p] /\ locked'[p] = locked[p]
         /\ seen'[p] = seen[p] /\ session'[p] = session[p]
PROOF
  <1>1. ASSUME NEW V, NEW f \in [Request -> V], NEW g, OnlyAt(f, g, q) PROVE g[p] = f[p]
    BY <1>1 DEF OnlyAt
  <1>2. OnlyOf(q)
    BY OnlyMoves
  <1> QED
    BY <1>1, <1>2 DEF OnlyOf, TypeOK

(* What was there before stays.                                            *)
LEMMA StillThere ==
  ASSUME AccountsInv, NEW q \in Request, Move(q)
  PROVE  /\ Users \subseteq Users'
         /\ \A u \in Users : FirmsOf(u) \subseteq FirmsOf(u)'
         /\ \A f \in Id : BranchesOf(f) \subseteq BranchesOf(f)'
PROOF
  <1>1. Users \subseteq Users'
    BY UsersMove DEF Users
  <1>2. \A u \in Users : users'[u].tenant = users[u].tenant
    BY UsersMove
  <1> QED
    BY <1>1, <1>2, PlacesMove DEF FirmsOf, BranchesOf
-----------------------------------------------------------------------------
(* The invariant is inductive.                                             *)
LEMMA WipedStay ==
  ASSUME AccountsInv, NEW q \in Request, Move(q), NEW p \in Request
  PROVE  /\ wiped'[p] \subseteq links'
         /\ p # q => wiped'[p] \cap wiped'[q] = {}
         /\ wiped'[p] \subseteq
              {l \in LinkRow : l.in = LinkOf[Op(p)'] /\ l.from = Target(p)'}
         /\ wiped'[p] # {} => <<LinkOf[Op(p)'], Target(p)'>> \in locked'[p]
PROOF
  <1>0. /\ TypeOK /\ links \subseteq LinkRow
        /\ \A r \in Request : /\ wiped[r] \subseteq links /\ Holds(r)
                              /\ \A s \in Request : r # s => wiped[r] \cap wiped[s] = {}
    BY DEF AccountsInv, TypeOK
  <1>1. ASSUME NEW t, Scan(t, q), NEW r \in Request \ {q}, NEW l \in wiped[r]
        PROVE  l.in # t
    <2>1. <<LinkOf[Op(r)], Target(r)>> \in locked[r] /\ l.in = LinkOf[Op(r)]
      BY <1>0, <1>1 DEF Holds
    <2> QED
      BY <1>1, <2>1 DEF Scan
  <1>2. wiped'[q] = {} \/ /\ Step(q) /\ call' = call /\ links' = links
                          /\ \/ pc[q] = "wipe" /\ wiped'[q] = Mine(q)
                                /\ (Mine(q) # {} =>
                                      <<LinkOf[Op(q)], Target(q)>> \in locked'[q])
                             \/ pc[q] = "grant" /\ wiped'[q] = wiped[q]
                                /\ locked[q] \subseteq locked'[q]
    <2>1. CASE pc'[q] \notin {"grant", "commitLinks"}
      BY <2>1, PendingMove
    <2>2. CASE pc'[q] \in {"grant", "commitLinks"}
      <3>1. Step(q) /\ pc[q] \in {"wipe", "grant"}
        BY <2>2, PendingMove
      <3>2. ~Arrive(q)
        BY <3>1 DEF Arrive
      <3> QED
        BY <1>0, <2>2, <3>1, <3>2, PendingMove, PathMoves, Writers
    <2> QED
      BY <2>1, <2>2
  <1>3. CASE p = q
    <2>1. CASE wiped'[q] = {}
      BY <1>3, <2>1
    <2>2. CASE wiped'[q] # {}
      <3>1. Op(q)' = Op(q) /\ Target(q)' = Target(q)
        BY <1>2, <2>2 DEF Op, Target
      <3>2. /\ wiped'[q] \subseteq links
            /\ wiped'[q] \subseteq {l \in LinkRow : l.in = LinkOf[Op(q)] /\ l.from = Target(q)}
            /\ <<LinkOf[Op(q)], Target(q)>> \in locked'[q]
        BY <1>0, <1>2, <2>2 DEF Mine, Holds
      <3> QED
        BY <1>2, <1>3, <2>2, <3>1, <3>2
    <2> QED
      BY <2>1, <2>2
  <1>4. CASE p # q
    <2>1. /\ wiped'[p] = wiped[p] /\ locked'[p] = locked[p] /\ Op(p)' = Op(p)
          /\ Target(p)' = Target(p)
      BY <1>0, <1>4, Others DEF Op, Target
    <2>2. wiped[p] \subseteq links'
      <3>1. ASSUME NEW l \in wiped[p], l \notin links' PROVE FALSE
        <4>1. l \in links \ links'
          BY <1>0, <3>1
        <4>2. Step(q) /\ \/ pc[q] = "strip" /\ l.in = "rolePermissions"
                         \/ pc[q] = "commitLinks" /\ l \in wiped[q]
          BY <4>1, LinksMove
        <4>3. pc[q] = "strip" => Scan("rolePermissions", q)
          BY <4>2, StepAt DEF Strip, AccessPc
        <4> QED
          BY <1>0, <1>1, <1>4, <3>1, <4>2, <4>3
      <3> QED
        BY <3>1
    <2>3. wiped[p] \cap wiped'[q] = {}
      <3>1. CASE wiped'[q] = Mine(q) /\ Step(q) /\ pc[q] = "wipe"
        <4>1. Scan(LinkOf[Op(q)], q)
          BY <3>1, StepAt DEF Wipe, AccessPc
        <4> QED
          BY <1>1, <1>4, <3>1, <4>1 DEF Mine
      <3> QED
        BY <1>0, <1>2, <1>4, <3>1
    <2> QED
      BY <1>0, <1>4, <2>1, <2>2, <2>3 DEF Holds
  <1> QED
    BY <1>3, <1>4

LEMMA TypeStep ==
  ASSUME AccountsInv, NEW q \in Request, Move(q)
  PROVE  TypeOK'
PROOF
  <1>0. TypeOK
    BY DEF AccountsInv
  <1>1. ASSUME NEW V, NEW f \in [Request -> V], NEW g, OnlyAt(f, g, q), g[q] \in V
        PROVE  g \in [Request -> V]
    BY <1>1 DEF OnlyAt
  <1>2. OnlyOf(q)
    BY <1>0, OnlyMoves
  <1>3. /\ call'[q] \in UNION Mix /\ seen'[q] \in SUBSET Request
    <2>1. CASE Arrive(q)
      BY <1>0, <2>1, ArriveAt
    <2>2. CASE ~Arrive(q)
      BY <1>0, <2>2, PathMoves, CallAt DEF TypeOK
    <2> QED
      BY <2>1, <2>2
  <1>4. /\ pc'[q] \in AccessPc \cup AccountPc /\ pc'[q] # "idle"
        /\ pc'[q] \in Path[call'[q].op] \cup {"ok", "failed"}
    <2>1. call'[q].op \in DOMAIN Path
      BY <1>3, CallFields
    <2>2. Path[call'[q].op] \subseteq AccessPc \cup AccountPc
      BY <2>1, PathIsTyped
    <2>3. pc'[q] \in Path[call'[q].op] \cup {"ok", "failed"} /\ pc'[q] # "idle"
      BY <1>0, PathMoves
    <2> QED
      BY <2>2, <2>3 DEF AccessPc
  <1>5. /\ read'[q] \in OrNone(Id) /\ items'[q] \in SUBSET Id
        /\ locked'[q] \in SUBSET Lockable
        /\ pc'[q] \in {"ok", "failed"} => locked'[q] = {}
    BY PendingMove DEF InTransaction
  <1>6. session' \in [Request -> OrNone([user: Id, firm: OrNone(Id), branch: OrNone(Id)])]
    <2>1. CASE session' = session
      BY <1>0, <2>1 DEF TypeOK
    <2>2. CASE session' # session
      <3>1. session'[q] \in OrNone([user: Id, firm: OrNone(Id), branch: OrNone(Id)])
        BY <2>2, SessionMove DEF OrNone
      <3>2. OnlyAt(session, session', q)
        BY <1>2 DEF OnlyOf
      <3> QED
        BY <1>0, <1>1, <3>1, <3>2 DEF TypeOK
    <2> QED
      BY <2>1, <2>2
  <1>7. /\ pc' \in [Request -> AccessPc \cup AccountPc]
        /\ call' \in [Request -> OrNone(UNION Mix)] /\ seen' \in [Request -> SUBSET Request]
        /\ read' \in [Request -> OrNone(Id)] /\ items' \in [Request -> SUBSET Id]
        /\ locked' \in [Request -> SUBSET Lockable]
    BY <1>0, <1>1, <1>2, <1>3, <1>4, <1>5 DEF OnlyOf, TypeOK, OrNone
  <1>8. wiped' \in [Request -> SUBSET links']
    <2>1. wiped' = [wiped EXCEPT ![q] = wiped'[q]]
      BY <1>2 DEF OnlyOf, OnlyAt
    <2>2. DOMAIN wiped' = Request /\ wiped' = [p \in Request |-> wiped'[p]]
      BY <1>0, <2>1 DEF TypeOK
    <2>3. \A p \in Request : wiped'[p] \in SUBSET links'
      BY WipedStay
    <2> QED
      BY <2>2, <2>3
  <1>9. \A p \in Request :
          IF pc'[p] = "idle" THEN call'[p] = NULL
          ELSE call'[p] \in UNION Mix /\ pc'[p] \in Path[Op(p)'] \cup {"ok", "failed"}
    <2> SUFFICES ASSUME NEW p \in Request
                 PROVE  IF pc'[p] = "idle" THEN call'[p] = NULL
                        ELSE /\ call'[p] \in UNION Mix
                             /\ pc'[p] \in Path[Op(p)'] \cup {"ok", "failed"}
      OBVIOUS
    <2>1. CASE p = q
      BY <1>3, <1>4, <2>1 DEF Op
    <2>2. CASE p # q
      <3>1. pc'[p] = pc[p] /\ call'[p] = call[p]
        BY <1>0, <2>2, Others
      <3>2. IF pc[p] = "idle" THEN call[p] = NULL
            ELSE call[p] \in UNION Mix /\ pc[p] \in Path[Op(p)] \cup {"ok", "failed"}
        BY <1>0 DEF TypeOK
      <3> QED
        BY <3>1, <3>2 DEF Op
    <2> QED
      BY <2>1, <2>2
  <1>10. \A p \in Request : pc'[p] \in {"idle", "ok", "failed"} => locked'[p] = {}
    <2>1. \A p \in Request : pc[p] \in {"idle", "ok", "failed"} => locked[p] = {}
      BY <1>0 DEF TypeOK
    <2>2. \A p \in Request \ {q} : pc'[p] = pc[p] /\ locked'[p] = locked[p]
      BY <1>0, Others
    <2> QED
      BY <1>4, <1>5, <2>1, <2>2
  <1>11. /\ rows' \in [Table -> [Id -> OrNone(KeyRow)]] /\ links' \subseteq LinkRow
         /\ tenants' \in [Id -> OrNone(TenantRow)]
         /\ users' \in [Id -> OrNone(UserRow)] /\ firms' \in [Id -> OrNone(FirmRow)]
         /\ branches' \in [Id -> OrNone(BranchRow)]
         /\ invitations' \in [Id -> OrNone(InvitationRow)]
         /\ resets' \in [Id -> OrNone(ResetRow)]
    BY RowsMove, LinksMove, TenantsMove, UsersMove, PlacesMove, InvitationsMove, ResetsMove
  <1> QED
    BY <1>6, <1>7, <1>8, <1>9, <1>10, <1>11 DEF TypeOK, Op

LEMMA FreshStep ==
  ASSUME AccountsInv, NEW q \in Request, Move(q), NEW p \in Request
  PROVE  Fresh(p)'
PROOF
  <1>0. /\ TypeOK /\ p \in Id /\ Fresh(p)
    BY DEF AccountsInv, Id
  <1>1. ASSUME ~Over(p)'
        PROVE  /\ ~Over(p)
               /\ p = q => ~(Step(q) /\ pc[q] \in {"create", "commitTenant", "commitMember",
                    "commitReset", "invite", "issue", "commitLinks"})
    <2>1. p = q /\ Step(q) /\ pc[q] \in {"create", "commitTenant", "commitMember",
            "commitReset", "invite", "issue", "commitLinks"} => FALSE
      BY <1>0, <1>1, Onward DEF Over
    <2>2. ~Over(p)
      BY <1>0, <1>1, PathMoves, Others DEF Over
    <2> QED
      BY <2>1, <2>2
  <1>2. ASSUME ~Over(p)'
        PROVE  /\ users'[p] = NULL /\ tenants'[p] = NULL /\ firms'[p] = NULL
               /\ branches'[p] = NULL /\ invitations'[p] = NULL /\ resets'[p] = NULL
    BY <1>0, <1>1, <1>2, UsersMove, TenantsMove, PlacesMove, InvitationsMove, ResetsMove
       DEF Fresh, Users
  <1>3. ASSUME ~Over(p)' PROVE \A u \in Users' : users'[u].password # p
    <2>1. ASSUME NEW u \in Users, users'[u].password = p PROVE FALSE
      BY <1>0, <1>1, <1>3, <2>1, UsersMove DEF Fresh
    <2>2. ASSUME NEW u \in Id \ Users, users'[u] # NULL, users'[u].password = p PROVE FALSE
      BY <1>0, <1>1, <1>3, <2>2, UsersMove
    <2> QED
      BY <2>1, <2>2 DEF Users
  <1>4. ASSUME ~Over(p)' PROVE \A l \in links' : l.by # p
    BY <1>0, <1>1, <1>4, LinksMove DEF Fresh
  <1>5. ASSUME ~Inserted(p)', NEW t \in Table PROVE rows'[t][p] = NULL
    <2>1. ~Inserted(p) /\ (p = q => ~(Step(q) /\ pc[q] = "insert"))
      <3>1. CASE p # q
        BY <1>0, <1>5, <3>1, Others DEF Inserted, Over, Op
      <3>2. CASE p = q /\ Arrive(q)
        BY <1>0, <3>2 DEF Arrive, Inserted, Over
      <3>3. CASE p = q /\ ~Arrive(q)
        <4>1. pc'[q] # "failed" /\ pc'[q] # "ok" /\ Op(q)' = Op(q)
          BY <1>0, <1>5, <3>3, PathMoves DEF Inserted, Over, Op
        <4>2. Step(q) \/ pc'[q] = pc[q]
          <5>1. Fail(q) => pc'[q] = "failed"
            BY <1>0 DEF Fail, Abort, Goto, TypeOK
          <5> QED
            BY <3>3, <4>1, <5>1 DEF Move, Expire, accessVars
        <4>3. CASE Step(q)
          <5>1. ~Over(q)
            BY <4>3, StepAt DEF Over
          <5>2. pc[q] = "insert" => FALSE
            BY <1>0, <1>5, <3>3, <4>1, <4>3, Onward DEF Inserted, Over
          <5>3. Inserted(q) => FALSE
            BY <1>0, <1>5, <3>3, <4>1, <4>3, <5>1, Onward DEF Inserted, Over
          <5> QED
            BY <3>3, <5>2, <5>3
        <4>4. CASE pc'[q] = pc[q] /\ ~Step(q)
          BY <1>5, <3>3, <4>1, <4>4 DEF Inserted, Over
        <4> QED
          BY <4>2, <4>3, <4>4
      <3> QED
        BY <3>1, <3>2, <3>3
    <2>2. rows[t][p] = NULL
      BY <1>0, <2>1 DEF Fresh
    <2>3. CASE rows'[t][p] # rows[t][p]
      <3>1. Step(q)
        BY <1>0, <2>3, RowsMove
      <3>2. \/ pc[q] = "insert" /\ p = q
            \/ rows[t][p] # NULL
            \/ rows'[t][p] = NULL
        BY <1>0, <2>3, RowsMove
      <3> QED
        BY <2>1, <2>2, <3>1, <3>2
    <2> QED
      BY <2>2, <2>3
  <1> QED
    BY <1>2, <1>3, <1>4, <1>5 DEF Fresh

LEMMA StillFoundStep ==
  ASSUME AccountsInv, NEW q \in Request, Move(q), NEW p \in Request
  PROVE  StillFound(p)'
PROOF
  <1>0. /\ TypeOK /\ StillFound(p)
        /\ \A t \in Id : resets[t] # NULL => resets[t].user \in Users
    BY DEF AccountsInv
  <1>1. /\ Users \subseteq Users'
        /\ \A u \in Users : FirmsOf(u) \subseteq FirmsOf(u)'
        /\ \A t \in Id : resets[t] # NULL => /\ resets'[t] # NULL
                                             /\ resets'[t].user = resets[t].user
        /\ \A i \in Id : invitations[i] # NULL => invitations'[i] # NULL
        /\ \A t \in Id : tenants[t] # NULL => tenants'[t] # NULL
    BY StillThere, ResetsMove, InvitationsMove, TenantsMove
  <1>2. CASE p # q
    <2>1. /\ pc'[p] = pc[p] /\ call'[p] = call[p] /\ read'[p] = read[p]
          /\ items'[p] = items[p]
      BY <1>0, <1>2, Others
    <2>2. pc[p] \in {"checkName", "insertMember", "markAccepted", "commitMember", "decline",
                     "findPlan", "writeTenant", "setPassword", "spend", "commitReset"} =>
            call[p].id \in Id
      BY <1>0, CallAt, CallFields DEF Op, TenantOps
    <2>3. pc[p] = "checkBranch" => call[p].firm \in FirmsOf(read[p])'
      <3>1. pc[p] = "checkBranch" =>
              \E u \in Users : u = read[p] /\ call[p].firm \in FirmsOf(u)
        BY <1>0 DEF StillFound
      <3>2. \A u \in Users : FirmsOf(u) \subseteq FirmsOf(u)'
        BY <1>1
      <3> QED
        BY <2>1, <3>1, <3>2 DEF FirmsOf
    <2> QED
      BY <1>0, <1>1, <2>1, <2>2, <2>3 DEF StillFound, Scope
  <1>3. CASE p = q
    <2> DEFINE Late == {"findContext", "countLogin", "checkFirm", "checkBranch", "invalidate",
                        "issue", "setPassword", "spend", "commitReset", "checkName",
                        "insertMember", "markAccepted", "commitMember", "decline",
                        "findPlan", "writeTenant", "insertAdmin", "commitTenant", "invite",
                        "plan"}
    <2>1. CASE pc'[q] \notin Late
      BY <1>3, <2>1 DEF StillFound
    <2>2. CASE pc'[q] \in Late
      <3>1. Step(q) /\ call' = call
        <4>1. ~Fail(q)
          BY <1>0, <2>2 DEF Fail, Abort, Goto, TypeOK
        <4>2. ~Expire(q)
          BY <2>2 DEF Expire, accessVars
        <4>3. ~Arrive(q)
          BY <1>0, <2>2, ArriveAt DEF Starts
        <4> QED
          BY <1>0, <4>1, <4>2, <4>3, PathMoves DEF Move
      <3> SUFFICES StillFound(q)'
        BY <1>3
      <3>2. /\ pc[q] \in (AccessPc \cup AccountPc) \ {"idle", "ok", "failed"}
            /\ ~Refuse(q) /\ ~Abort(q)
        <4>1. pc'[q] # "failed"
          BY <2>2
        <4> QED
          BY <1>0, <3>1, <4>1, StepAt DEF TypeOK, Refuse, Abort, Goto
      <3>3. \A r : Found(q, r) => read'[q] = r
        BY <1>0 DEF Found, TypeOK
      <3> HIDE DEF Late
      <3>4. CASE pc'[q] \in {"findContext", "countLogin"}
        <4>1. \/ pc[q] = "findLogin" /\ pc'[q] = "findContext"
              \/ pc[q] = "findContext" /\ pc'[q] = "countLogin"
          BY <1>0, <3>1, <3>2, <3>4, Onward DEF AccessPc, AccountPc
        <4>2. read'[q] \in Users
          BY <1>0, <1>3, <3>1, <3>2, <3>3, <4>1, StepAt
             DEF FindLogin, FindContext, pending, StillFound
        <4> QED
          BY <1>1, <3>4, <4>2 DEF StillFound
      <3>5. CASE pc'[q] \in {"checkFirm", "checkBranch"}
        <4>1. \/ pc[q] = "findUser" /\ pc'[q] = "checkFirm"
              \/ pc[q] = "checkFirm" /\ pc'[q] = "checkBranch"
          BY <1>0, <3>1, <3>2, <3>5, Onward DEF AccessPc, AccountPc
        <4>2. CASE pc[q] = "findUser"
          <5>1. call[q].user \in Id
            BY <1>0, <4>2, CallAt, CallFields DEF Op
          <5>2. read'[q] \in Users
            BY <3>1, <3>2, <3>3, <4>2, <5>1, StepAt DEF FindUser, Users
          <5> QED
            BY <1>1, <4>1, <4>2, <5>2 DEF StillFound
        <4>3. CASE pc[q] = "checkFirm"
          <5>1. read[q] \in Users /\ pc'[q] = "checkBranch"
            BY <1>0, <1>3, <4>1, <4>3 DEF StillFound
          <5>2. read' = read /\ call[q].firm \in FirmsOf(read[q])
            BY <1>0, <3>1, <3>2, <4>3, <5>1, StepAt DEF CheckFirm, Goto, TypeOK
          <5>3. call'[q].firm \in FirmsOf(read[q])'
            BY <1>1, <3>1, <5>1, <5>2
          <5> QED
            BY <1>1, <5>1, <5>2, <5>3 DEF StillFound
        <4> QED
          BY <4>1, <4>2, <4>3
      <3>6. CASE pc'[q] \in {"invalidate", "issue"}
        <4>1. \/ pc[q] = "findEmail" /\ pc'[q] = "invalidate"
              \/ pc[q] = "invalidate" /\ pc'[q] = "issue"
          BY <1>0, <3>1, <3>2, <3>6, Onward DEF AccessPc, AccountPc
        <4>2. read'[q] \in Users
          <5>1. CASE pc[q] = "findEmail"
            <6>1. \E u \in Users : Found(q, u)
              BY <1>0, <3>1, <4>1, <5>1, StepAt DEF FindEmail, Goto, TypeOK
            <6> QED
              BY <3>3, <6>1
          <5>2. CASE pc[q] = "invalidate"
            BY <1>0, <1>3, <3>1, <5>2, StepAt DEF Invalidate, pending, StillFound
          <5> QED
            BY <4>1, <5>1, <5>2
        <4> QED
          BY <1>1, <3>6, <4>2 DEF StillFound
      <3>7. CASE pc'[q] \in {"setPassword", "spend", "commitReset"}
        <4>1. /\ pc[q] \in {"findToken", "setPassword", "spend"}
              /\ call[q].id \in Id
          BY <1>0, <3>1, <3>2, <3>7, Onward, CallAt, CallFields DEF AccessPc, AccountPc, Op
        <4>2. CASE pc[q] = "findToken"
          <5>1. resets[call[q].id] # NULL /\ Found(q, resets[call[q].id].user)
            BY <3>1, <3>2, <4>2, StepAt DEF FindToken
          <5>2. read'[q] = resets[call[q].id].user
            BY <3>3, <5>1
          <5> QED
            BY <1>0, <1>1, <3>1, <3>7, <4>1, <5>1, <5>2 DEF StillFound
        <4>3. CASE pc[q] \in {"setPassword", "spend"}
          <5>1. read' = read
            BY <3>1, <4>3, StepAt DEF SetPassword, Spend, Wrote
          <5> QED
            BY <1>0, <1>1, <1>3, <3>1, <3>7, <4>1, <4>3, <5>1 DEF StillFound
        <4> QED
          BY <4>1, <4>2, <4>3
      <3>8. CASE pc'[q] \in {"checkName", "insertMember", "markAccepted", "commitMember",
                             "decline"}
        <4>1. /\ pc[q] \in {"findInvitation", "checkName", "insertMember", "markAccepted"}
              /\ call[q].id \in Id
          BY <1>0, <3>1, <3>2, <3>8, Onward, CallAt, CallFields DEF AccessPc, AccountPc, Op
        <4>2. invitations[call[q].id] # NULL
          BY <1>0, <1>3, <3>1, <3>2, <4>1, StepAt DEF FindInvitation, Open, StillFound
        <4> QED
          BY <1>1, <3>1, <3>8, <4>1, <4>2 DEF StillFound
      <3>9. CASE pc'[q] \in {"findPlan", "writeTenant"}
        <4>1. pc[q] \in {"findTenant", "findPlan"} /\ call[q].id \in Id
          BY <1>0, <3>1, <3>2, <3>9, Onward, CallAt, CallFields
             DEF AccessPc, AccountPc, Op, TenantOps
        <4>2. tenants[call[q].id] # NULL
          BY <1>0, <1>3, <3>1, <3>2, <4>1, StepAt DEF FindTenant, StillFound
        <4> QED
          BY <1>1, <3>1, <3>9, <4>1, <4>2 DEF StillFound
      <3>10. CASE pc'[q] \in {"insertAdmin", "commitTenant"}
        <4>1. pc[q] \in {"adminRole", "insertAdmin"}
          BY <1>0, <3>1, <3>2, <3>10, Onward DEF AccessPc, AccountPc
        <4>2. items'[q] # {}
          <5>1. CASE pc[q] = "adminRole"
            <6>1. \E r \in Id : items' = [items EXCEPT ![q] = {r}]
              BY <3>1, <3>2, <5>1, StepAt DEF AdminRoleId
            <6> QED
              BY <1>0, <6>1 DEF TypeOK
          <5>2. CASE pc[q] = "insertAdmin"
            BY <1>0, <1>3, <3>1, <5>2, StepAt DEF InsertAdmin, Wrote, StillFound
          <5> QED
            BY <4>1, <5>1, <5>2
        <4> QED
          BY <3>10, <4>2 DEF StillFound
      <3>11. CASE pc'[q] = "invite"
        <4>1. pc[q] = "checkEmail"
          BY <1>0, <3>1, <3>2, <3>11, Onward DEF AccessPc, AccountPc
        <4>2. call[q].as.tenant # NULL
          BY <3>1, <3>2, <4>1, StepAt DEF CheckEmail
        <4> QED
          BY <3>1, <3>11, <4>2 DEF StillFound
      <3>12. CASE pc'[q] = "plan"
        <4>1. pc[q] = "role" /\ Op(q) # "cloneRole"
          BY <1>0, <3>1, <3>2, <3>12, Onward DEF AccessPc, AccountPc
        <4>2. Scope(q) # NULL
          BY <1>0, <3>1, <3>2, <3>12, <4>1, StepAt DEF Role, AccessPc, Goto, TypeOK
        <4> QED
          BY <3>1, <3>12, <4>2 DEF StillFound, Scope
      <3> QED
        BY <2>2, <3>4, <3>5, <3>6, <3>7, <3>8, <3>9, <3>10, <3>11, <3>12 DEF Late
    <2> QED
      BY <2>1, <2>2
  <1> QED
    BY <1>2, <1>3

LEMMA AccountsStep ==
  ASSUME AccountsInv, [Next]_vars
  PROVE  AccountsInv'
PROOF
  <1>0. TypeOK
    BY DEF AccountsInv
  <1>1. CASE UNCHANGED vars
    <2>1. UNCHANGED <<rows, links, tenants, users, firms, branches, invitations, resets,
                      session, pc, call, seen, read, items, wiped, locked>>
      BY <1>1 DEF vars, accessVars, data, asked, pending, accounts
    <2>2. TypeOK'
      BY <1>0, <2>1 DEF TypeOK, Op
    <2>3. \A q \in Request : Fresh(q)' /\ Holds(q)'
      BY <2>1 DEF AccountsInv, Fresh, Holds, Inserted, Over, Op, Users, Target
    <2>4. \A q \in Request : StillFound(q)'
      BY <2>1 DEF AccountsInv, StillFound, Users, FirmsOf, Scope
    <2>5. /\ \A p, q \in Request : p # q => wiped'[p] \cap wiped'[q] = {}
          /\ \A t \in Id : resets'[t] # NULL => resets'[t].user \in Users'
          /\ \A p, q \in Request : p \in seen'[q] => Over(p)'
      BY <2>1 DEF AccountsInv, Users, Over
    <2> QED
      BY <2>2, <2>3, <2>4, <2>5 DEF AccountsInv
  <1>2. ASSUME NEW q \in Request, Move(q) PROVE AccountsInv'
    <2>1. TypeOK'
      BY <1>2, TypeStep
    <2>2. \A p \in Request : Fresh(p)' /\ StillFound(p)'
      BY <1>2, FreshStep, StillFoundStep
    <2>3. \A p \in Request : Holds(p)'
      <3> SUFFICES ASSUME NEW p \in Request PROVE Holds(p)'
        OBVIOUS
      <3>1. /\ wiped'[p] # {} => <<LinkOf[Op(p)'], Target(p)'>> \in locked'[p]
            /\ wiped'[p] \subseteq
                 {l \in LinkRow : l.in = LinkOf[Op(p)'] /\ l.from = Target(p)'}
        BY <1>2, WipedStay
      <3>2. /\ pc'[p] \notin InTransaction => locked'[p] = {}
            /\ pc'[p] \notin {"grant", "commitLinks"} => wiped'[p] = {}
        <4>1. CASE p = q
          BY <1>2, <4>1, PendingMove
        <4>2. CASE p # q
          <5>1. pc'[p] = pc[p] /\ locked'[p] = locked[p] /\ wiped'[p] = wiped[p]
            BY <1>0, <1>2, <4>2, Others
          <5>2. Holds(p)
            BY DEF AccountsInv
          <5> QED
            BY <5>1, <5>2 DEF Holds
        <4> QED
          BY <4>1, <4>2
      <3> QED
        BY <3>1, <3>2 DEF Holds
    <2>4. \A p, r \in Request : p # r => wiped'[p] \cap wiped'[r] = {}
      <3> SUFFICES ASSUME NEW p \in Request, NEW r \in Request, p # r
                   PROVE  wiped'[p] \cap wiped'[r] = {}
        OBVIOUS
      <3>1. CASE p # q /\ r # q
        <4>1. wiped'[p] = wiped[p] /\ wiped'[r] = wiped[r]
          BY <1>0, <1>2, <3>1, Others
        <4> QED
          BY <4>1 DEF AccountsInv
      <3>2. CASE p = q \/ r = q
        BY <1>2, <3>2, WipedStay
      <3> QED
        BY <3>1, <3>2
    <2>5. \A t \in Id : resets'[t] # NULL => resets'[t].user \in Users'
      <3> SUFFICES ASSUME NEW t \in Id, resets'[t] # NULL PROVE resets'[t].user \in Users'
        OBVIOUS
      <3>1. Users \subseteq Users'
        BY <1>2, StillThere
      <3>2. CASE resets[t] # NULL
        BY <1>2, <3>1, <3>2, ResetsMove DEF AccountsInv
      <3>3. CASE resets[t] = NULL
        <4>1. t = q /\ pc[q] = "issue" /\ resets'[q].user = read[q]
          BY <1>2, <3>3, ResetsMove
        <4>2. read[q] \in Users
          BY <4>1 DEF AccountsInv, StillFound
        <4> QED
          BY <3>1, <4>1, <4>2
      <3> QED
        BY <3>2, <3>3
    <2>6. \A p, r \in Request : p \in seen'[r] => Over(p)'
      <3> SUFFICES ASSUME NEW p \in Request, NEW r \in Request, p \in seen'[r] PROVE Over(p)'
        OBVIOUS
      <3>1. Over(p)
        BY <1>0, <1>2, ArriveAt, PathMoves, Others DEF AccountsInv
      <3> QED
        BY <1>0, <1>2, <3>1, PathMoves, Others DEF Over
    <2> QED
      BY <2>1, <2>2, <2>3, <2>4, <2>5, <2>6 DEF AccountsInv
  <1> QED
    BY <1>1, <1>2 DEF Next, Move

LEMMA AccountsStart == Init => AccountsInv
PROOF
  <1> SUFFICES ASSUME Init PROVE AccountsInv
    OBVIOUS
  <1> USE DEF Init
  <1>1. TypeOK
    BY DatabaseAssumption DEF TypeOK, DatabaseAssumption, AccessPc, OrNone
  <1>2. ASSUME NEW q \in Request PROVE Fresh(q) /\ StillFound(q) /\ Holds(q)
    <2>1. Fresh(q)
      <3>1. ASSUME NEW u \in Users PROVE users[u].password # q
        BY <3>1, DatabaseAssumption, AccessControlAssumption
           DEF Users, DatabaseAssumption, AccessControlAssumption, Id
      <3>2. \A l \in links : l.by # q
        BY DatabaseAssumption, AccessControlAssumption
           DEF DatabaseAssumption, AccessControlAssumption
      <3> QED
        BY <3>1, <3>2, DatabaseAssumption DEF Fresh, Inserted, DatabaseAssumption
    <2> QED
      BY <2>1 DEF StillFound, Holds, InTransaction
  <1>3. \A t \in Id : resets[t] # NULL => resets[t].user \in Users
    BY DatabaseAssumption DEF DatabaseAssumption, Users, Id, OrNone, ResetRow
  <1> QED
    BY <1>1, <1>2, <1>3 DEF AccountsInv

LEMMA AccountsInvariant == Spec => []AccountsInv
PROOF
  BY AccountsStart, AccountsStep, PTL DEF Spec

(* The tables, the requests and the tokens are of their types, a handler   *)
(* is at a statement of its own and holds no lock once it has answered.    *)
THEOREM AccountsTypeCorrect == Spec => []TypeOK
PROOF
  BY AccountsInvariant, PTL DEF AccountsInv
===============================================================================
