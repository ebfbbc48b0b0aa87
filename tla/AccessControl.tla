---------------------------- MODULE AccessControl ----------------------------
(***************************************************************************)
(* AccessControlService and SubscriptionsService: roles, permissions,      *)
(* menus, subscription plans and their features, and the three link tables *)
(* user_roles, role_permissions and subscription_feature_permissions.      *)
(* Accounts composes these handlers with those of AuthService.             *)
(*                                                                         *)
(* As in FrontDesk a request yields at every await and one action is one   *)
(* SQL statement with the JavaScript that follows it.  Statements outside  *)
(* a transaction commit at once.  What an open transaction has written     *)
(* stays with its request until the commit; until then its rows are locked *)
(* and a statement that reads them waits.  No table here has an index on   *)
(* the columns the statements search, so a search reads every row.         *)
(*                                                                         *)
(* A row is named by the request that inserts it; Seed names the rows that *)
(* are there from the start.  There are no foreign keys.                   *)
(***************************************************************************)
EXTENDS Naturals, FiniteSets

CONSTANTS
  Request,           \* the HTTP requests, and the rows they insert
  Seed,              \* the rows there are before any request
  Key,               \* names of roles and users, e-mails, keys and slugs
  BigintsAreStrings, \* how the driver delivers BIGINT columns; tedious: TRUE
  Faults,            \* whether a statement or an answer may be lost
  NULL

Id == Request \cup Seed

UserType == {"SUPER_ADMIN", "TENANT_ADMIN", "TENANT_ADMINISTRATION", "TENANT_USER"}

(* Who asks, as JwtStrategy.validate has just read it from users; no       *)
(* handler changes the type or the tenant of a user.  The public routes    *)
(* are open to "anonymous".                                                *)
Caller == [type: UserType \cup {"anonymous"}, tenant: Id \cup {NULL}]

Table == {"roles", "permissions", "plans", "features", "menus"}
Link  == {"userRoles", "rolePermissions", "featurePermissions"}

ASSUME AccessControlAssumption ==
  /\ NULL \notin Id
  /\ Request \cap Seed = {}
  /\ BigintsAreStrings \in BOOLEAN
  /\ Faults \in BOOLEAN

VARIABLES
  rows,     \* the rows of each table: [key, tenant, system]
  links,    \* the rows of the link tables: [in, from, to, by], `by` inserted it
  tenants,  \* tenants: [active, plan]
  pc,       \* the statement a request executes next, or its answer
  call,     \* what a request asks for
  read,     \* the row its handler has found
  items,    \* the links its handler is about to insert
  wiped,    \* the links its open transaction has deleted
  locked,   \* the <<table, row>> its open transaction has locked
  seen      \* history variable: the requests that were over when it came

data    == <<rows, links, tenants>>
asked   == <<call, seen>>
pending == <<read, items, wiped, locked>>
accessVars == <<data, pc, asked, pending>>
-----------------------------------------------------------------------------
(* What the bodies ask for.  Every call has the same fields: `id` is the   *)
(* row it is about, `key` the name it gives, `tenant` the tenant or plan   *)
(* it belongs to.                                                          *)
CallOf(op, ids, keys, owners, flags, sets) ==
  [op: op, as: Caller, id: ids, key: keys, tenant: owners, system: flags, items: sets]

CreateRoleDto == CallOf({"createRole"}, {NULL}, Key, Id \cup {NULL}, BOOLEAN, {{}})
UpdateRoleDto == CallOf({"updateRole"}, Id, Key \cup {NULL}, {NULL}, {FALSE}, {{}})
DeleteRoleDto == CallOf({"deleteRole"}, Id, {NULL}, {NULL}, {FALSE}, {{}})
CloneRoleDto  == CallOf({"cloneRole"}, Id, Key, {NULL}, {FALSE}, {{}})
CreatePermissionDto == CallOf({"createPermission"}, {NULL}, Key, {NULL}, {FALSE}, {{}})
UpdatePermissionDto == CallOf({"updatePermission"}, Id, Key \cup {NULL}, {NULL}, {FALSE}, {{}})
DeletePermissionDto == CallOf({"deletePermission"}, Id, {NULL}, {NULL}, {FALSE}, {{}})
AssignRolePermissionsDto ==
  CallOf({"assignRolePermissions"}, Id, {NULL}, {NULL}, {FALSE}, SUBSET Id)
AssignUserRolesDto == CallOf({"assignUserRoles"}, Id, {NULL}, {NULL}, {FALSE}, SUBSET Id)
CreateMenuPermissionDto ==
  CallOf({"createMenuPermission"}, {NULL}, Key, {NULL}, {FALSE}, {{}})
UpdateMenuPermissionDto ==
  CallOf({"updateMenuPermission"}, Id, Key \cup {NULL}, {NULL}, {FALSE}, {{}})
DeleteMenuPermissionDto == CallOf({"deleteMenuPermission"}, Id, {NULL}, {NULL}, {FALSE}, {{}})
CreateSubscriptionPlanDto == CallOf({"createPlan"}, {NULL}, Key, {NULL}, {FALSE}, {{}})
CreateSubscriptionFeatureDto == CallOf({"createFeature"}, {NULL}, Key, Id, {FALSE}, {{}})
AssignFeaturePermissionsDto ==
  CallOf({"assignFeaturePermissions"}, Id, {NULL}, Id, {FALSE}, SUBSET Id)

AccessCall ==
  UNION {CreateRoleDto, UpdateRoleDto, DeleteRoleDto, CloneRoleDto,
         CreatePermissionDto, UpdatePermissionDto, DeletePermissionDto,
         AssignRolePermissionsDto, AssignUserRolesDto, CreateMenuPermissionDto,
         UpdateMenuPermissionDto, DeleteMenuPermissionDto,
         CreateSubscriptionPlanDto, CreateSubscriptionFeatureDto,
         AssignFeaturePermissionsDto}
-----------------------------------------------------------------------------
(* A statement of q that reads all of table t waits for the transactions   *)
(* that have written to it.                                                *)
Scan(t, q) == \A p \in Request \ {q} : \A l \in locked[p] : l[1] # t

(* A statement that goes to a row by its key waits for that row only.      *)
Seek(t, r, q) == \A p \in Request \ {q} : <<t, r>> \notin locked[p]

Lock(q, rs) == locked' = [locked EXCEPT ![q] = @ \cup rs]

Over(q) == pc[q] \in {"ok", "failed"}

Goto(q, step) == pc' = [pc EXCEPT ![q] = step]

(* The last statement is done; its answer, or the handler's, may be lost.  *)
Reply(q) == \/ Goto(q, "ok")
            \/ Faults /\ Goto(q, "failed")

(* Slip: the connection goes back to its pool with the transaction open.   *)
SettleSlip(q) == UNCHANGED pending

(* COMMIT and ROLLBACK both leave nothing pending.                         *)
Settle(q) ==
  /\ read' = [read EXCEPT ![q] = NULL]
  /\ items' = [items EXCEPT ![q] = {}]
  /\ wiped' = [wiped EXCEPT ![q] = {}]
  /\ locked' = [locked EXCEPT ![q] = {}]

(* The handler throws; a transaction rolls back.                           *)
Abort(q) ==
  /\ Goto(q, "failed")
  /\ Settle(q)
  /\ UNCHANGED <<data, asked>>

(* RolesGuard and the checks in the controllers: who may call what.        *)
Anyone == UserType
Admins == {"SUPER_ADMIN", "TENANT_ADMIN", "TENANT_ADMINISTRATION"}

AccessRoutes ==
  [createRole |-> Anyone, updateRole |-> Anyone, deleteRole |-> Anyone,
   cloneRole |-> Anyone, assignRolePermissions |-> Anyone,
   assignUserRoles |-> Admins,
   createPermission |-> {"SUPER_ADMIN"}, updatePermission |-> {"SUPER_ADMIN"},
   deletePermission |-> {"SUPER_ADMIN"}, createMenuPermission |-> {"SUPER_ADMIN"},
   updateMenuPermission |-> {"SUPER_ADMIN"}, deleteMenuPermission |-> {"SUPER_ADMIN"},
   createPlan |-> {"SUPER_ADMIN"}, createFeature |-> {"SUPER_ADMIN"},
   assignFeaturePermissions |-> {"SUPER_ADMIN"}]

(* createRole compares the tenant of the body, a number, with the caller's *)
(* by !==; the driver has delivered the latter, a BIGINT, as a string.     *)
OwnTenant(c) ==
  c.op = "createRole" /\ c.tenant # NULL /\ c.as.type # "SUPER_ADMIN"
    => ~BigintsAreStrings /\ c.tenant = c.as.tenant

AccessFirst ==
  [createRole |-> "unique", createPermission |-> "unique", createPlan |-> "unique",
   createFeature |-> "insert", createMenuPermission |-> "insert",
   cloneRole |-> "lookup", updateRole |-> "lookup", updatePermission |-> "lookup",
   updateMenuPermission |-> "lookup", deleteRole |-> "lookup",
   deletePermission |-> "lookup", deleteMenuPermission |-> "lookup",
   assignRolePermissions |-> "role", assignUserRoles |-> "wipe",
   assignFeaturePermissions |-> "wipe"]

TableOf ==
  [createRole |-> "roles", updateRole |-> "roles", deleteRole |-> "roles",
   cloneRole |-> "roles", createPermission |-> "permissions",
   updatePermission |-> "permissions", deletePermission |-> "permissions",
   createPlan |-> "plans", createFeature |-> "features",
   createMenuPermission |-> "menus", updateMenuPermission |-> "menus",
   deleteMenuPermission |-> "menus"]

LinkOf ==
  [assignRolePermissions |-> "rolePermissions", cloneRole |-> "rolePermissions",
   assignUserRoles |-> "userRoles", assignFeaturePermissions |-> "featurePermissions"]

Op(q) == call[q].op
T(q) == TableOf[Op(q)]
Row(q) == rows[T(q)][call[q].id]

(* The tenant whose roles the caller may manage.  The super admin's calls  *)
(* and those of a user without a tenant are not limited.                   *)
Scope(q) == IF call[q].as.type = "SUPER_ADMIN" THEN NULL ELSE call[q].as.tenant
-----------------------------------------------------------------------------
(* Rows with a key: check, then insert.                                    *)

(* What createRole would collide with: its own tenant's roles and those of *)
(* no tenant.                                                              *)
Taken(q, key, tenant) ==
  \E r \in Id : /\ rows[T(q)][r] # NULL
                /\ rows[T(q)][r].key = key
                /\ T(q) = "roles" => rows[T(q)][r].tenant \in {tenant, NULL}
                /\ Op(q) = "updatePermission" => r # call[q].id

(* A clone takes the tenant of its source, read before.                    *)
NewTenant(q) == IF Op(q) = "cloneRole" THEN read[q] ELSE call[q].tenant

(* Slip: nothing is looked up before the INSERT.                           *)
UniqueSlip(q) ==
  /\ pc[q] = "unique"
  /\ Goto(q, "insert")
  /\ UNCHANGED <<data, asked, pending>>

(* SELECT id ... WHERE name, permission_key or plan_slug.                  *)
Unique(q) ==
  /\ pc[q] = "unique"
  /\ IF Taken(q, call[q].key, NewTenant(q))
     THEN Abort(q)
     ELSE /\ Goto(q, IF Op(q) = "updatePermission" THEN "write" ELSE "insert")
          /\ UNCHANGED <<data, asked, pending>>

(* The UNIQUE constraints: permission_key, plan_slug and menu_key have one,*)
(* the names of the roles do not.                                          *)
Violates(t, id, key) ==
  /\ t \in {"permissions", "plans", "menus"}
  /\ \E r \in Id \ {id} : rows[t][r] # NULL /\ rows[t][r].key = key

Insert(q) ==
  /\ pc[q] = "insert"
  /\ IF Violates(T(q), q, call[q].key)
     THEN Abort(q)
     ELSE /\ rows' = [rows EXCEPT ![T(q)][q] =
                        [key |-> call[q].key, tenant |-> NewTenant(q),
                         system |-> call[q].system]]
          /\ IF Op(q) = "cloneRole" THEN Goto(q, "copy") ELSE Reply(q)
          /\ UNCHANGED <<links, tenants, asked, pending>>

(* Slip: system rows are not protected.                                    *)
RefusedSlip(q) == Row(q) = NULL

(* The row is missing, belongs to another tenant or is a system row.       *)
Refused(q) ==
  \/ Row(q) = NULL
  \/ T(q) = "roles" /\ Scope(q) # NULL /\ Row(q).tenant \notin {Scope(q), NULL}
  \/ Op(q) # "cloneRole" /\ Row(q).system

AfterLookup ==
  [updateRole |-> "write", updatePermission |-> "unique",
   updateMenuPermission |-> "write", deleteRole |-> "count",
   deletePermission |-> "count", deleteMenuPermission |-> "drop",
   cloneRole |-> "unique"]

Updates == {"updateRole", "updatePermission", "updateMenuPermission"}

(* SELECT * ... WHERE id.  An update without a name goes on with the other *)
(* fields, and throws when there are none.                                 *)
Lookup(q) ==
  /\ pc[q] = "lookup"
  /\ \/ IF Refused(q)
        THEN Abort(q)
        ELSE /\ Goto(q, IF Op(q) \in Updates /\ call[q].key = NULL THEN "write"
                        ELSE AfterLookup[Op(q)])
             /\ read' = IF Op(q) = "cloneRole" THEN [read EXCEPT ![q] = Row(q).tenant]
                        ELSE read
             /\ UNCHANGED <<data, asked, items, wiped, locked>>
     \/ Op(q) \in Updates /\ call[q].key = NULL /\ Abort(q)

(* UPDATE ... WHERE id.  A row that has gone meanwhile is no error;        *)
(* updateRole and updateMenuPermission do not check the key.               *)
Write(q) ==
  /\ pc[q] = "write"
  /\ IF Row(q) # NULL /\ Violates(T(q), call[q].id, call[q].key)
     THEN Abort(q)
     ELSE /\ rows' = IF Row(q) = NULL \/ call[q].key = NULL THEN rows
                     ELSE [rows EXCEPT ![T(q)][call[q].id].key = call[q].key]
          /\ Reply(q)
          /\ UNCHANGED <<links, tenants, asked, pending>>
-----------------------------------------------------------------------------
(* Deleting: three statements for a role, two for a permission, and each   *)
(* commits by itself.                                                      *)

(* The links that forbid it.                                               *)
UsedIn == [deleteRole |-> "userRoles", deletePermission |-> "rolePermissions"]

(* Slip: what is in use is deleted, too.                                   *)
CountSlip(q) ==
  /\ pc[q] = "count"
  /\ Goto(q, IF Op(q) = "deleteRole" THEN "strip" ELSE "drop")
  /\ UNCHANGED <<data, asked, pending>>

Count(q) ==
  /\ pc[q] = "count"
  /\ Scan(UsedIn[Op(q)], q)
  /\ IF \E l \in links : l.in = UsedIn[Op(q)] /\ l.to = call[q].id
     THEN Abort(q)
     ELSE /\ Goto(q, IF Op(q) = "deleteRole" THEN "strip" ELSE "drop")
          /\ UNCHANGED <<data, asked, pending>>

(* DELETE FROM role_permissions WHERE role_id.                             *)
Strip(q) ==
  /\ pc[q] = "strip"
  /\ Scan("rolePermissions", q)
  /\ links' = {l \in links : ~(l.in = "rolePermissions" /\ l.from = call[q].id)}
  /\ Goto(q, "drop")
  /\ UNCHANGED <<rows, tenants, asked, pending>>

Drop(q) ==
  /\ pc[q] = "drop"
  /\ rows' = [rows EXCEPT ![T(q)][call[q].id] = NULL]
  /\ Reply(q)
  /\ UNCHANGED <<links, tenants, asked, pending>>
-----------------------------------------------------------------------------
(* Replacing all links of a role, a user or a feature.                     *)

(* cloneRole reads what its source has and, if that is anything, assigns   *)
(* it to the new role.                                                     *)
Copy(q) ==
  /\ pc[q] = "copy"
  /\ Scan("rolePermissions", q)
  /\ LET source == {l.to : l \in {x \in links : /\ x.in = "rolePermissions"
                                                /\ x.from = call[q].id}}
     IN /\ items' = [items EXCEPT ![q] = source]
        /\ IF source = {} THEN Reply(q) ELSE Goto(q, "role")
  /\ UNCHANGED <<data, asked, read, wiped, locked>>

(* The role, the user, or the feature in its plan that has the links.      *)
Target(q) ==
  IF Op(q) = "cloneRole" THEN q
  ELSE IF Op(q) = "assignFeaturePermissions" THEN <<call[q].id, call[q].tenant>>
  ELSE call[q].id

(* The role is looked up; only a tenant's own call asks for its plan, and  *)
(* cloneRole hands no tenant on.                                           *)
Role(q) ==
  /\ pc[q] = "role"
  /\ LET role == rows.roles[Target(q)]
         tenant == IF Op(q) = "cloneRole" THEN NULL ELSE Scope(q)
     IN IF role = NULL \/ (tenant # NULL /\ role.tenant \notin {tenant, NULL})
        THEN Abort(q)
        ELSE /\ Goto(q, IF tenant = NULL THEN "wipe" ELSE "plan")
             /\ items' = IF Op(q) = "cloneRole" THEN items
                         ELSE [items EXCEPT ![q] = call[q].items]
             /\ UNCHANGED <<data, asked, read, wiped, locked>>

(* getSubscriptionPermissions: the plan of the tenant.  A missing tenant,  *)
(* and one without a plan, has no permissions.                             *)
Plan(q) ==
  /\ pc[q] = "plan"
  /\ Seek("tenants", Scope(q), q)
  /\ LET tenant == tenants[Scope(q)]
     IN IF tenant = NULL \/ tenant.plan = NULL
        THEN /\ Goto(q, "wipe")
             /\ items' = [items EXCEPT ![q] = {}]
             /\ UNCHANGED read
        ELSE /\ Goto(q, "allowed")
             /\ read' = [read EXCEPT ![q] = tenant.plan]
             /\ UNCHANGED items
  /\ UNCHANGED <<data, asked, wiped, locked>>

(* Slip: the body is not held against the plan.                            *)
AllowedSlip(q) ==
  /\ pc[q] = "allowed"
  /\ Scan("featurePermissions", q)
  /\ Goto(q, "wipe")
  /\ UNCHANGED <<data, asked, pending>>

(* Of what the body asks for the permissions of that plan's features: the  *)
(* column is INT, so they are numbers whatever becomes of a BIGINT.        *)
Allowed(q) ==
  /\ pc[q] = "allowed"
  /\ Scan("featurePermissions", q)
  /\ LET included == {l.to : l \in {x \in links : /\ x.in = "featurePermissions"
                                                  /\ x.from[2] = read[q]}}
     IN items' = [items EXCEPT ![q] = @ \cap included]
  /\ Goto(q, "wipe")
  /\ UNCHANGED <<data, asked, read, wiped, locked>>

Mine(q) == {l \in links : l.in = LinkOf[Op(q)] /\ l.from = Target(q)}

(* Slip: the new links are added to the old ones.                          *)
WipeSlip(q) ==
  /\ pc[q] = "wipe"
  /\ items' = [items EXCEPT ![q] = @ \cup call[q].items]
  /\ Goto(q, "grant")
  /\ UNCHANGED <<data, asked, read, wiped, locked>>

(* The transaction opens: DELETE ... WHERE role_id, user_id or feature_id. *)
(* Rows that it does not find it does not lock.                            *)
Wipe(q) ==
  /\ pc[q] = "wipe"
  /\ Scan(LinkOf[Op(q)], q)
  /\ wiped' = [wiped EXCEPT ![q] = Mine(q)]
  /\ Lock(q, IF Mine(q) = {} THEN {} ELSE {<<LinkOf[Op(q)], Target(q)>>})
  /\ items' = IF Op(q) \in {"assignUserRoles", "assignFeaturePermissions"}
              THEN [items EXCEPT ![q] = call[q].items] ELSE items
  /\ Goto(q, "grant")
  /\ UNCHANGED <<data, asked, read>>

(* One INSERT for each item.  None of them can wait.                       *)
Grant(q) ==
  /\ pc[q] = "grant"
  /\ Lock(q, IF items[q] = {} THEN {} ELSE {<<LinkOf[Op(q)], Target(q)>>})
  /\ Goto(q, "commitLinks")
  /\ UNCHANGED <<data, asked, read, items, wiped>>

NewLinks(q) ==
  {[in |-> LinkOf[Op(q)], from |-> Target(q), to |-> i, by |-> q] : i \in items[q]}

CommitLinks(q) ==
  /\ pc[q] = "commitLinks"
  /\ links' = (links \ wiped[q]) \cup NewLinks(q)
  /\ Reply(q)
  /\ Settle(q)
  /\ UNCHANGED <<rows, tenants, asked>>

AccessStep(q) ==
  \/ Unique(q) \/ Insert(q) \/ Lookup(q) \/ Write(q) \/ Count(q) \/ Strip(q)
  \/ Drop(q) \/ Copy(q) \/ Role(q) \/ Plan(q) \/ Allowed(q) \/ Wipe(q)
  \/ Grant(q) \/ CommitLinks(q)
=============================================================================
