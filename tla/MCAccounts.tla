------------------------------ MODULE MCAccounts ------------------------------
(* Accounts on a small instance: two requests, and a database with two     *)
(* tenants, a row of every kind and a second role.                         *)
EXTENDS Accounts

CONSTANTS s1, s2, q1, q2

None == [i \in Id |-> NULL]
At(i, row) == [None EXCEPT ![i] = row]
Free(key) == [key |-> key, tenant |-> NULL, system |-> FALSE]

(* s1: the first tenant, its user, firm, branch, invitation and token, the *)
(* system role tenant_administration and the plan 'basic'.  s2: the second *)
(* tenant and its user, and a role of the first tenant.                    *)
MCDatabase ==
  [rows |-> [roles |-> [At(s1, [key |-> "tenant_administration", tenant |-> NULL,
                                system |-> TRUE])
                        EXCEPT ![s2] = [key |-> "x", tenant |-> s1, system |-> FALSE]],
             permissions |-> At(s1, Free("x")), plans |-> At(s1, Free("basic")),
             features |-> At(s1, [Free("x") EXCEPT !.tenant = s1]),
             menus |-> At(s1, Free("x"))],
   links |-> {[in |-> "userRoles", from |-> s1, to |-> s1, by |-> s1],
              [in |-> "rolePermissions", from |-> s2, to |-> s1, by |-> s1],
              [in |-> "featurePermissions", from |-> <<s1, s1>>, to |-> s1, by |-> s1]},
   tenants |-> [i \in Id |-> IF i \in Seed THEN [active |-> TRUE, plan |-> s1] ELSE NULL],
   users |-> [At(s1, [email |-> "basic", name |-> "basic", tenant |-> s1,
                      type |-> "TENANT_ADMIN", password |-> s1, logins |-> 0])
              EXCEPT ![s2] = [email |-> "z", name |-> "z", tenant |-> s2,
                              type |-> "TENANT_USER", password |-> s2, logins |-> 0]],
   firms |-> [i \in Id |-> IF i \in Seed THEN [tenant |-> i] ELSE NULL],
   branches |-> [i \in Id |-> IF i \in Seed THEN [firm |-> i] ELSE NULL],
   invitations |-> At(s1, [email |-> "y", tenant |-> s1, role |-> s2,
                           type |-> "TENANT_USER", status |-> "pending",
                           expired |-> FALSE]),
   resets |-> At(s1, [user |-> s2, used |-> FALSE, expired |-> FALSE])]

Super == [type |-> "SUPER_ADMIN", tenant |-> NULL]
Admin == [type |-> "TENANT_ADMIN", tenant |-> s1]
Other == [type |-> "TENANT_USER", tenant |-> s2]
Guest == [type |-> "anonymous", tenant |-> NULL]

Ask(op, as, id, key, owner, system, set) ==
  [op |-> op, as |-> as, id |-> id, key |-> key, tenant |-> owner, system |-> system,
   items |-> set]

RoleCall ==
  {Ask("createRole", Admin, NULL, "y", t, FALSE, {}) : t \in {NULL, s1}}
  \cup {Ask("createRole", Super, NULL, "y", s1, b, {}) : b \in BOOLEAN}
  \cup {Ask("updateRole", a, r, "y", NULL, FALSE, {}) :
          a \in {Admin, Other}, r \in {s1, s2}}
  \cup {Ask("updateRole", Admin, s2, NULL, NULL, FALSE, {})}
  \cup {Ask("deleteRole", Admin, r, NULL, NULL, FALSE, {}) : r \in {s1, s2, q1}}
  \cup {Ask("cloneRole", a, s2, "y", NULL, FALSE, {}) : a \in {Admin, Other}}
  \cup {Ask("assignRolePermissions", a, r, NULL, NULL, FALSE, {s1}) :
          a \in {Super, Admin}, r \in {s2, q1}}
  \cup {Ask("assignUserRoles", a, u, NULL, NULL, FALSE, {s2}) :
          a \in {Admin, Other}, u \in {s1, s2}}

PermissionCall ==
  {Ask("assignRolePermissions", a, s2, NULL, NULL, FALSE, p) :
     a \in {Super, Admin}, p \in {{}, {s1}, {s1, s2}}}
  \cup {Ask("assignFeaturePermissions", a, s1, NULL, s1, FALSE, {s1}) : a \in {Super, Admin}}
  \cup {Ask("assignFeaturePermissions", Super, s1, NULL, s1, FALSE, p) : p \in {{}, {s2}}}
  \cup {Ask(op, Super, NULL, "y", NULL, FALSE, {}) :
          op \in {"createPermission", "createMenuPermission", "createPlan"}}
  \cup {Ask("createFeature", Super, NULL, "y", s1, FALSE, {})}
  \cup {Ask(op, Super, s1, k, NULL, FALSE, {}) :
          op \in {"updatePermission", "updateMenuPermission"}, k \in {"y", NULL}}
  \cup {Ask(op, Super, s1, NULL, NULL, FALSE, {}) :
          op \in {"deletePermission", "deleteMenuPermission"}}

Accept(i, name) == [op |-> "acceptInvitation", as |-> Guest, id |-> i, name |-> name]
Onboarding(a) == [op |-> "createTenant", as |-> a, email |-> "x", name |-> "x"]

UserCall ==
  {[op |-> "register", as |-> Guest, email |-> e, name |-> "x"] : e \in {"y", "z"}}
  \cup {[op |-> "login", as |-> Guest, name |-> "z", secret |-> p] : p \in {s1, s2}}
  \cup {[op |-> "switchContext", as |-> Other, user |-> s2, firm |-> f, branch |-> b] :
          f \in {s1, s2}, b \in {s1, s2, NULL}}
  \cup {Onboarding(a) : a \in {Super, Admin}}
  \cup {[op |-> "sendInvitation", as |-> a, email |-> e, role |-> s2,
         type |-> "TENANT_USER"] : a \in {Super, Admin}, e \in {"x", "z"}}
  \cup {Accept(i, "x") : i \in {s1, q1}}
  \cup {[op |-> "rejectInvitation", as |-> Guest, id |-> i] : i \in {s1, q1}}

PasswordCalls ==
  {[op |-> "forgotPassword", as |-> Guest, email |-> e] : e \in {"z", "y"}}
  \cup {[op |-> "resetPassword", as |-> Guest, id |-> t] : t \in {s1, q1}}
  \cup {[op |-> "login", as |-> Guest, name |-> "z", secret |-> p] : p \in {s2, q1}}

TenantCalls ==
  {[op |-> op, as |-> Super, id |-> s2] :
     op \in {"updateTenant", "activateTenant", "deactivateTenant", "deleteTenant"}}
  \cup {[op |-> "assignPlan", as |-> Super, id |-> s1, plan |-> p] : p \in {s1, s2}}
  \cup {Ask("assignRolePermissions", Admin, s2, NULL, NULL, FALSE, {s1}), Onboarding(Super)}

(* A new administrator or member against the handlers that change roles.   *)
GrantCall ==
  {Onboarding(Super), Accept(s1, "x")}
  \cup {Ask("deleteRole", Admin, s2, NULL, NULL, FALSE, {}),
        Ask("updateRole", Admin, s2, "tenant_administration", NULL, FALSE, {}),
        Ask("assignUserRoles", Admin, q1, NULL, NULL, FALSE, {s2})}

MCMix == {RoleCall, PermissionCall, UserCall, PasswordCalls, TenantCalls, GrantCall}
=============================================================================
