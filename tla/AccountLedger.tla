---------------------------- MODULE AccountLedger ----------------------------
(***************************************************************************)
(* What the accounts promise whatever overlaps or fails: tenants, users,   *)
(* invitations and reset tokens change only in the steps below, each of    *)
(* which is all or nothing.  Accounts implements it.                       *)
(***************************************************************************)
EXTENDS Naturals

CONSTANTS Id, NULL

VARIABLES
  tenants,      \* [active, plan] of each tenant
  users,        \* [tenant, password, logins, ...] of each user
  enrolled,     \* the users that have the role they came with
  firms,        \* [tenant] of each firm
  branches,     \* [firm] of each branch
  invitations,  \* [tenant, status, ...] of each invitation
  resets        \* [user, used, ...] of each token for a new password

ledger == <<tenants, users, enrolled, firms, branches, invitations, resets>>

Init == TRUE

(* f' differs from f at x, and nowhere else.                               *)
OnlyAt(f, g, x) == \A y \in Id \ {x} : g[y] = f[y]

(* A new user of tenant t, which has not logged in yet.                    *)
Added(u, t) ==
  /\ users[u] = NULL
  /\ users'[u] # NULL
  /\ users'[u].tenant = t
  /\ users'[u].logins = 0
  /\ OnlyAt(users, users', u)

Join(u) ==
  /\ Added(u, NULL)
  /\ UNCHANGED <<tenants, enrolled, firms, branches, invitations, resets>>

(* A tenant comes with its administrator, a firm and a branch.             *)
Onboard(t) ==
  /\ Added(t, t)
  /\ enrolled' = enrolled \cup {t}
  /\ tenants[t] = NULL /\ tenants'[t] # NULL /\ tenants'[t].active
  /\ OnlyAt(tenants, tenants', t)
  /\ firms' = [firms EXCEPT ![t] = [tenant |-> t]]
  /\ branches' = [branches EXCEPT ![t] = [firm |-> t]]
  /\ UNCHANGED <<invitations, resets>>

SetTenant(t) ==
  /\ tenants[t] # NULL /\ tenants'[t] # NULL /\ OnlyAt(tenants, tenants', t)
  /\ UNCHANGED <<users, enrolled, firms, branches, invitations, resets>>

(* A role that a user came with is taken away, never given back.           *)
Reassign ==
  /\ enrolled' \subseteq enrolled
  /\ UNCHANGED <<tenants, users, firms, branches, invitations, resets>>

Invite(i) ==
  /\ invitations[i] = NULL /\ invitations'[i] # NULL
  /\ invitations'[i].status = "pending"
  /\ OnlyAt(invitations, invitations', i)
  /\ UNCHANGED <<tenants, users, enrolled, firms, branches, resets>>

(* The invitation changes to `status` and in nothing else.                 *)
Decide(i, status) ==
  /\ invitations[i] # NULL
  /\ invitations' = [invitations EXCEPT ![i].status = status]

Accept(i, u) ==
  /\ Decide(i, "accepted")
  /\ Added(u, invitations[i].tenant)
  /\ enrolled' = enrolled \cup {u}
  /\ UNCHANGED <<tenants, firms, branches, resets>>

Decline(i) ==
  /\ Decide(i, "declined")
  /\ UNCHANGED <<tenants, users, enrolled, firms, branches, resets>>

Login(u) ==
  /\ users[u] # NULL
  /\ users' = [users EXCEPT ![u].logins = @ + 1]
  /\ UNCHANGED <<tenants, enrolled, firms, branches, invitations, resets>>

Issue(t) ==
  /\ resets[t] = NULL /\ resets'[t] # NULL /\ ~resets'[t].used
  /\ OnlyAt(resets, resets', t)
  /\ UNCHANGED <<tenants, users, enrolled, firms, branches, invitations>>

(* All tokens of a user.                                                   *)
Revoke(u) ==
  /\ resets' = [t \in Id |-> IF resets[t] # NULL /\ resets[t].user = u
                             THEN [resets[t] EXCEPT !.used = TRUE] ELSE resets[t]]
  /\ UNCHANGED <<tenants, users, enrolled, firms, branches, invitations>>

(* The password changes together with the token, and with no other.        *)
Redeem(t) ==
  /\ resets[t] # NULL
  /\ resets' = [resets EXCEPT ![t].used = TRUE]
  /\ users[resets[t].user] # NULL /\ users'[resets[t].user] # NULL
  /\ users' = [users EXCEPT ![resets[t].user].password = users'[resets[t].user].password]
  /\ UNCHANGED <<tenants, enrolled, firms, branches, invitations>>

Expire ==
  /\ \/ UNCHANGED resets /\ \E i \in Id : /\ invitations[i] # NULL
           /\ invitations' = [invitations EXCEPT ![i].expired = TRUE]
     \/ UNCHANGED invitations /\ \E t \in Id : /\ resets[t] # NULL
           /\ resets' = [resets EXCEPT ![t].expired = TRUE]
  /\ UNCHANGED <<tenants, users, enrolled, firms, branches>>

Next ==
  \/ \E x \in Id : \/ Join(x) \/ Onboard(x) \/ SetTenant(x) \/ Invite(x) \/ Decline(x)
                   \/ Login(x) \/ Issue(x) \/ Revoke(x) \/ Redeem(x)
  \/ \E i, u \in Id : Accept(i, u)
  \/ Reassign
  \/ Expire

Spec == Init /\ [][Next]_ledger
=============================================================================
