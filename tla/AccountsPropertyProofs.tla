------------------------- MODULE AccountsPropertyProofs -------------------------
(***************************************************************************)
(* What the handlers of the accounts achieve, though each looks at a table *)
(* once and acts on what it saw several statements later: for every set of *)
(* requests, every mix of calls, any failures and any contents of the      *)
(* tables to begin with.                                                   *)
(***************************************************************************)
EXTENDS AccountsProofs

(* What was there when q came, if the request that made it was answered    *)
(* then.                                                                   *)
Early(i, q) == i \in Seed \/ Before(i, q)

(* A call is made once; a request that is over stays so, and one that      *)
(* still executes statements was not over when any other came.             *)
LEMMA Kept ==
  ASSUME AccountsInv, NEW q \in Request, Move(q), NEW p \in Request
  PROVE  /\ pc[p] # "idle" => call'[p] = call[p] /\ seen'[p] = seen[p] /\ Op(p)' = Op(p)
         /\ pc[p] = "idle" => pc'[p] \in Starts \cup {"idle", "failed"}
         /\ Over(p) => pc'[p] = pc[p]
         /\ pc'[p] # pc[p] => p = q
         /\ Step(q) => /\ ~Over(q) /\ q \notin Seed /\ q \notin seen[p] /\ q \notin seen'[p]
                       /\ call' = call /\ seen' = seen
PROOF
  <1>0. TypeOK
    BY DEF AccountsInv
  <1>1. CASE p # q
    <2>1. pc'[p] = pc[p] /\ call'[p] = call[p] /\ seen'[p] = seen[p]
      BY <1>0, <1>1, Others
    <2>2. Step(q) => ~Over(q) /\ call' = call /\ seen' = seen
      <3>1. Step(q) => pc[q] \notin {"idle", "ok", "failed"}
        BY StepAt
      <3> QED
        BY <1>0, <3>1, PathMoves DEF Over, Arrive
    <2>3. Step(q) => q \notin seen[p]
      BY <2>2 DEF AccountsInv
    <2> QED
      BY <1>1, <2>1, <2>2, <2>3, AccessControlAssumption DEF Op, AccessControlAssumption
  <1>2. CASE p = q
    <2>1. Arrive(q) => pc[q] = "idle" /\ pc'[q] \in Starts \cup {"failed"}
      BY <1>0, ArriveAt
    <2>2. ~Arrive(q) => call' = call /\ seen' = seen /\ pc[q] # "idle"
      BY <1>0, PathMoves
    <2>3. Over(q) => pc'[q] = pc[q]
      BY <1>0, PathMoves
    <2>4. Step(q) => ~Over(q) /\ pc[q] # "idle"
      BY StepAt DEF Over
    <2>5. Step(q) => q \notin seen[q]
      BY <2>4 DEF AccountsInv
    <2> QED
      BY <1>2, <2>1, <2>2, <2>3, <2>4, <2>5, AccessControlAssumption
         DEF Op, AccessControlAssumption
  <1> QED
    BY <1>1, <1>2

(* Only a statement of its handler takes a request anywhere but to its     *)
(* start or to its failure.                                                *)
LEMMA MovesByStep ==
  ASSUME AccountsInv, NEW q \in Request, Move(q), NEW p \in Request,
         pc'[p] # pc[p], pc'[p] \notin Starts \cup {"failed"}
  PROVE  p = q /\ Step(q) /\ pc[q] \in (AccessPc \cup AccountPc) \ {"idle", "ok", "failed"}
PROOF
  <1>0. TypeOK
    BY DEF AccountsInv
  <1>1. p = q
    BY Kept
  <1>2. ~Arrive(q)
    BY <1>0, <1>1, ArriveAt
  <1>3. ~Fail(q)
    BY <1>0, <1>1 DEF Fail, Abort, Goto, TypeOK
  <1>4. ~Expire(q)
    BY <1>1 DEF Expire, accessVars
  <1> QED
    BY <1>0, <1>1, <1>2, <1>3, <1>4, StepAt DEF Move, TypeOK

(* Every step is a move of some request.                                   *)
LEMMA StepsAreMoves ==
  ASSUME Next
  PROVE  \E q \in Request : Move(q)
PROOF
  BY DEF Next, Move
-----------------------------------------------------------------------------
(* Waiting.  The row that a transaction may have to wait for is the last   *)
(* one that it locks: the invitation, or the token.                        *)
LastLock(l) == l[1] \in {"invitations", "resets"}

WaitInv ==
  \A q \in Request : pc[q] \notin {"commitMember", "commitReset"} =>
    \A l \in locked[q] : ~LastLock(l)

(* A move gives all locks back, takes none, or takes more; before a COMMIT *)
(* there is nothing more to take.                                          *)
LEMMA LocksMove ==
  ASSUME AccountsInv, NEW q \in Request, Move(q)
  PROVE  /\ \/ locked'[q] = {}
            \/ \A l \in locked'[q] : l \in locked[q] \/ ~LastLock(l)
            \/ pc'[q] \in {"commitMember", "commitReset"}
         /\ pc[q] \in {"commitMember", "commitReset"} => locked'[q] = {}
PROOF
  <1>0. TypeOK
    BY DEF AccountsInv
  <1>1. Abort(q) \/ Settle(q) => locked'[q] = {}
    BY <1>0 DEF Abort, Settle, TypeOK
  <1>2. ASSUME NEW rs, Lock(q, rs) PROVE locked'[q] = locked[q] \cup rs
    BY <1>0, <1>2 DEF Lock, TypeOK
  <1>3. CASE Arrive(q) \/ Expire(q)
    <2>1. locked' = locked
      BY <1>3 DEF Arrive, Expire, accessVars, pending
    <2>2. pc[q] \notin {"commitMember", "commitReset"}
      BY <1>3 DEF Arrive, Expire
    <2> QED
      BY <2>1, <2>2
  <1>4. CASE Fail(q)
    BY <1>1, <1>4 DEF Fail
  <1>5. CASE Step(q) /\ pc[q] \in {"wipe", "grant"}
    <2>1. LinkOf[Op(q)] \in Link /\ "invitations" \notin Link /\ "resets" \notin Link
      BY <1>0, <1>5, TargetAt DEF Link
    <2>2. PICK rs \in SUBSET {<<LinkOf[Op(q)], Target(q)>>} : Lock(q, rs)
      BY <1>5, StepAt DEF Wipe, Grant, AccessPc
    <2> QED
      BY <1>2, <1>5, <2>1, <2>2 DEF LastLock
  <1>6. CASE Step(q) /\ pc[q] \in AccessPc /\ pc[q] \notin {"wipe", "grant"}
    BY <1>0, <1>1, <1>6, StepAt
       DEF Unique, Insert, Lookup, Write, Count, Strip, Drop, Copy, Role, Plan, Allowed,
           CommitLinks, pending, AccessPc
  <1>7. CASE Step(q) /\ pc[q] \in {"insertTenant", "insertAdmin", "insertMember",
                                   "setPassword"}
    <2>1. ASSUME NEW rs, Wrote(q, rs), \A l \in rs : ~LastLock(l)
          PROVE  \A l \in locked'[q] : l \in locked[q] \/ ~LastLock(l)
      BY <1>2, <2>1 DEF Wrote
    <2>2. CASE pc[q] = "insertTenant"
      <3>1. Wrote(q, {<<"tenants", q>>})
        BY <1>7, <2>2, StepAt DEF InsertTenant
      <3> QED
        BY <1>7, <2>1, <3>1 DEF LastLock
    <2>3. CASE pc[q] = "insertAdmin"
      <3>1. Wrote(q, {<<t, q>> : t \in {"users", "userRoles", "firms", "branches"}})
        BY <1>7, <2>3, StepAt DEF InsertAdmin
      <3> QED
        BY <1>7, <2>1, <3>1 DEF LastLock
    <2>4. CASE pc[q] = "insertMember"
      <3>1. Wrote(q, {<<"users", q>>, <<"userRoles", q>>})
        BY <1>7, <2>4, StepAt DEF InsertMember
      <3> QED
        BY <1>7, <2>1, <3>1 DEF LastLock
    <2>5. CASE pc[q] = "setPassword"
      <3>1. Wrote(q, {<<"users", read[q]>>})
        BY <1>7, <2>5, StepAt DEF SetPassword
      <3> QED
        BY <1>7, <2>1, <3>1 DEF LastLock
    <2> QED
      BY <1>7, <2>2, <2>3, <2>4, <2>5
  <1>8. CASE Step(q) /\ pc[q] \in {"markAccepted", "spend"}
    <2>1. pc'[q] \in {"commitMember", "commitReset"}
      <3>1. \E s \in {"commitMember", "commitReset"} : Goto(q, s)
        BY <1>8, StepAt DEF MarkAccepted, Spend
      <3> QED
        BY <1>0, <3>1 DEF Goto, TypeOK
    <2> QED
      BY <1>8, <2>1
  <1>9. CASE Step(q) /\ pc[q] \in {"commitTenant", "commitMember", "commitReset"}
    BY <1>1, <1>9, StepAt DEF CommitTenant, CommitMember, CommitReset
  <1>10. CASE /\ Step(q) /\ pc[q] \in AccountPc
              /\ pc[q] \notin {"insertTenant", "insertAdmin", "insertMember", "setPassword",
                               "markAccepted", "spend", "commitTenant", "commitMember",
                               "commitReset"}
    <2>1. Refuse(q) \/ locked' = locked
      BY <1>10, StepAt
         DEF CheckUser, Create, BasicPlan, AdminRoleId, FindLogin, FindContext, CountLogin,
             FindUser, CheckFirm, CheckBranch, CheckEmail, Invite, FindInvitation, CheckName,
             Decline, FindEmail, Invalidate, Issue, FindToken, FindTenant, FindPlan,
             WriteTenant, ReadOnly, pending, AccountPc
    <2> QED
      BY <1>1, <1>10, <2>1 DEF Refuse
  <1> QED
    BY <1>0, <1>3, <1>4, <1>5, <1>6, <1>7, <1>8, <1>9, <1>10 DEF Move, TypeOK

LEMMA WaitStep == AccountsInv /\ WaitInv /\ [Next]_vars => WaitInv'
PROOF
  <1> SUFFICES ASSUME AccountsInv, WaitInv, [Next]_vars PROVE WaitInv'
    OBVIOUS
  <1>1. CASE UNCHANGED vars
    BY <1>1 DEF WaitInv, vars, accessVars, pending
  <1>2. ASSUME NEW q \in Request, Move(q), NEW p \in Request,
               pc'[p] \notin {"commitMember", "commitReset"}
        PROVE  \A l \in locked'[p] : ~LastLock(l)
    <2>1. CASE p = q
      BY <1>2, <2>1, LocksMove DEF WaitInv
    <2>2. CASE p # q
      <3>1. pc'[p] = pc[p] /\ locked'[p] = locked[p]
        BY <1>2, <2>2, Others DEF AccountsInv
      <3> QED
        BY <1>2, <3>1 DEF WaitInv
    <2> QED
      BY <2>1, <2>2
  <1> QED
    BY <1>1, <1>2, StepsAreMoves DEF WaitInv

(* However many requests lock whatever rows, no wait can close a circle:   *)
(* acceptInvitation and resetPassword lock the row that others may want    *)
(* last, and the other transactions lock only what they need not wait for. *)
THEOREM NoCircleOfWaitsForRows == Spec => []WaitsAreShort
PROOF
  <1>1. ASSUME AccountsInv, WaitInv PROVE WaitsAreShort
    <2>1. ASSUME NEW q \in Request, locked[q] # {} PROVE pc[q] \in InTransaction
      BY <1>1, <2>1 DEF AccountsInv, Holds
    <2>2. ASSUME NEW q \in Request, NEW p \in Request, locked[p] \cap Awaited(q) # {}
          PROVE  Awaited(p) = {}
      <3>1. \E l \in locked[p] : LastLock(l)
        BY <2>2 DEF Awaited, LastLock
      <3> QED
        BY <1>1, <3>1 DEF WaitInv, Awaited
    <2> QED
      BY <2>1, <2>2 DEF WaitsAreShort
  <1>2. Init => WaitInv
    BY DEF Init, WaitInv
  <1> QED
    BY <1>1, <1>2, WaitStep, AccountsInvariant, PTL DEF Spec
-----------------------------------------------------------------------------
(* Sessions.                                                               *)

(* The user of a token is one, its firm is of the user's tenant and its    *)
(* branch of the firm.                                                     *)
SessionInv ==
  \A q \in Request : session[q] # NULL =>
    /\ session[q].user \in Users
    /\ session[q].firm # NULL => session[q].firm \in FirmsOf(session[q].user)
    /\ session[q].branch # NULL =>
         session[q].firm # NULL /\ session[q].branch \in BranchesOf(session[q].firm)

LEMMA SessionStep ==
  ASSUME AccountsInv, SessionInv, [Next]_vars
  PROVE  SessionInv'
PROOF
  <1>1. CASE UNCHANGED vars
    BY <1>1 DEF SessionInv, vars, accounts, Users, FirmsOf, BranchesOf
  <1>2. ASSUME NEW q \in Request, Move(q), NEW p \in Request, session'[p] # NULL
        PROVE  /\ session'[p].user \in Users'
               /\ session'[p].firm # NULL => session'[p].firm \in FirmsOf(session[p].user)'
               /\ session'[p].branch # NULL =>
                    /\ session'[p].firm # NULL
                    /\ session'[p].branch \in BranchesOf(session[p].firm)'
    <2>1. PICK u, f, b :
            /\ u \in Users
            /\ session'[p].user = u /\ session'[p].firm = f /\ session'[p].branch = b
            /\ f # NULL => f \in FirmsOf(u)
            /\ b # NULL => f # NULL /\ b \in BranchesOf(f)
      <3>1. CASE session'[p] = session[p]
        BY <1>2, <3>1 DEF SessionInv
      <3>2. CASE session'[p] # session[p]
        <4>1. p = q
          BY <1>2, <3>2, Others DEF AccountsInv
        <4> QED
          BY <1>2, <3>2, <4>1, SessionMove
      <3> QED
        BY <3>1, <3>2
    <2>2. /\ u \in Users'
          /\ f # NULL => f \in FirmsOf(u)'
          /\ b # NULL => b \in BranchesOf(f)'
      BY <1>2, <2>1, StillThere DEF FirmsOf
    <2>3. FirmsOf(session[p].user)' = FirmsOf(u)' /\ BranchesOf(session[p].firm)' = BranchesOf(f)'
      BY <2>1
    <2> QED
      BY <2>1, <2>2, <2>3
  <1>3. ASSUME NEW q \in Request, Move(q) PROVE SessionInv'
    BY <1>2, <1>3 DEF SessionInv
  <1> QED
    BY <1>1, <1>3, StepsAreMoves

LEMMA SessionInvariant == Spec => []SessionInv
PROOF
  <1>1. Init => SessionInv
    BY DEF Init, SessionInv
  <1> QED
    BY <1>1, SessionStep, AccountsInvariant, PTL DEF Spec

(* The firm and the branch of a token belong together and to the tenant of *)
(* its user, and go on doing so: login looks for them without a lock, but  *)
(* no handler moves a user, a firm or a branch to another owner.           *)
THEOREM SessionsStayInTheirTenant == Spec => []SessionStaysInItsTenant
PROOF
  <1>1. SessionInv => SessionStaysInItsTenant
    BY DEF SessionInv, SessionStaysInItsTenant, FirmsOf, BranchesOf
  <1> QED
    BY <1>1, SessionInvariant, PTL
-----------------------------------------------------------------------------
(* System rows and the roles of other tenants.                             *)

(* The statements of an update or a delete that follow its look at the row.*)
Looked(q) ==
  /\ pc[q] \in {"unique", "write", "count", "strip", "drop"}
  /\ Op(q) \in Updates \cup Deletes

(* Whatever is at that row is still one it may write to: no other row can  *)
(* take its place, since a request inserts one row only.                   *)
Permitted(q) ==
  Looked(q) =>
    /\ Row(q) # NULL => /\ ~Row(q).system
                        /\ T(q) = "roles" /\ Scope(q) # NULL =>
                             Row(q).tenant \in {Scope(q), NULL}
    /\ call[q].id \in Request => Inserted(call[q].id)

ProtectInv == \A q \in Request : Permitted(q)

LEMMA InsertedStays ==
  ASSUME AccountsInv, NEW q \in Request, Move(q), NEW p \in Request, Inserted(p)
  PROVE  Inserted(p)'
PROOF
  <1>0. TypeOK
    BY DEF AccountsInv
  <1>1. pc[p] # "idle"
    BY DEF Inserted, Over
  <1>2. Op(p)' = Op(p)
    BY <1>1, Kept
  <1>3. CASE pc'[p] = pc[p] \/ pc'[p] \in {"ok", "failed"}
    BY <1>2, <1>3 DEF Inserted, Over
  <1>4. CASE pc'[p] # pc[p] /\ pc'[p] \notin {"ok", "failed"}
    <2>1. p = q /\ ~Over(p) /\ Op(q) = "cloneRole"
      BY <1>4, Kept DEF Inserted
    <2>2. Step(q)
      <3>1. ~Arrive(q)
        BY <1>1, <2>1 DEF Arrive
      <3>2. ~Fail(q)
        BY <1>0, <1>4, <2>1 DEF Fail, Abort, Goto, TypeOK
      <3>3. ~Expire(q)
        BY <1>4, <2>1 DEF Expire, accessVars
      <3> QED
        BY <3>1, <3>2, <3>3 DEF Move
    <2> QED
      BY <1>0, <1>2, <1>4, <2>1, <2>2, Onward DEF Inserted, Over
  <1> QED
    BY <1>3, <1>4

(* The same as RowsMove of one row.                                        *)
LEMMA RowChange ==
  ASSUME AccountsInv, NEW q \in Request, Move(q), NEW t \in Table, NEW r \in Id,
         rows'[t][r] # rows[t][r]
  PROVE  /\ Step(q) /\ t = T(q)
         /\ \/ /\ pc[q] = "insert" /\ r = q /\ rows[t][r] = NULL
               /\ rows'[t][r].key = call[q].key /\ rows'[t][r].tenant = NewTenant(q)
            \/ /\ pc[q] = "write" /\ r = call[q].id
               /\ rows[t][r] # NULL /\ rows'[t][r] # NULL
               /\ rows'[t][r].key = call[q].key
               /\ rows'[t][r].tenant = rows[t][r].tenant
               /\ rows'[t][r].system = rows[t][r].system
            \/ pc[q] = "drop" /\ r = call[q].id /\ rows'[t][r] = NULL
PROOF
  <1>1. Step(q) /\ t = T(q)
    BY RowsMove
  <1>2. \/ /\ pc[q] = "insert" /\ r = q /\ rows[t][q] = NULL
           /\ rows'[t][q] = [key |-> call[q].key, tenant |-> NewTenant(q),
                             system |-> call[q].system]
        \/ /\ pc[q] = "write" /\ r = call[q].id
           /\ rows[t][r] # NULL /\ rows'[t][r] # NULL
           /\ rows'[t][r].key = call[q].key
           /\ rows'[t][r].tenant = rows[t][r].tenant
           /\ rows'[t][r].system = rows[t][r].system
        \/ pc[q] = "drop" /\ r = call[q].id /\ rows'[t][r] = NULL
    BY RowsMove
  <1> QED
    BY <1>1, <1>2

LEMMA ProtectStep ==
  ASSUME AccountsInv, ProtectInv, [Next]_vars
  PROVE  ProtectInv'
PROOF
  <1>0. TypeOK
    BY DEF AccountsInv
  <1>1. CASE UNCHANGED vars
    BY <1>1 DEF ProtectInv, Permitted, Looked, Row, T, Scope, Op, Inserted, Over, vars,
       accessVars, data, asked
  <1>2. ASSUME NEW q \in Request, Move(q), NEW p \in Request, Looked(p)'
        PROVE  Permitted(p)'
    <2>1. CASE Looked(p)
      <3>1. /\ call'[p] = call[p] /\ Op(p)' = Op(p) /\ T(p)' = T(p) /\ Scope(p)' = Scope(p)
        BY <1>2, <2>1, Kept DEF Looked, T, Op, Scope
      <3>2. T(p) \in Table /\ call[p].id \in Id
        <4>1. pc[p] # "idle"
          BY <2>1 DEF Looked
        <4> QED
          BY <1>0, <2>1, <4>1, TableAt, CallAt, CallFields DEF Looked, Op, Updates, Deletes
      <3>3. call[p].id \in Request => Inserted(call[p].id)
        BY <2>1 DEF ProtectInv, Permitted
      <3>a. call'[p].id \in Request => Inserted(call[p].id)'
        <4>1. \A r \in Request : Inserted(r) => Inserted(r)'
          BY <1>2, InsertedStays
        <4>2. ASSUME NEW r \in Request, call[p].id = r PROVE Inserted(call[p].id)'
          BY <3>1, <3>3, <4>1, <4>2
        <4> QED
          BY <3>1, <4>2
      <3>4. \/ rows'[T(p)][call[p].id] = rows[T(p)][call[p].id]
            \/ rows'[T(p)][call[p].id] = NULL
            \/ /\ rows[T(p)][call[p].id] # NULL
               /\ rows'[T(p)][call[p].id].tenant = rows[T(p)][call[p].id].tenant
               /\ rows'[T(p)][call[p].id].system = rows[T(p)][call[p].id].system
        <4>1. CASE call[p].id = q /\ Step(q) /\ pc[q] = "insert"
          <5>1. ~Inserted(q)
            BY <4>1 DEF Inserted, Over
          <5> QED
            BY <3>3, <4>1, <5>1
        <4>2. CASE ~(call[p].id = q /\ Step(q) /\ pc[q] = "insert")
          BY <1>2, <3>2, <4>2, RowChange
        <4> QED
          BY <4>1, <4>2
      <3>5. /\ Row(p) = rows[T(p)][call[p].id]
            /\ Row(p)' = rows'[T(p)][call[p].id]
        BY <3>1 DEF Row
      <3>6. Permitted(p)
        BY DEF ProtectInv
      <3> QED
        BY <2>1, <3>1, <3>a, <3>4, <3>5, <3>6 DEF Permitted
    <2>2. CASE ~Looked(p)
      <3>1. pc'[p] # pc[p] /\ pc'[p] # "failed"
        <4>1. pc'[p] = pc[p] => pc[p] # "idle"
          BY <1>2 DEF Looked
        <4>2. pc'[p] = pc[p] => Op(p)' = Op(p)
          BY <1>2, <4>1, Kept
        <4> QED
          BY <1>2, <2>2, <4>2 DEF Looked
      <3>2. ~Arrive(q) \/ p # q
        <4>1. Arrive(q) /\ p = q => pc'[p] = "unique" /\ call'[q] \in UNION Mix
          BY <1>0, <1>2, ArriveAt DEF Looked, Starts
        <4>2. Arrive(q) /\ p = q => pc'[q] \in {FirstStep(call'[q]), "failed"}
          BY <1>0 DEF Arrive, Goto, TypeOK
        <4>3. \A c \in UNION Mix : c.op \in Updates \cup Deletes => FirstStep(c) = "lookup"
          BY DEF FirstStep, AccessFirst, Updates, Deletes
        <4> QED
          BY <1>2, <3>1, <4>1, <4>2, <4>3 DEF Looked, Op
      <3>3. p = q /\ Step(q)
        <4>1. p = q
          BY <1>2, <3>1, Kept
        <4>2. ~Fail(q)
          BY <1>0, <3>1, <4>1 DEF Fail, Abort, Goto, TypeOK
        <4>3. ~Expire(q)
          BY <3>1, <4>1 DEF Expire, accessVars
        <4> QED
          BY <1>2, <3>2, <4>1, <4>2, <4>3 DEF Move
      <3>4. /\ Op(q)' = Op(q) /\ call' = call /\ T(q)' = T(q) /\ Scope(q)' = Scope(q)
        BY <1>2, <3>3, Kept DEF T, Op, Scope
      <3>5. pc[q] = "lookup" /\ Op(q) \in Updates \cup Deletes
        <4>1. /\ Op(q) \in Updates \cup Deletes
              /\ pc'[q] \in {"unique", "write", "count", "strip", "drop"}
          BY <1>2, <3>3, <3>4 DEF Looked
        <4>2. pc[q] \notin {"unique", "write", "count", "strip", "drop", "idle", "ok", "failed"}
          BY <2>2, <3>3, <4>1, StepAt DEF Looked
        <4>3. pc[q] \in AccessPc \cup AccountPc
          BY <1>0 DEF TypeOK
        <4> QED
          BY <1>0, <3>3, <4>1, <4>2, <4>3, Onward DEF AccessPc, AccountPc
      <3>6. ~Refused(q) /\ UNCHANGED rows
        BY <1>0, <3>1, <3>3, <3>5, StepAt DEF Lookup, AccessPc, Abort, Goto, TypeOK, data
      <3>7. T(q) \in Table /\ call[q].id \in Id
        BY <1>0, <3>5, TableAt
      <3>8. Row(q)' = Row(q)
        BY <3>4, <3>6 DEF Row
      <3>9. ASSUME call[q].id \in Request PROVE Inserted(call[q].id)'
        <4>1. rows[T(q)][call[q].id] # NULL
          BY <3>6 DEF Refused, Row
        <4>2. Inserted(call[q].id)
          BY <3>7, <3>9, <4>1 DEF AccountsInv, Fresh
        <4>3. \A r \in Request : Inserted(r) => Inserted(r)'
          BY <1>2, InsertedStays
        <4>4. PICK r \in Request : r = call[q].id
          BY <3>9
        <4> QED
          BY <3>4, <4>2, <4>3, <4>4
      <3> QED
        BY <3>3, <3>4, <3>5, <3>6, <3>8, <3>9 DEF Permitted, Refused, Updates, Deletes
    <2> QED
      BY <2>1, <2>2
  <1>3. ASSUME NEW q \in Request, Move(q) PROVE ProtectInv'
    BY <1>2, <1>3 DEF ProtectInv, Permitted
  <1> QED
    BY <1>1, <1>3, StepsAreMoves

LEMMA ProtectInvariant == Spec => []ProtectInv
PROOF
  <1>1. Init => ProtectInv
    BY DEF Init, ProtectInv, Permitted, Looked
  <1> QED
    BY <1>1, ProtectStep, AccountsInvariant, PTL DEF Spec

(* No handler changes or deletes a system row, or a role of another tenant *)
(* than its caller's, though it looks at the row one to three statements   *)
(* before it writes to it.                                                 *)
THEOREM ProtectedRowsAreKept == Spec => ProtectedRowsStay
PROOF
  <1>1. ASSUME AccountsInv, ProtectInv, NEW q \in Request, Move(q), NEW t \in Table,
               NEW r \in Id, rows[t][r] # NULL, rows'[t][r] # rows[t][r]
        PROVE  /\ ~rows[t][r].system
               /\ \E p \in Request : /\ pc'[p] # pc[p]
                                     /\ t = "roles" /\ Scope(p) # NULL
                                          => rows.roles[r].tenant \in {Scope(p), NULL}
    <2>1. /\ Step(q) /\ t = T(q) /\ pc[q] \in {"write", "drop"} /\ r = call[q].id
      BY <1>1, RowChange
    <2>2. Op(q) \in Updates \cup Deletes
      BY <1>1, <2>1, CallAt DEF AccountsInv
    <2>3. Looked(q) /\ Row(q) = rows[t][r]
      BY <2>1, <2>2 DEF Looked, Row
    <2>4. /\ ~rows[t][r].system
          /\ t = "roles" /\ Scope(q) # NULL => rows[t][r].tenant \in {Scope(q), NULL}
      BY <1>1, <2>1, <2>3 DEF ProtectInv, Permitted
    <2>5. pc'[q] # pc[q]
      BY <1>1, <2>1, Onward DEF AccountsInv
    <2>6. t = "roles" /\ Scope(q) # NULL => rows.roles[r].tenant \in {Scope(q), NULL}
      BY <2>4
    <2> QED
      BY <2>4, <2>5, <2>6
  <1>2. ASSUME AccountsInv, ProtectInv, [Next]_vars
        PROVE  [\A t \in Table, r \in Id :
                  rows[t][r] # NULL /\ rows'[t][r] # rows[t][r] =>
                    /\ ~rows[t][r].system
                    /\ \E q \in Request :
                         /\ pc'[q] # pc[q]
                         /\ t = "roles" /\ Scope(q) # NULL
                              => rows.roles[r].tenant \in {Scope(q), NULL}]_vars
    BY <1>1, <1>2, StepsAreMoves
  <1> QED
    BY <1>2, AccountsInvariant, ProtectInvariant, PTL DEF Spec, ProtectedRowsStay
-----------------------------------------------------------------------------
(* The links of roles, users and permissions.                              *)

(* A link that a step adds was not there when any request came.            *)
LEMMA NewLinksAreLate ==
  ASSUME AccountsInv, NEW q \in Request, Move(q), NEW l \in links', NEW p \in Request,
         Early(l.by, p)'
  PROVE  l \in links /\ (pc[p] # "idle" => Early(l.by, p))
PROOF
  <1>1. l \notin links => l.by = q /\ Step(q)
    BY LinksMove
  <1>2. Step(q) => q \notin Seed /\ q \notin seen'[p]
    BY Kept
  <1>3. l.by \in Seed \/ l.by \in seen'[p]
    BY DEF Early, Before
  <1>4. l \in links
    BY <1>1, <1>2, <1>3
  <1>5. pc[p] # "idle" => seen'[p] = seen[p]
    BY Kept
  <1> QED
    BY <1>3, <1>4, <1>5 DEF Early, Before

(* What a delete has found unused, and what it has stripped, no request    *)
(* that had been answered when it came has put back.                       *)
Unlinked(q, l) ==
  /\ pc[q] \in {"strip", "drop", "ok"} => ~(l.in = UsedIn[Op(q)] /\ l.to = call[q].id)
  /\ pc[q] \in {"drop", "ok"} /\ Op(q) = "deleteRole" =>
       ~(l.in = "rolePermissions" /\ l.from = call[q].id)

DeleteInv ==
  \A q \in Request, l \in links :
    Asks(q, {"deleteRole", "deletePermission"}) /\ Early(l.by, q) => Unlinked(q, l)

LEMMA DeleteStep ==
  ASSUME AccountsInv, DeleteInv, [Next]_vars
  PROVE  DeleteInv'
PROOF
  <1>0. TypeOK
    BY DEF AccountsInv
  <1>1. CASE UNCHANGED vars
    BY <1>1 DEF DeleteInv, Asks, Early, Before, Unlinked, Op, vars, accessVars, data, asked
  <1>2. ASSUME NEW q \in Request, Move(q), NEW p \in Request, NEW l \in links',
               Asks(p, {"deleteRole", "deletePermission"})', Early(l.by, p)'
        PROVE  Unlinked(p, l)'
    <2>1. CASE pc'[p] \notin {"strip", "drop", "ok"}
      BY <2>1 DEF Unlinked
    <2>2. CASE pc'[p] \in {"strip", "drop", "ok"}
      <3>1. pc[p] # "idle"
        BY <1>2, <2>2, Kept DEF Starts
      <3>2. /\ l \in links /\ Early(l.by, p) /\ call'[p] = call[p] /\ Op(p)' = Op(p)
            /\ Op(p) \in {"deleteRole", "deletePermission"}
        BY <1>2, <3>1, Kept, NewLinksAreLate DEF Asks
      <3>3. Unlinked(p, l)
        BY <3>1, <3>2 DEF DeleteInv, Asks
      <3>4. CASE pc'[p] = pc[p]
        BY <3>2, <3>3, <3>4 DEF Unlinked
      <3>5. CASE pc'[p] # pc[p]
        <4>1. p = q /\ Step(q) /\ pc[q] \in Path[Op(q)]
          BY <1>0, <1>2, <2>2, <3>5, MovesByStep, CallAt DEF Starts
        <4>2. \/ pc[q] = "count" /\ pc'[q] = "strip" /\ Op(q) = "deleteRole"
              \/ pc[q] = "count" /\ pc'[q] = "drop" /\ Op(q) = "deletePermission"
              \/ pc[q] = "strip" /\ pc'[q] = "drop"
              \/ pc[q] = "drop" /\ pc'[q] = "ok"
          BY <1>0, <2>2, <3>2, <4>1, Onward, PathOf DEF Updates
        <4>3. CASE pc[q] = "count"
          <5>1. ~(l.in = UsedIn[Op(q)] /\ l.to = call[q].id)
            BY <1>0, <3>2, <4>1, <4>2, <4>3, StepAt DEF Count, AccessPc, Abort, Goto, TypeOK
          <5> QED
            BY <3>2, <4>1, <4>2, <4>3, <5>1 DEF Unlinked
        <4>4. CASE pc[q] = "strip"
          <5>1. ~(l.in = "rolePermissions" /\ l.from = call[q].id)
            BY <1>2, <4>1, <4>4, LinksMove
          <5> QED
            BY <3>2, <3>3, <4>1, <4>2, <4>4, <5>1 DEF Unlinked
        <4>5. CASE pc[q] = "drop"
          BY <3>2, <3>3, <4>1, <4>5 DEF Unlinked
        <4> QED
          BY <4>2, <4>3, <4>4, <4>5
      <3> QED
        BY <3>4, <3>5
    <2> QED
      BY <2>1, <2>2
  <1>3. ASSUME NEW q \in Request, Move(q) PROVE DeleteInv'
    BY <1>2, <1>3 DEF DeleteInv
  <1> QED
    BY <1>1, <1>3, StepsAreMoves

LEMMA DeleteInvariant == Spec => []DeleteInv
PROOF
  <1>1. Init => DeleteInv
    BY DEF Init, DeleteInv, Asks
  <1> QED
    BY <1>1, DeleteStep, AccountsInvariant, PTL DEF Spec

(* A role or a permission that deleteRole or deletePermission reports as   *)
(* deleted is not linked by anything that had been answered when it came,  *)
(* though the count, the removal of a role's permissions and the deletion  *)
(* are three statements that commit one by one.                            *)
THEOREM DeletesLeaveNoDanglingLink == Spec => []DeleteLeavesNoDanglingLink
PROOF
  <1>1. DeleteInv => DeleteLeavesNoDanglingLink
    BY DEF DeleteInv, DeleteLeavesNoDanglingLink, Early, Unlinked
  <1> QED
    BY <1>1, DeleteInvariant, PTL

(* An assignment has deleted what it replaces, but for what requests that  *)
(* overlap with it have added since.                                       *)
Replaces(q, l) ==
  /\ pc[q] \in {"grant", "commitLinks"} /\ Op(q) \in Assigns
  /\ l.in = LinkOf[Op(q)] /\ l.from = Target(q) /\ Early(l.by, q)

MixInv ==
  /\ \A q \in Request : q \notin seen[q]
  /\ \A q \in Request, l \in links : Replaces(q, l) => l \in wiped[q]
  /\ LinksMixOnlyByOverlap

LEMMA MixStep ==
  ASSUME AccountsInv, MixInv, [Next]_vars
  PROVE  MixInv'
PROOF
  <1>0. TypeOK
    BY DEF AccountsInv
  <1>1. CASE UNCHANGED vars
    BY <1>1 DEF MixInv, Replaces, LinksMixOnlyByOverlap, Asks, Early, Before, Op, Target, vars,
       accessVars, data, asked, pending
  <1>2. ASSUME NEW q \in Request, Move(q), NEW p \in Request
        PROVE  p \notin seen'[p]
    <2>1. CASE pc[p] # "idle"
      BY <1>2, <2>1, Kept DEF MixInv
    <2>2. CASE pc[p] = "idle" /\ p = q
      <3>1. CASE Arrive(q)
        BY <1>0, <2>2, <3>1, ArriveAt DEF Over
      <3>2. CASE ~Arrive(q)
        BY <1>0, <1>2, <2>2, <3>2, PathMoves
      <3> QED
        BY <3>1, <3>2
    <2>3. CASE p # q
      BY <1>0, <1>2, <2>3, Others DEF MixInv
    <2> QED
      BY <2>1, <2>2, <2>3
  <1>3. ASSUME NEW q \in Request, Move(q), NEW p \in Request, NEW l \in links', Replaces(p, l)'
        PROVE  l \in wiped'[p]
    <2>1. pc[p] # "idle"
      BY <1>3, Kept DEF Replaces, Starts
    <2>2. /\ l \in links /\ Early(l.by, p) /\ call'[p] = call[p] /\ Op(p)' = Op(p)
          /\ Target(p)' = Target(p)
      BY <1>3, <2>1, Kept, NewLinksAreLate DEF Replaces, Target
    <2>3. CASE pc'[p] = pc[p]
      <3>1. p # q
        <4>1. p = q => pc'[q] = pc[q] /\ pc'[q] \in {"grant", "commitLinks"}
          BY <1>3, <2>3 DEF Replaces
        <4>2. p = q => Step(q) /\ pc[q] \in {"wipe", "grant"}
          BY <1>3, <4>1, PendingMove
        <4> QED
          BY <1>0, <4>1, <4>2, Onward
      <3>2. wiped'[p] = wiped[p]
        BY <1>0, <1>3, <3>1, Others
      <3>3. Replaces(p, l)
        BY <1>3, <2>2, <2>3 DEF Replaces
      <3> QED
        BY <2>2, <3>2, <3>3 DEF MixInv
    <2>4. CASE pc'[p] # pc[p]
      <3>1. p = q /\ pc'[q] \in {"grant", "commitLinks"}
        BY <1>3, <2>4, Kept DEF Replaces
      <3>2. \/ pc[q] = "wipe" /\ wiped'[q] = Mine(q)
            \/ pc[q] = "grant" /\ wiped'[q] = wiped[q]
        BY <1>3, <3>1, PendingMove
      <3>3. CASE pc[q] = "wipe" /\ wiped'[q] = Mine(q)
        BY <1>3, <2>2, <3>1, <3>3 DEF Mine, Replaces
      <3>4. CASE pc[q] = "grant" /\ wiped'[q] = wiped[q]
        BY <1>3, <2>2, <3>1, <3>4 DEF MixInv, Replaces
      <3> QED
        BY <3>2, <3>3, <3>4
    <2> QED
      BY <2>3, <2>4
  <1>4. ASSUME NEW q \in Request, Move(q), NEW l \in links', NEW m \in links',
               l.in = m.in, l.from = m.from, m.by \in Request, Asks(m.by, Assigns)',
               l.by \in Seed \/ l.by \in seen'[m.by]
        PROVE  FALSE
    <2> DEFINE p == m.by
    <2>1. l.by \in Seed \/ l.by \in seen'[p]
      BY <1>4
    <2>2. PICK r \in Request : r = p
      BY <1>4
    <2>3. l \in links /\ (pc[r] # "idle" => Early(l.by, r))
      <3>1. Early(l.by, r)'
        BY <2>1, <2>2 DEF Early, Before
      <3> QED
        BY <1>4, <3>1, NewLinksAreLate
    <2>4. CASE m \in links
      <3>1. pc[r] # "idle"
        <4>1. ~Over(r) => \A x \in links : x.by # r
          BY DEF AccountsInv, Fresh
        <4> QED
          BY <2>2, <2>4, <4>1 DEF Over
      <3>2. Early(l.by, r) /\ Asks(r, Assigns)
        <4>1. Op(r)' = Op(r) /\ Op(r)' \in Assigns
          BY <1>4, <2>2, <3>1, Kept DEF Asks, Op
        <4> QED
          BY <2>3, <3>1, <4>1 DEF Asks
      <3> QED
        BY <1>4, <2>2, <2>3, <2>4, <3>2 DEF MixInv, LinksMixOnlyByOverlap, Early
    <2>5. CASE m \notin links
      <3>1. r = q /\ Step(q)
        BY <1>4, <2>2, <2>5, LinksMove
      <3>2. pc[q] # "idle" /\ Op(q)' = Op(q)
        <4>1. pc[q] # "idle"
          BY <3>1, StepAt
        <4> QED
          BY <1>4, <4>1, Kept
      <3>3. Op(q) \in Assigns
        BY <1>4, <2>2, <3>1, <3>2 DEF Asks, Op
      <3>4. pc[q] = "commitLinks" /\ m.in = LinkOf[Op(q)] /\ m.from = Target(q)
        <4>1. pc[q] \in {"commitTenant", "commitMember"} => Op(q) \notin Assigns
          BY <1>0, <3>2, CallAt DEF Assigns
        <4> QED
          BY <1>4, <2>5, <3>3, <4>1, LinksMove
      <3>5. Early(l.by, q)
        BY <2>3, <3>1, <3>2
      <3>6. l \in wiped[q]
        BY <1>4, <2>3, <3>3, <3>4, <3>5 DEF MixInv, Replaces
      <3> QED
        BY <1>4, <3>1, <3>4, <3>6, LinksMove
    <2> QED
      BY <2>4, <2>5
  <1>5. ASSUME NEW q \in Request, Move(q) PROVE MixInv'
    <2>1. LinksMixOnlyByOverlap'
      <3> SUFFICES ASSUME NEW l \in links', NEW m \in links',
                          l.in = m.in, l.from = m.from, m.by \in Request,
                          Asks(m.by, Assigns)'
                   PROVE  l.by \notin Seed /\ l.by \notin seen'[m.by]
        BY DEF LinksMixOnlyByOverlap, Before
      <3> QED
        BY <1>4, <1>5
    <2> QED
      BY <1>2, <1>3, <1>5, <2>1 DEF MixInv
  <1> QED
    BY <1>1, <1>5, StepsAreMoves

LEMMA MixInvariant == Spec => []MixInv
PROOF
  <1>1. Init => MixInv
    BY DatabaseAssumption, AccessControlAssumption
       DEF Init, MixInv, Replaces, LinksMixOnlyByOverlap, Asks, DatabaseAssumption,
           AccessControlAssumption
  <1> QED
    BY <1>1, MixStep, AccountsInvariant, PTL DEF Spec

(* An assignment of permissions or roles replaces all that had been        *)
(* assigned by a request that was answered before it came: the DELETE      *)
(* waits for the rows of open transactions, and no link comes back.        *)
THEOREM AssignmentsReplace == Spec => []LinksMixOnlyByOverlap
PROOF
  BY MixInvariant, PTL DEF MixInv
-----------------------------------------------------------------------------
(* The plan of a tenant.                                                   *)

TenantGrant(q) == Asks(q, {"assignRolePermissions"}) /\ Scope(q) # NULL

(* Nobody has replanned the tenant of q since q came.                      *)
Unplanned(q) == \A p \in Request : Replans(p, Scope(q)) => Before(p, q)

(* What q has granted or is about to grant.                                *)
Granted(q) ==
  {l.to : l \in {x \in links : x.by = q}}
    \cup (IF pc[q] \in {"wipe", "grant", "commitLinks"} THEN items[q] ELSE {})

(* What the handler has read of the plan still holds, and what it has left *)
(* of the body is in the plan.                                             *)
PlanInv ==
  \A q \in Request : TenantGrant(q) =>
    /\ pc[q] = "allowed" \/ Granted(q) # {} => tenants[Scope(q)] # NULL
    /\ Unplanned(q) =>
         /\ pc[q] = "allowed" => tenants[Scope(q)].plan = read[q]
         /\ \A i \in Granted(q) : PlanIncludes(Scope(q), i)

(* Only Arrive gives q a call, and assignRolePermissions begins with the   *)
(* role.                                                                   *)
LEMMA GrantArrives ==
  ASSUME AccountsInv, NEW q \in Request, Move(q), pc[q] = "idle", TenantGrant(q)'
  PROVE  pc'[q] \in {"role", "failed"} /\ Granted(q)' = {}
PROOF
  <1>0. TypeOK
    BY DEF AccountsInv
  <1>1. Arrive(q)
    BY <1>0, PathMoves
  <1>2. PICK c \in UNION Mix : /\ call' = [call EXCEPT ![q] = c]
                               /\ Goto(q, IF Allows(c) THEN FirstStep(c) ELSE "failed")
    BY <1>1 DEF Arrive
  <1>3. c.op = "assignRolePermissions"
    BY <1>0, <1>2 DEF TenantGrant, Asks, Op, TypeOK
  <1>4. FirstStep(c) = "role"
    BY <1>3 DEF FirstStep, AccessFirst
  <1>5. pc'[q] \in {"role", "failed"}
    BY <1>0, <1>2, <1>4 DEF Goto, TypeOK
  <1>6. \A l \in links' : l.by # q
    <2>1. links' = links
      BY <1>0, <1>1, ArriveAt DEF data
    <2>2. ~Over(q)
      BY DEF Over
    <2> QED
      BY <2>1, <2>2 DEF AccountsInv, Fresh
  <1> QED
    BY <1>5, <1>6 DEF Granted

(* The items of an assignment for a tenant shrink, but when the body is    *)
(* held against the plan; the commit turns them into links.                *)
LEMMA GrantedMove ==
  ASSUME AccountsInv, NEW q \in Request, Move(q), NEW p \in Request, TenantGrant(p),
         pc[p] # "idle"
  PROVE  \/ Granted(p)' \subseteq Granted(p) /\ pc'[p] # "allowed"
         \/ Granted(p)' \subseteq Granted(p) /\ pc'[p] = pc[p] /\ read'[p] = read[p]
         \/ /\ p = q /\ Step(q) /\ pc[q] = "plan" /\ Granted(p)' = {}
            /\ tenants' = tenants /\ tenants[Scope(q)] # NULL
            /\ read'[q] = tenants[Scope(q)].plan
         \/ /\ p = q /\ Step(q) /\ pc[q] = "allowed" /\ pc'[p] # "allowed"
            /\ tenants' = tenants /\ links' = links
            /\ \A i \in Granted(p)' : \E l \in links :
                 l.in = "featurePermissions" /\ l.from[2] = read[q] /\ l.to = i
PROOF
  <1>0. TypeOK
    BY DEF AccountsInv
  <1>1. CASE p # q
    <2>1. pc'[p] = pc[p] /\ items'[p] = items[p] /\ read'[p] = read[p]
      BY <1>0, <1>1, Others
    <2>2. \A l \in links' : l.by = p => l \in links
      BY <1>1, LinksMove
    <2> QED
      BY <2>1, <2>2 DEF Granted
  <1>2. CASE p = q /\ Over(q)
    <2>1. pc'[q] = pc[q] /\ ~Step(q)
      BY <1>0, <1>2, PathMoves, StepAt DEF Over
    <2>2. \A l \in links' : l \in links
      BY <2>1, LinksMove
    <2> QED
      BY <1>2, <2>1, <2>2 DEF Granted, Over
  <1>3. CASE p = q /\ ~Over(q) /\ ~Step(q)
    <2>1. Fail(q) \/ Expire(q)
      BY <1>0, <1>3, ArriveAt DEF Move
    <2>2. links' = links
      BY <1>3, Writers
    <2>3. CASE Fail(q)
      <3>1. pc'[q] = "failed"
        BY <1>0, <2>3 DEF Fail, Abort, Goto, TypeOK
      <3> QED
        BY <1>3, <2>2, <3>1 DEF Granted
    <2>4. CASE Expire(q)
      <3>1. pc' = pc /\ items' = items /\ read' = read
        BY <2>4 DEF Expire, accessVars, pending
      <3> QED
        BY <1>3, <2>2, <3>1 DEF Granted
    <2> QED
      BY <2>1, <2>3, <2>4
  <1>4. CASE p = q /\ ~Over(q) /\ Step(q)
    <2>1. pc[q] \in {"role", "plan", "allowed", "wipe", "grant", "commitLinks"}
      BY <1>0, <1>4, CallAt, StepAt DEF TenantGrant, Asks, Path, Over
    <2>2. \A l \in links : l.by # q
      BY <1>4 DEF AccountsInv, Fresh
    <2>3. items \in [Request -> SUBSET Id] /\ read \in [Request -> OrNone(Id)]
      BY <1>0 DEF TypeOK
    <2>4. CASE pc'[q] = "failed" /\ pc[q] # "commitLinks"
      <3>1. links' = links \/ pc[q] = "strip"
        BY <2>1, <2>4, Writers
      <3> QED
        BY <1>4, <2>1, <2>2, <2>4, <3>1 DEF Granted
    <2>5. CASE pc[q] = "role" /\ pc'[q] # "failed"
      <3>1. pc'[q] = "plan" /\ links' = links
        BY <1>0, <1>4, <2>5, StepAt, Writers
           DEF Role, AccessPc, Abort, Goto, TypeOK, TenantGrant, Asks
      <3> QED
        BY <1>4, <2>2, <2>5, <3>1 DEF Granted
    <2>6. CASE pc[q] = "plan" /\ pc'[q] # "failed"
      <3> DEFINE tenant == tenants[Scope(q)]
      <3>1. /\ links' = links /\ tenants' = tenants
            /\ \/ pc'[q] = "wipe" /\ items'[q] = {}
               \/ pc'[q] = "allowed" /\ tenant # NULL /\ read'[q] = tenant.plan
        BY <1>0, <1>4, <2>3, <2>6, StepAt DEF Plan, AccessPc, Goto, TypeOK, data
      <3> QED
        BY <1>4, <2>2, <2>6, <3>1 DEF Granted
    <2>7. CASE pc[q] = "allowed" /\ pc'[q] # "failed"
      <3> DEFINE included == {l.to : l \in {x \in links : /\ x.in = "featurePermissions"
                                                          /\ x.from[2] = read[q]}}
      <3>1. /\ links' = links /\ tenants' = tenants /\ pc'[q] = "wipe"
            /\ items'[q] \subseteq included
        BY <1>0, <1>4, <2>3, <2>7, StepAt DEF Allowed, AccessPc, Goto, TypeOK, data
      <3>2. Granted(q)' \subseteq included
        BY <2>2, <3>1 DEF Granted
      <3> QED
        BY <1>4, <2>7, <3>1, <3>2
    <2>8. CASE pc[q] = "wipe" /\ pc'[q] # "failed"
      <3>1. links' = links /\ pc'[q] = "grant"
        BY <1>0, <1>4, <2>8, Onward, Writers
      <3>2. Op(q) = "assignRolePermissions"
        BY <1>4 DEF TenantGrant, Asks
      <3>3. items' = items
        BY <1>4, <2>8, <3>2, StepAt DEF Wipe, AccessPc
      <3> QED
        BY <1>4, <2>2, <2>8, <3>1, <3>3 DEF Granted
    <2>9. CASE pc[q] = "grant" /\ pc'[q] # "failed"
      <3>1. links' = links /\ pc'[q] = "commitLinks"
        BY <1>0, <1>4, <2>9, Onward, Writers
      <3>2. items' = items
        BY <1>4, <2>9, StepAt DEF Grant, AccessPc
      <3> QED
        BY <1>4, <2>2, <2>9, <3>1, <3>2 DEF Granted
    <2>10. CASE pc[q] = "commitLinks"
      <3>1. links' = (links \ wiped[q]) \cup NewLinks(q) /\ pc'[q] \in {"ok", "failed"}
        BY <1>0, <1>4, <2>10, StepAt DEF CommitLinks, AccessPc, Reply, Goto, TypeOK
      <3>2. \A l \in links' : l.by = q => l.to \in items[q]
        BY <2>2, <3>1 DEF NewLinks
      <3> QED
        BY <1>4, <2>10, <3>1, <3>2 DEF Granted
    <2> QED
      BY <2>1, <2>4, <2>5, <2>6, <2>7, <2>8, <2>9, <2>10
  <1> QED
    BY <1>1, <1>2, <1>3, <1>4

(* Who takes a plan from a tenant or a permission from a plan replans.     *)
LEMMA PlansMove ==
  ASSUME AccountsInv, NEW q \in Request, Move(q), NEW t \in Id, tenants[t] # NULL
  PROVE  /\ tenants'[t] # NULL
         /\ \/ tenants'[t].plan = tenants[t].plan
            \/ Step(q) /\ Asks(q, {"assignPlan"}) /\ call[q].id = t
         /\ \/ \A l \in links : l.in = "featurePermissions" /\ l.from[2] = tenants[t].plan
                                  => l \in links'
            \/ /\ Step(q) /\ Asks(q, {"assignFeaturePermissions"})
               /\ call[q].tenant = tenants[t].plan
PROOF
  <1>0. TypeOK /\ q \in Id /\ tenants \in [Id -> OrNone(TenantRow)]
    BY DEF AccountsInv, TypeOK, Id
  <1>1. tenants'[t] # NULL
    BY TenantsMove
  <1>2. ASSUME tenants'[t].plan # tenants[t].plan
        PROVE  Step(q) /\ Asks(q, {"assignPlan"}) /\ call[q].id = t
    <2>1. Step(q) /\ pc[q] \in {"commitTenant", "writeTenant"}
      BY <1>2, Writers
    <2>2. CASE pc[q] = "commitTenant"
      <3>1. tenants[q] = NULL
        BY <2>2 DEF AccountsInv, Fresh, Over
      <3>2. tenants' = [tenants EXCEPT ![q] = [active |-> TRUE, plan |-> read[q]]]
        BY <2>1, <2>2, StepAt DEF CommitTenant
      <3> QED
        BY <1>0, <1>2, <3>1, <3>2
    <2>3. CASE pc[q] = "writeTenant"
      <3> DEFINE i == call[q].id
                 row == [active |-> IF Op(q) \in {"updateTenant", "assignPlan"}
                                    THEN tenants[i].active ELSE Op(q) = "activateTenant",
                         plan |-> IF Op(q) = "assignPlan" THEN call[q].plan
                                  ELSE tenants[i].plan]
      <3>1. tenants' = [tenants EXCEPT ![i] = row]
        BY <2>1, <2>3, StepAt DEF WriteTenant
      <3>2. Op(q) # "assignPlan" => row.plan = tenants[i].plan
        OBVIOUS
      <3> HIDE DEF i, row
      <3>3. i = t /\ tenants'[t] = row
        BY <1>0, <1>2, <3>1
      <3>4. Op(q) = "assignPlan"
        BY <1>2, <3>2, <3>3
      <3> QED
        BY <2>1, <2>3, <3>3, <3>4 DEF Asks, i
    <2> QED
      BY <2>1, <2>2, <2>3
  <1>3. ASSUME NEW l \in links, l \notin links', l.in = "featurePermissions",
               l.from[2] = tenants[t].plan
        PROVE  /\ Step(q) /\ Asks(q, {"assignFeaturePermissions"})
               /\ call[q].tenant = tenants[t].plan
    <2>1. Step(q) /\ pc[q] = "commitLinks" /\ l \in wiped[q]
      BY <1>3, LinksMove
    <2>2. l.in = LinkOf[Op(q)] /\ l.from = Target(q)
      BY <2>1 DEF AccountsInv, Holds
    <2>3. Op(q) = "assignFeaturePermissions"
      BY <1>0, <1>3, <2>1, <2>2, TargetAt DEF LinkOf, Assigns
    <2>4. Target(q) = <<call[q].id, call[q].tenant>>
      BY <2>3 DEF Target
    <2> QED
      BY <1>3, <2>1, <2>2, <2>3, <2>4 DEF Asks
  <1> QED
    BY <1>1, <1>2, <1>3

LEMMA PlanStep ==
  ASSUME AccountsInv, PlanInv, [Next]_vars
  PROVE  PlanInv'
PROOF
  <1>0. TypeOK
    BY DEF AccountsInv
  <1>1. CASE UNCHANGED vars
    BY <1>1 DEF PlanInv, TenantGrant, Unplanned, Granted, Replans, PlanIncludes, Asks, Before,
       Op, Scope, vars, accessVars, data, asked, pending
  <1>2. ASSUME NEW q \in Request, Move(q), NEW p \in Request, TenantGrant(p)'
        PROVE  /\ pc'[p] = "allowed" \/ Granted(p)' # {} => tenants'[Scope(p)'] # NULL
               /\ Unplanned(p)' =>
                    /\ pc'[p] = "allowed" => tenants'[Scope(p)'].plan = read'[p]
                    /\ \A i \in Granted(p)' : PlanIncludes(Scope(p), i)'
    <2>1. CASE pc[p] = "idle"
      <3>1. p = q
        BY <1>0, <1>2, <2>1, Others DEF TenantGrant, Asks
      <3> QED
        BY <1>2, <2>1, <3>1, GrantArrives
    <2>2. CASE pc[p] # "idle"
      <3> DEFINE t == Scope(p)
      <3>1. call'[p] = call[p] /\ seen'[p] = seen[p] /\ Scope(p)' = t /\ TenantGrant(p)
        <4>1. call'[p] = call[p] /\ seen'[p] = seen[p]
          BY <1>2, <2>2, Kept
        <4> QED
          BY <1>2, <2>2, <4>1 DEF TenantGrant, Asks, Op, Scope
      <3>2. t \in Id
        <4>1. call[p].as \in Caller
          BY <1>0, <2>2, CallAt, CallFields
        <4> QED
          BY <3>1, <4>1 DEF TenantGrant, Scope, Caller
      <3>3. CASE tenants[t] = NULL
        <4>1. pc[p] # "allowed" /\ Granted(p) = {}
          BY <3>1, <3>3 DEF PlanInv
        <4>2. pc'[p] # "allowed" /\ Granted(p)' = {}
          BY <1>2, <2>2, <3>1, <3>3, <4>1, GrantedMove
        <4> QED
          BY <4>2
      <3>4. CASE tenants[t] # NULL
        <4>1. tenants'[t] # NULL
          BY <1>2, <3>2, <3>4, PlansMove
        <4>2. ASSUME Unplanned(p)'
              PROVE  /\ pc'[p] = "allowed" => tenants'[t].plan = read'[p]
                     /\ \A i \in Granted(p)' : PlanIncludes(Scope(p), i)'
          <5>2. Step(q) => pc[q] # "idle" /\ call' = call /\ pc'[q] # "idle" /\ q \notin seen'[p]
            BY <1>0, <1>2, Kept, StepAt, PathMoves
          <5>3. tenants'[t].plan = tenants[t].plan
            <6>1. ~(Step(q) /\ Asks(q, {"assignPlan"}) /\ call[q].id = t)
              BY <3>1, <4>2, <5>2 DEF Unplanned, Replans, Asks, Op, Before
            <6> QED
              BY <1>2, <3>2, <3>4, <6>1, PlansMove
          <5>4. \A i : PlanIncludes(t, i) => PlanIncludes(Scope(p), i)'
            <6>1. ~(/\ Step(q) /\ Asks(q, {"assignFeaturePermissions"})
                    /\ call[q].tenant = tenants[t].plan)
              BY <3>1, <4>2, <5>2, <5>3 DEF Unplanned, Replans, Asks, Op, Before
            <6>2. \A l \in links : l.in = "featurePermissions" /\ l.from[2] = tenants[t].plan
                                     => l \in links'
              BY <1>2, <3>2, <3>4, <6>1, PlansMove
            <6> QED
              BY <3>1, <4>1, <5>3, <6>2 DEF PlanIncludes
          <5>5. Unplanned(p)
            <6>1. ASSUME NEW r \in Request, Replans(r, t)
                  PROVE  r \in seen[p]
              <7>1. pc[r] # "idle"
                BY <6>1 DEF Replans, Asks
              <7>2. call'[r] = call[r] /\ Op(r)' = Op(r) /\ pc'[r] # "idle"
                <8>1. call'[r] = call[r] /\ Op(r)' = Op(r)
                  BY <1>2, <7>1, Kept
                <8>2. pc'[r] # "idle"
                  BY <1>0, <1>2, <7>1, Others, PathMoves
                <8> QED
                  BY <8>1, <8>2
              <7>3. Replans(r, Scope(p))'
                BY <3>1, <5>3, <6>1, <7>2 DEF Replans, Asks
              <7> QED
                BY <3>1, <4>2, <7>3 DEF Unplanned, Before
            <6> QED
              BY <6>1 DEF Unplanned, Before
          <5>6. /\ pc[p] = "allowed" => tenants[t].plan = read[p]
                /\ \A i \in Granted(p) : PlanIncludes(t, i)
            BY <3>1, <5>5 DEF PlanInv
          <5>7. CASE /\ Granted(p)' \subseteq Granted(p)
                     /\ \/ pc'[p] # "allowed"
                        \/ pc'[p] = pc[p] /\ read'[p] = read[p]
            BY <5>3, <5>4, <5>6, <5>7
          <5>8. CASE p = q /\ Granted(p)' = {} /\ read'[q] = tenants[t].plan
            BY <5>3, <5>8
          <5>9. CASE /\ p = q /\ pc[q] = "allowed" /\ pc'[p] # "allowed"
                     /\ \A i \in Granted(p)' : \E l \in links :
                          l.in = "featurePermissions" /\ l.from[2] = read[q] /\ l.to = i
            <6>1. \A i \in Granted(p)' : PlanIncludes(t, i)
              BY <3>4, <5>6, <5>9 DEF PlanIncludes
            <6> QED
              BY <5>4, <5>9, <6>1
          <5> QED
            BY <1>2, <2>2, <3>1, <5>7, <5>8, <5>9, GrantedMove
        <4> QED
          BY <3>1, <4>1, <4>2
      <3> QED
        BY <3>3, <3>4
    <2> QED
      BY <2>1, <2>2
  <1>3. ASSUME NEW q \in Request, Move(q) PROVE PlanInv'
    BY <1>2, <1>3 DEF PlanInv
  <1> QED
    BY <1>1, <1>3, StepsAreMoves

LEMMA PlanInvariant == Spec => []PlanInv
PROOF
  <1>1. Init => PlanInv
    BY DEF Init, PlanInv, TenantGrant, Asks
  <1> QED
    BY <1>1, PlanStep, AccountsInvariant, PTL DEF Spec

(* A tenant's assignment grants nothing outside of the tenant's plan,      *)
(* though the plan and its permissions are read in two statements and      *)
(* written down in a later transaction, unless the plan is changed by a    *)
(* request that was not over when the assignment came.                     *)
THEOREM TenantsGrantWithinTheirPlan == Spec => []GrantsStayInThePlan
PROOF
  <1>1. PlanInv => GrantsStayInThePlan
    BY DEF PlanInv, GrantsStayInThePlan, TenantGrant, Unplanned, Granted
  <1> QED
    BY <1>1, PlanInvariant, PTL
-----------------------------------------------------------------------------
(* User names.                                                             *)

(* The handler has looked for the name of the user it will insert.         *)
Named(q) ==
  pc[q] \in {"create", "basicPlan", "insertTenant", "adminRole", "insertAdmin",
             "commitTenant", "insertMember", "markAccepted", "commitMember"}

NamesInv ==
  /\ \A q \in Request : Named(q) =>
       \A u \in Users : Early(u, q) => users[u].name # call[q].name
  /\ UsernamesCollideOnlyByOverlap

(* A user that was there when p came is not the one a step inserts.        *)
LEMMA NewUsersAreLate ==
  ASSUME AccountsInv, NEW q \in Request, Move(q), NEW u \in Users', NEW p \in Request,
         Early(u, p)'
  PROVE  /\ u \in Users /\ users'[u].name = users[u].name
         /\ pc[p] # "idle" => Early(u, p)
PROOF
  <1>1. u \in Id /\ users'[u] # NULL
    BY DEF Users
  <1>2. u \notin Users => u = q /\ Step(q)
    BY <1>1, UsersMove
  <1>3. u \in Seed \/ u \in seen'[p]
    BY DEF Early, Before
  <1>4. Step(q) => q \notin Seed /\ q \notin seen'[p]
    BY Kept
  <1>5. u \in Users
    BY <1>2, <1>3, <1>4
  <1>6. users'[u].name = users[u].name
    BY <1>5, UsersMove
  <1>7. pc[p] # "idle" => seen'[p] = seen[p]
    BY Kept
  <1> QED
    BY <1>3, <1>5, <1>6, <1>7 DEF Early, Before

LEMMA NamesStep ==
  ASSUME AccountsInv, NamesInv, [Next]_vars
  PROVE  NamesInv'
PROOF
  <1>0. TypeOK
    BY DEF AccountsInv
  <1>1. CASE UNCHANGED vars
    BY <1>1 DEF NamesInv, Named, UsernamesCollideOnlyByOverlap, Early, Before, Users, vars,
       accessVars, accounts, data, asked
  <1>2. ASSUME NEW q \in Request, Move(q), NEW p \in Request, Named(p)',
               NEW u \in Users', Early(u, p)'
        PROVE  users'[u].name # call'[p].name
    <2>1. pc[p] # "idle"
      BY <1>2, Kept DEF Named, Starts
    <2>2. /\ u \in Users /\ users'[u].name = users[u].name
          /\ Early(u, p) /\ call'[p] = call[p]
      BY <1>2, <2>1, NewUsersAreLate, Kept
    <2>3. CASE Named(p)
      BY <2>2, <2>3 DEF NamesInv
    <2>4. CASE ~Named(p)
      <3>1. pc'[p] # pc[p] /\ pc'[p] \notin Starts \cup {"failed"}
        BY <1>2, <2>4 DEF Named, Starts
      <3>2. p = q /\ Step(q) /\ pc[q] \in Path[Op(q)]
        <4>1. p = q /\ Step(q) /\ pc[q] \notin {"idle", "ok", "failed"}
          BY <1>2, <3>1, MovesByStep
        <4> QED
          BY <1>0, <4>1, CallAt
      <3>3. pc[q] \in {"checkUser", "checkName"}
        <4>1. pc[q] \in AccessPc \cup AccountPc
          BY <1>0 DEF TypeOK
        <4>2. pc'[q] # "failed"
          BY <3>1, <3>2
        <4> QED
          BY <1>0, <1>2, <2>4, <3>2, <4>1, <4>2, Onward, StepAt
             DEF Named, AccessPc, AccountPc
      <3>4. pc'[q] # "failed"
        BY <3>1, <3>2
      <3>5. \A w \in Users : users[w].name # call[q].name
        <4>1. CheckUser(q) \/ CheckName(q)
          BY <3>2, <3>3, StepAt
        <4>2. ~Refuse(q)
          BY <1>0, <3>4 DEF Refuse, Abort, Goto, TypeOK
        <4> QED
          BY <4>1, <4>2 DEF CheckUser, CheckName
      <3> QED
        BY <2>2, <3>2, <3>5
    <2> QED
      BY <2>3, <2>4
  <1>3. ASSUME NEW q \in Request, Move(q), NEW u \in Users, NEW v \in Users' \ Users,
               users'[u].name = users'[v].name
        PROVE  {u, v} \subseteq Request /\ u \notin seen'[v] /\ v \notin seen'[u]
    <2>1. v \in Id \ Users /\ users'[v] # NULL
      BY <1>3 DEF Users
    <2>2. /\ v = q /\ Step(q) /\ users'[q].name = call[q].name
          /\ pc[q] \in {"create", "commitTenant", "commitMember"}
      BY <1>3, <2>1, UsersMove
    <2>3. users'[u].name = users[u].name
      BY <1>3, UsersMove
    <2>4. ~Early(u, q)
      BY <1>3, <2>2, <2>3 DEF NamesInv, Named
    <2>5. u \in Request /\ u \notin seen[q]
      BY <2>4 DEF Early, Before, Users, Id
    <2>6. seen' = seen /\ q \notin seen'[u]
      BY <1>3, <2>2, <2>5, Kept
    <2> QED
      BY <2>2, <2>5, <2>6
  <1>4. ASSUME NEW q \in Request, Move(q), NEW u \in Users, NEW v \in Users, u # v,
               users'[u].name = users'[v].name
        PROVE  {u, v} \subseteq Request /\ u \notin seen'[v] /\ v \notin seen'[u]
    <2>1. users'[u].name = users[u].name /\ users'[v].name = users[v].name
      BY <1>4, UsersMove
    <2>2. u \in Request /\ v \in Request /\ u \notin seen[v] /\ v \notin seen[u]
      BY <1>4, <2>1 DEF NamesInv, UsernamesCollideOnlyByOverlap, Before
    <2>3. pc[u] # "idle" /\ pc[v] # "idle"
      BY <2>2 DEF AccountsInv, Fresh, Over, Users
    <2>4. seen'[u] = seen[u] /\ seen'[v] = seen[v]
      BY <1>4, <2>2, <2>3, Kept
    <2> QED
      BY <2>2, <2>4
  <1>5. ASSUME NEW q \in Request, Move(q) PROVE NamesInv'
    <2>1. UsernamesCollideOnlyByOverlap'
      <3> SUFFICES ASSUME NEW u \in Users', NEW v \in Users', u # v,
                          users'[u].name = users'[v].name
                   PROVE  {u, v} \subseteq Request /\ u \notin seen'[v] /\ v \notin seen'[u]
        BY DEF UsernamesCollideOnlyByOverlap, Before
      <3>1. u \in Users \/ v \in Users
        <4>1. \A w \in Users' : w \in Users \/ w = q
          BY <1>5, UsersMove DEF Users
        <4> QED
          BY <4>1
      <3> QED
        BY <1>3, <1>4, <1>5, <3>1
    <2> QED
      BY <1>2, <1>5, <2>1 DEF NamesInv
  <1> QED
    BY <1>1, <1>5, StepsAreMoves

LEMMA NamesInvariant == Spec => []NamesInv
PROOF
  <1>1. Init => NamesInv
    <2> SUFFICES ASSUME Init PROVE NamesInv
      OBVIOUS
    <2>1. \A q \in Request : ~Named(q)
      BY DEF Init, Named
    <2>2. Users \subseteq Seed /\ users = Database.users
      BY DatabaseAssumption DEF Init, Users, Id, DatabaseAssumption
    <2>3. UsernamesCollideOnlyByOverlap
      BY <2>2, DatabaseAssumption
         DEF UsernamesCollideOnlyByOverlap, DatabaseAssumption, Users
    <2> QED
      BY <2>1, <2>3 DEF NamesInv
  <1> QED
    BY <1>1, NamesStep, AccountsInvariant, PTL DEF Spec

(* Two users have one name only if the requests that made them have        *)
(* overlapped: registration, onboarding and the acceptance of an           *)
(* invitation look for the name up to six statements before the user is    *)
(* committed, and no constraint of the table backs them.                   *)
THEOREM NamesCollideOnlyByOverlap == Spec => []UsernamesCollideOnlyByOverlap
PROOF
  BY NamesInvariant, PTL DEF NamesInv
-----------------------------------------------------------------------------
(* Invitations.                                                            *)

(* What was over when q came still is, and as it was.                      *)
LEMMA BeforeMove ==
  ASSUME AccountsInv, NEW m \in Request, Move(m), NEW p \in Request, NEW q \in Request,
         pc'[q] # "idle", Before(p, q)'
  PROVE  /\ Over(p) /\ pc'[p] = pc[p] /\ call'[p] = call[p] /\ seen'[p] = seen[p]
         /\ Op(p)' = Op(p)
         /\ Step(m) => p # m
         /\ IF pc[q] = "idle" THEN q = m /\ Arrive(q)
            ELSE Before(p, q) /\ call'[q] = call[q] /\ Op(q)' = Op(q)
PROOF
  <1>0. TypeOK
    BY DEF AccountsInv
  <1>1. CASE pc[q] = "idle"
    <2>1. q = m
      BY <1>1, Kept
    <2>2. Arrive(q)
      BY <1>0, <1>1, <2>1, PathMoves
    <2>3. Over(p)
      BY <1>0, <2>1, <2>2, ArriveAt DEF Before
    <2>4. pc[p] # "idle"
      BY <2>3 DEF Over
    <2> QED
      BY <1>1, <2>1, <2>2, <2>3, <2>4, Kept
  <1>2. CASE pc[q] # "idle"
    <2>1. p \in seen[q] /\ call'[q] = call[q] /\ Op(q)' = Op(q)
      BY <1>2, Kept DEF Before
    <2>2. Over(p)
      BY <2>1 DEF AccountsInv
    <2>3. pc[p] # "idle"
      BY <2>2 DEF Over
    <2> QED
      BY <1>2, <2>1, <2>2, <2>3, Kept DEF Before
  <1> QED
    BY <1>1, <1>2

Decisions == {"acceptInvitation", "rejectInvitation"}

(* A request decides an invitation for good, and finds it decided when it  *)
(* comes after the answer to the decision.                                 *)
DecisionInv ==
  /\ \A p \in Request : Asks(p, Decisions) /\ Decided(p) =>
       /\ invitations[call[p].id] # NULL
       /\ invitations[call[p].id].status # "pending"
  /\ \A p, q \in Request :
       /\ Asks(p, Decisions) /\ Decided(p) /\ Asks(q, Decisions)
       /\ Before(p, q) /\ call[p].id = call[q].id
       => pc[q] \in {"findInvitation", "failed"} /\ users[q] = NULL

LEMMA DecisionStep ==
  ASSUME AccountsInv, DecisionInv, [Next]_vars
  PROVE  DecisionInv'
PROOF
  <1>0. TypeOK
    BY DEF AccountsInv
  <1>1. CASE UNCHANGED vars
    BY <1>1 DEF DecisionInv, Decided, Asks, Before, Op, vars, accessVars, accounts, asked
  <1>2. ASSUME NEW m \in Request, Move(m), NEW p \in Request, Asks(p, Decisions)',
               Decided(p)'
        PROVE  /\ invitations'[call'[p].id] # NULL
               /\ invitations'[call'[p].id].status # "pending"
    <2>1. CASE pc[p] # "idle" /\ Decided(p)
      <3>1. call'[p] = call[p] /\ Op(p)' = Op(p) /\ Asks(p, Decisions)
        BY <1>2, <2>1, Kept DEF Asks
      <3>2. call[p].id \in Id
        BY <1>0, <2>1, <3>1, CallAt, CallFields DEF Asks, Decisions, Op
      <3> QED
        BY <1>2, <2>1, <3>1, <3>2, InvitationsMove DEF DecisionInv
    <2>2. CASE pc[p] # "idle" /\ ~Decided(p)
      <3>1. call'[p] = call[p] /\ Op(p)' = Op(p) /\ Op(p) \in Decisions
        BY <1>2, <2>2, Kept DEF Asks
      <3>2. p = m /\ Step(m) /\ pc[m] \in {"commitMember", "decline"}
        <4>1. CASE Op(p) = "acceptInvitation"
          <5>1. users[p] = NULL /\ users'[p] # NULL /\ p \in Id
            BY <1>2, <2>2, <3>1, <4>1 DEF Decided, Id
          <5>2. p \in Id \ Users
            BY <5>1 DEF Users
          <5>3. p = m /\ Step(m) /\ pc[m] \in {"create", "commitTenant", "commitMember"}
            BY <1>2, <5>1, <5>2, UsersMove
          <5>4. pc[m] = "commitMember"
            BY <1>0, <2>2, <4>1, <5>3, CallAt
          <5> QED
            BY <5>3, <5>4
        <4>2. CASE Op(p) = "rejectInvitation"
          <5>1. pc'[p] = "ok" /\ pc[p] # "ok"
            BY <1>2, <2>2, <3>1, <4>2 DEF Decided
          <5>2. p = m /\ Step(m) /\ pc[m] \notin {"idle", "ok", "failed"}
            BY <1>2, <5>1, MovesByStep DEF Starts
          <5>3. pc[m] \in {"findInvitation", "decline"}
            BY <1>0, <4>2, <5>2, CallAt, PathOf
          <5>4. pc[m] # "findInvitation"
            BY <1>0, <4>2, <5>1, <5>2, Onward
          <5> QED
            BY <5>2, <5>3, <5>4
        <4> QED
          BY <3>1, <4>1, <4>2 DEF Decisions
      <3>3. invitations[call[p].id] # NULL /\ call[p].id \in Id
        <4>1. call[p].id \in Id
          BY <1>0, <2>2, <3>1, CallAt, CallFields DEF Decisions, Op
        <4> QED
          BY <3>2, <4>1 DEF AccountsInv, StillFound
      <3> QED
        BY <1>2, <3>1, <3>2, <3>3, InvitationsMove
    <2>3. CASE pc[p] = "idle"
      <3>1. pc'[p] # "ok"
        BY <1>2, <2>3, Kept DEF Starts
      <3>2. users'[p] # NULL
        BY <1>2, <3>1 DEF Decided
      <3>3. p \in Id \ Users
        BY <2>3 DEF AccountsInv, Fresh, Over, Users, Id
      <3>4. p = m /\ Step(m)
        BY <1>2, <3>2, <3>3, UsersMove
      <3> QED
        BY <2>3, <3>4, StepAt
    <2> QED
      BY <2>1, <2>2, <2>3
  <1>3. ASSUME NEW m \in Request, Move(m), NEW p \in Request, NEW q \in Request,
               Asks(p, Decisions)', Decided(p)', Asks(q, Decisions)', Before(p, q)',
               call'[p].id = call'[q].id
        PROVE  pc'[q] \in {"findInvitation", "failed"} /\ users'[q] = NULL
    <2>1. pc'[q] # "idle"
      BY <1>3 DEF Asks
    <2>2. /\ Over(p) /\ pc'[p] = pc[p] /\ call'[p] = call[p] /\ Op(p)' = Op(p)
          /\ Step(m) => p # m
      BY <1>3, <2>1, BeforeMove
    <2>3. users[p] = NULL => users'[p] = NULL
      <3>1. p \in Id
        BY DEF Id
      <3> QED
        BY <1>3, <2>2, <3>1, UsersMove DEF Users
    <2>4. Asks(p, Decisions) /\ Decided(p)
      BY <1>3, <2>2, <2>3 DEF Asks, Decided, Over
    <2>5. users[q] = NULL /\ ~(Step(m) /\ m = q /\ pc[q] # "findInvitation") => users'[q] = NULL
      <3>1. q \in Id
        BY DEF Id
      <3> QED
        BY <1>3, <3>1, UsersMove DEF Users
    <2>6. CASE pc[q] = "idle"
      <3>1. q = m /\ Arrive(q)
        BY <1>3, <2>1, <2>6, BeforeMove
      <3>2. pc'[q] \in {"findInvitation", "failed"}
        BY <1>0, <1>3, <3>1, ArriveAt, PathOf DEF Asks, Op, Starts, Decisions
      <3>3. users[q] = NULL
        BY <2>6 DEF AccountsInv, Fresh, Over
      <3>4. ~Step(m)
        BY <2>6, <3>1, StepAt
      <3> QED
        BY <2>5, <3>2, <3>3, <3>4
    <2>7. CASE pc[q] # "idle"
      <3>1. Before(p, q) /\ call'[q] = call[q] /\ Op(q)' = Op(q)
        BY <1>3, <2>1, <2>7, BeforeMove
      <3>2. pc[q] \in {"findInvitation", "failed"} /\ users[q] = NULL
        BY <1>3, <2>2, <2>4, <2>7, <3>1 DEF DecisionInv, Asks
      <3>3. ~Open(call[q].id)
        <4>1. call[p].id = call[q].id
          BY <1>3, <2>2, <3>1
        <4>2. invitations[call[p].id].status # "pending"
          BY <2>4 DEF DecisionInv
        <4> QED
          BY <4>1, <4>2 DEF Open
      <3>4. Step(m) /\ m = q => pc[q] = "findInvitation" /\ pc'[q] = "failed"
        <4>1. Step(m) /\ m = q => pc[q] = "findInvitation"
          BY <3>2, StepAt
        <4>2. Step(m) /\ m = q => FindInvitation(q)
          BY <4>1, StepAt
        <4> QED
          BY <1>0, <3>3, <4>1, <4>2 DEF FindInvitation, Refuse, Abort, Goto, TypeOK
      <3>5. pc'[q] \in {"findInvitation", "failed"}
        <4>1. CASE pc'[q] = pc[q]
          BY <3>2, <4>1
        <4>2. CASE pc'[q] # pc[q] /\ pc'[q] # "failed"
          <5>1. m = q
            BY <1>3, <4>2, Kept
          <5>2. ~Arrive(q)
            BY <2>7 DEF Arrive
          <5>3. ~Fail(q)
            BY <1>0, <4>2 DEF Fail, Abort, Goto, TypeOK
          <5>4. ~Expire(q)
            BY <4>2 DEF Expire, accessVars
          <5> QED
            BY <1>3, <3>4, <4>2, <5>1, <5>2, <5>3, <5>4 DEF Move
        <4> QED
          BY <4>1, <4>2
      <3> QED
        BY <2>5, <3>2, <3>4, <3>5
    <2> QED
      BY <2>6, <2>7
  <1>4. ASSUME NEW m \in Request, Move(m) PROVE DecisionInv'
    BY <1>2, <1>3, <1>4 DEF DecisionInv
  <1> QED
    BY <1>1, <1>4, StepsAreMoves

LEMMA DecisionInvariant == Spec => []DecisionInv
PROOF
  <1>1. Init => DecisionInv
    BY DEF Init, DecisionInv, Asks
  <1> QED
    BY <1>1, DecisionStep, AccountsInvariant, PTL DEF Spec

(* An invitation is accepted or declined for good: a request that comes    *)
(* after the answer of the one that decided it does nothing, though the    *)
(* UPDATEs that record a decision do not ask for the status any more.      *)
THEOREM InvitationsAreDecidedOnce == Spec => []InvitationIsFinal
PROOF
  <1>1. ASSUME AccountsInv, DecisionInv, NEW p \in Request, NEW q \in Request,
               Asks(q, Decisions), Asks(p, Decisions), Before(p, q),
               call[p].id = call[q].id, Decided(p), Decided(q)
        PROVE  FALSE
    <2>1. pc[q] \in {"findInvitation", "failed"} /\ users[q] = NULL
      BY <1>1 DEF DecisionInv
    <2> QED
      BY <1>1, <2>1 DEF Decided
  <1>2. AccountsInv /\ DecisionInv => InvitationIsFinal
    BY <1>1 DEF InvitationIsFinal, Decisions
  <1> QED
    BY <1>2, AccountsInvariant, DecisionInvariant, PTL
-----------------------------------------------------------------------------
(* Password resets.                                                        *)

(* Token t was there when p came, is of user u and works no more.          *)
Useless(t, u, p) == resets[t] # NULL /\ resets[t].user = u /\ Early(t, p) => resets[t].used

(* resetPassword q asks for a token that p has spent or replaced.          *)
Superseded(p, q) ==
  /\ Asks(q, {"resetPassword"}) /\ Before(p, q)
  /\ \/ Asks(p, {"resetPassword"}) /\ pc[p] = "ok" /\ call[p].id = call[q].id
     \/ /\ resets[p] # NULL /\ call[q].id # p
        /\ resets[call[q].id] # NULL /\ resets[call[q].id].user = resets[p].user
        /\ Early(call[q].id, p)

TokensInv ==
  /\ \A p \in Request : Asks(p, {"resetPassword"}) /\ pc[p] = "ok" =>
       resets[call[p].id] # NULL /\ resets[call[p].id].used
  /\ \A p \in Request, t \in Id : pc[p] = "issue" => Useless(t, read[p], p)
  /\ \A p \in Request, t \in Id :
       resets[p] # NULL /\ t # p => Useless(t, resets[p].user, p)
  /\ \A p, q \in Request : Superseded(p, q) =>
       pc[q] \in {"findToken", "failed"} /\ \A u \in Users : users[u].password # q

(* A token that was there when p came is not the one a step issues.        *)
LEMMA NewTokensAreLate ==
  ASSUME AccountsInv, NEW q \in Request, Move(q), NEW t \in Id, resets'[t] # NULL,
         NEW p \in Request, Early(t, p)'
  PROVE  /\ resets[t] # NULL /\ resets'[t].user = resets[t].user
         /\ resets[t].used => resets'[t].used
         /\ pc[p] # "idle" => Early(t, p)
PROOF
  <1>1. resets[t] = NULL => t = q /\ Step(q)
    BY ResetsMove
  <1>2. t \in Seed \/ t \in seen'[p]
    BY DEF Early, Before
  <1>3. Step(q) => q \notin Seed /\ q \notin seen'[p]
    BY Kept
  <1>4. resets[t] # NULL
    BY <1>1, <1>2, <1>3
  <1>5. resets'[t].user = resets[t].user /\ (resets[t].used => resets'[t].used)
    BY <1>4, ResetsMove
  <1>6. pc[p] # "idle" => seen'[p] = seen[p]
    BY Kept
  <1> QED
    BY <1>2, <1>4, <1>5, <1>6 DEF Early, Before

LEMMA TokensStep ==
  ASSUME AccountsInv, TokensInv, [Next]_vars
  PROVE  TokensInv'
PROOF
  <1>0. TypeOK
    BY DEF AccountsInv
  <1>1. CASE UNCHANGED vars
    BY <1>1 DEF TokensInv, Useless, Superseded, Early, Asks, Before, Op, Users, vars,
       accessVars, accounts, asked, pending
  <1>2. ASSUME NEW m \in Request, Move(m), NEW p \in Request,
               Asks(p, {"resetPassword"})', pc'[p] = "ok"
        PROVE  resets'[call'[p].id] # NULL /\ resets'[call'[p].id].used
    <2>1. pc[p] # "idle"
      BY <1>2, Kept DEF Starts
    <2>2. call'[p] = call[p] /\ Op(p)' = Op(p) /\ Op(p) = "resetPassword"
      BY <1>2, <2>1, Kept DEF Asks
    <2>3. call[p].id \in Id
      BY <1>0, <2>1, <2>2, CallAt, CallFields DEF Op
    <2>4. CASE pc[p] = "ok"
      <3>1. Asks(p, {"resetPassword"})
        BY <2>1, <2>2 DEF Asks
      <3>2. resets[call[p].id] # NULL /\ resets[call[p].id].used
        BY <2>4, <3>1 DEF TokensInv
      <3> QED
        BY <1>2, <2>2, <2>3, <3>2, ResetsMove
    <2>5. CASE pc[p] # "ok"
      <3>1. p = m /\ Step(m) /\ pc[m] \notin {"idle", "ok", "failed"}
        BY <1>2, <2>5, MovesByStep DEF Starts
      <3>2. pc[m] \in {"findToken", "setPassword", "spend", "commitReset"}
        BY <1>0, <2>2, <3>1, CallAt, PathOf
      <3>3. pc[m] = "commitReset"
        BY <1>0, <1>2, <3>1, <3>2, Onward
      <3>4. resets[call[m].id] # NULL
        BY <3>3 DEF AccountsInv, StillFound
      <3> QED
        BY <1>2, <2>2, <2>3, <3>1, <3>3, <3>4, ResetsMove
    <2> QED
      BY <2>4, <2>5
  <1>3. ASSUME NEW m \in Request, Move(m), NEW p \in Request, NEW t \in Id,
               pc'[p] = "issue", resets'[t] # NULL, resets'[t].user = read'[p], Early(t, p)'
        PROVE  resets'[t].used
    <2>1. pc[p] # "idle"
      BY <1>3, Kept DEF Starts
    <2>2. /\ resets[t] # NULL /\ resets'[t].user = resets[t].user
          /\ resets[t].used => resets'[t].used
          /\ Early(t, p)
      BY <1>3, <2>1, NewTokensAreLate
    <2>3. CASE pc[p] = "issue"
      <3>1. p # m
        <4>1. p = m => ~Step(m)
          BY <1>0, <1>3, <2>3, Onward
        <4>2. p = m => ~Arrive(m) /\ ~Expire(m)
          BY <2>3 DEF Arrive, Expire
        <4>3. p = m => ~Fail(m)
          BY <1>0, <1>3 DEF Fail, Abort, Goto, TypeOK
        <4> QED
          BY <1>3, <4>1, <4>2, <4>3 DEF Move
      <3>2. read'[p] = read[p]
        BY <1>0, <1>3, <3>1, Others
      <3> QED
        BY <1>3, <2>2, <2>3, <3>2 DEF TokensInv, Useless
    <2>4. CASE pc[p] # "issue"
      <3>1. p = m /\ Step(m) /\ pc[m] \in (AccessPc \cup AccountPc) \ {"idle", "ok", "failed"}
        BY <1>3, <2>4, MovesByStep DEF Starts
      <3>2. pc[m] = "invalidate"
        BY <1>0, <1>3, <3>1, Onward DEF AccessPc, AccountPc
      <3>3. read' = read
        BY <3>1, <3>2, StepAt DEF Invalidate, pending
      <3> QED
        BY <1>3, <2>2, <3>1, <3>2, <3>3, ResetsMove
    <2> QED
      BY <2>3, <2>4
  <1>4. ASSUME NEW m \in Request, Move(m), NEW p \in Request, NEW t \in Id,
               resets'[p] # NULL, t # p, resets'[t] # NULL,
               resets'[t].user = resets'[p].user, Early(t, p)'
        PROVE  resets'[t].used
    <2>0. p \in Id
      BY DEF Id
    <2>1. CASE resets[p] # NULL
      <3>1. pc[p] # "idle"
        BY <2>1 DEF AccountsInv, Fresh, Over
      <3>2. /\ resets[t] # NULL /\ resets'[t].user = resets[t].user
            /\ resets[t].used => resets'[t].used
            /\ Early(t, p)
        BY <1>4, <3>1, NewTokensAreLate
      <3>3. resets'[p].user = resets[p].user
        BY <1>4, <2>0, <2>1, ResetsMove
      <3> QED
        BY <1>4, <2>1, <3>2, <3>3 DEF TokensInv, Useless
    <2>2. CASE resets[p] = NULL
      <3>1. p = m /\ Step(m) /\ pc[m] = "issue" /\ resets'[m].user = read[m]
        BY <1>4, <2>0, <2>2, ResetsMove
      <3>2. /\ resets[t] # NULL /\ resets'[t].user = resets[t].user
            /\ resets[t].used => resets'[t].used
            /\ Early(t, p)
        BY <1>4, <3>1, NewTokensAreLate
      <3> QED
        BY <1>4, <3>1, <3>2 DEF TokensInv, Useless
    <2> QED
      BY <2>1, <2>2
  <1>5. ASSUME NEW m \in Request, Move(m), NEW p \in Request, NEW q \in Request,
               Superseded(p, q)'
        PROVE  /\ pc'[q] \in {"findToken", "failed"}
               /\ \A u \in Users' : users'[u].password # q
    <2>1. pc'[q] # "idle" /\ Before(p, q)' /\ Asks(q, {"resetPassword"})'
      BY <1>5 DEF Superseded, Asks
    <2>2. /\ Over(p) /\ pc'[p] = pc[p] /\ call'[p] = call[p] /\ seen'[p] = seen[p]
          /\ Op(p)' = Op(p) /\ (Step(m) => p # m)
      BY <1>5, <2>1, BeforeMove
    <2>3. p \in Id /\ pc[p] # "idle"
      BY <2>2 DEF Id, Over
    <2>4. PICK t \in Id : t = call'[q].id
      <3>1. TypeOK'
        BY <1>5, TypeStep
      <3>2. call'[q] \in UNION Mix
        BY <2>1, <3>1 DEF TypeOK
      <3>3. call'[q].op = "resetPassword"
        BY <2>1 DEF Asks, Op
      <3> QED
        BY <3>2, <3>3, CallFields
    <2>5. /\ resets[t] # NULL /\ resets[t].used
          /\ \/ Asks(p, {"resetPassword"}) /\ pc[p] = "ok" /\ call[p].id = t
             \/ /\ resets[p] # NULL /\ t # p
                /\ resets[t].user = resets[p].user /\ Early(t, p)
      <3>1. CASE Asks(p, {"resetPassword"})' /\ pc'[p] = "ok" /\ call'[p].id = t
        <4>1. Asks(p, {"resetPassword"}) /\ pc[p] = "ok" /\ call[p].id = t
          BY <2>2, <2>3, <3>1 DEF Asks
        <4> QED
          BY <4>1 DEF TokensInv
      <3>2. CASE /\ resets'[p] # NULL /\ t # p /\ resets'[t] # NULL
                 /\ resets'[t].user = resets'[p].user /\ Early(t, p)'
        <4>1. resets[t] # NULL /\ resets'[t].user = resets[t].user /\ Early(t, p)
          BY <1>5, <2>3, <2>4, <3>2, NewTokensAreLate DEF Early, Before
        <4>2. resets[p] # NULL /\ resets'[p].user = resets[p].user
          BY <1>5, <2>2, <2>3, <3>2, ResetsMove
        <4>3. resets[t].used
          BY <2>4, <3>2, <4>1, <4>2 DEF TokensInv, Useless
        <4> QED
          BY <3>2, <4>1, <4>2, <4>3
      <3>3. \/ Asks(p, {"resetPassword"})' /\ pc'[p] = "ok" /\ call'[p].id = t
            \/ /\ resets'[p] # NULL /\ t # p /\ resets'[t] # NULL
               /\ resets'[t].user = resets'[p].user /\ Early(t, p)'
        BY <1>5, <2>4 DEF Superseded, Early, Before
      <3> QED
        BY <3>1, <3>2, <3>3
    <2>6. ASSUME \A u \in Users : users[u].password # q,
                 Step(m) /\ m = q => pc[q] = "findToken"
          PROVE  \A u \in Users' : users'[u].password # q
      <3>1. ASSUME NEW u \in Users' PROVE users'[u].password # q
        <4>0. u \in Id /\ users'[u] # NULL
          BY DEF Users
        <4>1. CASE u \in Users
          BY <1>5, <2>6, <4>1, UsersMove
        <4>2. CASE u \in Id \ Users
          BY <1>5, <2>6, <4>0, <4>2, UsersMove
        <4> QED
          BY <4>0, <4>1, <4>2
      <3> QED
        BY <3>1
    <2>7. CASE pc[q] = "idle"
      <3>1. q = m /\ Arrive(q)
        BY <1>5, <2>1, <2>7, BeforeMove
      <3>2. pc'[q] \in {"findToken", "failed"}
        BY <1>0, <2>1, <3>1, ArriveAt, PathOf DEF Asks, Op, Starts
      <3>3. \A u \in Users : users[u].password # q
        BY <2>7 DEF AccountsInv, Fresh, Over
      <3>4. ~Step(m)
        BY <2>7, <3>1, StepAt
      <3> QED
        BY <2>6, <3>2, <3>3, <3>4
    <2>8. CASE pc[q] # "idle"
      <3>1. Before(p, q) /\ call'[q] = call[q] /\ Op(q)' = Op(q)
        BY <1>5, <2>1, <2>8, BeforeMove
      <3>2. Superseded(p, q)
        BY <2>1, <2>4, <2>5, <2>8, <3>1 DEF Superseded, Asks
      <3>3. pc[q] \in {"findToken", "failed"} /\ \A u \in Users : users[u].password # q
        BY <3>2 DEF TokensInv
      <3>4. resets[call[q].id].used
        BY <2>4, <2>5, <3>1
      <3>5. Step(m) /\ m = q => pc[q] = "findToken" /\ pc'[q] = "failed"
        <4>1. Step(m) /\ m = q => pc[q] = "findToken"
          BY <3>3, StepAt
        <4>2. Step(m) /\ m = q => FindToken(q)
          BY <4>1, StepAt
        <4> QED
          BY <1>0, <3>4, <4>1, <4>2 DEF FindToken, Refuse, Abort, Goto, TypeOK
      <3>6. pc'[q] \in {"findToken", "failed"}
        <4>1. CASE pc'[q] = pc[q]
          BY <3>3, <4>1
        <4>2. CASE pc'[q] # pc[q] /\ pc'[q] # "failed"
          <5>1. m = q
            BY <1>5, <4>2, Kept
          <5>2. ~Arrive(q)
            BY <2>8 DEF Arrive
          <5>3. ~Fail(q)
            BY <1>0, <4>2 DEF Fail, Abort, Goto, TypeOK
          <5>4. ~Expire(q)
            BY <4>2 DEF Expire, accessVars
          <5> QED
            BY <1>5, <3>5, <4>2, <5>1, <5>2, <5>3, <5>4 DEF Move
        <4> QED
          BY <4>1, <4>2
      <3> QED
        BY <2>6, <3>3, <3>5, <3>6
    <2> QED
      BY <2>7, <2>8
  <1>6. ASSUME NEW m \in Request, Move(m) PROVE TokensInv'
    BY <1>2, <1>3, <1>4, <1>5, <1>6 DEF TokensInv, Useless
  <1> QED
    BY <1>1, <1>6, StepsAreMoves

LEMMA TokensInvariant == Spec => []TokensInv
PROOF
  <1>1. Init => TokensInv
    BY DatabaseAssumption DEF Init, TokensInv, Superseded, Asks, DatabaseAssumption
  <1> QED
    BY <1>1, TokensStep, AccountsInvariant, PTL DEF Spec

(* A token for a new password works once, and no more when another has     *)
(* been issued to its user: a resetPassword that comes after the answer of *)
(* the request that spent or replaced its token leaves all passwords as    *)
(* they are, though the UPDATE that spends it does not look at it again.   *)
THEOREM SpentTokensAreUseless == Spec => []SpentTokensStaySpent
PROOF
  <1>1. TokensInv => SpentTokensStaySpent
    <2> SUFFICES ASSUME TokensInv, NEW p \in Request, NEW q \in Request, Superseded(p, q)
                 PROVE  pc[q] # "ok" /\ \A u \in Users : users[u].password # q
      BY DEF SpentTokensStaySpent, Superseded, Early
    <2> QED
      BY DEF TokensInv
  <1> QED
    BY <1>1, TokensInvariant, PTL
-----------------------------------------------------------------------------
(* Role names.                                                             *)

(* updateRole has been asked for role r.                                   *)
Renamed(r) == \E p \in Request : Asks(p, {"updateRole"}) /\ call[p].id = r

(* Role r, which was there when q came, has a name that q is about to give *)
(* to a role it would clash with.                                          *)
Clashes(r, q) ==
  /\ rows.roles[r] # NULL /\ rows.roles[r].key = call[q].key
  /\ rows.roles[r].tenant \in {NewTenant(q), NULL}
  /\ Early(r, q)

RolesInv ==
  /\ \A q \in Request, r \in Id :
       pc[q] = "insert" /\ T(q) = "roles" /\ Clashes(r, q) => Renamed(r)
  /\ RoleNamesCollideOnlyByOverlap

LEMMA RenamedStays ==
  ASSUME AccountsInv, NEW m \in Request, Move(m), NEW r, Renamed(r)
  PROVE  Renamed(r)'
PROOF
  <1>1. PICK p \in Request : pc[p] # "idle" /\ Op(p) = "updateRole" /\ call[p].id = r
    BY DEF Renamed, Asks
  <1>2. call'[p] = call[p] /\ Op(p)' = Op(p)
    BY <1>1, Kept
  <1>3. pc'[p] # "idle"
    BY <1>1, Kept, PathMoves DEF AccountsInv
  <1> QED
    BY <1>1, <1>2, <1>3 DEF Renamed, Asks

(* A role keeps its name and its tenant but for updateRole, and one that   *)
(* was there when p came is not the one a step inserts.                    *)
LEMMA RoleChange ==
  ASSUME AccountsInv, NEW m \in Request, Move(m), NEW r \in Id, rows'.roles[r] # NULL
  PROVE  \/ rows'.roles[r] = rows.roles[r]
         \/ Renamed(r)'
         \/ /\ r = m /\ Step(m) /\ pc[m] = "insert" /\ T(m) = "roles"
            /\ rows'.roles[r].key = call[m].key /\ rows'.roles[r].tenant = NewTenant(m)
PROOF
  <1>0. TypeOK /\ "roles" \in Table
    BY DEF AccountsInv, Table
  <1>1. CASE rows'["roles"][r] # rows["roles"][r]
    <2>1. /\ Step(m) /\ T(m) = "roles"
          /\ \/ /\ pc[m] = "insert" /\ r = m
                /\ rows'["roles"][r].key = call[m].key
                /\ rows'["roles"][r].tenant = NewTenant(m)
             \/ pc[m] = "write" /\ r = call[m].id
      BY <1>0, <1>1, RowChange
    <2>2. ASSUME pc[m] = "write", r = call[m].id PROVE Renamed(r)'
      <3>1. Op(m) \in Updates
        BY <1>0, <2>2, CallAt
      <3>2. Op(m) = "updateRole"
        BY <2>1, <3>1 DEF T, TableOf, Updates
      <3>3. Renamed(r)
        BY <2>2, <3>2 DEF Renamed, Asks
      <3> QED
        BY <3>3, RenamedStays
    <2> QED
      BY <2>1, <2>2
  <1> QED
    BY <1>1

LEMMA RolesStep ==
  ASSUME AccountsInv, RolesInv, [Next]_vars
  PROVE  RolesInv'
PROOF
  <1>0. TypeOK
    BY DEF AccountsInv
  <1>1. CASE UNCHANGED vars
    BY <1>1 DEF RolesInv, Clashes, Renamed, RoleNamesCollideOnlyByOverlap, Early, Asks,
       Before, NewTenant, T, Op, vars, accessVars, data, asked, pending
  <1>2. ASSUME NEW m \in Request, Move(m), NEW q \in Request, NEW r \in Id,
               pc'[q] = "insert", T(q)' = "roles", Clashes(r, q)'
        PROVE  Renamed(r)'
    <2>1. pc[q] # "idle"
      <3>1. pc[q] = "idle" => q = m /\ Arrive(q)
        BY <1>0, <1>2, Kept, PathMoves
      <3>2. pc[q] = "idle" => call'[q] \in UNION Mix /\ pc'[q] = FirstStep(call'[q])
        BY <1>0, <1>2, <3>1, ArriveAt DEF Arrive, Goto, TypeOK
      <3>3. \A c \in UNION Mix : FirstStep(c) = "insert" =>
              c.op \in {"createFeature", "createMenuPermission"}
        BY CallFields DEF FirstStep, AccessFirst, AccountFirst, Path
      <3>4. pc[q] = "idle" => Op(q)' \in {"createFeature", "createMenuPermission"}
        BY <1>2, <3>2, <3>3 DEF Op
      <3>5. T(q)' = TableOf[Op(q)']
        BY DEF T
      <3> QED
        BY <1>2, <3>4, <3>5 DEF TableOf
    <2>2. /\ call'[q] = call[q] /\ Op(q)' = Op(q) /\ seen'[q] = seen[q] /\ T(q)' = T(q)
      BY <1>2, <2>1, Kept DEF T
    <2>3. /\ rows'.roles[r] # NULL /\ rows'.roles[r].key = call[q].key /\ Early(r, q)
          /\ rows'.roles[r].tenant \in {NewTenant(q)', NULL}
      BY <1>2, <2>2 DEF Clashes, Early, Before
    <2>4. ~(r = m /\ Step(m))
      BY <1>2, <2>3, <2>2, Kept DEF Early, Before
    <2>5. \/ rows'.roles[r] = rows.roles[r]
          \/ Renamed(r)'
      BY <1>2, <2>3, <2>4, RoleChange
    <2>6. CASE pc[q] = "insert" /\ rows'.roles[r] = rows.roles[r]
      <3>1. q # m
        <4>1. q = m => ~Step(m)
          BY <1>0, <1>2, <2>6, Onward
        <4>2. q = m => ~Arrive(m) /\ ~Expire(m)
          BY <2>6 DEF Arrive, Expire
        <4>3. q = m => ~Fail(m)
          BY <1>0, <1>2 DEF Fail, Abort, Goto, TypeOK
        <4> QED
          BY <1>2, <4>1, <4>2, <4>3 DEF Move
      <3>2. NewTenant(q)' = NewTenant(q)
        BY <1>0, <1>2, <2>2, <3>1, Others DEF NewTenant
      <3>3. Clashes(r, q) /\ T(q) = "roles"
        BY <1>2, <2>2, <2>3, <2>6, <3>2 DEF Clashes
      <3>4. Renamed(r)
        BY <2>6, <3>3 DEF RolesInv
      <3> QED
        BY <1>2, <3>4, RenamedStays
    <2>7. CASE pc[q] # "insert" /\ rows'.roles[r] = rows.roles[r]
      <3>1. q = m /\ Step(q) /\ pc[q] \in (AccessPc \cup AccountPc) \ {"idle", "ok", "failed"}
        <4>1. q = m
          BY <1>2, <2>7, Kept
        <4>2. ~Arrive(q)
          BY <2>1 DEF Arrive
        <4>3. ~Fail(q)
          BY <1>0, <1>2 DEF Fail, Abort, Goto, TypeOK
        <4>4. ~Expire(q)
          BY <1>2, <2>7 DEF Expire, accessVars
        <4> QED
          BY <1>0, <1>2, <4>1, <4>2, <4>3, <4>4, StepAt DEF Move, TypeOK
      <3>2. pc[q] = "unique"
        BY <1>0, <1>2, <3>1, Onward DEF AccessPc, AccountPc
      <3>3. Unique(q)
        BY <3>1, <3>2, StepAt DEF AccessPc
      <3>4. /\ ~Taken(q, call[q].key, NewTenant(q)) /\ read' = read
        BY <1>0, <1>2, <3>3 DEF Unique, Abort, Goto, TypeOK, pending
      <3>5. NewTenant(q)' = NewTenant(q)
        BY <2>2, <3>4 DEF NewTenant
      <3>6. T(q) = "roles" /\ Op(q) # "updatePermission"
        BY <1>2, <2>2 DEF T, TableOf
      <3> QED
        BY <2>3, <2>7, <3>4, <3>5, <3>6 DEF Taken
    <2> QED
      BY <2>5, <2>6, <2>7
  <1>3. ASSUME NEW m \in Request, Move(m), NEW r \in Id, NEW q \in Request, r # q,
               rows'.roles[r] # NULL, rows'.roles[q] # NULL,
               rows'.roles[r].key = rows'.roles[q].key,
               rows'.roles[r].tenant \in {rows'.roles[q].tenant, NULL}, Early(r, q)'
        PROVE  Renamed(r)' \/ Renamed(q)'
    <2>0. q \in Id
      BY DEF Id
    <2>1. ~(r = m /\ Step(m))
      BY <1>3, Kept DEF Early, Before
    <2>2. CASE Renamed(r)' \/ Renamed(q)'
      BY <2>2
    <2>3. CASE rows'.roles[r] = rows.roles[r] /\ rows'.roles[q] = rows.roles[q]
      <3>1. Inserted(q)
        BY <1>3, <2>3 DEF AccountsInv, Fresh, Table
      <3>2. pc[q] # "idle"
        BY <3>1 DEF Inserted, Over
      <3>3. Early(r, q)
        BY <1>3, <3>2, Kept DEF Early, Before
      <3>4. Renamed(r) \/ Renamed(q)
        <4>1. PICK p \in Request : Asks(p, {"updateRole"}) /\ call[p].id \in {r, q}
          BY <1>3, <2>3, <3>3 DEF RolesInv, RoleNamesCollideOnlyByOverlap, Early
        <4> QED
          BY <4>1 DEF Renamed
      <3> QED
        BY <1>3, <3>4, RenamedStays
    <2>4. CASE /\ rows'.roles[r] = rows.roles[r]
               /\ q = m /\ Step(m) /\ pc[m] = "insert" /\ T(m) = "roles"
               /\ rows'.roles[q].key = call[m].key /\ rows'.roles[q].tenant = NewTenant(m)
      <3>1. seen' = seen
        BY <1>3, <2>4, Kept
      <3>2. Clashes(r, q)
        BY <1>3, <2>4, <3>1 DEF Clashes, Early, Before
      <3>3. Renamed(r)
        BY <2>4, <3>2 DEF RolesInv
      <3> QED
        BY <1>3, <3>3, RenamedStays
    <2> QED
      BY <1>3, <2>0, <2>1, <2>2, <2>3, <2>4, RoleChange
  <1>4. ASSUME NEW m \in Request, Move(m) PROVE RolesInv'
    <2>1. RoleNamesCollideOnlyByOverlap'
      <3>1. ASSUME NEW r \in Id, NEW q \in Request, r # q,
                   rows'.roles[r] # NULL, rows'.roles[q] # NULL,
                   rows'.roles[r].key = rows'.roles[q].key,
                   rows'.roles[r].tenant \in {rows'.roles[q].tenant, NULL},
                   r \in Seed \/ Before(r, q)'
            PROVE  \E p \in Request : Asks(p, {"updateRole"})' /\ call'[p].id \in {r, q}
        <4>1. Early(r, q)'
          BY <3>1 DEF Early
        <4>2. Renamed(r)' \/ Renamed(q)'
          BY <1>3, <1>4, <3>1, <4>1
        <4> QED
          BY <4>2 DEF Renamed
      <3> QED
        BY <3>1 DEF RoleNamesCollideOnlyByOverlap
    <2> QED
      BY <1>2, <1>4, <2>1 DEF RolesInv
  <1> QED
    BY <1>1, <1>4, StepsAreMoves

LEMMA RolesInvariant == Spec => []RolesInv
PROOF
  <1>1. Init => RolesInv
    <2> SUFFICES ASSUME Init PROVE RolesInv
      OBVIOUS
    <2>1. \A q \in Request : rows.roles[q] = NULL /\ pc[q] = "idle"
      BY DatabaseAssumption DEF Init, DatabaseAssumption, Table
    <2> QED
      BY <2>1 DEF RolesInv, RoleNamesCollideOnlyByOverlap
  <1> QED
    BY <1>1, RolesStep, AccountsInvariant, PTL DEF Spec

(* createRole and cloneRole give no role a name that a role of the same or *)
(* of no tenant had when they came, unless updateRole, which does not look,*)
(* has renamed one of the two: the look-up and the INSERT are two          *)
(* statements.                                                             *)
THEOREM RoleNamesAreLookedUp == Spec => []RoleNamesCollideOnlyByOverlap
PROOF
  BY RolesInvariant, PTL DEF RolesInv
-----------------------------------------------------------------------------
(* Accounts implements AccountLedger.                                      *)

(* A user that was there has the role it came with only if it had it: what *)
(* a request links itself to it, it has inserted together with the link.   *)
LEMMA EnrolledMove ==
  ASSUME AccountsInv, NEW q \in Request, Move(q)
  PROVE  /\ Users' = Users => Enrolled' \subseteq Enrolled
         /\ Users' = Users /\ links' = links => Enrolled' = Enrolled
PROOF
  <1>1. Step(q) => q \notin Users
    BY Kept DEF AccountsInv, Fresh, Users
  <1>2. ASSUME Users' = Users, NEW u \in Enrolled' PROVE u \in Enrolled
    <2>1. u \in Users /\ \E l \in links' : l.in = "userRoles" /\ l.from = u /\ l.by = u
      BY <1>2 DEF Enrolled
    <2>2. PICK l \in links' : l.in = "userRoles" /\ l.from = u /\ l.by = u
      BY <2>1
    <2>3. l \in links
      BY <1>1, <2>1, <2>2, LinksMove
    <2> QED
      BY <2>1, <2>2, <2>3 DEF Enrolled
  <1>3. Users' = Users /\ links' = links => Enrolled' = Enrolled
    BY DEF Enrolled
  <1> QED
    BY <1>2, <1>3

(* The user that a step inserts is new, and so is its role.                *)
LEMMA UserAdded ==
  ASSUME AccountsInv, NEW q \in Request, Step(q), NEW e \in Key, NEW n \in Key,
         NEW t \in OrNone(Id), NEW y \in UserType,
         users' = [users EXCEPT ![q] = Row0(e, n, t, y, q)]
  PROVE  /\ Ledger!Added(q, t)
         /\ links' = links => Enrolled' = Enrolled
         /\ \A R : R # {} /\ links' = links \cup {UserRole(q, r) : r \in R}
                   => Enrolled' = Enrolled \cup {q}
PROOF
  <1>0. /\ users \in [Id -> OrNone(UserRow)] /\ q \in Id /\ NULL \notin UserRow
    BY DatabaseAssumption DEF AccountsInv, TypeOK, Id, DatabaseAssumption
  <1>1. ~Over(q)
    BY Kept DEF Move
  <1>2. users[q] = NULL /\ \A l \in links : l.by # q
    BY <1>1 DEF AccountsInv, Fresh
  <1> DEFINE new == Row0(e, n, t, y, q)
  <1>3. new \in UserRow /\ new.tenant = t /\ new.logins = 0
    BY <1>0 DEF Row0, UserRow
  <1>4. new # NULL
    BY <1>0, <1>3
  <1>5. users' = [users EXCEPT ![q] = new]
    OBVIOUS
  <1> HIDE DEF new
  <1>6. users'[q] = new /\ \A u \in Id \ {q} : users'[u] = users[u]
    BY <1>0, <1>5
  <1>7. Ledger!Added(q, t)
    BY <1>2, <1>3, <1>4, <1>6 DEF Ledger!Added, Ledger!OnlyAt
  <1>8. Users' = Users \cup {q} /\ q \notin Users
    BY <1>0, <1>2, <1>4, <1>6 DEF Users
  <1>9. links' = links => Enrolled' = Enrolled
    BY <1>2, <1>8 DEF Enrolled
  <1>10. ASSUME NEW R, R # {}, links' = links \cup {UserRole(q, r) : r \in R}
         PROVE  Enrolled' = Enrolled \cup {q}
    <2>1. \A r : /\ UserRole(q, r).in = "userRoles" /\ UserRole(q, r).from = q
                 /\ UserRole(q, r).by = q
      BY DEF UserRole
    <2>2. PICK r \in R : TRUE
      BY <1>10
    <2>3. UserRole(q, r) \in links'
      BY <1>10
    <2>4. q \in Enrolled'
      BY <1>8, <2>1, <2>3 DEF Enrolled
    <2>5. \A l \in links' : l \in links \/ l.by = q
      BY <1>10, <2>1
    <2>6. links \subseteq links'
      BY <1>10
    <2>7. \A u \in Users : u \in Enrolled' <=> u \in Enrolled
      BY <1>8, <2>5, <2>6 DEF Enrolled
    <2>8. Enrolled \subseteq Users /\ Enrolled' \subseteq Users'
      BY DEF Enrolled
    <2> QED
      BY <1>8, <2>4, <2>7, <2>8
  <1> QED
    BY <1>7, <1>9, <1>10

LEMMA ExpiryMaps ==
  ASSUME AccountsInv, NEW q \in Request, Expire(q)
  PROVE  Ledger!Expire
PROOF
  <1>1. call[q].id \in Id
    BY CallAt, CallFields DEF AccountsInv, Expire, Op
  <1>2. Enrolled' = Enrolled
    BY DEF Expire, Enrolled, Users, accessVars, data
  <1> QED
    BY <1>1, <1>2 DEF Expire, Ledger!Expire, accessVars, data

(* A step that leaves the ledger alone, but perhaps for the links.         *)
LEMMA ReassignMaps ==
  ASSUME AccountsInv, NEW q \in Request, Move(q),
         UNCHANGED <<tenants, users, firms, branches, invitations, resets>>
  PROVE  Ledger!Reassign
PROOF
  BY EnrolledMove DEF Users, Ledger!Reassign

LEMMA StepMaps ==
  ASSUME AccountsInv, NEW q \in Request, Step(q)
  PROVE  Ledger!Next
PROOF
  <1>0. TypeOK /\ q \in Id /\ Move(q)
    BY DEF AccountsInv, Id, Move
  <1>1. CASE pc[q] = "create"
    <2>1. call[q].email \in Key /\ call[q].name \in Key
      BY <1>0, <1>1, CallAt, CallFields DEF Op
    <2>2. /\ users' = [users EXCEPT ![q] =
                         Row0(call[q].email, call[q].name, NULL, "TENANT_USER", q)]
          /\ UNCHANGED <<links, tenants, firms, branches, invitations, resets>>
      BY <1>1, StepAt DEF Create, data
    <2>3. Ledger!Added(q, NULL) /\ Enrolled' = Enrolled
      BY <2>1, <2>2, UserAdded DEF OrNone, UserType
    <2> QED
      BY <1>0, <2>2, <2>3 DEF Ledger!Join, Ledger!Next
  <1>2. CASE pc[q] = "commitTenant"
    <2>1. call[q].email \in Key /\ call[q].name \in Key
      BY <1>0, <1>2, CallAt, CallFields DEF Op
    <2>2. /\ tenants' = [tenants EXCEPT ![q] = [active |-> TRUE, plan |-> read[q]]]
          /\ users' = [users EXCEPT ![q] =
                         Row0(call[q].email, call[q].name, q, "TENANT_ADMIN", q)]
          /\ links' = links \cup {UserRole(q, r) : r \in items[q]}
          /\ firms' = [firms EXCEPT ![q] = [tenant |-> q]]
          /\ branches' = [branches EXCEPT ![q] = [firm |-> q]]
          /\ UNCHANGED <<invitations, resets>>
      BY <1>2, StepAt DEF CommitTenant
    <2>3. items[q] # {}
      BY <1>2 DEF AccountsInv, StillFound
    <2>4. Ledger!Added(q, q) /\ Enrolled' = Enrolled \cup {q}
      BY <1>0, <2>1, <2>2, <2>3, UserAdded DEF OrNone, UserType
    <2>5. tenants[q] = NULL
      BY <1>2 DEF AccountsInv, Fresh, Over
    <2>6. tenants'[q] # NULL /\ tenants'[q].active /\ Ledger!OnlyAt(tenants, tenants', q)
      <3> DEFINE new == [active |-> TRUE, plan |-> read[q]]
      <3>1. new \in TenantRow /\ new.active
        BY <1>0 DEF TenantRow, TypeOK
      <3>2. new # NULL /\ tenants \in [Id -> OrNone(TenantRow)]
        BY <1>0, <3>1, DatabaseAssumption DEF DatabaseAssumption, TypeOK
      <3>3. tenants' = [tenants EXCEPT ![q] = new]
        BY <2>2
      <3> HIDE DEF new
      <3> QED
        BY <1>0, <3>1, <3>2, <3>3 DEF Ledger!OnlyAt
    <2> QED
      BY <1>0, <2>2, <2>4, <2>5, <2>6 DEF Ledger!Onboard, Ledger!Next
  <1>3. CASE pc[q] = "commitMember"
    <2> DEFINE i == call[q].id
    <2>1. i \in Id /\ call[q].name \in Key
      BY <1>0, <1>3, CallAt, CallFields DEF Op
    <2>2. invitations[i] # NULL
      BY <1>3 DEF AccountsInv, StillFound
    <2>3. invitations[i] \in InvitationRow
      BY <1>0, <2>1, <2>2 DEF TypeOK, OrNone
    <2>4. /\ invitations[i].email \in Key /\ invitations[i].tenant \in OrNone(Id)
          /\ invitations[i].type \in UserType
      BY <2>3 DEF InvitationRow, OrNone
    <2>5. /\ users' = [users EXCEPT ![q] =
                         Row0(invitations[i].email, call[q].name, invitations[i].tenant,
                              invitations[i].type, q)]
          /\ links' = links \cup {UserRole(q, invitations[i].role)}
          /\ invitations' = [invitations EXCEPT ![i].status = "accepted"]
          /\ UNCHANGED <<tenants, firms, branches, resets>>
      BY <1>3, StepAt DEF CommitMember
    <2>6. links' = links \cup {UserRole(q, r) : r \in {invitations[i].role}}
      BY <2>5
    <2>7. {invitations[i].role} # {}
      OBVIOUS
    <2> HIDE DEF i
    <2>8. Ledger!Added(q, invitations[i].tenant) /\ Enrolled' = Enrolled \cup {q}
      BY <2>1, <2>4, <2>5, <2>6, <2>7, UserAdded
    <2>9. Ledger!Accept(i, q)
      BY <2>2, <2>5, <2>8 DEF Ledger!Accept, Ledger!Decide
    <2> QED
      BY <1>0, <2>1, <2>9 DEF Ledger!Next
  <1>4. CASE pc[q] = "countLogin"
    <2>1. read[q] \in Users /\ read[q] \in Id /\ users[read[q]] # NULL
      BY <1>4 DEF AccountsInv, StillFound, Users
    <2>2. /\ users' = [users EXCEPT ![read[q]].logins = @ + 1]
          /\ UNCHANGED <<links, tenants, firms, branches, invitations, resets>>
      BY <1>4, StepAt DEF CountLogin, data
    <2>3. Users' = Users
      BY <1>0, <1>4, UsersMove DEF Users
    <2>4. Enrolled' = Enrolled
      BY <1>0, <2>2, <2>3, EnrolledMove
    <2> QED
      BY <2>1, <2>2, <2>4 DEF Ledger!Login, Ledger!Next
  <1>5. CASE pc[q] = "commitReset"
    <2> DEFINE t == call[q].id
               u == read[q]
    <2>1. t \in Id
      BY <1>0, <1>5, CallAt, CallFields DEF Op
    <2>2. resets[t] # NULL /\ resets[t].user = u /\ u \in Users
      BY <1>5 DEF AccountsInv, StillFound
    <2>3. /\ users' = [users EXCEPT ![u].password = q]
          /\ resets' = [resets EXCEPT ![t].used = TRUE]
          /\ UNCHANGED <<links, tenants, firms, branches, invitations>>
      BY <1>5, StepAt DEF CommitReset, data
    <2>4. Users' = Users
      BY <1>0, <1>5, UsersMove DEF Users
    <2>5. Enrolled' = Enrolled
      BY <1>0, <2>3, <2>4, EnrolledMove
    <2>6. users[u] \in UserRow /\ u \in Id /\ users[u] # NULL /\ users'[u] # NULL
      BY <1>0, <2>2, <2>4 DEF TypeOK, Users, OrNone
    <2> HIDE DEF t, u
    <2>7. users'[u].password = q
      <3> DEFINE new == [users[u] EXCEPT !.password = q]
      <3>1. new.password = q
        BY <2>6 DEF UserRow
      <3>2. users'[u] = new
        BY <1>0, <2>3, <2>6 DEF TypeOK
      <3> QED
        BY <3>1, <3>2
    <2>8. Ledger!Redeem(t)
      BY <2>2, <2>3, <2>5, <2>6, <2>7 DEF Ledger!Redeem
    <2> QED
      BY <2>1, <2>8 DEF Ledger!Next
  <1>6. CASE pc[q] = "invite"
    <2> DEFINE new == [email |-> call[q].email, tenant |-> call[q].as.tenant,
                       role |-> call[q].role, type |-> call[q].type, status |-> "pending",
                       expired |-> FALSE]
    <2>1. invitations[q] = NULL
      BY <1>6 DEF AccountsInv, Fresh, Over
    <2>2. /\ invitations' = [invitations EXCEPT ![q] = new]
          /\ UNCHANGED <<links, tenants, users, firms, branches, resets>>
      BY <1>6, StepAt DEF Invite, data
    <2>3. invitations' \in [Id -> OrNone(InvitationRow)] /\ invitations'[q] = new
      BY <1>0, <2>2, InvitationsMove DEF TypeOK
    <2>4. new \in InvitationRow /\ new.status = "pending"
      <3>1. call[q].as.tenant \in Id
        BY <1>0, <1>6, CallAt, CallFields DEF AccountsInv, StillFound, Caller
      <3> QED
        BY <1>0, <1>6, <3>1, CallAt, CallFields DEF InvitationRow, Op
    <2> HIDE DEF new
    <2>5. new # NULL
      BY <2>4, DatabaseAssumption DEF DatabaseAssumption
    <2>6. Enrolled' = Enrolled
      BY <2>2 DEF Enrolled, Users
    <2>7. Ledger!OnlyAt(invitations, invitations', q)
      BY <1>0, <2>2 DEF Ledger!OnlyAt, TypeOK
    <2> QED
      BY <1>0, <2>1, <2>2, <2>3, <2>4, <2>5, <2>6, <2>7 DEF Ledger!Invite, Ledger!Next
  <1>7. CASE pc[q] = "decline"
    <2>1. call[q].id \in Id /\ invitations[call[q].id] # NULL
      BY <1>0, <1>7, CallAt, CallFields DEF Op, AccountsInv, StillFound
    <2>2. /\ invitations' = [invitations EXCEPT ![call[q].id].status = "declined"]
          /\ UNCHANGED <<links, tenants, users, firms, branches, resets>>
      BY <1>7, StepAt DEF Decline, data
    <2>3. Enrolled' = Enrolled
      BY <2>2 DEF Enrolled, Users
    <2>4. Ledger!Decline(call[q].id)
      BY <2>1, <2>2, <2>3 DEF Ledger!Decline, Ledger!Decide
    <2> QED
      BY <2>1, <2>4 DEF Ledger!Next
  <1>8. CASE pc[q] = "invalidate"
    <2>1. read[q] \in Id
      BY <1>8 DEF AccountsInv, StillFound, Users
    <2>2. /\ resets' = [t \in Id |-> IF resets[t] # NULL /\ resets[t].user = read[q]
                                     THEN [resets[t] EXCEPT !.used = TRUE] ELSE resets[t]]
          /\ UNCHANGED <<links, tenants, users, firms, branches, invitations>>
      BY <1>8, StepAt DEF Invalidate, data
    <2>3. Enrolled' = Enrolled
      BY <2>2 DEF Enrolled, Users
    <2>4. Ledger!Revoke(read[q])
      BY <2>2, <2>3 DEF Ledger!Revoke
    <2> QED
      BY <2>1, <2>4 DEF Ledger!Next
  <1>9. CASE pc[q] = "issue"
    <2> DEFINE new == [user |-> read[q], used |-> FALSE, expired |-> FALSE]
    <2>1. resets[q] = NULL
      BY <1>9 DEF AccountsInv, Fresh, Over
    <2>2. /\ resets' = [resets EXCEPT ![q] = new]
          /\ UNCHANGED <<links, tenants, users, firms, branches, invitations>>
      BY <1>9, StepAt DEF Issue, data
    <2>3. new \in ResetRow /\ ~new.used
      BY <1>9 DEF AccountsInv, StillFound, Users, ResetRow
    <2> HIDE DEF new
    <2>4. new # NULL
      BY <2>3, DatabaseAssumption DEF DatabaseAssumption
    <2>5. Enrolled' = Enrolled
      BY <2>2 DEF Enrolled, Users
    <2>6. resets'[q] = new /\ Ledger!OnlyAt(resets, resets', q)
      BY <1>0, <2>2 DEF Ledger!OnlyAt, TypeOK
    <2> QED
      BY <1>0, <2>1, <2>2, <2>3, <2>4, <2>5, <2>6 DEF Ledger!Issue, Ledger!Next
  <1>10. CASE pc[q] = "writeTenant"
    <2> DEFINE new == [active |-> IF Op(q) \in {"updateTenant", "assignPlan"}
                                  THEN tenants[call[q].id].active
                                  ELSE Op(q) = "activateTenant",
                       plan |-> IF Op(q) = "assignPlan" THEN call[q].plan
                                ELSE tenants[call[q].id].plan]
    <2>1. call[q].id \in Id /\ tenants[call[q].id] # NULL
      BY <1>0, <1>10, CallAt, CallFields DEF Op, AccountsInv, StillFound
    <2>2. /\ tenants' = [tenants EXCEPT ![call[q].id] = new]
          /\ UNCHANGED <<links, users, firms, branches, invitations, resets>>
      BY <1>10, StepAt DEF WriteTenant, accounts
    <2> HIDE DEF new
    <2>3. tenants'[call[q].id] # NULL
      BY <1>0, <2>1, TenantsMove
    <2>4. Ledger!OnlyAt(tenants, tenants', call[q].id)
      BY <1>0, <2>2 DEF Ledger!OnlyAt, TypeOK
    <2>5. Enrolled' = Enrolled
      BY <2>2 DEF Enrolled, Users
    <2>6. Ledger!SetTenant(call[q].id)
      BY <2>1, <2>2, <2>3, <2>4, <2>5 DEF Ledger!SetTenant
    <2> QED
      BY <2>1, <2>6 DEF Ledger!Next
  <1>11. CASE pc[q] \notin {"create", "commitTenant", "commitMember", "countLogin",
                            "commitReset", "invite", "decline", "invalidate", "issue",
                            "writeTenant"}
    <2>1. CASE Expire(q)
      BY <2>1, ExpiryMaps DEF Ledger!Next
    <2>2. CASE ~Expire(q)
      <3>1. UNCHANGED <<tenants, users, firms, branches, invitations, resets>>
        BY <1>0, <1>11, <2>2, Writers
      <3> QED
        BY <1>0, <3>1, ReassignMaps DEF Ledger!Next
    <2> QED
      BY <2>1, <2>2
  <1> QED
    BY <1>1, <1>2, <1>3, <1>4, <1>5, <1>6, <1>7, <1>8, <1>9, <1>10, <1>11

LEMMA MoveMaps ==
  ASSUME AccountsInv, [Next]_vars
  PROVE  [Ledger!Next]_(Ledger!ledger)
PROOF
  <1>1. CASE UNCHANGED vars
    BY <1>1 DEF vars, accessVars, data, accounts, Enrolled, Users, Ledger!ledger
  <1>2. ASSUME NEW q \in Request, Move(q) PROVE Ledger!Next
    <2>1. CASE Arrive(q) \/ Fail(q)
      <3>1. UNCHANGED <<tenants, users, firms, branches, invitations, resets>>
        BY <2>1 DEF Arrive, Fail, Abort, data, accounts
      <3> QED
        BY <1>2, <3>1, ReassignMaps DEF Ledger!Next
    <2>2. CASE Step(q)
      BY <2>2, StepMaps
    <2>3. CASE Expire(q)
      BY <2>3, ExpiryMaps DEF Ledger!Next
    <2> QED
      BY <1>2, <2>1, <2>2, <2>3 DEF Move
  <1> QED
    BY <1>1, <1>2, StepsAreMoves

(* Whatever overlaps, fails or is rolled back, every step is one of the    *)
(* AccountLedger's: a tenant comes with its administrator, the             *)
(* administrator's role, a firm and a branch in one step, a member with    *)
(* its role and the invitation's acceptance, a password with the token     *)
(* that is spent for it, and no role is handed back to a user.             *)
THEOREM AccountsImplementLedger == Spec => LedgerSpec
PROOF
  <1>1. Init => Ledger!Init
    BY DEF Ledger!Init
  <1> QED
    BY <1>1, MoveMaps, AccountsInvariant, PTL DEF Spec, LedgerSpec, Ledger!Spec
=============================================================================
