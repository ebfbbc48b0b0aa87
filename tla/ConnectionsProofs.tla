--------------------------- MODULE ConnectionsProofs ---------------------------
(***************************************************************************)
(* What holds of the connection pools for every set of requests, every     *)
(* size of the pools, and with one or several databases.                   *)
(***************************************************************************)
EXTENDS Connections, FiniteSetTheorems, TLAPS

(* The steps that are left of a program.                                   *)
Steps(t) == {t[i] : i \in 1 .. Len(t)}

(* What a request may have left to do: a program from one of its steps on, *)
(* or the recovery from an error.                                          *)
Plans ==
  {<<>>,
   <<"statement">>,
   <<"statement", "log">>, <<"log">>,
   <<"begin", "work", "commit">>, <<"work", "commit">>, <<"commit">>,
   <<"statement", "begin", "work", "commit", "log">>,
   <<"begin", "work", "commit", "log">>, <<"work", "commit", "log">>,
   <<"commit", "log">>,
   <<"statement", "begin", "work", "log", "commit">>,
   <<"begin", "work", "log", "commit">>, <<"work", "log", "commit">>,
   <<"log", "commit">>,
   <<"mainTest", "logsTest">>, <<"logsTest">>,
   <<"rollback", "errorLog">>, <<"errorLog">>}

(* The transaction of the program has begun and is not over.               *)
HasBegun(t) == "begin" \notin Steps(t) /\ Steps(t) \cap {"commit", "rollback"} # {}
-----------------------------------------------------------------------------
(* A program of up to five steps, its first step and the others.           *)
LEMMA StepsOfPlan ==
  /\ Steps(<<>>) = {}
  /\ \A a : Steps(<<a>>) = {a}
  /\ \A a, b : Steps(<<a, b>>) = {a, b}
  /\ \A a, b, c : Steps(<<a, b, c>>) = {a, b, c}
  /\ \A a, b, c, d : Steps(<<a, b, c, d>>) = {a, b, c, d}
  /\ \A a, b, c, d, e : Steps(<<a, b, c, d, e>>) = {a, b, c, d, e}
PROOF
  BY DEF Steps

LEMMA RestOfPlan ==
  /\ \A a : Head(<<a>>) = a /\ Tail(<<a>>) = <<>>
  /\ \A a, b : Head(<<a, b>>) = a /\ Tail(<<a, b>>) = <<b>>
  /\ \A a, b, c : Head(<<a, b, c>>) = a /\ Tail(<<a, b, c>>) = <<b, c>>
  /\ \A a, b, c, d : /\ Head(<<a, b, c, d>>) = a
                     /\ Tail(<<a, b, c, d>>) = <<b, c, d>>
  /\ \A a, b, c, d, e : /\ Head(<<a, b, c, d, e>>) = a
                        /\ Tail(<<a, b, c, d, e>>) = <<b, c, d, e>>
PROOF
  OBVIOUS

(* How a program goes on, and the order of its steps: what a transaction   *)
(* brackets, that nothing but a log follows a COMMIT, and that a recovery  *)
(* ends with the filter's log.                                             *)
LEMMA PlanStep ==
  ASSUME NEW t \in Plans, t # <<>>
  PROVE  /\ Tail(t) \in Plans
         /\ Head(t) \in Steps(t) /\ Steps(t) \subseteq Step
         /\ Steps(Tail(t)) = Steps(t) \ {Head(t)}
         /\ Head(t) = "begin" => ~HasBegun(t) /\ HasBegun(Tail(t))
         /\ Head(t) \in {"commit", "rollback"} => HasBegun(t) /\ ~HasBegun(Tail(t))
         /\ Head(t) \notin {"begin", "commit", "rollback"}
              => (HasBegun(Tail(t)) <=> HasBegun(t))
         /\ Head(t) = "work" => HasBegun(t)
         /\ Head(t) \in Borrows \ {"log"} => ~HasBegun(t)
         /\ Head(t) = "commit" => Steps(Tail(t)) \subseteq {"log"}
         /\ Head(t) = "rollback" => Tail(t) = <<"errorLog">>
         /\ "errorLog" \in Steps(t) => Head(t) \in {"rollback", "errorLog"}
         /\ Head(t) = "errorLog" => Tail(t) = <<>>
PROOF
  <1> USE StepsOfPlan, RestOfPlan DEF HasBegun, Borrows, Step
  <1>1. CASE t = <<"statement">>
    BY <1>1 DEF Plans
  <1>2. CASE t = <<"log">>
    BY <1>2 DEF Plans
  <1>3. CASE t = <<"commit">>
    BY <1>3 DEF Plans
  <1>4. CASE t = <<"logsTest">>
    BY <1>4 DEF Plans
  <1>5. CASE t = <<"errorLog">>
    BY <1>5 DEF Plans
  <1>6. CASE t = <<"statement", "log">>
    BY <1>6 DEF Plans
  <1>7. CASE t = <<"work", "commit">>
    BY <1>7 DEF Plans
  <1>8. CASE t = <<"commit", "log">>
    BY <1>8 DEF Plans
  <1>9. CASE t = <<"log", "commit">>
    BY <1>9 DEF Plans
  <1>10. CASE t = <<"mainTest", "logsTest">>
    BY <1>10 DEF Plans
  <1>11. CASE t = <<"rollback", "errorLog">>
    BY <1>11 DEF Plans
  <1>12. CASE t = <<"begin", "work", "commit">>
    BY <1>12 DEF Plans
  <1>13. CASE t = <<"work", "commit", "log">>
    BY <1>13 DEF Plans
  <1>14. CASE t = <<"work", "log", "commit">>
    <2>1. /\ Head(t) = "work" /\ Tail(t) = <<"log", "commit">>
          /\ Steps(t) = {"work", "log", "commit"} /\ Steps(Tail(t)) = {"log", "commit"}
      BY <1>14
    <2> QED
      BY <2>1 DEF Plans
  <1>15. CASE t = <<"begin", "work", "commit", "log">>
    BY <1>15 DEF Plans
  <1>16. CASE t = <<"begin", "work", "log", "commit">>
    BY <1>16 DEF Plans
  <1>17. CASE t = <<"statement", "begin", "work", "commit", "log">>
    BY <1>17 DEF Plans
  <1>18. CASE t = <<"statement", "begin", "work", "log", "commit">>
    BY <1>18 DEF Plans
  <1> QED
    BY <1>1, <1>2, <1>3, <1>4, <1>5, <1>6, <1>7, <1>8, <1>9, <1>10, <1>11,
       <1>12, <1>13, <1>14, <1>15, <1>16, <1>17, <1>18 DEF Plans
-----------------------------------------------------------------------------
(* Start-up connects the main database first, and others only if there     *)
(* are to be several.                                                      *)
ServerInv ==
  /\ boot \notin {"MAIN", "down"} => "MAIN" \in pools
  /\ boot \in Database \ {"MAIN"} => MultiDatabase
  /\ ~MultiDatabase => pools \subseteq {"MAIN"}

(* Requests come when the server listens; before that nothing has happened.*)
Arrival(q) ==
  /\ kind[q] # NULL => boot = "listening"
  /\ kind[q] = NULL => /\ todo[q] = <<>> /\ conn[q] = NULL /\ tx[q] = NULL
                       /\ reply[q] = NULL /\ did[q] = {} /\ failed[q] = {}

(* The connections a request has are those of the step it is at.           *)
Holds(q) ==
  /\ tx[q] = IF HasBegun(todo[q]) THEN "MAIN" ELSE NULL
  /\ conn[q] # NULL => /\ Busy(q) /\ Current(q) \in Borrows
                       /\ conn[q] = PoolOf(Current(q))

(* The answer is given when at most the filter's log is left.              *)
Answers(q) ==
  /\ reply[q] # NULL => Steps(todo[q]) \subseteq {"errorLog"}
  /\ reply[q] = "ok" => Steps(todo[q]) = {}
  /\ Busy(q) /\ Current(q) = "errorLog" => reply[q] = "error"

(* The request has met an error that it cannot swallow.                    *)
IsFailing(q) == reply[q] = "error" \/ "errorLog" \in Steps(todo[q])

(* A request is on the way to its COMMIT until it fails, and does not fail *)
(* after it.                                                               *)
Outcome(q) ==
  /\ "commit" \in did[q] => Steps(todo[q]) \subseteq {"log"} /\ reply[q] # "error"
  /\ kind[q] \in {"transaction", "reset", "onboard"} /\ ~IsFailing(q)
       => {"begin", "work", "commit"} \subseteq did[q] \cup Steps(todo[q])
  /\ IsFailing(q) => failed[q] \ {"log", "errorLog"} # {}

RequestInv(q) ==
  todo[q] \in Plans /\ Arrival(q) /\ Holds(q) /\ Answers(q) /\ Outcome(q)

(* The connections that a pool has lent, finitely many, are no more than   *)
(* it may have.                                                            *)
Lent(d) == {q \in Request : conn[q] = d}
Kept(d) == {q \in Request : tx[q] = d}
PoolInv(d) ==
  IsFiniteSet(Lent(d)) /\ IsFiniteSet(Kept(d)) /\ InUse(d) <= PoolMax[d]

ConnectionsInv ==
  /\ TypeOK
  /\ ServerInv
  /\ \A q \in Request : RequestInv(q)
  /\ \A d \in Database : PoolInv(d)

(* A request goes on with its program, because its step succeeded or threw *)
(* an error that it swallows.                                              *)
LEMMA GoingOnKeepsRequest ==
  ASSUME ConnectionsInv, NEW q \in Request, Busy(q), Continue(q, Tail(todo[q])),
         UNCHANGED <<server, kind>>, conn'[q] = NULL,
         tx'[q] = IF HasBegun(Tail(todo[q])) THEN "MAIN" ELSE NULL,
         did[q] \subseteq did'[q], did'[q] \subseteq did[q] \cup {Current(q)},
         Current(q) \in {"begin", "work", "commit"} => Current(q) \in did'[q],
         failed[q] \subseteq failed'[q]
  PROVE  RequestInv(q)'
PROOF
  <1> DEFINE t == todo[q]
             h == Head(t)
             r == Tail(t)
  <1>1. TypeOK /\ t \in Plans /\ t # <<>>
    BY DEF ConnectionsInv, RequestInv, Busy
  <1>2. Arrival(q) /\ Holds(q) /\ Answers(q) /\ Outcome(q)
    BY DEF ConnectionsInv, RequestInv
  <1>3. /\ todo'[q] = r
        /\ reply'[q] = IF reply[q] # NULL THEN reply[q]
                       ELSE IF r = <<>> THEN "ok"
                       ELSE IF Head(r) = "errorLog" THEN "error"
                       ELSE NULL
    BY <1>1 DEF Continue, TypeOK
  <1>4. /\ r \in Plans /\ h \in Steps(t) /\ Steps(r) = Steps(t) \ {h}
        /\ h = "commit" => Steps(r) \subseteq {"log"}
        /\ h = "rollback" => r = <<"errorLog">>
        /\ "errorLog" \in Steps(t) => h \in {"rollback", "errorLog"}
        /\ h = "errorLog" => r = <<>>
    BY <1>1, PlanStep
  <1>5. r # <<>> => Head(r) \in Steps(r)
    BY <1>4, PlanStep
  <1>6. Steps(<<>>) = {} /\ Steps(<<"errorLog">>) = {"errorLog"}
    BY StepsOfPlan
  <1>7. kind[q] # NULL /\ NULL \notin {"ok", "error"}
    BY <1>1, <1>2, ConnectionsAssumption DEF Arrival
  <1>8. reply[q] # NULL => reply[q] = "error"
    BY <1>1, <1>2, <1>4 DEF Answers, TypeOK
  <1>9. r # <<>> /\ Head(r) = "errorLog" => Steps(r) = {"errorLog"}
    BY <1>4, <1>5, <1>6
  <1>10. tx'[q] = IF HasBegun(r) THEN "MAIN" ELSE NULL
    OBVIOUS
  <1>11. Busy(q) /\ Current(q) = h
    BY DEF Current
  <1> HIDE DEF t, h, r
  <1>12. Arrival(q)'
    BY <1>2, <1>7 DEF Arrival, server
  <1>13. Holds(q)'
    BY <1>3, <1>10 DEF Holds
  <1>14. Answers(q)'
    <2>1. reply'[q] # NULL => Steps(r) \subseteq {"errorLog"}
      BY <1>2, <1>3, <1>4, <1>6, <1>9 DEF Answers, t
    <2>2. reply'[q] = "ok" => Steps(r) = {}
      BY <1>3, <1>6, <1>7, <1>8
    <2>3. r # <<>> /\ Head(r) = "errorLog" => reply'[q] = "error"
      BY <1>3, <1>8
    <2> QED
      BY <1>3, <2>1, <2>2, <2>3 DEF Answers, Busy, Current
  <1>15. IsFailing(q)' <=> IsFailing(q)
    <2>1. ASSUME IsFailing(q) PROVE reply'[q] = "error" \/ "errorLog" \in Steps(r)
      <3>1. CASE reply[q] = "error"
        BY <1>3, <1>7, <3>1
      <3>2. CASE "errorLog" \in Steps(t)
        <4>1. CASE h = "rollback"
          BY <1>4, <1>6, <4>1
        <4>2. CASE h = "errorLog"
          <5>1. reply[q] = "error"
            BY <1>2, <1>11, <4>2 DEF Answers
          <5> QED
            BY <1>3, <1>7, <5>1
        <4> QED
          BY <1>4, <3>2, <4>1, <4>2
      <3> QED
        BY <2>1, <3>1, <3>2 DEF IsFailing, t
    <2>2. ASSUME reply'[q] = "error" \/ "errorLog" \in Steps(r) PROVE IsFailing(q)
      BY <1>3, <1>4, <1>5, <1>7, <2>2 DEF IsFailing, t
    <2> QED
      BY <1>3, <2>1, <2>2 DEF IsFailing
  <1>16. Outcome(q)'
    <2>1. ASSUME "commit" \in did'[q]
          PROVE  Steps(r) \subseteq {"log"} /\ reply'[q] # "error"
      <3>1. Steps(r) \subseteq {"log"} /\ reply[q] # "error"
        <4>1. CASE "commit" \in did[q]
          BY <1>2, <1>4, <4>1 DEF Outcome, t
        <4>2. CASE h = "commit"
          BY <1>2, <1>4, <1>7, <4>2 DEF Answers, t
        <4> QED
          BY <1>11, <2>1, <4>1, <4>2
      <3> QED
        BY <1>3, <1>5, <1>7, <3>1
    <2>2. did[q] \cup Steps(t) \subseteq did'[q] \cup Steps(r)
             \/ h \notin {"begin", "work", "commit"}
      BY <1>4 DEF Current, h, t
    <2>3. {"begin", "work", "commit"} \subseteq did[q] \cup Steps(t)
            => {"begin", "work", "commit"} \subseteq did'[q] \cup Steps(r)
      BY <1>4, <2>2
    <2> QED
      BY <1>2, <1>3, <1>15, <2>1, <2>3 DEF Outcome, t
  <1> QED
    BY <1>3, <1>4, <1>12, <1>13, <1>14, <1>16 DEF RequestInv

(* A request fails: it rolls its transaction back, if it is inside one,    *)
(* and leaves the rest of its program for the exception filter's log.      *)
LEMMA FailingKeepsRequest ==
  ASSUME ConnectionsInv, NEW q \in Request, Busy(q), Current(q) \notin Swallowed,
         Throw(q)
  PROVE  RequestInv(q)'
PROOF
  <1> DEFINE t == todo[q]
             h == Head(t)
             r == Recovery(q)
  <1>1. TypeOK /\ t \in Plans /\ t # <<>>
    BY DEF ConnectionsInv, RequestInv, Busy
  <1>2. Arrival(q) /\ Holds(q) /\ Answers(q) /\ Outcome(q)
    BY DEF ConnectionsInv, RequestInv
  <1>3. /\ todo'[q] = r
        /\ reply'[q] = IF reply[q] # NULL THEN reply[q]
                       ELSE IF r = <<>> THEN "ok"
                       ELSE IF Head(r) = "errorLog" THEN "error"
                       ELSE NULL
        /\ conn'[q] = NULL
        /\ tx'[q] = IF h = "begin" THEN NULL ELSE KeptBy(q, h)
        /\ failed'[q] = failed[q] \cup {h}
        /\ UNCHANGED <<server, kind, did>>
    BY <1>1 DEF Throw, Continue, Current, TypeOK
  <1>4. /\ h \in Steps(t) /\ Steps(t) \subseteq Step
        /\ h \in {"commit", "rollback"} => HasBegun(t)
        /\ h = "work" => HasBegun(t)
        /\ h \in Borrows \ {"log"} => ~HasBegun(t)
    BY <1>1, PlanStep
  <1>5. h \in {"statement", "begin", "work", "commit", "rollback"}
    BY <1>4 DEF Swallowed, Step, Current
  <1>6. kind[q] # NULL /\ NULL \notin {"ok", "error", "MAIN"}
    BY <1>1, <1>2, ConnectionsAssumption DEF Arrival, Database
  <1>7. r = IF h = "work" THEN <<"rollback", "errorLog">> ELSE <<"errorLog">>
    BY <1>2, <1>4, <1>5, <1>6 DEF Recovery, Current, Holds
  <1>8. /\ Steps(r) = IF h = "work" THEN {"rollback", "errorLog"} ELSE {"errorLog"}
        /\ Head(r) = IF h = "work" THEN "rollback" ELSE "errorLog"
        /\ r \in Plans /\ r # <<>>
    <2>1. CASE h = "work"
      BY <1>7, <2>1, StepsOfPlan, RestOfPlan DEF Plans
    <2>2. CASE h # "work"
      BY <1>7, <2>2, StepsOfPlan, RestOfPlan DEF Plans
    <2> QED
      BY <2>1, <2>2
  <1>9. reply[q] = NULL /\ "commit" \notin did[q]
    BY <1>2, <1>4, <1>5 DEF Answers, Outcome
  <1> HIDE DEF t, h, r
  <1>10. Arrival(q)'
    BY <1>2, <1>3, <1>6 DEF Arrival, server
  <1>11. Holds(q)'
    <2>1. HasBegun(r) <=> h = "work"
      BY <1>8 DEF HasBegun
    <2>2. tx'[q] = IF h = "work" THEN "MAIN" ELSE NULL
      BY <1>2, <1>3, <1>4, <1>5 DEF KeptBy, Holds, Borrows, t
    <2> QED
      BY <1>3, <2>1, <2>2 DEF Holds
  <1>12. Answers(q)' /\ IsFailing(q)'
    BY <1>3, <1>6, <1>8, <1>9 DEF Answers, IsFailing, Busy, Current
  <1>13. Outcome(q)'
    BY <1>3, <1>5, <1>9, <1>12 DEF Outcome
  <1> QED
    BY <1>3, <1>8, <1>10, <1>11, <1>12, <1>13 DEF RequestInv
-----------------------------------------------------------------------------
(* The other requests do not notice a step, as long as the server is what  *)
(* it was.                                                                 *)
LEMMA OthersKeepRequest ==
  ASSUME ConnectionsInv, UNCHANGED server, NEW p \in Request,
         kind'[p] = kind[p], todo'[p] = todo[p], conn'[p] = conn[p], tx'[p] = tx[p],
         reply'[p] = reply[p], did'[p] = did[p], failed'[p] = failed[p]
  PROVE  RequestInv(p)'
PROOF
  <1>1. RequestInv(p) /\ UNCHANGED <<boot, pools>>
    BY DEF ConnectionsInv, server
  <1>2. Arrival(p)'
    BY <1>1 DEF RequestInv, Arrival
  <1>3. Holds(p)'
    BY <1>1 DEF RequestInv, Holds, Busy, Current, PoolOf, PoolFor, LogsDatabase
  <1>4. Answers(p)'
    BY <1>1 DEF RequestInv, Answers, Busy, Current
  <1>5. Outcome(p)'
    BY <1>1 DEF RequestInv, Outcome, IsFailing
  <1> QED
    BY <1>1, <1>2, <1>3, <1>4, <1>5 DEF RequestInv

(* What a request that is busy has left, and that the server listens.      *)
LEMMA BusyRequest ==
  ASSUME ConnectionsInv, NEW q \in Request, Busy(q)
  PROVE  /\ todo[q] \in Plans /\ todo[q] # <<>> /\ Current(q) = Head(todo[q])
         /\ kind[q] # NULL /\ boot = "listening" /\ "MAIN" \in pools
         /\ Current(q) \in Step /\ Tail(todo[q]) \in Plans
         /\ Holds(q)
PROOF
  <1>1. RequestInv(q) /\ ServerInv
    BY DEF ConnectionsInv
  <1>2. todo[q] \in Plans /\ todo[q] # <<>> /\ Current(q) = Head(todo[q])
    BY <1>1 DEF Busy, Current, RequestInv
  <1>3. kind[q] # NULL /\ boot = "listening" /\ "MAIN" \in pools
    BY <1>1, <1>2 DEF RequestInv, Arrival, ServerInv
  <1> QED
    BY <1>1, <1>2, <1>3, PlanStep DEF RequestInv

(* A step that ends gives its connection back, and its transaction keeps   *)
(* one at most: the one it had, or the one of its BEGIN.                   *)
LEMMA ReturnKeepsPools ==
  ASSUME ConnectionsInv, NEW q \in Request, NEW held,
         held \in {NULL, tx[q]} \/ (held = conn[q] /\ tx[q] = NULL),
         conn' = [conn EXCEPT ![q] = NULL], tx' = [tx EXCEPT ![q] = held],
         NEW d \in Database
  PROVE  PoolInv(d)'
PROOF
  <1>1. TypeOK /\ IsFiniteSet(Lent(d)) /\ IsFiniteSet(Kept(d))
    BY DEF ConnectionsInv, PoolInv
  <1>2. /\ InUse(d) = Cardinality(Lent(d)) + Cardinality(Kept(d))
        /\ InUse(d)' = Cardinality(Lent(d)') + Cardinality(Kept(d)')
    BY DEF InUse, Lent, Kept
  <1>3. PoolMax[d] \in Nat /\ InUse(d) <= PoolMax[d] /\ d # NULL
    BY ConnectionsAssumption DEF ConnectionsInv, PoolInv
  <1>4. Lent(d)' = Lent(d) \ {q}
    BY <1>1, <1>3 DEF Lent, TypeOK
  <1>5. /\ IsFiniteSet(Lent(d)')
        /\ Cardinality(Lent(d)') = IF q \in Lent(d) THEN Cardinality(Lent(d)) - 1
                                   ELSE Cardinality(Lent(d))
    BY <1>1, <1>4, FS_RemoveElement
  <1>6. Cardinality(Lent(d)) \in Nat /\ Cardinality(Kept(d)) \in Nat
    BY <1>1, FS_CardinalityType
  <1>7. Cardinality(Lent(d)') \in Nat
    BY <1>5, FS_CardinalityType
  <1>8. CASE held # d
    <2>1. Kept(d)' = Kept(d) \ {q}
      BY <1>1, <1>8 DEF Kept, TypeOK
    <2>2. IsFiniteSet(Kept(d)') /\ Cardinality(Kept(d)') <= Cardinality(Kept(d))
      BY <1>1, <2>1, FS_Subset
    <2>3. Cardinality(Kept(d)') \in Nat
      BY <2>2, FS_CardinalityType
    <2> QED
      BY <1>2, <1>3, <1>5, <1>6, <1>7, <2>2, <2>3 DEF PoolInv
  <1>9. CASE held = d /\ held = tx[q]
    <2>1. Kept(d)' = Kept(d)
      BY <1>1, <1>9 DEF Kept, TypeOK
    <2> QED
      BY <1>1, <1>2, <1>3, <1>5, <1>6, <1>7, <2>1 DEF PoolInv
  <1>10. CASE held = d /\ held = conn[q] /\ tx[q] = NULL
    <2>1. q \in Lent(d) /\ q \notin Kept(d) /\ Kept(d)' = Kept(d) \cup {q}
      BY <1>1, <1>3, <1>10 DEF Lent, Kept, TypeOK
    <2>2. /\ IsFiniteSet(Kept(d)')
          /\ Cardinality(Kept(d)') = Cardinality(Kept(d)) + 1
      BY <1>1, <2>1, FS_AddElement
    <2> QED
      BY <1>2, <1>3, <1>5, <1>6, <2>1, <2>2 DEF PoolInv
  <1> QED
    BY <1>3, <1>8, <1>9, <1>10

LEMMA GrantKeepsPools ==
  ASSUME ConnectionsInv, NEW q \in Request, Grant(q), NEW d \in Database
  PROVE  PoolInv(d)'
PROOF
  <1> DEFINE e == PoolOf(Current(q))
  <1>1. TypeOK /\ IsFiniteSet(Lent(d)) /\ IsFiniteSet(Kept(d))
    BY DEF ConnectionsInv, PoolInv
  <1>2. /\ InUse(d) = Cardinality(Lent(d)) + Cardinality(Kept(d))
        /\ InUse(d)' = Cardinality(Lent(d)') + Cardinality(Kept(d)')
    BY DEF InUse, Lent, Kept
  <1>3. PoolMax[d] \in Nat /\ InUse(d) <= PoolMax[d] /\ d # NULL
    BY ConnectionsAssumption DEF ConnectionsInv, PoolInv
  <1>4. /\ conn[q] = NULL /\ InUse(e) < PoolMax[e]
        /\ conn' = [conn EXCEPT ![q] = e] /\ UNCHANGED tx
    BY DEF Grant, Waiting
  <1>5. Cardinality(Lent(d)) \in Nat /\ Cardinality(Kept(d)) \in Nat
    BY <1>1, FS_CardinalityType
  <1> HIDE DEF e
  <1>6. Kept(d)' = Kept(d)
    BY <1>4 DEF Kept
  <1>7. CASE d # e
    <2>1. Lent(d)' = Lent(d)
      BY <1>1, <1>3, <1>4, <1>7 DEF Lent, TypeOK
    <2> QED
      BY <1>1, <1>2, <1>3, <1>6, <2>1 DEF PoolInv
  <1>8. CASE d = e
    <2>1. Lent(d)' = Lent(d) \cup {q} /\ q \notin Lent(d)
      BY <1>1, <1>3, <1>4, <1>8 DEF Lent, TypeOK
    <2>2. IsFiniteSet(Lent(d)') /\ Cardinality(Lent(d)') = Cardinality(Lent(d)) + 1
      BY <1>1, <2>1, FS_AddElement
    <2>3. InUse(d) < PoolMax[d]
      BY <1>4, <1>8
    <2> QED
      BY <1>1, <1>2, <1>3, <1>5, <1>6, <2>2, <2>3 DEF PoolInv
  <1> QED
    BY <1>7, <1>8
-----------------------------------------------------------------------------
LEMMA PlansAreSequences == Plans \subseteq Seq(Step)
PROOF
  <1>1. <<>> \in Seq(Step) /\ \A a \in Step : <<a>> \in Seq(Step)
    OBVIOUS
  <1>2. \A a, b \in Step : <<a, b>> \in Seq(Step)
    OBVIOUS
  <1>3. \A a, b, c \in Step : <<a, b, c>> \in Seq(Step)
    OBVIOUS
  <1>4. \A a, b, c, d \in Step : <<a, b, c, d>> \in Seq(Step)
    OBVIOUS
  <1>5. \A a, b, c, d, e \in Step : <<a, b, c, d, e>> \in Seq(Step)
    OBVIOUS
  <1>6. {"statement", "begin", "work", "commit", "rollback", "log", "errorLog",
         "mainTest", "logsTest"} = Step
    BY DEF Step
  <1>7. /\ <<"statement">> \in Seq(Step) /\ <<"log">> \in Seq(Step)
        /\ <<"commit">> \in Seq(Step) /\ <<"logsTest">> \in Seq(Step)
        /\ <<"errorLog">> \in Seq(Step)
    BY <1>1, <1>6
  <1>8. /\ <<"statement", "log">> \in Seq(Step) /\ <<"work", "commit">> \in Seq(Step)
        /\ <<"commit", "log">> \in Seq(Step) /\ <<"log", "commit">> \in Seq(Step)
        /\ <<"mainTest", "logsTest">> \in Seq(Step)
        /\ <<"rollback", "errorLog">> \in Seq(Step)
    BY <1>2, <1>6
  <1>9. /\ <<"begin", "work", "commit">> \in Seq(Step)
        /\ <<"work", "commit", "log">> \in Seq(Step)
        /\ <<"work", "log", "commit">> \in Seq(Step)
    BY <1>3, <1>6
  <1>10. /\ <<"begin", "work", "commit", "log">> \in Seq(Step)
         /\ <<"begin", "work", "log", "commit">> \in Seq(Step)
    BY <1>4, <1>6
  <1>11. /\ <<"statement", "begin", "work", "commit", "log">> \in Seq(Step)
         /\ <<"statement", "begin", "work", "log", "commit">> \in Seq(Step)
    BY <1>5, <1>6
  <1> QED
    BY <1>1, <1>7, <1>8, <1>9, <1>10, <1>11 DEF Plans

(* A program starts outside its transaction, which is in it as a whole,    *)
(* and plans for no error.                                                 *)
LEMMA ProgramsArePlans ==
  ASSUME NEW k \in DOMAIN Program
  PROVE  /\ Program[k] \in Plans /\ Program[k] # <<>>
         /\ ~HasBegun(Program[k])
         /\ "errorLog" \notin Steps(Program[k])
         /\ k \in {"transaction", "reset", "onboard"}
              => {"begin", "work", "commit"} \subseteq Steps(Program[k])
PROOF
  <1> USE StepsOfPlan DEF HasBegun
  <1>1. k \in {"query", "logged", "transaction", "reset", "onboard", "health"}
    BY DEF Program
  <1>2. CASE k = "query"
    <2>1. Program[k] = <<"statement">>
      BY <1>2 DEF Program
    <2> QED
      BY <1>2, <2>1 DEF Plans
  <1>3. CASE k = "logged"
    <2>1. Program[k] = <<"statement", "log">>
      BY <1>3 DEF Program
    <2> QED
      BY <1>3, <2>1 DEF Plans
  <1>4. CASE k = "transaction"
    <2>1. Program[k] = <<"begin", "work", "commit">>
      BY <1>4 DEF Program
    <2> QED
      BY <1>4, <2>1 DEF Plans
  <1>5. CASE k = "reset"
    <2>1. Program[k] = <<"statement", "begin", "work", "commit", "log">>
      BY <1>5 DEF Program
    <2> QED
      BY <1>5, <2>1 DEF Plans
  <1>6. CASE k = "onboard"
    <2>1. Program[k] = <<"statement", "begin", "work", "log", "commit">>
      BY <1>6 DEF Program
    <2> QED
      BY <1>6, <2>1 DEF Plans
  <1>7. CASE k = "health"
    <2>1. Program[k] = <<"mainTest", "logsTest">>
      BY <1>7 DEF Program
    <2> QED
      BY <1>7, <2>1 DEF Plans
  <1> QED
    BY <1>1, <1>2, <1>3, <1>4, <1>5, <1>6, <1>7

(* PoolOf is one of the databases, and one that is connected when MAIN is. *)
LEMMA PoolOfStep ==
  ASSUME TypeOK, NEW s
  PROVE  /\ PoolOf(s) \in Database
         /\ "MAIN" \in pools => PoolOf(s) \in pools
         /\ s \notin {"log", "logsTest"} => PoolOf(s) = "MAIN"
PROOF
  BY DEF PoolOf, PoolFor, LogsDatabase, Database, TypeOK
-----------------------------------------------------------------------------
LEMMA InitEstablishesConnectionsInv == Init => ConnectionsInv
PROOF
  <1> SUFFICES ASSUME Init PROVE ConnectionsInv
    OBVIOUS
  <1>1. Retries \in Nat
    BY ConnectionsAssumption DEF Retries
  <1>2. TypeOK
    <2>1. <<>> \in Seq(Step)
      OBVIOUS
    <2> QED
      BY <1>1, <2>1 DEF Init, TypeOK, Database
  <1>3. ServerInv
    BY DEF Init, ServerInv, Database
  <1>4. ASSUME NEW q \in Request PROVE RequestInv(q)
    <2>1. todo[q] \in Plans /\ Steps(todo[q]) = {}
      BY StepsOfPlan DEF Init, Plans
    <2>2. NULL \notin {"ok", "error", "transaction", "reset", "onboard"}
      BY ConnectionsAssumption DEF Program
    <2>3. /\ kind[q] = NULL /\ todo[q] = <<>> /\ conn[q] = NULL /\ tx[q] = NULL
          /\ reply[q] = NULL /\ did[q] = {} /\ failed[q] = {}
      BY DEF Init
    <2>4. Arrival(q) /\ Holds(q) /\ Answers(q)
      BY <2>1, <2>2, <2>3 DEF Arrival, Holds, HasBegun, Answers, Busy
    <2>5. Outcome(q)
      BY <2>1, <2>2, <2>3 DEF Outcome, IsFailing
    <2> QED
      BY <2>1, <2>4, <2>5 DEF RequestInv
  <1>5. ASSUME NEW d \in Database PROVE PoolInv(d)
    <2>1. d # NULL /\ PoolMax[d] \in Nat
      BY ConnectionsAssumption
    <2>2. Lent(d) = {} /\ Kept(d) = {}
      BY <2>1 DEF Init, Lent, Kept
    <2>3. InUse(d) = Cardinality(Lent(d)) + Cardinality(Kept(d))
      BY DEF InUse, Lent, Kept
    <2>4. IsFiniteSet({}) /\ Cardinality({}) = 0
      BY FS_EmptySet
    <2> QED
      BY <2>1, <2>2, <2>3, <2>4 DEF PoolInv
  <1> QED
    BY <1>2, <1>3, <1>4, <1>5 DEF ConnectionsInv

(* As long as the server starts, no request has come, so none notices that *)
(* pools are opened.                                                       *)
LEMMA StartUpKeepsConnectionsInv ==
  ASSUME ConnectionsInv, Connect \/ ConnectFails
  PROVE  ConnectionsInv'
PROOF
  <1>1. /\ boot \in Database /\ TypeOK /\ ServerInv
        /\ UNCHANGED <<kind, todo, conn, tx, reply, did, failed>>
    BY DEF Connect, ConnectFails, ConnectionsInv
  <1>2. Retries \in Nat
    BY ConnectionsAssumption DEF Retries
  <1>3. /\ NextDatabase["MAIN"] = IF MultiDatabase THEN "ANALYTICS" ELSE "listening"
        /\ NextDatabase["ANALYTICS"] = "TENANT" /\ NextDatabase["TENANT"] = "LOGS"
        /\ NextDatabase["LOGS"] = "listening"
    BY DEF NextDatabase
  <1>4. \/ boot' = NextDatabase[boot] /\ pools' = pools \cup {boot}
        \/ boot' = boot /\ pools' = pools
        \/ boot' = "down" /\ boot = "MAIN" /\ pools' = pools
        \/ boot' = NextDatabase[boot] /\ boot # "MAIN" /\ pools' = pools
    BY DEF Connect, ConnectFails, Retry, GiveUp
  <1>5. attempt' \in 0 .. Retries
    BY <1>1, <1>2 DEF Connect, ConnectFails, Retry, GiveUp, TypeOK
  <1>6. boot' \in Database \cup {"listening", "down"} /\ pools' \subseteq Database
    BY <1>1, <1>3, <1>4 DEF TypeOK, Database
  <1>7. TypeOK'
    BY <1>1, <1>5, <1>6 DEF TypeOK
  <1>8. ServerInv'
    BY <1>1, <1>3, <1>4 DEF ServerInv, Database
  <1>9. ASSUME NEW q \in Request PROVE RequestInv(q)'
    <2>1. RequestInv(q) /\ kind[q] = NULL
      BY <1>1 DEF ConnectionsInv, RequestInv, Arrival, Database
    <2> QED
      BY <1>1, <2>1 DEF RequestInv, Arrival, Holds, Answers, Outcome, IsFailing,
                        Busy, Current
  <1>10. ASSUME NEW d \in Database PROVE PoolInv(d)'
    BY <1>1 DEF ConnectionsInv, PoolInv, Lent, Kept, InUse
  <1> QED
    BY <1>7, <1>8, <1>9, <1>10 DEF ConnectionsInv

LEMMA ArriveKeepsConnectionsInv ==
  ASSUME ConnectionsInv, NEW q \in Request, Arrive(q)
  PROVE  ConnectionsInv'
PROOF
  <1>1. PICK k \in DOMAIN Program : /\ kind' = [kind EXCEPT ![q] = k]
                                    /\ todo' = [todo EXCEPT ![q] = Program[k]]
    BY DEF Arrive
  <1>2. /\ TypeOK /\ ServerInv /\ RequestInv(q)
        /\ boot = "listening" /\ kind[q] = NULL
        /\ UNCHANGED <<server, conn, tx, reply, did, failed>>
    BY DEF Arrive, ConnectionsInv
  <1>3. /\ Program[k] \in Plans /\ Program[k] # <<>>
        /\ ~HasBegun(Program[k]) /\ "errorLog" \notin Steps(Program[k])
        /\ k \in {"transaction", "reset", "onboard"}
             => {"begin", "work", "commit"} \subseteq Steps(Program[k])
    BY ProgramsArePlans
  <1>4. Head(Program[k]) \in Steps(Program[k])
    BY <1>3, PlanStep
  <1>5. kind'[q] = k /\ todo'[q] = Program[k]
    BY <1>1, <1>2 DEF TypeOK
  <1>6. Program[k] \in Seq(Step)
    BY <1>3, PlansAreSequences
  <1>7. TypeOK'
    <2>1. kind' \in [Request -> DOMAIN Program \cup {NULL}]
      BY <1>1, <1>2 DEF TypeOK
    <2>2. todo' \in [Request -> Seq(Step)]
      BY <1>1, <1>2, <1>6 DEF TypeOK
    <2> QED
      BY <1>2, <2>1, <2>2 DEF TypeOK, server
  <1>8. ServerInv'
    BY <1>2 DEF ServerInv, server
  <1>9. ASSUME NEW p \in Request PROVE RequestInv(p)'
    <2>1. CASE p # q
      BY <1>1, <1>2, <2>1, OthersKeepRequest DEF TypeOK
    <2>2. CASE p = q
      <3>1. /\ conn[q] = NULL /\ tx[q] = NULL /\ reply[q] = NULL
            /\ did[q] = {} /\ failed[q] = {} /\ NULL \notin {"ok", "error"}
        BY <1>2, ConnectionsAssumption DEF RequestInv, Arrival
      <3>2. Arrival(q)'
        BY <1>2, <1>5, ConnectionsAssumption DEF Arrival, server
      <3>3. Holds(q)'
        BY <1>2, <1>3, <1>5, <3>1 DEF Holds
      <3>4. Answers(q)'
        BY <1>2, <1>3, <1>4, <1>5, <3>1 DEF Answers, Busy, Current
      <3>5. Outcome(q)'
        BY <1>2, <1>3, <1>5, <3>1 DEF Outcome, IsFailing
      <3> QED
        BY <1>3, <1>5, <2>2, <3>2, <3>3, <3>4, <3>5 DEF RequestInv
    <2> QED
      BY <2>1, <2>2
  <1>10. ASSUME NEW d \in Database PROVE PoolInv(d)'
    BY <1>2 DEF ConnectionsInv, PoolInv, Lent, Kept, InUse
  <1> QED
    BY <1>7, <1>8, <1>9, <1>10 DEF ConnectionsInv

LEMMA GrantKeepsConnectionsInv ==
  ASSUME ConnectionsInv, NEW q \in Request, Grant(q)
  PROVE  ConnectionsInv'
PROOF
  <1>1. /\ TypeOK /\ ServerInv /\ RequestInv(q)
        /\ UNCHANGED <<server, kind, todo, tx, reply, did, failed>>
        /\ conn' = [conn EXCEPT ![q] = PoolOf(Current(q))]
        /\ Busy(q) /\ Current(q) \in Borrows
    BY DEF Grant, Waiting, ConnectionsInv
  <1>2. PoolOf(Current(q)) \in Database
    BY <1>1, PoolOfStep
  <1>3. TypeOK'
    BY <1>1, <1>2 DEF TypeOK, server
  <1>4. ServerInv'
    BY <1>1 DEF ServerInv, server
  <1>5. ASSUME NEW p \in Request PROVE RequestInv(p)'
    <2>1. CASE p # q
      BY <1>1, <2>1, OthersKeepRequest DEF TypeOK
    <2>2. CASE p = q
      <3>1. Arrival(q)'
        <4>1. kind[q] # NULL
          BY <1>1 DEF RequestInv, Arrival, Busy
        <4> QED
          BY <1>1, <4>1 DEF RequestInv, Arrival, server
      <3>2. Holds(q)'
        <4>1. conn'[q] = PoolOf(Current(q)) /\ PoolOf(Current(q))' = PoolOf(Current(q))
          BY <1>1 DEF TypeOK, server, PoolOf, PoolFor, LogsDatabase, Current
        <4> QED
          BY <1>1, <4>1 DEF RequestInv, Holds, Busy, Current
      <3>3. Answers(q)' /\ Outcome(q)'
        BY <1>1 DEF RequestInv, Answers, Outcome, IsFailing, Busy, Current
      <3> QED
        BY <1>1, <2>2, <3>1, <3>2, <3>3 DEF RequestInv
    <2> QED
      BY <2>1, <2>2
  <1>6. ASSUME NEW d \in Database PROVE PoolInv(d)'
    BY GrantKeepsPools
  <1> QED
    BY <1>3, <1>4, <1>5, <1>6 DEF ConnectionsInv

(* A step that returns its connection: what is left to show is that the    *)
(* request itself keeps its invariant.                                     *)
LEMMA StepKeepsConnectionsInv ==
  ASSUME ConnectionsInv, NEW q \in Request, Busy(q), NEW rest \in Plans, NEW held,
         Continue(q, rest), UNCHANGED <<server, kind>>,
         held \in {NULL, tx[q]} \/ (held = conn[q] /\ tx[q] = NULL),
         conn' = [conn EXCEPT ![q] = NULL], tx' = [tx EXCEPT ![q] = held],
         NEW D \in SUBSET Step, did' = [did EXCEPT ![q] = D],
         NEW F \in SUBSET Step, failed' = [failed EXCEPT ![q] = F],
         RequestInv(q)'
  PROVE  ConnectionsInv'
PROOF
  <1>1. TypeOK /\ ServerInv
    BY DEF ConnectionsInv
  <1>2. TypeOK'
    <2>1. todo' \in [Request -> Seq(Step)]
      BY <1>1, PlansAreSequences DEF Continue, TypeOK
    <2>2. reply' \in [Request -> {"ok", "error", NULL}]
      BY <1>1 DEF Continue, TypeOK
    <2>3. held \in Database \cup {NULL}
      BY <1>1 DEF TypeOK
    <2>4. /\ conn' \in [Request -> Database \cup {NULL}]
          /\ tx' \in [Request -> Database \cup {NULL}]
      BY <1>1, <2>3 DEF TypeOK
    <2>5. did' \in [Request -> SUBSET Step] /\ failed' \in [Request -> SUBSET Step]
      BY <1>1 DEF TypeOK
    <2> QED
      BY <1>1, <2>1, <2>2, <2>4, <2>5 DEF TypeOK, server
  <1>3. ServerInv'
    BY <1>1 DEF ServerInv, server
  <1>4. ASSUME NEW p \in Request PROVE RequestInv(p)'
    <2>1. CASE p # q
      <3>1. /\ kind'[p] = kind[p] /\ todo'[p] = todo[p] /\ conn'[p] = conn[p]
            /\ tx'[p] = tx[p] /\ reply'[p] = reply[p] /\ did'[p] = did[p]
            /\ failed'[p] = failed[p]
        BY <1>1, <2>1 DEF Continue, TypeOK
      <3> QED
        BY <3>1, OthersKeepRequest
    <2> QED
      BY <2>1
  <1>5. ASSUME NEW d \in Database PROVE PoolInv(d)'
    BY ReturnKeepsPools
  <1> QED
    BY <1>2, <1>3, <1>4, <1>5 DEF ConnectionsInv

LEMMA FinishKeepsConnectionsInv ==
  ASSUME ConnectionsInv, NEW q \in Request, Finish(q)
  PROVE  ConnectionsInv'
PROOF
  <1> DEFINE h == Current(q)
             held == KeptBy(q, h)
  <1>1. /\ TypeOK /\ Busy(q) /\ ~Waiting(q)
        /\ conn' = [conn EXCEPT ![q] = NULL] /\ tx' = [tx EXCEPT ![q] = held]
        /\ did' = [did EXCEPT ![q] = did[q] \cup {h}]
        /\ Continue(q, Tail(todo[q])) /\ UNCHANGED <<server, kind, failed>>
    BY DEF Finish, Running, ConnectionsInv
  <1>2. /\ todo[q] \in Plans /\ todo[q] # <<>> /\ h = Head(todo[q])
        /\ h \in Step /\ Tail(todo[q]) \in Plans /\ Holds(q)
    BY <1>1, BusyRequest
  <1>3. /\ h = "begin" => ~HasBegun(todo[q]) /\ HasBegun(Tail(todo[q]))
        /\ h \in {"commit", "rollback"}
             => HasBegun(todo[q]) /\ ~HasBegun(Tail(todo[q]))
        /\ h \notin {"begin", "commit", "rollback"}
             => (HasBegun(Tail(todo[q])) <=> HasBegun(todo[q]))
    BY <1>2, PlanStep
  <1>4. h = "begin" => conn[q] = "MAIN" /\ tx[q] = NULL
    BY <1>1, <1>2, <1>3, PoolOfStep DEF Waiting, Borrows, Holds
  <1>5. held = IF HasBegun(Tail(todo[q])) THEN "MAIN" ELSE NULL
    BY <1>2, <1>3, <1>4 DEF KeptBy, Holds
  <1>6. held \in {NULL, tx[q]} \/ (held = conn[q] /\ tx[q] = NULL)
    BY <1>4 DEF KeptBy
  <1>7. /\ conn'[q] = NULL /\ tx'[q] = held /\ did'[q] = did[q] \cup {h}
        /\ failed'[q] = failed[q]
    BY <1>1 DEF TypeOK
  <1> HIDE DEF held
  <1>8. RequestInv(q)'
    BY <1>1, <1>5, <1>7, GoingOnKeepsRequest
  <1>9. failed' = [failed EXCEPT ![q] = failed[q]] /\ failed[q] \in SUBSET Step
    BY <1>1 DEF TypeOK
  <1>10. did[q] \cup {h} \in SUBSET Step
    BY <1>1, <1>2 DEF TypeOK
  <1> HIDE DEF h
  <1> QED
    BY <1>1, <1>2, <1>6, <1>8, <1>9, <1>10, StepKeepsConnectionsInv

LEMMA ThrowKeepsConnectionsInv ==
  ASSUME ConnectionsInv, NEW q \in Request, Busy(q), Throw(q)
  PROVE  ConnectionsInv'
PROOF
  <1> DEFINE h == Current(q)
             rest == IF h \in Swallowed THEN Tail(todo[q]) ELSE Recovery(q)
             held == IF h = "begin" THEN NULL ELSE KeptBy(q, h)
  <1>1. /\ TypeOK
        /\ conn' = [conn EXCEPT ![q] = NULL] /\ tx' = [tx EXCEPT ![q] = held]
        /\ failed' = [failed EXCEPT ![q] = failed[q] \cup {h}]
        /\ Continue(q, rest) /\ UNCHANGED <<server, kind, did>>
    BY DEF Throw, ConnectionsInv
  <1>2. /\ todo[q] \in Plans /\ todo[q] # <<>> /\ h = Head(todo[q])
        /\ h \in Step /\ Tail(todo[q]) \in Plans /\ Holds(q)
    BY BusyRequest
  <1>3. h \notin {"begin", "commit", "rollback"}
          => (HasBegun(Tail(todo[q])) <=> HasBegun(todo[q]))
    BY <1>2, PlanStep
  <1>4. held \in {NULL, tx[q]}
    BY DEF KeptBy
  <1>5. /\ conn'[q] = NULL /\ tx'[q] = held /\ did'[q] = did[q]
        /\ failed'[q] = failed[q] \cup {h}
    BY <1>1 DEF TypeOK
  <1>6. RequestInv(q)'
    <2>1. CASE h \in Swallowed
      <3>1. held = IF HasBegun(Tail(todo[q])) THEN "MAIN" ELSE NULL
        BY <1>2, <1>3, <2>1 DEF KeptBy, Holds, Swallowed
      <3>2. h \notin {"begin", "work", "commit"}
        BY <2>1 DEF Swallowed
      <3>3. Continue(q, Tail(todo[q]))
        BY <1>1, <2>1
      <3> HIDE DEF held, rest
      <3> QED
        BY <1>1, <1>5, <3>1, <3>2, <3>3, GoingOnKeepsRequest
    <2>2. CASE h \notin Swallowed
      BY <2>2, FailingKeepsRequest
    <2> QED
      BY <2>1, <2>2
  <1>7. rest \in Plans
    BY <1>2 DEF Recovery, Plans
  <1>8. did' = [did EXCEPT ![q] = did[q]] /\ did[q] \in SUBSET Step
    BY <1>1 DEF TypeOK
  <1>9. failed[q] \cup {h} \in SUBSET Step
    BY <1>1, <1>2 DEF TypeOK
  <1> HIDE DEF h, rest, held
  <1> QED
    BY <1>1, <1>4, <1>6, <1>7, <1>8, <1>9, StepKeepsConnectionsInv

LEMMA ConnectionsInvIsInductive ==
  ASSUME ConnectionsInv, [Next]_vars
  PROVE  ConnectionsInv'
PROOF
  <1>1. CASE Connect \/ ConnectFails
    BY <1>1, StartUpKeepsConnectionsInv
  <1>2. ASSUME NEW q \in Request, Arrive(q) PROVE ConnectionsInv'
    BY <1>2, ArriveKeepsConnectionsInv
  <1>3. ASSUME NEW q \in Request, Grant(q) PROVE ConnectionsInv'
    BY <1>3, GrantKeepsConnectionsInv
  <1>4. ASSUME NEW q \in Request, Finish(q) PROVE ConnectionsInv'
    BY <1>4, FinishKeepsConnectionsInv
  <1>5. ASSUME NEW q \in Request, Fail(q) \/ TimeOut(q) PROVE ConnectionsInv'
    BY <1>5, ThrowKeepsConnectionsInv DEF Fail, TimeOut, Running, Waiting
  <1>6. CASE UNCHANGED vars
    <2>1. /\ boot' = boot /\ attempt' = attempt /\ pools' = pools /\ kind' = kind
          /\ todo' = todo /\ conn' = conn /\ tx' = tx /\ reply' = reply
          /\ did' = did /\ failed' = failed
      BY <1>6 DEF vars, server
    <2>2. TypeOK' /\ ServerInv'
      BY <2>1 DEF ConnectionsInv, TypeOK, ServerInv
    <2>3. ASSUME NEW q \in Request PROVE RequestInv(q)'
      BY <2>1, OthersKeepRequest DEF server
    <2>4. ASSUME NEW d \in Database PROVE PoolInv(d)'
      BY <2>1 DEF ConnectionsInv, PoolInv, Lent, Kept, InUse
    <2> QED
      BY <2>2, <2>3, <2>4 DEF ConnectionsInv
  <1> QED
    BY <1>1, <1>2, <1>3, <1>4, <1>5, <1>6 DEF Next
-----------------------------------------------------------------------------
LEMMA ConnectionsInvAlways == Spec => []ConnectionsInv
PROOF
  BY InitEstablishesConnectionsInv, ConnectionsInvIsInductive, PTL DEF Spec

(* The state keeps its type, whatever is connected and whatever throws.    *)
THEOREM ConnectionsTypeCorrect == Spec => []TypeOK
PROOF
  <1>1. ConnectionsInv => TypeOK
    BY DEF ConnectionsInv
  <1> QED
    BY <1>1, ConnectionsInvAlways, PTL

(* getPool's fallback to the main database always finds a pool, and no     *)
(* pool lends more than it has: a transaction's connection is counted when *)
(* it is waiting to begin, while it lasts, and no longer.                  *)
THEOREM NoPoolIsOverdrawn == Spec => []PoolsExistAndSuffice
PROOF
  <1>1. ASSUME ConnectionsInv PROVE PoolsExistAndSuffice
    <2>1. ASSUME NEW d \in Database, NEW q \in Request,
                 conn[q] = d \/ tx[q] = d \/ (Waiting(q) /\ PoolOf(Current(q)) = d)
          PROVE  d \in pools
      <3>1. TypeOK /\ RequestInv(q) /\ d # NULL
        BY <1>1, ConnectionsAssumption DEF ConnectionsInv
      <3>2. Busy(q)
        <4>1. CASE todo[q] = <<>>
          <5>1. ~HasBegun(todo[q])
            BY <4>1, StepsOfPlan DEF HasBegun
          <5> QED
            BY <2>1, <3>1, <4>1, <5>1 DEF RequestInv, Holds, Busy, Waiting
        <4> QED
          BY <4>1 DEF Busy
      <3>3. "MAIN" \in pools /\ Holds(q)
        BY <1>1, <3>2, BusyRequest
      <3>4. PoolOf(Current(q)) \in pools
        BY <3>1, <3>3, PoolOfStep
      <3> QED
        BY <2>1, <3>1, <3>3, <3>4 DEF Holds
    <2>2. ASSUME NEW d \in Database PROVE InUse(d) <= PoolMax[d]
      BY <1>1 DEF ConnectionsInv, PoolInv
    <2> QED
      BY <2>1, <2>2 DEF PoolsExistAndSuffice
  <1> QED
    BY <1>1, ConnectionsInvAlways, PTL

(* SqlServerService.transaction returns its connection before the client   *)
(* has an answer, on every path through its catch block.                   *)
THEOREM NoAnswerBeforeTheTransactionEnds == Spec => []AnsweredHoldsNoTransaction
PROOF
  <1>1. ASSUME ConnectionsInv PROVE AnsweredHoldsNoTransaction
    <2>1. ASSUME NEW q \in Request, reply[q] # NULL PROVE tx[q] = NULL
      <3>1. Answers(q) /\ Holds(q)
        BY <1>1 DEF ConnectionsInv, RequestInv
      <3> QED
        BY <2>1, <3>1 DEF Answers, Holds, HasBegun
    <2> QED
      BY <2>1 DEF AnsweredHoldsNoTransaction
  <1> QED
    BY <1>1, ConnectionsInvAlways, PTL

(* The answer is "ok" only after BEGIN, the callback and COMMIT, and an    *)
(* error never follows a COMMIT that succeeded.                            *)
THEOREM AnswersAreTruthful == Spec => []AnswerTellsTheOutcome
PROOF
  <1>1. ASSUME ConnectionsInv PROVE AnswerTellsTheOutcome
    <2>1. ASSUME NEW q \in Request
          PROVE  /\ reply[q] = "ok" /\ kind[q] \in {"transaction", "reset", "onboard"}
                      => {"begin", "work", "commit"} \subseteq did[q]
                 /\ reply[q] = "error" => "commit" \notin did[q]
      <3>1. Answers(q) /\ Outcome(q)
        BY <1>1 DEF ConnectionsInv, RequestInv
      <3>2. reply[q] = "ok" => ~IsFailing(q) /\ Steps(todo[q]) = {}
        BY <3>1 DEF Answers, IsFailing
      <3>3. reply[q] = "error" => "commit" \notin did[q]
        BY <3>1 DEF Outcome
      <3> QED
        BY <3>1, <3>2, <3>3 DEF Outcome
    <2> QED
      BY <2>1 DEF AnswerTellsTheOutcome
  <1> QED
    BY <1>1, ConnectionsInvAlways, PTL

(* The catch blocks of LoggingService and of the exception filter: an      *)
(* error answer has a cause other than a log that could not be written.    *)
THEOREM LogsAreExpendable == Spec => []LoggingNeverFailsARequest
PROOF
  <1>1. ASSUME ConnectionsInv PROVE LoggingNeverFailsARequest
    BY <1>1 DEF ConnectionsInv, RequestInv, Outcome, IsFailing,
                LoggingNeverFailsARequest
  <1> QED
    BY <1>1, ConnectionsInvAlways, PTL

(* Only a transaction that logs asks for a second connection, and it asks  *)
(* its own pool only when the logs have no database of their own; so only  *)
(* then can everyone wait on everyone.                                     *)
THEOREM OnlyASharedPoolDeadlocks == Spec => []CircularWaitNeedsTheSharedPool
PROOF
  <1>1. ASSUME ConnectionsInv PROVE CircularWaitNeedsTheSharedPool
    <2>1. ASSUME NEW d \in Database, CircularWait(d)
          PROVE  d = "MAIN" /\ "LOGS" \notin pools
      <3>1. PICK q \in Request :
              tx[q] = d /\ Waiting(q) /\ PoolOf(Current(q)) = d
        BY <2>1 DEF CircularWait, Nested
      <3>2. /\ todo[q] \in Plans /\ todo[q] # <<>> /\ Current(q) = Head(todo[q])
            /\ Holds(q) /\ Current(q) \in Borrows /\ ServerInv /\ d # NULL
        BY <1>1, <3>1, BusyRequest, ConnectionsAssumption DEF Waiting, ConnectionsInv
      <3>3. HasBegun(todo[q]) /\ d = "MAIN"
        BY <3>1, <3>2 DEF Holds
      <3>4. Current(q) = "log"
        BY <3>2, <3>3, PlanStep
      <3>5. LogsDatabase = "MAIN"
        BY <3>1, <3>3, <3>4 DEF PoolOf
      <3> QED
        BY <3>2, <3>3, <3>5 DEF LogsDatabase, ServerInv
    <2> QED
      BY <2>1 DEF CircularWaitNeedsTheSharedPool
  <1> QED
    BY <1>1, ConnectionsInvAlways, PTL
=============================================================================
