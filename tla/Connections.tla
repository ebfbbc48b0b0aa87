----------------------------- MODULE Connections -----------------------------
(***************************************************************************)
(* SqlServerService and those who share its pools: the start-up that       *)
(* connects to up to four databases, the bounded pools that statements and *)
(* transactions borrow connections from, LoggingService, the exception     *)
(* filter and the health check.                                            *)
(*                                                                         *)
(* What a request says to the database is left out; what matters is which  *)
(* connections it holds while it asks for another one.  The other modules  *)
(* of this project leave the pools out and say what the statements do.     *)
(*                                                                         *)
(* The pool is the one of the mssql package (tarn): a request that finds   *)
(* no free connection waits for one, and gives up after a time-out.        *)
(***************************************************************************)
EXTENDS Naturals, FiniteSets, Sequences

CONSTANTS
  Request,        \* the HTTP requests
  PoolMax,        \* the largest number of connections of each pool
  MultiDatabase,  \* MULTI_DATABASE_ENABLED
  RetryAttempts,  \* DB_RETRY_ATTEMPTS
  NULL            \* no connection, no answer

Database == {"MAIN", "ANALYTICS", "TENANT", "LOGS"}

(* What a request does with the pools, one entry for each await.           *)
(*   query       a handler that runs statements and does not log           *)
(*   logged      register, login, sendInvitation and forgotPassword        *)
(*   transaction the three transactions of CheckinService                  *)
(*   reset       resetPassword logs when its transaction is over           *)
(*   onboard     createTenantWithUser and acceptInvitation log inside it   *)
(*   health      detailedHealth tries two databases and survives both      *)
Program ==
  [query       |-> <<"statement">>,
   logged      |-> <<"statement", "log">>,
   transaction |-> <<"begin", "work", "commit">>,
   reset       |-> <<"statement", "begin", "work", "commit", "log">>,
   onboard     |-> <<"statement", "begin", "work", "log", "commit">>,
   health      |-> <<"mainTest", "logsTest">>]

Step == {"statement", "begin", "work", "commit", "rollback", "log", "errorLog",
         "mainTest", "logsTest"}

ASSUME ConnectionsAssumption ==
  /\ PoolMax \in [Database -> Nat \ {0}]
  /\ MultiDatabase \in BOOLEAN
  /\ RetryAttempts \in Nat
  /\ NULL \notin Database \cup DOMAIN Program \cup {"ok", "error"}

VARIABLES
  boot,     \* the database being connected, or "listening", or "down"
  attempt,  \* how many times connecting to it has failed
  pools,    \* the databases that have a pool
  kind,     \* the program of a request
  todo,     \* the steps it has left; its first step is under way
  conn,     \* the pool whose connection its statement uses
  tx,       \* the pool whose connection its transaction keeps
  reply,    \* what the client was told
  did,      \* history variable: the steps that succeeded
  failed    \* history variable: the steps that threw

server == <<boot, attempt, pools>>
vars == <<server, kind, todo, conn, tx, reply, did, failed>>

Init ==
  /\ boot = "MAIN"
  /\ attempt = 0
  /\ pools = {}
  /\ kind = [q \in Request |-> NULL]
  /\ todo = [q \in Request |-> <<>>]
  /\ conn = [q \in Request |-> NULL]
  /\ tx = [q \in Request |-> NULL]
  /\ reply = [q \in Request |-> NULL]
  /\ did = [q \in Request |-> {}]
  /\ failed = [q \in Request |-> {}]
-----------------------------------------------------------------------------
(* Start-up.                                                               *)

(* `retryAttempts || 3`: nought counts as unset.                           *)
Retries == IF RetryAttempts = 0 THEN 3 ELSE RetryAttempts

(* connectAll: one database after the other, and only MAIN without         *)
(* multiDatabase.                                                          *)
NextDatabase ==
  [MAIN |-> IF MultiDatabase THEN "ANALYTICS" ELSE "listening",
   ANALYTICS |-> "TENANT", TENANT |-> "LOGS", LOGS |-> "listening"]

Connect ==
  /\ boot \in Database
  /\ pools' = pools \cup {boot}
  /\ boot' = NextDatabase[boot]
  /\ attempt' = 0
  /\ UNCHANGED <<kind, todo, conn, tx, reply, did, failed>>

(* A retry is left.                                                        *)
Retry ==
  /\ attempt' = attempt + 1
  /\ UNCHANGED boot

(* None is left: MAIN stops the process, the others stay away.             *)
GiveUp ==
  /\ boot' = IF boot = "MAIN" THEN "down" ELSE NextDatabase[boot]
  /\ attempt' = 0

(* Slip: one attempt too many.                                             *)
ConnectFailsSlip ==
  /\ boot \in Database
  /\ IF attempt <= Retries THEN Retry ELSE GiveUp
  /\ UNCHANGED <<pools, kind, todo, conn, tx, reply, did, failed>>

(* Slip: the retries are counted anew.                                     *)
ConnectForEverSlip ==
  /\ boot \in Database
  /\ IF attempt < Retries THEN Retry ELSE attempt' = 0 /\ UNCHANGED boot
  /\ UNCHANGED <<pools, kind, todo, conn, tx, reply, did, failed>>

ConnectFails ==
  /\ boot \in Database
  /\ IF attempt < Retries THEN Retry ELSE GiveUp
  /\ UNCHANGED <<pools, kind, todo, conn, tx, reply, did, failed>>
-----------------------------------------------------------------------------
(* Slip: whether the database is connected is not asked.                   *)
PoolForSlip(d) == d

(* getPool: a database without a pool is served by MAIN's.                 *)
PoolFor(d) == IF d \in pools THEN d ELSE "MAIN"

(* Slip: the log is always kept in the main database.                      *)
LogsDatabaseSlip == "MAIN"

(* getLogsDatabase.                                                        *)
LogsDatabase == IF MultiDatabase /\ "LOGS" \in pools THEN "LOGS" ELSE "MAIN"

(* The pool a step borrows from; the others use their transaction's        *)
(* connection.                                                             *)
Borrows == {"statement", "begin", "log", "errorLog", "mainTest", "logsTest"}

PoolOf(step) ==
  CASE step = "log"      -> LogsDatabase
    [] step = "logsTest" -> PoolFor("LOGS")
    [] OTHER             -> PoolFor("MAIN")

InUse(d) == Cardinality({q \in Request : conn[q] = d})
              + Cardinality({q \in Request : tx[q] = d})

Current(q) == Head(todo[q])
Busy(q) == todo[q] # <<>>
Waiting(q) == Busy(q) /\ Current(q) \in Borrows /\ conn[q] = NULL
Running(q) == Busy(q) /\ ~Waiting(q)

(* Slip: the logger throws like any other statement.                       *)
SwallowedSlip == {"errorLog", "mainTest", "logsTest"}

(* Slip: transaction logs an error and does not rethrow it.                *)
NotRethrownSlip == {"log", "errorLog", "mainTest", "logsTest", "work"}

(* The steps whose failure stays in a catch block.                         *)
Swallowed == {"log", "errorLog", "mainTest", "logsTest"}

Arrive(q) ==
  /\ boot = "listening"
  /\ kind[q] = NULL
  /\ \E k \in DOMAIN Program : /\ kind' = [kind EXCEPT ![q] = k]
                               /\ todo' = [todo EXCEPT ![q] = Program[k]]
  /\ UNCHANGED <<server, conn, tx, reply, did, failed>>

(* The pool hands a connection to one of those who wait.                   *)
Grant(q) ==
  /\ Waiting(q)
  /\ InUse(PoolOf(Current(q))) < PoolMax[PoolOf(Current(q))]
  /\ conn' = [conn EXCEPT ![q] = PoolOf(Current(q))]
  /\ UNCHANGED <<server, kind, todo, tx, reply, did, failed>>

(* The handler goes on with `rest`.  Its client has the answer when        *)
(* nothing is left or when the exception filter, which does not wait for   *)
(* its own log, is all that is left.                                       *)
Continue(q, rest) ==
  /\ todo' = [todo EXCEPT ![q] = rest]
  /\ reply' = IF reply[q] # NULL THEN reply
              ELSE IF rest = <<>> THEN [reply EXCEPT ![q] = "ok"]
              ELSE IF Head(rest) = "errorLog" THEN [reply EXCEPT ![q] = "error"]
              ELSE reply

(* What a transaction keeps after a step: BEGIN takes the connection,      *)
(* COMMIT and ROLLBACK return it, whether or not they succeed.             *)
KeptBy(q, step) ==
  CASE step = "begin"                  -> conn[q]
    [] step \in {"commit", "rollback"} -> NULL
    [] OTHER                           -> tx[q]

Finish(q) ==
  /\ Running(q)
  /\ conn' = [conn EXCEPT ![q] = NULL]
  /\ tx' = [tx EXCEPT ![q] = KeptBy(q, Current(q))]
  /\ did' = [did EXCEPT ![q] = @ \cup {Current(q)}]
  /\ Continue(q, Tail(todo[q]))
  /\ UNCHANGED <<server, kind, failed>>

(* Slip: the error leaves the transaction open.                            *)
RecoverySlip(q) == <<"errorLog">>

(* The catch block of transaction rolls back, when there is a transaction; *)
(* then the exception filter logs the error on MAIN.                       *)
Recovery(q) ==
  IF tx[q] # NULL /\ Current(q) \in {"work", "log"}
  THEN <<"rollback", "errorLog">>
  ELSE <<"errorLog">>

(* The step throws.                                                        *)
Throw(q) ==
  /\ failed' = [failed EXCEPT ![q] = @ \cup {Current(q)}]
  /\ conn' = [conn EXCEPT ![q] = NULL]
  /\ tx' = [tx EXCEPT ![q] = IF Current(q) = "begin" THEN NULL
                             ELSE KeptBy(q, Current(q))]
  /\ Continue(q, IF Current(q) \in Swallowed THEN Tail(todo[q]) ELSE Recovery(q))
  /\ UNCHANGED <<server, kind, did>>

(* A statement fails, or runs out of its requestTimeout.                   *)
Fail(q) == Running(q) /\ Throw(q)

(* Slip: a request waits for a connection as long as it takes.             *)
TimeOutSlip(q) == FALSE /\ Throw(q)

(* Nobody returned a connection in time.                                   *)
TimeOut(q) == Waiting(q) /\ Throw(q)

Next ==
  \/ Connect
  \/ ConnectFails
  \/ \E q \in Request : Arrive(q) \/ Grant(q) \/ Finish(q) \/ Fail(q) \/ TimeOut(q)

(* The process keeps running its timers and callbacks: an attempt to       *)
(* connect ends, a statement ends or times out, and so does the wait for a *)
(* connection.  Nothing is assumed about which of the two it is.           *)
Fairness ==
  /\ WF_vars(Connect \/ ConnectFails)
  /\ \A q \in Request : WF_vars(Finish(q) \/ Fail(q) \/ TimeOut(q))

Spec == Init /\ [][Next]_vars /\ Fairness
-----------------------------------------------------------------------------
(* The type of the state.                                                  *)
TypeOK ==
  /\ boot \in Database \cup {"listening", "down"}
  /\ attempt \in 0 .. Retries
  /\ pools \subseteq Database
  /\ kind \in [Request -> DOMAIN Program \cup {NULL}]
  /\ todo \in [Request -> Seq(Step)]
  /\ conn \in [Request -> Database \cup {NULL}]
  /\ tx \in [Request -> Database \cup {NULL}]
  /\ reply \in [Request -> {"ok", "error", NULL}]
  /\ did \in [Request -> SUBSET Step]
  /\ failed \in [Request -> SUBSET Step]

(* The server listens only when it is connected to the main database, so   *)
(* the fallback of getPool always finds a pool: whoever holds a connection *)
(* or waits for one does so in a pool that exists, and no pool lends more  *)
(* connections than it has (connectDatabase, getPool, getLogsDatabase).    *)
PoolsExistAndSuffice ==
  \A d \in Database :
    /\ InUse(d) <= PoolMax[d]
    /\ \A q \in Request :
         (conn[q] = d \/ tx[q] = d \/ (Waiting(q) /\ PoolOf(Current(q)) = d))
           => d \in pools

(* SqlServerService.transaction ends what it began: a client has its       *)
(* answer only when the connection of its transaction is back in the pool, *)
(* even if the callback or the COMMIT threw, and even if the ROLLBACK did. *)
AnsweredHoldsNoTransaction ==
  \A q \in Request : reply[q] # NULL => tx[q] = NULL

(* The answer tells what became of the transaction: with "ok" everything   *)
(* the handler meant to do is committed; with an error nothing is, unless  *)
(* it was the COMMIT itself that got no answer.                            *)
AnswerTellsTheOutcome ==
  \A q \in Request :
    /\ reply[q] = "ok" /\ kind[q] \in {"transaction", "reset", "onboard"}
         => {"begin", "work", "commit"} \subseteq did[q]
    /\ reply[q] = "error" => "commit" \notin did[q]

(* LoggingService and the exception filter swallow their errors: no        *)
(* request fails that would have succeeded without them, not even when its *)
(* log waits in vain for a connection of the pool its own transaction      *)
(* belongs to.                                                             *)
LoggingNeverFailsARequest ==
  \A q \in Request : reply[q] = "error" => failed[q] \ {"log", "errorLog"} # {}

(* The requests that hold a connection of a pool and wait for another one  *)
(* of the same pool.                                                       *)
Nested(d) == {q \in Request : tx[q] = d /\ Waiting(q) /\ PoolOf(Current(q)) = d}

(* Everyone waits on everyone: a pool is exhausted by transactions that    *)
(* all wait for one more of its connections (the logActivity inside        *)
(* createTenantWithUser and acceptInvitation).  Only the time-out ends it. *)
(* A separate logs database that is connected rules it out.                *)
CircularWait(d) == Nested(d) # {} /\ Cardinality(Nested(d)) = PoolMax[d]

CircularWaitNeedsTheSharedPool ==
  \A d \in Database : CircularWait(d) => d = "MAIN" /\ "LOGS" \notin pools

(* Start-up ends: the server listens, or stops without the main database.  *)
StartUpEnds == <>(boot \in {"listening", "down"})

(* Every request is answered, though two may wait for each other's         *)
(* connection, and once the logs of the exception filter are written every *)
(* connection is back in its pool.                                         *)
EveryRequestIsAnswered ==
  \A q \in Request :
    kind[q] # NULL ~> (reply[q] # NULL /\ ~Busy(q) /\ conn[q] = NULL /\ tx[q] = NULL)
=============================================================================
