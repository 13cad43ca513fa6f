------------------------------- MODULE Server -------------------------------
(***************************************************************************)
(* One API process after the other, from start to stop, and its pool of    *)
(* database connections.  main listens until a signal, lets Shutdown drain *)
(* the running requests for at most five seconds, closes the pool and      *)
(* returns, which ends whatever still runs.  A statement outside a         *)
(* transaction takes a connection from the pool and gives it back; WithTx  *)
(* keeps one from BEGIN to COMMIT or ROLLBACK.  What the statements do to  *)
(* the tables is TaskFlow's matter: here each request writes once, or not  *)
(* at all, and all updates and deletes are of one row.                     *)
(***************************************************************************)
CONSTANTS Req,   \* requests; each is sent once
          Conn,  \* SetMaxOpenConns(25)
          Idle   \* the owner of a connection that nobody uses

ASSUME IdleAssumption == Idle \notin Req

VARIABLES
    phase,     \* how far main has got
    overdue,   \* the five seconds of Shutdown are over
    route,     \* what each request asks for
    pc,        \* the statement each request runs, or waits to run
    owner,     \* who has which connection
    committed, \* the requests whose write is in the database for good
    reply      \* the status the handler decided on: 200 any 2xx, 404 any 4xx

vars == <<phase, overdue, route, pc, owner, committed, reply>>

Phase   == {"down", "listening", "draining", "closing", "closed"}
Route   == {"health", "stats", "createTask", "deleteTask", "updateTask"}
Writing == {"createTask", "deleteTask", "updateTask"}

(* Statements that ask the pool for a connection, and those that run on    *)
(* the one of their transaction.                                           *)
OnPool    == {"find", "check", "byStatus", "byAssignee", "write", "begin"}
InTx      == {"update", "reload", "commit"}
Statement == OnPool \union InTx
Running   == Statement \union {"respond"}
Over      == {"answered", "hungUp", "killed"}

Undecided == 0

Init ==
    /\ phase = "down"
    /\ overdue = FALSE
    /\ route \in [Req -> Route]
    /\ pc = [r \in Req |-> "outside"]
    /\ owner = [c \in Conn |-> Idle]
    /\ committed = {}
    /\ reply = [r \in Req |-> Undecided]

Holds(r)   == \E c \in Conn : owner[c] = r
Release(r) == owner' = [c \in Conn |-> IF owner[c] = r THEN Idle ELSE owner[c]]

Goto(r, label) == pc' = [pc EXCEPT ![r] = label] /\ UNCHANGED reply

Answer(r, code) ==
    /\ pc' = [pc EXCEPT ![r] = "respond"]
    /\ reply' = [reply EXCEPT ![r] = code]

Main == <<phase, overdue>>

-----------------------------------------------------------------------------
(* A request and its connections.                                          *)

Accept(r) ==
    /\ phase = "listening"
    /\ pc[r] = "outside"
    /\ IF route[r] = "health" THEN Answer(r, 200) ELSE Goto(r, "find")
    /\ UNCHANGED <<Main, route, owner, committed>>

Acquire(r) ==
    /\ pc[r] \in OnPool
    /\ ~Holds(r)
    /\ phase # "closed"
    /\ \E c \in Conn : owner[c] = Idle /\ owner' = [owner EXCEPT ![c] = r]
    /\ UNCHANGED <<Main, route, pc, committed, reply>>

(* "sql: database is closed" is no error of the domain: 500.               *)
PoolClosed(r) ==
    /\ pc[r] \in OnPool
    /\ ~Holds(r)
    /\ phase = "closed"
    /\ Answer(r, 500)
    /\ UNCHANGED <<Main, route, owner, committed>>

(* The SELECTs before the write, any of which may refuse.  A route has one *)
(* to five of them; two stand for more than one.                           *)
Check(r) ==
    /\ pc[r] \in {"find", "check"}
    /\ Holds(r)
    /\ \/ Answer(r, 404)
       \/ pc[r] = "find" /\ Goto(r, "check")
       \/ route[r] = "stats" /\ Goto(r, "byStatus")
       \/ route[r] = "updateTask" /\ Goto(r, "begin")
       \/ route[r] \in {"createTask", "deleteTask"} /\ Goto(r, "write")
    /\ Release(r)
    /\ UNCHANGED <<Main, route, committed>>

(* Variant: the rows of the first query are still open in the second.      *)
ByStatusUnread(r) ==
    /\ pc[r] = "byStatus"
    /\ Holds(r)
    /\ \E c \in Conn : owner[c] = Idle
    /\ Goto(r, "byAssignee")
    /\ UNCHANGED <<Main, route, owner, committed>>

(* rows.Next returns FALSE, which gives the connection back, before the    *)
(* second query asks for one.                                              *)
ByStatus(r) ==
    /\ pc[r] = "byStatus"
    /\ Holds(r)
    /\ Goto(r, "byAssignee")
    /\ Release(r)
    /\ UNCHANGED <<Main, route, committed>>

ByAssignee(r) ==
    /\ pc[r] = "byAssignee"
    /\ Holds(r)
    /\ Answer(r, 200)
    /\ Release(r)
    /\ UNCHANGED <<Main, route, committed>>

(* An update that is not committed yet has the row.                        *)
RowTaken(r) == \E q \in Req \ {r} : pc[q] \in {"reload", "commit"}

(* One statement that commits by itself: an INSERT, which may fail on the  *)
(* project (unmapped: 500), or a DELETE, which may find nothing.           *)
Write(r) ==
    /\ pc[r] = "write"
    /\ Holds(r)
    /\ route[r] = "deleteTask" => ~RowTaken(r)
    /\ \/ Answer(r, 200) /\ committed' = committed \union {r}
       \/ /\ Answer(r, IF route[r] = "deleteTask" THEN 404 ELSE 500)
          /\ UNCHANGED committed
    /\ Release(r)
    /\ UNCHANGED <<Main, route>>

Begin(r) ==
    /\ pc[r] = "begin"
    /\ Holds(r)
    /\ Goto(r, "update")
    /\ UNCHANGED <<Main, route, owner, committed>>

(* Variant: WithTx returns fn's error without a Rollback.                  *)
UpdateNotRolledBack(r) ==
    /\ pc[r] = "update"
    /\ ~RowTaken(r)
    /\ Goto(r, "reload") \/ Answer(r, 404)
    /\ UNCHANGED <<Main, route, owner, committed>>

(* No row: WithTx rolls back.                                              *)
Update(r) ==
    /\ pc[r] = "update"
    /\ ~RowTaken(r)
    /\ \/ Goto(r, "reload") /\ UNCHANGED owner
       \/ Answer(r, 404) /\ Release(r)
    /\ UNCHANGED <<Main, route, committed>>

(* Variant: the reload goes to s.tasks, the repository on the pool.        *)
ReloadOnPool(r) ==
    /\ pc[r] = "reload"
    /\ \E c \in Conn : owner[c] = Idle
    /\ Goto(r, "commit")
    /\ UNCHANGED <<Main, route, owner, committed>>

Reload(r) ==
    /\ pc[r] = "reload"
    /\ Goto(r, "commit")
    /\ UNCHANGED <<Main, route, owner, committed>>

Commit(r) ==
    /\ pc[r] = "commit"
    /\ Answer(r, 200)
    /\ committed' = committed \union {r}
    /\ Release(r)
    /\ UNCHANGED <<Main, route>>

(* A statement that is cut short may have been carried out.  One that      *)
(* waits in PostgreSQL while its client dies may even be so later, at a    *)
(* time of its own; it is decided here and now.  Nobody can tell: such a   *)
(* request is answered with nothing or 500, which Service leaves open.     *)
InFlight == {r \in Req : Holds(r) /\ pc[r] \in {"write", "commit"}}
CutShort(S) == \E A \in SUBSET (S \intersect InFlight) : committed' = committed \union A

(* Variant: WithTx drops the error of Commit.                              *)
FailUnnoticed(r) ==
    /\ pc[r] \in Statement
    /\ Holds(r)
    /\ Answer(r, IF pc[r] = "commit" THEN 200 ELSE 500)
    /\ Release(r)
    /\ CutShort({r})
    /\ UNCHANGED <<Main, route>>

(* The database fails under a statement: wrapped, unmapped, 500.           *)
Fail(r) ==
    /\ pc[r] \in Statement
    /\ Holds(r)
    /\ Answer(r, 500)
    /\ Release(r)
    /\ CutShort({r})
    /\ UNCHANGED <<Main, route>>

(* The client goes away, its context is cancelled, the transaction with it.*)
HangUp(r) ==
    /\ pc[r] \in Running
    /\ pc' = [pc EXCEPT ![r] = "hungUp"]
    /\ Release(r)
    /\ CutShort({r})
    /\ UNCHANGED <<Main, route, reply>>

Respond(r) ==
    /\ pc[r] = "respond"
    /\ Goto(r, "answered")
    /\ UNCHANGED <<Main, route, owner, committed>>

-----------------------------------------------------------------------------
(* main.                                                                   *)

(* The configuration is complete and the ping got through; otherwise main  *)
(* exits, and this is the start of a later process.                        *)
Start ==
    /\ phase = "down"
    /\ phase' = "listening"
    /\ overdue' = FALSE
    /\ UNCHANGED <<route, pc, owner, committed, reply>>

Signal ==
    /\ phase = "listening"
    /\ phase' = "draining"
    /\ UNCHANGED <<overdue, route, pc, owner, committed, reply>>

(* context.WithTimeout(context.Background(), 5*time.Second)                *)
Deadline ==
    /\ phase = "draining"
    /\ ~overdue
    /\ overdue' = TRUE
    /\ UNCHANGED <<phase, route, pc, owner, committed, reply>>

Active == {r \in Req : pc[r] \in Running}

(* Variant: srv.Close in the place of srv.Shutdown.                        *)
CloseListener ==
    /\ phase = "draining"
    /\ phase' = "closing"
    /\ UNCHANGED <<overdue, route, pc, owner, committed, reply>>

(* Variant: Shutdown with a context that has no deadline.                  *)
ShutdownUnbounded ==
    /\ phase = "draining"
    /\ Active = {}
    /\ phase' = "closing"
    /\ UNCHANGED <<overdue, route, pc, owner, committed, reply>>

ShutdownReturns ==
    /\ phase = "draining"
    /\ Active = {} \/ overdue
    /\ phase' = "closing"
    /\ UNCHANGED <<overdue, route, pc, owner, committed, reply>>

(* A transaction keeps its connection; the pool hands out no other.        *)
CloseDB ==
    /\ phase = "closing"
    /\ phase' = "closed"
    /\ UNCHANGED <<overdue, route, pc, owner, committed, reply>>

(* The process is gone, its goroutines and connections with it, and        *)
(* PostgreSQL rolls back what was open.                                    *)
Die ==
    /\ phase' = "down"
    /\ pc' = [r \in Req |-> IF r \in Active THEN "killed" ELSE pc[r]]
    /\ owner' = [c \in Conn |-> Idle]
    /\ CutShort(Active)
    /\ UNCHANGED <<overdue, route, reply>>

Exit  == phase = "closed" /\ Die
Crash == phase # "down" /\ Die

Step(r) ==
    \/ Acquire(r) \/ PoolClosed(r) \/ Check(r) \/ ByStatus(r) \/ ByAssignee(r)
    \/ Write(r) \/ Begin(r) \/ Update(r) \/ Reload(r) \/ Commit(r) \/ Respond(r)

Stop == ShutdownReturns \/ CloseDB \/ Exit

Next ==
    \/ \E r \in Req : Accept(r) \/ Step(r) \/ Fail(r) \/ HangUp(r)
    \/ Start \/ Signal \/ Deadline \/ Stop \/ Crash

Spec == Init /\ [][Next]_vars

(* The runtime runs main and lets timers fire.  Nobody has to send, leave  *)
(* or fail, and a handler may hang in the database.                        *)
Fairness == WF_vars(Deadline) /\ WF_vars(Stop)

FairSpec == Spec /\ Fairness

(* No handler hangs: the runtime and the database get on with each.        *)
NoneHangs == \A r \in Req : WF_vars(Step(r))

-----------------------------------------------------------------------------
(* Properties.                                                             *)

(* Every variable holds what main, database/sql and the handlers put there.*)
TypeOK ==
    /\ phase \in Phase
    /\ overdue \in BOOLEAN
    /\ route \in [Req -> Route]
    /\ pc \in [Req -> {"outside"} \union Running \union Over]
    /\ owner \in [Conn -> Req \union {Idle}]
    /\ committed \subseteq Req
    /\ reply \in [Req -> {Undecided, 200, 404, 500}]

(* No connection leaks: only a request at a statement has one, it has one  *)
(* only, and has it throughout a transaction.                              *)
ConnectionsReturned ==
    /\ \A c \in Conn : owner[c] # Idle => pc[owner[c]] \in Statement
    /\ \A c, d \in Conn : owner[c] = owner[d] /\ owner[c] # Idle => c = d
    /\ \A r \in Req : pc[r] \in InTx => Holds(r)

(* README.md:7, "graceful shutdown": main closes the pool under a running  *)
(* request only when the five seconds are over.                            *)
DrainedBeforeClose ==
    phase \in {"closing", "closed"} /\ ~overdue => Active = {}

(* What a request has committed by the time it is where it is.             *)
CommittedBefore(r) ==
    /\ pc[r] \in {"outside"} \union Statement => r \notin committed
    /\ pc[r] \in {"respond", "answered"} =>
           /\ reply[r] # Undecided
           /\ reply[r] = 200 /\ route[r] \in Writing => r \in committed
           /\ reply[r] = 404 => r \notin committed
    /\ r \in committed => route[r] \in Writing

(* Which route is at which statement.                                      *)
Plan(r) ==
    /\ pc[r] \in Statement => route[r] # "health"
    /\ pc[r] \in {"byStatus", "byAssignee"} => route[r] = "stats"
    /\ pc[r] \in InTx \union {"begin"} => route[r] = "updateTask"
    /\ pc[r] = "write" => route[r] \in {"createTask", "deleteTask"}

IInv ==
    /\ TypeOK
    /\ ConnectionsReturned
    /\ DrainedBeforeClose
    /\ \A r \in Req : CommittedBefore(r) /\ Plan(r)

(* Through shutdowns, crashes and failing statements, an answer means what *)
(* Service says: a 2xx is sent after the COMMIT, a 4xx without one.        *)
Told(r) ==
    CASE pc[r] = "answered" /\ reply[r] = 200 -> "yes"
      [] pc[r] = "answered" /\ reply[r] = 404 -> "no"
      [] pc[r] \in Running \union {"outside"} -> "pending"
      [] OTHER -> "unknown"

Promised == INSTANCE Service WITH
                writes  <- {r \in Req : route[r] \in Writing},
                applied <- committed,
                told    <- [r \in Req |-> Told(r)]
ServiceSpec == Promised!Spec

(* However small the pool, and whoever waits for a row with a connection   *)
(* in hand, no request waits for a connection or a row for ever.           *)
EveryRequestEnds == NoneHangs => \A r \in Req : pc[r] \in Running ~> pc[r] \in Over

(* A signal ends the process even if every handler hangs.                  *)
SignalEndsProcess == phase = "draining" ~> phase = "down"
=============================================================================
