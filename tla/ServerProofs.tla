---------------------------- MODULE ServerProofs ----------------------------
(***************************************************************************)
(* Neither a shutdown, a crash nor a failing statement leaks a connection, *)
(* closes the pool too early, or makes an answer untrue, for any number of *)
(* requests and connections.                                               *)
(***************************************************************************)
EXTENDS Server, TLAPS

Handler(r) == Accept(r) \/ Step(r) \/ Fail(r) \/ HangUp(r)
MainStep   == Start \/ Signal \/ Deadline \/ ShutdownReturns \/ CloseDB \/ Exit \/ Crash

LEMMA Steps ==
    ASSUME [Next]_vars
    PROVE  (\E r \in Req : Handler(r)) \/ MainStep \/ UNCHANGED vars
  BY DEF Next, Stop, Handler, MainStep

(* What is cut short was a write or a COMMIT under way.                    *)
LEMMA CutShortAdds ==
    ASSUME NEW S \in SUBSET Req, TypeOK, CutShort(S)
    PROVE  /\ committed \subseteq committed' /\ committed' \subseteq Req
           /\ \A q \in Req : q \in committed' \ committed =>
                  q \in S /\ Holds(q) /\ pc[q] \in {"write", "commit"}
  BY DEF CutShort, InFlight, TypeOK

-----------------------------------------------------------------------------
(* Types.                                                                  *)

LEMMA HandlerType ==
    ASSUME TypeOK, NEW r \in Req, Handler(r)
    PROVE  TypeOK'
  <1> USE DEF TypeOK
  <1> USE DEF Running, Statement, OnPool, InTx, Over, Main, Goto, Answer, Release, Undecided
  <1>1. CASE Accept(r)      BY <1>1 DEF Accept
  <1>2. CASE Acquire(r)     BY <1>2 DEF Acquire
  <1>3. CASE PoolClosed(r)  BY <1>3 DEF PoolClosed
  <1>4. CASE Check(r)       BY <1>4 DEF Check
  <1>5. CASE ByStatus(r)    BY <1>5 DEF ByStatus
  <1>6. CASE ByAssignee(r)  BY <1>6 DEF ByAssignee
  <1>7. CASE Write(r)       BY <1>7 DEF Write
  <1>8. CASE Begin(r)       BY <1>8 DEF Begin
  <1>9. CASE Update(r)      BY <1>9 DEF Update
  <1>10. CASE Reload(r)     BY <1>10 DEF Reload
  <1>11. CASE Commit(r)     BY <1>11 DEF Commit
  <1>12. CASE Respond(r)    BY <1>12 DEF Respond
  <1>13. CASE Fail(r)       BY <1>13, CutShortAdds DEF Fail
  <1>14. CASE HangUp(r)     BY <1>14, CutShortAdds DEF HangUp
  <1> QED BY <1>1, <1>2, <1>3, <1>4, <1>5, <1>6, <1>7, <1>8, <1>9, <1>10, <1>11, <1>12, <1>13, <1>14
          DEF Handler, Step

LEMMA MainType ==
    ASSUME TypeOK, MainStep
    PROVE  TypeOK'
  <1> USE DEF TypeOK, Phase, Route, Undecided, Running, Statement, OnPool, InTx, Over
  <1>1. CASE Die
      BY <1>1, CutShortAdds DEF Die, Active
  <1>2. CASE ~Die
    <2>1. UNCHANGED <<route, pc, owner, committed, reply>> /\ phase' \in Phase /\ overdue' \in BOOLEAN
        BY <1>2 DEF MainStep, Start, Signal, Deadline, ShutdownReturns, CloseDB, Exit, Crash
    <2> QED BY <2>1
  <1> QED BY <1>1, <1>2

-----------------------------------------------------------------------------
(* Connections.                                                            *)

(* A handler touches no other request and no connection of another.        *)
LEMMA HandlerLocal ==
    ASSUME TypeOK, NEW r \in Req, Handler(r)
    PROVE  /\ UNCHANGED <<phase, overdue, route>>
           /\ \A q \in Req \ {r} : pc'[q] = pc[q] /\ reply'[q] = reply[q]
           /\ committed \subseteq committed' /\ committed' \subseteq committed \union {r}
  <1> USE DEF TypeOK
  <1> USE DEF Main, Goto, Answer
  <1>1. CASE Accept(r)      BY <1>1 DEF Accept
  <1>2. CASE Acquire(r)     BY <1>2 DEF Acquire
  <1>3. CASE PoolClosed(r)  BY <1>3 DEF PoolClosed
  <1>4. CASE Check(r)       BY <1>4 DEF Check
  <1>5. CASE ByStatus(r)    BY <1>5 DEF ByStatus
  <1>6. CASE ByAssignee(r)  BY <1>6 DEF ByAssignee
  <1>7. CASE Write(r)       BY <1>7 DEF Write
  <1>8. CASE Begin(r)       BY <1>8 DEF Begin
  <1>9. CASE Update(r)      BY <1>9 DEF Update
  <1>10. CASE Reload(r)     BY <1>10 DEF Reload
  <1>11. CASE Commit(r)     BY <1>11 DEF Commit
  <1>12. CASE Respond(r)    BY <1>12 DEF Respond
  <1>13. CASE Fail(r)       BY <1>13, CutShortAdds DEF Fail
  <1>14. CASE HangUp(r)     BY <1>14, CutShortAdds DEF HangUp
  <1> QED BY <1>1, <1>2, <1>3, <1>4, <1>5, <1>6, <1>7, <1>8, <1>9, <1>10, <1>11, <1>12, <1>13, <1>14
          DEF Handler, Step

(* A handler takes a connection to ask a statement on the pool, and keeps  *)
(* it only from BEGIN to COMMIT.                                           *)
LEMMA HandlerConnection ==
    ASSUME TypeOK, ConnectionsReturned, NEW r \in Req, Handler(r)
    PROVE  \/ /\ ~Holds(r) /\ pc[r] \in OnPool /\ pc'[r] = pc[r]
              /\ \E c \in Conn : owner[c] = Idle /\ owner' = [owner EXCEPT ![c] = r]
           \/ owner' = owner /\ pc[r] \in InTx \union {"begin"} /\ Holds(r) /\ pc'[r] \in InTx
           \/ owner' = owner /\ ~Holds(r) /\ pc'[r] \notin InTx
           \/ Release(r) /\ pc'[r] \notin InTx
  <1> USE DEF TypeOK
  <1> USE DEF OnPool, InTx, Over, Goto, Answer
  <1>0. pc[r] \notin Statement => ~Holds(r)
      BY IdleAssumption DEF ConnectionsReturned, Holds
  <1>1. CASE Accept(r)      BY <1>1, <1>0 DEF Accept, Statement
  <1>2. CASE Acquire(r)     BY <1>2 DEF Acquire
  <1>3. CASE PoolClosed(r)  BY <1>3 DEF PoolClosed
  <1>4. CASE Check(r)       BY <1>4 DEF Check
  <1>5. CASE ByStatus(r)    BY <1>5 DEF ByStatus
  <1>6. CASE ByAssignee(r)  BY <1>6 DEF ByAssignee
  <1>7. CASE Write(r)       BY <1>7 DEF Write
  <1>8. CASE Begin(r)       BY <1>8 DEF Begin
  <1>9. CASE Update(r)      BY <1>9 DEF Update, ConnectionsReturned
  <1>10. CASE Reload(r)     BY <1>10 DEF Reload, ConnectionsReturned
  <1>11. CASE Commit(r)     BY <1>11 DEF Commit
  <1>12. CASE Respond(r)    BY <1>12, <1>0 DEF Respond, Statement
  <1>13. CASE Fail(r)       BY <1>13 DEF Fail
  <1>14. CASE HangUp(r)     BY <1>14 DEF HangUp
  <1> QED BY <1>1, <1>2, <1>3, <1>4, <1>5, <1>6, <1>7, <1>8, <1>9, <1>10, <1>11, <1>12, <1>13, <1>14
          DEF Handler, Step

LEMMA HandlerReturns ==
    ASSUME TypeOK, ConnectionsReturned, NEW r \in Req, Handler(r)
    PROVE  ConnectionsReturned'
  <1>0. TypeOK' /\ \A q \in Req \ {r} : pc'[q] = pc[q]
      BY HandlerType, HandlerLocal
  <1> USE <1>0, IdleAssumption DEF TypeOK, ConnectionsReturned, Holds
  <1>1. CASE /\ ~Holds(r) /\ pc[r] \in OnPool /\ pc'[r] = pc[r]
             /\ \E c \in Conn : owner[c] = Idle /\ owner' = [owner EXCEPT ![c] = r]
      BY <1>1 DEF Statement, OnPool, InTx
  <1>2. CASE owner' = owner /\ pc[r] \in InTx \union {"begin"} /\ Holds(r) /\ pc'[r] \in InTx
      BY <1>2 DEF Statement
  <1>3. CASE owner' = owner /\ ~Holds(r) /\ pc'[r] \notin InTx
      BY <1>3
  <1>4. CASE Release(r) /\ pc'[r] \notin InTx
      BY <1>4 DEF Release
  <1> QED BY <1>1, <1>2, <1>3, <1>4, HandlerConnection

LEMMA MainReturns ==
    ASSUME TypeOK, ConnectionsReturned, MainStep
    PROVE  ConnectionsReturned'
  <1> USE IdleAssumption DEF TypeOK, ConnectionsReturned, Holds
  <1>1. CASE Die
      BY <1>1 DEF Die, Active, Running, Statement, OnPool, InTx, Over
  <1>2. CASE ~Die
      BY <1>2 DEF MainStep, Start, Signal, Deadline, ShutdownReturns, CloseDB, Exit, Crash
  <1> QED BY <1>1, <1>2

-----------------------------------------------------------------------------
(* The shutdown.                                                           *)

(* Only Accept starts a request, and main has stopped accepting.           *)
LEMMA HandlerDrained ==
    ASSUME TypeOK, DrainedBeforeClose, NEW r \in Req, Handler(r)
    PROVE  DrainedBeforeClose'
  <1>1. CASE pc[r] \in Running
      BY <1>1, HandlerLocal DEF DrainedBeforeClose, Active
  <1>2. CASE pc[r] \notin Running
    <2>1. Accept(r)
        BY <1>2 DEF Handler, Step, Acquire, PoolClosed, Check, ByStatus, ByAssignee, Write, Begin,
               Update, Reload, Commit, Respond, Fail, HangUp, Running, Statement, OnPool, InTx
    <2> QED BY <2>1, HandlerLocal DEF Accept, DrainedBeforeClose
  <1> QED BY <1>1, <1>2

LEMMA MainDrained ==
    ASSUME TypeOK, DrainedBeforeClose, MainStep
    PROVE  DrainedBeforeClose'
  <1>1. CASE Die
      BY <1>1 DEF Die, DrainedBeforeClose
  <1>2. CASE ~Die
      BY <1>2 DEF MainStep, Start, Signal, Deadline, ShutdownReturns, CloseDB, Exit, Crash,
             DrainedBeforeClose, Active, TypeOK
  <1> QED BY <1>1, <1>2

-----------------------------------------------------------------------------
(* Commits and answers.                                                    *)

LEMMA HandlerCommits ==
    ASSUME TypeOK, NEW r \in Req, CommittedBefore(r), Plan(r), Handler(r)
    PROVE  CommittedBefore(r)' /\ Plan(r)'
  <1> USE DEF TypeOK, CommittedBefore, Plan
  <1> USE DEF Running, Statement, OnPool, InTx, Over, Main, Goto, Answer, Undecided, Writing, Route
  <1>1. CASE Accept(r)      BY <1>1 DEF Accept
  <1>2. CASE Acquire(r)     BY <1>2 DEF Acquire
  <1>3. CASE PoolClosed(r)  BY <1>3 DEF PoolClosed
  <1>4. CASE Check(r)       BY <1>4 DEF Check
  <1>5. CASE ByStatus(r)    BY <1>5 DEF ByStatus
  <1>6. CASE ByAssignee(r)  BY <1>6 DEF ByAssignee
  <1>7. CASE Write(r)       BY <1>7 DEF Write
  <1>8. CASE Begin(r)       BY <1>8 DEF Begin
  <1>9. CASE Update(r)      BY <1>9 DEF Update
  <1>10. CASE Reload(r)     BY <1>10 DEF Reload
  <1>11. CASE Commit(r)     BY <1>11 DEF Commit
  <1>12. CASE Respond(r)    BY <1>12 DEF Respond
  <1>13. CASE Fail(r)       BY <1>13, CutShortAdds DEF Fail
  <1>14. CASE HangUp(r)     BY <1>14, CutShortAdds DEF HangUp
  <1> QED BY <1>1, <1>2, <1>3, <1>4, <1>5, <1>6, <1>7, <1>8, <1>9, <1>10, <1>11, <1>12, <1>13, <1>14
          DEF Handler, Step

LEMMA MainCommits ==
    ASSUME TypeOK, NEW r \in Req, CommittedBefore(r), Plan(r), MainStep
    PROVE  CommittedBefore(r)' /\ Plan(r)'
  <1> USE DEF TypeOK, CommittedBefore, Plan
  <1> USE DEF Running, Statement, OnPool, InTx, Over, Undecided, Writing, Route
  <1>1. CASE Die
      BY <1>1, CutShortAdds DEF Die, Active
  <1>2. CASE ~Die
      BY <1>2 DEF MainStep, Start, Signal, Deadline, ShutdownReturns, CloseDB, Exit, Crash
  <1> QED BY <1>1, <1>2

-----------------------------------------------------------------------------
(* The invariant.                                                          *)

LEMMA InitIInv == Init => IInv
  <1> SUFFICES ASSUME Init
               PROVE  IInv
      OBVIOUS
  <1> USE DEF Init, Running, Statement, OnPool, InTx, Over
  <1>1. TypeOK
      BY DEF TypeOK, Phase, Undecided
  <1>2. ConnectionsReturned /\ DrainedBeforeClose
      BY DEF ConnectionsReturned, DrainedBeforeClose
  <1>3. ASSUME NEW r \in Req
        PROVE  CommittedBefore(r) /\ Plan(r)
      BY DEF CommittedBefore, Plan
  <1> QED BY <1>1, <1>2, <1>3 DEF IInv

LEMMA NextIInv == IInv /\ [Next]_vars => IInv'
  <1> SUFFICES ASSUME IInv, [Next]_vars
               PROVE  IInv'
      OBVIOUS
  <1> USE DEF IInv
  <1>1. ASSUME NEW r \in Req, Handler(r)
        PROVE  IInv'
    <2>1. TypeOK' /\ ConnectionsReturned' /\ DrainedBeforeClose'
        BY <1>1, HandlerType, HandlerReturns, HandlerDrained
    <2>2. CommittedBefore(r)' /\ Plan(r)'
        BY <1>1, HandlerCommits
    <2>3. ASSUME NEW q \in Req \ {r}
          PROVE  CommittedBefore(q)' /\ Plan(q)'
        BY <1>1, <2>3, HandlerLocal DEF CommittedBefore, Plan, Running, Statement, OnPool, InTx, Undecided, Writing
    <2> QED BY <2>1, <2>2, <2>3
  <1>2. ASSUME MainStep
        PROVE  IInv'
    <2>1. TypeOK' /\ ConnectionsReturned' /\ DrainedBeforeClose'
        BY <1>2, MainType, MainReturns, MainDrained
    <2>2. ASSUME NEW q \in Req
          PROVE  CommittedBefore(q)' /\ Plan(q)'
        BY <1>2, <2>2, MainCommits
    <2> QED BY <2>1, <2>2
  <1>3. CASE UNCHANGED vars
      BY <1>3 DEF vars, TypeOK, ConnectionsReturned, DrainedBeforeClose, CommittedBefore, Plan, Phase, Route,
         Undecided, Running, Statement, OnPool, InTx, Over, Writing, Active, Holds
  <1> QED BY <1>1, <1>2, <1>3, Steps

(* Through signals, crashes and errors, who holds a connection, what has   *)
(* been committed and what is answered fit together.                       *)
THEOREM Invariance == Spec => []IInv
  BY InitIInv, NextIInv, PTL DEF Spec

(* Every variable of the server keeps its type.                            *)
THEOREM TypeCorrect == Spec => []TypeOK
  <1>1. IInv => TypeOK
      BY DEF IInv
  <1> QED BY <1>1, Invariance, PTL

(* The pool gets every connection back, whichever way a request ends.      *)
THEOREM NoLeak == Spec => []ConnectionsReturned
  <1>1. IInv => ConnectionsReturned
      BY DEF IInv
  <1> QED BY <1>1, Invariance, PTL

(* Unless the deadline passes, the pool is closed only when no request     *)
(* runs.                                                                   *)
THEOREM Drained == Spec => []DrainedBeforeClose
  <1>1. IInv => DrainedBeforeClose
      BY DEF IInv
  <1> QED BY <1>1, Invariance, PTL
-----------------------------------------------------------------------------
(* What clients are told: Server implements Service.                       *)

Writes == {r \in Req : route[r] \in Writing}
Fates  == [r \in Req |-> Told(r)]

LEMMA ToldIs ==
    ASSUME IInv, NEW r \in Req
    PROVE  /\ Told(r) = "pending" <=> pc[r] \in {"outside"} \union Running
           /\ Told(r) = "yes" <=> pc[r] = "answered" /\ reply[r] = 200
           /\ Told(r) = "no" <=> pc[r] = "answered" /\ reply[r] = 404
           /\ Told(r) \in {"pending", "yes", "no", "unknown"}
  BY DEF Told, IInv, TypeOK, Running, Statement, OnPool, InTx, Over

LEMMA OthersUntold ==
    ASSUME IInv, IInv', NEW r \in Req, Handler(r)
    PROVE  /\ Writes' = Writes
           /\ \A q \in Req \ {r} : Told(q)' = Told(q)
           /\ committed \subseteq committed' /\ committed' \subseteq committed \union {r}
           /\ r \in committed' => r \in Writes
           /\ Told(r) = "pending"
  <1>1. /\ route' = route
        /\ \A q \in Req \ {r} : pc'[q] = pc[q] /\ reply'[q] = reply[q]
        /\ committed \subseteq committed' /\ committed' \subseteq committed \union {r}
      BY HandlerLocal DEF IInv
  <1>2. \A q \in Req \ {r} : Told(q)' = Told(q)
      BY <1>1 DEF Told, Running, Statement, OnPool, InTx
  <1>3. Writes' = Writes /\ (r \in committed' => r \in Writes)
      BY <1>1 DEF Writes, IInv, CommittedBefore, Writing
  <1>4. pc[r] \in {"outside"} \union Running
      BY DEF Handler, Step, Accept, Acquire, PoolClosed, Check, ByStatus, ByAssignee, Write, Begin, Update,
         Reload, Commit, Respond, Fail, HangUp, Running, Statement, OnPool, InTx
  <1> QED BY <1>1, <1>2, <1>3, <1>4, ToldIs

(* Before a request is answered or given up it applies its write, or       *)
(* nothing happens.                                                        *)
LEMMA PendingRefines ==
    ASSUME IInv, IInv', NEW r \in Req, Handler(r), pc'[r] \in {"outside"} \union Running
    PROVE  [Promised!Next]_(Promised!vars)
  <1>1. Told(r)' = "pending"
      BY DEF Told, Running, Statement, OnPool, InTx
  <1>2. Fates' = Fates
      BY <1>1, OthersUntold DEF Fates
  <1>3. CASE committed' = committed
      BY <1>2, <1>3, OthersUntold DEF Promised!vars, Fates, Writes
  <1>4. CASE committed' = committed \union {r} /\ r \in Writes
    <2>1. Promised!Apply(r)
        BY <1>2, <1>4, OthersUntold DEF Promised!Apply, Fates, Writes
    <2> QED BY <2>1 DEF Promised!Next
  <1> QED BY <1>3, <1>4, OthersUntold

(* Only Respond tells an outcome, and only HangUp takes it away.           *)
LEMMA TellingRefines ==
    ASSUME IInv, IInv', NEW r \in Req, Handler(r), pc'[r] \notin {"outside"} \union Running
    PROVE  Promised!Next
  <1>1. Respond(r) \/ HangUp(r)
      BY DEF IInv, TypeOK, Handler, Step, Accept, Acquire, PoolClosed, Check, ByStatus, ByAssignee, Write,
         Begin, Update, Reload, Commit, Fail, Running, Statement, OnPool, InTx, Goto, Answer
  <1>2. Told(r) = "pending" /\ Writes' = Writes
        /\ \A q \in Req \ {r} : Told(q)' = Told(q)
      BY OthersUntold
  <1>3. CASE Respond(r)
    <2>1. /\ committed' = committed /\ reply'[r] = reply[r] /\ pc'[r] = "answered"
          /\ pc[r] = "respond" /\ reply[r] \in {200, 404, 500}
        BY <1>3 DEF Respond, Goto, IInv, TypeOK, CommittedBefore, Undecided
    <2>2. CASE reply[r] = 200
      <3>1. Told(r)' = "yes"
          BY <2>1, <2>2 DEF Told
      <3>2. r \in Writes => r \in committed
          BY <2>1, <2>2 DEF IInv, CommittedBefore, Writes
      <3>3. Promised!Tell(r, "yes")
        <4>1. Fates' = [Fates EXCEPT ![r] = "yes"]
            BY <1>2, <3>1 DEF Fates
        <4> QED BY <1>2, <2>1, <4>1 DEF Promised!Tell, Fates, Writes
      <3>4. Promised!Confirm(r)
          BY <3>2, <3>3 DEF Promised!Confirm, Writes
      <3> QED BY <3>4 DEF Promised!Next
    <2>3. CASE reply[r] = 404
      <3>1. Told(r)' = "no"
          BY <2>1, <2>3 DEF Told
      <3>2. r \notin committed
          BY <2>1, <2>3 DEF IInv, CommittedBefore
      <3>3. Promised!Tell(r, "no")
        <4>1. Fates' = [Fates EXCEPT ![r] = "no"]
            BY <1>2, <3>1 DEF Fates
        <4> QED BY <1>2, <2>1, <4>1 DEF Promised!Tell, Fates, Writes
      <3>4. Promised!Deny(r)
          BY <3>2, <3>3 DEF Promised!Deny
      <3> QED BY <3>4 DEF Promised!Next
    <2>4. CASE reply[r] = 500
      <3>1. Told(r)' = "unknown"
          BY <2>1, <2>4 DEF Told, Running, Statement, OnPool, InTx
      <3>2. \E A \in SUBSET ({r} \intersect Writes) : committed' = committed \union A
        <4>1. {} \in SUBSET ({r} \intersect Writes) /\ committed' = committed \union {}
            BY <2>1
        <4> QED BY <4>1
      <3>3. Promised!GiveUp({r})
          BY <1>2, <3>1, <3>2 DEF Promised!GiveUp, Fates, Writes
      <3> QED BY <3>3 DEF Promised!Next
    <2> QED BY <2>1, <2>2, <2>3, <2>4
  <1>4. CASE HangUp(r)
    <2>1. Told(r)' = "unknown"
        BY <1>4 DEF HangUp, Told, Running, Statement, OnPool, InTx, IInv, TypeOK
    <2>2. \E A \in SUBSET ({r} \intersect Writes) : committed' = committed \union A
      <3>1. committed' \ committed \in SUBSET ({r} \intersect Writes)
          BY OthersUntold
      <3>2. committed' = committed \union (committed' \ committed)
          BY OthersUntold
      <3> QED BY <3>1, <3>2
    <2>3. Promised!GiveUp({r})
        BY <1>2, <2>1, <2>2 DEF Promised!GiveUp, Fates, Writes
    <2> QED BY <2>3 DEF Promised!Next
  <1> QED BY <1>1, <1>3, <1>4

(* When the process goes, the clients of all active requests are left in   *)
(* the dark together.                                                      *)
LEMMA DieRefines ==
    ASSUME IInv, IInv', Die
    PROVE  Promised!Next
  <1>1. /\ Writes' = Writes
        /\ committed \subseteq committed' /\ committed' \ committed \subseteq Active \intersect Writes
    <2>1. committed \subseteq committed' /\ committed' \ committed \subseteq Active /\ route' = route
        BY CutShortAdds DEF Die, IInv, Active, TypeOK
    <2> QED BY <2>1 DEF Writes, IInv, TypeOK, CommittedBefore
  <1>2. \A r \in Active : Told(r) = "pending" /\ Told(r)' = "unknown"
      BY DEF Die, Active, Told, Running, Statement, OnPool, InTx, IInv, TypeOK
  <1>3. \A r \in Req \ Active : Told(r)' = Told(r)
      BY DEF Die, Active, Told, Running, Statement, OnPool, InTx, IInv, TypeOK
  <1>4. \E A \in SUBSET (Active \intersect Writes) : committed' = committed \union A
    <2>1. committed' \ committed \in SUBSET (Active \intersect Writes)
        BY <1>1
    <2>2. committed' = committed \union (committed' \ committed)
        BY <1>1
    <2> QED BY <2>1, <2>2
  <1>5. Active \in SUBSET Req /\ Promised!GiveUp(Active)
      BY <1>1, <1>2, <1>3, <1>4 DEF Promised!GiveUp, Active, Writes
  <1> QED BY <1>5 DEF Promised!Next

LEMMA NextRefines ==
    ASSUME IInv, IInv', [Next]_vars
    PROVE  [Promised!Next]_(Promised!vars)
  <1>1. ASSUME NEW r \in Req, Handler(r)
        PROVE  [Promised!Next]_(Promised!vars)
      BY <1>1, PendingRefines, TellingRefines
  <1>2. CASE Die
      BY <1>2, DieRefines
  <1>3. CASE UNCHANGED <<route, pc, reply, committed>>
      BY <1>3 DEF Promised!vars, Told, Running, Statement, OnPool, InTx, Writing
  <1>4. ASSUME MainStep, ~Die
        PROVE  UNCHANGED <<route, pc, reply, committed>>
      BY <1>4 DEF MainStep, Start, Signal, Deadline, ShutdownReturns, CloseDB, Exit, Crash
  <1>5. UNCHANGED vars => UNCHANGED <<route, pc, reply, committed>>
      BY DEF vars
  <1> QED BY <1>1, <1>2, <1>3, <1>4, <1>5, Steps

(* Through crashes, cancelled requests and shutdowns at any statement, a   *)
(* 2xx is sent after the COMMIT and a 4xx without one, and no request      *)
(* takes effect once its outcome is known.                                 *)
THEOREM Refinement == Spec => ServiceSpec
  <1>1. Init => Promised!Init
      BY DEF Init, Promised!Init, Told, Running
  <1>2. IInv /\ IInv' /\ [Next]_vars => [Promised!Next]_(Promised!vars)
      BY NextRefines
  <1> QED BY <1>1, <1>2, Invariance, PTL DEF Spec, ServiceSpec, Promised!Spec
=============================================================================
