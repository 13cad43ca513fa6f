--------------------------- MODULE AccountsProofs ---------------------------
(***************************************************************************)
(* Registration and login, for any number of requests, addresses and       *)
(* passwords: IInv is inductive, and what Accounts states of the answers   *)
(* follows from it.                                                        *)
(***************************************************************************)
EXTENDS Accounts, TLAPS

(* The invariant holds when the API starts.                                *)
LEMMA InitInv == Init => IInv
  <1> SUFFICES ASSUME Init PROVE IInv
      OBVIOUS
  <1>1. TypeOK
      BY ConversionsAssumption, UsersAssumption DEF Init, TypeOK, Undecided, Nobody, Running, Expiry
  <1>2. OneIdentityPerEmail
      BY UsersAssumption DEF Init, OneIdentityPerEmail
  <1>3. \A r \in Req : pc[r] = "idle" /\ reply[r] = 0
      BY DEF Init, Undecided
  <1>4. Settled
      BY <1>3, UsersAssumption DEF Init, Settled, RouteOf, KnowledgeOf, MintedBy, Undecided
  <1>5. ASSUME NEW r \in Req
        PROVE  /\ reply[r] \in {200, 201} => \E u \in users : u.id = bearer[r] /\ Owner(r, u)
               /\ reply[r] = 201 => bearer[r] = r
               /\ reply[r] = 409 => \E u \in users : u.id # r /\ u.email = Canon[ask[r].email]
               /\ reply[r] \in {400, 401, 409} \/ (reply[r] = 500 /\ expiry = "positive")
                  => \A u \in users : u.id # r
    <2>1. reply[r] = 0
        BY <1>3
    <2> QED BY <2>1
  <1>6. AnswersBacked
      BY <1>5, Zenon DEF AnswersBacked
  <1> QED BY <1>1, <1>2, <1>4, <1>6 DEF IInv

(* Every step keeps the types.                                             *)
LEMMA TypeStep == ASSUME TypeOK, Settled, [Next]_vars PROVE TypeOK'
  <1> USE DEF TypeOK, Codes, Running
  <1>1. CASE UNCHANGED vars
      BY <1>1 DEF vars
  <1>2. ASSUME NEW r \in Req, Arrive(r) PROVE TypeOK'
      BY <1>2 DEF Arrive, Answer, Goto
  <1>3. ASSUME NEW r \in Req, EnsureEmailAvailable(r) PROVE TypeOK'
      BY <1>3 DEF EnsureEmailAvailable, Answer, Goto
  <1>4. ASSUME NEW r \in Req, HashPassword(r) PROVE TypeOK'
      BY <1>4 DEF HashPassword, Answer, Goto
  <1>5. ASSUME NEW r \in Req, InsertUser(r) PROVE TypeOK'
    <2>1. NewUser(r) \in UserRow
        BY ConversionsAssumption, UsersAssumption DEF NewUser, normalizeEmail, UserRow, Ask
    <2> QED BY <1>5, <2>1 DEF InsertUser, Answer, Goto
  <1>6. ASSUME NEW r \in Req, FindByEmail(r) PROVE TypeOK'
      BY <1>6 DEF FindByEmail, WithEmail, Answer, Goto
  <1>7. ASSUME NEW r \in Req, ComparePassword(r) PROVE TypeOK'
      BY <1>7 DEF ComparePassword, Answer, Goto
  <1>8. ASSUME NEW r \in Req, BuildAuthResponse(r) PROVE TypeOK'
    <2>1. loaded[r].id \in UserId
        BY <1>8 DEF BuildAuthResponse, Settled, KnowledgeOf, UserRow
    <2> QED BY <1>8, <2>1 DEF BuildAuthResponse, Answer
  <1>9. ASSUME NEW r \in Req, Abandon(r) PROVE TypeOK'
      BY <1>9 DEF Abandon
  <1> QED
      BY <1>1, <1>2, <1>3, <1>4, <1>5, <1>6, <1>7, <1>8, <1>9 DEF Next, Quiescent

(* Rows only come, one at a time, and only when their address is free.     *)
LEMMA OnlyInserts ==
    ASSUME TypeOK, [Next]_vars
    PROVE  \/ users' = users
           \/ \E r \in Req : /\ InsertUser(r)
                             /\ WithEmail(ask[r].email) = {}
                             /\ users' = users \union {NewUser(r)}
  BY DEF Next, vars, Arrive, EnsureEmailAvailable, HashPassword, InsertUser, FindByEmail,
         ComparePassword, BuildAuthResponse, Abandon, Quiescent

(* What a request was asked and how the process is configured never change. *)
LEMMA Given == ASSUME [Next]_vars PROVE ask' = ask /\ expiry' = expiry
  BY DEF Next, vars, Arrive, EnsureEmailAvailable, HashPassword, InsertUser, FindByEmail,
         ComparePassword, BuildAuthResponse, Abandon, Quiescent

(* Uniqueness survives an INSERT: the address was free, and so was the id. *)
LEMMA UniqueStep ==
    ASSUME IInv, [Next]_vars
    PROVE  OneIdentityPerEmail'
  <1> USE DEF IInv
  <1>1. CASE users' = users
      BY <1>1 DEF OneIdentityPerEmail
  <1>2. ASSUME NEW r \in Req, InsertUser(r), WithEmail(ask[r].email) = {},
               users' = users \union {NewUser(r)}
        PROVE  OneIdentityPerEmail'
    <2>1. \A u \in users : u.email # NewUser(r).email
        BY <1>2 DEF WithEmail, NewUser
    <2>2. \A u \in users : u.id # NewUser(r).id
        BY <1>2 DEF InsertUser, Settled, MintedBy, NewUser
    <2> QED BY <1>2, <2>1, <2>2 DEF OneIdentityPerEmail
  <1> QED BY <1>1, <1>2, OnlyInserts

(* A row with the address of a request that has none of its own.           *)
LEMMA Conflicting ==
    ASSUME NEW r \in Req, \A u \in users : u.id # r, WithEmail(ask[r].email) # {}
    PROVE  \E u \in users : u.id # r /\ u.email = Canon[ask[r].email]
  BY DEF WithEmail, normalizeEmail

(* A request that does not move keeps everything but the tables.           *)
LEMMA OthersStay ==
    ASSUME TypeOK, NEW q \in Req, NEW r \in Req, q # r,
           \/ Arrive(r) \/ EnsureEmailAvailable(r) \/ HashPassword(r) \/ InsertUser(r)
           \/ FindByEmail(r) \/ ComparePassword(r) \/ BuildAuthResponse(r) \/ Abandon(r)
    PROVE  pc'[q] = pc[q] /\ loaded'[q] = loaded[q] /\ reply'[q] = reply[q] /\ bearer'[q] = bearer[q]
  BY DEF TypeOK, Arrive, EnsureEmailAvailable, HashPassword, InsertUser, FindByEmail,
         ComparePassword, BuildAuthResponse, Abandon, Answer, Goto

(* What a request that does not move knows and was told stays true: rows   *)
(* are only added, and an added row carries its own request's id.          *)
LEMMA StillTrue ==
    ASSUME IInv, [Next]_vars, NEW q \in Req,
           pc'[q] = pc[q], loaded'[q] = loaded[q], reply'[q] = reply[q], bearer'[q] = bearer[q]
    PROVE  /\ (RouteOf(q) /\ KnowledgeOf(q))'
           /\ ~InsertUser(q) => MintedBy(q)'
  <1> USE DEF IInv
  <1>1. ask' = ask /\ expiry' = expiry
      BY Given
  <1>2. RouteOf(q)'
      BY <1>1 DEF Settled, RouteOf
  <1>3. KnowledgeOf(q)'
      BY <1>1, OnlyInserts DEF Settled, KnowledgeOf, Owner
  <1>4. ASSUME ~InsertUser(q) PROVE MintedBy(q)'
    <2>1. \A u \in users' : u \in users \/ u.id # q
        BY <1>4, OnlyInserts DEF NewUser
    <2> QED BY <1>1, <2>1 DEF Settled, MintedBy
  <1> QED BY <1>2, <1>3, <1>4

(* The request that moves knows what its new statement needs.              *)
LEMMA SettledStep == ASSUME IInv, [Next]_vars PROVE Settled'
  <1> USE DEF IInv
  <1> DEFINE Good(q) == (RouteOf(q) /\ KnowledgeOf(q) /\ MintedBy(q))'
  <1>0. ask' = ask /\ expiry' = expiry
      BY Given
  <1>1. CASE UNCHANGED vars
      BY <1>1 DEF vars, Settled, RouteOf, KnowledgeOf, MintedBy, Owner
  <1>2. ASSUME NEW r \in Req,
               \/ Arrive(r) \/ EnsureEmailAvailable(r) \/ HashPassword(r) \/ InsertUser(r)
               \/ FindByEmail(r) \/ ComparePassword(r) \/ BuildAuthResponse(r) \/ Abandon(r)
        PROVE  Settled'
    <2>1. ASSUME NEW q \in Req, q # r PROVE Good(q)
      <3>1. pc'[q] = pc[q] /\ loaded'[q] = loaded[q] /\ reply'[q] = reply[q] /\ bearer'[q] = bearer[q]
          BY <1>2, <2>1, OthersStay
      <3>2. RouteOf(q)' /\ KnowledgeOf(q)'
          BY <3>1, StillTrue
      <3>3. ~InsertUser(q)
          BY <3>1 DEF InsertUser, Answer, Goto, TypeOK
      <3> QED BY <3>1, <3>2, <3>3, StillTrue
    <2>2. Good(r)
      <3> USE <1>0 DEF RouteOf, KnowledgeOf, MintedBy
      <3>0. RouteOf(r) /\ KnowledgeOf(r) /\ MintedBy(r)
          BY DEF Settled
      <3>1. CASE Arrive(r)
          BY <3>0, <3>1 DEF Arrive, Answer, Goto, TypeOK, Ask, Undecided
      <3>2. CASE EnsureEmailAvailable(r)
          BY <3>0, <3>2 DEF EnsureEmailAvailable, Answer, Goto, TypeOK
      <3>3. CASE HashPassword(r)
          BY <3>0, <3>3 DEF HashPassword, Answer, Goto, TypeOK
      <3>4. CASE InsertUser(r)
        <4>1. CASE WithEmail(ask[r].email) # {}
            BY <3>0, <3>4, <4>1 DEF InsertUser, Answer, TypeOK
        <4>2. CASE WithEmail(ask[r].email) = {}
          <5>1. /\ pc'[r] = "issueToken" /\ reply'[r] = reply[r] /\ loaded'[r] = NewUser(r)
                /\ users' = users \union {NewUser(r)}
              BY <3>4, <4>2 DEF InsertUser, Goto, TypeOK
          <5>2. NewUser(r).email = Canon[ask[r].email] /\ NewUser(r).hash = Digest[ask[r].password]
                /\ NewUser(r).id = r
              BY DEF NewUser, normalizeEmail
          <5>3. reply[r] = Undecided /\ ask[r].op = "register"
              BY <3>0, <3>4 DEF InsertUser
          <5> QED BY <5>1, <5>2, <5>3 DEF Owner
        <4> QED BY <4>1, <4>2
      <3>5. CASE FindByEmail(r)
          BY <3>0, <3>5 DEF FindByEmail, WithEmail, normalizeEmail, Answer, Goto, TypeOK
      <3>6. CASE ComparePassword(r)
          BY <3>0, <3>6 DEF ComparePassword, Answer, Goto, TypeOK, Owner
      <3>7. CASE BuildAuthResponse(r)
        <4>1. users' = users /\ pc'[r] = "done"
            BY <3>7 DEF BuildAuthResponse, Answer, TypeOK
        <4>2. \A u \in users : u.id = r => ask[r].op = "register"
            BY DEF Settled, MintedBy
        <4> QED BY <3>0, <3>7, <4>1, <4>2 DEF BuildAuthResponse, Answer, TypeOK
      <3>8. CASE Abandon(r)
          BY <3>0, <3>8 DEF Abandon, TypeOK, Running
      <3> QED BY <1>2, <3>1, <3>2, <3>3, <3>4, <3>5, <3>6, <3>7, <3>8
    <2> QED BY <2>1, <2>2 DEF Settled
  <1> QED BY <1>1, <1>2 DEF Next, Quiescent

(* What a client was told stays true, and is true when it is told.         *)
LEMMA AnswersStep == ASSUME IInv, [Next]_vars PROVE AnswersBacked'
  <1> USE DEF IInv
  <1> DEFINE Success(r) == reply[r] \in {200, 201} =>
                               \E u \in users : u.id = bearer[r] /\ Owner(r, u)
             Minter(r) == reply[r] = 201 => bearer[r] = r
             Conflict(r) == reply[r] = 409 =>
                               \E u \in users : u.id # r /\ u.email = Canon[ask[r].email]
             Refusal(r) == reply[r] \in {400, 401, 409} \/ (reply[r] = 500 /\ expiry = "positive")
                               => \A u \in users : u.id # r
             Backed(r) == Success(r) /\ Minter(r) /\ Conflict(r) /\ Refusal(r)
  <1>1. \A r \in Req : Backed(r)
      BY DEF AnswersBacked
  <1>2. SUFFICES \A r \in Req : Backed(r)'
      BY DEF AnswersBacked
  <1>3. ask' = ask /\ expiry' = expiry /\ users \subseteq users'
      BY Given, OnlyInserts
  <1>4. ASSUME NEW q \in Req, reply'[q] = reply[q], bearer'[q] = bearer[q], ~InsertUser(q)
        PROVE  Backed(q)'
    <2>1. \A u \in users' : u \in users \/ u.id # q
        BY <1>4, OnlyInserts DEF NewUser
    <2> QED BY <1>1, <1>3, <1>4, <2>1 DEF Owner
  <1>5. CASE UNCHANGED vars
      BY <1>1, <1>5 DEF vars, Owner
  <1>6. ASSUME NEW r \in Req,
               \/ Arrive(r) \/ EnsureEmailAvailable(r) \/ HashPassword(r) \/ InsertUser(r)
               \/ FindByEmail(r) \/ ComparePassword(r) \/ BuildAuthResponse(r) \/ Abandon(r)
        PROVE  \A q \in Req : Backed(q)'
    <2>1. ASSUME NEW q \in Req, q # r PROVE Backed(q)'
      <3>1. reply'[q] = reply[q] /\ bearer'[q] = bearer[q] /\ pc'[q] = pc[q]
          BY <1>6, <2>1, OthersStay
      <3>2. ~InsertUser(q)
          BY <3>1 DEF InsertUser, Answer, Goto, TypeOK
      <3> QED BY <3>1, <3>2, <1>4
    <2>2. Backed(r)'
      <3>0. RouteOf(r) /\ KnowledgeOf(r) /\ MintedBy(r)
          BY DEF Settled
      <3>1. pc[r] \notin {"issueToken", "lost", "done"} => \A u \in users : u.id # r
          BY <3>0 DEF MintedBy
      <3>2. CASE users' = users /\ UNCHANGED <<reply, bearer>>
          BY <1>1, <1>3, <3>2 DEF Owner
      <3>3. CASE Arrive(r) /\ reply'[r] = 400
          BY <3>1, <3>3 DEF Arrive
      <3>4. CASE EnsureEmailAvailable(r) /\ reply'[r] = 409
        <4>1. WithEmail(ask[r].email) # {}
            BY <3>0, <3>4 DEF EnsureEmailAvailable, RouteOf, Goto, Undecided
        <4> QED BY <1>3, <3>1, <3>4, <4>1, Conflicting DEF EnsureEmailAvailable
      <3>5. CASE HashPassword(r) /\ reply'[r] \in {400, 500}
          BY <3>1, <3>5 DEF HashPassword
      <3>6. CASE InsertUser(r)
        <4>1. CASE WithEmail(ask[r].email) # {}
          <5>1. users' = users /\ reply'[r] = 409
              BY <3>6, <4>1 DEF InsertUser, Answer, TypeOK
          <5> QED BY <1>3, <3>1, <3>6, <4>1, <5>1, Conflicting DEF InsertUser
        <4>2. CASE WithEmail(ask[r].email) = {}
          <5>1. reply'[r] = 0
              BY <3>0, <3>6, <4>2 DEF InsertUser, Goto, RouteOf, Undecided
          <5> QED BY <5>1
        <4> QED BY <4>1, <4>2
      <3>7. CASE (FindByEmail(r) \/ ComparePassword(r)) /\ reply'[r] = 401
          BY <3>1, <3>7 DEF FindByEmail, ComparePassword
      <3>8. CASE BuildAuthResponse(r)
        <4>1. CASE expiry = "positive"
          <5>1. users' = users /\ bearer'[r] = loaded[r].id
                /\ reply'[r] = IF ask[r].op = "register" THEN 201 ELSE 200
              BY <3>8, <4>1 DEF BuildAuthResponse, Answer, TypeOK
          <5>2. loaded[r] \in users /\ Owner(r, loaded[r])
                /\ (ask[r].op = "register" => loaded[r].id = r)
              BY <3>0, <3>8 DEF KnowledgeOf, BuildAuthResponse
          <5> QED BY <1>3, <5>1, <5>2 DEF Owner
        <4>2. CASE expiry # "positive"
            BY <1>3, <3>8, <4>2 DEF BuildAuthResponse, Answer, TypeOK
        <4> QED BY <4>1, <4>2
      <3> DEFINE Quiet == users' = users /\ UNCHANGED <<reply, bearer>>
      <3>9. CASE Arrive(r)
        <4>1. Quiet \/ reply'[r] = 400
            BY <3>9 DEF Arrive, Answer, Goto, TypeOK
        <4> QED BY <3>2, <3>3, <3>9, <4>1
      <3>10. CASE EnsureEmailAvailable(r)
        <4>1. Quiet \/ reply'[r] = 409
            BY <3>10 DEF EnsureEmailAvailable, Answer, Goto, TypeOK
        <4> QED BY <3>2, <3>4, <3>10, <4>1
      <3>11. CASE HashPassword(r)
        <4>1. Quiet \/ reply'[r] \in {400, 500}
            BY <3>11 DEF HashPassword, Answer, Goto, TypeOK
        <4> QED BY <3>2, <3>5, <3>11, <4>1
      <3>12. CASE FindByEmail(r) \/ ComparePassword(r)
        <4>1. Quiet \/ reply'[r] = 401
            BY <3>12 DEF FindByEmail, ComparePassword, Answer, Goto, TypeOK
        <4> QED BY <3>2, <3>7, <3>12, <4>1
      <3>13. CASE Abandon(r)
          BY <3>2, <3>13 DEF Abandon
      <3> QED
          BY <1>6, <3>6, <3>8, <3>9, <3>10, <3>11, <3>12, <3>13
    <2> QED BY <2>1, <2>2
  <1> QED BY <1>5, <1>6 DEF Next, Quiescent

(* Everything that is claimed of a reachable state.                        *)
THEOREM Invariance == Spec => []IInv
  <1>1. ASSUME IInv, [Next]_vars PROVE IInv'
      BY <1>1, TypeStep, UniqueStep, SettledStep, AnswersStep DEF IInv
  <1> QED BY InitInv, <1>1, PTL DEF Spec

(* Every variable holds what the schema and the handlers' types allow.     *)
THEOREM TypeCorrect == Spec => []TypeOK
  BY Invariance, PTL DEF IInv

(* However many registrations race between the look-up and the INSERT, an  *)
(* address belongs to one user.                                            *)
THEOREM UniqueIdentity == Spec => []OneIdentityPerEmail
  BY Invariance, PTL DEF IInv

(* Successes name the holder of the credentials, conflicts name another's  *)
(* row, and a refused registration left none.                              *)
THEOREM HonestAnswers == Spec => []AnswersBacked
  BY Invariance, PTL DEF IInv

(* A login is refused only while nobody has these credentials.             *)
THEOREM LoginsAccepted == Spec => RefusedOnlyStrangers
  <1> DEFINE Honest(r) == reply[r] = Undecided /\ reply'[r] = 401 => ~\E u \in users : Owner(r, u)
  <1>1. ASSUME IInv, [Next]_vars, NEW r \in Req PROVE Honest(r)
    <2> SUFFICES ASSUME reply[r] = Undecided, reply'[r] = 401 PROVE ~\E u \in users : Owner(r, u)
        OBVIOUS
    <2> USE <1>1 DEF IInv
    <2>1. FindByEmail(r) \/ ComparePassword(r)
        BY DEF Next, vars, Arrive, EnsureEmailAvailable, HashPassword, InsertUser, FindByEmail,
               ComparePassword, BuildAuthResponse, Abandon, Quiescent, Answer, Goto, TypeOK, Undecided
    <2>2. CASE FindByEmail(r)
        BY <2>2 DEF FindByEmail, WithEmail, normalizeEmail, Owner, Goto, Undecided
    <2>3. CASE ComparePassword(r)
      <3>1. loaded[r] \in users /\ loaded[r].email = Canon[ask[r].email]
          BY <2>3 DEF ComparePassword, Settled, KnowledgeOf
      <3>2. loaded[r].hash # Digest[ask[r].password]
          BY <2>3 DEF ComparePassword, Goto, Undecided
      <3> QED BY <3>1, <3>2 DEF Owner, OneIdentityPerEmail
    <2> QED BY <2>1, <2>2, <2>3
  <1>2. ASSUME IInv, [Next]_vars PROVE [\A r \in Req : Honest(r)]_vars
      BY <1>1, <1>2
  <1> QED BY <1>2, Invariance, PTL DEF Spec, RefusedOnlyStrangers

-----------------------------------------------------------------------------
(* TaskFlow and Views know a user by its id alone, and take Board's        *)
(* Register for all that can happen to the table: here is the board that   *)
(* registration and login work on.  Nobody makes a project on it.          *)
ids  == {u.id : u \in users}
None == [x \in {} |-> NoRow]

Members == INSTANCE Board WITH
               users <- ids, projects <- None, tasks <- None,
               ProjectId <- {}, TaskId <- {}, Name <- {}, Nil <- NoRow,
               InitialStores <- {[users    |-> {u.id : u \in InitialUsers},
                                  projects |-> None, tasks |-> None]}

(* However registrations and logins race, fail or are cut off, the users   *)
(* table only changes by one id that was nobody's, and keeps all others.   *)
THEOREM UsersOnBoard == Spec => Members!Spec
  <1>1. Init => Members!Init
      BY DEF Init, Members!Init, ids
  <1>2. ASSUME IInv, [Next]_vars PROVE [Members!Next]_(Members!vars)
    <2>1. CASE users' = users
        BY <2>1 DEF Members!vars, ids, None
    <2>2. CASE users' # users
      <3>1. PICK r \in Req : pc[r] = "insertUser" /\ users' = users \union {NewUser(r)}
          BY <1>2, <2>2 DEF Next, vars, Arrive, EnsureEmailAvailable, HashPassword, InsertUser,
             FindByEmail, ComparePassword, BuildAuthResponse, Abandon, Quiescent
      <3>2. r \notin ids
          BY <1>2, <3>1 DEF IInv, Settled, MintedBy, ids
      <3>3. ids' = ids \union {r}
        <4> DEFINE n == NewUser(r)
        <4>1. n.id = r
            BY DEF NewUser
        <4> HIDE DEF n
        <4>2. users' = users \union {n}
            BY <3>1 DEF n
        <4> QED BY <4>1, <4>2, Zenon DEF ids
      <3>4. Members!Register(r)
          BY <3>2, <3>3 DEF Members!Register, None
      <3> QED BY <3>4, UsersAssumption DEF Members!Next
    <2> QED BY <2>1, <2>2
  <1> QED BY <1>1, <1>2, Invariance, PTL DEF Spec, Members!Spec
=============================================================================
