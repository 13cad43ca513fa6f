---------------------------- MODULE ViewsProofs -----------------------------
(***************************************************************************)
(* A reader is refused, or answered, by two statements between which the   *)
(* tables change; IInv is what makes the refusal right when it is given,   *)
(* and the answer one of a single moment if nobody wrote.                  *)
(***************************************************************************)
EXTENDS Views, FiniteSetTheorems, WellFoundedInduction, TLAPS

(* The reader's own steps leave the tables alone; a writer leaves the      *)
(* reader alone, keeps the types and draws no id twice.                    *)
LEMMA ReaderOrWriter ==
    ASSUME [Next]_vars
    PROVE  \/ UNCHANGED <<tables, spent>>
           \/ /\ UNCHANGED <<pc, ask, first, second, reply>>
              /\ spent' = spent \union Live(projects')
              /\ Live(projects') \intersect spent \subseteq Live(projects)
              /\ disturbed' = TRUE
              /\ \/ \E u \in UserId : B!Register(u)
                 \/ \E u \in UserId, p \in ProjectId, n \in Name : B!CreateProject(u, p, n)
                 \/ \E u \in UserId, p \in ProjectId : B!RemoveProject(u, p)
                 \/ \E u \in UserId, t \in TaskId, row \in Rows : B!AddTask(u, t, row)
                 \/ \E t \in TaskId, row \in Rows : B!EditTask(t, row)
                 \/ \E u \in UserId, t \in TaskId : B!RemoveTask(u, t)
  BY DEF Next, vars, tables, Arrive, LoadProject, CheckInvolved, Count, List, Abandon, Writer

(* A writer changes no owner: a project that stays keeps its row's owner.  *)
LEMMA OwnersStay ==
    ASSUME IInv, [Next]_vars
    PROVE  /\ users' \subseteq UserId /\ projects' \in Projects /\ tasks' \in Tasks
           /\ Live(projects') \subseteq spent' /\ spent \subseteq spent' /\ spent' \subseteq ProjectId
           /\ \A p \in spent : projects'[p] # NoRow =>
                  projects[p] # NoRow /\ projects'[p].owner = projects[p].owner
  <1> USE DEF IInv, TypeOK
  <1>1. CASE UNCHANGED <<tables, spent>>
      BY <1>1 DEF tables
  <1>2. CASE spent' = spent \union Live(projects')
             /\ Live(projects') \intersect spent \subseteq Live(projects)
    <2> USE <1>2, NilAssumption, AsksAssumption DEF Projects, Tasks
    <2>0. Live(projects') \subseteq spent' /\ spent \subseteq spent' /\ spent' \subseteq ProjectId
          /\ \A p \in spent : projects'[p] # NoRow => projects[p] # NoRow
        BY DEF Live
    <2>1. ASSUME NEW u \in UserId, B!Register(u)
          PROVE  users' \subseteq UserId /\ projects' = projects /\ tasks' = tasks
        BY <2>1 DEF B!Register
    <2>2. ASSUME NEW u \in UserId, NEW p \in ProjectId, NEW n \in Name, B!CreateProject(u, p, n)
          PROVE  /\ users' = users /\ tasks' = tasks /\ projects' \in Projects
                 /\ \A q \in ProjectId \ {p} : projects'[q] = projects[q]
                 /\ projects[p] = NoRow
      <3>1. [owner |-> u, name |-> n] \in ProjectRow
          BY DEF ProjectRow
      <3>2. projects' = [projects EXCEPT ![p] = [owner |-> u, name |-> n]]
          BY <2>2 DEF B!CreateProject
      <3> HIDE <1>2
      <3>3. projects' \in Projects
          BY <3>1, <3>2
      <3> QED BY <2>2, <3>2, <3>3 DEF B!CreateProject
    <2>3. ASSUME NEW u \in UserId, NEW p \in ProjectId, B!RemoveProject(u, p)
          PROVE  /\ users' = users /\ tasks' \in Tasks /\ projects' \in Projects
                 /\ \A q \in ProjectId : projects'[q] # NoRow => projects'[q] = projects[q]
      <3>1. users' = users /\ projects' = [projects EXCEPT ![p] = NoRow] /\ tasks' = B!Cascade(tasks, p)
          BY <2>3 DEF B!RemoveProject
      <3> HIDE <1>2
      <3>2. projects' \in Projects /\ \A q \in ProjectId \ {p} : projects'[q] = projects[q]
          BY <3>1
      <3>3. projects'[p] = NoRow
          BY <3>1
      <3>4. tasks' \in Tasks
          BY <3>1 DEF B!Cascade
      <3> QED BY <3>1, <3>2, <3>3, <3>4
    <2>4. ASSUME NEW u \in UserId, NEW t \in TaskId, NEW row \in Rows, B!AddTask(u, t, row)
          PROVE  users' = users /\ projects' = projects /\ tasks' \in Tasks
        BY <2>4 DEF B!AddTask
    <2>5. ASSUME NEW t \in TaskId, NEW row \in Rows, B!EditTask(t, row)
          PROVE  users' = users /\ projects' = projects /\ tasks' \in Tasks
        BY <2>5 DEF B!EditTask
    <2>6. ASSUME NEW u \in UserId, NEW t \in TaskId, B!RemoveTask(u, t)
          PROVE  users' = users /\ projects' = projects /\ tasks' \in Tasks
        BY <2>6 DEF B!RemoveTask
    <2>7. CASE UNCHANGED tables
        BY <2>0, <2>7, Zenon DEF tables
    <2>8. CASE \E u \in UserId : B!Register(u)
        BY <2>0, <2>1, <2>8
    <2>9. CASE \E u \in UserId, p \in ProjectId, n \in Name : B!CreateProject(u, p, n)
        BY <2>0, <2>2, <2>9
    <2>10. CASE \E u \in UserId, p \in ProjectId : B!RemoveProject(u, p)
      <3>1. PICK u \in UserId, p \in ProjectId : B!RemoveProject(u, p)
          BY <2>10
      <3>2. /\ users' = users /\ tasks' \in Tasks /\ projects' \in Projects
            /\ \A q \in ProjectId : projects'[q] # NoRow => projects'[q] = projects[q]
          BY <2>3, <3>1
      <3> HIDE DEF Projects, Tasks
      <3> QED BY <2>0, <3>2
    <2>11. CASE \/ \E u \in UserId, t \in TaskId, row \in Rows : B!AddTask(u, t, row)
                \/ \E t \in TaskId, row \in Rows : B!EditTask(t, row)
                \/ \E u \in UserId, t \in TaskId : B!RemoveTask(u, t)
        BY <2>0, <2>4, <2>5, <2>6, <2>11
    <2> QED BY <2>7, <2>8, <2>9, <2>10, <2>11, ReaderOrWriter
  <1> QED BY <1>1, <1>2, ReaderOrWriter

(* A request does not change once it is made.                              *)
LEMMA AskStays == ASSUME [Next]_vars PROVE ask' = ask
  BY DEF Next, vars, Arrive, LoadProject, CheckInvolved, Count, List, Abandon, Writer

(* What the check of the owner found is still so at the next statement.    *)
LEMMA InvStep == ASSUME IInv, [Next]_vars PROVE IInv'
  <1> USE DEF IInv
  <1>1. TypeOK'
    <2>1. users' \subseteq UserId /\ projects' \in Projects /\ tasks' \in Tasks /\ spent' \subseteq ProjectId
        BY OwnersStay
    <2>2. ask' = ask
        BY AskStays
    <2> DEFINE Moves == Arrive \/ LoadProject \/ CheckInvolved \/ Count \/ List \/ Abandon
    <2>3. Moves \/ UNCHANGED <<pc, reply>>
        BY DEF Next, vars, Writer
    <2>4. pc' \in {"idle", "loadProject", "checkInvolved", "count", "loadAgain", "checkAgain",
                   "list", "done", "lost"}
        BY <2>3 DEF TypeOK, Arrive, LoadProject, CheckInvolved, Count, List, Abandon, Goto, Answer, Granted
    <2>5. reply' \in {Undecided, 200, 403, 404}
        BY <2>3 DEF TypeOK, Arrive, LoadProject, CheckInvolved, Count, List, Abandon, Goto, Answer, Granted
    <2>6. disturbed' = disturbed \/ disturbed' = TRUE \/ disturbed' = FALSE
        BY Zenon DEF Next, vars, Arrive, LoadProject, CheckInvolved, Count, List, Abandon, Writer
    <2>7. disturbed' \in BOOLEAN
        BY <2>6, Zenon DEF TypeOK
    <2> QED BY <2>1, <2>2, <2>4, <2>5, <2>7, ZenonT(30) DEF TypeOK
  <1>2. NotTheOwner'
    <2>1. CASE UNCHANGED <<pc, ask>>
        BY <2>1, OwnersStay DEF NotTheOwner
    <2>2. CASE LoadProject
      <3>1. UNCHANGED <<tables, ask, spent>>
          BY <2>2 DEF LoadProject
      <3>2. pc' \in {"checkInvolved", "checkAgain"} =>
                projects[ask.project] # NoRow /\ projects[ask.project].owner # ask.user
          BY <2>2 DEF LoadProject, Goto, Answer, Granted
      <3>3. ask.project \in ProjectId
          BY AsksAssumption DEF TypeOK, Ask
      <3> QED BY <3>1, <3>2, <3>3 DEF NotTheOwner, tables, Live
    <2>3. CASE ~LoadProject /\ pc' # pc
      <3>1. pc' \notin {"checkInvolved", "checkAgain"}
          BY <2>3 DEF Next, vars, Arrive, CheckInvolved, Count, List, Abandon, Writer,
                      Goto, Answer, Granted
      <3> QED BY <3>1 DEF NotTheOwner
    <2> QED BY <2>1, <2>2, <2>3, AskStays
  <1>3. FirstIsCurrent'
    <2>0. ask' = ask /\ TwoHalves' = TwoHalves /\ Granted' = Granted
        BY AskStays DEF TwoHalves, Granted, Paginated
    <2>1. CASE Count
      <3>1. first' = Total /\ Total' = Total /\ reply' = reply
          BY <2>1, <2>0 DEF Count, Goto, Total, tables, CountByProjectID, ByStatus, Matching,
                            CountByProjectIDFiltered, CountAccessibleByUserID, Live
      <3>2. reply = Undecided
          BY <2>1 DEF FirstIsCurrent, Count
      <3> QED BY <3>1, <3>2 DEF FirstIsCurrent
    <2>2. CASE Arrive \/ LoadProject \/ CheckInvolved
      <3>1. UNCHANGED <<tables, first, disturbed>> /\ Total' = Total
          BY <2>2, <2>0 DEF Arrive, LoadProject, CheckInvolved, Total, tables, CountByProjectID,
                            ByStatus, Matching, CountByProjectIDFiltered, CountAccessibleByUserID, Live
      <3>2. pc' = "list" /\ TwoHalves => pc \in {"loadAgain", "checkAgain"}
          BY <2>2 DEF Arrive, LoadProject, CheckInvolved, Goto, Answer, Granted, TwoHalves
      <3>3. pc' \in {"loadAgain", "checkAgain"} => pc \in {"loadAgain", "checkAgain"}
          BY <2>2 DEF Arrive, LoadProject, CheckInvolved, Goto, Answer, Granted
      <3>4. reply' # Undecided => pc' = "done"
          BY <2>2 DEF Arrive, LoadProject, CheckInvolved, Goto, Answer, FirstIsCurrent
      <3> QED BY <2>0, <3>1, <3>2, <3>3, <3>4 DEF FirstIsCurrent
    <2>3. CASE List \/ Abandon
        BY <2>3 DEF List, Abandon, Answer, FirstIsCurrent
    <2>4. CASE UNCHANGED vars
      <3>1. Total' = Total
          BY <2>4, <2>0 DEF vars, Total, CountByProjectID, ByStatus, Matching,
                            CountByProjectIDFiltered, CountAccessibleByUserID, Live
      <3> QED BY <2>4, <2>0, <3>1 DEF vars, FirstIsCurrent
    <2>5. CASE disturbed' = TRUE /\ UNCHANGED <<pc, reply>>
        BY <2>5 DEF FirstIsCurrent
    <2> QED BY <2>1, <2>2, <2>3, <2>4, <2>5 DEF Next, Writer
  <1> QED BY <1>1, <1>2, <1>3, OwnersStay

(* Everything that is claimed of a reachable state.                        *)
THEOREM Invariance == Spec => []IInv
  <1>1. Init => IInv
    <2> SUFFICES ASSUME Init PROVE IInv
        OBVIOUS
    <2>1. users \subseteq UserId /\ projects \in Projects /\ tasks \in Tasks
        BY StoresAssumption DEF Init, B!Init
    <2> QED BY <2>1 DEF Init, IInv, TypeOK, NotTheOwner, FirstIsCurrent, Live, Undecided
  <1> QED BY <1>1, InvStep, PTL DEF Spec

(* A caller is refused a project only when the caller's own list of        *)
(* projects does not contain it, though three queries with three           *)
(* formulations of "involved" are at work and the tables keep changing.    *)
THEOREM RefusalsAgree == Spec => RefusedOnlyUnlisted
  <1> DEFINE Right == reply = Undecided /\ reply' = 403 => ask.project \notin FindAccessibleByUserID(ask.user)
  <1>1. ASSUME IInv, [Next]_vars PROVE Right
    <2> SUFFICES ASSUME reply = Undecided, reply' = 403 PROVE ask.project \notin FindAccessibleByUserID(ask.user)
        OBVIOUS
    <2>1. CheckInvolved /\ ~InvolvedInProject(ask.user, ask.project)
        BY <1>1 DEF Next, vars, Arrive, LoadProject, CheckInvolved, Count, List, Abandon, Writer,
                    Goto, Answer, Undecided
    <2>2. projects[ask.project] # NoRow => projects[ask.project].owner # ask.user
        BY <1>1, <2>1 DEF IInv, NotTheOwner, CheckInvolved
    <2> QED BY <2>1, <2>2 DEF FindAccessibleByUserID, Live, InvolvedInProject, Involved
  <1>2. ASSUME IInv, [Next]_vars PROVE [Right]_vars
      BY <1>1, <1>2
  <1> QED BY <1>2, Invariance, PTL DEF Spec, RefusedOnlyUnlisted

-----------------------------------------------------------------------------
(* The break-downs of the stats route: groups of rows sum to all the rows. *)

(* The rows whose key is in s.                                             *)
Grouped(T, key, s) == {t \in T : key[t] \in s}

LEMMA GroupsSum ==
    ASSUME NEW K, IsFiniteSet(K), NEW T, IsFiniteSet(T), NEW key \in [T -> K],
           NEW f, f = [k \in K |-> Cardinality(Grouped(T, key, {k}))]
    PROVE  SumFunction(f) = Cardinality(T)
  <1> DEFINE Pick(s) == CHOOSE x \in s : TRUE
             Body(it) == [s \in SUBSET K |-> IF s = {} THEN 0
                                             ELSE f[Pick(s)] + it[s \ {Pick(s)}]]
             g == [s \in SUBSET K |-> Cardinality(Grouped(T, key, s))]
             h == CHOOSE it : it = Body(it)
  <1>1. SumFunction(f) = h[K]
    <2>1. DOMAIN f = K
        OBVIOUS
    <2> QED BY <2>1 DEF SumFunction, SumFunctionOnSet, FoldFunctionOnSet, MapThenFoldSet
  <1>2. ASSUME NEW s \in SUBSET K
        PROVE  IsFiniteSet(Grouped(T, key, s)) /\ Cardinality(Grouped(T, key, s)) \in Nat
    <2>1. Grouped(T, key, s) \subseteq T
        BY DEF Grouped
    <2> QED BY <2>1, FS_Subset, FS_CardinalityType
  <1>3. ASSUME NEW s \in SUBSET K, s # {}
        PROVE  g[s] = f[Pick(s)] + g[s \ {Pick(s)}] /\ Pick(s) \in s
    <2> DEFINE x == Pick(s)
    <2>1. x \in s /\ x \in K
        BY <1>3
    <2> HIDE DEF x
    <2>2. /\ Grouped(T, key, s) = Grouped(T, key, {x}) \union Grouped(T, key, s \ {x})
          /\ Grouped(T, key, {x}) \intersect Grouped(T, key, s \ {x}) = {}
        BY <2>1 DEF Grouped
    <2>3. {x} \in SUBSET K /\ s \ {x} \in SUBSET K
        BY <2>1
    <2> DEFINE a == Grouped(T, key, {x})
               b == Grouped(T, key, s \ {x})
    <2>4. IsFiniteSet(a) /\ IsFiniteSet(b) /\ Cardinality(a) \in Nat /\ Cardinality(b) \in Nat
        BY <1>2, <2>3
    <2>5. f[x] = Cardinality(a) /\ g[s \ {x}] = Cardinality(b) /\ g[s] = Cardinality(a \union b)
          /\ a \intersect b = {}
        BY <2>1, <2>2, <2>3
    <2> HIDE DEF a, b, g
    <2>6. Cardinality(a \union b) = Cardinality(a) + Cardinality(b) - Cardinality(a \intersect b)
        BY <2>4, FS_Union
    <2>7. Cardinality(a \intersect b) = 0
        BY <2>5, FS_EmptySet
    <2>8. g[s] = f[x] + g[s \ {x}]
        BY <2>4, <2>5, <2>6, <2>7
    <2> QED BY <2>1, <2>8 DEF x
  <1>4. g[{}] = 0
    <2>1. Grouped(T, key, {}) = {}
        BY DEF Grouped
    <2> QED BY <2>1, FS_EmptySet
  <1>5. g = Body(g)
    <2> HIDE DEF g, Pick
    <2>1. g = [s \in SUBSET K |-> g[s]]
        BY DEF g
    <2>2. \A s \in SUBSET K : g[s] = IF s = {} THEN 0 ELSE f[Pick(s)] + g[s \ {Pick(s)}]
        BY <1>3, <1>4
    <2> QED BY <2>1, <2>2
  <1>6. h = Body(h)
    <2> HIDE DEF g, Body
    <2> QED BY <1>5
  <1>7. h[{}] = 0 /\ \A s \in SUBSET K : s # {} => h[s] = f[Pick(s)] + h[s \ {Pick(s)}]
    <2> HIDE DEF h, Pick
    <2> QED BY <1>6
  <1> DEFINE Bad == {s \in SUBSET K : h[s] # g[s]}
  <1>8. Bad = {}
    <2> SUFFICES ASSUME Bad # {} PROVE FALSE
        OBVIOUS
    <2> HIDE DEF h, g, Pick
    <2>1. IsWellFoundedOn(StrictSubsetOrdering(K), SUBSET K)
        BY FS_StrictSubsetOrderingWellFounded, FS_FiniteSubsetsOfFinite
    <2>2. PICK s \in Bad : \A r \in Bad : ~(<<r, s>> \in StrictSubsetOrdering(K))
      <3>1. Bad \subseteq SUBSET K
          OBVIOUS
      <3> HIDE DEF Bad
      <3> QED BY <2>1, <3>1, WFMin
    <2>3. s # {}
        BY <1>4, <1>7
    <2>4. Pick(s) \in s
        BY <1>3, <2>3
    <2> DEFINE r == s \ {Pick(s)}
    <2>5. r \in SUBSET K /\ <<r, s>> \in StrictSubsetOrdering(K)
        BY <2>4 DEF StrictSubsetOrdering
    <2>6. h[r] = g[r]
        BY <2>2, <2>5
    <2>7. h[s] = g[s]
        BY <1>3, <1>7, <2>3, <2>6
    <2> QED BY <2>7
  <1>9. h[K] = g[K]
    <2> HIDE DEF h, g
    <2> QED BY <1>8
  <1>10. g[K] = Cardinality(T)
    <2>1. Grouped(T, key, K) = T
        BY DEF Grouped
    <2> QED BY <2>1
  <1> HIDE DEF h, g
  <1> QED BY <1>1, <1>9, <1>10

(* Counting by status and counting by assignee both count every task.      *)
LEMMA StatsSum ==
    ASSUME TypeOK, NEW p \in ProjectId
    PROVE  /\ SumFunction(ByStatus(p)) = Cardinality(TasksOf(tasks, p))
           /\ SumFunction(ByAssignee(p)) = Cardinality(TasksOf(tasks, p))
  <1> DEFINE T == TasksOf(tasks, p)
  <1>1. IsFiniteSet(T) /\ \A t \in T : tasks[t] \in TaskRow
    <2>1. T \subseteq TaskId /\ \A t \in T : tasks[t] \in TaskRow
        BY DEF TasksOf, TypeOK, Tasks
    <2> QED BY <2>1, IdsAssumption, FS_Subset
  <1> HIDE DEF T
  <1>2. SumFunction(ByStatus(p)) = Cardinality(T)
    <2> DEFINE key == [t \in T |-> tasks[t].status]
    <2>1. key \in [T -> Status]
        BY <1>1 DEF TaskRow
    <2>2. IsFiniteSet(Status)
      <3>1. IsFiniteSet({"todo"})
          BY FS_Singleton
      <3>2. IsFiniteSet({"todo"} \union {"in_progress"})
          BY <3>1, FS_AddElement
      <3>3. IsFiniteSet({"todo"} \union {"in_progress"} \union {"done"})
          BY <3>2, FS_AddElement
      <3>4. Status = {"todo"} \union {"in_progress"} \union {"done"}
          BY DEF Status
      <3> QED BY <3>3, <3>4
    <2>3. \A s \in Status : Matching(p, s) = Grouped(T, key, {s})
        BY NilAssumption DEF Matching, Grouped, T
    <2> DEFINE K == Status
    <2> HIDE DEF key
    <2>4. ByStatus(p) = [s \in K |-> Cardinality(Grouped(T, key, {s}))]
        BY <2>3 DEF ByStatus
    <2>5. IsFiniteSet(K) /\ key \in [T -> K]
        BY <2>1, <2>2
    <2> DEFINE f == ByStatus(p)
    <2>6. f = [s \in K |-> Cardinality(Grouped(T, key, {s}))]
        BY <2>4
    <2> HIDE DEF K, f
    <2>7. SumFunction(f) = Cardinality(T)
        BY <1>1, <2>5, <2>6, GroupsSum
    <2> QED BY <2>7 DEF f
  <1>3. SumFunction(ByAssignee(p)) = Cardinality(T)
    <2> DEFINE key == [t \in T |-> tasks[t].assignee]
               K == UserId \union {Nil}
    <2>1. key \in [T -> K]
        BY <1>1 DEF TaskRow
    <2>2. IsFiniteSet(K)
        BY IdsAssumption, FS_AddElement
    <2>3. \A a \in K : {t \in TasksOf(tasks, p) : tasks[t].assignee = a} = Grouped(T, key, {a})
        BY DEF Grouped, T
    <2> HIDE DEF key
    <2>4. ByAssignee(p) = [a \in K |-> Cardinality(Grouped(T, key, {a}))]
        BY <2>3 DEF ByAssignee
    <2> DEFINE f == ByAssignee(p)
    <2>5. f = [a \in K |-> Cardinality(Grouped(T, key, {a}))]
        BY <2>4
    <2> HIDE DEF K, f
    <2>6. SumFunction(f) = Cardinality(T)
        BY <1>1, <2>1, <2>2, <2>5, GroupsSum
    <2> QED BY <2>6 DEF f
  <1> QED BY <1>2, <1>3 DEF T

(* Unless a write fell between them, the halves of an answer agree: the    *)
(* task_count and the tasks, the two break-downs of the stats, the total   *)
(* and the page.                                                           *)
THEOREM HalvesOfOneMoment == Spec => []HalvesAgree
  <1>1. ASSUME IInv, List, TwoHalves, ~disturbed PROVE second' = Shown(first)
    <2> DEFINE p == ask.project
    <2>1. first = Total /\ ask \in Asks /\ ask \in Ask /\ p \in ProjectId /\ TypeOK
        BY <1>1, AsksAssumption DEF IInv, FirstIsCurrent, List, TypeOK, Ask
    <2>2. CASE ask.route = "getProject"
      <3>1. ~Paginated /\ Shown(first) = first
          BY <2>1, <2>2, AsksAssumption DEF Paginated, Shown
      <3>2. Matching(p, Nil) = TasksOf(tasks, p)
          BY DEF Matching
      <3> QED BY <1>1, <2>1, <2>2, <3>1, <3>2 DEF List, Total, CountByProjectID
    <2>3. CASE ask.route = "getStats"
      <3>1. ~Paginated /\ Shown(first) = first
          BY <2>1, <2>3, AsksAssumption DEF Paginated, Shown
      <3> QED BY <1>1, <2>1, <2>3, <3>1, StatsSum DEF List, Total
    <2>4. CASE ask.route = "listTasks"
        BY <1>1, <2>1, <2>4 DEF List, Total, CountByProjectIDFiltered
    <2>5. CASE ask.route = "listProjects"
        BY <1>1, <2>1, <2>5 DEF List, Total, FindAccessibleByUserID, CountAccessibleByUserID
    <2> QED BY <2>1, <2>2, <2>3, <2>4, <2>5 DEF Ask, Route
  <1>2. ASSUME IInv, HalvesAgree, [Next]_vars PROVE HalvesAgree'
    <2>0. ask' = ask /\ TwoHalves' = TwoHalves /\ (\A n : Shown(n)' = Shown(n))
        BY <1>2, AskStays DEF TwoHalves, Paginated, Shown
    <2>1. CASE List
        BY <1>1, <1>2, <2>0, <2>1 DEF HalvesAgree, Counted, List
    <2>2. CASE UNCHANGED vars
        BY <1>2, <2>0, <2>2 DEF HalvesAgree, Counted, vars
    <2>3. CASE pc \notin {"done"} /\ ~List
        BY <1>2, <2>3 DEF IInv, FirstIsCurrent, HalvesAgree, Counted, Next, vars, Arrive, LoadProject,
             CheckInvolved, Count, Abandon, Writer, Goto, Answer, Undecided
    <2>4. CASE pc = "done"
        BY <1>2, <2>2, <2>4 DEF Next, Arrive, LoadProject, CheckInvolved, Count, List, Abandon, Writer
    <2> QED BY <2>1, <2>2, <2>3, <2>4
  <1>3. Init => HalvesAgree
      BY DEF Init, HalvesAgree, Counted, Undecided
  <1> QED BY <1>2, <1>3, Invariance, PTL DEF Spec
=============================================================================
