------------------------------- MODULE Views --------------------------------
(***************************************************************************)
(* The read routes: each is a handful of SELECTs, every one of which sees  *)
(* the tables as they are at that moment, while the writers of Board go    *)
(* on.  A reader waits for nobody and disturbs nobody, so one reader shows *)
(* what any of them can see.  An answer is reduced to what its last two    *)
(* statements counted: a total and the rows of the list that goes with it, *)
(* or the two break-downs of the stats route.                              *)
(***************************************************************************)
EXTENDS Schema, Pagination, Functions

CONSTANTS Rows,   \* task rows the writers insert or edit to
          Asks    \* what the reader may ask for

Route == {"getProject", "getStats", "listTasks", "listProjects"}

(* A request: status is the optional filter of listTasks.                  *)
Ask == [route : Route, user : UserId, project : ProjectId,
        status : Status \union {Nil}, page : Int \union {Absent}, limit : Int \union {Absent}]

(* The routes of one project read neither ?page= nor ?limit=.              *)
ASSUME AsksAssumption ==
    /\ Asks \subseteq Ask /\ Rows \subseteq TaskRow
    /\ \A a \in Asks : a.route \in {"getProject", "getStats"} =>
                          a.page = Absent /\ a.limit = Absent

(* An id is a UUID, of 128 bits.                                           *)
ASSUME IdsAssumption == IsFiniteSet(UserId) /\ IsFiniteSet(TaskId)

VARIABLES users, projects, tasks,  \* the tables, as in Board
          pc, ask,
          first, second,  \* what the last two statements returned
          disturbed,      \* did a write fall between them
          spent,          \* ids that projects have had
          reply

vars == <<users, projects, tasks, pc, ask, first, second, disturbed, spent, reply>>
tables == <<users, projects, tasks>>

B == INSTANCE Board

Undecided == 0

Live(ps) == {p \in ProjectId : ps[p] # NoRow}

Init ==
    /\ B!Init
    /\ spent = Live(projects)
    /\ ask \in Asks
    /\ pc = "idle"
    /\ first = 0 /\ second = 0
    /\ disturbed = FALSE
    /\ reply = Undecided

Goto(label) == pc' = label /\ UNCHANGED reply
Answer(code) == pc' = "done" /\ reply' = code

-----------------------------------------------------------------------------
(* The queries.                                                            *)

(* WHERE project_id = $1 and the optional conditions.                      *)
Matching(p, status) ==
    {t \in TasksOf(tasks, p) : status = Nil \/ tasks[t].status = status}

(* Variant: the query of the time before tasks had a creator.              *)
InvolvedAsAssignee(u, p) == \E t \in TasksOf(tasks, p) : tasks[t].assignee = u

InvolvedInProject(u, p) == Involved(tasks, u, p)

(* WHERE p.owner_id = $1 OR EXISTS (...) OR EXISTS (...), written once in  *)
(* the SELECT and again in the COUNT.                                      *)
FindAccessibleByUserID(u) ==
    {p \in Live(projects) :
        \/ projects[p].owner = u
        \/ \E t \in TasksOf(tasks, p) : tasks[t].assignee = u
        \/ \E t \in TasksOf(tasks, p) : tasks[t].creator = u}

(* Variant: when tasks gained a creator, the COUNT was forgotten.          *)
CountWithoutCreators(u) ==
    Cardinality({p \in Live(projects) :
        \/ projects[p].owner = u
        \/ \E t \in TasksOf(tasks, p) : tasks[t].assignee = u})

CountAccessibleByUserID(u) ==
    Cardinality({p \in Live(projects) :
        \/ projects[p].owner = u
        \/ \E t \in TasksOf(tasks, p) : tasks[t].assignee = u
        \/ \E t \in TasksOf(tasks, p) : tasks[t].creator = u})

(* Variant: the count of a project's tasks ignores the filters.            *)
CountAll(p, status) == Cardinality(Matching(p, Nil))

CountByProjectIDFiltered(p, status) == Cardinality(Matching(p, status))

CountByProjectID(p) == Cardinality(TasksOf(tasks, p))

ByStatus(p) == [s \in Status |-> Cardinality(Matching(p, s))]

(* GROUP BY assignee_id; NULL is a group of its own.                       *)
ByAssignee(p) ==
    [a \in UserId \union {Nil} |-> Cardinality({t \in TasksOf(tasks, p) : tasks[t].assignee = a})]

Paginated == ask.page # Absent \/ ask.limit # Absent

(* How many of n rows the answer lists: all, or a page of them.            *)
Shown(n) ==
    IF ~Paginated THEN n
    ELSE LET w == normalizePagination(ask.page, ask.limit)
         IN  Len(Slice([i \in 1..n |-> i], w.limit, Offset(w.page, w.limit)))

-----------------------------------------------------------------------------
(* The reader.                                                             *)

(* A list that is not paginated comes without a total.                     *)
Granted == IF ask.route \in {"listTasks", "listProjects"} /\ ~Paginated THEN "list" ELSE "count"

Arrive ==
    /\ pc = "idle"
    /\ ask.user \in users
    /\ Goto(IF ask.route = "listProjects" THEN Granted ELSE "loadProject")
    /\ UNCHANGED <<tables, ask, first, second, disturbed, spent>>

(* Variant: owning the project is not enough to see it.                    *)
LoadProjectOwnerless ==
    /\ pc \in {"loadProject", "loadAgain"}
    /\ IF projects[ask.project] = NoRow THEN Answer(404)
       ELSE Goto(IF pc = "loadProject" THEN "checkInvolved" ELSE "checkAgain")
    /\ UNCHANGED <<tables, ask, first, second, disturbed, spent>>

(* assertProjectAccessible; GET /projects/:id runs it a second time, for   *)
(* the list of tasks.                                                      *)
LoadProject ==
    LET p == projects[ask.project]
    IN  /\ pc \in {"loadProject", "loadAgain"}
        /\ IF p = NoRow THEN Answer(404)
           ELSE IF pc = "loadProject"
           THEN Goto(IF p.owner = ask.user THEN Granted ELSE "checkInvolved")
           ELSE Goto(IF p.owner = ask.user THEN "list" ELSE "checkAgain")
        /\ UNCHANGED <<tables, ask, first, second, disturbed, spent>>

CheckInvolved ==
    /\ pc \in {"checkInvolved", "checkAgain"}
    /\ IF ~InvolvedInProject(ask.user, ask.project) THEN Answer(403)
       ELSE Goto(IF pc = "checkInvolved" THEN Granted ELSE "list")
    /\ UNCHANGED <<tables, ask, first, second, disturbed, spent>>

Total ==
    CASE ask.route = "getProject" -> CountByProjectID(ask.project)
      [] ask.route = "getStats" -> SumFunction(ByStatus(ask.project))
      [] ask.route = "listTasks" -> CountByProjectIDFiltered(ask.project, ask.status)
      [] ask.route = "listProjects" -> CountAccessibleByUserID(ask.user)

Count ==
    /\ pc = "count"
    /\ first' = Total
    /\ disturbed' = FALSE
    /\ Goto(IF ask.route = "getProject" THEN "loadAgain" ELSE "list")
    /\ UNCHANGED <<tables, ask, second, spent>>

List ==
    /\ pc = "list"
    /\ second' = CASE ask.route = "getProject" -> Cardinality(Matching(ask.project, Nil))
                   [] ask.route = "getStats" -> SumFunction(ByAssignee(ask.project))
                   [] ask.route = "listTasks" -> Shown(Cardinality(Matching(ask.project, ask.status)))
                   [] ask.route = "listProjects" -> Shown(Cardinality(FindAccessibleByUserID(ask.user)))
    /\ Answer(200)
    /\ UNCHANGED <<tables, ask, first, disturbed, spent>>

(* The process dies or the client hangs up.                                *)
Abandon ==
    /\ pc \notin {"idle", "done", "lost"}
    /\ pc' = "lost"
    /\ UNCHANGED <<tables, ask, first, second, disturbed, spent, reply>>

-----------------------------------------------------------------------------
(* The writers, each an atomic step of Board with rows of the instance.    *)
(* uuid.New() draws no id of a project again (nor of a task, but that no   *)
(* reader can tell).  What they do after the answer is of no interest.     *)

Writer(A) ==
    /\ pc \notin {"done", "lost"}
    /\ A
    /\ Live(projects') \intersect spent \subseteq Live(projects)
    /\ spent' = spent \union Live(projects')
    /\ disturbed' = TRUE
    /\ UNCHANGED <<pc, ask, first, second, reply>>

Next ==
    \/ Arrive \/ LoadProject \/ CheckInvolved \/ Count \/ List \/ Abandon
    \/ \E u \in UserId : Writer(B!Register(u))
    \/ \E u \in UserId, p \in ProjectId, n \in Name : Writer(B!CreateProject(u, p, n))
    \/ \E u \in UserId, p \in ProjectId : Writer(B!RemoveProject(u, p))
    \/ \E u \in UserId, t \in TaskId, row \in Rows : Writer(B!AddTask(u, t, row))
    \/ \E t \in TaskId, row \in Rows : Writer(B!EditTask(t, row))
    \/ \E u \in UserId, t \in TaskId : Writer(B!RemoveTask(u, t))
    \/ pc \in {"done", "lost"} /\ UNCHANGED vars

Spec == Init /\ [][Next]_vars

-----------------------------------------------------------------------------
(* Properties.                                                             *)

(* Every variable but the two counts, which are what the queries return.   *)
TypeOK ==
    /\ users \subseteq UserId /\ projects \in Projects /\ tasks \in Tasks
    /\ pc \in {"idle", "loadProject", "checkInvolved", "count", "loadAgain", "checkAgain",
               "list", "done", "lost"}
    /\ ask \in Asks
    /\ disturbed \in BOOLEAN
    /\ spent \subseteq ProjectId
    /\ reply \in {Undecided, 200, 403, 404}

TwoHalves == ask.route \in {"getProject", "getStats"} \/ Paginated
Counted   == reply = 200 /\ TwoHalves

(* The two halves of an answer come from queries written separately: the   *)
(* task_count and the tasks, the two break-downs of the stats, the total   *)
(* and the page.  They agree whenever no write fell between them.          *)
HalvesAgree == Counted /\ ~disturbed => second = Shown(first)

(* Two statements decide that a caller has no access, and a third query,   *)
(* that of GET /projects, lists what a caller has access to.  A caller is  *)
(* refused a project only when its own list does not contain it.           *)
RefusedOnlyUnlisted ==
    [][reply = Undecided /\ reply' = 403 =>
           ask.project \notin FindAccessibleByUserID(ask.user)]_vars

(* docs/API.md:425: GET /projects/:id returns "all tasks in that project   *)
(* and task_count".  The two are separate statements, so they need not     *)
(* agree (README, section 4).                                              *)
TaskCountCountsTasks == reply = 200 /\ ask.route = "getProject" => second = first

(* The inductive invariant.  Behind RefusedOnlyUnlisted: between the two   *)
(* statements that decide it, the project can go but not change hands.     *)
NotTheOwner ==
    pc \in {"checkInvolved", "checkAgain"} =>
        /\ ask.project \in spent
        /\ projects[ask.project] # NoRow => projects[ask.project].owner # ask.user

(* And behind HalvesAgree: what was counted is what there is, until a      *)
(* write; no half is read without having been counted.                     *)
FirstIsCurrent ==
    /\ pc \in {"loadAgain", "checkAgain", "list"} /\ TwoHalves /\ ~disturbed => first = Total
    /\ reply # Undecided => pc = "done"

IInv == TypeOK /\ Live(projects) \subseteq spent /\ NotTheOwner /\ FirstIsCurrent
=============================================================================
