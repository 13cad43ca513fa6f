------------------------------ MODULE TaskFlow ------------------------------
(***************************************************************************)
(* The write path of the API: the service methods of internal/service run  *)
(* concurrently, one goroutine per request, and meet only in PostgreSQL.   *)
(* A step is one SQL statement, seen by the others at once when it is      *)
(* auto-committed and at COMMIT when it is part of a WithTx transaction.   *)
(* What a request read before a step is kept in its own variables, and may *)
(* be stale when it is used.  Transactions are READ COMMITTED, so a plain  *)
(* SELECT never waits and reads the committed tables; UPDATE and DELETE    *)
(* wait for the row locks of open transactions, and INSERT INTO tasks      *)
(* waits for a DELETE that has locked the project it references.           *)
(***************************************************************************)
EXTENDS Schema

CONSTANTS Req,    \* requests; each runs once
          Calls   \* what the requests may ask for

Op == {"createProject", "updateProject", "deleteProject",
       "createTask", "updateTask", "deleteTask"}

(* The caller, the path parameter and the JSON body of a request.  Nil is  *)
(* a body field that is absent; fields a route does not have are not read. *)
Call == [op       : Op,
         user     : UserId,
         project  : ProjectId,
         task     : TaskId,
         assignee : UserId \union {Nil},
         status   : Status \union {Nil},
         name     : Name \union {Nil}]

ASSUME CallsAssumption ==
    /\ Calls \subseteq Call
    /\ \A c \in Calls : c.op = "createProject" => c.name # Nil

(* uuid.New() never draws an id twice: the row a request creates is named  *)
(* after the request, and no such row is there at the start.               *)
ASSUME MintAssumption ==
    /\ Req \subseteq ProjectId \intersect TaskId
    /\ \A s \in InitialStores, r \in Req : s.projects[r] = NoRow /\ s.tasks[r] = NoRow

VARIABLES
    users, projects, tasks,  \* the committed tables
    pc,      \* the statement each request issues next
    call,    \* what it was asked
    loaded,  \* the row it last read of the row it is about
    draft,   \* the row its open transaction has written
    reply    \* the status code the handler decided on

vars == <<users, projects, tasks, pc, call, loaded, draft, reply>>
tables == <<users, projects, tasks>>

Undecided == 0
Codes == {200, 201, 204, 400, 403, 404, 500}

(* An update holds its row between UPDATE and COMMIT.                      *)
TaskTx    == {"reloadTask", "commitTask"}
ProjectTx == {"reloadProject", "commitProject"}
Running == {"findTask", "loadProject", "checkInvolved", "resolveAssignee",
            "insertProject", "insertTask", "updateTask", "updateProject",
            "deleteTask", "deleteProject", "cascade", "respond"}
           \union TaskTx \union ProjectTx
Over == {"done", "lost"}

Init ==
    /\ \E s \in InitialStores :
            /\ users = s.users
            /\ projects = s.projects
            /\ tasks = s.tasks
    /\ pc = [r \in Req |-> "idle"]
    /\ call \in [Req -> Calls]
    /\ loaded = [r \in Req |-> NoRow]
    /\ draft = [r \in Req |-> NoRow]
    /\ reply = [r \in Req |-> Undecided]

-----------------------------------------------------------------------------
(* Control flow of one handler, and the row locks other requests hold.     *)

Goto(r, label) == pc' = [pc EXCEPT ![r] = label] /\ UNCHANGED reply

Answer(r, code) ==
    /\ pc' = [pc EXCEPT ![r] = "respond"]
    /\ reply' = [reply EXCEPT ![r] = code]

(* Variant: nobody waits for a row that an open transaction has updated.   *)
NoRowLocks(t) == FALSE

(* UPDATE tasks holds its row until the transaction ends.                  *)
TaskLocked(t) == \E q \in Req : pc[q] \in TaskTx /\ call[q].task = t

(* Variant: a cascading DELETE does not hold the project's row.            *)
LockedByUpdates(p) == \E q \in Req : pc[q] \in ProjectTx /\ call[q].project = p

(* So does UPDATE projects, and DELETE FROM projects while it cascades.    *)
ProjectLocked(p) ==
    \E q \in Req : pc[q] \in ProjectTx \union {"cascade"} /\ call[q].project = p

(* An INSERT INTO tasks needs FOR KEY SHARE on the project, which a DELETE *)
(* excludes and an UPDATE that keeps the key does not.                     *)
ProjectGoing(p) == \E q \in Req : pc[q] = "cascade" /\ call[q].project = p

(* The project the request is checked against: the one in the path, or the *)
(* one the task belonged to when it was read.                              *)
Target(r) == IF call[r].op \in {"updateTask", "deleteTask"}
             THEN loaded[r].project ELSE call[r].project

-----------------------------------------------------------------------------
(* Arrival and the checks.                                                 *)

Register(u) ==
    /\ u \notin users
    /\ users' = users \union {u}
    /\ UNCHANGED <<projects, tasks, pc, call, loaded, draft, reply>>

(* A client can only name a row it has seen, or one that was there before. *)
Known(r) ==
    IF call[r].op \in {"updateTask", "deleteTask"}
    THEN call[r].task \in Req => tasks[call[r].task] # NoRow
    ELSE call[r].op # "createProject" /\ call[r].project \in Req
         => projects[call[r].project] # NoRow

(* A patch that names no field is refused before the database is asked.    *)
EmptyPatch(c) ==
    \/ c.op = "updateTask" /\ c.assignee = Nil /\ c.status = Nil
    \/ c.op = "updateProject" /\ c.name = Nil

FirstStep(c) ==
    CASE c.op = "createProject" -> "insertProject"
      [] c.op \in {"updateTask", "deleteTask"} -> "findTask"
      [] OTHER -> "loadProject"

(* The request passes the token check, so its caller is registered.        *)
Arrive(r) ==
    /\ pc[r] = "idle"
    /\ call[r].user \in users
    /\ Known(r)
    /\ IF EmptyPatch(call[r]) THEN Answer(r, 400) ELSE Goto(r, FirstStep(call[r]))
    /\ UNCHANGED <<tables, call, loaded, draft>>

FindTask(r) ==
    /\ pc[r] = "findTask"
    /\ loaded' = [loaded EXCEPT ![r] = tasks[call[r].task]]
    /\ IF tasks[call[r].task] = NoRow THEN Answer(r, 404) ELSE Goto(r, "loadProject")
    /\ UNCHANGED <<tables, call, draft>>

assertProjectOwner(p, u) == p.owner = u

(* Variant: being assigned is enough to delete.                            *)
AssigneeMayDelete(p, t, u) == p.owner = u \/ u \in {t.creator, t.assignee}

assertTaskDeletable(p, t, u) == p.owner = u \/ (t.creator # Nil /\ t.creator = u)

(* The statement that follows the checks carries the name of the operation. *)
LoadProject(r) ==
    LET c == call[r]
        p == projects[Target(r)]
    IN  /\ pc[r] = "loadProject"
        /\ IF p = NoRow THEN Answer(r, 404)
           ELSE IF c.op \in {"createTask", "updateTask"}
           THEN Goto(r, IF p.owner = c.user THEN "resolveAssignee" ELSE "checkInvolved")
           ELSE IF IF c.op = "deleteTask" THEN assertTaskDeletable(p, loaded[r], c.user)
                                          ELSE assertProjectOwner(p, c.user)
           THEN Goto(r, c.op)
           ELSE Answer(r, 403)
        /\ UNCHANGED <<tables, call, loaded, draft>>

(* Variant: a task in any project will do.                                 *)
CheckInvolvedAnywhere(r) ==
    /\ pc[r] = "checkInvolved"
    /\ IF \E p \in ProjectId : Involved(tasks, call[r].user, p)
       THEN Goto(r, "resolveAssignee") ELSE Answer(r, 403)
    /\ UNCHANGED <<tables, call, loaded, draft>>

CheckInvolved(r) ==
    /\ pc[r] = "checkInvolved"
    /\ IF Involved(tasks, call[r].user, Target(r))
       THEN Goto(r, "resolveAssignee") ELSE Answer(r, 403)
    /\ UNCHANGED <<tables, call, loaded, draft>>

WriteStep(c) == IF c.op = "createTask" THEN "insertTask" ELSE "updateTask"

(* Variant: the assignee is not looked up.                                 *)
ResolveAssigneeUnchecked(r) ==
    /\ pc[r] = "resolveAssignee"
    /\ Goto(r, WriteStep(call[r]))
    /\ UNCHANGED <<tables, call, loaded, draft>>

ResolveAssignee(r) ==
    /\ pc[r] = "resolveAssignee"
    /\ IF call[r].assignee \in users \union {Nil}
       THEN Goto(r, WriteStep(call[r])) ELSE Answer(r, 400)
    /\ UNCHANGED <<tables, call, loaded, draft>>

-----------------------------------------------------------------------------
(* The writes.                                                             *)

InsertProject(r) ==
    /\ pc[r] = "insertProject"
    /\ projects' = [projects EXCEPT ![r] = [owner |-> call[r].user, name |-> call[r].name]]
    /\ Answer(r, 201)
    /\ UNCHANGED <<users, tasks, call, loaded, draft>>

NewTask(r) == [project  |-> call[r].project,
               assignee |-> call[r].assignee,
               creator  |-> call[r].user,
               status   |-> IF call[r].status = Nil THEN "todo" ELSE call[r].status]

(* A foreign key that fails is an error no service maps: the handler       *)
(* answers 500.  (The creator's cannot: users are never deleted.)          *)
InsertTask(r) ==
    /\ pc[r] = "insertTask"
    /\ ~ProjectGoing(call[r].project)
    /\ IF TaskRefsOK(users, projects, NewTask(r))
       THEN tasks' = [tasks EXCEPT ![r] = NewTask(r)] /\ Answer(r, 201)
       ELSE UNCHANGED tasks /\ Answer(r, 500)
    /\ UNCHANGED <<users, projects, call, loaded, draft>>

(* SET names only the columns the patch gives.                             *)
Patch(row, c) ==
    [row EXCEPT !.assignee = IF c.assignee = Nil THEN @ ELSE c.assignee,
                !.status   = IF c.status = Nil THEN @ ELSE c.status]

(* Variant: the row is written back whole, from what was read at the start. *)
UpdateTaskFromStale(r) ==
    /\ pc[r] = "updateTask"
    /\ ~TaskLocked(call[r].task)
    /\ IF tasks[call[r].task] = NoRow
       THEN Answer(r, 404) /\ UNCHANGED draft
       ELSE Goto(r, "reloadTask") /\ draft' = [draft EXCEPT ![r] = Patch(loaded[r], call[r])]
    /\ UNCHANGED <<tables, call, loaded>>

(* The transaction of Update: UPDATE tasks, the reload, COMMIT.            *)
UpdateTask(r) ==
    LET row == tasks[call[r].task]
    IN  /\ pc[r] = "updateTask"
        /\ ~TaskLocked(call[r].task)
        /\ IF row = NoRow
           THEN Answer(r, 404) /\ UNCHANGED draft
           ELSE IF call[r].assignee \in users \union {Nil}
           THEN Goto(r, "reloadTask") /\ draft' = [draft EXCEPT ![r] = Patch(row, call[r])]
           ELSE Answer(r, 500) /\ UNCHANGED draft
        /\ UNCHANGED <<tables, call, loaded>>

(* Variant: the reload runs outside the transaction, where the committed   *)
(* row is seen,                                                            *)
ReloadTaskOutside(r) ==
    /\ pc[r] = "reloadTask"
    /\ loaded' = [loaded EXCEPT ![r] = tasks[call[r].task]]
    /\ Goto(r, "commitTask")
    /\ UNCHANGED <<tables, call, draft>>

(* or locks it there, and waits for its own transaction.                   *)
ReloadTaskForUpdateOutside(r) ==
    /\ ~TaskLocked(call[r].task)
    /\ ReloadTaskOutside(r)

(* A transaction reads its own writes.                                     *)
ReloadTask(r) ==
    /\ pc[r] = "reloadTask"
    /\ loaded' = [loaded EXCEPT ![r] = draft[r]]
    /\ Goto(r, "commitTask")
    /\ UNCHANGED <<tables, call, draft>>

CommitTask(r) ==
    /\ pc[r] = "commitTask"
    /\ tasks' = [tasks EXCEPT ![call[r].task] = draft[r]]
    /\ draft' = [draft EXCEPT ![r] = NoRow]
    /\ Answer(r, 200)
    /\ UNCHANGED <<users, projects, call, loaded>>

(* The same for projects; assertProjectOwner was done on an earlier read.  *)
UpdateProject(r) ==
    LET row == projects[call[r].project]
    IN  /\ pc[r] = "updateProject"
        /\ ~ProjectLocked(call[r].project)
        /\ IF row = NoRow
           THEN Answer(r, 404) /\ UNCHANGED draft
           ELSE Goto(r, "reloadProject")
                /\ draft' = [draft EXCEPT ![r] = [row EXCEPT !.name = call[r].name]]
        /\ UNCHANGED <<tables, call, loaded>>

ReloadProject(r) ==
    /\ pc[r] = "reloadProject"
    /\ loaded' = [loaded EXCEPT ![r] = draft[r]]
    /\ Goto(r, "commitProject")
    /\ UNCHANGED <<tables, call, draft>>

CommitProject(r) ==
    /\ pc[r] = "commitProject"
    /\ projects' = [projects EXCEPT ![call[r].project] = draft[r]]
    /\ draft' = [draft EXCEPT ![r] = NoRow]
    /\ Answer(r, 200)
    /\ UNCHANGED <<users, tasks, call, loaded>>

(* Variant: the count of deleted rows is not looked at.                    *)
DeleteTaskUncounted(r) ==
    /\ pc[r] = "deleteTask"
    /\ ~TaskLocked(call[r].task)
    /\ tasks' = [tasks EXCEPT ![call[r].task] = NoRow]
    /\ Answer(r, 204)
    /\ UNCHANGED <<users, projects, call, loaded, draft>>

(* Variant: the row is deleted under an open transaction.                  *)
DeleteTaskUnlocked(r) ==
    /\ pc[r] = "deleteTask"
    /\ tasks' = [tasks EXCEPT ![call[r].task] = NoRow]
    /\ Answer(r, IF tasks[call[r].task] = NoRow THEN 404 ELSE 204)
    /\ UNCHANGED <<users, projects, call, loaded, draft>>

(* One statement; the count of rows it deleted decides the answer.         *)
DeleteTask(r) ==
    /\ pc[r] = "deleteTask"
    /\ ~TaskLocked(call[r].task)
    /\ tasks' = [tasks EXCEPT ![call[r].task] = NoRow]
    /\ Answer(r, IF tasks[call[r].task] = NoRow THEN 404 ELSE 204)
    /\ UNCHANGED <<users, projects, call, loaded, draft>>

(* Variant: the tasks go in a statement of their own.                      *)
DeleteProjectTasksFirst(r) ==
    /\ pc[r] = "deleteProject"
    /\ ~ProjectLocked(call[r].project)
    /\ IF projects[call[r].project] = NoRow THEN Answer(r, 404) ELSE Goto(r, "cascade")
    /\ tasks' = Cascade(tasks, call[r].project)
    /\ UNCHANGED <<users, projects, call, loaded, draft>>

(* DELETE FROM projects locks its row first ...                            *)
DeleteProject(r) ==
    /\ pc[r] = "deleteProject"
    /\ ~ProjectLocked(call[r].project)
    /\ IF projects[call[r].project] = NoRow THEN Answer(r, 404) ELSE Goto(r, "cascade")
    /\ UNCHANGED <<tables, call, loaded, draft>>

(* Variant: no ON DELETE CASCADE.                                          *)
CascadeTasksForgotten(r) ==
    /\ pc[r] = "cascade"
    /\ projects' = [projects EXCEPT ![call[r].project] = NoRow]
    /\ Answer(r, 204)
    /\ UNCHANGED <<users, tasks, call, loaded, draft>>

(* ... then takes the row of each of its tasks, and all go at once.        *)
CascadeTasks(r) ==
    LET p == call[r].project
    IN  /\ pc[r] = "cascade"
        /\ \A t \in TasksOf(tasks, p) : ~TaskLocked(t)
        /\ projects' = [projects EXCEPT ![p] = NoRow]
        /\ tasks' = Cascade(tasks, p)
        /\ Answer(r, 204)
        /\ UNCHANGED <<users, call, loaded, draft>>

-----------------------------------------------------------------------------
(* The end of a request.                                                   *)

Respond(r) ==
    /\ pc[r] = "respond"
    /\ pc' = [pc EXCEPT ![r] = "done"]
    /\ loaded' = [loaded EXCEPT ![r] = NoRow]
    /\ UNCHANGED <<tables, call, draft, reply>>

(* The client goes away, which cancels the request's context, or the       *)
(* process dies.  An open transaction rolls back; what was committed       *)
(* stays, though nobody hears of it.                                       *)
Abandon(r) ==
    /\ pc[r] \in Running
    /\ pc' = [pc EXCEPT ![r] = "lost"]
    /\ loaded' = [loaded EXCEPT ![r] = NoRow]
    /\ draft' = [draft EXCEPT ![r] = NoRow]
    /\ UNCHANGED <<tables, call, reply>>

(* Nothing is running: clients need not send anything more.                *)
Quiescent ==
    /\ \A r \in Req : pc[r] \notin Running
    /\ UNCHANGED vars

Step(r) ==
    \/ FindTask(r) \/ LoadProject(r) \/ CheckInvolved(r) \/ ResolveAssignee(r)
    \/ InsertProject(r) \/ UpdateProject(r) \/ ReloadProject(r) \/ CommitProject(r)
    \/ InsertTask(r) \/ UpdateTask(r) \/ ReloadTask(r) \/ CommitTask(r)
    \/ DeleteTask(r) \/ DeleteProject(r) \/ CascadeTasks(r) \/ Respond(r)

Next ==
    \/ \E u \in UserId : Register(u)
    \/ \E r \in Req : Arrive(r) \/ Step(r) \/ Abandon(r)
    \/ Quiescent

Spec == Init /\ [][Next]_vars

(* A goroutine that is not waiting for a row lock runs on, and PostgreSQL  *)
(* hands a released lock to a waiter.  Nothing makes a client send or      *)
(* hang up, or a user register.                                            *)
Fairness == \A r \in Req : WF_vars(Step(r))

FairSpec == Spec /\ Fairness

-----------------------------------------------------------------------------
(* Properties.                                                             *)

(* Every variable holds what the schema and the handlers' types allow.     *)
TypeOK ==
    /\ users \subseteq UserId
    /\ projects \in Projects
    /\ tasks \in Tasks
    /\ pc \in [Req -> {"idle"} \union Running \union Over]
    /\ call \in [Req -> Calls]
    /\ loaded \in [Req -> TaskRow \union ProjectRow \union {NoRow}]
    /\ draft \in [Req -> TaskRow \union ProjectRow \union {NoRow}]
    /\ reply \in [Req -> Codes \union {Undecided}]

(* However inserts, edits and cascading deletes interleave, no task is     *)
(* left without its project, and no assignee or owner is dangling.         *)
ReferentialIntegrity == Consistent(users, projects, tasks)

(* The verdicts of concurrent handlers do not contradict what is there:    *)
(* a row answered "not found" or "deleted" never reappears (a late COMMIT  *)
(* must not bring it back), and a caller refused an owner's or creator's   *)
(* right has not got it by the time the refusal is read.                   *)
VerdictsStayTrue ==
    \A r \in Req :
        LET c == call[r]
            p == projects[c.project]
            t == tasks[c.task]
        IN  /\ c.op \in {"updateProject", "deleteProject", "createTask"}
               /\ reply[r] = 404 => p = NoRow
            /\ c.op = "updateTask" /\ reply[r] = 404 => t = NoRow
            /\ c.op = "deleteTask" /\ reply[r] \in {204, 404} => t = NoRow
            /\ c.op = "deleteProject" /\ reply[r] = 204 => p = NoRow
            /\ c.op \in {"updateProject", "deleteProject"} /\ reply[r] = 403
               => p = NoRow \/ p.owner # c.user
            /\ c.op = "deleteTask" /\ reply[r] = 403
               => t = NoRow \/ (t.creator # c.user /\ projects[t.project].owner # c.user)

(* The checks made before a write leave one way to an internal error:      *)
(* the project of a new task is deleted after it was checked and before    *)
(* the INSERT.                                                             *)
InternalErrorOnlyOnLostProject ==
    \A r \in Req : reply[r] = 500 =>
        call[r].op = "createTask" /\ projects[call[r].project] = NoRow

(* What was created is there until a delete that came to its 204 took it   *)
(* away: none that was cut off or half-done before it loses a created      *)
(* task.  A reply is what the handler has decided; a client that leaves    *)
(* before Respond does not hear it.                                        *)
AckedTaskSurvives ==
    \A r \in Req : call[r].op = "createTask" /\ reply[r] = 201 =>
        \/ tasks[r] # NoRow
        \/ \E q \in Req : /\ reply[q] = 204
                          /\ \/ call[q].op = "deleteTask" /\ call[q].task = r
                             \/ call[q].op = "deleteProject" /\ call[q].project = call[r].project

(* Of two racing deletes of one row, one is told it deleted it.            *)
EachRowDeletedOnce ==
    \A r, q \in Req : r # q /\ reply[r] = 204 /\ reply[q] = 204 /\ call[r].op = call[q].op =>
        IF call[r].op = "deleteTask" THEN call[r].task # call[q].task
                                     ELSE call[r].project # call[q].project

(* Until COMMIT, what a transaction wrote is its patch of the row as       *)
(* committed: nobody changed or deleted the row behind its back.           *)
DraftBuiltOnCommitted ==
    \A r \in Req :
        /\ pc[r] \in TaskTx =>
               /\ tasks[call[r].task] # NoRow
               /\ draft[r] = Patch(tasks[call[r].task], call[r])
        /\ pc[r] \in ProjectTx =>
               /\ projects[call[r].project] # NoRow
               /\ draft[r] = [projects[call[r].project] EXCEPT !.name = call[r].name]

(* A live task changes only by the COMMIT of a patch, and only in the      *)
(* columns the patch names: concurrent patches of different columns do not *)
(* overwrite each other with what they had read.                           *)
PatchKeepsOtherColumns ==
    [][\A t \in TaskId :
          tasks[t] # NoRow /\ tasks'[t] # NoRow /\ tasks'[t] # tasks[t] =>
              \E r \in Req :
                  /\ pc[r] = "commitTask" /\ call[r].task = t /\ reply'[r] = 200
                  /\ tasks'[t].assignee # tasks[t].assignee => tasks'[t].assignee = call[r].assignee
                  /\ tasks'[t].status # tasks[t].status => tasks'[t].status = call[r].status
                  /\ tasks'[t].project = tasks[t].project
                  /\ tasks'[t].creator = tasks[t].creator]_vars

(* docs/ARCHITECTURE.md:45: the row a PATCH returns is the committed one.  *)
ReplyShowsCommittedRow ==
    [][\A r \in Req : reply[r] = Undecided /\ reply'[r] = 200 =>
          loaded'[r] = IF call[r].op = "updateTask" THEN tasks'[call[r].task]
                                                    ELSE projects'[call[r].project]]_vars

(* What handlers have decided to tell their clients they did.              *)
Acknowledged == {200, 201, 204}

Subject(r) == CASE call[r].op \in {"createProject", "createTask"} -> r
                [] call[r].op \in {"updateTask", "deleteTask"} -> call[r].task
                [] OTHER -> call[r].project

Deed(r) == [op |-> call[r].op, user |-> call[r].user, id |-> Subject(r)]

deeds == {Deed(r) : r \in {q \in Req : reply[q] \in Acknowledged}}

(* Every handler's effect on the tables is one atomic step of the promised *)
(* board, taken in the name of its caller, who has the right to it at that *)
(* moment whatever was stale when it was decided; a 2xx answer means that  *)
(* the step was taken, and no table changes without one.                   *)
B == INSTANCE Ledger WITH
         users <- users, projects <- projects, tasks <- tasks, deeds <- deeds
BoardSpec == B!LedgerSpec

(* Whoever is not cut off is answered: no wait for a row lock is for ever. *)
EveryRequestAnswered == \A r \in Req : pc[r] \in Running ~> pc[r] \in Over

(* task_service.go:36: Create "ensures the project exists and is           *)
(* accessible", and docs/API.md:691 answers 404 when it does not.          *)
CreateTaskNeverFailsInside == \A r \in Req : call[r].op = "createTask" => reply[r] # 500
=============================================================================
