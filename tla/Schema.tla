------------------------------- MODULE Schema -------------------------------
(***************************************************************************)
(* The three tables of TaskFlow (migrations/000001 and 000003), the        *)
(* constraints PostgreSQL enforces on them, and the queries the services   *)
(* ask of them.  No variables: a table is a function from ids to rows, and *)
(* an id whose row does not exist is mapped to NoRow.  A user is just an   *)
(* id here; user rows are never updated or deleted by the API.             *)
(***************************************************************************)
EXTENDS FiniteSets, Naturals

CONSTANTS UserId, ProjectId, TaskId,
          Name,          \* names a project can carry
          Nil,           \* SQL NULL, and Go's nil pointer: "not given"
          NoRow,         \* no row has this id
          InitialStores  \* contents the database may have when the API starts

Status == {"todo", "in_progress", "done"}

ProjectRow == [owner : UserId, name : Name]

TaskRow == [project  : ProjectId,
            assignee : UserId \union {Nil},
            creator  : UserId \union {Nil},
            status   : Status]

Projects == [ProjectId -> ProjectRow \union {NoRow}]
Tasks    == [TaskId -> TaskRow \union {NoRow}]

TasksOf(tasks, p) == {t \in TaskId : tasks[t] # NoRow /\ tasks[t].project = p}

(* ON DELETE CASCADE of tasks_project_id_fkey. *)
Cascade(tasks, p) == [t \in TaskId |-> IF t \in TasksOf(tasks, p) THEN NoRow ELSE tasks[t]]

(* SELECT EXISTS (... assignee_id = $2 OR created_by = $2). *)
Involved(tasks, u, p) ==
    \E t \in TasksOf(tasks, p) : u \in {tasks[t].assignee, tasks[t].creator}

(* What a row needs of the other tables for its foreign keys to hold. *)
ProjectRefsOK(users, row) == row.owner \in users

TaskRefsOK(users, projects, row) ==
    /\ projects[row.project] # NoRow
    /\ row.assignee \in users \union {Nil}
    /\ row.creator \in users \union {Nil}

(* A database in which every foreign key of the three tables holds. *)
Consistent(users, projects, tasks) ==
    /\ \A p \in ProjectId : projects[p] # NoRow => ProjectRefsOK(users, projects[p])
    /\ \A t \in TaskId : tasks[t] # NoRow => TaskRefsOK(users, projects, tasks[t])

ASSUME NilAssumption ==
    /\ Nil \notin UserId \union Name \union Status
    /\ NoRow \notin ProjectRow \union TaskRow

(* Every store the API is started on was built through the schema. *)
ASSUME StoresAssumption ==
    \A s \in InitialStores :
        /\ s.users \subseteq UserId
        /\ s.projects \in Projects
        /\ s.tasks \in Tasks
        /\ Consistent(s.users, s.projects, s.tasks)
=============================================================================
