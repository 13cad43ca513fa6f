------------------------------- MODULE Board --------------------------------
(***************************************************************************)
(* What the API promises of its data: every accepted request is one atomic *)
(* step on the three tables, taken by a user who is entitled to it at that *)
(* very moment.  There are no requests, locks or transactions here;        *)
(* Ledger adds who was told of what, and TaskFlow implements that.         *)
(***************************************************************************)
EXTENDS Schema

VARIABLES users, projects, tasks

vars == <<users, projects, tasks>>

Init == \E s \in InitialStores :
            /\ users = s.users
            /\ projects = s.projects
            /\ tasks = s.tasks

Register(u) ==
    /\ u \notin users
    /\ users' = users \union {u}
    /\ UNCHANGED <<projects, tasks>>

(* The caller owns what it creates. *)
CreateProject(u, p, n) ==
    /\ u \in users
    /\ projects[p] = NoRow
    /\ projects' = [projects EXCEPT ![p] = [owner |-> u, name |-> n]]
    /\ UNCHANGED <<users, tasks>>

Owns(u, p) == projects[p] # NoRow /\ projects[p].owner = u

(* A rename is the owner's, and moves the project to nobody else. *)
RenameProject(u, p, n) ==
    /\ Owns(u, p)
    /\ projects' = [projects EXCEPT ![p].name = n]
    /\ UNCHANGED <<users, tasks>>

(* Variant: its tasks stay.                                                *)
RemoveProjectOnly(u, p) ==
    /\ Owns(u, p)
    /\ projects' = [projects EXCEPT ![p] = NoRow]
    /\ UNCHANGED <<users, tasks>>

(* A project goes with all its tasks at once. *)
RemoveProject(u, p) ==
    /\ Owns(u, p)
    /\ projects' = [projects EXCEPT ![p] = NoRow]
    /\ tasks' = Cascade(tasks, p)
    /\ UNCHANGED users

(* A task starts in a live project, and its creator is the caller.  (That  *)
(* the caller still has access is not promised: see TaskFlowAccess.)       *)
AddTask(u, t, row) ==
    /\ u \in users
    /\ tasks[t] = NoRow
    /\ row.creator = u
    /\ TaskRefsOK(users, projects, row)
    /\ tasks' = [tasks EXCEPT ![t] = row]
    /\ UNCHANGED <<users, projects>>

(* An edit keeps the task's project and creator and never un-assigns it.   *)
EditTask(t, row) ==
    /\ tasks[t] # NoRow
    /\ row.project = tasks[t].project
    /\ row.creator = tasks[t].creator
    /\ row.assignee = Nil => tasks[t].assignee = Nil
    /\ row.assignee \in users \union {Nil}
    /\ tasks' = [tasks EXCEPT ![t] = row]
    /\ UNCHANGED <<users, projects>>

RemoveTask(u, t) ==
    /\ tasks[t] # NoRow
    /\ Owns(u, tasks[t].project) \/ tasks[t].creator = u
    /\ tasks' = [tasks EXCEPT ![t] = NoRow]
    /\ UNCHANGED <<users, projects>>

Next ==
    \/ \E u \in UserId : Register(u)
    \/ \E u \in UserId, p \in ProjectId, n \in Name : CreateProject(u, p, n)
    \/ \E u \in UserId, p \in ProjectId, n \in Name : RenameProject(u, p, n)
    \/ \E u \in UserId, p \in ProjectId : RemoveProject(u, p)
    \/ \E u \in UserId, t \in TaskId, row \in TaskRow : AddTask(u, t, row)
    \/ \E t \in TaskId, row \in TaskRow : EditTask(t, row)
    \/ \E u \in UserId, t \in TaskId : RemoveTask(u, t)

Spec == Init /\ [][Next]_vars

(* Whatever users do to the board, every foreign key of its tables holds.  *)
ReferencesHold == Consistent(users, projects, tasks)
=============================================================================
