--------------------------- MODULE TaskFlowProofs ---------------------------
(***************************************************************************)
(* The proofs about TaskFlow.  IInv (module TaskFlowInv) is inductive; the *)
(* properties of TaskFlow and its refinement of Board follow from it, and  *)
(* what Board and Ledger promise by themselves is proved at the end.       *)
(***************************************************************************)
EXTENDS TaskFlowAccess, TLAPS

(* A patched task row is a task row of the same project and creator.       *)
LEMMA PatchedRow ==
    ASSUME NEW row \in TaskRow, NEW c \in Call
    PROVE  /\ Patch(row, c) \in TaskRow
           /\ Patch(row, c).project = row.project
           /\ Patch(row, c).creator = row.creator
           /\ Patch(row, c).assignee = IF c.assignee = Nil THEN row.assignee ELSE c.assignee
BY DEF Patch, TaskRow, Call

(* The row INSERT INTO tasks is given.                                     *)
LEMMA NewRow ==
    ASSUME NEW r \in Req, call[r] \in Call
    PROVE  /\ NewTask(r) \in TaskRow
           /\ NewTask(r).project = call[r].project
           /\ NewTask(r).creator = call[r].user
           /\ NewTask(r).assignee = call[r].assignee
BY NilAssumption DEF NewTask, TaskRow, Call, Status

LEMMA CascadedTasks ==
    ASSUME NEW ts \in Tasks, NEW p \in ProjectId
    PROVE  /\ Cascade(ts, p) \in Tasks
           /\ \A t \in TaskId : Cascade(ts, p)[t] # NoRow =>
                  Cascade(ts, p)[t] = ts[t] /\ ts[t].project # p
           /\ \A t \in TaskId : ts[t] # NoRow /\ ts[t].project # p =>
                  Cascade(ts, p)[t] = ts[t]
BY DEF Cascade, TasksOf, Tasks

LEMMA TypeInit == Init => TypeInv
BY StoresAssumption, CallsAssumption
   DEF Init, TypeInv, TypeOK, Flow, FlowOf, Reaches, Running, Over, Codes, Undecided, TaskTx,
       ProjectTx, Call

-----------------------------------------------------------------------------
(* What every step has in common.                                          *)

USE DEF Running, Over, Codes, Undecided, TaskTx, ProjectTx, OnTask

Acts(r) == Arrive(r) \/ Step(r) \/ Abandon(r)

(* A request moves only itself, and no request changes the users.          *)
LEMMA OthersStay ==
    ASSUME TypeOK, NEW r \in Req, Acts(r)
    PROVE  /\ call' = call /\ users' = users
           /\ \A q \in Req \ {r} :
                  /\ pc'[q] = pc[q] /\ reply'[q] = reply[q]
                  /\ loaded'[q] = loaded[q] /\ draft'[q] = draft[q]
<1> USE DEF TypeOK, Answer, Goto, tables
<1>1. CASE Arrive(r)           BY <1>1 DEF Arrive
<1>2. CASE FindTask(r)         BY <1>2 DEF FindTask
<1>3. CASE LoadProject(r)
  <2>1. pc' = [pc EXCEPT ![r] = pc'[r]] /\ reply' = [reply EXCEPT ![r] = reply'[r]]
    BY <1>3 DEF LoadProject
  <2> QED BY <1>3, <2>1 DEF LoadProject
<1>4. CASE CheckInvolved(r)    BY <1>4 DEF CheckInvolved
<1>5. CASE ResolveAssignee(r)  BY <1>5 DEF ResolveAssignee
<1>6. CASE InsertProject(r)    BY <1>6 DEF InsertProject
<1>7. CASE UpdateProject(r)    BY <1>7 DEF UpdateProject
<1>8. CASE ReloadProject(r)    BY <1>8 DEF ReloadProject
<1>9. CASE CommitProject(r)    BY <1>9 DEF CommitProject
<1>10. CASE InsertTask(r)      BY <1>10 DEF InsertTask
<1>11. CASE UpdateTask(r)      BY <1>11 DEF UpdateTask
<1>12. CASE ReloadTask(r)      BY <1>12 DEF ReloadTask
<1>13. CASE CommitTask(r)      BY <1>13 DEF CommitTask
<1>14. CASE DeleteTask(r)      BY <1>14 DEF DeleteTask
<1>15. CASE DeleteProject(r)   BY <1>15 DEF DeleteProject
<1>16. CASE CascadeTasks(r)    BY <1>16 DEF CascadeTasks
<1>17. CASE Respond(r)         BY <1>17 DEF Respond
<1>18. CASE Abandon(r)         BY <1>18 DEF Abandon
<1> QED
    BY <1>1, <1>2, <1>3, <1>4, <1>5, <1>6, <1>7, <1>8, <1>9, <1>10, <1>11, <1>12, <1>13,
       <1>14, <1>15, <1>16, <1>17, <1>18 DEF Acts, Step

-----------------------------------------------------------------------------
(* The types.                                                              *)

LEMMA TypeStep == TypeInv /\ [Next]_vars => TypeInv'
<1> SUFFICES ASSUME TypeOK, Flow, [Next]_vars
             PROVE  TypeOK' /\ Flow'
    BY DEF TypeInv
<1>0. \A r \in Req : call[r] \in Call
    BY CallsAssumption DEF TypeOK
<1>1. CASE UNCHANGED vars
    BY <1>1 DEF TypeOK, Flow, FlowOf, vars
<1>2. ASSUME NEW u \in UserId, Register(u)
      PROVE  TypeOK' /\ Flow'
    BY <1>2 DEF TypeOK, Flow, FlowOf, Register
<1>3. ASSUME NEW r \in Req, Acts(r)
      PROVE  TypeOK' /\ Flow'
  <2> DEFINE c == call[r]
  <2>0. c \in Call /\ FlowOf(r) /\ c \in Calls
    BY <1>0 DEF Flow, TypeOK
  <2>1. call' = call /\ \A q \in Req \ {r} : FlowOf(q)'
    BY <1>3, OthersStay DEF Flow, FlowOf
  <2> SUFFICES TypeOK' /\ FlowOf(r)'
    BY <2>1 DEF Flow
  <2>2. CASE Arrive(r)
    <3>1. TypeOK'
      BY <2>2, <2>0 DEF TypeOK, Arrive, Answer, Goto, FirstStep, tables
    <3>2. FlowOf(r)'
      BY <2>2, <2>0, <2>1 DEF TypeOK, FlowOf, Reaches, Arrive, Answer, Goto, FirstStep, EmptyPatch, tables, Call, Op
    <3> QED BY <3>1, <3>2
  <2>3. CASE FindTask(r)
    <3>1. TypeOK'
      BY <2>3, <2>0 DEF TypeOK, FindTask, Answer, Goto, tables, Tasks, Call
    <3>2. FlowOf(r)'
      BY <2>3, <2>0, <2>1 DEF TypeOK, FlowOf, Reaches, FindTask, Answer, Goto, tables, Tasks, Call
    <3> QED BY <3>1, <3>2
  <2>4. CASE LoadProject(r)
    <3>1. \/ \E l \in Running : Goto(r, l) /\ Reaches(c.op, l)
                            /\ l \in {"resolveAssignee", "checkInvolved", c.op}
          \/ \E k \in Codes : Answer(r, k)
      BY <2>4, <2>0 DEF LoadProject, FlowOf, Reaches, Op, Call
    <3>2. TypeOK'
      BY <2>4, <3>1 DEF TypeOK, LoadProject, Answer, Goto, tables
    <3>3. FlowOf(r)'
      BY <2>4, <2>0, <2>1, <3>1 DEF TypeOK, FlowOf, Reaches, LoadProject, Answer, Goto, tables, Op
    <3> QED BY <3>2, <3>3
  <2>5. CASE CheckInvolved(r)
    <3>1. TypeOK'
      BY <2>5, <2>0 DEF TypeOK, CheckInvolved, Answer, Goto, tables
    <3>2. FlowOf(r)'
      BY <2>5, <2>0, <2>1 DEF TypeOK, FlowOf, Reaches, CheckInvolved, Answer, Goto, tables
    <3> QED BY <3>1, <3>2
  <2>6. CASE ResolveAssignee(r)
    <3>1. TypeOK'
      BY <2>6, <2>0 DEF TypeOK, ResolveAssignee, Answer, Goto, WriteStep, tables
    <3>2. FlowOf(r)'
      BY <2>6, <2>0, <2>1 DEF TypeOK, FlowOf, Reaches, ResolveAssignee, Answer, Goto, WriteStep, tables
    <3> QED BY <3>1, <3>2
  <2>7. CASE InsertProject(r)
    <3>1. [owner |-> c.user, name |-> c.name] \in ProjectRow
      BY <2>7, <2>0, CallsAssumption DEF FlowOf, InsertProject, Reaches, ProjectRow, Call
    <3>2. TypeOK'
      BY <2>7, <3>1, MintAssumption DEF TypeOK, InsertProject, Answer, Projects
    <3>3. FlowOf(r)'
      BY <2>7, <2>0, <2>1 DEF TypeOK, FlowOf, InsertProject, Answer, Reaches
    <3> QED BY <3>2, <3>3
  <2>8. CASE UpdateProject(r)
    <3>1. projects[c.project] # NoRow =>
             [projects[c.project] EXCEPT !.name = c.name] \in ProjectRow
      BY <2>8, <2>0 DEF TypeOK, FlowOf, UpdateProject, Reaches, Projects, ProjectRow, Call
    <3>2. TypeOK'
      BY <2>8, <3>1 DEF TypeOK, UpdateProject, Answer, Goto, tables
    <3>3. FlowOf(r)'
      BY <2>8, <2>0, <2>1, <3>1 DEF TypeOK, FlowOf, UpdateProject, Answer, Goto, tables, Reaches
    <3> QED BY <3>2, <3>3
  <2>9. CASE ReloadProject(r)
    <3>1. TypeOK'
      BY <2>9, <2>0 DEF TypeOK, ReloadProject, Goto, tables
    <3>2. FlowOf(r)'
      BY <2>9, <2>0, <2>1 DEF TypeOK, FlowOf, Reaches, ReloadProject, Goto, tables
    <3> QED BY <3>1, <3>2
  <2>10. CASE CommitProject(r)
    <3>1. projects' \in Projects
      BY <2>10, <2>0 DEF TypeOK, CommitProject, FlowOf, Projects
    <3>2. TypeOK'
      BY <2>10, <3>1 DEF TypeOK, CommitProject, Answer
    <3>3. FlowOf(r)'
      BY <2>10, <2>0, <2>1 DEF TypeOK, FlowOf, CommitProject, Answer, Reaches
    <3> QED BY <3>2, <3>3
  <2>11. CASE InsertTask(r)
    <3>1. NewTask(r) \in TaskRow
      BY <2>0, NewRow
    <3>2. TypeOK'
      BY <2>11, <3>1, MintAssumption DEF TypeOK, InsertTask, Answer, Tasks
    <3>3. FlowOf(r)'
      BY <2>11, <2>0, <2>1 DEF TypeOK, FlowOf, InsertTask, Answer, Reaches
    <3> QED BY <3>2, <3>3
  <2>12. CASE UpdateTask(r)
    <3>1. tasks[c.task] # NoRow => Patch(tasks[c.task], c) \in TaskRow
      BY <2>0, PatchedRow DEF TypeOK, Tasks, Call
    <3>2. TypeOK'
      BY <2>12, <3>1 DEF TypeOK, UpdateTask, Answer, Goto, tables
    <3>3. FlowOf(r)'
      BY <2>12, <2>0, <2>1, <3>1 DEF TypeOK, FlowOf, UpdateTask, Answer, Goto, tables, Reaches
    <3> QED BY <3>2, <3>3
  <2>13. CASE ReloadTask(r)
    <3>1. TypeOK'
      BY <2>13, <2>0 DEF TypeOK, ReloadTask, Goto, tables
    <3>2. FlowOf(r)'
      BY <2>13, <2>0, <2>1 DEF TypeOK, FlowOf, Reaches, ReloadTask, Goto, tables
    <3> QED BY <3>1, <3>2
  <2>14. CASE CommitTask(r)
    <3>1. draft[r] \in TaskRow
      BY <2>14, <2>0 DEF CommitTask, FlowOf, Reaches
    <3>2. tasks' \in Tasks
      BY <2>14, <3>1 DEF TypeOK, CommitTask, Tasks
    <3>3. TypeOK'
      BY <2>14, <2>0, <3>2 DEF TypeOK, CommitTask, Answer
    <3>4. FlowOf(r)'
      BY <2>14, <2>0, <2>1 DEF TypeOK, FlowOf, Reaches, CommitTask, Answer
    <3> QED BY <3>3, <3>4
  <2>15. CASE DeleteTask(r)
    <3>1. \E k \in Codes : Answer(r, k)
      BY <2>15 DEF DeleteTask
    <3>2. tasks' \in Tasks
      BY <2>15 DEF TypeOK, DeleteTask, Tasks
    <3>3. TypeOK'
      BY <2>15, <3>1, <3>2 DEF TypeOK, DeleteTask, Answer
    <3>4. FlowOf(r)'
      BY <2>15, <2>0, <2>1, <3>1 DEF TypeOK, FlowOf, Answer, Reaches
    <3> QED BY <3>3, <3>4
  <2>16. CASE DeleteProject(r)
    <3>1. TypeOK'
      BY <2>16, <2>0 DEF TypeOK, DeleteProject, Answer, Goto, tables
    <3>2. FlowOf(r)'
      BY <2>16, <2>0, <2>1 DEF TypeOK, FlowOf, Reaches, DeleteProject, Answer, Goto, tables
    <3> QED BY <3>1, <3>2
  <2>17. CASE CascadeTasks(r)
    <3>1. tasks' \in Tasks
      BY <2>17, <2>0, CascadedTasks DEF TypeOK, CascadeTasks, Call
    <3>2. TypeOK'
      <4>1. projects' \in Projects
        BY <2>17, <2>0 DEF TypeOK, CascadeTasks, Projects
      <4>2. /\ pc' \in [Req -> {"idle"} \union Running \union Over]
            /\ reply' \in [Req -> Codes \union {Undecided}]
        BY <2>17 DEF TypeOK, CascadeTasks, Answer
      <4> QED BY <2>17, <3>1, <4>1, <4>2 DEF TypeOK, CascadeTasks
    <3>3. FlowOf(r)'
      BY <2>17, <2>0, <2>1 DEF TypeOK, FlowOf, CascadeTasks, Answer, Reaches
    <3> QED BY <3>2, <3>3
  <2>18. CASE Respond(r)
    <3>1. TypeOK'
      BY <2>18, <2>0 DEF TypeOK, Respond, tables
    <3>2. FlowOf(r)'
      BY <2>18, <2>0, <2>1 DEF TypeOK, FlowOf, Reaches, Respond, tables
    <3> QED BY <3>1, <3>2
  <2>19. CASE Abandon(r)
    <3>1. TypeOK'
      BY <2>19, <2>0 DEF TypeOK, Abandon, tables
    <3>2. FlowOf(r)'
      BY <2>19, <2>0, <2>1 DEF TypeOK, FlowOf, Reaches, Abandon, tables
    <3> QED BY <3>1, <3>2
  <2> QED
    BY <1>3, <2>2, <2>3, <2>4, <2>5, <2>6, <2>7, <2>8, <2>9, <2>10,
       <2>11, <2>12, <2>13, <2>14, <2>15, <2>16, <2>17, <2>18, <2>19 DEF Acts, Step
<1> QED
    BY <1>1, <1>2, <1>3 DEF Next, Acts, Quiescent

(* The tables and the handlers' variables keep their types, and each       *)
(* statement is reached by the operations it belongs to only.              *)
THEOREM TypeCorrect == Spec => []TypeOK
<1>1. TypeInv => TypeOK
    BY DEF TypeInv
<1> QED
    BY <1>1, TypeInit, TypeStep, PTL DEF Spec

-----------------------------------------------------------------------------
(* The invariant.                                                          *)

LEMMA Started == Init => IInv
<1> SUFFICES ASSUME Init PROVE IInv
    OBVIOUS
<1>1. TypeInv
    BY TypeInit
<1>2. ReferentialIntegrity
    BY StoresAssumption DEF Init, ReferentialIntegrity
<1>3. Minting
    BY MintAssumption DEF Init, Minting, MintingOf
<1>4. Locking
    BY DEF Init, Locking, DraftBuiltOnCommitted
<1>5. Checked
    BY DEF Init, Checked, CheckedOf
<1> QED BY <1>1, <1>2, <1>3, <1>4, <1>5 DEF IInv

(* Six statements change the tables, and none changes a users row.         *)
Writes(r) ==
    \/ InsertProject(r) \/ CommitProject(r)
    \/ InsertTask(r) \/ CommitTask(r) \/ DeleteTask(r) \/ CascadeTasks(r)

LEMMA QuietOrWrites ==
    ASSUME NEW r \in Req, Acts(r), ~Writes(r)
    PROVE  UNCHANGED tables
BY DEF Acts, Step, Writes, tables, Arrive, FindTask, LoadProject, CheckInvolved, ResolveAssignee,
       UpdateProject, ReloadProject, UpdateTask, ReloadTask, DeleteProject, Respond, Abandon

(* A handler that has decided does not change its mind.                    *)
LEMMA RepliesStick ==
    ASSUME TypeInv, NEW r \in Req, Acts(r), NEW q \in Req, reply[q] # Undecided
    PROVE  reply'[q] = reply[q]
<1> USE DEF TypeInv
<1>1. CASE q # r
    BY <1>1, OthersStay
<1>2. CASE q = r
  <2>1. pc[r] \in Over \union {"respond"}
    BY <1>2 DEF Flow, FlowOf
  <2>2. Respond(r) \/ Abandon(r)
    BY <2>1 DEF Acts, Step, Arrive, FindTask, LoadProject, CheckInvolved, ResolveAssignee,
       InsertProject, UpdateProject, ReloadProject, CommitProject, InsertTask, UpdateTask,
       ReloadTask, CommitTask, DeleteTask, DeleteProject, CascadeTasks
  <2> QED BY <1>2, <2>2 DEF Respond, Abandon
<1> QED BY <1>1, <1>2

(* What the writing statements do to the rows, said without transactions:  *)
(* the names on the left are those of Board's actions.                     *)
LEMMA Committed ==
    ASSUME IInv, NEW r \in Req, CommitTask(r)
    PROVE  /\ tasks[call[r].task] # NoRow
           /\ call[r].task \in TaskId
           /\ tasks' = [tasks EXCEPT ![call[r].task] = Patch(tasks[call[r].task], call[r])]
           /\ tasks[call[r].task] \in TaskRow
           /\ call[r].assignee \in users \union {Nil}
           /\ call[r] \in Call
<1> USE DEF IInv, TypeInv
<1>1. call[r] \in Call
    BY CallsAssumption DEF TypeOK
<1>2. draft[r] = Patch(tasks[call[r].task], call[r]) /\ tasks[call[r].task] # NoRow
    BY DEF CommitTask, Locking, DraftBuiltOnCommitted
<1>3. call[r].assignee \in users \union {Nil}
    BY DEF CommitTask, Checked, CheckedOf
<1> QED BY <1>1, <1>2, <1>3 DEF CommitTask, TypeOK, Tasks, Call

LEMMA Renamed ==
    ASSUME IInv, NEW r \in Req, CommitProject(r)
    PROVE  LET p == call[r].project
           IN  /\ projects[p] # NoRow
               /\ p \in ProjectId
               /\ projects' = [projects EXCEPT ![p].name = call[r].name]
               /\ projects[p] \in ProjectRow
               /\ projects[p].owner = call[r].user
               /\ call[r].name \in Name
<1> USE DEF IInv, TypeInv
<1>1. call[r] \in Call
    BY CallsAssumption DEF TypeOK
<1>2. /\ draft[r] = [projects[call[r].project] EXCEPT !.name = call[r].name]
      /\ projects[call[r].project] # NoRow
    BY DEF CommitProject, Locking, DraftBuiltOnCommitted
<1>3. projects[call[r].project] \in ProjectRow /\ call[r].project \in ProjectId
    BY <1>1, <1>2 DEF TypeOK, Projects, Call
<1>4. projects[call[r].project].owner = call[r].user
    BY <1>2 DEF CommitProject, Checked, CheckedOf
<1>5. call[r].name \in Name
    BY <1>2, <1>3 DEF CommitProject, Flow, FlowOf, ProjectRow
<1> QED BY <1>2, <1>3, <1>4, <1>5 DEF CommitProject

(* The id a request mints is nobody's row, and nobody asks about it.       *)
LEMMA Fresh ==
    ASSUME IInv, NEW r \in Req, pc[r] \in {"insertProject", "insertTask"}
    PROVE  /\ projects[r] = NoRow /\ tasks[r] = NoRow
           /\ \A q \in Req : pc[q] # "idle" =>
                  /\ call[q].op \in OnTask => call[q].task # r
                  /\ call[q].op \in OnProject => call[q].project # r
BY DEF IInv, TypeInv, Minting, MintingOf, Created, Flow, FlowOf

LEMMA IntegrityStep ==
    ASSUME IInv, NEW r \in Req, Acts(r)
    PROVE  ReferentialIntegrity'
<1> USE DEF IInv, TypeInv, ReferentialIntegrity, Consistent, ProjectRefsOK, TaskRefsOK
<1>0. users' = users /\ call[r] \in Call
    BY OthersStay, CallsAssumption DEF TypeOK
<1>1. CASE ~Writes(r)
    BY <1>1, QuietOrWrites DEF tables
<1>2. CASE InsertProject(r)
  <2>1. call[r].user \in users
    BY <1>2 DEF InsertProject, Minting, MintingOf
  <2>2. ASSUME NEW p \in ProjectId, projects'[p] # NoRow
        PROVE  projects'[p].owner \in users
    BY <1>2, <2>1, <2>2 DEF InsertProject, TypeOK, Projects
  <2>3. ASSUME NEW t \in TaskId, tasks'[t] # NoRow
        PROVE  tasks'[t] = tasks[t] /\ projects'[tasks[t].project] # NoRow
    <3>1. tasks'[t] = tasks[t] /\ tasks[t].project \in ProjectId /\ tasks[t].project # r
      BY <1>2, <2>3, Fresh DEF InsertProject, TypeOK, Tasks, TaskRow
    <3> QED BY <1>2, <2>3, <3>1 DEF InsertProject, TypeOK, Projects
  <2> QED BY <1>0, <2>2, <2>3
<1>3. CASE CommitProject(r)
  <2> DEFINE c == call[r]
  <2>1. /\ c.project \in ProjectId /\ projects[c.project] \in ProjectRow
        /\ projects' = [projects EXCEPT ![c.project].name = c.name]
        /\ tasks' = tasks
    BY <1>3, Renamed DEF CommitProject
  <2>2. ASSUME NEW p \in ProjectId
        PROVE  /\ projects'[p] # NoRow => projects[p] # NoRow /\ projects'[p].owner = projects[p].owner
               /\ projects[p] # NoRow => projects'[p] # NoRow
    <3>1. [projects[c.project] EXCEPT !.name = c.name] \in ProjectRow
      BY <1>3, <2>1, Renamed DEF ProjectRow
    <3> QED BY <2>1, <3>1, NilAssumption DEF TypeOK, Projects, ProjectRow
  <2>3. \A t \in TaskId : tasks[t] # NoRow => tasks[t].project \in ProjectId
    BY DEF TypeOK, Tasks, TaskRow
  <2> QED BY <1>0, <2>1, <2>2, <2>3
<1>4. CASE InsertTask(r)
  <2>1. /\ UNCHANGED projects
        /\ tasks' = tasks \/ (tasks' = [tasks EXCEPT ![r] = NewTask(r)]
                              /\ TaskRefsOK(users, projects, NewTask(r)))
    BY <1>4 DEF InsertTask
  <2>2. ASSUME NEW t \in TaskId, tasks'[t] # NoRow
        PROVE  TaskRefsOK(users, projects, tasks'[t])
    BY <2>1, <2>2 DEF TypeOK, Tasks
  <2>3. projects' = projects /\ users' = users
    BY <1>0, <2>1
  <2>4. \A p \in ProjectId : projects'[p] # NoRow => ProjectRefsOK(users', projects'[p])
    BY <2>3
  <2>5. \A t \in TaskId : tasks'[t] # NoRow => TaskRefsOK(users', projects', tasks'[t])
    BY <2>2, <2>3
  <2> QED BY <2>4, <2>5
<1>5. CASE CommitTask(r)
  <2> DEFINE t0 == call[r].task
  <2>1. /\ projects' = projects /\ t0 \in TaskId /\ tasks[t0] # NoRow
        /\ tasks' = [tasks EXCEPT ![t0] = Patch(tasks[t0], call[r])]
    BY <1>5, Committed DEF CommitTask
  <2>2. TaskRefsOK(users, projects, tasks[t0])
    BY <2>1
  <2>3. TaskRefsOK(users, projects, Patch(tasks[t0], call[r]))
    BY <1>5, <2>2, Committed, PatchedRow
  <2>4. ASSUME NEW t \in TaskId, tasks'[t] # NoRow
        PROVE  TaskRefsOK(users, projects, tasks'[t])
    BY <2>1, <2>3, <2>4 DEF TypeOK, Tasks
  <2>5. \A p \in ProjectId : projects'[p] # NoRow => ProjectRefsOK(users', projects'[p])
    BY <1>0, <2>1
  <2>6. \A t \in TaskId : tasks'[t] # NoRow => TaskRefsOK(users', projects', tasks'[t])
    BY <1>0, <2>1, <2>4
  <2> QED BY <2>5, <2>6
<1>6. CASE DeleteTask(r)
    BY <1>0, <1>6 DEF DeleteTask, TypeOK, Tasks
<1>7. CASE CascadeTasks(r)
    BY <1>0, <1>7, CascadedTasks DEF CascadeTasks, TypeOK, Projects, Call
<1> QED BY <1>1, <1>2, <1>3, <1>4, <1>5, <1>6, <1>7 DEF Writes

(* How one row changes: created, patched at COMMIT, deleted, or not at all. *)
TaskEffect(r, t) ==
    \/ tasks'[t] = tasks[t]
    \/ InsertTask(r) /\ t = r /\ tasks[t] = NoRow /\ tasks'[t] = NewTask(r)
       /\ reply'[r] = 201
    \/ /\ CommitTask(r) /\ t = call[r].task
       /\ tasks[t] \in TaskRow /\ tasks[t] # NoRow
       /\ tasks'[t] = Patch(tasks[t], call[r])
    \/ DeleteTask(r) /\ t = call[r].task /\ tasks[t] # NoRow /\ tasks'[t] = NoRow
    \/ CascadeTasks(r) /\ tasks[t] # NoRow /\ tasks[t].project = call[r].project
       /\ tasks'[t] = NoRow

LEMMA TaskEffects ==
    ASSUME IInv, NEW r \in Req, Acts(r), NEW t \in TaskId
    PROVE  TaskEffect(r, t)
<1> USE DEF IInv, TypeInv, TaskEffect
<1>0. call[r] \in Call /\ t \in DOMAIN tasks
    BY CallsAssumption DEF TypeOK, Tasks
<1>1. CASE ~Writes(r)
    BY <1>1, QuietOrWrites DEF tables
<1>2. CASE InsertProject(r) \/ CommitProject(r)
    BY <1>2 DEF InsertProject, CommitProject
<1>3. CASE InsertTask(r)
  <2>1. tasks' = tasks \/ (tasks' = [tasks EXCEPT ![r] = NewTask(r)] /\ Answer(r, 201))
    BY <1>3 DEF InsertTask
  <2>2. tasks[r] = NoRow
    BY <1>3, Fresh DEF InsertTask
  <2>3. Answer(r, 201) => reply'[r] = 201
    BY DEF Answer, TypeOK
  <2> QED BY <1>0, <1>3, <2>1, <2>2, <2>3
<1>4. CASE CommitTask(r)
    BY <1>0, <1>4, Committed
<1>5. CASE DeleteTask(r)
    BY <1>0, <1>5 DEF DeleteTask
<1>6. CASE CascadeTasks(r)
    BY <1>0, <1>6 DEF CascadeTasks, Cascade, TasksOf
<1> QED BY <1>1, <1>2, <1>3, <1>4, <1>5, <1>6 DEF Writes

ProjectEffect(r, p) ==
    \/ projects'[p] = projects[p]
    \/ InsertProject(r) /\ p = r /\ projects[p] = NoRow /\ projects'[p].owner = call[r].user
       /\ reply'[r] = 201
    \/ /\ CommitProject(r) /\ p = call[r].project
       /\ projects[p] # NoRow /\ projects'[p] # NoRow
       /\ projects'[p].owner = projects[p].owner
    \/ CascadeTasks(r) /\ p = call[r].project /\ projects[p] # NoRow /\ projects'[p] = NoRow

LEMMA ProjectEffects ==
    ASSUME IInv, NEW r \in Req, Acts(r), NEW p \in ProjectId
    PROVE  ProjectEffect(r, p)
<1> USE DEF IInv, TypeInv, ProjectEffect
<1>0. p \in DOMAIN projects
    BY DEF TypeOK, Projects
<1>1. CASE ~Writes(r)
    BY <1>1, QuietOrWrites DEF tables
<1>2. CASE InsertTask(r) \/ CommitTask(r) \/ DeleteTask(r)
    BY <1>2 DEF InsertTask, CommitTask, DeleteTask
<1>3. CASE InsertProject(r)
  <2>1. projects[r] = NoRow /\ reply'[r] = 201
    BY <1>3, Fresh DEF InsertProject, Answer, TypeOK
  <2> QED BY <1>0, <1>3, <2>1 DEF InsertProject
<1>4. CASE CommitProject(r)
  <2> DEFINE c == call[r]
  <2>1. /\ c.project \in ProjectId /\ projects[c.project] \in ProjectRow
        /\ projects[c.project] # NoRow
        /\ projects' = [projects EXCEPT ![c.project].name = c.name]
    BY <1>4, Renamed
  <2>2. [projects[c.project] EXCEPT !.name = c.name] \in ProjectRow
    BY <1>4, <2>1, Renamed DEF ProjectRow
  <2> QED BY <1>0, <1>4, <2>1, <2>2, NilAssumption DEF ProjectRow, TypeOK, Projects
<1>5. CASE CascadeTasks(r)
  <2>1. projects[call[r].project] # NoRow
    BY <1>5 DEF CascadeTasks, Locking
  <2> QED BY <1>0, <1>5, <2>1 DEF CascadeTasks
<1> QED BY <1>1, <1>2, <1>3, <1>4, <1>5 DEF Writes

LEMMA MintingStep ==
    ASSUME IInv, NEW r \in Req, Acts(r)
    PROVE  Minting'
<1> USE DEF IInv, TypeInv
<1> SUFFICES ASSUME NEW q \in Req PROVE MintingOf(q)'
    BY DEF Minting
<1>0. call' = call /\ users' = users /\ q \in TaskId /\ q \in ProjectId
    BY OthersStay, MintAssumption
<1>1. \A x \in Req : reply[x] = 201 => reply'[x] = 201
    BY RepliesStick
<1>2. ASSUME tasks'[q] # NoRow
      PROVE  Created(q, "createTask")' /\ tasks'[q].project = call[q].project
  <2>1. CASE tasks'[q] = tasks[q]
    BY <1>0, <1>1, <1>2, <2>1 DEF Minting, MintingOf, Created
  <2>2. CASE InsertTask(r) /\ q = r /\ tasks'[q] = NewTask(r) /\ reply'[r] = 201
    <3>1. call[r].op = "createTask"
      BY <2>2 DEF InsertTask, Flow, FlowOf, Reaches
    <3> QED BY <1>0, <2>2, <3>1 DEF Created, NewTask
  <2>3. CASE CommitTask(r) /\ q = call[r].task /\ tasks'[q] = Patch(tasks[q], call[r])
    <3>1. tasks'[q].project = tasks[q].project /\ tasks[q] # NoRow
      BY <2>3, Committed, PatchedRow
    <3> QED BY <1>0, <1>1, <3>1 DEF Minting, MintingOf, Created
  <2> QED BY <1>0, <1>2, <2>1, <2>2, <2>3, TaskEffects DEF TaskEffect
<1>3. ASSUME projects'[q] # NoRow
      PROVE  Created(q, "createProject")'
  <2>1. CASE projects[q] # NoRow
    BY <1>0, <1>1, <2>1 DEF Minting, MintingOf, Created
  <2>2. CASE InsertProject(r) /\ q = r /\ reply'[r] = 201
    BY <1>0, <2>2 DEF InsertProject, Flow, FlowOf, Reaches, Created
  <2> QED BY <1>0, <1>3, <2>1, <2>2, ProjectEffects DEF ProjectEffect
<1>4. ASSUME pc'[q] # "idle"
      PROVE  /\ call[q].user \in users
             /\ call[q].op \in OnTask /\ call[q].task \in Req =>
                    Created(call[q].task, "createTask")'
             /\ call[q].op \in OnProject /\ call[q].project \in Req =>
                    Created(call[q].project, "createProject")'
  <2>1. CASE pc[q] # "idle"
    BY <1>0, <1>1, <2>1 DEF Minting, MintingOf, Created
  <2>2. CASE pc[q] = "idle"
    <3>1. Arrive(q)
      BY <1>4, <2>2, OthersStay DEF Acts, Step, FindTask, LoadProject, CheckInvolved,
         ResolveAssignee, InsertProject, UpdateProject, ReloadProject, CommitProject,
         InsertTask, UpdateTask, ReloadTask, CommitTask, DeleteTask, DeleteProject,
         CascadeTasks, Respond, Abandon
    <3>2. call[q].user \in users /\ Known(q)
      BY <3>1 DEF Arrive
    <3>3. /\ call[q].op \in OnTask /\ call[q].task \in Req => Created(call[q].task, "createTask")
          /\ call[q].op \in OnProject /\ call[q].project \in Req =>
                 Created(call[q].project, "createProject")
      BY <3>2 DEF Known, Minting, MintingOf, OnProject
    <3> QED BY <1>0, <1>1, <3>2, <3>3 DEF Created
  <2> QED BY <2>1, <2>2
<1> QED BY <1>0, <1>2, <1>3, <1>4 DEF MintingOf

(* How a request gets to hold a row lock.                          *)
LEMMA TaskLocking ==
    ASSUME TypeInv, NEW r \in Req, Acts(r), pc'[r] \in TaskTx
    PROVE  \/ /\ ~TaskLocked(call[r].task) /\ tasks[call[r].task] # NoRow
              /\ draft'[r] = Patch(tasks[call[r].task], call[r])
              /\ UNCHANGED tables
              /\ call[r].assignee \in users \union {Nil}
           \/ pc[r] \in TaskTx /\ draft'[r] = draft[r] /\ UNCHANGED tables
<1> USE DEF TypeInv, TypeOK, Answer, Goto, tables
<1>1. CASE LoadProject(r)
  <2>1. call[r].op \in Op
    BY CallsAssumption DEF Call
  <2>2. pc'[r] \in {"respond", "resolveAssignee", "checkInvolved", call[r].op}
    BY <1>1 DEF LoadProject
  <2> QED BY <2>1, <2>2 DEF Op
<1>2. CASE UpdateTask(r)
    BY <1>2 DEF UpdateTask
<1>3. CASE ReloadTask(r)
    BY <1>3 DEF ReloadTask
<1>4. CASE Arrive(r)
    BY <1>4 DEF Arrive, FirstStep
<1>5. CASE ~(LoadProject(r) \/ UpdateTask(r) \/ ReloadTask(r) \/ Arrive(r))
    BY <1>5 DEF Acts, Step, FindTask, CheckInvolved, ResolveAssignee, WriteStep, InsertProject,
       UpdateProject, ReloadProject, CommitProject, InsertTask, CommitTask, DeleteTask,
       DeleteProject, CascadeTasks, Respond, Abandon
<1> QED BY <1>1, <1>2, <1>3, <1>4, <1>5

LEMMA ProjectLocking ==
    ASSUME TypeInv, NEW r \in Req, Acts(r), pc'[r] \in ProjectTx \union {"cascade"}
    PROVE  LET p == call[r].project
           IN  /\ UNCHANGED tables
               /\ \/ /\ ~ProjectLocked(p) /\ projects[p] # NoRow
                     /\ pc'[r] \in ProjectTx =>
                            draft'[r] = [projects[p] EXCEPT !.name = call[r].name]
                     /\ pc[r] \in {"updateProject", "deleteProject"}
                  \/ pc[r] \in ProjectTx /\ pc'[r] \in ProjectTx /\ draft'[r] = draft[r]
<1> USE DEF TypeInv, TypeOK, Answer, Goto, tables
<1>1. CASE LoadProject(r)
  <2>1. call[r].op \in Op
    BY CallsAssumption DEF Call
  <2>2. pc'[r] \in {"respond", "resolveAssignee", "checkInvolved", call[r].op}
    BY <1>1 DEF LoadProject
  <2> QED BY <2>1, <2>2 DEF Op
<1>2. CASE UpdateProject(r)
    BY <1>2 DEF UpdateProject
<1>3. CASE ReloadProject(r)
    BY <1>3 DEF ReloadProject
<1>4. CASE Arrive(r)
    BY <1>4 DEF Arrive, FirstStep
<1>5. CASE DeleteProject(r)
    BY <1>5 DEF DeleteProject
<1>6. CASE ~(LoadProject(r) \/ UpdateProject(r) \/ ReloadProject(r) \/ Arrive(r) \/ DeleteProject(r))
    BY <1>6 DEF Acts, Step, FindTask, CheckInvolved, ResolveAssignee, WriteStep, InsertProject,
       CommitProject, InsertTask, UpdateTask, ReloadTask, CommitTask, DeleteTask, CascadeTasks,
       Respond, Abandon
<1> QED BY <1>1, <1>2, <1>3, <1>4, <1>5, <1>6

LEMMA LockingStep ==
    ASSUME IInv, NEW r \in Req, Acts(r)
    PROVE  Locking'
<1> USE DEF IInv, TypeInv
<1>0. /\ call' = call
      /\ \A q \in Req \ {r} : pc'[q] = pc[q] /\ draft'[q] = draft[q]
      /\ \A q \in Req : call[q].task \in TaskId /\ call[q].project \in ProjectId
    BY OthersStay, CallsAssumption DEF TypeOK, Call
<1>1. ASSUME NEW q \in Req, pc'[q] \in TaskTx
      PROVE  /\ tasks'[call[q].task] # NoRow
             /\ draft'[q] = Patch(tasks'[call[q].task], call[q])
  <2>1. CASE q = r
    BY <1>1, <2>1, TaskLocking DEF Locking, DraftBuiltOnCommitted, tables
  <2>2. CASE q # r
    <3>1. pc[q] \in TaskTx /\ draft'[q] = draft[q] /\ tasks[call[q].task] # NoRow
      BY <1>0, <1>1, <2>2 DEF Locking, DraftBuiltOnCommitted
    <3>2. tasks'[call[q].task] = tasks[call[q].task]
      <4>1. ~(CommitTask(r) /\ call[q].task = call[r].task)
        BY <2>2, <3>1 DEF Locking, CommitTask
      <4>2. ~(DeleteTask(r) /\ call[q].task = call[r].task)
        BY <3>1 DEF DeleteTask, TaskLocked
      <4>3. ~(CascadeTasks(r) /\ tasks[call[q].task].project = call[r].project)
        BY <1>0, <3>1 DEF CascadeTasks, TasksOf, TaskLocked
      <4> QED BY <1>0, <3>1, <4>1, <4>2, <4>3, TaskEffects DEF TaskEffect
    <3> QED BY <3>1, <3>2 DEF Locking, DraftBuiltOnCommitted
  <2> QED BY <2>1, <2>2
<1>2. ASSUME NEW q \in Req, pc'[q] \in ProjectTx \union {"cascade"}
      PROVE  /\ projects'[call[q].project] # NoRow
             /\ pc'[q] \in ProjectTx =>
                    draft'[q] = [projects'[call[q].project] EXCEPT !.name = call[q].name]
  <2>1. CASE q = r
    BY <1>2, <2>1, ProjectLocking DEF Locking, DraftBuiltOnCommitted, tables
  <2>2. CASE q # r
    <3>1. /\ pc[q] \in ProjectTx \union {"cascade"} /\ pc'[q] = pc[q] /\ draft'[q] = draft[q]
          /\ projects[call[q].project] # NoRow
      BY <1>0, <1>2, <2>2 DEF Locking, DraftBuiltOnCommitted
    <3>2. projects'[call[q].project] = projects[call[q].project]
      <4>1. ~((CommitProject(r) \/ CascadeTasks(r)) /\ call[q].project = call[r].project)
        BY <2>2, <3>1 DEF Locking, CommitProject, CascadeTasks
      <4> QED BY <1>0, <3>1, <4>1, ProjectEffects DEF ProjectEffect
    <3> QED BY <3>1, <3>2 DEF Locking, DraftBuiltOnCommitted
  <2> QED BY <2>1, <2>2
<1>3. ASSUME NEW x \in Req, NEW y \in Req,
             pc'[x] \in TaskTx, pc'[y] \in TaskTx, call[x].task = call[y].task
      PROVE  x = y
  <2>1. \A q \in Req : q # r /\ pc'[q] \in TaskTx => pc[q] \in TaskTx
    BY <1>0
  <2>2. pc'[r] \in TaskTx => pc[r] \in TaskTx \/ ~TaskLocked(call[r].task)
    BY TaskLocking
  <2> QED BY <1>3, <2>1, <2>2 DEF Locking, TaskLocked
<1>4. ASSUME NEW x \in Req, NEW y \in Req,
             pc'[x] \in ProjectTx \union {"cascade"}, pc'[y] \in ProjectTx \union {"cascade"},
             call[x].project = call[y].project
      PROVE  x = y
  <2>1. \A q \in Req : q # r /\ pc'[q] \in ProjectTx \union {"cascade"} =>
            pc[q] \in ProjectTx \union {"cascade"}
    BY <1>0
  <2>2. pc'[r] \in ProjectTx \union {"cascade"} =>
            pc[r] \in ProjectTx \union {"cascade"} \/ ~ProjectLocked(call[r].project)
    BY ProjectLocking
  <2> QED BY <1>4, <2>1, <2>2 DEF Locking, ProjectLocked
<1> QED
    BY <1>0, <1>1, <1>2, <1>3, <1>4 DEF Locking, DraftBuiltOnCommitted

(* How a request comes to have passed its checks.                       *)
LEMMA Loading ==
    ASSUME TypeInv, NEW r \in Req, Acts(r), call[r].op \in OnTask
    PROVE  \/ loaded'[r] = loaded[r]
           \/ loaded'[r] = NoRow
           \/ FindTask(r) /\ loaded'[r] = tasks[call[r].task] /\ UNCHANGED tables
           \/ ReloadTask(r) /\ loaded'[r] = draft[r] /\ UNCHANGED tables
<1> USE DEF TypeInv, TypeOK, tables
<1>1. CASE FindTask(r)
    BY <1>1 DEF FindTask
<1>2. CASE ReloadTask(r)
    BY <1>2 DEF ReloadTask
<1>3. CASE ReloadProject(r)
    BY <1>3 DEF ReloadProject, Flow, FlowOf, Reaches
<1>4. CASE Respond(r) \/ Abandon(r)
    BY <1>4 DEF Respond, Abandon
<1>5. CASE ~(FindTask(r) \/ ReloadTask(r) \/ ReloadProject(r) \/ Respond(r) \/ Abandon(r))
    BY <1>5 DEF Acts, Step, Arrive, LoadProject, CheckInvolved, ResolveAssignee, InsertProject,
       UpdateProject, CommitProject, InsertTask, UpdateTask, CommitTask, DeleteTask, DeleteProject,
       CascadeTasks
<1> QED BY <1>1, <1>2, <1>3, <1>4, <1>5

LEMMA Entitling ==
    ASSUME TypeInv, NEW r \in Req, Acts(r),
           pc'[r] \in {"deleteTask", "updateProject", "deleteProject"}
    PROVE  LET p == projects[Target(r)]
           IN  /\ pc[r] = "loadProject" /\ UNCHANGED tables /\ p # NoRow
               /\ pc'[r] = "deleteTask" => call[r].op = "deleteTask"
                      /\ (p.owner = call[r].user \/ loaded[r].creator = call[r].user)
               /\ pc'[r] \in {"updateProject", "deleteProject"} =>
                      p.owner = call[r].user /\ call[r].op \in OnProject
<1> USE DEF TypeInv, TypeOK, Answer, Goto, tables
<1>1. CASE LoadProject(r)
  <2>1. pc'[r] \in {"respond", "resolveAssignee", "checkInvolved", call[r].op}
    BY <1>1 DEF LoadProject
  <2>2. /\ UNCHANGED tables /\ pc[r] = "loadProject" /\ projects[Target(r)] # NoRow
        /\ IF call[r].op = "deleteTask"
           THEN assertTaskDeletable(projects[Target(r)], loaded[r], call[r].user)
           ELSE assertProjectOwner(projects[Target(r)], call[r].user)
    BY <1>1, <2>1 DEF LoadProject
  <2> QED BY <2>1, <2>2 DEF assertTaskDeletable, assertProjectOwner, OnProject
<1>2. CASE ~LoadProject(r)
    BY <1>2 DEF Acts, Step, Arrive, FirstStep, FindTask, CheckInvolved, ResolveAssignee, WriteStep,
       InsertProject, UpdateProject, ReloadProject, CommitProject, InsertTask, UpdateTask, ReloadTask,
       CommitTask, DeleteTask, DeleteProject, CascadeTasks, Respond, Abandon
<1> QED BY <1>1, <1>2

LEMMA Resolving ==
    ASSUME TypeInv, NEW r \in Req, Acts(r), pc'[r] \in {"insertTask", "updateTask"}
    PROVE  call[r].assignee \in users \union {Nil}
<1> USE DEF TypeInv, TypeOK, Answer, Goto, tables
<1>1. CASE LoadProject(r)
  <2>1. pc'[r] \in {"respond", "resolveAssignee", "checkInvolved", call[r].op}
    BY <1>1 DEF LoadProject
  <2>2. call[r].op = pc'[r] => ~(call[r].op \in {"insertTask", "updateTask"})
    BY <1>1, CallsAssumption DEF LoadProject, Call, Op
  <2> QED BY <2>1, <2>2
<1>2. CASE ~LoadProject(r)
    BY <1>2 DEF Acts, Step, Arrive, FirstStep, FindTask, CheckInvolved, ResolveAssignee, WriteStep,
       InsertProject, UpdateProject, ReloadProject, CommitProject, InsertTask, UpdateTask, ReloadTask,
       CommitTask, DeleteTask, DeleteProject, CascadeTasks, Respond, Abandon
<1> QED BY <1>1, <1>2

LEMMA CheckedStep ==
    ASSUME IInv, NEW r \in Req, Acts(r)
    PROVE  Checked'
<1> USE DEF IInv, TypeInv
<1> SUFFICES ASSUME NEW q \in Req PROVE CheckedOf(q)'
    BY DEF Checked
<1> DEFINE c == call[q]
<1>0. /\ call' = call /\ users' = users
      /\ c \in Call /\ c.task \in TaskId /\ c.project \in ProjectId
      /\ q # r => pc'[q] = pc[q] /\ loaded'[q] = loaded[q]
    BY OthersStay, CallsAssumption DEF TypeOK, Call
<1>1. pc[q] # "idle" /\ c.op \in OnTask /\ tasks'[c.task] # NoRow =>
          /\ tasks[c.task] # NoRow
          /\ tasks'[c.task].project = tasks[c.task].project
          /\ tasks'[c.task].creator = tasks[c.task].creator
  <2>1. pc[q] # "idle" /\ c.op \in OnTask => ~(InsertTask(r) /\ c.task = r)
    BY Fresh DEF InsertTask
  <2>2. CommitTask(r) /\ c.task = call[r].task /\ tasks'[c.task] = Patch(tasks[c.task], call[r]) =>
            /\ tasks[c.task] # NoRow
            /\ tasks'[c.task].project = tasks[c.task].project
            /\ tasks'[c.task].creator = tasks[c.task].creator
    BY Committed, PatchedRow
  <2> QED BY <1>0, <2>1, <2>2, TaskEffects DEF TaskEffect
<1>2. ASSUME loaded'[q] # NoRow, tasks'[c.task] # NoRow, c.op \in OnTask
      PROVE  tasks'[c.task].project = loaded'[q].project /\ tasks'[c.task].creator = loaded'[q].creator
  <2>1. CASE loaded'[q] = loaded[q]
    BY <1>1, <1>2, <2>1 DEF Checked, CheckedOf, Flow, FlowOf
  <2>2. CASE q = r /\ loaded'[r] = tasks[c.task] /\ UNCHANGED tables
    BY <2>2 DEF tables
  <2>3. CASE q = r /\ ReloadTask(r) /\ loaded'[r] = draft[r] /\ UNCHANGED tables
    <3>1. draft[r] = Patch(tasks[c.task], c) /\ tasks[c.task] \in TaskRow
      BY <1>0, <2>3 DEF ReloadTask, Locking, DraftBuiltOnCommitted, TypeOK, Tasks
    <3> QED BY <1>0, <2>3, <3>1, PatchedRow DEF tables
  <2> QED BY <1>0, <1>2, <2>1, <2>2, <2>3, Loading
<1>3. ASSUME pc'[q] \in {"insertTask", "updateTask"} \union TaskTx
      PROVE  c.assignee \in users \union {Nil}
  <2>1. CASE pc[q] \in TaskTx \/ q # r
    BY <1>0, <1>3, <2>1 DEF Checked, CheckedOf
  <2>2. CASE q = r /\ pc[q] \notin TaskTx
    BY <1>3, <2>2, Resolving, TaskLocking
  <2> QED BY <2>1, <2>2
<1>4. ASSUME pc'[q] = "deleteTask", tasks'[c.task] # NoRow
      PROVE  \/ projects'[tasks'[c.task].project].owner = c.user
             \/ tasks'[c.task].creator = c.user
  <2>1. CASE q = r
    <3>1. /\ pc[r] = "loadProject" /\ UNCHANGED tables /\ c.op = "deleteTask"
          /\ projects[Target(r)].owner = c.user \/ loaded[r].creator = c.user
      BY <1>4, <2>1, Entitling
    <3>2. /\ loaded[r] \in TaskRow /\ loaded[r] # NoRow
          /\ Target(r) = loaded[r].project
      BY <2>1, <3>1, NilAssumption DEF Flow, FlowOf, Target
    <3>3. /\ tasks[c.task].project = loaded[r].project
          /\ tasks[c.task].creator = loaded[r].creator
      BY <1>4, <2>1, <3>1, <3>2 DEF Checked, CheckedOf, tables
    <3> QED BY <3>1, <3>2, <3>3 DEF tables
  <2>2. CASE q # r
    <3> DEFINE p == tasks[c.task].project
    <3>1. pc[q] = "deleteTask" /\ c.op \in OnTask
      BY <1>0, <1>4, <2>2 DEF Flow, FlowOf, Reaches
    <3>2. /\ tasks[c.task] # NoRow /\ tasks'[c.task].project = p
          /\ tasks'[c.task].creator = tasks[c.task].creator
      BY <1>1, <1>4, <3>1
    <3>3. p \in ProjectId /\ projects[p] # NoRow
      BY <1>0, <3>2 DEF TypeOK, Tasks, TaskRow, ReferentialIntegrity, Consistent, TaskRefsOK
    <3>4. projects'[p] # NoRow => projects'[p].owner = projects[p].owner
      BY <3>3, ProjectEffects DEF ProjectEffect
    <3>5. projects'[p] # NoRow
      BY <1>0, <1>4, <3>2, IntegrityStep DEF ReferentialIntegrity, Consistent, TaskRefsOK
    <3> QED BY <3>1, <3>2, <3>4, <3>5 DEF Checked, CheckedOf
  <2> QED BY <2>1, <2>2
<1>5. ASSUME pc'[q] \in {"updateProject", "deleteProject", "cascade"} \union ProjectTx
      PROVE  projects'[c.project] = NoRow \/ projects'[c.project].owner = c.user
  <2>1. CASE q = r /\ pc'[q] \in {"updateProject", "deleteProject"}
    <3>1. /\ projects[Target(r)].owner = c.user /\ c.op \in OnProject
          /\ projects' = projects
      BY <2>1, Entitling DEF tables
    <3>2. Target(r) = c.project
      BY <2>1, <3>1 DEF Target, OnProject
    <3> QED BY <3>1, <3>2
  <2>2. CASE q = r /\ pc'[q] \in ProjectTx \union {"cascade"}
    <3>1. /\ pc[r] \in {"updateProject", "deleteProject"} \union ProjectTx
          /\ projects' = projects
      BY <2>2, ProjectLocking DEF tables
    <3> QED BY <2>2, <3>1 DEF Checked, CheckedOf
  <2>3. CASE q # r
    <3>1. pc[q] = pc'[q] /\ pc[q] # "idle" /\ c.op \in OnProject
      BY <1>0, <1>5, <2>3 DEF Flow, FlowOf, Reaches, OnProject
    <3>2. ~(InsertProject(r) /\ c.project = r)
      BY <3>1, Fresh DEF InsertProject
    <3> QED BY <1>0, <1>5, <3>1, <3>2, ProjectEffects DEF ProjectEffect, Checked, CheckedOf
  <2> QED BY <1>5, <2>1, <2>2, <2>3
<1> QED BY <1>0, <1>2, <1>3, <1>4, <1>5 DEF CheckedOf

LEMMA InvStep == IInv /\ [Next]_vars => IInv'
<1> SUFFICES ASSUME IInv, [Next]_vars PROVE IInv'
    OBVIOUS
<1>1. TypeInv'
    BY TypeStep DEF IInv
<1>2. ASSUME NEW r \in Req, Acts(r)
      PROVE  IInv'
    BY <1>1, <1>2, MintingStep, LockingStep, IntegrityStep, CheckedStep DEF IInv
<1>3. ASSUME NEW u \in UserId, Register(u)
      PROVE  IInv'
    BY <1>1, <1>3 DEF Register, IInv, Minting, MintingOf, Created, Locking, DraftBuiltOnCommitted,
       Checked, CheckedOf, ReferentialIntegrity, Consistent, ProjectRefsOK, TaskRefsOK
<1>4. CASE UNCHANGED vars
    BY <1>1, <1>4 DEF vars, IInv, Minting, MintingOf, Created, Locking, DraftBuiltOnCommitted,
       Checked, CheckedOf, ReferentialIntegrity
<1> QED BY <1>2, <1>3, <1>4 DEF Next, Acts, Quiescent

(* What is known of a request at each of its statements holds, whatever    *)
(* the others do to the tables meanwhile.                                  *)
THEOREM Invariance == Spec => []IInv
BY Started, InvStep, PTL DEF Spec

(* However inserts, edits and cascading deletes interleave, every foreign  *)
(* key of the three tables holds.                                          *)
THEOREM Integrity == Spec => []ReferentialIntegrity
<1>1. IInv => ReferentialIntegrity
    BY DEF IInv
<1> QED BY <1>1, Invariance, PTL

(* Until COMMIT, the row a transaction wrote is its patch of the committed *)
(* row.                                                                    *)
THEOREM DraftsCommitted == Spec => []DraftBuiltOnCommitted
<1>1. IInv => DraftBuiltOnCommitted
    BY DEF IInv, Locking
<1> QED BY <1>1, Invariance, PTL

(* A live task changes only by the COMMIT of a patch, and only in the      *)
(* columns that patch names.                                               *)
THEOREM NoOverwrite == Spec => PatchKeepsOtherColumns
<1> DEFINE Kept(t) ==
        tasks[t] # NoRow /\ tasks'[t] # NoRow /\ tasks'[t] # tasks[t] =>
            \E r \in Req :
                /\ pc[r] = "commitTask" /\ call[r].task = t /\ reply'[r] = 200
                /\ tasks'[t].assignee # tasks[t].assignee => tasks'[t].assignee = call[r].assignee
                /\ tasks'[t].status # tasks[t].status => tasks'[t].status = call[r].status
                /\ tasks'[t].project = tasks[t].project
                /\ tasks'[t].creator = tasks[t].creator
<1>1. ASSUME IInv, NEW r \in Req, Acts(r), NEW t \in TaskId
      PROVE  Kept(t)
  <2> SUFFICES ASSUME tasks[t] # NoRow, tasks'[t] # NoRow, tasks'[t] # tasks[t]
               PROVE  Kept(t)
    OBVIOUS
  <2>1. /\ CommitTask(r) /\ t = call[r].task
        /\ tasks[t] \in TaskRow /\ tasks'[t] = Patch(tasks[t], call[r])
    BY <1>1, TaskEffects DEF TaskEffect
  <2>2. call[r] \in Call /\ pc[r] = "commitTask" /\ reply'[r] = 200
    BY <1>1, <2>1, CallsAssumption DEF CommitTask, Answer, IInv, TypeInv, TypeOK
  <2>3. /\ tasks'[t].assignee # tasks[t].assignee => tasks'[t].assignee = call[r].assignee
        /\ tasks'[t].status # tasks[t].status => tasks'[t].status = call[r].status
        /\ tasks'[t].project = tasks[t].project
        /\ tasks'[t].creator = tasks[t].creator
    BY <2>1, <2>2 DEF Patch, TaskRow, Call
  <2> QED BY <2>1, <2>2, <2>3
<1>2. IInv /\ [Next]_vars => [\A t \in TaskId : Kept(t)]_vars
  <2> SUFFICES ASSUME IInv, Next PROVE \A t \in TaskId : Kept(t)
    BY DEF vars
  <2>1. CASE \E r \in Req : Acts(r)
    BY <1>1, <2>1
  <2>2. CASE Quiescent \/ \E u \in UserId : Register(u)
    BY <2>2 DEF Quiescent, Register, vars
  <2> QED BY <2>1, <2>2 DEF Next, Acts
<1> QED BY <1>2, Invariance, PTL DEF Spec, PatchKeepsOtherColumns

-----------------------------------------------------------------------------
(* TaskFlow implements Ledger, which is Board with its acknowledgements.   *)

(* Ledger is an instance of its own: its rows are the same rows.           *)
LEMMA SameRows == B!TaskRow = TaskRow
BY DEF TaskRow, B!TaskRow, Status, B!Status

(* A success is noted under the name of the request that made it, ...      *)
LEMMA Noted ==
    ASSUME TypeInv, NEW r \in Req, Acts(r), reply'[r] \in Acknowledged
    PROVE  deeds' = deeds \union {Deed(r)}
<1>1. /\ call' = call
      /\ \A q \in Req \ {r} : reply'[q] = reply[q]
    BY OthersStay DEF TypeInv
<1>2. \A q \in Req : Deed(q)' = Deed(q)
    BY <1>1 DEF Deed, Subject
<1>3. reply[r] \in Acknowledged \/ reply[r] \notin Acknowledged
    OBVIOUS
<1> QED BY <1>1, <1>2, <1>3 DEF deeds

(* ... and nothing else is.                                                *)
LEMMA Unnoted ==
    ASSUME TypeInv, NEW r \in Req, Acts(r),
           reply'[r] = reply[r] \/ reply'[r] \notin Acknowledged
    PROVE  deeds' = deeds
<1>1. /\ call' = call
      /\ \A q \in Req \ {r} : reply'[q] = reply[q]
    BY OthersStay DEF TypeInv
<1>2. \A q \in Req : Deed(q)' = Deed(q)
    BY <1>1 DEF Deed, Subject
<1>3. reply'[r] \in Acknowledged <=> reply[r] \in Acknowledged
  <2>1. CASE reply[r] = Undecided
    BY <2>1 DEF Acknowledged
  <2>2. CASE reply[r] # Undecided
    BY <2>2, RepliesStick
  <2> QED BY <2>1, <2>2
<1> QED BY <1>1, <1>2, <1>3 DEF deeds

(* Only the statements that write announce success.                        *)
LEMMA QuietReply ==
    ASSUME TypeOK, NEW r \in Req, Acts(r), ~Writes(r)
    PROVE  reply'[r] = reply[r] \/ reply'[r] \notin Acknowledged
BY DEF TypeOK, Acts, Step, Writes, Acknowledged, Answer, Goto, Arrive, FindTask, LoadProject,
       CheckInvolved, ResolveAssignee, UpdateProject, ReloadProject, UpdateTask, ReloadTask,
       DeleteProject, Respond, Abandon

LEMMA BoardStep ==
    ASSUME IInv, NEW r \in Req, Acts(r)
    PROVE  B!LedgerNext \/ UNCHANGED <<users, projects, tasks, deeds>>
<1> USE DEF IInv, TypeInv
<1> DEFINE c == call[r]
<1>0. /\ c \in Calls /\ c \in Call /\ r \in ProjectId /\ r \in TaskId
      /\ c.user \in UserId /\ c.task \in TaskId /\ c.project \in ProjectId
    BY CallsAssumption, MintAssumption DEF TypeOK, Call
<1>n. ASSUME NEW op, NEW id, c.op = op, Subject(r) = id, reply'[r] \in Acknowledged
      PROVE  B!Note(op, c.user, id)
    BY <1>n, Noted DEF Deed, B!Note
<1>1. CASE ~Writes(r)
    BY <1>1, QuietOrWrites, QuietReply, Unnoted DEF tables
<1>2. CASE InsertProject(r)
  <2>1. c.name \in Name /\ c.user \in users /\ c.op = "createProject"
    BY <1>0, <1>2, CallsAssumption
       DEF InsertProject, Call, Flow, FlowOf, Reaches, Minting, MintingOf
  <2>2. B!CreateProject(c.user, r, c.name)
    BY <1>2, <2>1, Fresh DEF InsertProject, B!CreateProject
  <2>3. B!Note("createProject", c.user, r)
    BY <1>2, <1>n, <2>1 DEF InsertProject, Answer, TypeOK, Acknowledged, Subject
  <2> QED BY <1>0, <2>1, <2>2, <2>3 DEF B!LedgerNext
<1>3. CASE CommitProject(r)
  <2>1. c.name \in Name /\ c.op = "updateProject"
    BY <1>0, <1>3, Renamed DEF Call, CommitProject, Flow, FlowOf, Reaches
  <2>2. B!RenameProject(c.user, c.project, c.name)
    BY <1>3, Renamed DEF CommitProject, B!RenameProject, B!Owns
  <2>3. B!Note("updateProject", c.user, c.project)
    BY <1>3, <1>n, <2>1 DEF CommitProject, Answer, TypeOK, Acknowledged, Subject
  <2> QED BY <1>0, <2>1, <2>2, <2>3 DEF B!LedgerNext
<1>4. CASE InsertTask(r)
  <2>1. CASE TaskRefsOK(users, projects, NewTask(r))
    <3>1. NewTask(r) \in TaskRow /\ NewTask(r).creator = c.user
      BY <1>0, NewRow
    <3>2. c.user \in users /\ tasks[r] = NoRow /\ c.op = "createTask"
      BY <1>4, Fresh DEF InsertTask, Minting, MintingOf, Flow, FlowOf, Reaches
    <3>3. B!AddTask(c.user, r, NewTask(r))
      BY <1>4, <2>1, <3>1, <3>2 DEF InsertTask, B!AddTask, TaskRefsOK, B!TaskRefsOK
    <3>4. B!Note("createTask", c.user, r)
      BY <1>4, <1>n, <2>1, <3>2 DEF InsertTask, Answer, TypeOK, Acknowledged, Subject
    <3> QED BY <1>0, <3>1, <3>3, <3>4, SameRows DEF B!LedgerNext
  <2>2. CASE ~TaskRefsOK(users, projects, NewTask(r))
    <3>1. UNCHANGED <<users, projects, tasks>> /\ reply'[r] \notin Acknowledged
      BY <1>4, <2>2 DEF InsertTask, Answer, TypeOK, Acknowledged
    <3> QED BY <3>1, Unnoted
  <2> QED BY <2>1, <2>2
<1>5. CASE CommitTask(r)
  <2> DEFINE row == Patch(tasks[c.task], c)
  <2>1. row \in TaskRow
    BY <1>5, Committed, PatchedRow
  <2>2. /\ row.project = tasks[c.task].project /\ row.creator = tasks[c.task].creator
        /\ row.assignee = IF c.assignee = Nil THEN tasks[c.task].assignee ELSE c.assignee
    BY <1>5, Committed, PatchedRow
  <2>3. row.assignee \in users \union {Nil}
    BY <1>5, <2>1, <2>2, Committed
       DEF ReferentialIntegrity, Consistent, TaskRefsOK
  <2>4. B!EditTask(c.task, row)
    BY <1>5, <2>2, <2>3, Committed DEF CommitTask, B!EditTask
  <2>5. c.user \in users /\ c.op = "updateTask"
    BY <1>5 DEF CommitTask, Minting, MintingOf, Flow, FlowOf, Reaches
  <2>6. B!Note("updateTask", c.user, c.task)
    BY <1>5, <1>n, <2>5 DEF CommitTask, Answer, TypeOK, Acknowledged, Subject
  <2> HIDE DEF row
  <2> QED BY <1>0, <2>1, <2>4, <2>5, <2>6, SameRows DEF B!LedgerNext
<1>6. CASE DeleteTask(r)
  <2>1. CASE tasks[c.task] = NoRow
    <3>1. UNCHANGED <<users, projects, tasks>> /\ reply'[r] \notin Acknowledged
      BY <1>6, <2>1 DEF DeleteTask, Answer, TypeOK, Tasks, Acknowledged
    <3> QED BY <3>1, Unnoted
  <2>2. CASE tasks[c.task] # NoRow
    <3>1. projects[tasks[c.task].project] # NoRow
      BY <1>0, <2>2 DEF ReferentialIntegrity, Consistent, TaskRefsOK
    <3>2. \/ projects[tasks[c.task].project].owner = c.user
          \/ tasks[c.task].creator = c.user
      BY <1>6, <2>2 DEF DeleteTask, Checked, CheckedOf
    <3>3. B!RemoveTask(c.user, c.task)
      BY <1>6, <2>2, <3>1, <3>2 DEF DeleteTask, B!RemoveTask, B!Owns
    <3>4. c.op = "deleteTask"
      BY <1>6 DEF DeleteTask, Flow, FlowOf, Reaches
    <3>5. B!Note("deleteTask", c.user, c.task)
      BY <1>6, <1>n, <2>2, <3>4 DEF DeleteTask, Answer, TypeOK, Acknowledged, Subject
    <3> QED BY <1>0, <3>3, <3>5 DEF B!LedgerNext
  <2> QED BY <2>1, <2>2
<1>7. CASE CascadeTasks(r)
  <2>1. projects[c.project] # NoRow /\ projects[c.project].owner = c.user /\ c.op = "deleteProject"
    BY <1>7 DEF CascadeTasks, Locking, Checked, CheckedOf, Flow, FlowOf, Reaches
  <2>2. B!RemoveProject(c.user, c.project)
    BY <1>7, <2>1 DEF CascadeTasks, B!RemoveProject, B!Owns, Cascade, TasksOf, B!Cascade, B!TasksOf
  <2>3. B!Note("deleteProject", c.user, c.project)
    BY <1>7, <1>n, <2>1 DEF CascadeTasks, Answer, TypeOK, Acknowledged, Subject
  <2> QED BY <1>0, <2>2, <2>3 DEF B!LedgerNext
<1> QED BY <1>1, <1>2, <1>3, <1>4, <1>5, <1>6, <1>7 DEF Writes

(* Every statement of every handler is one atomic step of the board in the *)
(* name of its caller, who is entitled to it, or changes no table and      *)
(* announces no success.                                                   *)
THEOREM Refinement == Spec => BoardSpec
<1>1. Init => B!LedgerInit
    BY DEF Init, B!LedgerInit, B!Init, deeds, Acknowledged
<1>2. IInv /\ [Next]_vars => [B!LedgerNext]_(B!ledgerVars)
  <2> SUFFICES ASSUME IInv, [Next]_vars
               PROVE  B!LedgerNext \/ UNCHANGED <<users, projects, tasks, deeds>>
    BY DEF B!ledgerVars
  <2>1. CASE \E r \in Req : Acts(r)
    BY <2>1, BoardStep
  <2>2. ASSUME NEW u \in UserId, Register(u)
        PROVE  B!LedgerNext
    <3>1. B!Register(u)
      BY <2>2 DEF Register, B!Register
    <3>2. UNCHANGED deeds
      BY <2>2 DEF Register, deeds, Deed, Subject
    <3> QED BY <3>1, <3>2 DEF B!LedgerNext
  <2>3. CASE UNCHANGED vars
    BY <2>3 DEF vars, deeds, Deed, Subject
  <2> QED BY <2>1, <2>2, <2>3 DEF Next, Acts, Quiescent
<1> QED BY <1>1, <1>2, Invariance, PTL DEF Spec, BoardSpec, B!LedgerSpec

-----------------------------------------------------------------------------
(* The board itself, for any users, projects and tasks: no reference       *)
(* dangles, and Ledger is Board with a history.                            *)

BoardTypes == users \subseteq UserId /\ projects \in B!Projects /\ tasks \in B!Tasks

BoardInv == BoardTypes /\ B!ReferencesHold

(* Every store the API may start on has its references in place.           *)
LEMMA BoardInvInit == B!Init => BoardInv
BY StoresAssumption
   DEF B!Init, BoardInv, BoardTypes, B!ReferencesHold, Projects, Tasks, B!Projects, B!Tasks,
       ProjectRow, TaskRow, Status, B!ProjectRow, B!TaskRow, B!Status,
       Consistent, ProjectRefsOK, TaskRefsOK, B!Consistent, B!ProjectRefsOK, B!TaskRefsOK

LEMMA SameProjectRows == B!ProjectRow = ProjectRow
BY DEF ProjectRow, B!ProjectRow

(* Each step keeps the types and the references.                           *)
LEMMA BoardInvStep == ASSUME BoardInv, [B!Next]_(B!vars) PROVE BoardInv'
  <1> USE DEF BoardInv, BoardTypes, B!ReferencesHold
  <1> USE NilAssumption, SameRows, SameProjectRows
      DEF B!Projects, B!Tasks, B!Consistent, B!ProjectRefsOK, B!TaskRefsOK
  <1>1. CASE UNCHANGED B!vars
      BY <1>1 DEF B!vars
  <1>2. ASSUME NEW u \in UserId, B!Register(u) PROVE BoardInv'
      BY <1>2 DEF B!Register
  <1>3. ASSUME NEW u \in UserId, NEW p \in ProjectId, NEW n \in Name, B!CreateProject(u, p, n)
        PROVE  BoardInv'
    <2>1. projects' = [projects EXCEPT ![p] = [owner |-> u, name |-> n]] /\ u \in users
          /\ UNCHANGED <<users, tasks>>
        BY <1>3 DEF B!CreateProject
    <2>2. [owner |-> u, name |-> n] \in ProjectRow /\ [owner |-> u, name |-> n] # NoRow
        BY NilAssumption DEF ProjectRow
    <2>3. projects' \in [ProjectId -> ProjectRow \union {NoRow}]
        BY <2>1, <2>2
    <2> QED BY <2>1, <2>2, <2>3
  <1>4. ASSUME NEW u \in UserId, NEW p \in ProjectId, NEW n \in Name, B!RenameProject(u, p, n)
        PROVE  BoardInv'
    <2> DEFINE row == [projects[p] EXCEPT !.name = n]
    <2>1. projects' = [projects EXCEPT ![p] = row] /\ projects[p] \in ProjectRow
          /\ UNCHANGED <<users, tasks>>
        BY <1>4 DEF B!RenameProject, B!Owns
    <2>2. row \in ProjectRow /\ row # NoRow /\ row.owner = projects[p].owner
        BY <2>1, NilAssumption DEF ProjectRow
    <2> HIDE DEF row
    <2>3. projects' \in [ProjectId -> ProjectRow \union {NoRow}]
        BY <2>1, <2>2
    <2> QED BY <2>1, <2>2, <2>3
  <1>5. ASSUME NEW u \in UserId, NEW p \in ProjectId, B!RemoveProject(u, p) PROVE BoardInv'
      BY <1>5 DEF B!RemoveProject, B!Cascade, B!TasksOf
  <1>6. ASSUME NEW u \in UserId, NEW t \in TaskId, NEW row \in TaskRow, B!AddTask(u, t, row)
        PROVE  BoardInv'
      BY <1>6 DEF B!AddTask
  <1>7. ASSUME NEW t \in TaskId, NEW row \in TaskRow, B!EditTask(t, row) PROVE BoardInv'
      BY <1>7 DEF B!EditTask, TaskRow
  <1>8. ASSUME NEW u \in UserId, NEW t \in TaskId, B!RemoveTask(u, t) PROVE BoardInv'
      BY <1>8 DEF B!RemoveTask
  <1> QED
      BY <1>1, <1>2, <1>3, <1>4, <1>5, <1>6, <1>7, <1>8 DEF B!Next

(* Whatever users do to the board, no reference dangles.                   *)
THEOREM ReferencesKept == B!Spec => []B!ReferencesHold
<1>1. BoardInv => B!ReferencesHold
    BY DEF BoardInv
<1> QED BY BoardInvInit, BoardInvStep, <1>1, PTL DEF B!Spec

(* Writing the acknowledgements down changes nothing on the board: every   *)
(* behaviour of the ledger is one of the board.                            *)
THEOREM LedgerOnBoard == B!LedgerSpec => B!Spec
<1>1. B!LedgerInit => B!Init
    BY DEF B!LedgerInit
<1>2. [B!LedgerNext]_(B!ledgerVars) => [B!Next]_(B!vars)
  <2>1. CASE UNCHANGED B!ledgerVars
    BY <2>1 DEF B!ledgerVars, B!vars
  <2>2. CASE B!LedgerNext
    BY <2>2 DEF B!LedgerNext, B!Next
  <2> QED BY <2>1, <2>2
<1> QED BY <1>1, <1>2, PTL DEF B!LedgerSpec, B!Spec

(* So the tables of the write path only ever change by steps of Board,     *)
(* which is what Views takes its writers for.                              *)
THEOREM TablesAreBoards == Spec => B!Spec
<1> QED BY Refinement, LedgerOnBoard, PTL DEF BoardSpec

-----------------------------------------------------------------------------
(* What the answers and the histories say.                                 *)

(* docs/ARCHITECTURE.md:45: the row a PATCH returns is the committed one.  *)
THEOREM RepliesCommitted == Spec => ReplyShowsCommittedRow
<1> DEFINE Shown(r) ==
        reply[r] = Undecided /\ reply'[r] = 200 =>
            loaded'[r] = IF call[r].op = "updateTask" THEN tasks'[call[r].task]
                                                      ELSE projects'[call[r].project]
<1>1. ASSUME IInv, NEW q \in Req, Acts(q), NEW r \in Req
      PROVE  Shown(r)
  <2> USE DEF IInv, TypeInv
  <2> SUFFICES ASSUME reply[r] = Undecided, reply'[r] = 200
               PROVE  Shown(r)
    OBVIOUS
  <2>0. call[r] \in Call
    BY <1>1, CallsAssumption DEF TypeOK
  <2>1. q = r
    BY <1>1, OthersStay
  <2>2. CommitTask(r) \/ CommitProject(r)
    BY <1>1, <2>1 DEF TypeOK, Acts, Step, Answer, Goto, Arrive, FindTask, LoadProject, CheckInvolved,
       ResolveAssignee, InsertProject, UpdateProject, ReloadProject, InsertTask, UpdateTask,
       ReloadTask, DeleteTask, DeleteProject, CascadeTasks, Respond, Abandon
  <2>3. CASE CommitTask(r)
    <3>1. /\ call[r].op = "updateTask" /\ loaded[r] = draft[r]
          /\ call[r].task \in TaskId
      BY <1>1, <2>3, <2>0 DEF CommitTask, Flow, FlowOf, Reaches, Call
    <3> QED BY <1>1, <2>3, <3>1 DEF CommitTask, TypeOK, Tasks
  <2>4. CASE CommitProject(r)
    <3>1. /\ call[r].op = "updateProject" /\ loaded[r] = draft[r]
          /\ call[r].project \in ProjectId
      BY <1>1, <2>4, <2>0 DEF CommitProject, Flow, FlowOf, Reaches, Call
    <3> QED BY <1>1, <2>4, <3>1 DEF CommitProject, TypeOK, Projects
  <2> QED BY <2>2, <2>3, <2>4
<1>2. IInv /\ [Next]_vars => [\A r \in Req : Shown(r)]_vars
  <2> SUFFICES ASSUME IInv, Next PROVE \A r \in Req : Shown(r)
    BY DEF vars
  <2>1. CASE \E q \in Req : Acts(q)
    BY <1>1, <2>1
  <2>2. CASE Quiescent \/ \E u \in UserId : Register(u)
    BY <2>2 DEF Quiescent, Register, vars
  <2> QED BY <2>1, <2>2 DEF Next, Acts
<1> QED BY <1>2, Invariance, PTL DEF Spec, ReplyShowsCommittedRow

-----------------------------------------------------------------------------
(* The two statements of assertProjectAccessible decide like one, however  *)
(* many requests change owners' projects and participants' tasks between   *)
(* them (module TaskFlowAccess).                                           *)

USE DEF Shared, Running, Over, Codes, Undecided, TaskTx, ProjectTx, OnTask

LEMMA AccessStarts == AccessInit => AccessInv
  BY DEF AccessInit, Init, AccessInv, DecidedOf, AccessDecidedAsOne

(* The project in question does not change while it is asked about.        *)
LEMMA TargetTyped ==
    ASSUME TypeInv, NEW r \in Req, BeingChecked(r)
    PROVE  Target(r) \in ProjectId
  <1>1. call[r] \in Call
      BY CallsAssumption DEF TypeInv, TypeOK
  <1>2. call[r].op = "updateTask" => loaded[r] \in TaskRow
      BY DEF BeingChecked, TypeInv, Flow, FlowOf
  <1>3. call[r].project \in ProjectId
      BY <1>1 DEF Call
  <1>4. call[r].op = "updateTask" => loaded[r].project \in ProjectId
      BY <1>2 DEF TaskRow
  <1> QED BY <1>3, <1>4 DEF BeingChecked, Target

(* Nobody becomes the owner of a project that is there already.            *)
LEMMA NoNewOwner ==
    ASSUME IInv, NEW q \in Req, Acts(q), NEW p \in ProjectId, NEW u,
           projects[p] = NoRow \/ projects[p].owner # u,
           p \in Req => Created(p, "createProject")
    PROVE  projects'[p] = NoRow \/ projects'[p].owner # u
  <1>1. ~(InsertProject(q) /\ p = q)
      BY DEF InsertProject, Created, IInv, TypeInv, Flow, FlowOf
  <1>2. ProjectEffect(q, p)
      BY ProjectEffects
  <1>3. projects'[p] = NoRow \/ (projects[p] # NoRow /\ projects'[p].owner = projects[p].owner)
        \/ projects'[p] = projects[p]
      BY <1>1, <1>2, Zenon DEF ProjectEffect
  <1> QED BY <1>3

VerdictOf(r) ==
    call[r].op \in Shared =>
        /\ reply[r] \in {200, 201} => TRUE \in seen[r]
        /\ reply[r] = 403 => FALSE \in seen[r]

(* What a request saw is kept.                                             *)
LEMMA SeenGrows ==
    ASSUME AccessInv, AccessNext, NEW r \in Req
    PROVE  seen'[r] = seen[r] \union Look(r)
  BY DEF AccessNext

(* A request that waits between two statements.                            *)
LEMMA OtherDecided ==
    ASSUME IInv, NEW q \in Req, Acts(q), NEW r \in Req \ {q}, DecidedOf(r), VerdictOf(r),
           seen[r] \subseteq seen'[r]
    PROVE  DecidedOf(r)' /\ VerdictOf(r)'
  <1>1. call' = call /\ pc'[r] = pc[r] /\ reply'[r] = reply[r] /\ loaded'[r] = loaded[r]
      BY OthersStay DEF IInv, TypeInv
  <1>2. Target(r)' = Target(r)
      BY <1>1 DEF Target
  <1>3. ASSUME call[r].op \in Shared, pc[r] = "checkInvolved"
        PROVE  /\ projects'[Target(r)] = NoRow \/ projects'[Target(r)].owner # call[r].user
               /\ Target(r) \in Req => Created(Target(r), "createProject")'
    <2>1. Target(r) \in ProjectId
        BY <1>3, TargetTyped DEF IInv, BeingChecked
    <2>2. /\ projects[Target(r)] = NoRow \/ projects[Target(r)].owner # call[r].user
          /\ Target(r) \in Req => Created(Target(r), "createProject")
        BY <1>3 DEF DecidedOf
    <2>3. ASSUME Target(r) \in Req
          PROVE  Created(Target(r), "createProject")'
      <3>1. reply[Target(r)] = 201 /\ call[Target(r)].op = "createProject"
          BY <2>2, <2>3 DEF Created
      <3>2. \A s \in Req : reply[s] = 201 => reply'[s] = 201
          BY RepliesStick DEF IInv
      <3> QED BY <2>3, <1>1, <1>2, <3>1, <3>2 DEF Created
    <2> QED BY <2>1, <2>2, <2>3, NoNewOwner
  <1>4. call[r].op \in Shared /\ pc'[r] \in {"resolveAssignee", "insertTask", "updateTask"} \union TaskTx
        => TRUE \in seen'[r]
      BY <1>1 DEF DecidedOf
  <1>5. DecidedOf(r)'
    <2>1. call[r].op \in Shared /\ pc'[r] = "checkInvolved" =>
              /\ projects'[Target(r)'] = NoRow \/ projects'[Target(r)'].owner # call'[r].user
              /\ Target(r)' \in Req => Created(Target(r), "createProject")'
        BY <1>1, <1>2, <1>3
    <2> QED BY <1>1, <1>2, <1>4, <2>1 DEF DecidedOf, Created
  <1> QED BY <1>1, <1>5, ZenonT(30) DEF VerdictOf

(* The first statement finds the owner, or somebody who has to be asked    *)
(* about.                                                                  *)
LEMMA LoadDecides ==
    ASSUME IInv, NEW r \in Req, LoadProject(r), call[r].op \in Shared, DecidedOf(r), VerdictOf(r),
           seen'[r] = seen[r] \union Look(r)
    PROVE  DecidedOf(r)' /\ VerdictOf(r)'
  <1> DEFINE p == projects[Target(r)]
  <1>1. /\ UNCHANGED <<tables, call, loaded>> /\ Target(r)' = Target(r)
        /\ \A q \in Req \ {r} : reply'[q] = reply[q]
        /\ reply[r] = Undecided
    <2>1. UNCHANGED <<tables, call, loaded>>
        BY DEF LoadProject
    <2>2. reply[r] = Undecided
        BY DEF LoadProject, IInv, TypeInv, Flow, FlowOf
    <2>3. \A q \in Req \ {r} : reply'[q] = reply[q]
        BY OthersStay DEF IInv, TypeInv, Acts, Step
    <2> QED BY <2>1, <2>2, <2>3 DEF Target
  <1>2. Look(r) = {Accessible(r)}
      BY DEF LoadProject, BeingChecked, Look
  <1>3. CASE p = NoRow
    <2>1. pc'[r] = "respond" /\ reply'[r] = 404
        BY <1>3 DEF LoadProject, Answer, IInv, TypeInv, TypeOK
    <2> QED BY <1>1, <2>1 DEF DecidedOf, VerdictOf
  <1>4. CASE p # NoRow /\ p.owner = call[r].user
    <2>1. pc'[r] = "resolveAssignee" /\ reply' = reply
        BY <1>4 DEF LoadProject, Goto, IInv, TypeInv, TypeOK
    <2>2. Accessible(r)
        BY <1>4 DEF Accessible
    <2>3. TRUE \in seen'[r]
        BY <1>2, <2>2
    <2> QED BY <1>1, <2>1, <2>3 DEF DecidedOf, VerdictOf
  <1>5. CASE p # NoRow /\ p.owner # call[r].user
    <2>1. pc'[r] = "checkInvolved" /\ reply' = reply
        BY <1>5 DEF LoadProject, Goto, IInv, TypeInv, TypeOK
    <2>2. Target(r) \in Req => Created(Target(r), "createProject")
        BY <1>5 DEF IInv, Minting, MintingOf
    <2>3. Target(r)' \in Req => Created(Target(r), "createProject")'
        BY <1>1, <2>1, <2>2 DEF Created
    <2>4. projects' = projects /\ call' = call
        BY <1>1 DEF tables
    <2> QED BY <1>1, <1>5, <2>1, <2>3, <2>4 DEF DecidedOf, VerdictOf
  <1> QED BY <1>3, <1>4, <1>5

(* The second statement decides about the rest, and by then it still is    *)
(* not the owner who is asked about.                                       *)
LEMMA CheckDecides ==
    ASSUME IInv, NEW r \in Req, CheckInvolved(r), call[r].op \in Shared, DecidedOf(r), VerdictOf(r),
           seen'[r] = seen[r] \union Look(r)
    PROVE  DecidedOf(r)' /\ VerdictOf(r)'
  <1>1. call' = call /\ reply[r] = Undecided
      BY DEF CheckInvolved, IInv, TypeInv, Flow, FlowOf
  <1>2. Look(r) = {Accessible(r)}
      BY DEF CheckInvolved, BeingChecked, Look
  <1>3. CASE Involved(tasks, call[r].user, Target(r))
    <2>1. pc'[r] = "resolveAssignee" /\ reply' = reply
        BY <1>3 DEF CheckInvolved, Goto, IInv, TypeInv, TypeOK
    <2>2. projects[Target(r)] # NoRow
        BY <1>3 DEF Involved, TasksOf, IInv, ReferentialIntegrity, Consistent, TaskRefsOK
    <2>3. TRUE \in seen'[r]
        BY <1>2, <1>3, <2>2 DEF Accessible
    <2> QED BY <1>1, <2>1, <2>3 DEF DecidedOf, VerdictOf
  <1>4. CASE ~Involved(tasks, call[r].user, Target(r))
    <2>1. pc'[r] = "respond" /\ reply'[r] = 403
        BY <1>4 DEF CheckInvolved, Answer, IInv, TypeInv, TypeOK
    <2>2. ~Accessible(r)
        BY <1>4 DEF Accessible, DecidedOf, CheckInvolved
    <2>3. Accessible(r) = FALSE
        BY <2>2 DEF Accessible
    <2>4. FALSE \in seen'[r]
        BY <1>2, <2>3
    <2>5. DecidedOf(r)'
        BY <2>1 DEF DecidedOf
    <2>6. reply'[r] \notin {200, 201}
        BY <2>1
    <2>7. VerdictOf(r)'
        BY <2>4, <2>6, Zenon DEF VerdictOf
    <2> QED BY <2>5, <2>7
  <1> QED BY <1>3, <1>4

(* The other statements only pass on what has been decided.                *)
LEMMA OtherStatements ==
    ASSUME IInv, NEW r \in Req, Acts(r), ~LoadProject(r), ~CheckInvolved(r), call[r].op \in Shared,
           DecidedOf(r), VerdictOf(r), seen[r] \subseteq seen'[r]
    PROVE  DecidedOf(r)' /\ VerdictOf(r)'
  <1> DEFINE Past == {"resolveAssignee", "insertTask", "updateTask"} \union TaskTx
  <1>1. call' = call
      BY OthersStay DEF IInv, TypeInv
  <1>2. /\ Reaches(call[r].op, pc[r])
        /\ pc[r] \notin Over \union {"respond"} => reply[r] = Undecided
      BY DEF IInv, TypeInv, Flow, FlowOf
  <1>3. /\ pc'[r] # "checkInvolved"
        /\ pc'[r] \in Past => pc[r] \in Past
        /\ reply'[r] \in {200, 201} => pc[r] \in Past \/ reply'[r] = reply[r]
        /\ reply'[r] = 403 => reply'[r] = reply[r]
    <2> USE DEF IInv, TypeInv, TypeOK, Answer, Goto
    <2>1. CASE Arrive(r)
        BY <2>1, <1>2 DEF Arrive, FirstStep
    <2>2. CASE FindTask(r)         BY <2>2, <1>2 DEF FindTask
    <2>3. CASE ResolveAssignee(r)  BY <2>3, <1>2 DEF ResolveAssignee, WriteStep
    <2>4. CASE InsertTask(r)       BY <2>4, <1>2 DEF InsertTask
    <2>5. CASE UpdateTask(r)       BY <2>5, <1>2 DEF UpdateTask
    <2>6. CASE ReloadTask(r)       BY <2>6, <1>2 DEF ReloadTask
    <2>7. CASE CommitTask(r)       BY <2>7, <1>2 DEF CommitTask
    <2>8. CASE Respond(r)          BY <2>8, <1>2 DEF Respond
    <2>9. CASE Abandon(r)          BY <2>9, <1>2 DEF Abandon
    <2>10. ~(InsertProject(r) \/ UpdateProject(r) \/ ReloadProject(r) \/ CommitProject(r)
             \/ DeleteTask(r) \/ DeleteProject(r) \/ CascadeTasks(r))
        BY <1>2 DEF Reaches, InsertProject, UpdateProject, ReloadProject, CommitProject, DeleteTask,
                    DeleteProject, CascadeTasks
    <2> QED BY <2>1, <2>2, <2>3, <2>4, <2>5, <2>6, <2>7, <2>8, <2>9, <2>10 DEF Acts, Step
  <1>4. pc[r] \in Past => TRUE \in seen'[r]
      BY DEF DecidedOf
  <1>5. DecidedOf(r)'
      BY <1>1, <1>3, <1>4 DEF DecidedOf
  <1>6. VerdictOf(r)'
      BY <1>1, <1>3, <1>4, ZenonT(30) DEF VerdictOf
  <1> QED BY <1>5, <1>6

LEMMA AccessStep == IInv /\ AccessInv /\ [AccessNext]_accessVars => AccessInv'
  <1> SUFFICES ASSUME IInv, AccessInv, [AccessNext]_accessVars
               PROVE  AccessInv'
      OBVIOUS
  <1>0. AccessInv => \A r \in Req : VerdictOf(r)
      BY DEF AccessInv, AccessDecidedAsOne, VerdictOf
  <1>1. CASE UNCHANGED accessVars
      BY <1>1, ZenonT(30) DEF accessVars, vars, AccessInv, AccessDecidedAsOne, DecidedOf, Target, Created
  <1>2. CASE AccessNext
    <2>1. /\ seen' \in [Req -> SUBSET BOOLEAN]
          /\ \A r \in Req : seen'[r] = seen[r] \union Look(r)
      <3>1. \A r \in Req : Look(r) \in SUBSET BOOLEAN
          BY DEF Look, Accessible, Involved
      <3> QED BY <1>2, <3>1 DEF AccessNext, AccessInv
    <2>2. ASSUME NEW r \in Req
          PROVE  DecidedOf(r)' /\ VerdictOf(r)'
      <3>1. DecidedOf(r) /\ VerdictOf(r)
          BY <1>0 DEF AccessInv
      <3>2. ASSUME NEW q \in Req, Acts(q), q # r
            PROVE  DecidedOf(r)' /\ VerdictOf(r)'
          BY <2>1, <3>1, <3>2, OtherDecided
      <3>3. ASSUME Acts(r), call[r].op \in Shared
            PROVE  DecidedOf(r)' /\ VerdictOf(r)'
          BY <2>1, <3>1, <3>3, LoadDecides, CheckDecides, OtherStatements
      <3>4. ASSUME Acts(r), call[r].op \notin Shared
            PROVE  DecidedOf(r)' /\ VerdictOf(r)'
          BY <3>4, OthersStay DEF DecidedOf, VerdictOf, IInv, TypeInv
      <3>5. ASSUME UNCHANGED <<projects, pc, call, loaded, reply>>
            PROVE  DecidedOf(r)' /\ VerdictOf(r)'
        <4>1. Target(r)' = Target(r)
            BY <3>5 DEF Target
        <4>2. Target(r) \in Req => (Created(Target(r), "createProject")' <=> Created(Target(r), "createProject"))
            BY <3>5, <4>1 DEF Created
        <4>3. seen[r] \subseteq seen'[r]
            BY <2>1
        <4>4. VerdictOf(r)'
            BY <4>3, <3>1, <3>5 DEF VerdictOf
        <4> QED BY <3>1, <3>5, <4>1, <4>2, <4>3, <4>4 DEF DecidedOf
      <3>6. (\E u \in UserId : Register(u)) \/ Quiescent => UNCHANGED <<projects, pc, call, loaded, reply>>
          BY DEF Register, Quiescent, vars
      <3> QED BY <1>2, <3>2, <3>3, <3>4, <3>5, <3>6 DEF AccessNext, Next, Acts
    <2> QED BY <2>1, <2>2 DEF AccessInv, AccessDecidedAsOne, VerdictOf
  <1> QED BY <1>1, <1>2

(* The history is no part of the program: it takes nothing from the        *)
(* behaviours of TaskFlow, and its invariants hold.                        *)
LEMMA OnlyHistory == AccessSpec => Spec
  <1>1. AccessInit => Init
      BY DEF AccessInit
  <1>2. [AccessNext]_accessVars => [Next]_vars
      BY DEF AccessNext, accessVars
  <1> QED BY <1>1, <1>2, PTL DEF AccessSpec, Spec

(* A participant's write is let through only if its project was open to it *)
(* while it was being checked, and refused only if it was closed to it.    *)
THEOREM AccessAsOne == AccessSpec => []AccessDecidedAsOne
  <1>1. AccessInv => AccessDecidedAsOne
      BY DEF AccessInv
  <1>2. AccessSpec => []IInv
      BY OnlyHistory, Invariance, PTL
  <1>3. AccessSpec => []AccessInv
      BY <1>2, AccessStarts, AccessStep, PTL DEF AccessSpec
  <1> QED BY <1>1, <1>3, PTL
-----------------------------------------------------------------------------
(* What clients were told stays true.  Each verdict is about a row that is *)
(* gone, or about a right that is not had, and neither ever changes back.  *)

(* No request writes the row of another that has been told of its own.     *)
LEMMA GoneTaskStays ==
    ASSUME IInv, NEW q \in Req, Acts(q), NEW t \in TaskId, tasks[t] = NoRow,
           t \in Req => Created(t, "createTask")
    PROVE  tasks'[t] = NoRow
<1>1. ~(InsertTask(q) /\ t = q)
    BY DEF InsertTask, Created, IInv, TypeInv, Flow, FlowOf
<1>2. TaskEffect(q, t)
    BY TaskEffects
<1> QED BY <1>1, <1>2 DEF TaskEffect

LEMMA GoneProjectStays ==
    ASSUME IInv, NEW q \in Req, Acts(q), NEW p \in ProjectId, projects[p] = NoRow,
           p \in Req => Created(p, "createProject")
    PROVE  projects'[p] = NoRow
<1>1. ~(InsertProject(q) /\ p = q)
    BY DEF InsertProject, Created, IInv, TypeInv, Flow, FlowOf
<1>2. ProjectEffect(q, p)
    BY ProjectEffects
<1> QED BY <1>1, <1>2 DEF ProjectEffect

(* Which statement decides what.                                           *)
DecidesTo(r) ==
    \/ reply'[r] \in {200, 201, 400}
    \/ reply'[r] = 404 /\ FindTask(r) /\ tasks[call[r].task] = NoRow
    \/ reply'[r] = 404 /\ LoadProject(r) /\ projects[Target(r)] = NoRow
    \/ reply'[r] = 404 /\ UpdateTask(r) /\ tasks[call[r].task] = NoRow
    \/ reply'[r] = 404 /\ UpdateProject(r) /\ projects[call[r].project] = NoRow
    \/ reply'[r] = 404 /\ DeleteProject(r) /\ projects[call[r].project] = NoRow
    \/ reply'[r] \in {204, 404} /\ DeleteTask(r) /\ (reply'[r] = 204 => tasks[call[r].task] # NoRow)
    \/ reply'[r] = 204 /\ CascadeTasks(r)
    \/ reply'[r] = 403 /\ CheckInvolved(r)
    \/ reply'[r] = 403 /\ LoadProject(r) /\ call[r].op \in {"updateProject", "deleteProject", "deleteTask"}
       /\ projects[Target(r)] # NoRow
       /\ projects[Target(r)].owner # call[r].user
       /\ (call[r].op = "deleteTask" =>
               loaded[r].creator = Nil \/ loaded[r].creator # call[r].user)
    \/ reply'[r] = 500 /\ InsertTask(r) /\ ~TaskRefsOK(users, projects, NewTask(r))
    \/ reply'[r] = 500 /\ UpdateTask(r) /\ call[r].assignee \notin users \union {Nil}

LEMMA Decides ==
    ASSUME TypeInv, NEW r \in Req, Acts(r), reply'[r] # reply[r]
    PROVE  DecidesTo(r)
<1> USE DEF TypeInv, TypeOK, Answer, Goto, DecidesTo
<1>1. CASE LoadProject(r)
  <2>1. call[r].op \in Op
    BY CallsAssumption DEF Call
  <2>2. reply'[r] \in {403, 404}
    BY <1>1 DEF LoadProject
  <2>3. reply'[r] = 404 => projects[Target(r)] = NoRow
    BY <1>1 DEF LoadProject
  <2>4. call[r].op # "createProject"
    BY <1>1 DEF LoadProject, Flow, FlowOf, Reaches
  <2>5. ASSUME reply'[r] = 403
        PROVE  /\ call[r].op \in {"updateProject", "deleteProject", "deleteTask"}
               /\ projects[Target(r)] # NoRow
               /\ projects[Target(r)].owner # call[r].user
               /\ call[r].op = "deleteTask" =>
                      loaded[r].creator = Nil \/ loaded[r].creator # call[r].user
    BY <1>1, <2>1, <2>4, <2>5 DEF LoadProject, assertTaskDeletable, assertProjectOwner, Op
  <2> QED BY <1>1, <2>2, <2>3, <2>5
<1>2. CASE Arrive(r)
    BY <1>2 DEF Arrive
<1>3. CASE FindTask(r) \/ CheckInvolved(r) \/ ResolveAssignee(r)
    BY <1>3 DEF FindTask, CheckInvolved, ResolveAssignee
<1>4. CASE InsertProject(r) \/ InsertTask(r)
    BY <1>4 DEF InsertProject, InsertTask
<1>5. CASE UpdateTask(r) \/ ReloadTask(r) \/ CommitTask(r)
    BY <1>5 DEF UpdateTask, ReloadTask, CommitTask
<1>6. CASE UpdateProject(r) \/ ReloadProject(r) \/ CommitProject(r)
    BY <1>6 DEF UpdateProject, ReloadProject, CommitProject
<1>7. CASE DeleteTask(r) \/ DeleteProject(r) \/ CascadeTasks(r)
    BY <1>7 DEF DeleteTask, DeleteProject, CascadeTasks
<1>8. CASE Respond(r) \/ Abandon(r)
    BY <1>8 DEF Respond, Abandon
<1> QED BY <1>1, <1>2, <1>3, <1>4, <1>5, <1>6, <1>7, <1>8 DEF Acts, Step

(* The conjuncts of VerdictsStayTrue and of InternalErrorOnlyOnLostProject *)
(* for one request, by what they are about.                                *)
SaidGone(r) ==
    LET c == call[r]
    IN  /\ c.op \in OnProject /\ reply[r] = 404 => projects[c.project] = NoRow
        /\ c.op = "deleteProject" /\ reply[r] = 204 => projects[c.project] = NoRow
        /\ reply[r] = 500 => c.op = "createTask" /\ projects[c.project] = NoRow
        /\ c.op \in OnTask /\ reply[r] = 404 => tasks[c.task] = NoRow
        /\ c.op = "deleteTask" /\ reply[r] = 204 => tasks[c.task] = NoRow

SaidForbidden(r) ==
    LET c == call[r]
        p == projects[c.project]
        t == tasks[c.task]
    IN  /\ c.op \in {"updateProject", "deleteProject"} /\ reply[r] = 403
           => p = NoRow \/ p.owner # c.user
        /\ c.op = "deleteTask" /\ reply[r] = 403
           => t = NoRow \/ (t.creator # c.user /\ projects[t.project].owner # c.user)

(* Who deleted what, by what was told to whom.                             *)
SaidDeleted(r) == reply[r] = 204 => call[r].op \in {"deleteTask", "deleteProject"}

Said == \A r \in Req : SaidGone(r) /\ SaidForbidden(r) /\ SaidDeleted(r)

(* A request that was told something is about rows that were announced.    *)
LEMMA ToldOfKnown ==
    ASSUME IInv, NEW r \in Req, reply[r] # Undecided
    PROVE  /\ call[r] \in Call
           /\ call[r].op \in OnTask => (call[r].task \in Req => Created(call[r].task, "createTask"))
           /\ call[r].op \in OnProject =>
                  (call[r].project \in Req => Created(call[r].project, "createProject"))
BY CallsAssumption DEF IInv, TypeInv, TypeOK, Flow, FlowOf, Minting, MintingOf

LEMMA GoneStays ==
    ASSUME IInv, Said, NEW q \in Req, Acts(q), NEW r \in Req, reply'[r] = reply[r]
    PROVE  SaidGone(r)'
<1> DEFINE c == call[r]
<1>1. CASE reply[r] = Undecided
    BY <1>1 DEF SaidGone
<1>2. CASE reply[r] # Undecided
  <2>1. call' = call
    BY OthersStay DEF IInv, TypeInv
  <2>2. c.task \in TaskId /\ c.project \in ProjectId
    BY <1>2, ToldOfKnown DEF Call
  <2>3. c.op \in OnTask /\ tasks[c.task] = NoRow => tasks'[c.task] = NoRow
    BY <1>2, <2>2, ToldOfKnown, GoneTaskStays
  <2>4. c.op \in OnProject /\ projects[c.project] = NoRow => projects'[c.project] = NoRow
    BY <1>2, <2>2, ToldOfKnown, GoneProjectStays
  <2>5. SaidGone(r)
    BY DEF Said
  <2> QED BY <2>1, <2>3, <2>4, <2>5 DEF SaidGone, OnProject
<1> QED BY <1>1, <1>2

LEMMA ForbiddenStays ==
    ASSUME IInv, Said, NEW q \in Req, Acts(q), NEW r \in Req, reply'[r] = reply[r]
    PROVE  SaidForbidden(r)'
<1> DEFINE c == call[r]
           p == c.project
           t == c.task
<1>1. CASE reply[r] # 403
    BY <1>1, OthersStay DEF SaidForbidden, IInv, TypeInv
<1>2. CASE reply[r] = 403
  <2>1. call' = call
    BY OthersStay DEF IInv, TypeInv
  <2>2. t \in TaskId /\ p \in ProjectId
    BY <1>2, ToldOfKnown DEF Call
  <2>3. SaidForbidden(r)
    BY DEF Said
  <2>4. ASSUME c.op \in {"updateProject", "deleteProject"}
        PROVE  projects'[p] = NoRow \/ projects'[p].owner # c.user
    <3>1. projects[p] = NoRow \/ projects[p].owner # c.user
      BY <1>2, <2>3, <2>4 DEF SaidForbidden
    <3>2. p \in Req => Created(p, "createProject")
      BY <1>2, <2>4, ToldOfKnown DEF OnProject
    <3> QED BY <2>2, <3>1, <3>2, NoNewOwner
  <2>5. ASSUME c.op = "deleteTask", tasks'[t] # NoRow
        PROVE  tasks'[t].creator # c.user /\ projects'[tasks'[t].project].owner # c.user
    <3>1. t \in Req => Created(t, "createTask")
      BY <1>2, <2>5, ToldOfKnown
    <3>2. tasks[t] # NoRow
      BY <2>2, <2>5, <3>1, GoneTaskStays
    <3>3. tasks[t].creator # c.user /\ projects[tasks[t].project].owner # c.user
      BY <1>2, <2>3, <2>5, <3>2 DEF SaidForbidden
    <3>4. tasks[t] \in TaskRow
      BY <2>2, <3>2 DEF IInv, TypeInv, TypeOK, Tasks
    <3>5. tasks'[t].project = tasks[t].project /\ tasks'[t].creator = tasks[t].creator
      <4>1. call[q] \in Call
        BY CallsAssumption DEF IInv, TypeInv, TypeOK
      <4>2. TaskEffect(q, t)
        BY <2>2, TaskEffects
      <4> QED BY <2>5, <3>2, <4>1, <4>2, PatchedRow DEF TaskEffect
    <3> DEFINE o == tasks[t].project
    <3>6. o \in ProjectId /\ projects[o] # NoRow
      BY <2>2, <3>2, <3>4 DEF TaskRow, IInv, ReferentialIntegrity, Consistent, TaskRefsOK
    <3>7. o \in Req => Created(o, "createProject")
      BY <3>6 DEF IInv, Minting, MintingOf
    <3>8. projects'[o] = NoRow \/ projects'[o].owner # c.user
      BY <3>3, <3>6, <3>7, NoNewOwner
    <3>9. projects'[o] # NoRow
      BY <2>2, <2>5, <3>5, IntegrityStep DEF ReferentialIntegrity, Consistent, TaskRefsOK
    <3> QED BY <3>3, <3>5, <3>8, <3>9
  <2> QED BY <1>2, <2>1, <2>4, <2>5 DEF SaidForbidden
<1> QED BY <1>1, <1>2

(* A verdict is true when it is given.                                     *)
LEMMA SaysTrue ==
    ASSUME IInv, NEW r \in Req, Acts(r), reply'[r] # reply[r]
    PROVE  SaidGone(r)' /\ SaidForbidden(r)' /\ SaidDeleted(r)'
<1> DEFINE c == call[r]
<1> USE DEF IInv, TypeInv
<1>0. /\ call' = call /\ DecidesTo(r) /\ c \in Call
      /\ c.task \in TaskId /\ c.project \in ProjectId
    BY OthersStay, Decides, CallsAssumption DEF TypeOK, Call
<1>1. CASE reply'[r] \in {200, 201, 400}
    BY <1>0, <1>1 DEF SaidGone, SaidForbidden, SaidDeleted
<1>2. CASE FindTask(r) /\ tasks[c.task] = NoRow /\ reply'[r] = 404
    BY <1>0, <1>2 DEF FindTask, tables, SaidGone, SaidForbidden, SaidDeleted, Flow, FlowOf,
       Reaches, OnProject
<1>3. CASE LoadProject(r) /\ projects[Target(r)] = NoRow /\ reply'[r] = 404
  <2>1. UNCHANGED tables
    BY <1>3 DEF LoadProject
  <2>2. c.op \in OnProject => projects[c.project] = NoRow
    BY <1>3 DEF Target, OnProject
  <2>3. ASSUME c.op \in OnTask
        PROVE  tasks[c.task] = NoRow
    <3>1. loaded[r] \in TaskRow /\ Target(r) = loaded[r].project
      BY <1>3, <2>3 DEF LoadProject, Flow, FlowOf, Target
    <3>2. tasks[c.task] # NoRow => tasks[c.task].project = loaded[r].project
      BY <2>3, <3>1, NilAssumption DEF Checked, CheckedOf
    <3> QED BY <1>0, <1>3, <3>1, <3>2 DEF ReferentialIntegrity, Consistent, TaskRefsOK
  <2> QED BY <1>0, <1>3, <2>1, <2>2, <2>3 DEF tables, SaidGone, SaidForbidden, SaidDeleted
<1>4. CASE UpdateTask(r) /\ tasks[c.task] = NoRow /\ reply'[r] = 404
    BY <1>0, <1>4 DEF UpdateTask, tables, SaidGone, SaidForbidden, SaidDeleted, Flow, FlowOf,
       Reaches, OnProject
<1>5. CASE (UpdateProject(r) \/ DeleteProject(r)) /\ projects[c.project] = NoRow /\ reply'[r] = 404
    BY <1>0, <1>5 DEF UpdateProject, DeleteProject, tables, SaidGone, SaidForbidden, SaidDeleted,
       Flow, FlowOf, Reaches, OnProject
<1>6. CASE DeleteTask(r) /\ reply'[r] \in {204, 404}
  <2>1. tasks'[c.task] = NoRow /\ c.op = "deleteTask"
    BY <1>0, <1>6 DEF DeleteTask, TypeOK, Tasks, Flow, FlowOf, Reaches
  <2> QED BY <1>0, <1>6, <2>1 DEF SaidGone, SaidForbidden, SaidDeleted, OnProject
<1>7. CASE CascadeTasks(r) /\ reply'[r] = 204
  <2>1. projects'[c.project] = NoRow /\ c.op = "deleteProject"
    BY <1>0, <1>7 DEF CascadeTasks, TypeOK, Projects, Flow, FlowOf, Reaches
  <2> QED BY <1>0, <1>7, <2>1 DEF SaidGone, SaidForbidden, SaidDeleted
<1>8. CASE CheckInvolved(r) /\ reply'[r] = 403
    BY <1>0, <1>8 DEF CheckInvolved, SaidGone, SaidForbidden, SaidDeleted, Flow, FlowOf, Reaches
<1>9. CASE /\ LoadProject(r) /\ reply'[r] = 403
           /\ projects[Target(r)] # NoRow
           /\ projects[Target(r)].owner # c.user
           /\ c.op = "deleteTask" => loaded[r].creator = Nil \/ loaded[r].creator # c.user
  <2>1. UNCHANGED tables
    BY <1>9 DEF LoadProject
  <2>2. c.op \in {"updateProject", "deleteProject"} => projects[c.project].owner # c.user
    BY <1>9 DEF Target
  <2>3. ASSUME c.op = "deleteTask", tasks[c.task] # NoRow
        PROVE  tasks[c.task].creator # c.user /\ projects[tasks[c.task].project].owner # c.user
    <3>1. loaded[r] \in TaskRow /\ Target(r) = loaded[r].project
      BY <1>9, <2>3 DEF LoadProject, Flow, FlowOf, Target
    <3>2. /\ tasks[c.task].project = loaded[r].project
          /\ tasks[c.task].creator = loaded[r].creator
      BY <2>3, <3>1, NilAssumption DEF Checked, CheckedOf
    <3>3. c.user # Nil
      BY <1>0, NilAssumption DEF Call
    <3> QED BY <1>9, <2>3, <3>1, <3>2, <3>3
  <2> QED BY <1>0, <1>9, <2>1, <2>2, <2>3 DEF tables, SaidGone, SaidForbidden, SaidDeleted
<1>10. CASE InsertTask(r) /\ ~TaskRefsOK(users, projects, NewTask(r)) /\ reply'[r] = 500
  <2>1. c.user \in users /\ c.assignee \in users \union {Nil} /\ c.op = "createTask"
    BY <1>10 DEF InsertTask, Checked, CheckedOf, Minting, MintingOf, Flow, FlowOf, Reaches
  <2>2. projects[c.project] = NoRow
    BY <1>0, <1>10, <2>1, NewRow DEF TaskRefsOK
  <2>3. projects' = projects
    BY <1>10 DEF InsertTask
  <2> QED BY <1>0, <1>10, <2>1, <2>2, <2>3 DEF SaidGone, SaidForbidden, SaidDeleted
<1>11. CASE UpdateTask(r) /\ c.assignee \notin users \union {Nil}
    BY <1>11 DEF UpdateTask, Checked, CheckedOf
<1> QED
    BY <1>0, <1>1, <1>2, <1>3, <1>4, <1>5, <1>6, <1>7, <1>8, <1>9, <1>10, <1>11 DEF DecidesTo

LEMMA SaidStep ==
    ASSUME IInv, Said, [Next]_vars
    PROVE  Said'
<1>1. ASSUME NEW q \in Req, Acts(q), NEW r \in Req
      PROVE  SaidGone(r)' /\ SaidForbidden(r)' /\ SaidDeleted(r)'
  <2>1. call' = call /\ (q # r => reply'[r] = reply[r])
    BY <1>1, OthersStay DEF IInv, TypeInv
  <2>2. CASE reply'[r] = reply[r]
    BY <1>1, <2>1, <2>2, GoneStays, ForbiddenStays DEF Said, SaidDeleted
  <2>3. CASE reply'[r] # reply[r]
    BY <1>1, <2>1, <2>3, SaysTrue
  <2> QED BY <2>2, <2>3
<1>2. ASSUME UNCHANGED <<projects, tasks, call, reply>>
      PROVE  Said'
    BY <1>2 DEF Said, SaidGone, SaidForbidden, SaidDeleted
<1> QED BY <1>1, <1>2 DEF Next, Acts, Quiescent, Register, vars, Said

LEMMA SaidAlways == Spec => []Said
<1>1. Init => Said
    BY DEF Init, Said, SaidGone, SaidForbidden, SaidDeleted
<1> QED BY <1>1, SaidStep, Invariance, PTL DEF Spec

(* A row that was answered "not found" or "deleted" never reappears, and   *)
(* whoever was refused a right does not have it.                           *)
THEOREM VerdictsTrue == Spec => []VerdictsStayTrue
<1>1. Said => VerdictsStayTrue
    BY DEF Said, SaidGone, SaidForbidden, VerdictsStayTrue, OnProject
<1> QED BY <1>1, SaidAlways, PTL

(* Of all foreign keys, only that of a new task to its project can fail.   *)
THEOREM OneInternalError == Spec => []InternalErrorOnlyOnLostProject
<1>1. Said => InternalErrorOnlyOnLostProject
    BY DEF Said, SaidGone, InternalErrorOnlyOnLostProject
<1> QED BY <1>1, SaidAlways, PTL

(* Of two deletes of one row, one is told that it deleted it: the other    *)
(* would have found the row gone.                                          *)
THEOREM DeletedOnce == Spec => []EachRowDeletedOnce
<1> DEFINE Both(r, q) ==
        r # q /\ reply[r] = 204 /\ reply[q] = 204 /\ call[r].op = call[q].op =>
            IF call[r].op = "deleteTask" THEN call[r].task # call[q].task
                                         ELSE call[r].project # call[q].project
<1>1. Init => EachRowDeletedOnce
    BY DEF Init, EachRowDeletedOnce
<1>2. ASSUME IInv, Said, NEW r \in Req, Acts(r), reply'[r] = 204, reply[r] # 204,
             NEW q \in Req, reply[q] = 204, call[r].op = call[q].op
      PROVE  IF call[r].op = "deleteTask" THEN call[r].task # call[q].task
                                          ELSE call[r].project # call[q].project
  <2>1. DecidesTo(r)
    BY <1>2, Decides DEF IInv
  <2>2. CASE DeleteTask(r) /\ tasks[call[r].task] # NoRow
    BY <1>2, <2>2 DEF DeleteTask, IInv, TypeInv, Flow, FlowOf, Reaches, Said, SaidGone
  <2>3. CASE CascadeTasks(r)
    BY <1>2, <2>3 DEF CascadeTasks, IInv, TypeInv, Flow, FlowOf, Reaches, Locking, Said, SaidGone
  <2> QED BY <1>2, <2>1, <2>2, <2>3 DEF DecidesTo
<1>3. ASSUME IInv, Said, EachRowDeletedOnce, [Next]_vars
      PROVE  EachRowDeletedOnce'
  <2>1. ASSUME NEW s \in Req, Acts(s), NEW r \in Req, NEW q \in Req
        PROVE  Both(r, q)'
    <3>1. call' = call /\ \A x \in Req \ {s} : reply'[x] = reply[x]
      BY <1>3, <2>1, OthersStay DEF IInv, TypeInv
    <3>2. Both(r, q) /\ Both(q, r)
      BY <1>3 DEF EachRowDeletedOnce
    <3>3. CASE reply'[s] # 204 \/ reply[s] = 204
      BY <3>1, <3>2, <3>3
    <3>4. CASE reply'[s] = 204 /\ reply[s] # 204
      BY <1>2, <1>3, <2>1, <3>1, <3>2, <3>4
    <3> QED BY <3>3, <3>4
  <2>2. ASSUME UNCHANGED <<call, reply>>
        PROVE  EachRowDeletedOnce'
    BY <1>3, <2>2 DEF EachRowDeletedOnce
  <2> QED BY <1>3, <2>1, <2>2 DEF Next, Acts, Quiescent, Register, vars, EachRowDeletedOnce
<1> QED BY <1>1, <1>3, SaidAlways, Invariance, PTL DEF Spec

(* What was created with a 201 is there, or a request that was decided to  *)
(* be answered 204 took it away.                                           *)
THEOREM AckedSurvives == Spec => []AckedTaskSurvives
<1> DEFINE TookAway(q, r) ==
        /\ reply[q] = 204
        /\ \/ call[q].op = "deleteTask" /\ call[q].task = r
           \/ call[q].op = "deleteProject" /\ call[q].project = call[r].project
<1>1. Init => AckedTaskSurvives
    BY DEF Init, AckedTaskSurvives
<1>2. ASSUME IInv, AckedTaskSurvives, NEW s \in Req, Acts(s), NEW r \in Req,
             call[r].op = "createTask", reply'[r] = 201
      PROVE  tasks'[r] # NoRow \/ \E q \in Req : TookAway(q, r)'
  <2> USE DEF IInv, TypeInv
  <2>0. call' = call /\ r \in TaskId /\ call[r] \in Call
    BY <1>2, OthersStay, MintAssumption, CallsAssumption DEF TypeOK
  <2>1. CASE reply[r] # 201
    <3>1. s = r /\ reply'[r] # reply[r]
      BY <1>2, <2>1, OthersStay
    <3>2. tasks' = [tasks EXCEPT ![r] = NewTask(r)]
      BY <1>2, <2>1, <3>1 DEF Acts, Step, Answer, Goto, TypeOK, Flow, FlowOf, Reaches,
         Arrive, FindTask, LoadProject, CheckInvolved, ResolveAssignee, InsertProject,
         UpdateProject, ReloadProject, CommitProject, InsertTask, UpdateTask, ReloadTask,
         CommitTask, DeleteTask, DeleteProject, CascadeTasks, Respond, Abandon
    <3> QED BY <1>2, <2>0, <3>2, NewRow, NilAssumption DEF TypeOK, Tasks
  <2>2. CASE reply[r] = 201 /\ tasks[r] # NoRow
    <3>1. TaskEffect(s, r)
      BY <1>2, <2>0, TaskEffects
    <3>2. CASE DeleteTask(s) /\ r = call[s].task
      <4>1. reply'[s] = 204 /\ call[s].op = "deleteTask"
        BY <1>2, <2>2, <3>2 DEF DeleteTask, Answer, TypeOK, Flow, FlowOf, Reaches
      <4> QED BY <1>2, <2>0, <3>2, <4>1
    <3>3. CASE CascadeTasks(s) /\ tasks[r].project = call[s].project
      <4>1. reply'[s] = 204 /\ call[s].op = "deleteProject"
        BY <1>2, <3>3 DEF CascadeTasks, Answer, TypeOK, Flow, FlowOf, Reaches
      <4>2. tasks[r].project = call[r].project
        BY <1>2, <2>2 DEF Minting, MintingOf
      <4>3. TookAway(s, r)'
        BY <2>0, <3>3, <4>1, <4>2
      <4> HIDE DEF TookAway
      <4> QED BY <1>2, <4>3
    <3>4. CASE tasks'[r] # NoRow
      BY <3>4
    <3>5. CASE CommitTask(s) /\ r = call[s].task
      <4>1. tasks'[r] \in TaskRow
        BY <1>2, <2>0, <3>5, Committed, PatchedRow DEF TypeOK, Tasks
      <4> QED BY <4>1, NilAssumption
    <3> QED BY <2>2, <3>1, <3>2, <3>3, <3>4, <3>5 DEF TaskEffect
  <2>3. CASE reply[r] = 201 /\ tasks[r] = NoRow
    <3>1. PICK q \in Req : TookAway(q, r)
      BY <1>2, <2>3 DEF AckedTaskSurvives
    <3>2. reply'[q] = reply[q]
      BY <1>2, <3>1, RepliesStick
    <3> QED BY <2>0, <3>1, <3>2
  <2> QED BY <2>1, <2>2, <2>3
<1>3. ASSUME IInv, AckedTaskSurvives, [Next]_vars
      PROVE  AckedTaskSurvives'
  <2>1. ASSUME NEW s \in Req, Acts(s)
        PROVE  AckedTaskSurvives'
    <3>1. call' = call
      BY <1>3, <2>1, OthersStay DEF IInv, TypeInv
    <3> QED BY <1>2, <1>3, <2>1, <3>1 DEF AckedTaskSurvives
  <2>2. ASSUME UNCHANGED <<tasks, call, reply>>
        PROVE  AckedTaskSurvives'
    BY <1>3, <2>2 DEF AckedTaskSurvives
  <2> QED BY <1>3, <2>1, <2>2 DEF Next, Acts, Quiescent, Register, vars
<1> QED BY <1>1, <1>3, Invariance, PTL DEF Spec
=============================================================================
