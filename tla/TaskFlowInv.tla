---------------------------- MODULE TaskFlowInv -----------------------------
(***************************************************************************)
(* The inductive invariant of TaskFlow: what is true of a request at each  *)
(* statement, although the tables went on changing since its checks.       *)
(***************************************************************************)
EXTENDS TaskFlow

OnTask    == {"updateTask", "deleteTask"}
OnProject == {"updateProject", "deleteProject", "createTask"}

(* Which operations get to which statement.                                *)
Reaches(op, label) ==
    /\ label = "findTask" => op \in OnTask
    /\ label = "loadProject" => op # "createProject"
    /\ label \in {"checkInvolved", "resolveAssignee"} => op \in {"createTask", "updateTask"}
    /\ label = "insertProject" => op = "createProject"
    /\ label = "insertTask" => op = "createTask"
    /\ label \in {"updateTask"} \union TaskTx => op = "updateTask"
    /\ label \in {"updateProject"} \union ProjectTx => op = "updateProject"
    /\ label = "deleteTask" => op = "deleteTask"
    /\ label \in {"deleteProject", "cascade"} => op = "deleteProject"

(* A handler decides once, at its last statement; a transaction that is    *)
(* open has a row to commit, which is what its reload returned; a task     *)
(* that was loaded is a task row; a rename that got past Arrive has a name. *)
FlowOf(r) ==
    /\ Reaches(call[r].op, pc[r])
    /\ pc[r] = "idle" => loaded[r] = NoRow
    /\ pc[r] \notin Over \union {"respond"} => reply[r] = Undecided
    /\ pc[r] \in TaskTx => draft[r] \in TaskRow
    /\ pc[r] \in ProjectTx => draft[r] \in ProjectRow
    /\ pc[r] \in {"commitTask", "commitProject"} => loaded[r] = draft[r]
    /\ pc[r] \in {"loadProject", "checkInvolved", "resolveAssignee", "updateTask", "deleteTask"}
       /\ call[r].op \in OnTask => loaded[r] \in TaskRow
    /\ pc[r] \in {"loadProject", "updateProject"} /\ call[r].op = "updateProject"
       => call[r].name # Nil

Flow == \A r \in Req : FlowOf(r)

(* The row a request creates appears with its 201, and is what it asked    *)
(* for; and nobody asks about a row before it has appeared.                *)
Created(r, op) == reply[r] = 201 /\ call[r].op = op

MintingOf(r) ==
    /\ tasks[r] # NoRow =>
           Created(r, "createTask") /\ tasks[r].project = call[r].project
    /\ projects[r] # NoRow => Created(r, "createProject")
    /\ pc[r] # "idle" =>
           /\ call[r].user \in users
           /\ call[r].op \in OnTask /\ call[r].task \in Req =>
                  Created(call[r].task, "createTask")
           /\ call[r].op \in OnProject /\ call[r].project \in Req =>
                  Created(call[r].project, "createProject")

Minting == \A r \in Req : MintingOf(r)

(* Row locks exclude each other, and the locked row stays.                 *)
Locking ==
    /\ DraftBuiltOnCommitted
    /\ \A r \in Req : pc[r] = "cascade" => projects[call[r].project] # NoRow
    /\ \A r, q \in Req :
           /\ pc[r] \in TaskTx /\ pc[q] \in TaskTx /\ call[r].task = call[q].task => r = q
           /\ /\ pc[r] \in ProjectTx \union {"cascade"}
              /\ pc[q] \in ProjectTx \union {"cascade"}
              /\ call[r].project = call[q].project
              => r = q

(* What was checked still holds when it is used: owners and creators never *)
(* change, and users are never deleted.                                    *)
CheckedOf(r) ==
    LET c == call[r]
        t == tasks[c.task]
        p == projects[c.project]
    IN  /\ loaded[r] # NoRow /\ t # NoRow /\ c.op \in OnTask =>
               t.project = loaded[r].project /\ t.creator = loaded[r].creator
        /\ pc[r] \in {"insertTask", "updateTask"} \union TaskTx =>
               c.assignee \in users \union {Nil}
        /\ pc[r] = "deleteTask" /\ t # NoRow =>
               projects[t.project].owner = c.user \/ t.creator = c.user
        /\ pc[r] \in {"updateProject", "deleteProject", "cascade"} \union ProjectTx =>
               p = NoRow \/ p.owner = c.user

Checked == \A r \in Req : CheckedOf(r)

TypeInv == TypeOK /\ Flow
IInv == TypeInv /\ Minting /\ Locking /\ ReferentialIntegrity /\ Checked
=============================================================================
