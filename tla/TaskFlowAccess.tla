--------------------------- MODULE TaskFlowAccess ---------------------------
(***************************************************************************)
(* TaskFlow with a history: what was true of each caller's access while    *)
(* its request was being checked.  assertProjectAccessible reads the       *)
(* project and the caller's tasks in two statements, and what it finds may *)
(* be stale when the task is written; how stale is what is stated here.    *)
(***************************************************************************)
EXTENDS TaskFlowInv

VARIABLE seen  \* did the caller have access, did it lack it, or both

accessVars == <<vars, seen>>

Shared == {"createTask", "updateTask"}  \* what every participant may do

(* The caller owns the project, or has a task in it.                       *)
Accessible(r) ==
    /\ projects[Target(r)] # NoRow
    /\ \/ projects[Target(r)].owner = call[r].user
       \/ Involved(tasks, call[r].user, Target(r))

BeingChecked(r) == pc[r] \in {"loadProject", "checkInvolved"} /\ call[r].op \in Shared

Look(r) == IF BeingChecked(r) THEN {Accessible(r)} ELSE {}

AccessInit == Init /\ seen = [r \in Req |-> {}]
AccessNext == Next /\ seen' = [r \in Req |-> seen[r] \union Look(r)]
AccessSpec == AccessInit /\ [][AccessNext]_accessVars

-----------------------------------------------------------------------------
(* Nobody creates or edits a task of a project that was not open to them   *)
(* at some moment of the very request, and nobody is refused who had       *)
(* access throughout: the two statements decide like one.  (A participant  *)
(* who is un-assigned after the check still gets to write.)                *)
AccessDecidedAsOne ==
    \A r \in Req : call[r].op \in Shared =>
        /\ reply[r] \in {200, 201} => TRUE \in seen[r]
        /\ reply[r] = 403 => FALSE \in seen[r]

(* What holds on the way there: an owner stays one, and a project that was *)
(* found is not created any more, so a caller who was not the owner is not *)
(* when the second statement runs.                                         *)
DecidedOf(r) ==
    call[r].op \in Shared =>
        /\ pc[r] \in {"resolveAssignee", "insertTask", "updateTask"} \union TaskTx
           => TRUE \in seen[r]
        /\ pc[r] = "checkInvolved" =>
               /\ \/ projects[Target(r)] = NoRow
                  \/ projects[Target(r)].owner # call[r].user
               /\ Target(r) \in Req => Created(Target(r), "createProject")

AccessInv ==
    /\ seen \in [Req -> SUBSET BOOLEAN]
    /\ \A r \in Req : DecidedOf(r)
    /\ AccessDecidedAsOne
=============================================================================
