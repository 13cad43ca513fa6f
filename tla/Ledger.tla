------------------------------- MODULE Ledger -------------------------------
(***************************************************************************)
(* Board with its acknowledgements: each step by which a user changes the  *)
(* board is noted under that user's name, and nothing else is.  This is    *)
(* what a client may conclude from a 2xx answer: its own request, with its *)
(* own rights, was one step of the board.  TaskFlow implements it.         *)
(***************************************************************************)
EXTENDS Board

VARIABLE deeds  \* who was told of having done what to which row

ledgerVars == <<users, projects, tasks, deeds>>

LedgerInit == Init /\ deeds = {}

Note(op, u, id) == deeds' = deeds \union {[op |-> op, user |-> u, id |-> id]}

LedgerNext ==
    \/ \E u \in UserId : Register(u) /\ UNCHANGED deeds
    \/ \E u \in UserId, p \in ProjectId :
          \/ Note("createProject", u, p) /\ \E n \in Name : CreateProject(u, p, n)
          \/ Note("updateProject", u, p) /\ \E n \in Name : RenameProject(u, p, n)
          \/ Note("deleteProject", u, p) /\ RemoveProject(u, p)
    \/ \E u \in UserId, t \in TaskId :
          \/ Note("createTask", u, t) /\ \E row \in TaskRow : AddTask(u, t, row)
          \/ Note("updateTask", u, t) /\ u \in users /\ \E row \in TaskRow : EditTask(t, row)
          \/ Note("deleteTask", u, t) /\ RemoveTask(u, t)

LedgerSpec == LedgerInit /\ [][LedgerNext]_ledgerVars
=============================================================================
