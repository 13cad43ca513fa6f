------------------------------ MODULE MCAccess ------------------------------
(* An instance of TaskFlowAccess for TLC: three requests around p1 and t1. *)
(* u2 takes part in p1 by being assigned to t1, and works on it; u1, the   *)
(* owner, assigns t1 to and fro, or takes it away, alone or with the       *)
(* project.                                                                *)
EXTENDS MCTaskFlow, TaskFlowAccess

AccessCalls ==
    CreateTasks({u1}, {p1}, {Nil})
    \union CreateTasks({u2}, {p1, p2}, {Nil})
    \union UpdateTasks({u2}, {t1}, {Nil}, {"done"})
    \union UpdateTasks({u1}, {t1}, {u1, u2}, {Nil})
    \union DeleteTasks({u1}, {t1})
    \union DeleteProjects({u1}, {p1})

RaceAndAccessCalls == RaceCalls \union AccessCalls

AssignedElsewhere == SeedOnly \union {Store(t1 :> [T1 EXCEPT !.assignee = u1])}
=============================================================================
