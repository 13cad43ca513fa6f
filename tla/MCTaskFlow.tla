----------------------------- MODULE MCTaskFlow -----------------------------
(* Instances of TaskFlow for TLC: the stores it starts on and the calls    *)
(* its requests may make, one definition per question.                     *)
EXTENDS TaskFlowInv, TLC

CONSTANTS u1, u2, u3,  \* u1 owns p1, u2 works on it, u3 registers later
          p1, p2,      \* p2 is u1's too
          t1, t2       \* t1 is the seed's kind: nobody created it

MCUserId == {u1, u2, u3}
MCRegistered == {u1, u2}
MCProjectId == {p1, p2} \union Req
MCTaskId == {t1, t2} \union Req
MCName == {"old", "new"}

(* The seed (migrations/000002) and one step of work on it: t1 is assigned *)
(* to u2 and has no creator, t2 was created by u2 for nobody.              *)
Store(ts) ==
    [users    |-> {u1, u2},
     projects |-> [p \in MCProjectId |->
                      IF p \in {p1, p2} THEN [owner |-> u1, name |-> "old"] ELSE NoRow],
     tasks    |-> [t \in MCTaskId |-> IF t \in DOMAIN ts THEN ts[t] ELSE NoRow]]

T1 == [project |-> p1, assignee |-> u2, creator |-> Nil, status |-> "todo"]
T2 == [project |-> p1, assignee |-> Nil, creator |-> u2, status |-> "todo"]

SeedOnly == {Store(t1 :> T1)}
SeedAndWork == {Store(t1 :> T1), Store(t1 :> T1 @@ t2 :> T2)}

Ask(op, u, p, t, a, s, n) ==
    [op |-> op, user |-> u, project |-> p, task |-> t, assignee |-> a, status |-> s, name |-> n]

CreateProjects(U) == {Ask("createProject", u, p1, t1, Nil, Nil, "new") : u \in U}
UpdateProjects(U, P, N) == {Ask("updateProject", u, p, t1, Nil, Nil, n) : u \in U, p \in P, n \in N}
DeleteProjects(U, P) == {Ask("deleteProject", u, p, t1, Nil, Nil, Nil) : u \in U, p \in P}
CreateTasks(U, P, A) == {Ask("createTask", u, p, t1, a, Nil, Nil) : u \in U, p \in P, a \in A}
UpdateTasks(U, T, A, S) ==
    {Ask("updateTask", u, p1, t, a, s, Nil) : u \in U, t \in T, a \in A, s \in S}
DeleteTasks(U, T) == {Ask("deleteTask", u, p1, t, Nil, Nil, Nil) : u \in U, t \in T}

(* Two requests, every route, every kind of caller, target and patch.      *)
AllCalls ==
    LET U == {u1, u2}
    IN  CreateProjects({u1})
        \union UpdateProjects(U, {p1}, {"new", Nil})
        \union DeleteProjects(U, {p1} \union Req)
        \union CreateTasks(U, {p1, p2}, {Nil, u3})
        \union UpdateTasks(U, {t1} \union Req, {Nil, u3}, {"done", Nil})
        \union DeleteTasks(U \union {u3}, {t1, t2} \union Req)

(* Three requests around one project and the task in it.                   *)
RaceCalls ==
    DeleteProjects({u1}, {p1})
    \union CreateTasks({u2}, {p1}, {Nil})
    \union UpdateTasks({u2}, {t1}, {u1}, {Nil})
    \union UpdateTasks({u2}, {t1}, {Nil}, {"done"})
    \union DeleteTasks({u1}, {t1} \union Req)
    \union UpdateProjects({u1}, {p1}, {"new"})

(* A task is created while its project is deleted.                         *)
DoomedCalls == DeleteProjects({u1}, {p1}) \union CreateTasks({u2}, {p1}, {Nil})

ReqSymmetry == Permutations(Req)
=============================================================================
