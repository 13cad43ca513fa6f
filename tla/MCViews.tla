------------------------------ MODULE MCViews -------------------------------
(* The seed, a second user who is involved in p1 or not depending on what  *)
(* the writers do, room for another project and two tasks more; every route *)
(* for both users, with and without filter and pages of one row.           *)
EXTENDS Views

CONSTANTS u1, u2, p1, p2, t1, t2, t3

MCUserId == {u1, u2}
MCProjectId == {p1, p2}
MCTaskId == {t1, t2, t3}
MCName == {"old"}

Row(a, c, s) == [project |-> p1, assignee |-> a, creator |-> c, status |-> s]

MCRows == {Row(a, c, "todo") : a \in {Nil, u2}, c \in MCUserId}
          \union {Row(Nil, u2, "done"), [Row(u2, u1, "todo") EXCEPT !.project = p2]}

Seed == {[users    |-> {u1},
          projects |-> [p \in MCProjectId |->
                           IF p = p1 THEN [owner |-> u1, name |-> "old"] ELSE NoRow],
          tasks    |-> [t \in MCTaskId |-> IF t = t1 THEN Row(Nil, Nil, "todo") ELSE NoRow]]}

Request(route, s, p, l) ==
    {[route |-> route, user |-> u, project |-> p1, status |-> s, page |-> p, limit |-> l] :
        u \in MCUserId}

MCAsks ==
    Request("getProject", Nil, Absent, Absent)
    \union Request("getStats", Nil, Absent, Absent)
    \union Request("listTasks", Nil, Absent, Absent)
    \union Request("listTasks", "todo", Absent, 1)
    \union Request("listTasks", Nil, 2, 1)
    \union Request("listProjects", Nil, Absent, Absent)
    \union Request("listProjects", Nil, 2, 1)
=============================================================================
