------------------------------ MODULE MCFields ------------------------------
(* Texts at both sides of every length limit, with and without padding;    *)
(* words in every form UnmarshalJSON and ParseTaskStatus tell apart.  A    *)
(* body varies the title and the status, or the status and the priority,   *)
(* or the other two fields; the rest is absent or plain.  A due date is in *)
(* UTC, or in the last zone that PostgreSQL knows or the one beyond.       *)
EXTENDS Fields

T(pad, core) == [pad |-> pad, core |-> core, chars |-> "plain"]
TNul == [pad |-> 0, core |-> 1, chars |-> "nul"]

Titles == {T(0, 0), T(1, 0), T(0, 1), T(1, 254), T(1, 255), TNul}
Descriptions == {T(1, 9999), T(1, 10000), TNul}
MCText == Titles \union Descriptions
Dues == {d \in [day : Day, time : Time, zone : {0, 15, 16}] : d.time = midnight => d.zone = 0}

MCWord == Status \union Priority \union {"", " ", " Done", "urgent"}
MCCanon == [w \in MCWord |-> CASE w = " " -> "" [] w = " Done" -> "done" [] OTHER -> w]

StatusWords == {"", " ", "todo", "done", " Done", "urgent"}
PriorityWords == {" ", "low", "high", "done"}

MCBody ==
    LET base == [title |-> Absent, description |-> Absent, due |-> Absent,
                 status |-> Absent, priority |-> Absent]
        plain == [base EXCEPT !.title = T(0, 1)]
    IN  {[base EXCEPT !.title = t, !.status = s] :
             t \in Raw(Titles), s \in {Absent, " Done"}}
        \union {[b EXCEPT !.status = s, !.priority = p] :
             b \in {base, plain}, s \in Raw(StatusWords), p \in Raw(PriorityWords)}
        \union {[b EXCEPT !.description = d, !.due = x] :
             b \in {base, plain}, d \in Raw(Descriptions), x \in Raw(Dues)}
=============================================================================
