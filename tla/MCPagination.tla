---------------------------- MODULE MCPagination ----------------------------
(* Pagination for TLC: either a request or a walk.                         *)
EXTENDS Paging

walk == vars
request == <<askedPage, askedLimit, size, reply, items>>

(* Ints of 9 bits, -256..255: both sides of the default and maximal limit  *)
(* and of the width, and lists shorter and longer than a maximal page.     *)
MCParams == {-1, 0, 1, 2, 3, 4, 5, 10, 19, 20, 21, 99, 100, 101, 129, 255, 256}
MCSizes == {0, 1, 19, 20, 21, 40, 41, 100, 101, 205}

MCStamp == 1..4
RowSymmetry == Permutations(Row)

RequestAnswered ==
    /\ askedPage = Absent /\ askedLimit = 1 /\ size = 0
    /\ reply = 200 /\ items = <<>>

WalkEnded ==
    /\ created_at = [x \in Row |-> 1] /\ order = "ASC"
    /\ present = {} /\ stayed = {} /\ shown = <<>>
    /\ page = 2 /\ total = NotCounted
    /\ ahead = 0 /\ late = 0 /\ left = 0
    /\ walking = FALSE

MCInit == (Init /\ RequestAnswered) \/ (R!Init /\ WalkEnded)
MCNext == (Next /\ UNCHANGED request) \/ (R!Next /\ UNCHANGED walk)
MCSpec == MCInit /\ [][MCNext]_<<walk, request>>
=============================================================================
