------------------------------ MODULE MCServer ------------------------------
(* Instances of Server for TLC.                                            *)
EXTENDS Server, TLC

CONSTANTS r1, r2, r3

MCSymmetry == Permutations(Req) \union Permutations(Conn)

(* An update, which is what others wait for longest, and two requests on   *)
(* any other routes, or one and a second update.                           *)
MixedRoutes ==
    /\ Init
    /\ \E r \in Req : route[r] = "updateTask"
    /\ \A r, q \in Req : r # q /\ route[r] = route[q] => route[r] = "updateTask"
    /\ \E r \in Req : route[r] # "updateTask"

MixedSpec == MixedRoutes /\ [][Next]_vars

(* Two updates of one row and a third request that waits for the row with  *)
(* a connection in hand; or two requests for statistics, each of which     *)
(* needs a connection twice, and an update that has one.                   *)
Waiting ==
    /\ Init
    /\ \/ route[r1] = "updateTask" /\ route[r2] = "updateTask" /\ route[r3] = "deleteTask"
       \/ route[r1] = "stats" /\ route[r2] = "stats" /\ route[r3] = "updateTask"

LiveSpec == Waiting /\ [][Next]_vars /\ Fairness
=============================================================================
