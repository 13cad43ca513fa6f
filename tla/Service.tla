------------------------------ MODULE Service -------------------------------
(***************************************************************************)
(* What a client may conclude from the fate of a request, whatever happens *)
(* to the process that serves it: a request takes effect at most once, and *)
(* only before its outcome is known; a success is told after the effect, a *)
(* refusal means that there was none and will be none, and anything else   *)
(* leaves it open.  Server implements this.                                *)
(***************************************************************************)
CONSTANT Req

VARIABLES writes,   \* the requests that are to change the data
          applied,  \* those that have
          told      \* what their clients know

vars == <<writes, applied, told>>

Outcome == {"yes", "no", "unknown"}

Init ==
    /\ writes \subseteq Req
    /\ applied = {}
    /\ told = [r \in Req |-> "pending"]

Apply(r) ==
    /\ told[r] = "pending"
    /\ r \in writes
    /\ applied' = applied \union {r}
    /\ UNCHANGED <<writes, told>>

Tell(r, outcome) ==
    /\ told[r] = "pending"
    /\ told' = [told EXCEPT ![r] = outcome]
    /\ UNCHANGED <<writes, applied>>

Confirm(r) == (r \in writes => r \in applied) /\ Tell(r, "yes")
Deny(r)    == r \notin applied /\ Tell(r, "no")

(* A process that dies leaves many clients without an answer at once, some *)
(* of them with their request carried out.                                 *)
GiveUp(L) ==
    /\ \A r \in L : told[r] = "pending"
    /\ told' = [r \in Req |-> IF r \in L THEN "unknown" ELSE told[r]]
    /\ \E A \in SUBSET (L \intersect writes) : applied' = applied \union A
    /\ UNCHANGED writes

Next ==
    \/ \E r \in Req : Apply(r) \/ Confirm(r) \/ Deny(r)
    \/ \E L \in SUBSET Req : GiveUp(L)

Spec == Init /\ [][Next]_vars
=============================================================================
