------------------------------ MODULE PageWalk ------------------------------
(***************************************************************************)
(* A client fetches a list page by page while rows come and go.  Each page *)
(* is two statements, a COUNT and a SELECT with LIMIT and OFFSET, and      *)
(* nothing ties the pages to each other.  Tasks are listed oldest first,   *)
(* projects newest first.  A row need not come in at the end where new     *)
(* ones appear: its created_at is the time its INSERT began, which may be  *)
(* long before it commits, a task comes under a filter when it is edited,  *)
(* and an old project becomes accessible when a task of it is assigned.    *)
(* Rows of one statement share a created_at, as the seed's tasks do.       *)
(***************************************************************************)
EXTENDS Pagination, FiniteSets, SequencesExt

CONSTANTS Row,         \* rows that may ever be in the list
          Stamp,       \* values of created_at
          limit,       \* the limit the client walks with
          MaxChanges   \* bound on what happens to the list during a walk

ASSUME StampAssumption == Stamp \subseteq Nat

(* The client walks with a limit that is accepted, and what a COUNT may    *)
(* return fits an int.                                                     *)
ASSUME WalkAssumption ==
    /\ ParsesTo(limit)
    /\ IsFiniteSet(Row) /\ Cardinality(Row) <= MaxInt

VARIABLES
    created_at, \* of each row
    order,      \* which list it is
    present,    \* the rows in the list now
    page,       \* the page being fetched
    total,      \* what COUNT returned for it, or NotCounted
    shown,      \* the items received, page after page
    stayed,     \* the rows in the list since the walk began
    ahead,      \* how many came in that belong before one already shown
    late,       \* how many came in between a COUNT and its SELECT
    left,       \* how many went
    walking

vars == <<created_at, order, present, page, total, shown, stayed, ahead, late, left, walking>>

NotCounted == -1

Init ==
    /\ created_at \in [Row -> Stamp]
    /\ order \in {"ASC", "DESC"}
    /\ present \in SUBSET Row
    /\ page = 1
    /\ total = NotCounted
    /\ shown = <<>>
    /\ stayed = present
    /\ ahead = 0 /\ late = 0 /\ left = 0
    /\ walking = TRUE

Before(x, y) == IF order = "ASC" THEN created_at[x] < created_at[y]
                                 ELSE created_at[x] > created_at[y]

(* Variant: every list is newest first.                                    *)
NewestFirst ==
    {s \in SetToSeqs(present) : \A i, j \in DOMAIN s : i < j => created_at[s[i]] >= created_at[s[j]]}

(* Variant: no ORDER BY.                                                   *)
InAnyOrder == SetToSeqs(present)

(* ORDER BY created_at ASC or DESC: rows that share a created_at come in   *)
(* whatever order this execution of the query finds them.                  *)
Ordered == {s \in SetToSeqs(present) : \A i, j \in DOMAIN s : i < j => ~Before(s[j], s[i])}

Changes == ahead + late + left

Enter(x) ==
    /\ walking
    /\ Changes < MaxChanges
    /\ x \notin present
    /\ present' = present \union {x}
    /\ ahead' = IF \E y \in ToSet(shown) : ~Before(y, x) THEN ahead + 1 ELSE ahead
    /\ late' = IF total # NotCounted THEN late + 1 ELSE late
    /\ UNCHANGED <<created_at, order, page, total, shown, stayed, left, walking>>

Leave(x) ==
    /\ walking
    /\ Changes < MaxChanges
    /\ x \in present
    /\ present' = present \ {x}
    /\ stayed' = stayed \ {x}
    /\ left' = left + 1
    /\ UNCHANGED <<created_at, order, page, total, shown, ahead, late, walking>>

Count ==
    /\ walking
    /\ total = NotCounted
    /\ total' = Cardinality(present)
    /\ UNCHANGED <<created_at, order, present, page, shown, stayed, ahead, late, left, walking>>

(* The client goes on as long as total says that there is more.            *)
List ==
    LET n == normalizePagination(page, limit)
    IN  /\ total # NotCounted
        /\ \E rows \in Ordered : shown' = shown \o Slice(rows, n.limit, Offset(n.page, n.limit))
        /\ walking' = (n.page * n.limit < total)
        /\ page' = page + 1
        /\ total' = NotCounted
        /\ UNCHANGED <<created_at, order, present, stayed, ahead, late, left>>

Arrived == ~walking /\ UNCHANGED vars

Next ==
    \/ \E x \in Row : Enter(x) \/ Leave(x)
    \/ Count \/ List \/ Arrived

Spec == Init /\ [][Next]_vars

-----------------------------------------------------------------------------
Distinct == \A x, y \in Row : created_at[x] = created_at[y] => x = y
Repeats  == Len(shown) - Cardinality(ToSet(shown))

(* What a walk shows twice is never more than what came in before a row it *)
(* had shown: none of the tasks of a project, while new ones only appear   *)
(* at the end; one per project that was created or opened to the client.   *)
RepeatsBounded == Distinct => Repeats <= ahead

(* What a finished walk has missed of the rows that were there all along   *)
(* is never more than what went, or came in behind a COUNT's back.         *)
MissesBounded ==
    ~walking /\ Distinct => Cardinality(stayed \ ToSet(shown)) <= left + late

(* If nothing changes, rows that share a created_at may change places over *)
(* the edge of a page, and be shown twice or not at all; but every other   *)
(* row is shown once.                                                      *)
OwnTimeShownOnce ==
    ~walking /\ Changes = 0 /\ stayed = present =>
        \A x \in present :
            (\A y \in present : created_at[y] = created_at[x] => y = x)
            => Cardinality({i \in DOMAIN shown : shown[i] = x}) = 1

-----------------------------------------------------------------------------
(* The inductive invariant behind the three.                               *)

(* How many rows the pages received so far ask for: the next OFFSET.       *)
Fetched == (page - 1) * normalizePagination(page, limit).limit

TypeOK ==
    /\ created_at \in [Row -> Stamp] /\ order \in {"ASC", "DESC"}
    /\ present \subseteq Row /\ stayed \subseteq present
    /\ page \in Nat \ {0}
    /\ total \in Nat \union {NotCounted} /\ total <= Cardinality(Row)
    /\ shown \in Seq(Row)
    /\ ahead \in Nat /\ late \in Nat /\ left \in Nat
    /\ walking \in BOOLEAN

(* No OFFSET of a walk wraps: a page is fetched if a total goes beyond it. *)
OffsetFits == IF walking THEN Fetched <= MaxInt ELSE total = NotCounted

(* The rows of the list that are not after all those shown.                *)
Passed == {x \in present : \E y \in ToSet(shown) : ~Before(y, x)}

(* What was shown twice, and what could still be, came in ahead.           *)
RepeatsAccounted ==
    Distinct => /\ Repeats <= ahead
                /\ Repeats + Cardinality(Passed) <= ahead + Fetched

(* Where x is in the list: exactly there, if its created_at is its own.    *)
Earlier(x) == {y \in present : Before(y, x)}
Place(x)   == Cardinality(Earlier(x)) + 1

(* The rows a walk has missed for good.                                    *)
Skipped == {x \in stayed \ ToSet(shown) : Place(x) <= Fetched}

(* A row is skipped when another one leaves, and cut off when another one  *)
(* comes in after the last COUNT.                                          *)
MissesAccounted ==
    Distinct => /\ Cardinality(Skipped) <= left
                /\ total # NotCounted => Cardinality(present) <= total + late
                /\ ~walking => Cardinality(present) <= Fetched + late

Alone(x) == \A y \in present : created_at[y] = created_at[x] => y = x

(* While nothing changes, the pages are laid end to end.                   *)
PagesJoin ==
    Changes = 0 /\ stayed = present =>
        /\ total \in {NotCounted, Cardinality(present)}
        /\ Len(shown) = Smaller(Fetched, Cardinality(present))
        /\ ~walking => Cardinality(present) <= Fetched
        /\ \A i \in DOMAIN shown, x \in present : Alone(x) => (shown[i] = x <=> i = Place(x))

IInv == TypeOK /\ OffsetFits /\ RepeatsAccounted /\ MissesAccounted /\ PagesJoin
=============================================================================
