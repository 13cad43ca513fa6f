----------------------------- MODULE Pagination -----------------------------
(***************************************************************************)
(* ?page= and ?limit= as the list routes treat them: parsed, normalised,   *)
(* and turned into LIMIT and OFFSET in Go's int, Width bits wide.  A list  *)
(* is a sequence in the ORDER BY of its query.                             *)
(***************************************************************************)
EXTENDS Integers, Sequences

CONSTANTS Width,   \* bits of an int: 64 in the build, few enough for TLC here
          Absent   \* the query parameter is not there

ASSUME WidthAssumption == Width \in Nat \ {0}

ASSUME AbsentAssumption == Absent \notin Int

defaultListLimit == 20
maxListLimit     == 100

MaxInt  == 2^(Width - 1) - 1
Wrap(n) == ((n + MaxInt + 1) % 2^Width) - MaxInt - 1

Smaller(m, n) == IF m < n THEN m ELSE n

(* strconv.Atoi fails beyond an int; what is not positive is refused too.  *)
ParsesTo(param) == param = Absent \/ param \in 1..MaxInt

(* Variant: a limit above the maximum is taken as it is.                   *)
UncappedPagination(page, limit) ==
    [page  |-> IF page = Absent THEN 1 ELSE page,
     limit |-> IF limit = Absent THEN defaultListLimit ELSE limit]

normalizePagination(page, limit) ==
    [page  |-> IF page = Absent THEN 1 ELSE page,
     limit |-> IF limit = Absent THEN defaultListLimit ELSE Smaller(limit, maxListLimit)]

(* Variant: pages are counted from zero.                                   *)
OffsetFromZero(p, l) == Wrap(p * l)

Offset(p, l) == Wrap((p - 1) * l)

(* LIMIT l OFFSET off, for off >= 0: PostgreSQL refuses a negative one.    *)
Slice(rows, l, off) == SubSeq(rows, off + 1, Smaller(off + l, Len(rows)))
=============================================================================
