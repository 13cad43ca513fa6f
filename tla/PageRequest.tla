---------------------------- MODULE PageRequest -----------------------------
(***************************************************************************)
(* One request for a page of a list that nobody changes meanwhile: every   *)
(* combination of parameters, at and beyond the limits of an int.          *)
(***************************************************************************)
EXTENDS Pagination

CONSTANTS Params,  \* integers a client may send as page or limit
          Sizes    \* lengths the list may have

VARIABLES page, limit, size,  \* the request, and the rows there are
          reply,              \* the status code
          items               \* the rows of the answer, by their position

vars == <<page, limit, size, reply, items>>

Undecided == 0

Init ==
    /\ page \in Params \union {Absent}
    /\ limit \in Params \union {Absent}
    /\ page # Absent \/ limit # Absent
    /\ size \in Sizes
    /\ reply = Undecided
    /\ items = <<>>

(* ParseOptionalPagination answers before the service is called; an OFFSET *)
(* below zero is an error of the query that nobody maps.                   *)
Serve ==
    LET n   == normalizePagination(page, limit)
        off == Offset(n.page, n.limit)
    IN  /\ reply = Undecided
        /\ IF ~(ParsesTo(page) /\ ParsesTo(limit)) THEN reply' = 400 /\ UNCHANGED items
           ELSE IF off < 0 THEN reply' = 500 /\ UNCHANGED items
           ELSE reply' = 200 /\ items' = Slice([i \in 1..size |-> i], n.limit, off)
        /\ UNCHANGED <<page, limit, size>>

Answered == reply # Undecided /\ UNCHANGED vars

Next == Serve \/ Answered

Spec == Init /\ [][Next]_vars

(* The answer is the page asked for: rows whose position falls into it     *)
(* when the list is cut into runs of the limit, 20 unless given and never  *)
(* above 100, provided the position of its first row fits an int.          *)
AnswerIsThePage ==
    LET p == IF page = Absent THEN 1 ELSE page
        l == IF limit = Absent THEN 20 ELSE IF limit > 100 THEN 100 ELSE limit
    IN  reply = 200 /\ (p - 1) * l <= MaxInt =>
            {items[i] : i \in DOMAIN items} = {i \in 1..size : (i - 1) \div l = p - 1}

(* docs/API.md:322: a page and a limit of 1 or more are accepted.          *)
EveryPageAccepted ==
    reply # Undecided /\ page \in 1..MaxInt /\ limit \in 1..MaxInt => reply = 200
=============================================================================
