------------------------------- MODULE Paging -------------------------------
(* Pagination from both sides: one request for a page of a still list, and *)
(* a client that walks a changing one.                                     *)
EXTENDS PageWalk

CONSTANTS Params, Sizes  \* PageRequest's

(* A client sends integers, and a list has a length.                       *)
ASSUME RequestAssumption == Params \subseteq Int /\ Sizes \subseteq Nat

VARIABLES askedPage, askedLimit, size, reply, items  \* PageRequest's

R == INSTANCE PageRequest WITH page <- askedPage, limit <- askedLimit

(* The answer to a request is the page it asked for (PageRequest).         *)
AnswerIsThePage == R!AnswerIsThePage

(* Every page and limit of 1 or more is accepted (PageRequest).            *)
EveryPageAccepted == R!EveryPageAccepted
=============================================================================
