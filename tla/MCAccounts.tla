----------------------------- MODULE MCAccounts -----------------------------
(* Two addresses, one of them in three spellings, and a password at each   *)
(* side of the limits: too short, at the lower bound, and 72 characters    *)
(* of two bytes each.                                                      *)
EXTENDS Accounts, TLC

CONSTANT seed  \* the user of migrations/000002

MCUserId == Req \union {seed}
MCSpelling == {"Ada@x", "ada@x", " ada@x ", "test@x"}
MCCanon == [e \in MCSpelling |-> IF e \in {"Ada@x", " ada@x "} THEN "ada@x" ELSE e]

MCWellFormed == MCSpelling \ {" ada@x "}

MCPassword == {"short", "plain", "wide"}
MCRuneCount == [short |-> 7, plain |-> 8, wide |-> 72]
MCByteCount == [short |-> 7, plain |-> 8, wide |-> 144]
MCDigest == [p \in MCPassword |-> p]

Seed == {[id |-> seed, email |-> "test@x", hash |-> "plain"]}

ReqSymmetry == Permutations(Req)
=============================================================================
