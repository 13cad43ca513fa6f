----------------------------- MODULE MCSession ------------------------------
(* An instance of Session for TLC: two and a half seconds of two ticks,    *)
(* lifetimes that are off, below, at and beyond whole seconds.             *)
EXTENDS Session, TLC

MCLifetime == {0, 1, 2, 3}
MCClock == 0..4

UserSymmetry == Permutations(UserId) \union Permutations(Secret)
=============================================================================
