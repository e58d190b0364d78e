------------------------------- MODULE MCBuddy -------------------------------
(* Four processes sharing eight bytes: every mix of block sizes, from the  *)
(* empty request to the whole memory, and every order of release.          *)
EXTENDS BuddyCode, TLC

MCSpans == {1, 2, 4, 8, 16}
MCSymmetry == Permutations(Procs)
=============================================================================
