---------------------------- MODULE MCKeepsakes -----------------------------
(* Keepsakes for TLC: one reference more than the list takes, and one card  *)
(* more than a save keeps.                                                  *)
EXTENDS Keepsakes

CONSTANTS r1, r2, r3, c1, c2, c3

MCRefs == {r1, r2, r3}
MCContents == {c1, c2, c3}

\* Neither references nor cards are told apart.
MCSymmetry == Permutations(MCRefs) \cup Permutations(MCContents)
=============================================================================
