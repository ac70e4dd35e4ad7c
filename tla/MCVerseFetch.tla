---------------------------- MODULE MCVerseFetch ----------------------------
(* VerseFetch for TLC.  The verses: one that is read in a range, one whose  *)
(* range cannot be asked for, and one that is asked for as it is.           *)
EXTENDS VerseFetch

CONSTANTS verse, far, chapter, k1, k2

MCVerses == {verse, chapter}

MCRanges == {verse}
MCFarRanges == {verse, far}
MCNothing == {}
MCFar == {far}
MCOneChoice == {"esv"}
MCTwoChoices == {"esv", "web"}
MCOneKey == {k1}
MCTwoKeys == {k1, k2}
MCOneVerse == {verse}
MCFarVerses == {verse, far}
=============================================================================
