------------------------------- MODULE Lists --------------------------------
(***************************************************************************)
(* What the loops over lists in this program do that keep some of the      *)
(* elements: favorites.cpp, references.cpp and passage_cache.cpp have one  *)
(* each.  SelectSeq would say the same; of Kept it can be proved.          *)
(***************************************************************************)
EXTENDS Naturals, Sequences

\* The elements of s that are in T, in their order.
Kept(s, T) ==
  LET kept[i \in 0..Len(s)] ==
        IF i = 0 THEN <<>>
        ELSE IF s[i] \in T THEN Append(kept[i - 1], s[i]) ELSE kept[i - 1]
  IN  kept[Len(s)]
=============================================================================
