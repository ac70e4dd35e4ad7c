----------------------------- MODULE MCReading ------------------------------
(* Reading for TLC: single verses and ranges at the start of a chapter and  *)
(* further on, and passages of three verses at most, with a verse twice,    *)
(* without it, without text or numbered 0, or of none; the shorter ones of  *)
(* the ESV also with a text before the first verse and further passages.    *)
EXTENDS Reading

MCNumbers == {1, 3}
MCTexts == {<<>>, <<101, 102>>}
MCSpeeds == {0, 1, 3}
MCVerse(n) == [n |-> n, t |-> <<101, 102>>]
MCShort == BoundedSeq({MCVerse(0), MCVerse(1)}, 2)
MCLong == BoundedSeq({MCVerse(1), MCVerse(3), [n |-> 3, t |-> <<>>]}, 3)
MCOffered ==
  [web : BOOLEAN, lead : {<<>>}, verses : MCLong \cup MCShort, more : {<<>>}]
    \cup [web : {FALSE}, lead : MCTexts, verses : MCShort, more : MCTexts]
=============================================================================
