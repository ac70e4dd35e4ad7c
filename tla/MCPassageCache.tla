--------------------------- MODULE MCPassageCache ---------------------------
(* PassageCache for TLC: one lookup more than the file has room for, and   *)
(* sizes that fill the file exactly, by one byte less or by one too many.  *)
EXTENDS PassageCache

CONSTANTS a, b, c

MCLookupKeys == {a, b, c}
MCSizes == {1, 2, 3}
=============================================================================
