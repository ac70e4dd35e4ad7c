---------------------------- MODULE MCKeyStorage ----------------------------
(* KeyStorage for TLC. *)
EXTENDS KeyStorage

CONSTANTS k1, k2, k3

MCKeys == {k1, k2, k3}
=============================================================================
