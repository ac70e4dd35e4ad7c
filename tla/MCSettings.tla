----------------------------- MODULE MCSettings -----------------------------
(* Settings for TLC. *)
EXTENDS Settings

CONSTANTS k1, k2, k3, t1, small, large

MCKeys == {k1, k2, k3}
MCTimes == {t1}
MCLooks == {small, large}
=============================================================================
