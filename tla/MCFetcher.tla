----------------------------- MODULE MCFetcher -----------------------------
(* Fetcher for TLC: two replies, two requests that can be sent and one that *)
(* cannot.                                                                 *)
EXTENDS Fetcher

CONSTANTS q1, q2, bad, r1, r2

MCRequests == {q1, q2, bad}
MCSendable == {q1, q2}
MCReplies == {r1, r2}
=============================================================================
