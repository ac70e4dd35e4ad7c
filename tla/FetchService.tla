---------------------------- MODULE FetchService ----------------------------
(***************************************************************************)
(* What a Fetcher (src/src/fetcher.cpp) promises the controller that uses  *)
(* it, with the network left out: one request is outstanding at most,      *)
(* asking again replaces it, aborting forgets it, and every answer is the  *)
(* answer to the request that is outstanding when it is delivered.  The    *)
(* slot an answer is delivered to may ask again before it returns; that is *)
(* part of the same step.  Fetcher implements this module and VerseFetch   *)
(* is a client of it.                                                      *)
(***************************************************************************)
CONSTANTS Requests,     \* what may be asked for
          Sendable,     \* the requests that pass the checks made before sending
          Outcomes,     \* how a request that was sent may end
          Refused,      \* how one that was not sent ends: "invalid verse request"
          None

VARIABLES request,      \* the outstanding request, or None
          result        \* the last answer delivered: a request and its outcome

vars == <<request, result>>

\* What is outstanding could be sent, and what was answered was asked for.
TypeOK ==
  /\ request \in Sendable \cup {None}
  /\ result \in [request : Requests, outcome : Outcomes \cup {Refused}] \cup {None}

Init == request = None /\ result = None

\* A request is sent; an outstanding one is dropped and never answered.
Send ==
  /\ request' \in Sendable
  /\ UNCHANGED result

\* A request that cannot be sent drops the outstanding one all the same,
\* and is answered before the call returns.  When it is made by the slot that
\* hears an answer, the refusal is the last answer of that step.
Refuse ==
  /\ request' = None
  /\ result' \in [request : Requests \ Sendable, outcome : {Refused}]

Abort ==
  /\ request' = None
  /\ UNCHANGED result

\* The outstanding request ends, with the answer to it and to no other one;
\* the slot that hears of it may send the next request.
Answer ==
  /\ request # None
  /\ result' \in [request : {request}, outcome : Outcomes]
  /\ request' \in Sendable \cup {None}

Next == Send \/ Refuse \/ Abort \/ Answer

Spec == Init /\ [][Next]_vars
=============================================================================
