------------------------------ MODULE Fetcher ------------------------------
(***************************************************************************)
(* Fetcher (src/src/fetcher.cpp): HTTP requests over one                   *)
(* QNetworkAccessManager.  One reply is active at a time, but replies that *)
(* were replaced or aborted live on in Qt and still signal; all of them    *)
(* share one buffer and one failure text.  The slots run one at a time on  *)
(* the main thread, in the order Qt emits the signals, which is any order  *)
(* between replies and, within a reply, any order of readyRead, redirected *)
(* and, last, finished.                                                    *)
(*                                                                         *)
(* A byte is represented by the reply it came from and a failure text by   *)
(* what it says and the reply it was written for, so that a property can   *)
(* tell whose they are.  onFinished's test of the _aborted property is     *)
(* left out: only Fetcher::abort sets it, which clears m_activeReply       *)
(* first, so the reply it is set on is never the active one.               *)
(***************************************************************************)
EXTENDS Naturals, Sequences, FiniteSets

CONSTANTS Requests,     \* what a caller may ask for
          Sendable,     \* those that pass the checks on key, reference and URL
          Replies,      \* identities of QNetworkReply objects
          MaxBytes,     \* References::MAX_RESPONSE_BYTES
          MaxArrived,   \* bound: bytes the network delivers on one reply
          None

ASSUME FetcherAssumption ==
  /\ Sendable \subseteq Requests
  /\ MaxBytes \in Nat \ {0} /\ MaxArrived \in Nat

VARIABLES origin,       \* _tag and _kind: the request a reply was made for
          ended,        \* the replies whose finished signal has been emitted
          stopped,      \* those abort() was called on: no byte arrives any more
          arrived,      \* bytes a reply has received from the network
          unread,       \* those of them that were not read: bytesAvailable()
          active,       \* m_activeReply
          buffer,       \* m_buffer; m_received is its length
          failure,      \* m_failure
          result        \* the last esvResult or webResult emitted

qtVars == <<origin, ended, stopped, arrived, unread>>
vars == <<origin, ended, stopped, arrived, unread, active, buffer, failure, result>>

\* The error text of a result: none, a text set while reading, or one that
\* onFinished composes.
Errors == {"none", "redirect", "oversize", "http", "length", "canceled", "network", "invalid"}

Statuses == {0, 200, 404, 500}   \* 404 stands for 400, 404 and 422

Failures == [why : {"redirect", "oversize"}, reply : Replies]

Results == [request : Requests, error : Errors, status : Statuses,
            reply : Replies \cup {None}, body : Seq(Replies)]

\* None is none of the things it stands in for.
ASSUME NoneAssumption == None \notin Requests \cup Replies \cup Failures \cup Results

Alive(r) == origin[r] # None /\ r \notin ended

Refusal(q) ==
  [request |-> q, error |-> "invalid", status |-> 0, reply |-> None, body |-> <<>>]

Init ==
  /\ origin = [r \in Replies |-> None]
  /\ ended = {} /\ stopped = {}
  /\ arrived = [r \in Replies |-> 0] /\ unread = [r \in Replies |-> 0]
  /\ active = None /\ buffer = <<>> /\ failure = None /\ result = None
-----------------------------------------------------------------------------
(* Calls of the controller. *)

\* The tail of fetchEsv and fetchWeb: a new reply becomes the active one and
\* starts with an empty buffer and no failure.
StartReply(q, r) ==
  /\ origin[r] = None
  /\ origin' = [origin EXCEPT ![r] = q]
  /\ active' = r
  /\ buffer' = <<>>
  /\ failure' = None

Stopping == IF active = None THEN stopped ELSE stopped \cup {active}

\* Fetcher::abort empties the buffer only when it drops an active reply.
BufferAfterAbort == IF active = None THEN buffer ELSE <<>>

\* fetchEsv and fetchWeb, for a request that can be sent.
Fetch(q) ==
  /\ q \in Sendable
  /\ stopped' = Stopping
  /\ \E r \in Replies : StartReply(q, r)
  /\ UNCHANGED <<ended, arrived, unread, result>>

\* fetchEsv and fetchWeb, for one that cannot: the active reply is gone, and
\* m_failure stays as it was.
FetchInvalid(q) ==
  /\ q \notin Sendable
  /\ stopped' = Stopping
  /\ active' = None
  /\ buffer' = BufferAfterAbort
  /\ result' = Refusal(q)
  /\ UNCHANGED <<origin, ended, arrived, unread, failure>>

Abort ==
  /\ active # None
  /\ stopped' = Stopping
  /\ active' = None
  /\ buffer' = <<>>
  /\ UNCHANGED <<origin, ended, arrived, unread, failure, result>>
-----------------------------------------------------------------------------
(* The network, and the signals of a reply. *)

ByteArrives(r) ==
  /\ Alive(r) /\ r \notin stopped
  /\ arrived[r] < MaxArrived
  /\ arrived' = [arrived EXCEPT ![r] = @ + 1]
  /\ unread' = [unread EXCEPT ![r] = @ + 1]
  /\ UNCHANGED <<origin, ended, stopped, active, buffer, failure, result>>

\* Seeded fault: everything is read before the limit is looked at.
FaultReadable(r) == unread[r]

\* How much drain reads: all there is, but never more than one byte beyond
\* the limit, with which it knows that the limit is exceeded.
Readable(r) ==
  LET room == MaxBytes + 1 - Len(buffer)
  IN  IF unread[r] <= room THEN unread[r] ELSE room

\* What bytesAvailable counts, read returns: the loop's way out for an empty
\* chunk is not taken.
Filled(r) == buffer \o [i \in 1..Readable(r) |-> r]

\* Seeded fault: the byte beyond the limit is read and not complained of.
FaultFailureAfterDrain(r) == failure

FailureAfterDrain(r) ==
  IF Len(Filled(r)) > MaxBytes THEN [why |-> "oversize", reply |-> r] ELSE failure

\* drain, from readyRead: only for the active reply.
ReadyRead(r) ==
  /\ Alive(r) /\ unread[r] > 0
  /\ r = active
  /\ unread' = [unread EXCEPT ![r] = @ - Readable(r)]
  /\ buffer' = Filled(r)
  /\ failure' = FailureAfterDrain(r)
  /\ stopped' = IF Len(Filled(r)) > MaxBytes THEN stopped \cup {r} ELSE stopped
  /\ UNCHANGED <<origin, ended, arrived, active, result>>

\* The lambda on redirected: only for the active reply.
Redirected(r) ==
  /\ Alive(r) /\ r \notin stopped
  /\ r = active
  /\ failure' = [why |-> "redirect", reply |-> r]
  /\ stopped' = stopped \cup {r}
  /\ UNCHANGED <<origin, ended, arrived, unread, active, buffer, result>>

\* The error onFinished reports for data of this size, when reading set
\* failure f: a failure comes first, then the status, then Content-Length,
\* and what Qt reports of the transfer only when no status was received.
ErrorOf(f, status, declared, size, canceled) ==
  CASE f # None -> f.why
    [] f = None /\ status = 0 /\ canceled -> "canceled"
    [] f = None /\ status = 0 /\ ~canceled -> "network"
    [] f = None /\ status # 0 /\ status # 200 ->
         IF declared > 0 /\ declared # size THEN "length" ELSE "http"
    [] f = None /\ status = 200 ->
         IF declared > MaxBytes THEN "oversize"
         ELSE IF declared > 0 /\ declared # size THEN "length" ELSE "none"

\* The result emitted for reply r.  The body is kept for a result without an
\* error and for the statuses shouldRetryRange looks into.
Emitted(r, status, declared, canceled) ==
  LET error == ErrorOf(FailureAfterDrain(r), status, declared, Len(Filled(r)), canceled)
  IN  [request |-> origin[r], error |-> error, status |-> status, reply |-> r,
       body |-> IF error = "none" \/ status = 404 THEN Filled(r) ELSE <<>>]

\* finished of the active reply, up to the emission: what is left is read,
\* and the reply is no longer active when the slots run.  Qt may report any
\* status and any Content-Length (0: none given), and an operation as
\* canceled when abort() or the transfer timeout ended it.
Finish(r) ==
  /\ Alive(r) /\ r = active
  /\ ended' = ended \cup {r}
  /\ unread' = [unread EXCEPT ![r] = @ - Readable(r)]
  /\ UNCHANGED <<stopped, arrived>>

Finished(r, status, declared, canceled) ==
  /\ Finish(r)
  /\ active' = None
  /\ buffer' = <<>>
  /\ failure' = FailureAfterDrain(r)
  /\ result' = Emitted(r, status, declared, canceled)
  /\ UNCHANGED origin

\* ... and the slot it is delivered to sends another request, as the plain
\* retry does.
FinishedThenFetch(r, status, declared, canceled, q) ==
  /\ Finish(r)
  /\ q \in Sendable
  /\ result' = Emitted(r, status, declared, canceled)
  /\ \E n \in Replies : StartReply(q, n)

\* ... or asks for one that cannot be sent.
FinishedThenRefused(r, q) ==
  /\ Finish(r)
  /\ q \notin Sendable
  /\ active' = None
  /\ buffer' = <<>>
  /\ failure' = FailureAfterDrain(r)
  /\ result' = Refusal(q)
  /\ UNCHANGED origin

\* Seeded fault: the signal of a reply that is not active is taken for one
\* of the active reply.
FaultOrphanFinished(r) ==
  /\ Alive(r) /\ r # active
  /\ ended' = ended \cup {r}
  /\ result' = Emitted(r, 200, 0, FALSE)
  /\ UNCHANGED <<origin, stopped, arrived, unread, active, buffer, failure>>

\* finished of any other reply: nothing but its deletion.
OrphanFinished(r) ==
  /\ Alive(r) /\ r # active
  /\ ended' = ended \cup {r}
  /\ UNCHANGED <<origin, stopped, arrived, unread, active, buffer, failure, result>>

\* Seeded fault: onFinished has nothing to say of a reply it has stopped.
FaultOnFinished(r) ==
  \/ OrphanFinished(r)
  \/ /\ r \notin stopped
     /\ \E status \in Statuses, declared \in 0..MaxArrived, canceled \in BOOLEAN :
          Finished(r, status, declared, canceled)

OnFinished(r) ==
  \/ OrphanFinished(r)
  \/ \E status \in Statuses, declared \in 0..MaxArrived, canceled \in BOOLEAN :
       \/ Finished(r, status, declared, canceled)
       \/ \E q \in Requests : FinishedThenFetch(r, status, declared, canceled, q)
  \/ \E q \in Requests : FinishedThenRefused(r, q)

Next ==
  \/ \E q \in Requests : Fetch(q) \/ FetchInvalid(q)
  \/ Abort
  \/ \E r \in Replies : ByteArrives(r) \/ ReadyRead(r) \/ Redirected(r) \/ OnFinished(r)

Spec == Init /\ [][Next]_vars

\* Every request is given a transfer timeout (setTransferTimeout), so Qt ends
\* each reply whatever the server does.
Fairness == \A r \in Replies : WF_vars(OnFinished(r))

FairSpec == Spec /\ Fairness
-----------------------------------------------------------------------------
\* Every variable keeps its type; drain never fills m_buffer beyond the limit and
\* one byte.
TypeOK ==
  /\ origin \in [Replies -> Requests \cup {None}]
  /\ ended \subseteq Replies /\ stopped \subseteq Replies
  /\ arrived \in [Replies -> Nat] /\ unread \in [Replies -> Nat]
  /\ active \in Replies \cup {None}
  /\ buffer \in Seq(Replies) /\ Len(buffer) <= MaxBytes + 1
  /\ failure \in Failures \cup {None}
  /\ result \in Results \cup {None}

\* Replies share one buffer and one failure text, and a replaced reply keeps
\* signalling.  Whatever the order of its signals, while a reply is active
\* every byte in the buffer and the failure text are that reply's own.
OwnedByActive ==
  active # None =>
    /\ active \notin ended
    /\ \A i \in 1..Len(buffer) : buffer[i] = active
    /\ failure # None => failure.reply = active

\* A result without an error carries the whole answer to its own request:
\* every byte that arrived on its reply, none of another's, and within the
\* limit; the chunk still unread when finished arrives is not lost.  (A server
\* that gives no Content-Length may have had more to send: of a reply with
\* status 200 the error of the transfer is not looked at.)
BodyIsWhole ==
  result # None /\ result.error = "none" =>
    /\ origin[result.reply] = result.request
    /\ Len(result.body) = arrived[result.reply]
    /\ Len(result.body) <= MaxBytes
    /\ \A i \in 1..Len(result.body) : result.body[i] = result.reply

\* A request the controller waits for comes to an end, in an answer or by
\* being replaced: no signal order leaves a finished reply active.
Settles == \A r \in Replies : active = r ~> active # r
-----------------------------------------------------------------------------
\* To the controller all this is a FetchService: the outstanding request is
\* the active reply's, and an error text is an outcome.
Service == INSTANCE FetchService WITH
  Outcomes <- Errors \ {"invalid"},
  Refused <- "invalid",
  request <- IF active = None THEN None ELSE origin[active],
  result <- IF result = None THEN None
            ELSE [request |-> result.request, outcome |-> result.error]

\* The fetcher does nothing a FetchService may not do.
ServiceSpec == Service!Spec
=============================================================================
