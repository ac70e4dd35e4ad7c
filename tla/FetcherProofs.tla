--------------------------- MODULE FetcherProofs ---------------------------
(***************************************************************************)
(* What Fetcher keeps invariant, and that it is a FetchService, for every  *)
(* number of replies and every size limit.                                 *)
(***************************************************************************)
EXTENDS Fetcher, SequenceTheorems, TLAPS

-----------------------------------------------------------------------------
(* Reading a reply. *)

\* drain takes no more than there is and no more than the limit plus one
\* byte, appends it to the buffer, and leaves nothing unread unless the limit
\* is exceeded.
LEMMA DrainFacts ==
  ASSUME TypeOK, NEW r \in Replies
  PROVE  /\ Readable(r) \in Nat /\ Readable(r) <= unread[r]
         /\ Filled(r) \in Seq(Replies)
         /\ Len(Filled(r)) = Len(buffer) + Readable(r)
         /\ Len(Filled(r)) <= MaxBytes + 1
         /\ Len(Filled(r)) <= MaxBytes => Readable(r) = unread[r]
         /\ \A i \in 1..Len(Filled(r)) :
              Filled(r)[i] = r \/ (i \in 1..Len(buffer) /\ Filled(r)[i] = buffer[i])
<1> DEFINE chunk == [i \in 1..Readable(r) |-> r]
<1>1. /\ unread[r] \in Nat /\ MaxBytes \in Nat /\ buffer \in Seq(Replies)
      /\ Len(buffer) \in Nat /\ Len(buffer) <= MaxBytes + 1
  BY FetcherAssumption DEF TypeOK
<1>2. /\ Readable(r) \in Nat /\ Readable(r) <= unread[r]
      /\ Len(buffer) + Readable(r) <= MaxBytes + 1
      /\ Len(buffer) + Readable(r) <= MaxBytes => Readable(r) = unread[r]
  BY <1>1 DEF Readable
<1>3. chunk \in Seq(Replies) /\ Len(chunk) = Readable(r)
  BY <1>2
<1>4. \A i \in 1..Len(chunk) : chunk[i] = r
  BY <1>3
<1>5. Filled(r) = buffer \o chunk
  BY DEF Filled
<1> HIDE DEF chunk
<1>6. /\ Filled(r) \in Seq(Replies) /\ Len(Filled(r)) = Len(buffer) + Len(chunk)
      /\ \A i \in 1..Len(buffer) + Len(chunk) :
           Filled(r)[i] = IF i <= Len(buffer) THEN buffer[i] ELSE chunk[i - Len(buffer)]
  <2>1. /\ buffer \o chunk \in Seq(Replies)
        /\ Len(buffer \o chunk) = Len(buffer) + Len(chunk)
        /\ \A i \in 1..Len(buffer) + Len(chunk) :
             (buffer \o chunk)[i] = IF i <= Len(buffer) THEN buffer[i] ELSE chunk[i - Len(buffer)]
    BY <1>1, <1>3, ConcatProperties, Zenon
  <2> QED
    BY <1>5, <2>1, Zenon
<1>7. \A i \in 1..Len(Filled(r)) :
        Filled(r)[i] = r \/ (i \in 1..Len(buffer) /\ Filled(r)[i] = buffer[i])
  <2> TAKE i \in 1..Len(Filled(r))
  <2>1. CASE i <= Len(buffer)
    BY <1>1, <1>6, <2>1
  <2>2. CASE ~(i <= Len(buffer))
    <3>1. i - Len(buffer) \in 1..Len(chunk)
      BY <1>1, <1>2, <1>3, <1>6, <2>2
    <3>2. Filled(r)[i] = chunk[i - Len(buffer)]
      BY <1>6, <2>2, Zenon
    <3> QED
      BY <1>4, <3>1, <3>2, Zenon
  <2> QED
    BY <2>1, <2>2
<1> QED
  BY <1>2, <1>3, <1>6, <1>7

\* onFinished composes an error for every answer, and none only when reading
\* went well; what it emits is a result.
LEMMA EmittedFacts ==
  ASSUME TypeOK, NEW r \in Replies, origin[r] # None,
         NEW status \in Statuses, NEW declared \in 0..MaxArrived, NEW canceled \in BOOLEAN
  PROVE  LET e == Emitted(r, status, declared, canceled)
         IN  /\ e \in [request : Requests, error : Errors \ {"invalid"}, status : Statuses,
                       reply : Replies, body : Seq(Replies)]
             /\ e.request = origin[r] /\ e.reply = r
             /\ e.error = "none" => e.body = Filled(r) /\ FailureAfterDrain(r) = None
<1> DEFINE f == FailureAfterDrain(r)
           error == ErrorOf(f, status, declared, Len(Filled(r)), canceled)
<1>1. f \in Failures \cup {None}
  BY DEF TypeOK, FailureAfterDrain, Failures
<1>2. error \in Errors \ {"invalid"} /\ (error = "none" => f = None)
  <2> HIDE DEF f
  <2>1. CASE f # None
    <3>1. error = f.why
      BY <2>1 DEF ErrorOf
    <3> QED
      BY <1>1, <2>1, <3>1 DEF Errors, Failures
  <2>2. ASSUME f = None
        PROVE  error \in {"oversize", "http", "length", "canceled", "network", "none"}
    <3>1. CASE status = 0
      <4>1. CASE canceled
        BY <2>2, <3>1, <4>1 DEF ErrorOf
      <4>2. CASE ~canceled
        BY <2>2, <3>1, <4>2 DEF ErrorOf
      <4> QED
        BY <4>1, <4>2
    <3>2. CASE status = 200
      BY <2>2, <3>2 DEF ErrorOf
    <3>3. CASE status # 0 /\ status # 200
      BY <2>2, <3>3 DEF ErrorOf
    <3> QED
      BY <3>1, <3>2, <3>3
  <2> QED
    BY <2>1, <2>2 DEF Errors
<1>3. Emitted(r, status, declared, canceled) =
        [request |-> origin[r], error |-> error, status |-> status, reply |-> r,
         body |-> IF error = "none" \/ status = 404 THEN Filled(r) ELSE <<>>]
  BY DEF Emitted
<1>4. origin[r] \in Requests /\ Filled(r) \in Seq(Replies)
  BY DrainFacts DEF TypeOK
<1> HIDE DEF f, error
<1>5. (IF error = "none" \/ status = 404 THEN Filled(r) ELSE <<>>) \in Seq(Replies)
  BY <1>4
<1> QED
  BY <1>2, <1>3, <1>4, <1>5 DEF f
-----------------------------------------------------------------------------
(* What the invariants rest on. *)

\* The active reply has not finished, was made for a request that can be sent,
\* and every byte it received is in the buffer or waits to be read.
Counted ==
  active # None =>
    /\ active \notin ended /\ origin[active] \in Sendable
    /\ Len(buffer) + unread[active] = arrived[active]

\* A reply that was not made yet has done nothing.
Untouched ==
  \A r \in Replies : origin[r] = None => r \notin ended /\ arrived[r] = 0 /\ unread[r] = 0

\* The reply of a result without an error is over, so what arrived on it and
\* what it was made for do not change any more.
ResultIsPast ==
  result # None /\ result.error = "none" => result.reply \in ended

\* The signal finished of the active reply, whatever its slot does next.
FinishedActive(r) ==
  \E status \in Statuses, declared \in 0..MaxArrived, canceled \in BOOLEAN :
    \/ Finished(r, status, declared, canceled)
    \/ \E q \in Requests : FinishedThenFetch(r, status, declared, canceled, q)

\* The actions a step may be, each with its parameters.
LEMMA Steps ==
  ASSUME [Next]_vars
  PROVE  \/ \E q \in Requests : Fetch(q) \/ FetchInvalid(q)
         \/ Abort
         \/ \E r \in Replies : \/ ByteArrives(r) \/ ReadyRead(r) \/ Redirected(r)
                               \/ OrphanFinished(r) \/ FinishedActive(r)
                               \/ \E q \in Requests : FinishedThenRefused(r, q)
         \/ UNCHANGED vars
BY DEF Next, OnFinished, FinishedActive

\* A new reply has the types of a reply.
LEMMA StartReplyTypes ==
  ASSUME TypeOK, NEW q \in Requests, NEW r \in Replies, StartReply(q, r)
  PROVE  /\ origin' \in [Replies -> Requests \cup {None}] /\ active' \in Replies
         /\ buffer' = <<>> /\ buffer' \in Seq(Replies) /\ Len(buffer') = 0 /\ failure' = None
BY DEF TypeOK, StartReply

\* The refusal of a request is a result.
LEMMA RefusalTypes ==
  ASSUME NEW q \in Requests
  PROVE  Refusal(q) \in Results
BY DEF Refusal, Results, Errors, Statuses

\* Every step keeps the types.
LEMMA TypeStep ==
  ASSUME TypeOK, [Next]_vars
  PROVE  TypeOK'
<1> USE FetcherAssumption
<1>1. ASSUME NEW q \in Requests, Fetch(q) PROVE TypeOK'
  <2>1. PICK r \in Replies : StartReply(q, r)
    BY <1>1 DEF Fetch
  <2>2. stopped' \subseteq Replies
    BY <1>1 DEF Fetch, Stopping, TypeOK
  <2>3. /\ origin' \in [Replies -> Requests \cup {None}] /\ active' \in Replies
        /\ buffer' \in Seq(Replies) /\ Len(buffer') = 0 /\ failure' = None
    BY <2>1, StartReplyTypes
  <2> QED
    BY <1>1, <2>2, <2>3 DEF Fetch, TypeOK
<1>2. ASSUME NEW q \in Requests, FetchInvalid(q) PROVE TypeOK'
  <2>1. stopped' \subseteq Replies
    BY <1>2 DEF FetchInvalid, Stopping, TypeOK
  <2>2. buffer' \in Seq(Replies) /\ Len(buffer') <= MaxBytes + 1
    BY <1>2 DEF FetchInvalid, BufferAfterAbort, TypeOK
  <2> QED
    BY <1>2, <2>1, <2>2, RefusalTypes DEF FetchInvalid, TypeOK
<1>3. CASE Abort
  BY <1>3 DEF Abort, Stopping, TypeOK
<1>4. ASSUME NEW r \in Replies PROVE FailureAfterDrain(r) \in Failures \cup {None}
  BY DEF FailureAfterDrain, Failures, TypeOK
<1>5. ASSUME NEW r \in Replies PROVE [unread EXCEPT ![r] = @ - Readable(r)] \in [Replies -> Nat]
  <2>1. unread[r] \in Nat /\ Readable(r) \in Nat /\ Readable(r) <= unread[r]
    BY DrainFacts, Zenon DEF TypeOK
  <2>2. unread[r] - Readable(r) \in Nat
    BY <2>1
  <2> QED
    BY <2>2 DEF TypeOK
<1>6. ASSUME NEW r \in Replies, ByteArrives(r) PROVE TypeOK'
  BY <1>6 DEF ByteArrives, TypeOK
<1>7. ASSUME NEW r \in Replies, ReadyRead(r) PROVE TypeOK'
  <2>1. buffer' \in Seq(Replies) /\ Len(buffer') <= MaxBytes + 1
    BY <1>7, DrainFacts DEF ReadyRead
  <2>2. stopped' \subseteq Replies
    BY <1>7 DEF ReadyRead, TypeOK
  <2>3. /\ failure' \in Failures \cup {None}
        /\ unread' \in [Replies -> Nat]
    BY <1>4, <1>5, <1>7 DEF ReadyRead
  <2>4. UNCHANGED <<origin, ended, arrived, active, result>>
    BY <1>7 DEF ReadyRead
  <2> QED
    BY <2>1, <2>2, <2>3, <2>4 DEF TypeOK
<1>8. ASSUME NEW r \in Replies, Redirected(r) PROVE TypeOK'
  BY <1>8 DEF Redirected, Failures, TypeOK
<1>9. ASSUME NEW r \in Replies, OrphanFinished(r) PROVE TypeOK'
  BY <1>9 DEF OrphanFinished, TypeOK
<1>10. ASSUME NEW r \in Replies, Finish(r) PROVE
         /\ origin[r] # None
         /\ ended' \subseteq Replies /\ stopped' \subseteq Replies
         /\ arrived' \in [Replies -> Nat] /\ unread' \in [Replies -> Nat]
  BY <1>5, <1>10 DEF Finish, Alive, TypeOK
<1>11. ASSUME NEW r \in Replies, FinishedActive(r) PROVE TypeOK'
  <2>1. PICK status \in Statuses, declared \in 0..MaxArrived, canceled \in BOOLEAN :
          \/ Finished(r, status, declared, canceled)
          \/ \E q \in Requests : FinishedThenFetch(r, status, declared, canceled, q)
    BY <1>11 DEF FinishedActive
  <2>2. Finish(r) /\ result' = Emitted(r, status, declared, canceled)
    BY <2>1 DEF Finished, FinishedThenFetch
  <2>3. result' \in Results
    <3>1. origin[r] # None
      BY <1>10, <2>2
    <3>2. result' \in [request : Requests, error : Errors \ {"invalid"}, status : Statuses,
                       reply : Replies, body : Seq(Replies)]
      BY <2>2, <3>1, EmittedFacts, Zenon
    <3> QED
      BY <3>2 DEF Results
  <2>4. CASE Finished(r, status, declared, canceled)
    BY <1>4, <1>10, <2>2, <2>3, <2>4 DEF Finished, TypeOK
  <2>5. ASSUME NEW q \in Requests, FinishedThenFetch(r, status, declared, canceled, q)
        PROVE  TypeOK'
    <3>1. PICK n \in Replies : StartReply(q, n)
      BY <2>5 DEF FinishedThenFetch
    <3>2. /\ origin' \in [Replies -> Requests \cup {None}] /\ active' \in Replies
          /\ buffer' \in Seq(Replies) /\ Len(buffer') = 0 /\ failure' = None
      BY <3>1, StartReplyTypes
    <3>3. Len(buffer') <= MaxBytes + 1
      BY <3>2
    <3>4. /\ ended' \subseteq Replies /\ stopped' \subseteq Replies
          /\ arrived' \in [Replies -> Nat] /\ unread' \in [Replies -> Nat]
      BY <1>10, <2>2
    <3> QED
      BY <2>3, <3>2, <3>3, <3>4 DEF TypeOK
  <2> QED
    BY <2>1, <2>4, <2>5
<1>12. ASSUME NEW r \in Replies, NEW q \in Requests, FinishedThenRefused(r, q) PROVE TypeOK'
  BY <1>4, <1>10, <1>12, RefusalTypes DEF FinishedThenRefused, TypeOK
<1>13. CASE UNCHANGED vars
  BY <1>13 DEF vars, TypeOK
<1> QED
  BY <1>1, <1>2, <1>3, <1>6, <1>7, <1>8, <1>9, <1>11, <1>12, <1>13, Steps

-----------------------------------------------------------------------------
(* The life of a reply. *)

\* What a reply was made for never changes, nothing happens to a reply that
\* was not made, and nothing arrives on one that is over.
LEMMA Lifecycle ==
  ASSUME TypeOK, [Next]_vars, NEW r \in Replies
  PROVE  /\ origin[r] # None => origin'[r] = origin[r]
         /\ origin[r] = None => /\ r \in ended' => r \in ended
                                /\ arrived'[r] = arrived[r] /\ unread'[r] = unread[r]
         /\ r \in ended => r \in ended' /\ arrived'[r] = arrived[r]
<1>1. ASSUME NEW q \in Requests, NEW n \in Replies, StartReply(q, n)
      PROVE  origin[r] # None => origin'[r] = origin[r]
  BY <1>1 DEF StartReply, TypeOK
<1>2. CASE \E q \in Requests : Fetch(q)
  BY <1>1, <1>2 DEF Fetch
<1>3. CASE Abort \/ (\E q \in Requests : FetchInvalid(q)) \/ UNCHANGED vars
  BY <1>3 DEF Abort, FetchInvalid, vars
<1>4. ASSUME NEW s \in Replies, \/ ByteArrives(s) \/ ReadyRead(s) \/ Redirected(s)
                                \/ OrphanFinished(s)
      PROVE  /\ origin' = origin
             /\ origin[r] = None => /\ r \in ended' => r \in ended
                                    /\ arrived'[r] = arrived[r] /\ unread'[r] = unread[r]
             /\ r \in ended => r \in ended' /\ arrived'[r] = arrived[r]
  BY <1>4 DEF ByteArrives, ReadyRead, Redirected, OrphanFinished, Alive, TypeOK
<1>5. ASSUME NEW s \in Replies, Finish(s)
      PROVE  /\ origin[r] = None => /\ r \in ended' => r \in ended
                                    /\ arrived'[r] = arrived[r] /\ unread'[r] = unread[r]
             /\ r \in ended => r \in ended' /\ arrived'[r] = arrived[r]
  BY <1>5 DEF Finish, Alive, TypeOK
<1>6. ASSUME NEW s \in Replies, FinishedActive(s)
      PROVE  Finish(s) /\ (origin[r] # None => origin'[r] = origin[r])
  BY <1>1, <1>6 DEF FinishedActive, Finished, FinishedThenFetch
<1>7. ASSUME NEW s \in Replies, NEW q \in Requests, FinishedThenRefused(s, q)
      PROVE  Finish(s) /\ origin' = origin
  BY <1>7 DEF FinishedThenRefused
<1> QED
  BY <1>2, <1>3, <1>4, <1>5, <1>6, <1>7, Steps

\* Every step keeps Untouched, as only StartReply makes a reply.
LEMMA UntouchedStep ==
  ASSUME TypeOK, Untouched, [Next]_vars
  PROVE  Untouched'
<1> SUFFICES ASSUME NEW r \in Replies, origin'[r] = None
             PROVE  r \notin ended' /\ arrived'[r] = 0 /\ unread'[r] = 0
  BY DEF Untouched
<1>1. origin[r] = None
  BY Lifecycle
<1> QED
  BY <1>1, Lifecycle DEF Untouched

\* A reply that becomes active starts with nothing read and nothing unread.
LEMMA FreshIsCounted ==
  ASSUME TypeOK, Untouched, NEW q \in Sendable, NEW n \in Replies, StartReply(q, n),
         n \notin ended', arrived'[n] = 0, unread'[n] = 0
  PROVE  Counted'
<1>1. q \in Requests /\ q # None
  BY FetcherAssumption, NoneAssumption
<1>2. origin'[n] = q /\ active' = n /\ Len(buffer') = 0
  BY <1>1 DEF StartReply, TypeOK
<1> QED
  BY <1>2 DEF Counted

\* Every step keeps Counted: bytes move from the network to the unread ones, and
\* from there to the buffer.
LEMMA CountedStep ==
  ASSUME TypeOK, Untouched, Counted, [Next]_vars
  PROVE  Counted'
<1>1. ASSUME active' = None PROVE Counted'
  BY <1>1 DEF Counted
<1>2. ASSUME NEW q \in Requests, Fetch(q) PROVE Counted'
  <2>1. PICK n \in Replies : StartReply(q, n)
    BY <1>2 DEF Fetch
  <2>2. q \in Sendable /\ n \notin ended' /\ arrived'[n] = 0 /\ unread'[n] = 0
    BY <1>2, <2>1 DEF Fetch, StartReply, Untouched
  <2> QED
    BY <2>1, <2>2, FreshIsCounted
<1>3. ASSUME NEW q \in Requests, FetchInvalid(q) PROVE Counted'
  BY <1>1, <1>3 DEF FetchInvalid
<1>4. CASE Abort
  BY <1>1, <1>4 DEF Abort
<1>5. ASSUME NEW r \in Replies, ByteArrives(r) PROVE Counted'
  <2>1. UNCHANGED <<origin, ended, buffer, active>>
    BY <1>5 DEF ByteArrives
  <2>2. ASSUME active # None PROVE Len(buffer) + unread'[active] = arrived'[active]
    <3>1. active \in Replies /\ arrived[active] \in Nat /\ unread[active] \in Nat /\ Len(buffer) \in Nat
      BY <2>2 DEF TypeOK
    <3>2. CASE active = r
      <4>1. arrived'[active] = arrived[active] + 1 /\ unread'[active] = unread[active] + 1
        BY <1>5, <3>2 DEF ByteArrives, TypeOK
      <4> QED
        BY <2>2, <3>1, <4>1 DEF Counted
    <3>3. CASE active # r
      BY <1>5, <2>2, <3>1, <3>3 DEF ByteArrives, TypeOK, Counted
    <3> QED
      BY <3>2, <3>3
  <2> QED
    BY <2>1, <2>2 DEF Counted
<1>6. ASSUME NEW r \in Replies, ReadyRead(r) PROVE Counted'
  <2>1. /\ active = r /\ UNCHANGED <<origin, ended, arrived, active>>
        /\ unread'[r] = unread[r] - Readable(r) /\ buffer' = Filled(r)
    BY <1>6 DEF ReadyRead, TypeOK
  <2>2. active # None
    BY <2>1, FetcherAssumption, NoneAssumption
  <2>3. Len(buffer') = Len(buffer) + Readable(r) /\ Readable(r) \in Nat
    BY <2>1, DrainFacts
  <2>4. unread[r] \in Nat /\ Len(buffer) \in Nat
    BY DEF TypeOK
  <2>5. Len(buffer') + unread'[r] = Len(buffer) + unread[r]
    BY <2>1, <2>3, <2>4
  <2> QED
    BY <2>1, <2>2, <2>5 DEF Counted
<1>7. ASSUME NEW r \in Replies, Redirected(r) \/ OrphanFinished(r) PROVE Counted'
  BY <1>7 DEF Redirected, OrphanFinished, Counted
<1>8. ASSUME NEW r \in Replies, FinishedActive(r) PROVE Counted'
  <2>1. PICK status \in Statuses, declared \in 0..MaxArrived, canceled \in BOOLEAN :
          \/ Finished(r, status, declared, canceled)
          \/ \E q \in Requests : FinishedThenFetch(r, status, declared, canceled, q)
    BY <1>8 DEF FinishedActive
  <2>2. CASE Finished(r, status, declared, canceled)
    BY <1>1, <2>2 DEF Finished
  <2>3. ASSUME NEW q \in Requests, FinishedThenFetch(r, status, declared, canceled, q)
        PROVE  Counted'
    <3>1. PICK n \in Replies : StartReply(q, n)
      BY <2>3 DEF FinishedThenFetch
    <3>2. q \in Sendable /\ Finish(r) /\ n # r
      BY <2>3, <3>1 DEF FinishedThenFetch, Finish, Alive, StartReply
    <3>3. n \notin ended' /\ arrived'[n] = 0 /\ unread'[n] = 0
      BY <3>1, <3>2 DEF Finish, StartReply, Untouched, TypeOK
    <3> QED
      BY <3>1, <3>2, <3>3, FreshIsCounted
  <2> QED
    BY <2>1, <2>2, <2>3
<1>9. ASSUME NEW r \in Replies, NEW q \in Requests, FinishedThenRefused(r, q) PROVE Counted'
  BY <1>1, <1>9 DEF FinishedThenRefused
<1>10. CASE UNCHANGED vars
  BY <1>10 DEF vars, Counted
<1> QED
  BY <1>2, <1>3, <1>4, <1>5, <1>6, <1>7, <1>8, <1>9, <1>10, Steps

-----------------------------------------------------------------------------
(* The buffer and the failure text belong to the active reply. *)

\* Every step keeps OwnedByActive: StartReply empties the buffer, and only the
\* active reply is drained into it.
LEMMA OwnedStep ==
  ASSUME TypeOK, Counted, Untouched, OwnedByActive, [Next]_vars
  PROVE  OwnedByActive'
<1>1. ASSUME active' = None PROVE OwnedByActive'
  BY <1>1 DEF OwnedByActive
<1>2. ASSUME NEW q \in Requests, NEW n \in Replies, StartReply(q, n), n \notin ended'
      PROVE  OwnedByActive'
  <2>1. active' = n /\ buffer' = <<>> /\ failure' = None
    BY <1>2 DEF StartReply
  <2>2. 1..Len(buffer') = {}
    BY <2>1
  <2> QED
    BY <1>2, <2>1, <2>2 DEF OwnedByActive
<1>3. CASE \E q \in Requests : Fetch(q)
  BY <1>2, <1>3 DEF Fetch, StartReply, Untouched
<1>4. CASE Abort \/ \E q \in Requests : FetchInvalid(q)
  BY <1>1, <1>4 DEF Abort, FetchInvalid
<1>5. ASSUME NEW r \in Replies, ReadyRead(r) PROVE OwnedByActive'
  <2>1. active = r /\ active' = r /\ buffer' = Filled(r) /\ ended' = ended
    BY <1>5 DEF ReadyRead
  <2>2. active # None
    BY <2>1, FetcherAssumption, NoneAssumption
  <2>3. \A i \in 1..Len(buffer') : buffer'[i] = active'
    BY <2>1, <2>2, DrainFacts DEF OwnedByActive
  <2>4. failure' # None => failure'.reply = active'
    BY <1>5, <2>1, <2>2 DEF ReadyRead, FailureAfterDrain, OwnedByActive
  <2> QED
    BY <2>1, <2>2, <2>3, <2>4 DEF OwnedByActive
<1>6. ASSUME NEW r \in Replies, Redirected(r) PROVE OwnedByActive'
  BY <1>6, FetcherAssumption, NoneAssumption DEF Redirected, OwnedByActive
<1>7. ASSUME NEW r \in Replies, ByteArrives(r) \/ OrphanFinished(r) PROVE OwnedByActive'
  BY <1>7 DEF ByteArrives, OrphanFinished, OwnedByActive
<1>8. ASSUME NEW r \in Replies, FinishedActive(r) PROVE OwnedByActive'
  <2>1. PICK status \in Statuses, declared \in 0..MaxArrived, canceled \in BOOLEAN :
          \/ Finished(r, status, declared, canceled)
          \/ \E q \in Requests : FinishedThenFetch(r, status, declared, canceled, q)
    BY <1>8 DEF FinishedActive
  <2>2. CASE Finished(r, status, declared, canceled)
    BY <1>1, <2>2 DEF Finished
  <2>3. ASSUME NEW q \in Requests, FinishedThenFetch(r, status, declared, canceled, q)
        PROVE  OwnedByActive'
    <3>1. PICK n \in Replies : StartReply(q, n)
      BY <2>3 DEF FinishedThenFetch
    <3>2. n \notin ended'
      BY <2>3, <3>1 DEF FinishedThenFetch, Finish, Alive, StartReply, Untouched
    <3> QED
      BY <1>2, <3>1, <3>2
  <2> QED
    BY <2>1, <2>2, <2>3
<1>9. CASE \E r \in Replies, q \in Requests : FinishedThenRefused(r, q)
  BY <1>1, <1>9 DEF FinishedThenRefused
<1>10. CASE UNCHANGED vars
  BY <1>10 DEF vars, OwnedByActive
<1> QED
  BY <1>3, <1>4, <1>5, <1>6, <1>7, <1>8, <1>9, <1>10, Steps

-----------------------------------------------------------------------------
(* Results. *)

\* A result stays as it is, or the active reply finished, or a request was
\* refused.
LEMMA ResultSteps ==
  ASSUME [Next]_vars
  PROVE  \/ result' = result
         \/ \E q \in Requests : result' = Refusal(q)
         \/ \E r \in Replies, status \in Statuses, declared \in 0..MaxArrived,
               canceled \in BOOLEAN :
              Finish(r) /\ result' = Emitted(r, status, declared, canceled)
<1>1. ASSUME NEW q \in Requests, Fetch(q) \/ FetchInvalid(q)
      PROVE  result' = result \/ result' = Refusal(q)
  BY <1>1 DEF Fetch, FetchInvalid
<1>2. ASSUME NEW r \in Replies, \/ ByteArrives(r) \/ ReadyRead(r) \/ Redirected(r)
                                \/ OrphanFinished(r)
      PROVE  result' = result
  BY <1>2 DEF ByteArrives, ReadyRead, Redirected, OrphanFinished
<1>3. ASSUME NEW r \in Replies, FinishedActive(r)
      PROVE  \E status \in Statuses, declared \in 0..MaxArrived, canceled \in BOOLEAN :
               Finish(r) /\ result' = Emitted(r, status, declared, canceled)
  BY <1>3 DEF FinishedActive, Finished, FinishedThenFetch
<1>4. ASSUME NEW r \in Replies, NEW q \in Requests, FinishedThenRefused(r, q)
      PROVE  result' = Refusal(q)
  BY <1>4 DEF FinishedThenRefused
<1>5. CASE Abort \/ UNCHANGED vars
  BY <1>5 DEF Abort, vars
<1> QED
  BY <1>1, <1>2, <1>3, <1>4, <1>5, Steps

\* A result without an error is whole when it is emitted, and nothing that happens
\* later makes it less.
LEMMA ResultStep ==
  ASSUME TypeOK, Counted, OwnedByActive, ResultIsPast, BodyIsWhole, [Next]_vars
  PROVE  ResultIsPast' /\ BodyIsWhole'
<1>1. CASE result' = result
  <2> SUFFICES ASSUME result # None, result.error = "none"
               PROVE  /\ result.reply \in ended'
                      /\ origin'[result.reply] = result.request
                      /\ arrived'[result.reply] = arrived[result.reply]
    BY <1>1 DEF ResultIsPast, BodyIsWhole
  <2>1. result.reply \in ended /\ result.reply \in Replies
    BY DEF ResultIsPast, TypeOK
  <2>2. origin[result.reply] = result.request /\ result.request # None
    BY NoneAssumption DEF BodyIsWhole, TypeOK, Results
  <2> QED
    BY <2>1, <2>2, Lifecycle
<1>2. CASE \E q \in Requests : result' = Refusal(q)
  BY <1>2 DEF Refusal, ResultIsPast, BodyIsWhole
<1>3. ASSUME NEW r \in Replies, NEW status \in Statuses, NEW declared \in 0..MaxArrived,
             NEW canceled \in BOOLEAN, Finish(r),
             result' = Emitted(r, status, declared, canceled)
      PROVE  ResultIsPast' /\ BodyIsWhole'
  <2>1. active = r /\ active # None /\ origin[r] # None /\ ended' = ended \cup {r}
        /\ arrived' = arrived
    BY <1>3, FetcherAssumption, NoneAssumption DEF Finish, Alive
  <2>2. /\ result'.request = origin[r] /\ result'.reply = r
        /\ result'.error = "none" => result'.body = Filled(r) /\ FailureAfterDrain(r) = None
    BY <1>3, <2>1, EmittedFacts
  <2>3. origin'[r] = origin[r]
    BY <2>1, Lifecycle
  <2>4. ASSUME result'.error = "none"
        PROVE  /\ Len(Filled(r)) = arrived[r] /\ Len(Filled(r)) <= MaxBytes
               /\ \A i \in 1..Len(Filled(r)) : Filled(r)[i] = r
    <3>1. FailureAfterDrain(r) = None
      BY <2>2, <2>4
    <3>2. ~(Len(Filled(r)) > MaxBytes)
      <4>1. [why |-> "oversize", reply |-> r] # None
        BY NoneAssumption DEF Failures
      <4> QED
        BY <3>1, <4>1 DEF FailureAfterDrain
    <3>3. Len(Filled(r)) <= MaxBytes
      BY <3>2, DrainFacts, FetcherAssumption
    <3>4. Len(Filled(r)) = Len(buffer) + unread[r]
      BY <3>3, DrainFacts
    <3>5. Len(Filled(r)) = arrived[r]
      BY <2>1, <3>4 DEF Counted
    <3>6. \A i \in 1..Len(Filled(r)) : Filled(r)[i] = r
      BY <2>1, DrainFacts DEF OwnedByActive
    <3> QED
      BY <3>3, <3>5, <3>6
  <2> QED
    BY <2>1, <2>2, <2>3, <2>4 DEF ResultIsPast, BodyIsWhole
<1> QED
  BY <1>1, <1>2, <1>3, ResultSteps

-----------------------------------------------------------------------------
(* The inductive invariant.  OwnedByActive needs Counted for the reply that *)
(* is active, Counted needs Untouched for the reply that becomes active,    *)
(* and BodyIsWhole needs all of them, with ResultIsPast to outlive the      *)
(* answer.                                                                  *)

Inv == TypeOK /\ Untouched /\ Counted /\ OwnedByActive /\ ResultIsPast /\ BodyIsWhole

\* The fetcher starts in a state that satisfies the invariant.
LEMMA InitInv == Init => Inv
<1> SUFFICES ASSUME Init PROVE Inv
  OBVIOUS
<1>1. TypeOK
  <2>1. buffer \in Seq(Replies) /\ Len(buffer) <= MaxBytes + 1
    BY FetcherAssumption DEF Init
  <2> QED
    BY <2>1 DEF Init, TypeOK
<1>2. Untouched /\ Counted /\ OwnedByActive
  BY DEF Init, Untouched, Counted, OwnedByActive
<1>3. ResultIsPast /\ BodyIsWhole
  BY DEF Init, ResultIsPast, BodyIsWhole
<1> QED
  BY <1>1, <1>2, <1>3 DEF Inv

\* Every step of the fetcher keeps the invariant.
LEMMA Inductive == Inv /\ [Next]_vars => Inv'
BY TypeStep, UntouchedStep, CountedStep, OwnedStep, ResultStep DEF Inv

\* The invariant holds in every state the fetcher can reach.
THEOREM Invariance == Spec => []Inv
<1> QED
  BY InitInv, Inductive, PTL DEF Spec

\* Every variable keeps its type; the buffer never holds more than the limit
\* and one byte.
THEOREM TypeCorrect == Spec => []TypeOK
<1>1. Inv => TypeOK
  BY DEF Inv
<1> QED
  BY <1>1, Invariance, PTL

\* While a reply is active, the shared buffer and the failure text are its
\* own, however many replaced replies still signal.
THEOREM BufferIsOwned == Spec => []OwnedByActive
<1>1. Inv => OwnedByActive
  BY DEF Inv
<1> QED
  BY <1>1, Invariance, PTL

\* esvResult and webResult without an error carry the whole body of the reply
\* to their own request.
THEOREM ResultIsWhole == Spec => []BodyIsWhole
<1>1. Inv => BodyIsWhole
  BY DEF Inv
<1> QED
  BY <1>1, Invariance, PTL

-----------------------------------------------------------------------------
(* The fetcher is a FetchService. *)

\* The outstanding request and the last answer, as the controller sees them.
Outstanding == IF active = None THEN None ELSE origin[active]
Delivered == IF result = None THEN None
             ELSE [request |-> result.request, outcome |-> result.error]

ServiceStep ==
  \/ Outstanding' \in Sendable /\ Delivered' = Delivered
  \/ /\ Outstanding' = None
     /\ Delivered' \in [request : Requests \ Sendable, outcome : {"invalid"}]
  \/ Outstanding' = None /\ Delivered' = Delivered
  \/ /\ Outstanding # None
     /\ Delivered' \in [request : {Outstanding}, outcome : Errors \ {"invalid"}]
     /\ Outstanding' \in Sendable \cup {None}
  \/ Outstanding' = Outstanding /\ Delivered' = Delivered

\* A reply that becomes active makes its request the outstanding one.
LEMMA StartIsOutstanding ==
  ASSUME TypeOK, NEW q \in Requests, NEW n \in Replies, StartReply(q, n)
  PROVE  Outstanding' = q
<1>1. active' = n /\ n # None /\ origin'[n] = q
  BY NoneAssumption DEF StartReply, TypeOK
<1> QED
  BY <1>1 DEF Outstanding

\* A result that is emitted for the active reply answers what is outstanding.
LEMMA EmittedAnswers ==
  ASSUME TypeOK, Counted, NEW r \in Replies, Finish(r),
         NEW status \in Statuses, NEW declared \in 0..MaxArrived, NEW canceled \in BOOLEAN,
         result' = Emitted(r, status, declared, canceled)
  PROVE  /\ Outstanding # None
         /\ Delivered' \in [request : {Outstanding}, outcome : Errors \ {"invalid"}]
<1>1. active = r /\ r # None /\ origin[r] # None
  BY NoneAssumption DEF Finish, Alive
<1>2. /\ result' \in [request : Requests, error : Errors \ {"invalid"}, status : Statuses,
                      reply : Replies, body : Seq(Replies)]
      /\ result'.request = origin[r]
  BY <1>1, EmittedFacts
<1>3. result' # None
  BY <1>2, NoneAssumption DEF Results
<1>4. Outstanding = origin[r]
  BY <1>1 DEF Outstanding
<1> QED
  BY <1>1, <1>2, <1>3, <1>4 DEF Delivered

\* A refused request is delivered as one.
LEMMA RefusalIsDelivered ==
  ASSUME NEW q \in Requests \ Sendable, result' = Refusal(q)
  PROVE  Delivered' \in [request : Requests \ Sendable, outcome : {"invalid"}]
<1>1. result' # None
  BY RefusalTypes, NoneAssumption
<1> QED
  BY <1>1 DEF Delivered, Refusal

\* Every step of the fetcher is a step of a FetchService, or none.
LEMMA StepIsServiceStep ==
  ASSUME Inv, [Next]_vars
  PROVE  ServiceStep
<1>0. TypeOK /\ Counted
  BY DEF Inv
<1>1. ASSUME NEW q \in Requests, Fetch(q) PROVE ServiceStep
  BY <1>0, <1>1, StartIsOutstanding DEF Fetch, Delivered, ServiceStep
<1>2. ASSUME active' = None PROVE Outstanding' = None
  BY <1>2 DEF Outstanding
<1>3. ASSUME NEW q \in Requests, FetchInvalid(q) PROVE ServiceStep
  BY <1>2, <1>3, RefusalIsDelivered DEF FetchInvalid, ServiceStep
<1>4. CASE Abort
  BY <1>2, <1>4 DEF Abort, Delivered, ServiceStep
<1>5. ASSUME NEW r \in Replies, \/ ByteArrives(r) \/ ReadyRead(r) \/ Redirected(r)
                                \/ OrphanFinished(r)
      PROVE  ServiceStep
  BY <1>5 DEF ByteArrives, ReadyRead, Redirected, OrphanFinished, Outstanding, Delivered,
     ServiceStep
<1>6. ASSUME NEW r \in Replies, FinishedActive(r) PROVE ServiceStep
  <2>1. PICK status \in Statuses, declared \in 0..MaxArrived, canceled \in BOOLEAN :
          \/ Finished(r, status, declared, canceled)
          \/ \E q \in Requests : FinishedThenFetch(r, status, declared, canceled, q)
    BY <1>6 DEF FinishedActive
  <2>2. /\ Outstanding # None
        /\ Delivered' \in [request : {Outstanding}, outcome : Errors \ {"invalid"}]
    BY <1>0, <2>1, EmittedAnswers DEF Finished, FinishedThenFetch
  <2>3. Outstanding' \in Sendable \cup {None}
    BY <1>0, <1>2, <2>1, StartIsOutstanding DEF Finished, FinishedThenFetch
  <2> QED
    BY <2>2, <2>3 DEF ServiceStep
<1>7. ASSUME NEW r \in Replies, NEW q \in Requests, FinishedThenRefused(r, q)
      PROVE  ServiceStep
  BY <1>2, <1>7, RefusalIsDelivered DEF FinishedThenRefused, ServiceStep
<1>8. CASE UNCHANGED vars
  BY <1>8 DEF vars, Outstanding, Delivered, ServiceStep
<1> QED
  BY <1>1, <1>3, <1>4, <1>5, <1>6, <1>7, <1>8, Steps

\* Fetcher implements FetchService: whatever the network and Qt do, one
\* request is outstanding at most, and every answer is the answer to it.
THEOREM Refinement == Spec => ServiceSpec
<1>1. Init => Service!Init
  BY DEF Init, Service!Init
<1>2. Inv /\ [Next]_vars => [Service!Next]_(Service!vars)
  <2> SUFFICES ASSUME Inv, [Next]_vars PROVE [Service!Next]_(Service!vars)
    OBVIOUS
  <2> QED
    BY StepIsServiceStep DEF ServiceStep, Outstanding, Delivered, Service!Next, Service!Send,
       Service!Refuse, Service!Abort, Service!Answer, Service!vars
<1> QED
  BY <1>1, <1>2, Invariance, PTL DEF Spec, ServiceSpec, Service!Spec
=============================================================================
