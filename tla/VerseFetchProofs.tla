-------------------------- MODULE VerseFetchProofs --------------------------
(***************************************************************************)
(* What VerseFetch keeps invariant, for every set of verses and keys and   *)
(* for histories and sessions of any length.                               *)
(***************************************************************************)
EXTENDS VerseFetch, TLAPS

\* A request of either kind is a request, whatever the settings are.
LEMMA RequestTypes ==
  ASSUME TypeOK
  PROVE  /\ Provider \in Translations
         /\ Provider # "esv" => Provider \in {"web", "kjv"}
         /\ \A a \in Anchors : RangeRequest(a) \in Requests
         /\ request # None /\ pendingAnchor # None => PlainRequest \in Requests
<1> USE VerseFetchAssumption, NoneAssumption DEF TypeOK, Translations
<1>1. Provider \in Translations /\ (Provider # "esv" => Provider \in {"web", "kjv"})
  BY DEF Provider
<1>2. ASSUME NEW a \in Anchors PROVE RangeRequest(a) \in Requests
  BY <1>1 DEF RangeRequest, Requests, References, RangeQuery, KeyOf
<1>3. ASSUME request # None, pendingAnchor # None PROVE PlainRequest \in Requests
  <2>1. request \in Requests /\ pendingAnchor \in Anchors
    BY <1>3
  <2>2. AnswerTranslation \in Translations
    BY DEF AnswerTranslation
  <2> QED
    BY <2>1, <2>2 DEF PlainRequest, Requests, References, PlainQuery, KeyOf
<1> QED
  BY <1>1, <1>2, <1>3

-----------------------------------------------------------------------------
(* Type correctness. *)

\* recordHistory keeps the types of the history.
LEMMA RecordHistoryTypes ==
  ASSUME TypeOK, NEW a \in Anchors, RecordHistory(a)
  PROVE  history' \in Seq(Anchors) /\ histPos' \in 0..Len(history')
<1>1. Recorded(a) \in Seq(Anchors)
  <2>1. Append(history, a) \in Seq(Anchors) /\ Append(history, a) # <<>>
    BY DEF TypeOK
  <2> QED
    BY <2>1 DEF Recorded
<1>2. Len(Recorded(a)) \in 0..Len(Recorded(a))
  BY <1>1
<1> QED
  BY <1>1, <1>2 DEF RecordHistory, TypeOK, historyVars

\* fetch keeps all types but those of the history, which it does not touch.
LEMMA FetchTypes ==
  ASSUME TypeOK, NEW a \in Anchors, Fetch(a),
         history' \in Seq(Anchors), histPos' \in 0..Len(history')
  PROVE  TypeOK'
<1>1. /\ Provider \in Translations
      /\ Provider # "esv" => Provider \in {"web", "kjv"}
      /\ RangeRequest(a) \in Requests
  BY RequestTypes
<1>2. /\ request' \in Requests \cup {None}
      /\ result' \in [request : Requests, outcome : Outcomes \cup {Refused}] \cup {None}
      /\ loading' \in BOOLEAN /\ timer' \in BOOLEAN
  <2>1. CanSend(RangeRequest(a)) \in BOOLEAN
    BY DEF CanSend
  <2> QED
    BY <1>1, <2>1 DEF Fetch, Ask, TypeOK
<1>3. webTranslation' \in {"web", "kjv"}
  BY <1>1 DEF Fetch, WebTranslation, TypeOK
<1>4. /\ fetchSeq' \in Nat /\ attempts' \in Nat
      /\ pendingAnchor' \in Anchors /\ verseAnchor' \in Anchors
      /\ pendingProvider' \in Translations
      /\ retried' \in [{"esv", "web"} -> BOOLEAN]
      /\ verseReference' = None
      /\ translationId' \in Translations \cup {None}
      /\ notice' \in {"setKey", None} /\ errorText' \in {"fetch", None}
  BY <1>1 DEF Fetch, FetchNotice, FetchError, TypeOK
<1> QED
  BY <1>2, <1>3, <1>4 DEF Fetch, TypeOK, settings

\* applyVerse's fallback changes no reference around the verse asked for: the
\* only one that is not normalized is the range it falls back to.
LEMMA ReferenceShownKept ==
  ASSUME NEW ref \in References, ref.anchor = pendingAnchor
  PROVE  ReferenceShown(ref) = ref
BY VerseFetchAssumption DEF ReferenceShown, Normal, RangeQuery, References

\* So does the end of a fetch in a verse, be it new or from the cache.
LEMMA ApplyVerseTypes ==
  ASSUME TypeOK, NEW p \in Passages, NEW ref \in References, NEW tr \in Translations,
         ref.anchor = pendingAnchor, ApplyVerse(p, ref, tr)
  PROVE  /\ shown' \in Passages /\ verseReference' = ref
         /\ translationId' \in Translations /\ snapshot' \in Contents \cup {None}
         /\ retried' \in [{"esv", "web"} -> BOOLEAN]
<1>1. verseReference' = ref
  BY ReferenceShownKept DEF ApplyVerse
<1>2. [passage |-> p, reference |-> ref, translation |-> tr] \in Contents
  BY DEF Contents
<1> QED
  BY <1>1, <1>2 DEF ApplyVerse, TypeOK

\* applyCachedPassage keeps the types.
LEMMA ApplyCachedTypes ==
  ASSUME TypeOK, CacheKeepsItsPassage, NEW e \in Hits, ApplyCachedPassage(e),
         fetchSeq' \in Nat,
         result' \in [request : Requests, outcome : Outcomes \cup {Refused}] \cup {None}
  PROVE  TypeOK'
<1>1. /\ e \in cache /\ e.passage \in Passages /\ e.reference \in References
      /\ e.provider \in Translations /\ e.reference.anchor = pendingAnchor
  BY DEF Hits, TypeOK, Entries, CacheKeepsItsPassage, Names
<1>2. /\ shown' \in Passages /\ verseReference' \in References
      /\ translationId' \in Translations /\ snapshot' \in Contents \cup {None}
      /\ retried' \in [{"esv", "web"} -> BOOLEAN]
  BY <1>1, ApplyVerseTypes DEF ApplyCachedPassage
<1> QED
  BY <1>2 DEF ApplyCachedPassage, EndFetch, TypeOK, settings, historyVars

\* An answer to the outstanding request is a result.
LEMMA AnsweredTypes ==
  ASSUME TypeOK, OnResult, NEW o \in Outcomes
  PROVE  /\ request \in Requests
         /\ Answered(o) \in [request : Requests, outcome : Outcomes \cup {Refused}]
BY DEF TypeOK, OnResult, Answered

\* While a fetch is under way its anchor is a reference: it is the one asked for.
LEMMA PendingIsReference ==
  ASSUME TypeOK, FetchPhases, loading
  PROVE  /\ request \in Requests /\ pendingAnchor \in Anchors
         /\ pendingProvider \in Translations
BY DEF TypeOK, FetchPhases, Requests, References

\* An answer that is shown keeps the types.
LEMMA SucceedTypes ==
  ASSUME TypeOK, FetchPhases, NEW o \in Answers, Succeed(o)
  PROVE  TypeOK'
<1>1. request \in Requests /\ result' \in [request : Requests, outcome : Outcomes \cup {Refused}]
  BY AnsweredTypes DEF Succeed, Outcomes
<1>2. /\ PassageFor(request) \in Passages
      /\ AnswerReference(o) \in References /\ AnswerReference(o).anchor = pendingAnchor
      /\ AnswerTranslation \in Translations
  <2>1. pendingAnchor \in Anchors /\ request.ref.anchor = pendingAnchor
    BY PendingIsReference DEF Succeed, OnResult, FetchPhases
  <2> QED
    BY <1>1, <2>1 DEF PassageFor, Passages, Requests, References, AnswerReference, RangeQuery,
       AnswerTranslation, Translations, TypeOK
<1>3. /\ shown' \in Passages /\ verseReference' \in References
      /\ translationId' \in Translations /\ snapshot' \in Contents \cup {None}
      /\ retried' \in [{"esv", "web"} -> BOOLEAN]
  BY <1>2, ApplyVerseTypes DEF Succeed
<1>4. /\ cache' \subseteq Entries
      /\ notice' \in {"setKey", "offline", "cacheUnavailable", None}
  <2>1. CASE Storable(NewEntry(o)) /\ UNCHANGED notice
             /\ cache' = {e \in cache : ~SameKey(e, NewEntry(o))} \cup {NewEntry(o)}
    <3>1. NewEntry(o).provider = AnswerTranslation
      BY <2>1 DEF Storable
    <3>2. NewEntry(o).anchor = pendingAnchor /\ pendingAnchor \in Anchors
      BY PendingIsReference DEF NewEntry, Succeed, OnResult
    <3> QED
      BY <1>2, <2>1, <3>1, <3>2 DEF NewEntry, Entries, KeyOf, TypeOK
  <2>2. CASE UNCHANGED cache /\ notice' = IF notice = None THEN "cacheUnavailable" ELSE notice
    BY <2>2 DEF TypeOK
  <2> QED
    BY <2>1, <2>2 DEF Succeed, CachePassage
<1> QED
  BY <1>1, <1>3, <1>4 DEF Succeed, EndFetch, TypeOK, settings, historyVars

\* The retry keeps the types.
LEMMA RetryTypes ==
  ASSUME TypeOK, FetchPhases, Retry
  PROVE  TypeOK'
<1>1. request # None /\ pendingAnchor # None
  BY PendingIsReference, NoneAssumption DEF Retry, OnResult
<1>2. PlainRequest \in Requests
  BY <1>1, RequestTypes
<1>3. CanSend(PlainRequest) \in BOOLEAN
  BY DEF CanSend
<1>4. Answered("rangeUnsupported") \in [request : Requests, outcome : Outcomes \cup {Refused}]
  BY AnsweredTypes DEF Retry, Outcomes
<1>5. /\ request' \in Requests \cup {None}
      /\ result' \in [request : Requests, outcome : Outcomes \cup {Refused}] \cup {None}
      /\ loading' \in BOOLEAN /\ timer' \in BOOLEAN
  BY <1>2, <1>3, <1>4 DEF Retry, Ask
<1>6. retried' \in [{"esv", "web"} -> BOOLEAN]
  BY DEF Retry, TypeOK
<1> QED
  BY <1>5, <1>6 DEF Retry, TypeOK, settings, historyVars

\* A load that ends without a verse keeps the types.
LEMMA GiveUpTypes ==
  ASSUME TypeOK, NEW text \in {"fetch", "timeout"}, GiveUp(text), fetchSeq' \in Nat,
         result' \in [request : Requests, outcome : Outcomes \cup {Refused}] \cup {None}
  PROVE  TypeOK'
<1>1. /\ loading' = FALSE /\ timer' = FALSE /\ request' = None
      /\ errorText' \in {"fetch", "timeout"}
  BY DEF GiveUp, EndFetch
<1>2. UNCHANGED <<translation, apiKey, pendingAnchor, pendingProvider, webTranslation,
                  retried, attempts, shown, source, verseAnchor, verseReference,
                  translationId, notice, history, histPos, cache, snapshot>>
  BY DEF GiveUp, settings, historyVars
<1>3. /\ translation' \in Choices /\ apiKey' \in Keys \cup {NoKey} /\ attempts' \in Nat
      /\ pendingAnchor' \in Anchors \cup {None}
      /\ pendingProvider' \in Translations \cup {None}
      /\ webTranslation' \in {"web", "kjv"}
      /\ retried' \in [{"esv", "web"} -> BOOLEAN]
  BY <1>2 DEF TypeOK
<1>4. /\ shown' \in Passages \cup {None} /\ source' \in {"provider", "cache", None}
      /\ verseAnchor' \in Anchors \cup {None} /\ verseReference' \in References \cup {None}
      /\ translationId' \in Translations \cup {None}
      /\ notice' \in {"setKey", "offline", "cacheUnavailable", None}
      /\ history' \in Seq(Anchors) /\ histPos' \in 0..Len(history')
      /\ cache' \subseteq Entries /\ snapshot' \in Contents \cup {None}
  BY <1>2 DEF TypeOK
<1> QED
  BY <1>1, <1>3, <1>4 DEF TypeOK

\* A restart restores the types.
LEMMA RestartTypes ==
  ASSUME TypeOK, Restart
  PROVE  TypeOK'
<1>1. /\ loading' = FALSE /\ timer' = FALSE /\ fetchSeq' = 0 /\ attempts' = 0
      /\ webTranslation' = "web" /\ request' = None /\ result' = None
  BY DEF Restart
<1>2. /\ pendingAnchor' = None /\ pendingProvider' = None /\ shown' = None /\ source' = None
      /\ verseAnchor' = None /\ verseReference' = None /\ translationId' = None
      /\ notice' = None /\ errorText' \in {None, "other"}
  BY DEF Restart
<1>3. retried' \in [{"esv", "web"} -> BOOLEAN]
  BY DEF Restart
<1>4. history' \in Seq(Anchors) /\ histPos' \in 0..Len(history')
  BY DEF Restart
<1>5. UNCHANGED <<translation, apiKey, cache, snapshot>>
  BY DEF Restart, settings
<1> QED
  BY <1>1, <1>2, <1>3, <1>4, <1>5 DEF TypeOK

\* Every step keeps the types.
LEMMA TypeStep ==
  ASSUME TypeOK, FetchPhases, CacheKeepsItsPassage, [Next]_vars
  PROVE  TypeOK'
<1>1. ASSUME NEW a \in Anchors, Load(a) PROVE TypeOK'
  BY <1>1, RecordHistoryTypes, FetchTypes DEF Load
<1>2. CASE Back
  <2>1. history[histPos - 1] \in Anchors
    BY <1>2 DEF Back, TypeOK
  <2> QED
    BY <1>2, <2>1, FetchTypes DEF Back, TypeOK
<1>3. CASE Forward
  <2>1. history[histPos + 1] \in Anchors
    BY <1>3 DEF Forward, TypeOK
  <2> QED
    BY <1>3, <2>1, FetchTypes DEF Forward, TypeOK
<1>4. ASSUME NEW o \in Answers, Succeed(o) PROVE TypeOK'
  BY <1>4, SucceedTypes
<1>5. CASE Retry
  BY <1>5, RetryTypes
<1>6. ASSUME NEW e \in Hits, Fallback(e) PROVE TypeOK'
  BY <1>6, ApplyCachedTypes, AnsweredTypes DEF Fallback, TypeOK, Outcomes
<1>7. ASSUME NEW o \in Outcomes \ Answers, Fail(o) PROVE TypeOK'
  <2>1. result' \in [request : Requests, outcome : Outcomes \cup {Refused}]
    BY <1>7, AnsweredTypes DEF Fail
  <2> QED
    BY <1>7, <2>1, GiveUpTypes DEF Fail, TypeOK
<1>8. CASE OnFetchTimeout
  <2>1. fetchSeq' \in Nat
        /\ result' \in [request : Requests, outcome : Outcomes \cup {Refused}] \cup {None}
    BY <1>8 DEF OnFetchTimeout, TypeOK
  <2>2. ASSUME NEW e \in Hits, ApplyCachedPassage(e) PROVE TypeOK'
    BY <2>1, <2>2, ApplyCachedTypes
  <2>3. CASE GiveUp("timeout")
    BY <2>1, <2>3, GiveUpTypes
  <2> QED
    BY <1>8, <2>2, <2>3 DEF OnFetchTimeout
<1>9. ASSUME NEW key \in Keys \cup {NoKey}, NEW choice \in Choices, SaveSettings(key, choice)
      PROVE  TypeOK'
  BY <1>9 DEF SaveSettings, TypeOK, fetchVars, verseVars, historyVars
<1>10. CASE RejectReference
  BY <1>10 DEF RejectReference, TypeOK, settings, fetchVars, historyVars
<1>11. CASE EditFavorites
  BY <1>11 DEF EditFavorites, TypeOK, settings, fetchVars, historyVars
<1>12. CASE Restart
  BY <1>12, RestartTypes
<1>13. CASE UNCHANGED vars
  BY <1>13 DEF TypeOK, vars, settings, fetchVars, verseVars, historyVars
<1> QED
  BY <1>1, <1>2, <1>3, <1>4, <1>5, <1>6, <1>7, <1>8, <1>9, <1>10, <1>11, <1>12, <1>13 DEF Next

-----------------------------------------------------------------------------
(* The steps of the program, sorted by what they do to a fetch. *)

\* A step starts a fetch, retries it, ends it in a verse or without one, or
\* leaves all that is said of the verse alone but the favourites' message.
StartsFetch == \E a \in Anchors : Fetch(a)

EndsInAnswer == \E o \in Answers : Succeed(o)

EndsInCache == \E e \in Hits : ApplyCachedPassage(e)

EndsWithoutVerse == \E text \in {"fetch", "timeout"} : GiveUp(text)

LeavesFetchAlone ==
  /\ UNCHANGED <<loading, timer, fetchSeq, pendingAnchor, pendingProvider, webTranslation,
                 retried, attempts, request, result, shown, source, verseAnchor, verseReference,
                 translationId, notice, cache, snapshot>>
  /\ errorText' \in {errorText, "other", None}

\* Those that end a fetch are taken only while one is under way.
EndGuard == loading /\ request # None

\* What a step may be, as far as the verse on display is concerned.
LEMMA Steps ==
  ASSUME TypeOK, FetchPhases, [Next]_vars
  PROVE  \/ StartsFetch
         \/ Retry
         \/ EndsInAnswer
         \/ EndGuard /\ EndsInCache
         \/ EndGuard /\ EndsWithoutVerse
         \/ Restart
         \/ LeavesFetchAlone
<1>1. ASSUME NEW a \in Anchors, Load(a) PROVE StartsFetch
  BY <1>1 DEF Load, StartsFetch
<1>2. CASE Back
  <2>1. history[histPos - 1] \in Anchors
    BY <1>2 DEF Back, TypeOK
  <2> QED
    BY <1>2, <2>1 DEF Back, StartsFetch
<1>3. CASE Forward
  <2>1. history[histPos + 1] \in Anchors
    BY <1>3 DEF Forward, TypeOK
  <2> QED
    BY <1>3, <2>1 DEF Forward, StartsFetch
<1>4. ASSUME NEW e \in Hits, Fallback(e) PROVE EndGuard /\ EndsInCache
  BY <1>4 DEF Fallback, OnResult, EndGuard, EndsInCache
<1>5. ASSUME NEW o \in Outcomes \ Answers, Fail(o) PROVE EndGuard /\ EndsWithoutVerse
  BY <1>5 DEF Fail, OnResult, EndGuard, EndsWithoutVerse
<1>6. CASE OnFetchTimeout
  <2>1. EndGuard
    BY <1>6 DEF OnFetchTimeout, EndGuard, FetchPhases
  <2> QED
    BY <1>6, <2>1 DEF OnFetchTimeout, EndsInCache, EndsWithoutVerse
<1>7. ASSUME NEW key \in Keys \cup {NoKey}, NEW choice \in Choices, SaveSettings(key, choice)
      PROVE  LeavesFetchAlone
  BY <1>7 DEF SaveSettings, LeavesFetchAlone, fetchVars, verseVars
<1>8. CASE RejectReference
  BY <1>8 DEF RejectReference, LeavesFetchAlone, fetchVars
<1>9. CASE EditFavorites
  BY <1>9 DEF EditFavorites, LeavesFetchAlone, fetchVars
<1>10. CASE UNCHANGED vars
  BY <1>10 DEF LeavesFetchAlone, vars, fetchVars, verseVars
<1> QED
  BY <1>1, <1>2, <1>3, <1>4, <1>5, <1>6, <1>7, <1>8, <1>9, <1>10 DEF Next, EndsInAnswer

-----------------------------------------------------------------------------
(* Each conjunct of the invariant is kept by every step. *)

\* Every step keeps FetchPhases: a load starts or goes on with all three of the
\* spinner, the timeout and the request, and ends without any of them.
LEMMA PhasesStep ==
  ASSUME TypeOK, FetchPhases, [Next]_vars
  PROVE  FetchPhases'
<1>1. ASSUME NEW a \in Anchors, Fetch(a) PROVE FetchPhases'
  <2>1. RangeRequest(a) \in Requests /\ RangeRequest(a) # None
    BY RequestTypes, NoneAssumption
  <2>2. /\ Provider \in Translations
        /\ WebTranslation = Provider \/ Provider = "esv"
    BY RequestTypes DEF WebTranslation
  <2>3. CASE CanSend(RangeRequest(a))
    <3>1. /\ loading' = TRUE /\ timer' = TRUE /\ request' = RangeRequest(a)
          /\ fetchSeq' = fetchSeq + 1 /\ pendingAnchor' = a /\ verseAnchor' = a
          /\ pendingProvider' = Provider /\ verseReference' = None
          /\ webTranslation' = WebTranslation
      BY <1>1, <2>3 DEF Fetch, Ask
    <3>2. /\ RangeRequest(a).tag = fetchSeq + 1 /\ RangeRequest(a).ref.anchor = a
          /\ RangeRequest(a).translation = Provider
      BY DEF RangeRequest, RangeQuery
    <3> QED
      BY <2>1, <2>2, <3>1, <3>2 DEF FetchPhases
  <2>4. CASE ~CanSend(RangeRequest(a))
    <3>1. CanSend(RangeRequest(a)) = FALSE
      BY <2>4 DEF CanSend
    <3>2. loading' = FALSE /\ timer' = FALSE /\ request' = None
      BY <1>1, <2>4, <3>1 DEF Fetch, Ask
    <3> QED
      BY <3>2 DEF FetchPhases
  <2> QED
    BY <2>3, <2>4
<1>2. CASE Retry
  <2>1. /\ request # None /\ pendingAnchor # None /\ loading
        /\ verseReference = None /\ pendingAnchor = verseAnchor
        /\ request.translation = pendingProvider
        /\ pendingProvider \in {"esv", webTranslation}
    BY <1>2, PendingIsReference, NoneAssumption DEF Retry, OnResult, FetchPhases
  <2>2. PlainRequest \in Requests /\ PlainRequest # None
    BY <2>1, RequestTypes, NoneAssumption
  <2>3. AnswerTranslation = pendingProvider
    BY <2>1 DEF AnswerTranslation
  <2>4. /\ PlainRequest.tag = fetchSeq + 1 /\ PlainRequest.ref.anchor = pendingAnchor
        /\ PlainRequest.translation = pendingProvider
    BY <2>3 DEF PlainRequest, PlainQuery
  <2>5. /\ fetchSeq' = fetchSeq + 1
        /\ UNCHANGED <<pendingAnchor, pendingProvider, webTranslation, verseAnchor, verseReference>>
    BY <1>2 DEF Retry
  <2>6. CASE CanSend(PlainRequest)
    <3>1. loading' = TRUE /\ timer' = TRUE /\ request' = PlainRequest
      BY <1>2, <2>6 DEF Retry, Ask
    <3> QED
      BY <2>1, <2>2, <2>4, <2>5, <3>1 DEF FetchPhases
  <2>7. CASE ~CanSend(PlainRequest)
    <3>1. CanSend(PlainRequest) = FALSE
      BY <2>7 DEF CanSend
    <3>2. loading' = FALSE /\ timer' = FALSE /\ request' = None
      BY <1>2, <2>7, <3>1 DEF Retry, Ask
    <3> QED
      BY <3>2 DEF FetchPhases
  <2> QED
    BY <2>6, <2>7
<1>3. ASSUME EndFetch PROVE FetchPhases'
  BY <1>3 DEF EndFetch, FetchPhases
<1>4. CASE Restart
  BY <1>4 DEF Restart, FetchPhases
<1>5. CASE LeavesFetchAlone
  BY <1>5 DEF LeavesFetchAlone, FetchPhases
<1>6. ASSUME EndsInAnswer \/ EndsInCache \/ EndsWithoutVerse PROVE EndFetch
  BY <1>6 DEF EndsInAnswer, Succeed, EndsInCache, EndsWithoutVerse, ApplyCachedPassage, GiveUp
<1> QED
  BY <1>1, <1>2, <1>3, <1>4, <1>5, <1>6, Steps DEF StartsFetch

\* What is shown was asked for by the request that is answered.
LEMMA AnswerIsRequested ==
  ASSUME TypeOK, FetchPhases, OnResult
  PROVE  /\ request \in Requests /\ verseReference = None
         /\ request.ref.anchor = pendingAnchor /\ pendingAnchor = verseAnchor
         /\ AnswerTranslation = request.translation
         /\ AnswerTranslation = pendingProvider
BY DEF TypeOK, FetchPhases, OnResult, AnswerTranslation

\* The reference an answer is shown and stored under names what was answered,
\* and is its own unless the retry is answered without a name.
LEMMA AnswerIsNamed ==
  ASSUME TypeOK, FetchPhases, OneRetry, NEW o \in Answers, Succeed(o)
  PROVE  /\ PassageFor(request).ref = request.ref /\ request.ref \in References
         /\ request.ref.anchor = pendingAnchor
         /\ AnswerReference(o) \in References /\ AnswerReference(o).anchor = pendingAnchor
         /\ verseReference' = AnswerReference(o)
         /\ Names(AnswerReference(o), PassageFor(request))
         /\ AnswerReference(o) # request.ref => o = "unnamed" /\ attempts = 2
<1>1. /\ request \in Requests /\ request.ref \in References
      /\ request.ref.anchor = pendingAnchor /\ pendingAnchor \in Anchors
  BY AnswerIsRequested, PendingIsReference DEF Succeed, OnResult, Requests
<1>2. AnswerReference(o) \in References /\ AnswerReference(o).anchor = pendingAnchor
  BY <1>1 DEF AnswerReference, RangeQuery, References
<1>3. AnswerReference(o) # request.ref =>
        /\ o = "unnamed" /\ attempts = 2
        /\ AnswerReference(o) = RangeQuery(pendingAnchor)
        /\ request.ref = PlainQuery(pendingAnchor)
  BY DEF Succeed, OnResult, OneRetry, AnswerReference, Answers
<1>4. AnswerReference(o) # request.ref => request.ref.plain /\ ~AnswerReference(o).plain
  <2>1. CASE pendingAnchor \in RangeAnchors
    <3>1. (pendingAnchor \notin RangeAnchors) = FALSE
      BY <2>1
    <3>2. RangeQuery(pendingAnchor) = [anchor |-> pendingAnchor, plain |-> FALSE]
      BY <3>1 DEF RangeQuery
    <3>3. ~RangeQuery(pendingAnchor).plain /\ PlainQuery(pendingAnchor).plain
      BY <3>2 DEF PlainQuery
    <3> QED
      BY <1>3, <3>3
  <2>2. CASE pendingAnchor \notin RangeAnchors
    <3>1. (pendingAnchor \notin RangeAnchors) = TRUE
      BY <2>2
    <3>2. RangeQuery(pendingAnchor) = PlainQuery(pendingAnchor)
      BY <3>1 DEF RangeQuery, PlainQuery
    <3> QED
      BY <1>3, <3>2
  <2> QED
    BY <2>1, <2>2
<1>5. verseReference' = AnswerReference(o)
  BY <1>2, ReferenceShownKept DEF Succeed, ApplyVerse
<1> QED
  BY <1>1, <1>2, <1>3, <1>4, <1>5 DEF Names, PassageFor

\* Every step keeps ShownIsRequested: a load clears the reference, and only an
\* answer to that load or an entry filed under it sets it again.
LEMMA ShownStep ==
  ASSUME TypeOK, FetchPhases, OneRetry, CacheKeepsItsPassage, ShownIsRequested, [Next]_vars
  PROVE  ShownIsRequested'
<1>1. CASE StartsFetch
  BY <1>1 DEF StartsFetch, Fetch, ShownIsRequested
<1>2. CASE Retry
  <2>1. verseReference = None
    BY <1>2, AnswerIsRequested DEF Retry
  <2> QED
    BY <1>2, <2>1 DEF Retry, ShownIsRequested
<1>3. ASSUME NEW o \in Answers, Succeed(o) PROVE ShownIsRequested'
  <2>1. /\ shown' = PassageFor(request) /\ translationId' = AnswerTranslation
        /\ verseAnchor' = verseAnchor /\ loading' = FALSE /\ attempts' = attempts
        /\ result' = Answered(o)
    BY <1>3 DEF Succeed, ApplyVerse, EndFetch
  <2>2. request \in Requests /\ PassageFor(request) \in Passages
    BY <1>3, AnswerIsRequested DEF Succeed, PassageFor, Passages, Requests
  <2>3. PassageFor(request).translation = AnswerTranslation /\ pendingAnchor = verseAnchor
    BY <1>3, AnswerIsRequested DEF Succeed, PassageFor
  <2>4. result'.outcome = o
    BY <2>1 DEF Answered
  <2>5. Names(verseReference', shown') /\ verseReference'.anchor = verseAnchor'
    BY <1>3, <2>1, <2>3, AnswerIsNamed DEF Names
  <2>6. verseReference' # shown'.ref => result'.outcome = "unnamed" /\ attempts' = 2
    BY <1>3, <2>1, <2>4, AnswerIsNamed
  <2> QED
    BY <2>1, <2>2, <2>3, <2>5, <2>6, NoneAssumption DEF ShownIsRequested, Names
<1>4. CASE EndGuard /\ EndsInCache
  <2>1. PICK e \in Hits : ApplyCachedPassage(e)
    BY <1>4 DEF EndsInCache
  <2>2. /\ e \in cache /\ e.anchor = pendingAnchor /\ e.passage \in Passages
        /\ e.reference \in References
    BY DEF Hits, TypeOK, Entries
  <2>3. /\ Names(e.reference, e.passage) /\ e.reference.anchor = pendingAnchor
        /\ e.passage.translation = e.provider
    BY <2>2 DEF CacheKeepsItsPassage, Names
  <2>4. /\ shown' = e.passage /\ verseReference' = e.reference /\ translationId' = e.provider
        /\ verseAnchor' = verseAnchor /\ loading' = FALSE /\ source' = "cache"
    BY <2>1, <2>2, <2>3, ReferenceShownKept DEF ApplyCachedPassage, ApplyVerse, EndFetch
  <2>5. pendingAnchor = verseAnchor
    BY <1>4 DEF EndGuard, FetchPhases
  <2> QED
    BY <2>2, <2>3, <2>4, <2>5, NoneAssumption DEF ShownIsRequested, Names
<1>5. CASE EndGuard /\ EndsWithoutVerse
  BY <1>5 DEF EndGuard, EndsWithoutVerse, GiveUp, FetchPhases, ShownIsRequested
<1>6. CASE Restart
  BY <1>6 DEF Restart, ShownIsRequested
<1>7. CASE LeavesFetchAlone
  BY <1>7 DEF LeavesFetchAlone, ShownIsRequested, Names
<1> QED
  BY <1>1, <1>2, <1>3, <1>4, <1>5, <1>6, <1>7, Steps DEF EndsInAnswer

\* Every step keeps CacheKeepsItsPassage, as FetchPhases ties the pending fields to
\* the request that is answered.
LEMMA CacheStep ==
  ASSUME TypeOK, FetchPhases, OneRetry, CacheKeepsItsPassage, [Next]_vars
  PROVE  CacheKeepsItsPassage'
<1>1. ASSUME UNCHANGED cache PROVE CacheKeepsItsPassage'
  BY <1>1 DEF CacheKeepsItsPassage, SameKey, Names
<1>2. ASSUME NEW o \in Answers, Succeed(o), Storable(NewEntry(o)),
             cache' = {e \in cache : ~SameKey(e, NewEntry(o))} \cup {NewEntry(o)}
      PROVE  CacheKeepsItsPassage'
  <2> DEFINE new == NewEntry(o)
  <2>1. /\ new.provider = AnswerTranslation /\ new.anchor = pendingAnchor
        /\ new.reference = AnswerReference(o) /\ new.passage = PassageFor(request)
        /\ new.key = KeyOf(new.provider, apiKey)
    BY <1>2 DEF NewEntry, Storable
  <2>2. /\ new.passage.ref.anchor = new.anchor /\ Names(new.reference, new.passage)
        /\ new.passage.translation = new.provider
    BY <1>2, <2>1, AnswerIsRequested, AnswerIsNamed DEF Succeed, PassageFor
  <2>3. new.provider = "esv" <=> new.key # NoKey
    BY <1>2, <2>1 DEF Storable, KeyOf
  <2>4. \A e \in cache' : /\ e.passage.ref.anchor = e.anchor /\ Names(e.reference, e.passage)
                          /\ e.passage.translation = e.provider
                          /\ e.provider = "esv" <=> e.key # NoKey
    BY <1>2, <2>2, <2>3 DEF CacheKeepsItsPassage
  <2>5. \A e, f \in cache' : SameKey(e, f) => e = f
    BY <1>2 DEF CacheKeepsItsPassage, SameKey
  <2> QED
    BY <2>4, <2>5 DEF CacheKeepsItsPassage, SameKey, Names
<1>3. ASSUME NEW o \in Answers, Succeed(o) PROVE CacheKeepsItsPassage'
  BY <1>1, <1>2, <1>3 DEF Succeed, CachePassage
<1>4. ASSUME ~EndsInAnswer PROVE UNCHANGED cache
  BY <1>4, Steps DEF StartsFetch, Fetch, Retry, EndsInCache, ApplyCachedPassage,
     EndsWithoutVerse, GiveUp, Restart, LeavesFetchAlone
<1> QED
  BY <1>1, <1>3, <1>4 DEF EndsInAnswer

\* Every step keeps OneRetry: the flag of the provider is set by the retry.
LEMMA RetryStep ==
  ASSUME TypeOK, FetchPhases, OneRetry, [Next]_vars
  PROVE  OneRetry'
<1>1. ASSUME NEW a \in Anchors, Fetch(a) PROVE OneRetry'
  <2>1. /\ attempts' = 1 /\ pendingAnchor' = a
        /\ loading' => request' = RangeRequest(a)
    BY <1>1 DEF Fetch, Ask
  <2>2. RangeRequest(a).ref = RangeQuery(a)
    BY DEF RangeRequest
  <2> QED
    BY <2>1, <2>2 DEF OneRetry, RangeQuery
<1>2. CASE Retry
  <2>1. /\ request \in Requests /\ ~retried[Kind(request.translation)]
        /\ AnswerTranslation = request.translation /\ attempts = 1
    BY <1>2, AnswerIsRequested DEF Retry, MayRetry, OnResult, OneRetry
  <2>2. attempts' = 2
    BY <1>2, <2>1 DEF Retry
  <2>3. loading' => request' = PlainRequest
    BY <1>2 DEF Retry, Ask
  <2>4. /\ PlainRequest.ref = PlainQuery(pendingAnchor) /\ pendingAnchor' = pendingAnchor
        /\ PlainRequest.translation = request.translation
    BY <1>2, <2>1 DEF PlainRequest, Retry
  <2>5. Kind(request.translation) \in {"esv", "web"}
    BY DEF Kind
  <2>6. retried'[Kind(request.translation)] = TRUE
    BY <1>2, <2>5 DEF Retry, TypeOK
  <2>7. loading' => /\ request'.ref = PlainQuery(pendingAnchor')
                    /\ retried'[Kind(request'.translation)]
    BY <2>3, <2>4, <2>6
  <2> QED
    BY <2>2, <2>7 DEF OneRetry, PlainQuery
<1>3. ASSUME EndFetch, attempts' = attempts PROVE OneRetry'
  BY <1>3 DEF EndFetch, OneRetry
<1>4. CASE Restart
  BY <1>4 DEF Restart, OneRetry
<1>5. CASE LeavesFetchAlone
  BY <1>5 DEF LeavesFetchAlone, OneRetry, PlainQuery, RangeQuery
<1>6. ASSUME EndsInAnswer \/ EndsInCache \/ EndsWithoutVerse PROVE EndFetch /\ attempts' = attempts
  BY <1>6 DEF EndsInAnswer, Succeed, EndsInCache, EndsWithoutVerse, ApplyCachedPassage, GiveUp
<1> QED
  BY <1>1, <1>2, <1>3, <1>4, <1>5, <1>6, Steps DEF StartsFetch

\* Every step keeps OfflineNotice.
LEMMA OfflineStep ==
  ASSUME TypeOK, FetchPhases, CacheKeepsItsPassage, OfflineNotice, [Next]_vars
  PROVE  OfflineNotice'
<1>1. CASE StartsFetch
  BY <1>1, NoneAssumption DEF StartsFetch, Fetch, FetchNotice, OfflineNotice
<1>2. CASE Retry
  BY <1>2 DEF Retry, OfflineNotice
<1>3. ASSUME NEW o \in Answers, Succeed(o) PROVE OfflineNotice'
  <2>1. notice # "offline"
    BY <1>3, AnswerIsRequested DEF Succeed, OfflineNotice
  <2>2. notice' # "offline" /\ source' = "provider"
    BY <1>3, <2>1 DEF Succeed, CachePassage
  <2> QED
    BY <2>2 DEF OfflineNotice
<1>4. CASE EndGuard /\ EndsInCache
  <2>1. PICK e \in Hits : ApplyCachedPassage(e)
    BY <1>4 DEF EndsInCache
  <2>2. e.reference \in References /\ e.reference.anchor = pendingAnchor
    BY DEF Hits, TypeOK, Entries, CacheKeepsItsPassage, Names
  <2>3. e.reference # None
    BY <2>2, NoneAssumption
  <2> QED
    BY <2>1, <2>2, <2>3, ReferenceShownKept DEF ApplyCachedPassage, ApplyVerse, OfflineNotice
<1>5. CASE EndGuard /\ EndsWithoutVerse
  BY <1>5 DEF EndsWithoutVerse, GiveUp, OfflineNotice
<1>6. CASE Restart
  BY <1>6, NoneAssumption DEF Restart, OfflineNotice
<1>7. CASE LeavesFetchAlone
  BY <1>7 DEF LeavesFetchAlone, OfflineNotice
<1> QED
  BY <1>1, <1>2, <1>3, <1>4, <1>5, <1>6, <1>7, Steps DEF EndsInAnswer

\* Every step keeps ErrorMeansNoVerse.
LEMMA ErrorStep ==
  ASSUME TypeOK, FetchPhases, ErrorMeansNoVerse, [Next]_vars
  PROVE  ErrorMeansNoVerse'
<1>1. ASSUME NEW a \in Anchors, Fetch(a) PROVE ErrorMeansNoVerse'
  <2>1. CASE CanSend(RangeRequest(a))
    BY <1>1, <2>1, NoneAssumption DEF Fetch, FetchError, ErrorMeansNoVerse
  <2>2. CASE ~CanSend(RangeRequest(a))
    <3>1. CanSend(RangeRequest(a)) = FALSE
      BY <2>2 DEF CanSend
    <3> QED
      BY <1>1, <3>1 DEF Fetch, Ask, ErrorMeansNoVerse
  <2> QED
    BY <2>1, <2>2
<1>2. CASE Retry
  <2>1. verseReference = None /\ loading
    BY <1>2, AnswerIsRequested DEF Retry, OnResult
  <2>2. CASE CanSend(PlainRequest)
    BY <1>2, <2>1, <2>2 DEF Retry, ErrorMeansNoVerse
  <2>3. CASE ~CanSend(PlainRequest)
    <3>1. CanSend(PlainRequest) = FALSE
      BY <2>3 DEF CanSend
    <3> QED
      BY <1>2, <2>1, <3>1 DEF Retry, Ask, ErrorMeansNoVerse
  <2> QED
    BY <2>2, <2>3
<1>3. ASSUME NEW o \in Answers, Succeed(o) PROVE ErrorMeansNoVerse'
  BY <1>3 DEF Succeed, OnResult, ErrorMeansNoVerse
<1>4. CASE EndGuard /\ EndsInCache
  BY <1>4, NoneAssumption DEF EndsInCache, ApplyCachedPassage, ErrorMeansNoVerse
<1>5. CASE EndGuard /\ EndsWithoutVerse
  BY <1>5 DEF EndGuard, FetchPhases, EndsWithoutVerse, GiveUp, EndFetch, ErrorMeansNoVerse
<1>6. CASE Restart
  BY <1>6, NoneAssumption DEF Restart, ErrorMeansNoVerse
<1>7. CASE LeavesFetchAlone
  BY <1>7, NoneAssumption DEF LeavesFetchAlone, ErrorMeansNoVerse
<1> QED
  BY <1>1, <1>2, <1>3, <1>4, <1>5, <1>6, <1>7, Steps DEF StartsFetch, EndsInAnswer

\* Every step keeps SnapshotIsOneVerse.
LEMMA SnapshotStep ==
  ASSUME TypeOK, FetchPhases, OneRetry, CacheKeepsItsPassage, SnapshotIsOneVerse, [Next]_vars
  PROVE  SnapshotIsOneVerse'
<1>1. ASSUME UNCHANGED snapshot PROVE SnapshotIsOneVerse'
  BY <1>1 DEF SnapshotIsOneVerse, Names
<1>2. ASSUME NEW p, NEW ref \in References, NEW tr, ApplyVerse(p, ref, tr),
             ref.anchor = pendingAnchor, Names(ref, p), p.translation = tr
      PROVE  SnapshotIsOneVerse'
  <2>1. snapshot' \in {snapshot, [passage |-> p, reference |-> ref, translation |-> tr]}
    BY <1>2, ReferenceShownKept DEF ApplyVerse
  <2> QED
    BY <1>2, <2>1 DEF SnapshotIsOneVerse, Names
<1>3. ASSUME NEW o \in Answers, Succeed(o) PROVE SnapshotIsOneVerse'
  <2>1. PassageFor(request).translation = AnswerTranslation
    BY <1>3, AnswerIsRequested DEF Succeed, PassageFor
  <2>2. ApplyVerse(PassageFor(request), AnswerReference(o), AnswerTranslation)
    BY <1>3 DEF Succeed
  <2> QED
    BY <1>2, <1>3, <2>1, <2>2, AnswerIsNamed
<1>4. CASE EndsInCache
  <2>1. PICK e \in Hits : ApplyCachedPassage(e)
    BY <1>4 DEF EndsInCache
  <2>2. /\ Names(e.reference, e.passage) /\ e.passage.translation = e.provider
        /\ e.reference \in References /\ e.reference.anchor = pendingAnchor
    BY DEF Hits, CacheKeepsItsPassage, Names, TypeOK, Entries
  <2>3. ApplyVerse(e.passage, e.reference, e.provider)
    BY <2>1 DEF ApplyCachedPassage
  <2> QED
    BY <1>2, <2>2, <2>3
<1>5. ASSUME ~EndsInAnswer, ~EndsInCache PROVE UNCHANGED snapshot
  BY <1>5, Steps DEF StartsFetch, Fetch, Retry, EndsWithoutVerse, GiveUp, Restart,
     LeavesFetchAlone
<1> QED
  BY <1>1, <1>3, <1>4, <1>5 DEF EndsInAnswer

-----------------------------------------------------------------------------
(* The history. *)

\* What recordHistory makes of the history: capped, without a verse twice in a row,
\* and ending in the verse recorded.
LEMMA RecordedHistory ==
  ASSUME TypeOK, HistoryCursor, NEW a \in Anchors, history = <<>> \/ Last(history) # a
  PROVE  /\ Recorded(a) \in Seq(Anchors) /\ Recorded(a) # <<>>
         /\ Len(Recorded(a)) <= HistoryCap
         /\ \A i \in 1..Len(Recorded(a)) - 1 : Recorded(a)[i] # Recorded(a)[i + 1]
         /\ Last(Recorded(a)) = a
<1> DEFINE longer == Append(history, a)
<1>1. /\ history \in Seq(Anchors) /\ Len(history) \in Nat /\ Len(history) <= HistoryCap
      /\ HistoryCap \in Nat \ {0}
      /\ \A i \in 1..Len(history) - 1 : history[i] # history[i + 1]
  BY VerseFetchAssumption DEF TypeOK, HistoryCursor
<1>2. /\ longer \in Seq(Anchors) /\ Len(longer) = Len(history) + 1 /\ longer # <<>>
      /\ \A i \in 1..Len(history) : longer[i] = history[i]
      /\ longer[Len(longer)] = a
  <2>1. longer \in Seq(Anchors) /\ Len(longer) = Len(history) + 1
    BY <1>1
  <2>2. longer[Len(history) + 1] = a
    BY <1>1
  <2>3. \A i \in 1..Len(history) : longer[i] = history[i]
    BY <1>1
  <2>4. longer # <<>>
    BY <1>1, <2>1
  <2> QED
    BY <2>1, <2>2, <2>3, <2>4
<1>3. \A i \in 1..Len(longer) - 1 : longer[i] # longer[i + 1]
  <2> TAKE i \in 1..Len(longer) - 1
  <2>1. CASE i = Len(history)
    BY <1>1, <1>2, <2>1 DEF Last
  <2>2. CASE i # Len(history)
    BY <1>1, <1>2, <2>2
  <2> QED
    BY <2>1, <2>2
<1>4. CASE Len(longer) > HistoryCap
  <2>1. Recorded(a) = Tail(longer)
    BY <1>4 DEF Recorded
  <2>2. /\ Tail(longer) \in Seq(Anchors) /\ Len(Tail(longer)) = Len(history)
        /\ \A i \in 1..Len(history) : Tail(longer)[i] = longer[i + 1]
    BY <1>1, <1>2
  <2>3. Len(history) = HistoryCap
    BY <1>1, <1>2, <1>4
  <2>4. \A i \in 1..Len(history) - 1 : Tail(longer)[i] # Tail(longer)[i + 1]
    BY <1>1, <1>2, <1>3, <2>2
  <2> HIDE DEF longer
  <2> QED
    BY <1>1, <1>2, <2>1, <2>2, <2>3, <2>4 DEF Last
<1>5. CASE ~(Len(longer) > HistoryCap)
  <2>1. Recorded(a) = longer
    BY <1>5 DEF Recorded
  <2> HIDE DEF longer
  <2> QED
    BY <1>1, <1>2, <1>3, <1>5, <2>1 DEF Last
<1> QED
  BY <1>4, <1>5

\* Every step keeps HistoryCursor.
LEMMA HistoryStep ==
  ASSUME TypeOK, HistoryCursor, [Next]_vars
  PROVE  HistoryCursor'
<1>1. ASSUME NEW a \in Anchors, Load(a) PROVE HistoryCursor'
  <2>1. verseAnchor' = a
    BY <1>1 DEF Load, Fetch
  <2>2. CASE history # <<>> /\ Last(history) = a
    <3>1. UNCHANGED <<history, histPos>>
      BY <1>1, <2>2 DEF Load, RecordHistory, historyVars
    <3>2. histPos # 0
      BY <2>2 DEF HistoryCursor
    <3> QED
      BY <2>1, <2>2, <3>1, <3>2 DEF HistoryCursor, TypeOK, Last
  <2>3. CASE ~(history # <<>> /\ Last(history) = a)
    <3>1. history' = Recorded(a) /\ histPos' = Len(Recorded(a))
      BY <1>1, <2>3 DEF Load, RecordHistory
    <3>2. /\ Recorded(a) \in Seq(Anchors) /\ Recorded(a) # <<>>
          /\ Len(Recorded(a)) <= HistoryCap
          /\ \A i \in 1..Len(Recorded(a)) - 1 : Recorded(a)[i] # Recorded(a)[i + 1]
          /\ Last(Recorded(a)) = a
      BY <2>3, RecordedHistory
    <3>3. Len(Recorded(a)) \in Nat /\ Len(Recorded(a)) > 0
      BY <3>2
    <3> QED
      BY <2>1, <3>1, <3>2, <3>3 DEF HistoryCursor, Last
  <2> QED
    BY <2>2, <2>3
<1>2. CASE Back
  <2>1. /\ histPos' = histPos - 1 /\ histPos > 1 /\ history' = history
        /\ verseAnchor' = history[histPos - 1]
    BY <1>2 DEF Back, Fetch
  <2> QED
    BY <2>1 DEF HistoryCursor, TypeOK, Last
<1>3. CASE Forward
  <2>1. /\ histPos' = histPos + 1 /\ histPos > 0 /\ histPos < Len(history)
        /\ history' = history /\ verseAnchor' = history[histPos + 1]
    BY <1>3 DEF Forward, Fetch
  <2> QED
    BY <2>1 DEF HistoryCursor, TypeOK, Last
<1>4. ASSUME UNCHANGED <<history, histPos, verseAnchor>> PROVE HistoryCursor'
  BY <1>4 DEF HistoryCursor, Last
<1>5. CASE EndsInAnswer \/ Retry \/ OnFetchTimeout \/ UNCHANGED vars
  BY <1>4, <1>5 DEF EndsInAnswer, Succeed, Retry, OnFetchTimeout, ApplyCachedPassage, GiveUp, vars,
     verseVars, historyVars
<1>6. ASSUME NEW e \in Hits, Fallback(e) PROVE HistoryCursor'
  BY <1>4, <1>6 DEF Fallback, ApplyCachedPassage, historyVars
<1>7. ASSUME NEW o \in Outcomes \ Answers, Fail(o) PROVE HistoryCursor'
  BY <1>4, <1>7 DEF Fail, GiveUp, historyVars
<1>8. ASSUME NEW key \in Keys \cup {NoKey}, NEW choice \in Choices, SaveSettings(key, choice)
      PROVE  HistoryCursor'
  BY <1>4, <1>8 DEF SaveSettings, verseVars, historyVars
<1>9. CASE RejectReference \/ EditFavorites
  BY <1>4, <1>9 DEF RejectReference, EditFavorites, historyVars
<1>10. CASE Restart
  <2>1. history' = <<>> /\ histPos' = 0 /\ verseAnchor' = None
    BY <1>10 DEF Restart
  <2> QED
    BY <2>1, VerseFetchAssumption DEF HistoryCursor
<1> QED
  BY <1>1, <1>2, <1>3, <1>5, <1>6, <1>7, <1>8, <1>9, <1>10 DEF Next, EndsInAnswer

-----------------------------------------------------------------------------
(* The inductive invariant: the conjunction of what the runs check.  Each   *)
(* part needs TypeOK and FetchPhases, and what is shown or kept for the     *)
(* notification needs what the cache holds.                                 *)

Inv ==
  /\ TypeOK /\ FetchPhases
  /\ ShownIsRequested /\ CacheKeepsItsPassage /\ OneRetry /\ OfflineNotice
  /\ ErrorMeansNoVerse /\ HistoryCursor /\ SnapshotIsOneVerse

\* The program starts in a state that satisfies every part of the invariant.
LEMMA InitInv == Init => Inv
<1> SUFFICES ASSUME Init PROVE Inv
  OBVIOUS
<1> USE VerseFetchAssumption, NoneAssumption
<1>1. TypeOK
  <2>1. history \in Seq(Anchors) /\ histPos \in 0..Len(history)
    BY DEF Init
  <2>2. retried \in [{"esv", "web"} -> BOOLEAN]
    BY DEF Init
  <2> QED
    BY <2>1, <2>2 DEF Init, TypeOK
<1>2. FetchPhases /\ ShownIsRequested /\ CacheKeepsItsPassage
  BY DEF Init, FetchPhases, ShownIsRequested, CacheKeepsItsPassage
<1>3. OneRetry /\ OfflineNotice /\ ErrorMeansNoVerse /\ SnapshotIsOneVerse
  BY DEF Init, OneRetry, OfflineNotice, ErrorMeansNoVerse, SnapshotIsOneVerse
<1>4. HistoryCursor
  <2>1. history = <<>> /\ histPos = 0 /\ verseAnchor = None
    BY DEF Init
  <2>2. Len(history) = 0 /\ 1..Len(history) - 1 = {}
    BY <2>1
  <2> QED
    BY <2>1, <2>2 DEF HistoryCursor
<1> QED
  BY <1>1, <1>2, <1>3, <1>4 DEF Inv

\* Every step of the program keeps the invariant.
LEMMA Inductive == Inv /\ [Next]_vars => Inv'
<1> SUFFICES ASSUME Inv, [Next]_vars PROVE Inv'
  OBVIOUS
<1>1. TypeOK' /\ FetchPhases'
  BY TypeStep, PhasesStep DEF Inv
<1>2. ShownIsRequested' /\ CacheKeepsItsPassage' /\ OneRetry'
  BY ShownStep, CacheStep, RetryStep DEF Inv
<1>3. OfflineNotice' /\ ErrorMeansNoVerse' /\ HistoryCursor' /\ SnapshotIsOneVerse'
  BY OfflineStep, ErrorStep, HistoryStep, SnapshotStep DEF Inv
<1> QED
  BY <1>1, <1>2, <1>3 DEF Inv

\* The invariant holds in every state the verse fetch of controller.cpp can
\* reach.
THEOREM Invariance == Spec => []Inv
<1> QED
  BY InitInv, Inductive, PTL DEF Spec

\* Every variable keeps its type.
THEOREM TypeCorrect == Spec => []TypeOK
<1>1. Inv => TypeOK
  BY DEF Inv
<1> QED
  BY <1>1, Invariance, PTL

\* The spinner, the timeout and the outstanding request of fetch, its retry
\* and its timeout always come and go together, and the request is the one
\* the controller waits for.
THEOREM PhasesAgree == Spec => []FetchPhases
<1>1. Inv => FetchPhases
  BY DEF Inv
<1> QED
  BY <1>1, Invariance, PTL

\* A reference on display is of the verse asked for last and names the very
\* passage beside it, range or plain verse, in the translation named; but the
\* plain-anchor retry, answered without a name, is shown as the range.
THEOREM ShownTextIsRequested == Spec => []ShownIsRequested
<1>1. Inv => ShownIsRequested
  BY DEF Inv
<1> QED
  BY <1>1, Invariance, PTL

\* cacheCurrentPassage files every passage under its own verse and
\* translation, with a reference that names it or the range around it, and the
\* ESV never without a key.
THEOREM CacheIsFiledRight == Spec => []CacheKeepsItsPassage
<1>1. Inv => CacheKeepsItsPassage
  BY DEF Inv
<1> QED
  BY <1>1, Invariance, PTL

\* No load makes more than one retry, and that one for the plain anchor.
THEOREM RetriesOnce == Spec => []OneRetry
<1>1. Inv => OneRetry
  BY DEF Inv
<1> QED
  BY <1>1, Invariance, PTL

\* The offline notice is shown for a verse of the cache, and for no other.
THEOREM NoticeIsHonest == Spec => []OfflineNotice
<1>1. Inv => OfflineNotice
  BY DEF Inv
<1> QED
  BY <1>1, Invariance, PTL

\* The error of a fetch is never shown beside a verse or during a load.
THEOREM ErrorIsAlone == Spec => []ErrorMeansNoVerse
<1>1. Inv => ErrorMeansNoVerse
  BY DEF Inv
<1> QED
  BY <1>1, Invariance, PTL

\* The cursor of back and forward stays in the capped history.
THEOREM CursorInHistory == Spec => []HistoryCursor
<1>1. Inv => HistoryCursor
  BY DEF Inv
<1> QED
  BY <1>1, Invariance, PTL

\* The daily notification never gets the text of one verse and the reference
\* or the translation of another; the reference may be the range around it.
THEOREM SnapshotIsWhole == Spec => []SnapshotIsOneVerse
<1>1. Inv => SnapshotIsOneVerse
  BY DEF Inv
<1> QED
  BY <1>1, Invariance, PTL

\* The phases of a load agree and it retries once at most.
THEOREM LoadsAreSound == Spec => []FetchIsSound
<1> QED
  BY PhasesAgree, RetriesOnce, PTL DEF FetchIsSound

\* The parts of the display are always those of one answer: its text, a name of
\* it in the sense of Names, its translation, and the notice and error of its load.
THEOREM DisplayAgrees == Spec => []DisplayIsRight
<1> QED
  BY ShownTextIsRequested, NoticeIsHonest, ErrorIsAlone, SnapshotIsWhole, PTL DEF DisplayIsRight

-----------------------------------------------------------------------------
(* The actions. *)

\* applyCachedPassage is reached from a transient failure or the timeout only,
\* and never with the ESV when no key is set.
LEMMA FallbackStep ==
  ASSUME Inv, [Next]_vars, notice' = "offline", notice # "offline"
  PROVE  /\ loading
         /\ result' = Answered("transient") \/ fetchSeq' = fetchSeq + 1
         /\ translationId' = "esv" => apiKey # NoKey
<1>1. TypeOK /\ FetchPhases /\ CacheKeepsItsPassage
  BY DEF Inv
<1>2. ASSUME NEW e \in Hits, ApplyCachedPassage(e)
      PROVE  translationId' = "esv" => apiKey # NoKey
  BY <1>1, <1>2 DEF ApplyCachedPassage, ApplyVerse, Hits, KeyOf, CacheKeepsItsPassage
<1>3. ASSUME NEW e \in Hits, Fallback(e)
      PROVE  loading /\ result' = Answered("transient")
             /\ (translationId' = "esv" => apiKey # NoKey)
  BY <1>2, <1>3 DEF Fallback, OnResult
<1>4. CASE OnFetchTimeout
  BY <1>2, <1>4 DEF OnFetchTimeout, GiveUp
<1>5. CASE \E e \in Hits : Fallback(e)
  BY <1>3, <1>5
<1>6. CASE EndsInAnswer
  BY <1>6 DEF EndsInAnswer, Succeed, CachePassage
<1>7. ASSUME NEW a \in Anchors, Fetch(a) PROVE FALSE
  BY <1>7, NoneAssumption DEF Fetch, FetchNotice
<1>8. CASE \E a \in Anchors : Load(a)
  BY <1>7, <1>8 DEF Load
<1>9. CASE Back \/ Forward
  <2>1. Back => history[histPos - 1] \in Anchors
    BY <1>1 DEF Back, TypeOK
  <2>2. Forward => history[histPos + 1] \in Anchors
    BY <1>1 DEF Forward, TypeOK
  <2> QED
    BY <1>7, <1>9, <2>1, <2>2 DEF Back, Forward
<1>10. CASE Restart
  BY <1>10, NoneAssumption DEF Restart
<1>11. ASSUME UNCHANGED notice PROVE FALSE
  BY <1>11
<1>12. CASE Retry \/ (\E o \in Outcomes \ Answers : Fail(o)) \/ RejectReference
            \/ EditFavorites \/ UNCHANGED vars
  BY <1>11, <1>12 DEF Retry, Fail, GiveUp, RejectReference, EditFavorites, vars, verseVars
<1>13. CASE \E key \in Keys \cup {NoKey}, choice \in Choices : SaveSettings(key, choice)
  BY <1>11, <1>13 DEF SaveSettings, verseVars
<1> QED
  BY <1>4, <1>5, <1>6, <1>8, <1>9, <1>10, <1>12, <1>13 DEF Next, EndsInAnswer

\* The cache never answers for a refusal, a failed authentication or a payload
\* that does not validate, nor with the ESV without a key.
THEOREM FallbackIsGuarded == Spec => FallbackOnlyWhenTransient
<1>1. Inv /\ [Next]_vars
      => [notice' = "offline" /\ notice # "offline" =>
            /\ loading
            /\ result' = Answered("transient") \/ fetchSeq' = fetchSeq + 1
            /\ translationId' = "esv" => apiKey # NoKey]_vars
  BY FallbackStep
<1> QED
  BY <1>1, Invariance, PTL DEF Spec, FallbackOnlyWhenTransient

-----------------------------------------------------------------------------
(* The controller as a caller of the fetcher and of the cache. *)

\* What Ask does with a request is to send it or to have it refused.
LEMMA AskIsServiceStep ==
  ASSUME NEW q \in Requests, NEW answered, Ask(q, answered)
  PROVE  \/ request' \in Sendable /\ result' = answered
         \/ /\ request' = None
            /\ result' \in [request : Requests \ Sendable, outcome : {Refused}]
<1>1. CASE CanSend(q)
  BY <1>1 DEF Ask, Sendable
<1>2. CASE ~CanSend(q)
  <2>1. CanSend(q) = FALSE /\ q \in Requests \ Sendable
    BY <1>2 DEF CanSend, Sendable
  <2> QED
    BY <2>1 DEF Ask
<1> QED
  BY <1>1, <1>2

\* fetch sends its request or has it refused.
LEMMA FetchIsServiceStep ==
  ASSUME TypeOK, NEW a \in Anchors, Fetch(a)
  PROVE  Service!Send \/ Service!Refuse
BY RequestTypes, AskIsServiceStep DEF Fetch, Service!Send, Service!Refuse

\* An answer that ends the load leaves nothing outstanding.
LEMMA EndIsServiceStep ==
  ASSUME TypeOK, OnResult, EndFetch, NEW o \in Outcomes, result' = Answered(o)
  PROVE  Service!Answer
BY DEF OnResult, EndFetch, Answered, Service!Answer

\* The retry is sent within the answer to the request it replaces, or refused.
LEMMA RetryIsServiceStep ==
  ASSUME TypeOK, FetchPhases, Retry
  PROVE  Service!Answer \/ Service!Refuse
<1>1. PlainRequest \in Requests
  BY PendingIsReference, RequestTypes, NoneAssumption DEF Retry, OnResult
<1>2. request # None /\ Answered("rangeUnsupported") \in [request : {request}, outcome : Outcomes]
  BY DEF Retry, OnResult, Answered, Outcomes
<1>3. Ask(PlainRequest, Answered("rangeUnsupported"))
  BY DEF Retry
<1> QED
  BY <1>1, <1>2, <1>3, AskIsServiceStep DEF Service!Answer, Service!Refuse

\* All the controller does to the fetcher, and all it learns from it, is what
\* a FetchService allows.
THEOREM UsesTheService == Spec => ServiceSpec
<1>1. ASSUME Inv, [Next]_vars PROVE [Service!Next \/ Restart]_<<request, result>>
  <2>1. TypeOK /\ FetchPhases
    BY <1>1 DEF Inv
  <2>2. CASE \E a \in Anchors : Load(a)
    BY <2>1, <2>2, FetchIsServiceStep DEF Load, Service!Next
  <2>3. CASE Back \/ Forward
    <3>1. Back => history[histPos - 1] \in Anchors
      BY <2>1 DEF Back, TypeOK
    <3>2. Forward => history[histPos + 1] \in Anchors
      BY <2>1 DEF Forward, TypeOK
    <3> QED
      BY <2>1, <2>3, <3>1, <3>2, FetchIsServiceStep DEF Back, Forward, Service!Next
  <2>4. CASE \E o \in Answers : Succeed(o)
    BY <2>1, <2>4, EndIsServiceStep DEF Succeed, Outcomes, Service!Next
  <2>5. CASE Retry
    BY <2>1, <2>5, RetryIsServiceStep DEF Service!Next
  <2>6. CASE \E e \in Hits : Fallback(e)
    BY <2>1, <2>6, EndIsServiceStep DEF Fallback, ApplyCachedPassage, Outcomes, Service!Next
  <2>7. CASE \E o \in Outcomes \ Answers : Fail(o)
    BY <2>1, <2>7, EndIsServiceStep DEF Fail, GiveUp, Service!Next
  <2>8. CASE OnFetchTimeout
    <3>1. request' = None /\ result' = result
      BY <2>8 DEF OnFetchTimeout, ApplyCachedPassage, GiveUp, EndFetch
    <3> QED
      BY <3>1 DEF Service!Abort, Service!Next
  <2>9. CASE \/ \E key \in Keys \cup {NoKey}, choice \in Choices : SaveSettings(key, choice)
             \/ RejectReference \/ EditFavorites \/ UNCHANGED vars
    BY <2>9 DEF SaveSettings, RejectReference, EditFavorites, vars, fetchVars
  <2> QED
    BY <1>1, <2>2, <2>3, <2>4, <2>5, <2>6, <2>7, <2>8, <2>9 DEF Next
<1> QED
  BY <1>1, Invariance, PTL DEF Spec, ServiceSpec

\* What a step does to the cache.
LEMMA CacheSteps ==
  ASSUME TypeOK, FetchPhases, [Next]_vars
  PROVE  \/ cache' = cache
         \/ \E new \in Entries : cache' = {e \in cache : ~SameKey(e, new)} \cup {new}
<1>1. ASSUME NEW o \in Answers, Succeed(o)
      PROVE  \/ cache' = cache
             \/ \E new \in Entries : cache' = {e \in cache : ~SameKey(e, new)} \cup {new}
  <2>1. /\ request \in Requests /\ pendingAnchor \in Anchors
        /\ pendingProvider \in Translations
    BY <1>1, PendingIsReference DEF Succeed, OnResult
  <2>2. NewEntry(o) \in Entries
    BY <2>1 DEF NewEntry, AnswerReference, RangeQuery, Entries, Passages, PassageFor, Requests,
       References, KeyOf, Translations, TypeOK
  <2> QED
    BY <1>1, <2>2 DEF Succeed, CachePassage
<1>2. CASE ~EndsInAnswer
  BY <1>2, Steps DEF StartsFetch, Fetch, Retry, EndsInCache, ApplyCachedPassage,
     EndsWithoutVerse, GiveUp, Restart, LeavesFetchAlone
<1> QED
  BY <1>1, <1>2 DEF EndsInAnswer

\* The cache the controller works with is a PassageStore: a lookup finds what
\* was stored last under its verse, provider and key, or nothing.
THEOREM UsesTheStore == Spec => StoreSpec
<1> DEFINE Key(e) == <<e.provider, e.anchor, e.key>>
           Kept(c) == {[key |-> Key(e), value |-> e] : e \in c}
<1>1. Init => Store!Init
  BY DEF Init, Store!Init
<1>2. ASSUME TypeOK, FetchPhases, [Next]_vars
      PROVE  [Store!Next]_(Kept(cache))
  <2>1. CASE cache' = cache
    BY <2>1
  <2>2. ASSUME NEW entry \in Entries, cache' = {e \in cache : ~SameKey(e, entry)} \cup {entry}
        PROVE  [Store!Next]_(Kept(cache))
    <3> DEFINE new == [key |-> Key(entry), value |-> entry]
    <3>1. new \in Kept(cache')
      BY <2>2
    <3>2. ASSUME NEW f \in Kept(cache') PROVE f = new \/ (f \in Kept(cache) /\ f.key # new.key)
      <4>1. PICK e \in cache' : f = [key |-> Key(e), value |-> e]
        BY <3>2
      <4>2. CASE e = entry
        BY <4>1, <4>2
      <4>3. CASE e \in cache /\ ~SameKey(e, entry)
        BY <4>1, <4>3 DEF SameKey
      <4> QED
        BY <2>2, <4>2, <4>3
    <3>3. new.key \in Translations \X Anchors \X (Keys \cup {NoKey})
      BY <2>2 DEF Entries
    <3>4. new \in Store!Entries
      BY <2>2, <3>3 DEF Store!Entries
    <3> HIDE DEF new, Kept
    <3>5. Kept(cache') \subseteq {f \in Kept(cache) : f.key # new.key} \cup {new}
      BY <3>2
    <3>6. \E e \in Kept(cache') :
            /\ e \in Store!Entries /\ e \in Kept(cache')
            /\ Kept(cache') \subseteq {f \in Kept(cache) : f.key # e.key} \cup {e}
      BY <3>1, <3>4, <3>5
    <3> QED
      BY <3>6 DEF Store!Next, Store!Put, Kept
  <2> QED
    BY <1>2, <2>1, <2>2, CacheSteps
<1>3. Inv /\ [Next]_vars => [Store!Next]_(Kept(cache))
  BY <1>2 DEF Inv
<1> QED
  BY <1>1, <1>3, Invariance, PTL DEF Spec, StoreSpec, Store!Spec

\* The controller keeps to the contracts of the fetcher and of the cache.
THEOREM ContractsAreKept == Spec => KeepsContracts
  BY UsesTheService, UsesTheStore DEF KeepsContracts
=============================================================================
