----------------------------- MODULE VerseFetch -----------------------------
(***************************************************************************)
(* The verse fetch of AppController (src/src/controller.cpp): loading a    *)
(* verse from a provider, the single plain-anchor retry, the 25 s timeout, *)
(* the fallback to the passage cache, history navigation, and what the     *)
(* overlay, the exports and the notification say about the verse.  Every   *)
(* slot runs to its end on the main thread; between two of them anything   *)
(* may happen: another load, a change of the settings, an edit of the      *)
(* favourites, the end of the process.                                     *)
(*                                                                         *)
(* A passage is represented by where it came from: the reference that was  *)
(* answered, be it a range or the plain verse, the translation, and the    *)
(* key it was asked for with.  The range a verse is read in and the focal  *)
(* verse are functions of the anchor, so they need no variables of their   *)
(* own.  The fetcher is used as a FetchService.                            *)
(***************************************************************************)
EXTENDS Naturals, Sequences, FiniteSets

CONSTANTS Anchors,      \* normalized references
          RangeAnchors, \* those rangeQuery turns into a range around a verse
          FarAnchors,   \* those whose range is no valid reference (verse 998 on)
          Choices,      \* translations offered in Settings
          Keys,         \* ESV API keys
          NoKey,        \* the empty key
          HistoryCap,   \* HistoryCap of controller.h
          MaxSeq,       \* bound: no load once m_fetchSeq has reached it
          None

VARIABLES
  translation,      \* setting "translation"
  apiKey,           \* m_apiKey
  loading,          \* m_loading
  timer,            \* m_fetchTimeout is running
  fetchSeq,         \* m_fetchSeq
  pendingAnchor,    \* m_pendingAnchor
  pendingProvider,  \* m_pendingProvider
  webTranslation,   \* m_currentWebTranslation
  retried,          \* m_esvRetried and m_webRetried
  attempts,         \* requests made for the current load (not in the code)
  request, result,  \* the fetcher, see FetchService
  shown,            \* the passage in m_contextBefore, m_verseText, m_contextAfter
  source,           \* where it came from: "provider" or "cache" (not in the code)
  verseAnchor,      \* m_verseAnchor
  verseReference,   \* m_verseReference
  translationId,    \* m_translationId and m_translationName
  notice,           \* m_fetchNotice
  errorText,        \* m_errorText; "other": not about a fetch
  history,          \* m_history
  histPos,          \* m_histPos + 1: 0 when there is no history
  cache,            \* entries of the passage cache that may still be served
  snapshot          \* reference and text kept for the daily notification

settings == <<translation, apiKey>>
fetchVars == <<loading, timer, fetchSeq, pendingAnchor, pendingProvider,
               webTranslation, retried, attempts, request, result>>
verseVars == <<shown, source, verseAnchor, verseReference, translationId, notice, errorText>>
historyVars == <<history, histPos>>
vars == <<settings, fetchVars, verseVars, historyVars, cache, snapshot>>
-----------------------------------------------------------------------------
(* References, requests and passages. *)

Translations == {"esv", "web", "kjv"}

KeyOf(provider, key) == IF provider = "esv" THEN key ELSE NoKey

References == [anchor : Anchors, plain : BOOLEAN]

RangeQuery(a) == [anchor |-> a, plain |-> a \notin RangeAnchors]
PlainQuery(a) == [anchor |-> a, plain |-> TRUE]

\* What normalizeReference leaves as it is; it makes nothing of the others.
Normal(ref) == ref.plain \/ ref.anchor \notin FarAnchors

Passages == [ref : References, translation : Translations, key : Keys \cup {NoKey}]

Requests == [tag : Nat, translation : Translations, ref : References,
             key : Keys \cup {NoKey}]

\* The checks of fetchEsv and fetchWeb: the reference can be encoded, and the
\* ESV is not asked without a key.
CanSend(q) ==
  /\ Normal(q.ref)
  /\ q.translation = "esv" => q.key # NoKey

Sendable == {q \in Requests : CanSend(q)}

\* The provider answers what it is asked.
PassageFor(q) == [ref |-> q.ref, translation |-> q.translation, key |-> q.key]

\* onEsvResult or onWebResult, with a retry flag each.
Kind(tr) == IF tr = "esv" THEN "esv" ELSE "web"

\* What the two slots tell apart in an answer: a payload that passes all
\* checks, with a name normalizeReference takes or without one; an error for
\* which shouldRetryRange holds whenever the range and the anchor differ; one
\* for which isTransientFetchFailure holds; any other.
Answers == {"named", "unnamed"}
Outcomes == Answers \cup {"rangeUnsupported", "transient", "fatal"}
Refused == "refused"

\* providerChoice, and ESV replaced by the World English Bible without a key.
Provider == IF translation = "esv" /\ apiKey = NoKey THEN "web" ELSE translation

Entries == [provider : Translations, anchor : Anchors, key : Keys \cup {NoKey},
            reference : References, passage : Passages]

SameKey(e, f) == e.provider = f.provider /\ e.anchor = f.anchor /\ e.key = f.key

Contents == [passage : Passages, reference : References, translation : Translations]

Last(s) == s[Len(s)]

ASSUME VerseFetchAssumption ==
  /\ RangeAnchors \subseteq Anchors /\ FarAnchors \subseteq RangeAnchors
  /\ Choices \subseteq Translations
  /\ HistoryCap \in Nat \ {0} /\ MaxSeq \in Nat
  /\ NoKey \notin Keys

\* None is none of the things it stands in for.
ASSUME NoneAssumption ==
  /\ None \notin Anchors \cup References \cup Translations \cup Requests \cup Passages
                 \cup Contents
  /\ None \notin {"fetch", "timeout", "other", "setKey", "offline", "cacheUnavailable",
                  "provider", "cache"}
-----------------------------------------------------------------------------
\* The constructor reports what it could not read of the key, the favourites or
\* the cache in m_errorText.
Init ==
  /\ translation \in Choices /\ apiKey \in Keys \cup {NoKey}
  /\ loading = FALSE /\ timer = FALSE /\ fetchSeq = 0
  /\ pendingAnchor = None /\ pendingProvider = None /\ webTranslation = "web"
  /\ retried = [k \in {"esv", "web"} |-> FALSE] /\ attempts = 0
  /\ request = None /\ result = None
  /\ shown = None /\ source = None
  /\ verseAnchor = None /\ verseReference = None /\ translationId = None
  /\ notice = None /\ errorText \in {None, "other"}
  /\ history = <<>> /\ histPos = 0
  /\ cache = {} /\ snapshot = None
-----------------------------------------------------------------------------
(* Starting a fetch. *)

\* Seeded fault: fetchEsv without its check of the key and the reference.
FaultAskUnchecked(q, answered) ==
  request' = q /\ result' = answered /\ loading' = TRUE /\ timer' = TRUE

\* Seeded fault: the retry does not start the timeout that was stopped.
FaultAskUntimed(q, answered) ==
  /\ request' = IF CanSend(q) THEN q ELSE None
  /\ result' = IF CanSend(q) THEN answered ELSE [request |-> q, outcome |-> Refused]
  /\ loading' = CanSend(q)
  /\ timer' = (CanSend(q) /\ q.tag = 1)

\* fetchEsv or fetchWeb, called with the timeout running and m_loading set.
\* A refusal is answered inside the call: the slot finds nothing to retry and
\* nothing transient, and ends the load.
Ask(q, answered) ==
  /\ request' = IF CanSend(q) THEN q ELSE None
  /\ result' = IF CanSend(q) THEN answered ELSE [request |-> q, outcome |-> Refused]
  /\ loading' = CanSend(q)
  /\ timer' = CanSend(q)

RangeRequest(a) ==
  [tag |-> fetchSeq + 1, translation |-> Provider, ref |-> RangeQuery(a),
   key |-> KeyOf(Provider, apiKey)]

\* Seeded fault: the ESV is recorded as the translation of the web provider.
FaultWebTranslation == Provider

WebTranslation == IF Provider = "esv" THEN webTranslation ELSE Provider

FetchNotice == IF translation = "esv" /\ apiKey = NoKey THEN "setKey" ELSE None

\* m_errorText is cleared; a refused request sets it again.
FetchError(a) == IF CanSend(RangeRequest(a)) THEN None ELSE "fetch"

\* fetch, without the history.  The reference of the verse on display is
\* cleared and, for the ESV, its translation; its text stays until an answer
\* replaces it.
Fetch(a) ==
  /\ fetchSeq < MaxSeq
  /\ fetchSeq' = fetchSeq + 1
  /\ verseAnchor' = a
  /\ pendingAnchor' = a
  /\ pendingProvider' = Provider
  /\ webTranslation' = WebTranslation
  /\ retried' = [k \in {"esv", "web"} |-> FALSE]
  /\ attempts' = 1
  /\ verseReference' = None
  /\ translationId' = IF Provider = "esv" THEN None ELSE translationId
  /\ notice' = FetchNotice
  /\ errorText' = FetchError(a)
  /\ Ask(RangeRequest(a), result)
  /\ UNCHANGED <<settings, shown, source, cache, snapshot>>

\* Seeded fault: the cap of the history is off by one.
FaultRecorded(a) ==
  LET longer == Append(history, a)
  IN  IF Len(longer) > HistoryCap + 1 THEN Tail(longer) ELSE longer

\* recordHistory: nothing when the anchor is the last entry, else it is
\* appended, the oldest entries give way, and the cursor goes to the end.
Recorded(a) ==
  LET longer == Append(history, a)
  IN  IF Len(longer) > HistoryCap THEN Tail(longer) ELSE longer

RecordHistory(a) ==
  IF history # <<>> /\ Last(history) = a
  THEN UNCHANGED historyVars
  ELSE history' = Recorded(a) /\ histPos' = Len(Recorded(a))

\* load_reference with a valid reference, and refresh with a fixed reference
\* or a card of the deck.
Load(a) == Fetch(a) /\ RecordHistory(a)

\* back and forward, which the overlay offers by histCanBack, histCanForward.
Back ==
  /\ ~loading /\ histPos > 1
  /\ histPos' = histPos - 1
  /\ Fetch(history[histPos - 1])
  /\ UNCHANGED history

Forward ==
  /\ ~loading /\ histPos > 0 /\ histPos < Len(history)
  /\ histPos' = histPos + 1
  /\ Fetch(history[histPos + 1])
  /\ UNCHANGED history
-----------------------------------------------------------------------------
(* The end of a fetch. *)

EndFetch ==
  /\ loading' = FALSE /\ timer' = FALSE
  /\ request' = None

\* applyVerse falls back to the range of the load, too.
ReferenceShown(reference) ==
  IF Normal(reference) THEN reference ELSE RangeQuery(pendingAnchor)

\* applyVerse, but for the reveal.  The snapshot may fail to be stored.
ApplyVerse(passage, reference, tr) ==
  /\ shown' = passage
  /\ verseReference' = ReferenceShown(reference)
  /\ translationId' = tr
  /\ snapshot' \in {snapshot, [passage |-> passage, reference |-> verseReference',
                               translation |-> tr]}
  /\ retried' = [retried EXCEPT !["esv"] = FALSE]

Answered(o) == [request |-> request, outcome |-> o]

\* The guard of both slots.  An answer it would turn away never comes, by
\* FetchPhases, so there is no action for one.
OnResult == request # None /\ loading /\ request.tag = fetchSeq

\* Seeded fault: the answer is named by the range of the load, whatever it says
\* it is.
FaultAnswerReference(o) == RangeQuery(pendingAnchor)

\* The reference of the answer: its own name for what it holds, else the range
\* of the load, m_pendingReference, although the plain anchor may have been
\* asked for since.
AnswerReference(o) == IF o = "named" THEN request.ref ELSE RangeQuery(pendingAnchor)

\* The entry cacheCurrentPassage builds of the answer and of the pending
\* fields and the key as they are when it arrives.
NewEntry(o) ==
  LET provider == IF request.translation = "esv" THEN "esv" ELSE pendingProvider
  IN  [provider |-> provider, anchor |-> pendingAnchor, key |-> KeyOf(provider, apiKey),
       reference |-> AnswerReference(o), passage |-> PassageFor(request)]

AnswerTranslation == IF request.translation = "esv" THEN "esv" ELSE webTranslation

\* Seeded fault: isValid accepts an ESV entry without a fingerprint.
FaultStorable(e) == e.provider = AnswerTranslation

\* PassageCache::isValid, as far as it depends on the state: an ESV entry needs
\* the fingerprint of a key, the provider is the translation, and the
\* references are normalized.
Storable(e) ==
  /\ e.provider = "esv" => e.key # NoKey
  /\ e.provider = AnswerTranslation
  /\ Normal(RangeQuery(e.anchor)) /\ Normal(e.reference)

\* PassageCache::put, which may fail at the disk or on an invalid entry: one
\* without text or marker of the focal verse, or under another spelling of the
\* book.
CachePassage(e) ==
  \/ /\ Storable(e)
     /\ cache' = {f \in cache : ~SameKey(f, e)} \cup {e}
     /\ UNCHANGED notice
  \/ /\ notice' = IF notice = None THEN "cacheUnavailable" ELSE notice
     /\ UNCHANGED cache

\* A validated payload: cached and shown.  m_errorText is not touched.
Succeed(o) ==
  /\ OnResult
  /\ EndFetch
  /\ result' = Answered(o)
  /\ CachePassage(NewEntry(o))
  /\ ApplyVerse(PassageFor(request), AnswerReference(o), AnswerTranslation)
  /\ source' = "provider"
  /\ UNCHANGED <<settings, fetchSeq, pendingAnchor, pendingProvider, webTranslation,
                 attempts, verseAnchor, errorText, historyVars>>

\* Seeded fault: alreadyRetried is not looked at.
FaultMayRetry == ~RangeQuery(pendingAnchor).plain

\* shouldRetryRange, as far as it depends on the state.
MayRetry ==
  /\ ~retried[Kind(request.translation)]
  /\ ~RangeQuery(pendingAnchor).plain

PlainRequest ==
  [tag |-> fetchSeq + 1, translation |-> AnswerTranslation,
   ref |-> PlainQuery(pendingAnchor), key |-> KeyOf(AnswerTranslation, apiKey)]

\* The retry with the plain anchor, under the key of the moment; it has a
\* tag and a timeout of its own.
Retry ==
  /\ OnResult
  /\ MayRetry
  /\ retried' = [retried EXCEPT ![Kind(request.translation)] = TRUE]
  /\ attempts' = attempts + 1
  /\ fetchSeq' = fetchSeq + 1
  /\ Ask(PlainRequest, Answered("rangeUnsupported"))
  /\ errorText' = IF CanSend(PlainRequest) THEN errorText ELSE "fetch"
  /\ UNCHANGED <<settings, pendingAnchor, pendingProvider, webTranslation, shown, source,
                 verseAnchor, verseReference, translationId, notice, historyVars,
                 cache, snapshot>>

\* What PassageCache::get may find for the pending load: nothing for the ESV
\* without a key.
Hits ==
  {e \in cache : /\ e.provider = pendingProvider /\ e.anchor = pendingAnchor
                 /\ e.key = KeyOf(pendingProvider, apiKey)}

\* applyCachedPassage with an entry.
ApplyCachedPassage(e) ==
  /\ EndFetch
  /\ notice' = "offline"
  /\ errorText' = None
  /\ ApplyVerse(e.passage, e.reference, e.provider)
  /\ source' = "cache"
  /\ UNCHANGED <<settings, pendingAnchor, pendingProvider, webTranslation, attempts,
                 verseAnchor, historyVars, cache>>

\* Seeded fault: the cache answers for a failed authentication, too.
FaultFallback(e) ==
  /\ OnResult
  /\ result' = Answered("fatal")
  /\ ApplyCachedPassage(e)
  /\ UNCHANGED fetchSeq

Fallback(e) ==
  /\ OnResult
  /\ result' = Answered("transient")
  /\ ApplyCachedPassage(e)
  /\ UNCHANGED fetchSeq

\* The end of a load without a verse.
GiveUp(text) ==
  /\ EndFetch
  /\ errorText' = text
  /\ UNCHANGED <<settings, pendingAnchor, pendingProvider, webTranslation, retried,
                 attempts, shown, source, verseAnchor, verseReference, translationId,
                 notice, historyVars, cache, snapshot>>

\* Any answer that is not a verse and leads to no retry.  A transient failure
\* ends here when get finds nothing: entries expire, are evicted, and are all
\* lost with an unreadable file.
Fail(o) ==
  /\ OnResult
  /\ o = "rangeUnsupported" => ~MayRetry
  /\ result' = Answered(o)
  /\ GiveUp("fetch")
  /\ UNCHANGED fetchSeq

\* onFetchTimeout, with an entry of the cache or without.
OnFetchTimeout ==
  /\ timer /\ loading
  /\ fetchSeq' = fetchSeq + 1
  /\ UNCHANGED result
  /\ \/ \E e \in Hits : ApplyCachedPassage(e)
     \/ GiveUp("timeout")
-----------------------------------------------------------------------------
(* The rest of the program, as far as it touches this state. *)

\* save_all_settings: a fetch under way keeps the provider it was started
\* with.  Its other effects are not part of this module.
SaveSettings(key, choice) ==
  /\ apiKey' = key /\ translation' = choice
  /\ UNCHANGED <<fetchVars, verseVars, historyVars, cache, snapshot>>

\* load_reference with an invalid reference; refresh with an invalid fixed
\* reference or filters that match no verse.
RejectReference ==
  /\ errorText' = "other"
  /\ UNCHANGED <<settings, fetchVars, shown, source, verseAnchor, verseReference,
                 translationId, notice, historyVars, cache, snapshot>>

\* toggle_favorite and remove_favorite: they clear m_errorText, whatever it
\* says, or report their own failure in it.
EditFavorites ==
  /\ errorText' \in {None, "other"}
  /\ UNCHANGED <<settings, fetchVars, shown, source, verseAnchor, verseReference,
                 translationId, notice, historyVars, cache, snapshot>>

\* The process ends, whatever it was doing, and is started again: what is
\* stored stays, the rest is as Init says.
Restart ==
  /\ loading' = FALSE /\ timer' = FALSE /\ fetchSeq' = 0
  /\ pendingAnchor' = None /\ pendingProvider' = None /\ webTranslation' = "web"
  /\ retried' = [k \in {"esv", "web"} |-> FALSE] /\ attempts' = 0
  /\ request' = None /\ result' = None
  /\ shown' = None /\ source' = None
  /\ verseAnchor' = None /\ verseReference' = None /\ translationId' = None
  /\ notice' = None /\ errorText' \in {None, "other"}
  /\ history' = <<>> /\ histPos' = 0
  /\ UNCHANGED <<settings, cache, snapshot>>

Next ==
  \/ \E a \in Anchors : Load(a)
  \/ Back \/ Forward
  \/ \E o \in Answers : Succeed(o)
  \/ Retry
  \/ \E e \in Hits : Fallback(e)
  \/ \E o \in Outcomes \ Answers : Fail(o)
  \/ OnFetchTimeout
  \/ \E key \in Keys \cup {NoKey}, choice \in Choices : SaveSettings(key, choice)
  \/ RejectReference \/ EditFavorites
  \/ Restart

Spec == Init /\ [][Next]_vars

\* A running QTimer fires; nothing is assumed of the network or of the user.
FairSpec == Spec /\ WF_vars(OnFetchTimeout)
-----------------------------------------------------------------------------
(* Properties. *)

\* Every variable keeps its type: no path through the slots leaves a reference, a
\* translation or an entry that is none.
TypeOK ==
  /\ translation \in Choices /\ apiKey \in Keys \cup {NoKey}
  /\ loading \in BOOLEAN /\ timer \in BOOLEAN /\ fetchSeq \in Nat /\ attempts \in Nat
  /\ pendingAnchor \in Anchors \cup {None}
  /\ pendingProvider \in Translations \cup {None}
  /\ webTranslation \in {"web", "kjv"}
  /\ retried \in [{"esv", "web"} -> BOOLEAN]
  /\ request \in Requests \cup {None}
  /\ result \in [request : Requests, outcome : Outcomes \cup {Refused}] \cup {None}
  /\ shown \in Passages \cup {None} /\ source \in {"provider", "cache", None}
  /\ verseAnchor \in Anchors \cup {None}
  /\ verseReference \in References \cup {None}
  /\ translationId \in Translations \cup {None}
  /\ notice \in {"setKey", "offline", "cacheUnavailable", None}
  /\ errorText \in {"fetch", "timeout", "other", None}
  /\ history \in Seq(Anchors) /\ histPos \in 0..Len(history)
  /\ cache \subseteq Entries
  /\ snapshot \in Contents \cup {None}

\* The spinner, the timeout and the outstanding request come and go together:
\* no path through the retry, a refusal inside a slot or the cache leaves the
\* overlay loading with nothing to end it, and what the fetcher is asked is
\* the load the controller waits for, so no stale answer can be taken for it.
FetchPhases ==
  /\ loading = timer
  /\ loading = (request # None)
  /\ loading => /\ request.tag = fetchSeq
                /\ request.ref.anchor = pendingAnchor
                /\ request.translation = pendingProvider
                /\ pendingProvider \in {"esv", webTranslation}
                /\ pendingAnchor = verseAnchor
                /\ verseReference = None

\* A reference names the very passage that was answered, or, around the same
\* verse, the range of which the passage is but the one verse: the name of the
\* range that was refused, beside the answer to the plain-anchor retry.
Names(reference, passage) ==
  /\ reference.anchor = passage.ref.anchor
  /\ reference # passage.ref => passage.ref.plain /\ ~reference.plain

\* Whenever the overlay names a reference, it names the text beside it, as
\* Names says, in the translation named, the verse is the one asked for last,
\* and no fetch is under way: whichever loads, retries, timeouts, changes of
\* the settings and cached passages came before.  An answer that names itself
\* is shown under its own name, and so is the answer to a first request: the
\* name is wider than the text only when the retry is answered without one.
ShownIsRequested ==
  verseReference # None =>
    /\ ~loading /\ shown # None
    /\ Names(verseReference, shown) /\ verseReference.anchor = verseAnchor
    /\ shown.translation = translationId
    /\ source = "provider" /\ verseReference # shown.ref =>
         result.outcome = "unnamed" /\ attempts = 2

\* An entry of the cache holds the passage it is filed under, although the
\* anchor, the provider and the key are read when the answer arrives and not
\* when it was asked for; there is one entry at most for a lookup; and no
\* entry of the ESV is filed without a key.
CacheKeepsItsPassage ==
  /\ \A e \in cache :
       /\ e.passage.ref.anchor = e.anchor /\ Names(e.reference, e.passage)
       /\ e.passage.translation = e.provider
       /\ e.provider = "esv" <=> e.key # NoKey
  /\ \A e, f \in cache : SameKey(e, f) => e = f

\* A load makes two requests at most, the first for the range and a second one
\* only for the anchor itself ("one plain-anchor retry", src/README.md:13).
OneRetry ==
  /\ attempts <= 2
  /\ loading => request.ref = IF attempts = 2 THEN PlainQuery(pendingAnchor)
                                           ELSE RangeQuery(pendingAnchor)
  /\ loading /\ ~retried[Kind(request.translation)] => attempts = 1

\* The offline notice is on display exactly while the verse on display came
\* from the cache (src/README.md:22).
OfflineNotice ==
  notice = "offline" <=> verseReference # None /\ source = "cache"

\* An error of the last load and a verse are never on display together, and
\* none stays from an earlier load.
ErrorMeansNoVerse ==
  errorText \in {"fetch", "timeout"} => ~loading /\ verseReference = None

\* The cursor stays in the history, which never holds a verse twice in a row
\* nor more than HistoryCap verses, and the verse asked for last is the one
\* under the cursor or, after a load that recordHistory did not record, the
\* last one.
HistoryCursor ==
  /\ Len(history) <= HistoryCap
  /\ histPos = 0 <=> history = <<>>
  /\ \A i \in 1..Len(history) - 1 : history[i] # history[i + 1]
  /\ verseAnchor # None =>
       histPos > 0 /\ verseAnchor \in {history[histPos], Last(history)}

\* The text kept for the daily notification is kept under a reference that
\* names it and its own translation.
SnapshotIsOneVerse ==
  snapshot # None =>
    /\ Names(snapshot.reference, snapshot.passage)
    /\ snapshot.translation = snapshot.passage.translation

\* A load is sound from its request to its end: the spinner, the timeout and the
\* request agree, and it makes one retry at most.
FetchIsSound == FetchPhases /\ OneRetry

\* The parts of the display agree, and with what is kept for the notification:
\* the text is of the reference and the translation beside it, and of the
\* verse asked for last; the offline notice and the error text speak of it and
\* of no earlier load.
DisplayIsRight == ShownIsRequested /\ OfflineNotice /\ ErrorMeansNoVerse /\ SnapshotIsOneVerse

\* A cached passage is shown only when a request ended in a transient failure
\* or the timeout fired, never after a refusal, a failed authentication or a
\* payload that does not validate, and never the ESV's without a key
\* (src/README.md:19-21).
FallbackOnlyWhenTransient ==
  [][notice' = "offline" /\ notice # "offline" =>
       /\ loading
       /\ result' = Answered("transient") \/ fetchSeq' = fetchSeq + 1
       /\ translationId' = "esv" => apiKey # NoKey]_vars

\* A load comes to an end, or to a retry or another load, without any help
\* from the network.
FetchEnds == <>[]loading => []<><<fetchSeq' # fetchSeq>>_vars

\* To the fetcher the controller is a caller of FetchService.
Service == INSTANCE FetchService

\* The controller does nothing to the fetcher that a FetchService does not allow,
\* but for the end of the process.
ServiceSpec == [][Service!Next \/ Restart]_<<request, result>>

\* Of the cache it assumes what PassageStore promises.
Store == INSTANCE PassageStore WITH
  LookupKeys <- Translations \X Anchors \X (Keys \cup {NoKey}),
  Values <- Entries,
  cache <- {[key |-> <<e.provider, e.anchor, e.key>>, value |-> e] : e \in cache}

\* The cache the controller works with is a PassageStore.
StoreSpec == Store!Spec

\* The controller keeps to what its neighbours promise and ask for: whatever it
\* does is a FetchService's doing to the fetcher, the end of the process apart,
\* and a PassageStore's to the cache.
KeepsContracts == ServiceSpec /\ StoreSpec

\* What copy, share and the cards put out: offered whenever something is on
\* display and nothing is loading.
CanExport == ~loading /\ shown # None

\* What src/README.md:214 says of them: "user-facing output contains the
\* passage, reference, and compact translation name".
ExportNamesPassage ==
  CanExport => verseReference # None /\ translationId # None

\* What src/README.md:21 says of the cache: "removing an ESV key makes its
\* cached entries inaccessible".  A passage served from the cache was obtained
\* with the key that is set, or without one.
RemovedKeyHidesEntries ==
  [][notice' = "offline" /\ notice # "offline" => shown'.key \in {NoKey, apiKey}]_vars
=============================================================================
