# A verification project for Scripture

Scripture (`src/`) is a small Bible application for Android, written in C++
and QML on Qt with a Java part for alarms, notifications and the key store. It
shows one verse in its context, fetched from the ESV API or from
bible-api.com, keeps what it fetched for reading offline, and reminds its user
once a day. This directory holds TLA+ models of its logic, the TLC
configurations that check them, and theorems about them with proofs that TLAPS
checks.

## 1. The system

Everything but the Java receivers runs on Qt's main thread. A slot runs to its
end; between two slots anything may happen. Most of what is hard here comes
from that: an answer that arrives after the request was replaced, a key that
changes while a request is under way, a timeout that fires while a retry is
being sent, a clock that is set back, a process that ends between two writes.

| Component | State | Operations | Talks to | What is hard | What makes it correct |
|---|---|---|---|---|---|
| Fetcher (`fetcher.cpp`) | active reply, shared buffer, failure text; the replies Qt still holds | `fetchEsv`, `fetchWeb`, `abort`, `drain`, `onFinished`, redirects | Qt's network, the controller's result slots (synchronously) | replaced replies still signal; one buffer for all; unread data when finished comes; a slot that sends the next request | bytes and failures belong to the active reply; a result is the whole body of its own request; every request ends |
| Verse fetch (`controller.cpp`) | load in progress, its tag, timer, retries, verse on display, notice, error | `load_reference`, `refresh`, `back`, `forward`, `onEsvResult`, `onWebResult`, `onFetchTimeout`, cache fallback | fetcher, passage cache, settings, history, snapshot | answer, retry, timeout, refusal and settings changes in any order | the reference shown names the text beside it; no load hangs; stale answers change nothing |
| Passage cache (`passage_cache.cpp`) | one JSON file | `put`, `get`, `compact` | controller, disk, clock | size limits, the trailing newline, clock changes, damage | latest put wins; what is written can be read |
| Deck (`references.cpp`) | order and position | `draw`, `shuffle`, `setFilters` | controller | skipping the verse on display at the end of the deck | no card repeated, none left out |
| Settings (`controller.cpp`) | `QSettings` file, the display settings beside it, key, schedule | repair at the start, the sliders, `save_all_settings` and its rollback | secrets, scheduler, auto-open | one step of several fails, the process ends in between, the rollback fails, an old error counts against a new save | all or nothing; what is set is in force and stored |
| Daily notifications (`DailyVerseScheduler.java`, `DailyVerseReceiver.java`, controller) | alarm, preferences, last day, permission request | schedule, cancel, post, permission | controller on another thread, AlarmManager, boot | receiver and main thread interleave, crash between post and record | once a day, none after cancel |
| Secret storage (`secrets.cpp`, `SecureKeyStore.java`) | file, key store, preferences | save, clear, read, migrate | settings, Android key store | migration and deletion in several steps | the key is never lost nor left behind |
| Favourites (`favorites.cpp`) | list, JSON file | toggle, remove, load | controller | list and file change in different steps; a file that cannot be read looks like an empty list | no favourite is lost but the one removed or the oldest of a full list |
| Verse cards (`verse_card.cpp`, `ShareHelper.java`, `VerseShareProvider.java`) | card files, the last one's path | render, save, prune, share | controller, Android | pruning by time of change; a card that was handed over is read later; the last card is shared again | the card handed over is of the verse on display, and stays while it may be read |
| Overlay (`controller.cpp`, `main.qml`) | open flag, auto-open minute, refresh timer | open, close, auto-open | fetch, deck | flag set by a load and consumed by an opening, minutes skipped by the clock | a verse asked for is replaced by a random one only by the auto-open |
| Reveal (`controller.cpp`) | revealed characters | timer tick | verse on display | new verse, speed or size while revealing; rounding of the step | a beginning of the text, in time, to its end |
| References (`references.cpp`) | none | normalise, parse, `rangeQuery`, extract | fetch, cache | focal verse at chapter boundaries, twice, or missing; odd answers | every verse of the answer is shown, the focus is the verse asked for |

Not modelled at all: the layout in QML, drawing a card, the updater (a stub that
reports the version), `main.cpp` and `MainActivity.java` (they wire objects
together), build files and tools.

## 2. The modules

| Module | Models | Checked by | Proved in |
|---|---|---|---|
| `FetchService` | what the fetcher promises its caller | as a property of `Fetcher` and `VerseFetch` | |
| `Fetcher` | `fetcher.cpp` with the signals of Qt's replies | `MCFetcher` | `FetcherProofs` |
| `VerseFetch` | the verse fetch of `AppController` | `MCVerseFetch*` | `VerseFetchProofs` |
| `PassageStore` | what the passage cache promises its caller | as a property of `PassageCache` and `VerseFetch` | |
| `PassageCache` | `passage_cache.cpp` | `MCPassageCache` | `PassageProofs` |
| `Deck` | the `Deck` of `references.cpp` | as a part of `Overlay` | `OverlayProofs` |
| `Overlay` | the overlay, its refresh timer and the auto-open of `AppController`, on top of `Deck` | `MCOverlay` | `OverlayProofs` |
| `Settings` | the constructor past the keys, the sliders and `save_all_settings`, on top of `KeyStorage` | `MCSettings` | `SettingsProofs` |
| `Keepsakes` | `favorites.cpp`, `verse_card.cpp` and the slots that use them | `MCKeepsakes` | `KeepsakesProofs` |
| `Reading` | ranges, passages and the composed text of `references.cpp`; the reveal of `AppController` | `MCReading` | `PassageProofs` |
| `DailyNotifications` | `DailyVerseScheduler.java`, `DailyVerseReceiver.java` and what `AppController` does with them | `MCDailyNotifications*` | `DailyNotificationsProofs` |
| `KeyStorage` | `secrets.cpp`, `SecureKeyStore.java`, the constructor's and `save_all_settings`'s use of them | as a part of `Settings`, `MCKeyStorage` | `SettingsProofs` |
| `Lists` | `Kept`: the loops over lists that keep some of their elements | as a part of `Deck`, `PassageCache`, `Keepsakes`, `Reading` | `ListProofs` |

The two abstract modules are where the detailed ones meet: `Fetcher`
implements `FetchService` and `VerseFetch` takes no step but those a caller of
it may take; `PassageCache` implements `PassageStore` and the cache `VerseFetch`
works with is one. `Settings` does to the keys nothing but what `KeyStorage` allows
(`KeySpec`), so that what is proved of the second holds of the first. `Overlay`
extends `Deck`, whose cards it draws. `PassageProofs` is about two modules that share
no variable, `PassageCache` and `Reading`; which passage the one hands to the
other is the subject of `VerseFetch`.

Definitions named `Fault...` are not part of any specification. Each is a
faulty version of the definition after it, kept to see that the properties
notice it.

### Fetcher

A `QNetworkReply` is an element of `Replies`, never used twice. `origin` is its
`_tag` and `_kind` properties, `arrived` and `unread` are what the network
delivered on it and what `readAll` would still return. `m_received` is the
length of `buffer`. A reply signals `readyRead` and `redirected` in any order
and `finished` last, whether or not it is the active one; when `abort()` makes
Qt emit `finished` at once, the reply is already no longer the active one, so
that signal does the same as one that comes later, and `OrphanFinished` covers
both. `onFinished` emits its result before it returns; a slot may send a new
request from inside, which is why the step has three forms (`Finished`,
`FinishedThenFetch`, `FinishedThenRefused`). Bytes carry the identity of their
reply and a failure text the reply it was written for. URLs, headers and texts
are left out. `onFinished`'s test of the `_aborted` property is left out too:
`abort` alone sets it, after it has cleared `m_activeReply`, so no active reply
has it. `drain` leaves its loop when `read` returns nothing although `bytesAvailable` is
positive (`fetcher.cpp:233-234`); a `QNetworkReply` returns what it counts, so
that way out is not modelled. "Whole" means what arrived on the reply: for status
200 line 268 looks at no error of the transfer, so without a Content-Length a
body that was cut short counts as whole.

### VerseFetch

Each slot of the controller that touches the fetch is an action; the calls it
makes are part of it, those that answer inside the call included (a request
that is refused before it is sent re-enters the slot and ends the load). An
answer is told apart by what the slots do with it: `"named"` and `"unnamed"` (it
passes all checks, with a name that `normalizeReference` takes or without),
`"rangeUnsupported"` (`shouldRetryRange` holds when there is a range),
`"transient"` (`isTransientFetchFailure` holds), `"fatal"`. A reference is an anchor,
plain or in its range, and a passage is of the reference that was answered. The
name beside it comes from the answer or, without one there, is the range of the
load (`AnswerReference`, `ReferenceShown`), as in the code. `attempts` and
`source` are not in the code; they remember how many requests a load made and
where the passage on display came from.

What is abstracted:
- A passage is the reference, translation and key it was requested with. The
  provider is assumed to answer what it is asked (`PassageFor`) and, when it names
  that, to name just that, or nothing `normalizeReference` takes (a range with an
  en dash, say). A name that is another spelling of the book is shown; the cache
  refuses such an entry, which is one of the ways a put fails.
- `OnResult` states the guard both slots begin with. No action stands for an
  answer that guard turns away: `FetchPhases` shows there is none.
- `save_all_settings` changes the key and the translation at one go; its steps
  and its rollback are in `Settings`. A rollback that fails half-way leaves a
  key and a translation that `SaveSettings` may set, too.
- `Restart` ends the process in any state and starts it again. Settings,
  cache and snapshot are kept.

An observation: when the provider refuses the range, the retry asks for the plain
verse; if that answer has no name, the one verse is shown, cached and kept for the
notification under the name of the range (controller.cpp:1203-1204, 1251-1253,
1269-1270). `Names` allows that, and `ShownIsRequested` says that it is the only case. No
document says otherwise, and `src/tests/test_core.cpp:96-102` stores a range as the
reference of a single verse.

### PassageCache and Deck

The file of the cache is a sequence of entries; `Write` replaces it whole, as
`QSaveFile` does. An entry's size is a number; the bytes of the JSON around the
entries are not counted, which shifts the limit and nothing else. `Damage`
stands for anything that makes the file unreadable from outside. In `Deck`
a shuffle is any order. `dealt` and `passed` are not in the code: they remember
what a round has shown and skipped.

### DailyNotifications

Two threads of one process, each with a place of its own: `app`, the
controller's, which runs `syncNotificationSchedule` step by step, and `rx`,
Android's main thread, where the receiver runs `postIfNeeded` and
`scheduleNext` and where the answer to the permission prompt arrives. One step
is one access to what they share: the preferences or the alarm. Methods of
`DailyVerseScheduler` that are `synchronized` exclude each other (`RxHoldsLock`,
`AppHoldsLock`: only a method that takes several steps is seen to hold the
lock); `schedule`, `cancel` and `updateSnapshot` are not synchronized and may fall
anywhere. A commit changes what the process reads at once and the file only
if it succeeds (`memory`, `disk`); when the process ends, `memory` becomes
`disk` again, both threads are gone, and a broadcast may start the process
without the controller.

What is abstracted:
- The platform supports notifications and its services do not throw. One model
  value of the snapshot stands for a reference and its text, compacted.
- `"blocked"` stands for the app and for its channel being blocked. Opening the
  system's settings changes no state; what the user does there is
  `ChangePermission`.
- The consecutive commits of `requestPermission` are one. The preferences of Qt
  (`dailyNotificationAt`) are durable at once; `Settings` takes that step apart.
- The timer that looks for the end of a pending request is `Refresh`, which may
  happen at any time the controller is idle.
- `posted`, `notified`, `stray`, `excused`, `prompts`, `synced` and `faults` are not in the
  code. They count notifications per day, remember the last one, count those
  that came although there is no time, note the days whose record was lost or
  which came again, count prompts, and say whether the last sync scheduled.

### KeyStorage

The four places where a key may lie are `stored` (ciphertext and IV, written by
one commit), `file` and `legacy` (`apiKey` in either settings file). `proc` is
what the main thread is doing: which step, for whom (`task`), with which key.
Each write or removal is a step with an outcome `ok`; every text of an error
comes down to `error` (what the constructor puts in `m_errorText`). Deleting the
key of the Android key store turns what is stored into `Unreadable`; a set that
follows makes a new one and does not depend on the old. What a failed commit
leaves in the process's copy of the preferences is not modelled, since the
only reads are those of a start. Keys that `save` refuses change nothing
and are left out; an empty file counts as none. `told`, `removed` and `migrated`
are not in the code: the user was told that what is kept may differ from what
is in use (a read, a removal or a rollback failed half-way), the last key saved
was removed, and this start has stored the legacy key.

### Settings

A save is a chain of steps, each a write that may fail: the key (by the steps of
`KeyStorage`), the settings, the alarm. `saving` is where it is, what it is to
save and what it may restore. When a later step fails, `rollbackSettings` puts the
settings back and then the key. Between any two steps the process may end. A
`QSettings` keeps what it could not write and writes it at the next sync, of the
event loop at the latest; its `status` (`failed`) never forgets an error. That
is why a save after an earlier failed write is rolled back although its own
writes succeed: an observation, not a finding, for the form then says so.

What is abstracted: `autoOpenAt` stands for the settings that only `m_settings`
holds (translation, fixed verse, both times), `look` for the three that have
members of the controller beside them. The alarm is one step that succeeds or
fails; what it does is in `DailyNotifications`. Arguments that the checks at the
beginning of `save_all_settings` refuse change nothing and are left out, and so
is the copying of settings of an earlier version at a start
(`controller.cpp:154-158`).

### Overlay

`overlay` has the three flags of an opening: open, `m_skipNextOpenRefresh`, and
whether the one-shot refresh timer is running. Every slot that loads a verse, or
opens or closes the overlay, is an action that changes them as the code does; a
load sets the verse on display at once (its anchor) and draws come from `Deck`. Time
passes in half minutes; the timer of the auto-open is due after one, and fires
before the next passes, as a timer of an idle event loop does. The setter of
the time, `SaveAutoOpenAt`, is the end of a save that succeeds; `Settings` has the
others. `asked`, `overtaken`, `opened`, `repeated`, `excused` and `clockSet` are not in the
code: the verse that was asked for, whether the auto-open came due since then while
the overlay was open, the days that were opened by themselves, once
and again, the days for which that is excused, and whether the clock was
set in this minute. `back` and `forward` at an end of the history are `NavigateNowhere`:
they stop the refresh timer and do nothing else.

An observation: when the auto-open comes due while the overlay is already open,
`check_auto_open` starts the refresh timer (controller.cpp:1021-1022), and a random
verse replaces the one that was asked for. `AskedVerseStays` allows that case only: it keeps
`asked` through that step and lets a refresh be pending only if `overtaken` says
so. No document promises more.

### Keepsakes

A favourites file is absent, unreadable (damaged, too large, not a list) or a
list; `list()` may fail on any of them, `write` replaces the file whole or not at
all. The normalisation of a reference is the identity on what the controller
hands over, which is normalised already. A card is named after a digest of what
it shows, so the content stands for the name. `Excess` is what `pruneCards` may
remove: the oldest, of which the names decide between equals. `handed`, `since`
and `inOrder` are not in the code: the card another app was given last, the
others saved since, and whether the times of change can be trusted.

What is abstracted: `QFile::remove` succeeds; drawing, the content provider and
the sharing of text keep no state. Observations: a file that is damaged stays so,
since no action of the app replaces it, and the message about it is cleared by the next
load; a card just handed over is the first to be pruned if the clock was set back
before it was saved.

### Reading

An answer of the web service is a sequence of verses, each a number and a text; one
of the ESV is a text that markers divide into verses, with a `lead` before the first marker
and `more` in further passages. A text is a sequence
of characters for which numbers stand. `ParseNumbered` and `ParseWeb` differ as
the two parsers do: which verses they drop, what they do without a marker or
without a verse, and whether a passage without focus
is labelled. `Valid` is what the payload checks let through, the odd cases
included: a verse number written as a string, which is read as 0; and of the ESV any text
that is not blank, with or without markers, with a marker 0 or with one that no
text follows. Of such an answer the code drops what comes before the first marker
and after the first passage, and shows nothing of one whose markers have no text;
`PassageIsWhole` says that this is all that is lost. The query of `fetchEsv` asks for verse
numbers and for no headings (`fetcher.cpp:17-23`), so a faithful service sends neither. `Composed` is `composeRichText` as the parts it paints. The reveal has
the code's arithmetic; times are scaled by constants. Regular
expressions, names of books, numbers of chapters and the escaping of HTML
are left out. Overflow is out of reach: a verse has three digits
(`referenceRx`).

## 3. What is checked

| Run | Bounds | What it shows |
|---|---|---|
| `fetcher` | 2 replies, 2 requests and one that is refused, limit of 1 byte, 3 bytes arriving | types; `BodyIsWhole`; implements `FetchService`; `Settles`: every request ends |
| `verse_fetch` | a verse with a range and one whose range is refused, 1 key that comes and goes, the ESV chosen, history of 2, 4 loads or retries | types; `FetchIsSound` (phases, one retry), `DisplayIsRight` (text and name, notice, error, snapshot), `CacheKeepsItsPassage`, `HistoryCursor`, `FallbackOnlyWhenTransient`; client of `FetchService` and of `PassageStore` (`KeepsContracts`); `FetchEnds`: no load hangs |
| `export_names_passage` | 2 verses, 2 loads or retries | `ExportNamesPassage` is violated, see section 6 |
| `removed_key` | one verse, 2 keys, 2 loads or retries | `RemovedKeyHidesEntries` is violated, see section 6 |
| `passage_cache` | 3 lookups, 2 entries at most, 5 bytes, 5 ticks, 4 puts | types; `EntriesAreCurrent` (the latest put wins, what is written can be read), `PutIsRight` (what was put is found, the oldest give way); implements `PassageStore` |
| `overlay` | 3 cards, 3 selections of them, a verse from elsewhere, a day of 2 minutes, 7 half minutes, the clock set back to one of them | types; `DealtOut` and `DrawIsNew` of the deck, `AskedVerseStays`, `OncePerDay`, `OpensInItsMinute` |
| `settings` | 3 keys, 1 time, 2 display settings, any number of failures and ends of the process | types; `SettingsInForce`, `SaveIsWhole`, `KeySafe`, `StartKeepsKey`; does to the keys what `KeyStorage` allows |
| `keepsakes` | 3 references, 2 favourites at most, 3 contents, 1 card kept beside the new one, 4 saves | types; `FavoritesKept`, `CardOfTheVerse`, `SharedCardStays` |
| `reading` | answers of 3 verses at most with 3 numbers and 2 texts, with and without a lead and further passages, single verses and ranges, 3 speeds, a reveal of 2 to 10 ticks | types; `PassageIsWhole`, `RevealIsRight`, `RevealEnds` |
| `daily_notifications` | 2 days of 2 instants, 2 times, one at midnight, 1 verse, a request pending for 2, 2 faults | types; `TimeKept` (alarm and time follow the settings and the permission), `ScheduledIsArmed`, `NothingTwice` (one prompt, one notification a day, few strays) |
| `torn_notification` | 1 time, 2 verses, no fault | `NotificationIsOneVerse` is violated, see section 6 |
| `removed_key_returns` | 3 keys, no write fails | `RemovedIsGone` is violated, see section 6 |

Why the bounds are enough. In the fetcher, two replies are an active one and one
that was replaced, or one that a slot sends while the active one ends; a limit
of one byte with three arriving reaches below, at and beyond it. A third reply
adds nothing but more of the same, and the safety properties are proved for any
number. The replies run out, where the fetcher may stop: deadlock is not checked
there.

A load with its retry and a load after it need a tag of three (`MaxSeq`); a
timeout may add one more, which is the fourth. The ESV and a web translation end a load by slots
of their own; with the ESV chosen, the key that comes and goes brings on either, and a change
from one to the other may fall into a load. To choose a web translation makes no other
difference than that the notice about the missing key is absent. Two entries of history reach the cap and come back to an
older one. The cache has one lookup more than entries and sizes whose sums are
below, at and above the limit, so that the count and the size limit each bite,
and the extra byte of the newline, too. The clock is longer than the age limit
plus the skew, in both directions.

The deck of `overlay` wraps, skips its last card and is filtered down to one and
none. A day and a half see an auto-open, its record, the day after, and a clock set
back to the middle of a minute of the first day; a step of half a minute is the interval of the
timer. A minute that the clock jumps over by being set is one the auto-open
may miss: `OpensInItsMinute` is about a clock left alone. In `settings` the key
is one in use, one that replaces it and one left from before; failures and
crashes are not counted at all. `keepsakes` has one reference more than
the list takes and one content more than a save keeps, which is the card that
must go; neither references nor contents are told apart (symmetry). `reading` has answers
of up to three verses: the focus before, after, in the middle, twice, without text or not
there at all, at verse 1, 3 and 0, or no verse at all, and those of two at most from the ESV with and without
a text before the first marker and further passages; steps of the reveal that divide its length and that
do not.

A day of two instants has a time that is past and one that is to come, or falls on
midnight; two days show a notification, its record and the alarm for the next
day, and a clock set back to the day before. A fault is a commit that fails, a death of
the process, a change of the clock or one of the permission: two let a commit
fail inside the rollback of another, or a crash follow a failed commit. A
request that is pending for two instants expires within the run.

Fairness. `Settles` assumes that Qt ends every reply: each request is given a
transfer timeout (`fetcher.cpp:162`, `:206`). `FetchEnds` assumes less, only
that a running `QTimer` fires, and so does `RevealEnds`; nothing is assumed of the network, nor
of the user. That the auto-open is not missed is a safety property, because
time does not pass a timer that is due.

## 4. What is proved

Every safety property of the passing runs, and each refinement, is a theorem. The
theorems hold for every value of the constants that satisfies the assumptions named
in the modules, which every run evaluates:

- bounds and limits are natural numbers, positive where the code's constants
  are (`FetcherAssumption`, `VerseFetchAssumption`, `KeepsakesAssumption`,
  `DailyNotificationsAssumption`, `OverlayAssumption`, `PassageCacheAssumption`,
  `ReadingAssumption`), and times of the day lie in the day;
- the value for "nothing" is none of the things it stands in for (`NoneAssumption` and
  parts of the others), and special values differ from each other (`KeyStorageAssumption`,
  `SettingsAssumption`);
- the curated list has no verse twice (`DeckAssumption`);
- an entry alone fits into the cache: the limit of an entry is far below that of the file
  (`PassageCacheAssumption`). That the limit of the file is positive came out of
  the proof: with a limit of 0 a compacted file, empty but for its newline, would break
  it;
- the number of a verse, the space and the letters are different characters
  (`ReadingAssumption`).

| Module | Theorem | Property |
|---|---|---|
| `FetcherProofs` | `TypeCorrect` | `TypeOK` |
| | `ResultIsWhole` | `BodyIsWhole` |
| | `Refinement` | `ServiceSpec` |
| `VerseFetchProofs` | `TypeCorrect` | `TypeOK` |
| | `LoadsAreSound` | `FetchIsSound` |
| | `DisplayAgrees` | `DisplayIsRight` |
| | `CacheIsFiledRight` | `CacheKeepsItsPassage` |
| | `CursorInHistory` | `HistoryCursor` |
| | `FallbackIsGuarded` | `FallbackOnlyWhenTransient` |
| | `ContractsAreKept` | `KeepsContracts` |
| `SettingsProofs` | `KeyIsKept`, `NoKeyInPlainText` | `KeyKept`, `NothingInPlainText` |
| | `StartsKeepTheKey`, `SettingsStartsKeepTheKey` | `StartKeepsKey` |
| | `SettingsUseKeyStorage` | `KeySpec` |
| | `SettingsAreTyped` | `SettingsTypeOK` |
| | `SettingsAreInForce` | `SettingsInForce` |
| | `SettingsKeepTheKeySafe` | `KeySafe` |
| | `SavesAreWhole` | `SaveIsWhole` |
| `OverlayProofs` | `OverlayTyped` | `OverlayTypeOK` |
| | `AskedStays` | `AskedVerseStays` |
| | `OpensOnceADay` | `OncePerDay` |
| | `NoMinuteIsMissed` | `OpensInItsMinute` |
| | `DeckIsDealtOut` | `DealtOut` |
| | `DrawsAreNew` | `DrawIsNew` |
| `DailyNotificationsProofs` | `NotificationsTyped` | `TypeOK` |
| | `NotificationsKeepTime` | `TimeKept` |
| | `NotificationsAreArmed` | `ScheduledIsArmed` |
| | `NotificationsComeOnce` | `NothingTwice` |
| `KeepsakesProofs` | `KeepsakesTyped` | `TypeOK` |
| | `FavoritesAreKept` | `FavoritesKept` |
| | `SharedCardIsKept` | `SharedCardStays` |
| | `CardIsOfTheVerse` | `CardOfTheVerse` |
| `PassageProofs` | `CacheTyped` | `TypeOK` |
| | `EntriesStayCurrent` | `EntriesAreCurrent` |
| | `PutsAreRight` | `PutIsRight` |
| | `CacheIsAStore` | `StoreSpec` |
| | `ReadingTyped` | `ReadingTypeOK` |
| | `PassagesAreWhole` | `PassageIsWhole` |
| | `RevealsAreRight` | `RevealIsRight` |

`FetcherProofs`: `TypeCorrect`, `BufferIsOwned`, `ResultIsWhole` and
`Refinement` (`Spec => ServiceSpec`). `BodyIsWhole` is not inductive. What makes
it so is an account of the bytes: what arrived on the active reply is what is
unread plus the length of the buffer, as long as no failure was noticed
(`Counted`); a reply that no request was made for has received nothing
(`Untouched`); and the reply of the last result has ended, so that nothing more
arrives on it (`ResultIsPast`). The refinement maps the outstanding request to the
origin of the active reply.

`VerseFetchProofs`: nine state invariants, together
inductive (`Invariance`), then one theorem for each and for the two that join them, `LoadsAreSound` and
`DisplayAgrees`; `FallbackIsGuarded`
(`FallbackOnlyWhenTransient`), `UsesTheService`, `UsesTheStore` and `ContractsAreKept`. `FetchPhases` carries the
argument: labels of an answer are read from the pending fields when it
arrives, and they agree with the request because `fetch` changes both in one step and
every end of a load clears the request. That a name is wider than its text only
after an unnamed answer to the retry needs `OneRetry`: the first request is for the range, the
second for the plain anchor. `CacheKeepsItsPassage` and
`ShownIsRequested` then follow for a new entry, and the second from the first
for a cached one. The proofs of the steps have a lemma for each part that
several actions share.

`SettingsProofs`, of `KeyStorage`: `KeyKept` speaks of a process at rest and is
not inductive;
`Phases` adds what each step may rely on (a start that stores a key from the
file has nothing stored, `save_all_settings` reaches the settings only with
its key stored), `Starts` that a start goes by the copy that counts, `Drops` that a
settings file loses its key only while another copy counts, `Saves` what a
removal leaves between its two steps, and `Plain` that a copy in plain text
survives only with an error. TLC also checked the conjunction `IInv` to be
inductive, from every state of its types with two keys, before it was proved.

`SettingsProofs`, of `Settings`: every step is one of `KeyStorage` or none (`StepIsKeyStep`), which gives
`SettingsUseKeyStorage` and, with the theorems about `KeyStorage`, `SettingsKeepTheKeySafe`. `SInv` adds
where a save is and what it has done so far (`Stages`: until it writes,
settings, display and file are the old ones; when it asks for the alarm, file and
settings are the new ones and no write has failed) and what holds between two saves
(`Rest`). `SavesAreWhole` follows from `Stages` at the two steps that end a save.

`OverlayProofs`: `AskedVerseStays` is inductive with the types of the flags; what
it excuses, an auto-open that came due over an open overlay, is set in that step alone. `OncePerDay`
needs what the auto-open knows of the days (`ClockInv`): a day that was opened and
is not excused is past, or is today and recorded. `OpensInItsMinute` needs where
the timer stands in its minute (`MinuteInv`): the day is recorded, or the timer
fires before time passes. `DealtOut` needs that the cards before the position of the deck,
as a set, are those drawn or passed over (`DeckInv`), and that the deck has no card
twice; a shuffle comes only past the last, when that set is all of them.

`DailyNotificationsProofs`: eight conjuncts, each preserved by every step of the two threads and of the
system (`NotificationsInv`).
`CarriedInv` says what the receiver has read and still carries, `PendingInv` that a
request for permission goes with no time in memory nor on disk and that a sync
stores a time only with the permission on display as granted, `SettingInv` that a sync that goes on to the
alarm has stored the time of the settings. The bound on notifications
that come after a cancel is not inductive: `StrayInv` counts the ones under way, in
the alarm, in a broadcast and in the receiver, and bounds their sum with those that
came by two. `ArmedInv` says that what was scheduled is on its way in one of these
forms, and that the two threads are not about to set the alarm at the same time, which
is where the lock is needed. `PostedInv` says of each day that is not excused that its notification
is on record or about to be, so that a second broadcast of that day finds it.

`KeepsakesProofs`: the file, if it can be read at all, is one that can be
read again, and the list on display is that of the file or empty
(`FavoritesInv`); without the first, `add` could write a list it then refuses. That a card
that was handed over stays needs that times of change are in the order of the saves as long as
the clock was not set back (`SharedInv`): what was not saved since is older, so
the prune, which takes the oldest, takes it first. What `Excess` may be (`SaveLeaves`) is the
only place where cardinalities are counted.

`PassageProofs`, of `PassageCache`: the file is `Orderly`, later puts
first and no key twice. Then what the count, the size and the age limit
leave is a beginning of the list (`BoundedIs`), what gives way is older than what
stays, and a put is the first entry and is never trimmed
(`ReplacedIs`, `PutLeaves`). `FileInv` adds that the file is within its limits unless it was damaged;
age is not part of it, since the clock moves. Every step maps to one of
`PassageStore` or to none.

`PassageProofs`, of `Reading`: the parsers' loops are taken apart at the verse in focus. What is
before and after it is joined with spaces between; leaving out labels and spaces
(`Letters`) undoes labelling and joining (`LettersJoined`, `LettersOfLabels`), and
verses without text add nothing (`TextsKept`). That makes `TakenApart`, for both
parsers and for passages of any length; `TakenUnmarked` is the text without a marker. `RevealIsRight` has two parts: what `Composed`
paints is a beginning of the text for every limit (`ComposedIsBeginning`), and the
time of a reveal, which needs that each tick has shown a full step
(`StepsInv`) and that a step is at least the text divided by the ticks the speed allows
(`StepsAreLongEnough`: the rounding is up, and the seeded fault `FaultStep` rounds
down).

`ListProofs` is what these proofs share. `Kept` stands for the loops that keep some elements; it is a
function over the places of a list, because lemmas about it need one place after the other, which
`SelectSeq` hides. Its lemmas say that what is kept is in
the list, in its order, and each once if the list has each once (`KeptElements`,
`KeptInOrder`), that nothing is lost if all is wanted (`KeptWhole`), and how `Kept` and
`FlattenSeq` go over the concatenation of lists. `Induction` is proved from
facts about finite sets, and `ListInduction` from it: a set of lists that has the
empty one and every extension of its members by one element has them all. Both
speak of sets, not of operators, so each use defines the set of the lists with the property.

## 5. What is only model-checked

Liveness (`Settles`, `FetchEnds`, `RevealEnds`): fairness and ENABLED are out of the prover's
reach. The recursive functions of the library are, too, except where a lemma of
`ListProofs` covers them (`FlattenSeq`). That the models are faithful to the code is not a
matter of proof either: the statements a run refutes (section 6) and the seeded
faults show what the properties tell apart.

Nothing is claimed of a process that ends after a notification was posted and before
the next alarm is set: there is no alarm then until the app is started, the
device is, or its clock is changed. `ScheduledIsArmed` leaves that case out by
naming it (`synced` ends with the process).

## 6. Findings

- `src/README.md:214` says that user-facing output contains the passage, the
  reference and the translation. `fetch` clears the reference of the verse on
  display, but not its text; when the load fails, Copy, Share and Card are offered
  again and put out a text without a reference (run `export_names_passage`).
- `src/README.md:21` says that removing an ESV key makes its cached entries
  inaccessible. An answer is filed under the key that is set when it arrives: if the key
  is replaced while the request is under way, the passage is filed under the
  new key (run `removed_key`).
- `src/README.md:27-28` says that the notification uses the last validated
  verse snapshot. The receiver reads the reference and the text one after
  the other while the controller may write both: a notification can join the
  reference of one verse with the text of another, and the older text may be
  written back beside the newer reference (run `torn_notification`).
- `src/README.md:21` once more: a key that an older version left in the
  settings files is dropped by the first start that finds another one stored, not by
  the start that has stored it. Removing the key in the settings does not
  touch those files. If it is removed before that start, the next one takes it from there, and it
  is in use again with the cached entries filed under it (run `removed_key_returns`). In the trace
  TLC shows, the first start finds a key file that it cannot read, reports that and takes
  the key of the settings files; no write fails, and the removal and the next start succeed.

## 7. Plan, and what is not modelled

Every component with logic of its own has a module, and the safety properties of
each are proved. To come:

1. The action properties that the notes of section 2 state in words (an answer that the
   guard of `OnResult` turns away does not exist; nothing but an opening and an auto-open
   starts the refresh timer) as theorems with names of their own.
2. A statement about the notification as a whole: under which steps of the two
   threads it is of one verse, which `torn_notification` refutes in general.
3. What `FetchService` and `PassageStore` give their callers, as theorems about
   those modules alone.

Not modelled, and why: layout and styles in QML, the drawing of a card and the
icons (no state that anything depends on); the updater (a stub that reports the
version); `main.cpp` and `MainActivity.java` (they wire objects together); build
files and tools; copying, browser links and the sharing of text (one call to the
platform each); the content provider that serves a card (read only); the key file a
desktop build keeps; the copying of former settings at a start.
