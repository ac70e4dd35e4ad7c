------------------------------ MODULE Overlay -------------------------------
(***************************************************************************)
(* The overlay of AppController (src/src/controller.cpp): opening and      *)
(* closing it, the one-shot timer that brings another verse after an       *)
(* opening, the flag with which load_reference keeps that timer away from  *)
(* the verse that was asked for, and the auto-open once a day, whose timer *)
(* compares minutes every thirty seconds.  Verses are drawn from the Deck; *)
(* how a verse is fetched is VerseFetch's matter: here it is the anchor    *)
(* that counts, which every load sets at once.                             *)
(*                                                                         *)
(* Time passes in steps of half a minute, and a timer that is due fires    *)
(* before the next one; the clock may also be set, and the day the auto-   *)
(* open records may not reach the settings file.  The slots may be called  *)
(* in any order; the QML offers fewer.                                     *)
(***************************************************************************)
EXTENDS Deck

CONSTANTS Minutes,      \* minutes of a day
          MaxClock,     \* bound: the last half minute
          ClockTargets  \* bound: what the clock may be set to

ASSUME OverlayAssumption ==
  /\ Minutes \in Nat \ {0} /\ MaxClock \in Nat /\ ClockTargets \subseteq 0..MaxClock
  /\ None \notin Nat

VARIABLES
  overlay,      \* m_overlayOpen, m_skipNextOpenRefresh, m_openRefreshTimer is active
  autoOpenAt,   \* setting "autoOpenAt": a minute of the day
  tick,         \* half minutes until m_autoOpenTimer fires; None when it is stopped
  lastDay,      \* m_lastAutoOpenDay
  savedDay,     \* setting "lastAutoOpenDay", in the file
  clock,
  asked,        \* the verse that load_reference, back or forward was asked for, until another
                \* is asked for, the overlay opens, or an auto-open has it replaced
  overtaken,    \* the auto-open came due since then, the overlay being open
                \*                                       (asked and the rest are not in the code)
  opened,       \* days on which the overlay was opened by itself
  repeated,     \* days on which it was a second time
  excused,      \* days whose record was lost or that came again
  clockSet      \* the clock was set during this minute

autoOpenVars == <<autoOpenAt, tick, lastDay, savedDay, clock>>
dayVars == <<opened, repeated, excused, clockSet>>
askedVars == <<asked, overtaken>>
allVars == <<vars, overlay, autoOpenVars, askedVars, dayVars>>

MinuteOf(n) == (n \div 2) % Minutes
DayOf(n) == n \div (2 * Minutes)
Today == DayOf(clock)
Days == 0..DayOf(MaxClock)

\* m_autoOpenTimer.setInterval(30000).
Interval == 1

OverlayInit ==
  /\ Init
  /\ overlay = [open |-> TRUE, skip |-> FALSE, refresh |-> TRUE]
  /\ autoOpenAt = None /\ tick = None /\ lastDay = None /\ savedDay = None /\ clock = 0
  /\ asked = None /\ overtaken = FALSE /\ opened = {} /\ repeated = {} /\ excused = {} /\ clockSet = FALSE
-----------------------------------------------------------------------------
(* Opening and closing. *)

AskedFor(v) == asked' = v /\ overtaken' = FALSE

\* setOverlayOpen.
Set(o, open) ==
  IF o.open = open THEN o
  ELSE [open    |-> open,
        skip    |-> o.skip /\ ~open,
        refresh |-> open /\ (o.refresh \/ ~o.skip)]

Stopped(o) == [o EXCEPT !.refresh = FALSE]

\* Seeded fault: the refresh that an opening has started is not stopped.
FaultLoaded(o) == Set(IF o.open THEN o ELSE [o EXCEPT !.skip = TRUE], TRUE)

\* load_reference, before it fetches.
Loaded(o) == Set(IF o.open THEN Stopped(o) ELSE [Stopped(o) EXCEPT !.skip = TRUE], TRUE)

\* The user, the window that becomes active again, close_overlay, toggle_overlay.
SetOverlayOpen(open) ==
  /\ overlay' = Set(overlay, open)
  /\ IF open /\ ~overlay.open THEN AskedFor(None) ELSE UNCHANGED askedVars
  /\ UNCHANGED <<vars, autoOpenVars, dayVars>>

LoadReference(v) ==
  /\ overlay' = Loaded(overlay)
  /\ ShowOther(v)
  /\ AskedFor(v)
  /\ UNCHANGED <<autoOpenVars, dayVars>>

\* back and forward, to a verse of the history.
Navigate(v) ==
  /\ shown # None
  /\ overlay' = Stopped(overlay)
  /\ ShowOther(v)
  /\ AskedFor(v)
  /\ UNCHANGED <<autoOpenVars, dayVars>>

\* back and forward at an end of the history, or without one.
NavigateNowhere ==
  /\ overlay' = Stopped(overlay)
  /\ UNCHANGED <<vars, autoOpenVars, askedVars, dayVars>>

\* refresh: the fixed reference, when there is one, or a card of the deck.
Refresh ==
  /\ overlay' = Stopped(overlay)
  /\ \/ \E v \in Verses \cup Elsewhere : ShowOther(v)
     \/ DrawNothing
     \/ \E order \in Orders : Draw(order)
  /\ UNCHANGED <<autoOpenVars, dayVars>>

\* Another verse is asked for with the button or the Return key.
AnotherVerse == Refresh /\ AskedFor(None)

\* The timer of an opening, or of an auto-open, fires.
OpenRefresh ==
  /\ overlay.refresh
  /\ Refresh
  /\ IF overtaken THEN AskedFor(None) ELSE UNCHANGED askedVars

\* setSelectedBook and setSelectedTopic: the verse on display stays.
SelectFilters ==
  /\ \E selection \in Selections : SetFilters(selection)
  /\ UNCHANGED <<overlay, autoOpenVars, askedVars, dayVars>>
-----------------------------------------------------------------------------
(* The auto-open. *)

Due(target, last) == target # None /\ target = MinuteOf(clock) /\ last # Today

\* check_auto_open: an overlay that is open has its verse replaced, whether it
\* was asked for or not.  The day is written with a sync whose result is ignored.
CheckAutoOpen(target) ==
  IF Due(target, lastDay)
  THEN /\ lastDay' = Today
       /\ savedDay' \in {savedDay, Today}
       /\ IF overlay.open
          THEN overlay' = [overlay EXCEPT !.refresh = TRUE] /\ asked' = asked /\ overtaken' = (asked # None)
          ELSE overlay' = Set(overlay, TRUE) /\ AskedFor(None)
       /\ opened' = opened \cup {Today}
       /\ repeated' = repeated \cup ({Today} \cap opened)
  ELSE UNCHANGED <<lastDay, savedDay, overlay, askedVars, opened, repeated>>

\* onAutoOpenTimer.
AutoOpenTick ==
  /\ tick = 0
  /\ tick' = Interval
  /\ CheckAutoOpen(autoOpenAt)
  /\ UNCHANGED <<vars, autoOpenAt, clock, excused, clockSet>>

\* syncAutoOpenTimer.
TimerFor(target) ==
  IF target = None THEN None ELSE IF tick = None THEN Interval ELSE tick

\* Seeded fault: a save does not look at the time.
FaultSaveAutoOpenAt(target) ==
  /\ autoOpenAt' = target
  /\ tick' = TimerFor(target)
  /\ UNCHANGED <<vars, overlay, lastDay, savedDay, clock, askedVars, dayVars>>

\* The end of a save_all_settings that succeeds.
SaveAutoOpenAt(target) ==
  /\ autoOpenAt' = target
  /\ tick' = TimerFor(target)
  /\ CheckAutoOpen(target)
  /\ UNCHANGED <<vars, clock, excused, clockSet>>

\* What could not be written is written at a later sync.
FlushDay ==
  /\ savedDay # lastDay /\ savedDay' = lastDay
  /\ UNCHANGED <<vars, overlay, autoOpenAt, tick, lastDay, clock, askedVars, dayVars>>
-----------------------------------------------------------------------------
(* Time, and the process. *)

Pass ==
  /\ clock < MaxClock /\ tick # 0
  /\ clock' = clock + 1
  /\ tick' = IF tick = None THEN None ELSE tick - 1
  /\ clockSet' = (clockSet /\ MinuteOf(clock') = MinuteOf(clock))
  /\ UNCHANGED <<vars, overlay, autoOpenAt, lastDay, savedDay, askedVars, opened, repeated, excused>>

\* The clock is set, or the device has slept.  Days that come again are excused.
SetClock(n) ==
  /\ clock' = n
  /\ clockSet' = TRUE
  /\ excused' = excused \cup {d \in Days : DayOf(n) <= d /\ d <= Today /\ DayOf(n) # Today}
  /\ UNCHANGED <<vars, overlay, autoOpenAt, tick, lastDay, savedDay, askedVars, opened, repeated>>

\* Seeded fault: the day of the last auto-open is not read at a start.
FaultRead == None

Read == savedDay

\* The process ends and starts again: the constructor reads the settings, deals
\* the deck, starts the timer and checks the time, and main opens the overlay.
Restart ==
  /\ deck' = Kept(Curated, Cards) /\ pos' = 0
  /\ shown' = None /\ drawn' = None /\ dealt' = <<>> /\ passed' = {}
  /\ overlay' = [open |-> TRUE, skip |-> FALSE, refresh |-> TRUE]
  /\ tick' = IF autoOpenAt = None THEN None ELSE Interval
  /\ AskedFor(None)
  /\ excused' = excused \cup ({lastDay} \ {savedDay})
  /\ IF Due(autoOpenAt, Read)
     THEN /\ lastDay' = Today
          /\ savedDay' \in {savedDay, Today}
          /\ opened' = opened \cup {Today}
          /\ repeated' = repeated \cup ({Today} \cap opened)
     ELSE lastDay' = Read /\ UNCHANGED <<savedDay, opened, repeated>>
  /\ UNCHANGED <<autoOpenAt, clock, clockSet>>

OverlayNext ==
  \/ \E open \in BOOLEAN : SetOverlayOpen(open)
  \/ \E v \in Verses \cup Elsewhere : LoadReference(v) \/ Navigate(v)
  \/ NavigateNowhere \/ AnotherVerse \/ OpenRefresh \/ SelectFilters
  \/ AutoOpenTick \/ FlushDay
  \/ \E target \in 0..Minutes - 1 \cup {None} : SaveAutoOpenAt(target)
  \/ Pass
  \/ \E n \in ClockTargets : SetClock(n)
  \/ Restart

OverlaySpec == OverlayInit /\ [][OverlayNext]_allVars
-----------------------------------------------------------------------------
\* Every variable keeps its type, those of the deck included, and the flag that
\* suppresses a refresh never outlives the call that sets it.
OverlayTypeOK ==
  /\ TypeOK
  /\ overlay \in [open : BOOLEAN, skip : {FALSE}, refresh : BOOLEAN]
  /\ overlay.refresh => overlay.open
  /\ autoOpenAt \in 0..Minutes - 1 \cup {None}
  /\ tick \in 0..Interval \cup {None} /\ (tick = None <=> autoOpenAt = None)
  /\ lastDay \in Days \cup {None} /\ savedDay \in Days \cup {None} /\ clock \in 0..MaxClock
  /\ asked \in Verses \cup Elsewhere \cup {None} /\ overtaken \in BOOLEAN
  /\ opened \subseteq Days /\ repeated \subseteq opened /\ excused \subseteq Days \cup {None}
  /\ clockSet \in BOOLEAN

\* The deck repeats no card and leaves none out, however its draws are mixed
\* with the other ways of loading a verse, with filters and with restarts.
DealtOut == NoRepeat /\ NoneLeftOut

\* A verse that was asked for stays until another is asked for or the overlay
\* is closed and opened again, and no refresh of an earlier opening is pending
\* that would replace it.  Only the auto-open replaces it, when its time comes
\* while the overlay is open.
AskedVerseStays ==
  asked # None => shown = asked /\ (overlay.refresh => overtaken)

\* "At-most-once-per-day auto-open" (src/src/controller.h:22): a day sees a
\* second one only if it came again or its record was lost with the process.
OncePerDay == repeated \subseteq excused

\* The auto-open does not miss its minute: when the minute ends while the
\* process runs and the clock was left alone, the overlay was opened that day,
\* whenever in that minute the time was set or the process started.
OpensInItsMinute ==
  [][clock' = clock + 1 /\ MinuteOf(clock') # MinuteOf(clock) /\ ~clockSet /\ ~clockSet'
       /\ autoOpenAt = MinuteOf(clock)
     => lastDay = Today]_allVars
=============================================================================
