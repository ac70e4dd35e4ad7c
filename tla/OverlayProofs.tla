--------------------------- MODULE OverlayProofs ----------------------------
(***************************************************************************)
(* Theorems about Overlay, for every deck, every length of the day and     *)
(* every bound of the clock: a verse that was asked for stays unless an    *)
(* auto-open comes due, a day sees one auto-open, none misses its minute,  *)
(* the deck is dealt out before it is shuffled, and a draw brings another  *)
(* verse.                                                                  *)
(***************************************************************************)
EXTENDS Overlay, ListProofs

-----------------------------------------------------------------------------
(* The verse that was asked for. *)

\* The flags of the overlay, and the property itself, are inductive together.
AskedInv ==
  /\ overlay \in [open : BOOLEAN, skip : {FALSE}, refresh : BOOLEAN]
  /\ AskedVerseStays /\ overtaken \in BOOLEAN

\* No call brings a pending refresh with it once a verse was loaded, and only an
\* opening starts one.
LEMMA SetFlags ==
  ASSUME NEW o \in [open : BOOLEAN, skip : {FALSE}, refresh : BOOLEAN], NEW open \in BOOLEAN
  PROVE  /\ Set(o, open) \in [open : BOOLEAN, skip : {FALSE}, refresh : BOOLEAN]
         /\ ~(open /\ ~o.open) /\ ~o.refresh => ~Set(o, open).refresh
         /\ Loaded(o) \in [open : BOOLEAN, skip : {FALSE}, refresh : {FALSE}]
         /\ Stopped(o) \in [open : BOOLEAN, skip : {FALSE}, refresh : {FALSE}]
<1>1. CASE o.open
  BY <1>1 DEF Set, Loaded, Stopped
<1>2. CASE ~o.open
  BY <1>2 DEF Set, Loaded, Stopped
<1> QED
  BY <1>1, <1>2

\* Every step keeps the flags and the verse that was asked for.
LEMMA AskedStep == ASSUME AskedInv, [OverlayNext]_allVars PROVE AskedInv'
<1> USE DEF AskedInv, AskedVerseStays, AskedFor, askedVars
<1>1. ASSUME NEW open \in BOOLEAN, SetOverlayOpen(open) PROVE AskedInv'
  BY <1>1, SetFlags DEF SetOverlayOpen, vars
<1>2. ASSUME NEW v, LoadReference(v) PROVE AskedInv'
  BY <1>2, SetFlags DEF LoadReference, ShowOther
<1>3. ASSUME NEW v, Navigate(v) PROVE AskedInv'
  BY <1>3, SetFlags DEF Navigate, ShowOther
<1>15. CASE NavigateNowhere
  BY <1>15, SetFlags DEF NavigateNowhere, vars
<1>4. CASE AnotherVerse
  BY <1>4, SetFlags DEF AnotherVerse, Refresh
<1>5. CASE OpenRefresh
  BY <1>5, SetFlags DEF OpenRefresh, Refresh
<1>6. CASE SelectFilters
  BY <1>6 DEF SelectFilters, SetFilters
<1>7. ASSUME NEW target, CheckAutoOpen(target), UNCHANGED vars PROVE AskedInv'
  BY <1>7, SetFlags DEF CheckAutoOpen, vars
<1>8. CASE AutoOpenTick
  BY <1>7, <1>8 DEF AutoOpenTick
<1>9. ASSUME NEW target, SaveAutoOpenAt(target) PROVE AskedInv'
  BY <1>7, <1>9 DEF SaveAutoOpenAt
<1>10. CASE FlushDay
  BY <1>10 DEF FlushDay, vars
<1>11. CASE Pass
  BY <1>11 DEF Pass, vars
<1>12. ASSUME NEW n, SetClock(n) PROVE AskedInv'
  BY <1>12 DEF SetClock, vars
<1>13. CASE Restart
  BY <1>13 DEF Restart
<1>14. CASE UNCHANGED allVars
  BY <1>14 DEF allVars, vars
<1> QED
  BY <1>1, <1>2, <1>3, <1>4, <1>5, <1>6, <1>8, <1>9, <1>10, <1>11, <1>12, <1>13, <1>14, <1>15 DEF OverlayNext

\* A verse that was asked for stays until another is asked for, the overlay is
\* opened anew or the auto-open comes due while it is open, however loads, closing
\* and opening, the refresh timer and restarts follow one another.
THEOREM AskedStays == OverlaySpec => []AskedVerseStays
<1>1. OverlayInit => AskedInv
  <2> SUFFICES ASSUME OverlayInit PROVE AskedInv
    OBVIOUS
  <2>1. asked = None /\ overtaken \in BOOLEAN
    BY DEF OverlayInit
  <2>2. overlay \in [open : BOOLEAN, skip : {FALSE}, refresh : BOOLEAN]
    BY DEF OverlayInit
  <2> QED
    BY <2>1, <2>2 DEF AskedInv, AskedVerseStays
<1>2. AskedInv /\ [OverlayNext]_allVars => AskedInv'
  BY AskedStep
<1>3. AskedInv => AskedVerseStays
  BY DEF AskedInv
<1> QED
  BY <1>1, <1>2, <1>3, PTL DEF OverlaySpec
-----------------------------------------------------------------------------
(* The clock. *)

\* Division by a positive number keeps the order of natural numbers.
LEMMA DivMonotone ==
  ASSUME NEW a \in Nat, NEW b \in Nat, NEW k \in Nat \ {0}, a <= b
  PROVE  a \div k \in Nat /\ a \div k <= b \div k
OBVIOUS

\* A remainder is a natural number.
LEMMA ModIsNat ==
  ASSUME NEW a \in Nat, NEW k \in Nat \ {0}
  PROVE  a % k \in Nat
OBVIOUS

\* Days are numbered from 0 and do not decrease while the clock does not.
LEMMA DaysGrow ==
  ASSUME NEW m \in Nat, NEW n \in Nat, m <= n
  PROVE  DayOf(m) \in Nat /\ DayOf(m) <= DayOf(n) /\ MinuteOf(m) \in Nat
<1>1. 2 * Minutes \in Nat \ {0} /\ Minutes \in Nat \ {0}
  BY OverlayAssumption
<1>2. DayOf(m) \in Nat /\ DayOf(m) <= DayOf(n)
  BY <1>1, DivMonotone DEF DayOf
<1>3. m \div 2 \in Nat
  OBVIOUS
<1>4. MinuteOf(m) \in Nat
  BY <1>1, <1>3, ModIsNat DEF MinuteOf
<1> QED
  BY <1>2, <1>4

\* What the clock shows, and what the auto-open knows of the days.
ClockInv ==
  /\ clock \in 0..MaxClock
  /\ lastDay \in Nat \cup {None} /\ savedDay \in Nat \cup {None}
  /\ opened \subseteq Days
  /\ \A d \in opened \ excused : d <= Today /\ (d = Today => lastDay = d)
  /\ repeated \subseteq excused

\* Where the auto-open stands in its minute: the day is recorded, or the timer
\* fires before time passes.
MinuteInv ==
  /\ tick \in {None} \cup 0..1
  /\ autoOpenAt = None <=> tick = None
  /\ autoOpenAt = MinuteOf(clock) /\ ~clockSet => lastDay = Today \/ tick = 0

\* Days and minutes the clock shows are natural numbers.
LEMMA ClockShows == ASSUME ClockInv
  PROVE  /\ clock \in Nat /\ Today \in Nat /\ MinuteOf(clock) \in Nat /\ Today \in Days
         /\ Days \subseteq Nat
<1>1. clock \in Nat /\ MaxClock \in Nat /\ clock <= MaxClock
  BY OverlayAssumption DEF ClockInv
<1>2. Today \in Nat /\ MinuteOf(clock) \in Nat
  BY <1>1, DaysGrow DEF Today
<1>3. Today <= DayOf(MaxClock) /\ DayOf(MaxClock) \in Nat
  BY <1>1, DaysGrow DEF Today
<1> QED
  BY <1>1, <1>2, <1>3 DEF Days

\* The auto-open, whatever time it goes by: it records the day, and a day it
\* sees again without its record is one that is excused.
LEMMA CheckStep ==
  ASSUME ClockInv, NEW target, CheckAutoOpen(target), UNCHANGED <<clock, excused>>
  PROVE  ClockInv' /\ (target = MinuteOf(clock) => lastDay' = Today)
<1> USE ClockShows
<1>1. CASE Due(target, lastDay)
  <2>1. Today' = Today /\ lastDay' = Today /\ opened' = opened \cup {Today}
    BY <1>1 DEF CheckAutoOpen, Today
  <2>2. Today \notin opened \ excused
    BY <1>1 DEF ClockInv, Due
  <2>3. savedDay' \in Nat \cup {None} /\ repeated' \subseteq excused
    BY <1>1, <2>2 DEF CheckAutoOpen, ClockInv
  <2>4. \A d \in opened' \ excused' : d <= Today' /\ (d = Today' => lastDay' = d)
    BY <2>1 DEF ClockInv
  <2> QED
    BY <2>1, <2>3, <2>4 DEF ClockInv
<1>2. CASE ~Due(target, lastDay)
  <2>1. ClockInv'
    BY <1>2 DEF CheckAutoOpen, ClockInv, Today
  <2>2. target = MinuteOf(clock) => lastDay = Today
    BY <1>2, OverlayAssumption DEF Due
  <2> QED
    BY <1>2, <2>1, <2>2 DEF CheckAutoOpen
<1> QED
  BY <1>1, <1>2

\* What a step that is not of the auto-open leaves as it is.
LEMMA ClockKept ==
  ASSUME ClockInv, MinuteInv, UNCHANGED <<autoOpenVars, dayVars>>
  PROVE  ClockInv' /\ MinuteInv'
BY DEF ClockInv, MinuteInv, autoOpenVars, dayVars, Today

\* Every step keeps the invariants of the auto-open and of its minute.
LEMMA TimeStep ==
  ASSUME ClockInv, MinuteInv, [OverlayNext]_allVars PROVE ClockInv' /\ MinuteInv'
<1> USE ClockShows
<1>1. ASSUME UNCHANGED <<autoOpenVars, dayVars>> PROVE ClockInv' /\ MinuteInv'
  BY <1>1, ClockKept
<1>2. CASE AutoOpenTick
  <2>1. ClockInv' /\ (autoOpenAt = MinuteOf(clock) => lastDay' = Today)
    BY <1>2, CheckStep DEF AutoOpenTick
  <2>2. MinuteInv'
    BY <1>2, <2>1, OverlayAssumption DEF AutoOpenTick, MinuteInv, Interval, Today
  <2> QED
    BY <2>1, <2>2
<1>3. ASSUME NEW target \in 0..Minutes - 1 \cup {None}, SaveAutoOpenAt(target) PROVE ClockInv' /\ MinuteInv'
  <2>1. ClockInv' /\ (target = MinuteOf(clock) => lastDay' = Today)
    BY <1>3, CheckStep DEF SaveAutoOpenAt
  <2>2. MinuteInv'
    BY <1>3, <2>1, OverlayAssumption DEF SaveAutoOpenAt, TimerFor, MinuteInv, Interval, Today
  <2> QED
    BY <2>1, <2>2
<1>4. CASE FlushDay
  BY <1>4 DEF FlushDay, ClockInv, MinuteInv, dayVars, Today
<1>5. CASE Pass
  <2>1. clock' = clock + 1 /\ clock' \in 0..MaxClock /\ clock' \in Nat
    BY <1>5, OverlayAssumption DEF Pass, ClockInv
  <2>2. Today' \in Nat /\ Today <= Today' /\ MinuteOf(clock') \in Nat
    BY <2>1, DaysGrow DEF Today
  <2>3. \A d \in opened \ excused : d <= Today' /\ (d = Today' => lastDay = d)
    BY <2>2 DEF ClockInv
  <2>4. ClockInv'
    BY <1>5, <2>1, <2>3 DEF Pass, ClockInv
  <2>5. MinuteInv'
    BY <1>5, <2>2, OverlayAssumption DEF Pass, MinuteInv
  <2> QED
    BY <2>4, <2>5
<1>6. ASSUME NEW n \in ClockTargets, SetClock(n) PROVE ClockInv' /\ MinuteInv'
  <2>1. clock' = n /\ n \in 0..MaxClock /\ n \in Nat /\ UNCHANGED <<autoOpenAt, tick, lastDay, savedDay, opened, repeated>>
    BY <1>6, OverlayAssumption DEF SetClock
  <2>2. DayOf(n) \in Nat /\ Today' = DayOf(n)
    BY <2>1, DaysGrow DEF Today
  <2>3. excused' = excused \cup {d \in Days : DayOf(n) <= d /\ d <= Today /\ DayOf(n) # Today}
    BY <1>6 DEF SetClock
  <2>4. ASSUME NEW d \in opened \ excused' PROVE d <= Today' /\ (d = Today' => lastDay = d)
    BY <2>2, <2>3, <2>4 DEF ClockInv
  <2>5. ClockInv'
    BY <2>1, <2>3, <2>4 DEF ClockInv
  <2>6. MinuteInv'
    BY <1>6, <2>1 DEF SetClock, MinuteInv
  <2> QED
    BY <2>5, <2>6
<1>7. CASE Restart
  <2>1. Today' = Today /\ clock' = clock /\ UNCHANGED <<autoOpenAt, clockSet>>
    BY <1>7 DEF Restart, Today
  <2>2. excused' = excused \cup ({lastDay} \ {savedDay})
    BY <1>7 DEF Restart
  <2>3. \A d \in opened \ excused' : d <= Today /\ (d = Today => savedDay = d)
    BY <2>2 DEF ClockInv
  <2>4. CASE Due(autoOpenAt, savedDay)
    <3>1. lastDay' = Today /\ savedDay' \in {savedDay, Today} /\ opened' = opened \cup {Today}
          /\ repeated' = repeated \cup ({Today} \cap opened)
      BY <1>7, <2>4 DEF Restart, Read
    <3>2. Today \notin opened \ excused'
      BY <2>3, <2>4 DEF Due
    <3>3. ClockInv'
      BY <2>1, <2>2, <2>3, <3>1, <3>2 DEF ClockInv
    <3> QED
      BY <1>7, <2>1, <3>1, <3>3, OverlayAssumption DEF Restart, MinuteInv, Interval
  <2>5. CASE ~Due(autoOpenAt, savedDay)
    <3>1. lastDay' = savedDay /\ UNCHANGED <<savedDay, opened, repeated>>
      BY <1>7, <2>5 DEF Restart, Read
    <3>2. autoOpenAt = MinuteOf(clock) => savedDay = Today
      BY <2>5, OverlayAssumption DEF Due
    <3>3. ClockInv'
      BY <2>1, <2>2, <2>3, <3>1 DEF ClockInv
    <3> QED
      BY <1>7, <2>1, <3>1, <3>2, <3>3, OverlayAssumption DEF Restart, MinuteInv, Interval
  <2> QED
    BY <2>4, <2>5
<1>8. CASE SelectFilters
  BY <1>1, <1>8 DEF SelectFilters
<1> QED
  BY <1>1, <1>2, <1>3, <1>4, <1>5, <1>6, <1>7, <1>8
  DEF OverlayNext, SetOverlayOpen, LoadReference, Navigate, NavigateNowhere, AnotherVerse, OpenRefresh, Refresh, allVars

\* The auto-open's own invariants hold in every reachable state.
LEMMA TimeInvariance == OverlaySpec => [](ClockInv /\ MinuteInv)
<1>1. OverlayInit => ClockInv /\ MinuteInv
  <2> SUFFICES ASSUME OverlayInit PROVE ClockInv /\ MinuteInv
    OBVIOUS
  <2>1. clock \in Nat /\ clock \in 0..MaxClock
    BY OverlayAssumption DEF OverlayInit
  <2> QED
    BY <2>1, DaysGrow, OverlayAssumption DEF OverlayInit, ClockInv, MinuteInv
<1>2. ClockInv /\ MinuteInv /\ [OverlayNext]_allVars => ClockInv' /\ MinuteInv'
  BY TimeStep
<1> QED
  BY <1>1, <1>2, PTL DEF OverlaySpec

\* A day sees a second auto-open only if it came again or its record was lost
\* with the process, wherever the process ends and however the clock is set.
THEOREM OpensOnceADay == OverlaySpec => []OncePerDay
<1>1. ClockInv => OncePerDay
  BY DEF ClockInv, OncePerDay
<1> QED
  BY <1>1, TimeInvariance, PTL

\* No minute of the auto-open ends without the overlay having been opened that
\* day, if the clock was left alone: whenever a step ends it, the timer has
\* fired in it.
THEOREM NoMinuteIsMissed == OverlaySpec => OpensInItsMinute
<1>1. ASSUME ClockInv, MinuteInv, [OverlayNext]_allVars
      PROVE  [clock' = clock + 1 /\ MinuteOf(clock') # MinuteOf(clock) /\ ~clockSet /\ ~clockSet'
                /\ autoOpenAt = MinuteOf(clock)
              => lastDay = Today]_allVars
  <2> SUFFICES ASSUME clock' = clock + 1, MinuteOf(clock') # MinuteOf(clock), ~clockSet, ~clockSet',
                      autoOpenAt = MinuteOf(clock)
               PROVE  lastDay = Today
    OBVIOUS
  <2>1. clock' # clock
    BY ClockShows
  <2>2. CASE Pass
    BY <1>1, <2>2 DEF Pass, MinuteInv
  <2>3. ~(\E n \in ClockTargets : SetClock(n))
    BY DEF SetClock
  <2>4. Pass
    BY <1>1, <2>1, <2>3
    DEF OverlayNext, SetOverlayOpen, LoadReference, Navigate, NavigateNowhere, AnotherVerse, OpenRefresh, Refresh,
        SelectFilters, AutoOpenTick, SaveAutoOpenAt, FlushDay, Restart, autoOpenVars, allVars
  <2> QED
    BY <2>2, <2>4
<1>2. [](ClockInv /\ MinuteInv) /\ [][OverlayNext]_allVars => OpensInItsMinute
  BY <1>1, PTL DEF OpensInItsMinute
<1> QED
  BY <1>2, TimeInvariance, PTL DEF OverlaySpec
-----------------------------------------------------------------------------
(* The deck. *)

\* The cards the deck has come past.
Behind == {deck[i] : i \in {j \in 1..Len(deck) : j <= pos}}

\* The deck has each card once, and the cards it has come past are those that
\* were drawn or passed over since it was dealt or shuffled; with that, no card
\* is repeated too early.
DeckInv ==
  /\ deck \in Seq(Verses) /\ IsInjective(deck) /\ Cards \in Selections \cup {Verses}
  /\ pos \in 0..Len(deck) + 1
  /\ dealt \in Seq(Verses)
  /\ Range(dealt) \cup passed = Behind
  /\ NoRepeat

\* The elements of a list are those at its places.
LEMMA RangeOfList ==
  ASSUME NEW A, NEW s \in Seq(A)
  PROVE  /\ Range(s) = {s[i] : i \in 1..Len(s)} /\ Range(s) \subseteq A
         /\ IsInjective(s) <=> \A i, j \in 1..Len(s) : s[i] = s[j] => i = j
         /\ Len(s) \in Nat /\ s \in [1..Len(s) -> Range(s)] /\ DOMAIN s = 1..Len(s)
<1>1. Len(s) \in Nat /\ DOMAIN s = 1..Len(s) /\ \A i \in 1..Len(s) : s[i] \in A
  OBVIOUS
<1> QED
  BY <1>1 DEF Range, IsInjective

\* The curated verses are a deck.
LEMMA CuratedIsADeck == Curated \in Seq(Verses) /\ IsInjective(Curated) /\ Range(Curated) = Verses
<1>1. Curated \in Seq(Verses) /\ \A i, j \in 1..Len(Curated) : Curated[i] = Curated[j] => i = j
  BY DeckAssumption
<1>2. IsInjective(Curated) /\ Range(Curated) = {Curated[i] : i \in 1..Len(Curated)}
  BY <1>1, RangeOfList
<1> QED
  BY <1>1, <1>2 DEF Verses

\* The verses that a filter keeps of them are one, too.
LEMMA FilteredIsADeck ==
  ASSUME NEW s \in Selections \cup {Verses}
  PROVE  /\ Kept(Curated, s) \in Seq(Verses) /\ IsInjective(Kept(Curated, s))
         /\ Range(Kept(Curated, s)) = s
<1>1. s \subseteq Verses
  BY DeckAssumption
<1>2. Curated \in Seq(Verses) /\ IsInjective(Curated) /\ Range(Curated) = Verses
  BY CuratedIsADeck
<1>3. /\ Kept(Curated, s) \in Seq(Verses) /\ Range(Kept(Curated, s)) = Range(Curated) \cap s
      /\ IsInjective(Curated) => IsInjective(Kept(Curated, s))
  BY <1>2, KeptElements
<1>4. Range(Curated) \cap s = s
  BY <1>1, <1>2
<1> QED
  BY <1>2, <1>3, <1>4

\* A deck has as many cards as places.
LEMMA DeckSize ==
  ASSUME NEW A, NEW s \in Seq(A), IsInjective(s)
  PROVE  IsFiniteSet(Range(s)) /\ Cardinality(Range(s)) = Len(s)
<1>1. Len(s) \in Nat /\ s \in [1..Len(s) -> Range(s)] /\ DOMAIN s = 1..Len(s)
  BY RangeOfList
<1>2. s \in Surjection(1..Len(s), Range(s))
  BY <1>1 DEF Surjection, Range
<1>3. s \in Injection(1..Len(s), Range(s))
  BY <1>1 DEF Injection
<1>4. IsFiniteSet(1..Len(s)) /\ Cardinality(1..Len(s)) = Len(s)
  <2>1. 1 \in Int /\ Len(s) \in Int /\ (1 > Len(s) => Len(s) = 0) /\ Len(s) - 1 + 1 = Len(s)
    BY <1>1
  <2> QED
    BY <2>1, FS_Interval
<1> QED
  BY <1>2, <1>3, <1>4, FS_Surjection

\* Any order of the cards of a deck is a deck of the same cards.
LEMMA ShuffledIsADeck ==
  ASSUME NEW A, NEW s \in Seq(A), IsInjective(s),
         NEW order \in [1..Len(s) -> Range(s)], Range(order) = Range(s)
  PROVE  order \in Seq(A) /\ Len(order) = Len(s) /\ IsInjective(order)
<1>1. Len(s) \in Nat /\ Range(s) \subseteq A
  BY RangeOfList
<1>2. order \in Seq(A) /\ Len(order) = Len(s)
  BY <1>1
<1>3. order \in Surjection(1..Len(s), Range(s))
  BY DEF Surjection, Range
<1>4. IsFiniteSet(1..Len(s)) /\ Cardinality(1..Len(s)) = Cardinality(Range(s))
  <2>1. 1 \in Int /\ Len(s) \in Int /\ (1 > Len(s) => Len(s) = 0) /\ Len(s) - 1 + 1 = Len(s)
    BY <1>1
  <2>2. IsFiniteSet(1..Len(s)) /\ Cardinality(1..Len(s)) = Len(s)
    BY <2>1, FS_Interval
  <2> QED
    BY <2>2, DeckSize
<1>5. order \in Injection(1..Len(s), Range(s))
  BY <1>3, <1>4, FS_SurjSameCardinalityImpliesInj
<1> QED
  BY <1>2, <1>5 DEF Injection
\* A list with one more element: its elements are one more, and the lists
\* before each of the others are as they were.
LEMMA AppendElements ==
  ASSUME NEW A, NEW s \in Seq(A), NEW x \in A
  PROVE  /\ Append(s, x) \in Seq(A) /\ Len(Append(s, x)) = Len(s) + 1
         /\ Range(Append(s, x)) = Range(s) \cup {x}
         /\ Append(s, x)[Len(s) + 1] = x /\ \A i \in 1..Len(s) : Append(s, x)[i] = s[i]
<1>1. Append(s, x) \in Seq(A) /\ Len(Append(s, x)) = Len(s) + 1 /\ Append(s, x)[Len(s) + 1] = x
      /\ (\A i \in 1..Len(s) : Append(s, x)[i] = s[i]) /\ Len(s) \in Nat
  OBVIOUS
<1> DEFINE t == Append(s, x)
<1> HIDE DEF t
<1>2. t \in Seq(A) /\ Len(t) = Len(s) + 1 /\ t[Len(s) + 1] = x /\ \A i \in 1..Len(s) : t[i] = s[i]
  BY <1>1 DEF t
<1>3. Range(t) = {t[i] : i \in 1..Len(s) + 1} /\ Range(s) = {s[i] : i \in 1..Len(s)}
  BY <1>2, RangeOfList
<1>4. Range(t) \subseteq Range(s) \cup {x}
  <2>1. ASSUME NEW i \in 1..Len(s) + 1 PROVE t[i] \in Range(s) \cup {x}
    <3>1. i = Len(s) + 1 \/ i \in 1..Len(s)
      BY <1>1
    <3> QED
      BY <1>2, <1>3, <3>1
  <2> QED
    BY <1>3, <2>1
<1>5. Range(s) \cup {x} \subseteq Range(t)
  <2>1. Len(s) + 1 \in 1..Len(s) + 1 /\ \A i \in 1..Len(s) : i \in 1..Len(s) + 1
    BY <1>1
  <2> QED
    BY <1>2, <1>3, <2>1
<1> QED
  BY <1>1, <1>4, <1>5 DEF t

\* NoRepeat of a list of draws d, when C are the cards and p those passed over.
Unrepeated(d, C, p) == \A j \in 1..Len(d) : d[j] \in {d[i] : i \in 1..j - 1} => C = {d[i] : i \in 1..j - 1} \cup p

\* It still holds after one more draw, when the draw is of a new card or every
\* card has been drawn or passed over.
LEMMA OneMoreDraw ==
  ASSUME NEW A, NEW d \in Seq(A), NEW x \in A, NEW C, NEW p, NEW q,
         Unrepeated(d, C, p), p \subseteq q, q \subseteq C, Range(d) \subseteq C,
         x \in Range(d) => C = Range(d) \cup q
  PROVE  Unrepeated(Append(d, x), C, q)
<1> DEFINE t == Append(d, x)
<1>1. Len(t) = Len(d) + 1 /\ t[Len(d) + 1] = x /\ Len(d) \in Nat /\ \A i \in 1..Len(d) : t[i] = d[i]
  BY AppendElements
<1> HIDE DEF t
<1> SUFFICES ASSUME NEW j \in 1..Len(d) + 1, t[j] \in {t[i] : i \in 1..j - 1}
             PROVE  C = {t[i] : i \in 1..j - 1} \cup q
  BY <1>1 DEF Unrepeated, t
<1>2. {t[i] : i \in 1..j - 1} = {d[i] : i \in 1..j - 1}
  <2>1. \A i \in 1..j - 1 : t[i] = d[i]
    BY <1>1
  <2> QED
    BY <2>1
<1>3. Range(d) = {d[i] : i \in 1..Len(d)}
  BY RangeOfList
<1>4. CASE j = Len(d) + 1
  <2>1. j - 1 = Len(d)
    BY <1>1, <1>4
  <2> QED
    BY <1>1, <1>2, <1>3, <1>4, <2>1
<1>5. CASE j \in 1..Len(d)
  <2>1. C = {d[i] : i \in 1..j - 1} \cup p
    BY <1>1, <1>2, <1>5 DEF Unrepeated
  <2>2. {d[i] : i \in 1..j - 1} \subseteq C
    BY <2>1
  <2> QED
    BY <1>2, <2>1, <2>2
<1> QED
  BY <1>1, <1>4, <1>5
\* What a draw starts from: the order of the deck, which has the same cards, and
\* what has come of it so far.
LEMMA DrawStarts ==
  ASSUME DeckInv, deck # <<>>, NEW order \in Orders
  PROVE  LET d == IF UsedUp THEN <<>> ELSE dealt
             p == IF UsedUp THEN {} ELSE passed
         IN  /\ order \in Seq(Verses) /\ Len(order) = Len(deck) /\ IsInjective(order) /\ Range(order) = Cards
             /\ Top \in 0..Len(deck) - 1 /\ Len(deck) \in Nat \ {0}
             /\ d \in Seq(Verses) /\ Unrepeated(d, Cards, p)
             /\ Range(d) \cup p = {order[i] : i \in 1..Top}
<1>1. deck \in Seq(Verses) /\ IsInjective(deck) /\ pos \in 0..Len(deck) + 1 /\ dealt \in Seq(Verses)
  BY DEF DeckInv
<1>2. Len(deck) \in Nat \ {0}
  BY <1>1
<1>3. CASE UsedUp
  <2>1. order \in [1..Len(deck) -> Cards] /\ Range(order) = Cards
    BY <1>3 DEF Orders
  <2>2. order \in Seq(Verses) /\ Len(order) = Len(deck) /\ IsInjective(order)
    BY <1>1, <2>1, ShuffledIsADeck DEF Cards
  <2>3. Range(<<>>) = {} /\ <<>> \in Seq(Verses) /\ Len(<<>>) = 0 /\ {order[i] : i \in 1..0} = {}
    BY DEF Range
  <2>4. Unrepeated(<<>>, Cards, {})
    BY <2>3 DEF Unrepeated
  <2> QED
    BY <1>2, <1>3, <2>1, <2>2, <2>3, <2>4 DEF Top
<1>4. CASE ~UsedUp
  <2>1. order = deck /\ Top = pos /\ pos < Len(deck)
    BY <1>1, <1>2, <1>4 DEF Orders, Top, UsedUp
  <2>2. {j \in 1..Len(deck) : j <= pos} = 1..pos
    BY <1>1, <1>2, <2>1
  <2>3. Range(dealt) \cup passed = {deck[i] : i \in 1..pos}
    BY <2>2 DEF DeckInv, Behind
  <2>4. Unrepeated(dealt, Cards, passed)
    BY DEF DeckInv, NoRepeat, Unrepeated
  <2> QED
    BY <1>1, <1>2, <1>4, <2>1, <2>3, <2>4 DEF Cards
<1> QED
  BY <1>3, <1>4

\* A draw keeps the deck's invariant, and brings another verse than is on
\* display unless the deck has no other.
LEMMA DrawStep ==
  ASSUME DeckInv, NEW order \in Orders, Draw(order)
  PROVE  /\ DeckInv' /\ drawn' \in Verses
         /\ shown' # shown \/ Len(deck) = 1
         /\ drawn' = shown' /\ drawn' \in Cards
<1> DEFINE d == IF UsedUp THEN <<>> ELSE dealt
           p == IF UsedUp THEN {} ELSE passed
           q == p \cup (IF Skips(order) THEN {shown} ELSE {})
           n == Len(deck)
           at == Taken(order)
<1>1. /\ order \in Seq(Verses) /\ Len(order) = n /\ IsInjective(order) /\ Range(order) = Cards
      /\ Top \in 0..n - 1 /\ n \in Nat \ {0}
      /\ d \in Seq(Verses) /\ Unrepeated(d, Cards, p)
      /\ Range(d) \cup p = {order[i] : i \in 1..Top}
  BY DrawStarts DEF Draw
<1>2. /\ deck' = order /\ pos' = IF Skips(order) THEN Top + 2 ELSE Top + 1
      /\ drawn' = order[at] /\ shown' = order[at] /\ dealt' = Append(d, order[at]) /\ passed' = q
  BY DEF Draw
<1> HIDE DEF d, p, n
<1>3. /\ \A i, j \in 1..n : order[i] = order[j] => i = j
      /\ Cards = {order[i] : i \in 1..n} /\ \A i \in 1..n : order[i] \in Verses
  <2>1. /\ Range(order) = {order[i] : i \in 1..Len(order)} /\ Range(order) \subseteq Verses
        /\ IsInjective(order) <=> \A i, j \in 1..Len(order) : order[i] = order[j] => i = j
    BY <1>1, RangeOfList
  <2> QED
    BY <1>1, <2>1
<1>4. Top + 1 \in 1..n
  BY <1>1
<1>5. /\ at \in 1..n /\ (at = Top + 1 <=> ~Skips(order))
      /\ {order[i] : i \in {j \in 1..n : j <= pos'}}
           = {order[i] : i \in 1..Top} \cup {order[Top + 1]} \cup {order[at]}
      /\ (order[at] \in {order[i] : i \in 1..Top} =>
            Cards = {order[i] : i \in 1..Top} \cup {order[Top + 1]} /\ Skips(order))
  <2>1. CASE ~Skips(order)
    <3>1. at = Top + 1 /\ pos' = Top + 1
      BY <1>2, <2>1 DEF Taken
    <3>2. {j \in 1..n : j <= pos'} = 1..Top \cup {Top + 1}
      BY <1>1, <3>1
    <3>3. order[at] \notin {order[i] : i \in 1..Top}
      BY <1>1, <1>3, <1>4, <3>1
    <3> QED
      BY <1>4, <2>1, <3>1, <3>2, <3>3
  <2>2. CASE Skips(order) /\ Top + 1 < n
    <3>1. at = Top + 2 /\ pos' = Top + 2 /\ Top + 2 \in 1..n
      <4>1. (Top + 1) % n = Top + 1
        BY <1>1, <2>2
      <4> QED
        BY <1>1, <1>2, <2>2, <4>1 DEF Taken, n
    <3>2. {j \in 1..n : j <= pos'} = 1..Top \cup {Top + 1, Top + 2}
      BY <1>1, <3>1
    <3>3. order[at] \notin {order[i] : i \in 1..Top}
      BY <1>1, <1>3, <3>1
    <3>4. {order[i] : i \in {j \in 1..n : j <= pos'}}
            = {order[i] : i \in 1..Top} \cup {order[Top + 1]} \cup {order[at]}
      BY <3>1, <3>2
    <3>5. at \in 1..n /\ at # Top + 1
      BY <1>1, <3>1
    <3> HIDE DEF at
    <3> QED
      BY <2>2, <3>3, <3>4, <3>5
  <2>3. CASE Skips(order) /\ Top + 1 = n
    <3>1. n > 1
      BY <2>3 DEF Skips, n
    <3>2. at = 1 /\ pos' = n + 1
      <4>1. (Top + 1) % n = 0
        BY <1>1, <2>3
      <4> QED
        BY <1>1, <1>2, <2>3, <4>1 DEF Taken, n
    <3>3. {j \in 1..n : j <= pos'} = 1..n /\ 1..n = 1..Top \cup {Top + 1} /\ 1 \in 1..Top
      BY <1>1, <2>3, <3>1, <3>2
    <3>4. {order[i] : i \in {j \in 1..n : j <= pos'}} = {order[i] : i \in 1..n}
      BY <3>3
    <3>5. {order[i] : i \in 1..n} = {order[i] : i \in 1..Top} \cup {order[Top + 1]}
      BY <3>3
    <3>6. order[at] \in {order[i] : i \in 1..Top}
      BY <3>2, <3>3
    <3>7. at \in 1..n /\ at # Top + 1
      BY <1>1, <2>3, <3>1, <3>2
    <3>8. {order[i] : i \in {j \in 1..n : j <= pos'}}
            = {order[i] : i \in 1..Top} \cup {order[Top + 1]} \cup {order[at]}
      BY <3>4, <3>5, <3>6
    <3>9. Cards = {order[i] : i \in 1..Top} \cup {order[Top + 1]}
      BY <1>3, <3>5
    <3> HIDE DEF at
    <3> QED
      BY <2>3, <3>7, <3>8, <3>9
  <2>4. Top + 1 < n \/ Top + 1 = n
    BY <1>1
  <2> QED
    BY <2>1, <2>2, <2>3, <2>4
<1>6. at = Top + 1 <=> ~Skips(order)
  BY <1>5
<1>7. q = IF Skips(order) THEN p \cup {order[Top + 1]} ELSE p
  BY DEF Skips
<1> HIDE DEF at, q
<1>8. dealt' \in Seq(Verses) /\ Range(dealt') = Range(d) \cup {order[at]}
  BY <1>1, <1>2, <1>3, <1>5, AppendElements
<1>9. Range(dealt') \cup passed' = {order[i] : i \in {j \in 1..n : j <= pos'}}
  <2>1. CASE Skips(order)
    BY <1>1, <1>2, <1>5, <1>7, <1>8, <2>1
  <2>2. CASE ~Skips(order)
    BY <1>1, <1>2, <1>5, <1>6, <1>7, <1>8, <2>2
  <2> QED
    BY <2>1, <2>2
<1>10. Unrepeated(dealt', Cards, q)
  <2>1. Range(d) \subseteq Cards /\ p \subseteq q /\ q \subseteq Cards
    <3>1. {order[i] : i \in 1..Top} \subseteq Cards /\ order[Top + 1] \in Cards
      BY <1>1, <1>3, <1>4
    <3> QED
      BY <1>1, <1>7, <3>1
  <2>2. ASSUME order[at] \in Range(d) PROVE Cards = Range(d) \cup q
    <3>1. order[at] \in {order[i] : i \in 1..Top}
      BY <1>1, <2>2
    <3>2. Cards = {order[i] : i \in 1..Top} \cup {order[Top + 1]} /\ Skips(order)
      BY <1>5, <3>1
    <3> QED
      BY <1>1, <1>7, <3>2
  <2>3. order[at] \in Verses
    BY <1>3, <1>5
  <2> QED
    BY <1>1, <1>2, <2>1, <2>2, <2>3, OneMoreDraw
<1>11. Cards' = Cards /\ Len(deck') = n
  BY <1>1, <1>2 DEF Cards
<1>12. DeckInv'
  <2>1. NoRepeat'
    BY <1>2, <1>10, <1>11 DEF NoRepeat, Unrepeated
  <2>2. pos' \in 0..Len(deck') + 1
    BY <1>1, <1>2, <1>11
  <2>3. Range(dealt') \cup passed' = Behind'
    BY <1>2, <1>9, <1>11 DEF Behind
  <2>4. Cards' \in Selections \cup {Verses}
    BY <1>11 DEF DeckInv
  <2> QED
    BY <1>1, <1>2, <1>8, <2>1, <2>2, <2>3, <2>4 DEF DeckInv
<1>13. shown' # shown \/ Len(deck) = 1
  <2>1. CASE Skips(order)
    BY <1>2, <1>3, <1>4, <1>5, <1>6, <2>1 DEF Skips
  <2>2. CASE ~Skips(order)
    BY <1>1, <1>2, <1>6, <2>2 DEF Skips, n
  <2> QED
    BY <2>1, <2>2
<1> QED
  BY <1>2, <1>3, <1>5, <1>12, <1>13

\* The other steps of the deck: a new deal, and those that leave it alone.
LEMMA DealStep ==
  ASSUME NEW s \in Selections \cup {Verses},
         deck' = Kept(Curated, s), pos' = 0, dealt' = <<>>, passed' = {}
  PROVE  DeckInv'
<1>1. deck' \in Seq(Verses) /\ IsInjective(deck') /\ Range(deck') = s
  BY FilteredIsADeck
<1>2. Len(deck') \in Nat
  BY <1>1
<1>3. {j \in 1..Len(deck') : j <= 0} = {} /\ Range(<<>>) = {} /\ <<>> \in Seq(Verses) /\ Len(<<>>) = 0
  BY DEF Range
<1>4. Range(dealt') \cup passed' = Behind'
  BY <1>3 DEF Behind
<1>5. NoRepeat'
  BY <1>3 DEF NoRepeat
<1>6. pos' \in 0..Len(deck') + 1 /\ dealt' \in Seq(Verses)
  BY <1>2, <1>3
<1> QED
  BY <1>1, <1>4, <1>5, <1>6 DEF DeckInv, Cards

\* What leaves the deck and the loads alone keeps the deck's invariant.
LEMMA DeckKept ==
  ASSUME DeckInv, UNCHANGED <<deck, pos, dealt, passed>>
  PROVE  DeckInv'
BY DEF DeckInv, Cards, Behind, NoRepeat

\* Every step of the overlay keeps the deck's invariant.
LEMMA DeckStep == ASSUME DeckInv, [OverlayNext]_allVars PROVE DeckInv'
<1>1. CASE SelectFilters
  BY <1>1, DealStep DEF SelectFilters, SetFilters
<1>2. CASE Restart
  <2>1. Cards \in Selections \cup {Verses}
    BY DEF DeckInv
  <2> QED
    BY <1>2, <2>1, DealStep DEF Restart
<1>3. ASSUME Refresh PROVE DeckInv'
  <2>1. CASE \E v \in Verses \cup Elsewhere : ShowOther(v)
    BY <2>1, DeckKept DEF ShowOther
  <2>2. CASE DrawNothing
    BY <2>2, DeckKept DEF DrawNothing
  <2>3. CASE \E order \in Orders : Draw(order)
    BY <2>3, DrawStep
  <2> QED
    BY <1>3, <2>1, <2>2, <2>3 DEF Refresh
<1>4. CASE UNCHANGED <<deck, pos, dealt, passed>>
  BY <1>4, DeckKept
<1> QED
  BY <1>1, <1>2, <1>3, <1>4
  DEF OverlayNext, SetOverlayOpen, LoadReference, Navigate, NavigateNowhere, AnotherVerse, OpenRefresh, AutoOpenTick, FlushDay,
      SaveAutoOpenAt, Pass, SetClock, ShowOther, vars, allVars

\* The deck as it is dealt at first.
LEMMA DeckInit == ASSUME OverlayInit PROVE DeckInv
<1>1. deck \in Seq(Verses) /\ IsInjective(deck) /\ Cards = Verses /\ pos = 0 /\ dealt = <<>> /\ passed = {}
  BY CuratedIsADeck DEF OverlayInit, Init, Cards
<1>2. Len(deck) \in Nat
  BY <1>1
<1>3. {j \in 1..Len(deck) : j <= 0} = {} /\ Range(<<>>) = {} /\ <<>> \in Seq(Verses) /\ Len(<<>>) = 0
  BY DEF Range
<1>4. Range(dealt) \cup passed = Behind
  BY <1>1, <1>3 DEF Behind
<1>5. NoRepeat
  BY <1>1, <1>3 DEF NoRepeat
<1>6. pos \in 0..Len(deck) + 1 /\ dealt \in Seq(Verses)
  BY <1>1, <1>2, <1>3
<1> QED
  BY <1>1, <1>4, <1>5, <1>6 DEF DeckInv

\* The deck's invariant holds in every state.
LEMMA DeckInvariance == OverlaySpec => []DeckInv
<1>1. OverlayInit => DeckInv
  BY DeckInit
<1>2. DeckInv /\ [OverlayNext]_allVars => DeckInv'
  BY DeckStep
<1> QED
  BY <1>1, <1>2, PTL DEF OverlaySpec

\* No card of the deck comes a second time before every card was drawn or
\* passed over, and none is left out when the deck is shuffled, for every deck,
\* every filter and every way of mixing draws with other loads and restarts.
THEOREM DeckIsDealtOut == OverlaySpec => []DealtOut
<1>1. ASSUME DeckInv PROVE DealtOut
  <2>1. ASSUME deck # <<>>, UsedUp PROVE Cards = Range(dealt) \cup passed
    <3>1. deck \in Seq(Verses) /\ pos \in 0..Len(deck) + 1 /\ pos >= Len(deck)
      BY <1>1, <2>1 DEF DeckInv, UsedUp
    <3>2. {j \in 1..Len(deck) : j <= pos} = 1..Len(deck)
      BY <3>1
    <3>3. Cards = {deck[i] : i \in 1..Len(deck)}
      BY <3>1, RangeOfList DEF Cards
    <3> QED
      BY <1>1, <3>2, <3>3 DEF DeckInv, Behind
  <2> QED
    BY <1>1, <2>1 DEF DeckInv, DealtOut, NoneLeftOut
<1> QED
  BY <1>1, DeckInvariance, PTL

\* A draw brings another verse than the one on display, unless the deck has no
\* other, and one of the filters in force, in whatever order the deck is.
THEOREM DrawsAreNew == OverlaySpec => DrawIsNew
<1>1. ASSUME DeckInv, [OverlayNext]_allVars
      PROVE  [dealt' # dealt /\ dealt' # <<>> =>
                /\ shown' # shown \/ Len(deck) = 1
                /\ drawn' = shown' /\ drawn' \in Cards]_vars
  <2> SUFFICES ASSUME dealt' # dealt, dealt' # <<>>
               PROVE  /\ shown' # shown \/ Len(deck) = 1
                      /\ drawn' = shown' /\ drawn' \in Cards
    OBVIOUS
  <2>1. \E order \in Orders : Draw(order)
    BY <1>1
    DEF OverlayNext, SetOverlayOpen, LoadReference, Navigate, NavigateNowhere, AnotherVerse, OpenRefresh, Refresh,
        SelectFilters, AutoOpenTick, FlushDay, SaveAutoOpenAt, Pass, SetClock, Restart, ShowOther, SetFilters, DrawNothing,
        vars, allVars
  <2> QED
    BY <1>1, <2>1, DrawStep
<1>2. []DeckInv /\ [][OverlayNext]_allVars => DrawIsNew
  BY <1>1, PTL DEF DrawIsNew
<1> QED
  BY <1>2, DeckInvariance, PTL DEF OverlaySpec
-----------------------------------------------------------------------------
(* Types. *)

\* The types of the verses on display and asked for, of the overlay's flags, and
\* of what the auto-open goes by.
VersesTyped ==
  /\ shown \in Verses \cup Elsewhere \cup {None} /\ drawn \in Verses \cup {None}
  /\ asked \in Verses \cup Elsewhere \cup {None} /\ overtaken \in BOOLEAN

FlagsTyped ==
  /\ overlay \in [open : BOOLEAN, skip : {FALSE}, refresh : BOOLEAN]
  /\ overlay.refresh => overlay.open

DaysTyped ==
  /\ autoOpenAt \in 0..Minutes - 1 \cup {None}
  /\ tick \in 0..Interval \cup {None} /\ (tick = None <=> autoOpenAt = None)
  /\ lastDay \in Days \cup {None} /\ savedDay \in Days \cup {None} /\ clock \in 0..MaxClock
  /\ opened \subseteq Days /\ repeated \subseteq opened /\ excused \subseteq Days \cup {None}
  /\ clockSet \in BOOLEAN

\* The calls that change the flags keep their type.
LEMMA FlagsKept ==
  ASSUME FlagsTyped, NEW open \in BOOLEAN
  PROVE  \A o \in {Set(overlay, open), Loaded(overlay), Stopped(overlay)} :
           o \in [open : BOOLEAN, skip : {FALSE}, refresh : BOOLEAN] /\ (o.refresh => o.open)
<1>1. overlay \in [open : BOOLEAN, skip : {FALSE}, refresh : BOOLEAN] /\ (overlay.refresh => overlay.open)
  BY DEF FlagsTyped
<1>2. Set(overlay, open) \in [open : BOOLEAN, skip : {FALSE}, refresh : BOOLEAN]
      /\ (Set(overlay, open).refresh => Set(overlay, open).open)
  BY <1>1 DEF Set
<1>3. Stopped(overlay) \in [open : BOOLEAN, skip : {FALSE}, refresh : BOOLEAN]
      /\ ~Stopped(overlay).refresh
  BY <1>1 DEF Stopped
<1>4. Loaded(overlay) \in [open : BOOLEAN, skip : {FALSE}, refresh : {FALSE}]
  BY <1>1, SetFlags
<1> QED
  BY <1>2, <1>3, <1>4

\* The day of any reading of the clock is one of the days.
LEMMA DayInRange ==
  ASSUME NEW n \in 0..MaxClock
  PROVE  DayOf(n) \in Days
<1>1. n \in Nat /\ MaxClock \in Nat /\ n <= MaxClock
  BY OverlayAssumption
<1>2. DayOf(n) \in Nat /\ DayOf(n) <= DayOf(MaxClock) /\ DayOf(MaxClock) \in Nat
  BY <1>1, DaysGrow
<1> QED
  BY <1>2 DEF Days

\* A check of the auto-open keeps the types.
LEMMA CheckTyped ==
  ASSUME FlagsTyped, DaysTyped, VersesTyped, NEW target, CheckAutoOpen(target),
         UNCHANGED <<vars, clock, excused, clockSet>>,
         autoOpenAt' \in 0..Minutes - 1 \cup {None}, tick' \in 0..Interval \cup {None},
         tick' = None <=> autoOpenAt' = None
  PROVE  FlagsTyped' /\ DaysTyped' /\ VersesTyped'
<1>1. Today \in Days
  BY DayInRange DEF DaysTyped, Today
<1>2. CASE Due(target, lastDay)
  <2>1. /\ lastDay' = Today /\ savedDay' \in {savedDay, Today}
        /\ asked' \in {asked, None} /\ overtaken' \in BOOLEAN
        /\ overlay' = IF overlay.open THEN [overlay EXCEPT !.refresh = TRUE] ELSE Set(overlay, TRUE)
        /\ opened' = opened \cup {Today} /\ repeated' = repeated \cup ({Today} \cap opened)
    BY <1>2 DEF CheckAutoOpen, AskedFor
  <2>2. FlagsTyped'
    BY <2>1, FlagsKept DEF FlagsTyped
  <2>3. DaysTyped'
    BY <1>1, <2>1 DEF DaysTyped
  <2>4. VersesTyped'
    BY <2>1 DEF VersesTyped, vars
  <2> QED
    BY <2>2, <2>3, <2>4
<1>3. CASE ~Due(target, lastDay)
  <2>1. UNCHANGED <<lastDay, savedDay, overlay, asked, overtaken, opened, repeated>>
    BY <1>3 DEF CheckAutoOpen, askedVars
  <2> QED
    BY <2>1 DEF FlagsTyped, DaysTyped, VersesTyped, vars
<1> QED
  BY <1>2, <1>3

\* What the steps that leave the auto-open alone keep of its types.
LEMMA DaysFrame ==
  ASSUME DaysTyped, UNCHANGED <<autoOpenVars, dayVars>>
  PROVE  DaysTyped'
BY DEF DaysTyped, autoOpenVars, dayVars

\* Every step keeps the types.
LEMMA TypesStep ==
  ASSUME DeckInv, FlagsTyped, DaysTyped, VersesTyped, [OverlayNext]_allVars
  PROVE  FlagsTyped' /\ DaysTyped' /\ VersesTyped'
<1>1. ASSUME NEW open \in BOOLEAN, SetOverlayOpen(open) PROVE FlagsTyped' /\ DaysTyped' /\ VersesTyped'
  <2>1. FlagsTyped'
    BY <1>1, FlagsKept DEF SetOverlayOpen, FlagsTyped
  <2>2. VersesTyped'
    BY <1>1 DEF SetOverlayOpen, VersesTyped, vars, AskedFor, askedVars
  <2> QED
    BY <1>1, <2>1, <2>2, DaysFrame DEF SetOverlayOpen
<1>2. ASSUME NEW v \in Verses \cup Elsewhere, LoadReference(v) \/ Navigate(v)
      PROVE  FlagsTyped' /\ DaysTyped' /\ VersesTyped'
  <2>1. FlagsTyped'
    BY <1>2, FlagsKept DEF LoadReference, Navigate, FlagsTyped
  <2>2. VersesTyped'
    BY <1>2 DEF LoadReference, Navigate, ShowOther, VersesTyped, AskedFor
  <2> QED
    BY <1>2, <2>1, <2>2, DaysFrame DEF LoadReference, Navigate
<1>3. ASSUME Refresh, asked' \in {asked, None}, overtaken' \in BOOLEAN
      PROVE  FlagsTyped' /\ DaysTyped' /\ VersesTyped'
  <2>1. FlagsTyped'
    BY <1>3, FlagsKept DEF Refresh, FlagsTyped
  <2>2. shown' \in Verses \cup Elsewhere \cup {None} /\ drawn' \in Verses \cup {None}
    <3>1. CASE \E v \in Verses \cup Elsewhere : ShowOther(v)
      BY <3>1 DEF ShowOther, VersesTyped
    <3>2. CASE DrawNothing
      BY <3>2 DEF DrawNothing, VersesTyped
    <3>3. CASE \E order \in Orders : Draw(order)
      BY <3>3, DrawStep
    <3> QED
      BY <1>3, <3>1, <3>2, <3>3 DEF Refresh
  <2>3. VersesTyped'
    BY <1>3, <2>2 DEF VersesTyped
  <2> QED
    BY <1>3, <2>1, <2>3, DaysFrame DEF Refresh
<1>4. CASE AnotherVerse \/ OpenRefresh
  <2>1. asked' \in {asked, None} /\ overtaken' \in BOOLEAN
    BY <1>4 DEF AnotherVerse, OpenRefresh, AskedFor, askedVars, VersesTyped
  <2> QED
    BY <1>3, <1>4, <2>1 DEF AnotherVerse, OpenRefresh
<1>13. CASE NavigateNowhere
  <2>1. FlagsTyped'
    BY <1>13, FlagsKept DEF NavigateNowhere, FlagsTyped
  <2>2. VersesTyped'
    BY <1>13 DEF NavigateNowhere, VersesTyped, vars, askedVars
  <2> QED
    BY <1>13, <2>1, <2>2, DaysFrame DEF NavigateNowhere
<1>5. CASE SelectFilters
  <2>1. UNCHANGED <<overlay, shown, drawn, asked, overtaken>>
    BY <1>5 DEF SelectFilters, SetFilters, askedVars
  <2> QED
    BY <1>5, <2>1, DaysFrame DEF SelectFilters, FlagsTyped, VersesTyped
<1>6. CASE AutoOpenTick
  <2>1. tick' = 1 /\ autoOpenAt' = autoOpenAt /\ tick = 0
    BY <1>6 DEF AutoOpenTick, Interval
  <2>2. tick' \in 0..Interval \cup {None} /\ (tick' = None <=> autoOpenAt' = None)
        /\ autoOpenAt' \in 0..Minutes - 1 \cup {None}
    BY <2>1, OverlayAssumption DEF DaysTyped, Interval
  <2> QED
    BY <1>6, <2>2, CheckTyped DEF AutoOpenTick
<1>7. CASE FlushDay
  BY <1>7 DEF FlushDay, FlagsTyped, DaysTyped, VersesTyped, vars, askedVars, dayVars
<1>8. ASSUME NEW target \in 0..Minutes - 1 \cup {None}, SaveAutoOpenAt(target)
      PROVE  FlagsTyped' /\ DaysTyped' /\ VersesTyped'
  <2>1. autoOpenAt' = target /\ tick' = TimerFor(target)
    BY <1>8 DEF SaveAutoOpenAt
  <2>2. tick' \in 0..Interval \cup {None} /\ (tick' = None <=> autoOpenAt' = None)
    BY <2>1, OverlayAssumption DEF DaysTyped, TimerFor, Interval
  <2> QED
    BY <1>8, <2>1, <2>2, CheckTyped DEF SaveAutoOpenAt
<1>9. CASE Pass
  <2>1. clock' \in 0..MaxClock
    BY <1>9, OverlayAssumption DEF Pass, DaysTyped
  <2>2. tick' \in 0..Interval \cup {None} /\ (tick' = None <=> autoOpenAt' = None)
    BY <1>9, OverlayAssumption DEF Pass, DaysTyped, Interval
  <2>3. clockSet' \in BOOLEAN
    BY <1>9 DEF Pass
  <2>4. DaysTyped'
    BY <1>9, <2>1, <2>2, <2>3 DEF Pass, DaysTyped
  <2> QED
    BY <1>9, <2>4 DEF Pass, FlagsTyped, VersesTyped, vars, askedVars
<1>10. ASSUME NEW n \in ClockTargets, SetClock(n) PROVE FlagsTyped' /\ DaysTyped' /\ VersesTyped'
  <2>1. n \in 0..MaxClock
    BY OverlayAssumption
  <2>2. excused' \subseteq Days \cup {None}
    BY <1>10 DEF SetClock, DaysTyped
  <2>3. DaysTyped'
    BY <1>10, <2>1, <2>2 DEF SetClock, DaysTyped
  <2> QED
    BY <1>10, <2>3 DEF SetClock, FlagsTyped, VersesTyped, vars, askedVars
<1>11. CASE Restart
  <2>1. Today \in Days
    BY DayInRange DEF DaysTyped, Today
  <2>2. tick' \in 0..Interval \cup {None} /\ (tick' = None <=> autoOpenAt' = None)
    BY <1>11, OverlayAssumption DEF Restart, Interval
  <2>3. lastDay' \in Days \cup {None} /\ savedDay' \in Days \cup {None}
        /\ opened' \subseteq Days /\ repeated' \subseteq opened'
    BY <1>11, <2>1 DEF Restart, Read, DaysTyped
  <2>4. excused' \subseteq Days \cup {None} /\ UNCHANGED <<autoOpenAt, clock, clockSet>>
    BY <1>11 DEF Restart, DaysTyped
  <2>5. DaysTyped'
    BY <2>2, <2>3, <2>4 DEF DaysTyped
  <2> QED
    BY <1>11, <2>5 DEF Restart, FlagsTyped, VersesTyped, AskedFor
<1>12. CASE UNCHANGED allVars
  BY <1>12 DEF allVars, autoOpenVars, dayVars, vars, askedVars, FlagsTyped, DaysTyped, VersesTyped
<1> QED
  BY <1>1, <1>2, <1>4, <1>5, <1>6, <1>7, <1>8, <1>9, <1>10, <1>11, <1>12, <1>13 DEF OverlayNext

\* Every variable keeps its type in every reachable state: the deck is a list of
\* the filtered verses, each once, whatever was shuffled, and the flags, the days
\* and the timer stay in their ranges.
THEOREM OverlayTyped == OverlaySpec => []OverlayTypeOK
<1>1. OverlayInit => FlagsTyped /\ DaysTyped /\ VersesTyped
  <2> SUFFICES ASSUME OverlayInit PROVE FlagsTyped /\ DaysTyped /\ VersesTyped
    OBVIOUS
  <2>1. clock \in 0..MaxClock
    BY OverlayAssumption DEF OverlayInit
  <2> QED
    BY <2>1 DEF OverlayInit, Init, FlagsTyped, DaysTyped, VersesTyped
<1>2. DeckInv /\ (FlagsTyped /\ DaysTyped /\ VersesTyped) /\ [OverlayNext]_allVars
        => (FlagsTyped /\ DaysTyped /\ VersesTyped)'
  BY TypesStep
<1>3. ASSUME DeckInv, FlagsTyped, DaysTyped, VersesTyped PROVE OverlayTypeOK
  <2>1. deck \in Seq(Verses) /\ IsInjective(deck)
    BY <1>3 DEF DeckInv
  <2>2. Cardinality(Cards) = Len(deck)
    BY <2>1, DeckSize DEF Cards
  <2>3. passed \subseteq Verses
    <3>1. Behind \subseteq Verses
      BY <2>1 DEF Behind
    <3> QED
      BY <1>3, <3>1 DEF DeckInv
  <2>4. TypeOK
    BY <1>3, <2>2, <2>3 DEF DeckInv, VersesTyped, TypeOK
  <2> QED
    BY <1>3, <2>4 DEF FlagsTyped, DaysTyped, VersesTyped, OverlayTypeOK
<1> QED
  BY <1>1, <1>2, <1>3, DeckInvariance, PTL DEF OverlaySpec
=============================================================================
