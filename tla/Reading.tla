------------------------------ MODULE Reading -------------------------------
(***************************************************************************)
(* From the answer of a service to the text on the overlay: how a          *)
(* reference becomes the range that is asked for and the verse in its      *)
(* focus, how a passage is taken apart around that verse                   *)
(* (src/src/references.cpp), and how the controller reveals it bit by bit  *)
(* (startReveal and onRevealTick, src/src/controller.cpp), while settings  *)
(* and the next verse start the reveal anew.                               *)
(*                                                                         *)
(* A reference is one verse, or the first and last of several, of a fixed  *)
(* chapter.  A text is a sequence of characters, for which numbers stand:  *)
(* the label of a verse is its number, the space and the letters lie above *)
(* every verse's.                                                          *)
(***************************************************************************)
EXTENDS Integers, Sequences, FiniteSets, SequencesExt, Lists

CONSTANTS Numbers,            \* verse numbers: of a reference, and of a passage
          Texts,              \* the texts a verse may have, the empty one among them
          Space,              \* the character between two verses
          Offered,            \* bound: the answers a service may give
          RevealIntervalMs,   \* 16
          FastestMs, SlowestMs, MsPerSpeed,   \* 250, 4400, 44
          Speeds,             \* 0 shows all at once
          None                \* nothing yet

ASSUME ReadingAssumption ==
  /\ Space \in Nat \ {0} /\ Numbers \subseteq 1..Space - 1
  /\ <<>> \in Texts /\ \A t \in Texts : t \in Seq(Nat) /\ \A i \in 1..Len(t) : t[i] > Space
  /\ {RevealIntervalMs, FastestMs, SlowestMs} \subseteq Nat \ {0} /\ FastestMs <= SlowestMs
  /\ MsPerSpeed \in Nat /\ Speeds \subseteq Nat

VARIABLES
  asked,      \* m_pendingAnchor while m_loading: the reference of the load under way
  answer,     \* the answer on display and what was asked for    (not in the code)
  parts,      \* m_contextBefore, m_verseText, m_contextAfter
  speed,      \* m_revealSpeed
  reveal,     \* m_revealedChars, m_revealTotal, m_revealStep, m_revealTimer is active
  ticks       \* ticks of the reveal that is running, up to SlowestMs   (not in the code)

readingVars == <<asked, answer, parts, speed, reveal, ticks>>
-----------------------------------------------------------------------------
(* References. *)

\* What normalizeReference lets through: 3:16, 3:16-18, 3:16-16.
References == {[first |-> m, last |-> n] : m \in Numbers, n \in Numbers \cup {0}}

Normal(ref) == ref.last = 0 \/ ref.last >= ref.first

\* rangeQuery: two verses around a single one, a range as it is.
RangeQuery(ref) ==
  IF ref.last # 0 THEN ref ELSE [first |-> IF ref.first > 2 THEN ref.first - 2 ELSE 1, last |-> ref.first + 2]

\* focalVerse.
FocalVerse(ref) == IF ref.last # 0 THEN 0 ELSE ref.first
-----------------------------------------------------------------------------
(* Passages: sequences of verses, each a number n and a text t. *)

Verse == [n : Numbers \cup {0}, t : Texts]

\* Answers: from the web service the verses one by one; from the ESV one text,
\* in which every marker [n] begins a verse and before the first there may be a
\* lead, such as a heading, with more in further passages.
Answers == [web : BOOLEAN, lead : Texts, verses : Seq(Verse), more : Texts]

ASSUME OfferedAssumption == Offered \subseteq Answers

\* join: a space between two texts.
Joined(texts) ==
  FlattenSeq([i \in 1..Len(texts) |-> IF i = 1 THEN texts[i] ELSE <<Space>> \o texts[i]])

TextsOf(verses) == [i \in 1..Len(verses) |-> verses[i].t]

Labelled(verses) == [i \in 1..Len(verses) |-> <<verses[i].n>> \o verses[i].t]

InFocus(verses, focal) == {i \in 1..Len(verses) : verses[i].n = focal}

\* Seeded fault: the last of the verses that have the number is the focus.
FaultFocusOf(found) == CHOOSE i \in found : \A j \in found : j <= i

\* The first verse that has the number is the focus.
FocusOf(found) == CHOOSE i \in found : \A j \in found : i <= j

\* before, focal and after, around the verse in focus, or all of it as the focus.
Around(verses, focal, whole) ==
  LET labelled == Labelled(verses)
      found    == InFocus(verses, focal)
      i        == FocusOf(found)
  IN  IF found = {} THEN <<<<>>, whole, <<>>>>
      ELSE <<Joined(SubSeq(labelled, 1, i - 1)), labelled[i],
             Joined(SubSeq(labelled, i + 1, Len(verses)))>>

\* parseNumberedPassage: a text without markers is shown as it is; else the
\* lead and verses without text are dropped, the other verses labelled.
ParseNumbered(lead, verses, focal) ==
  LET kept == Kept(verses, {v \in Verse : v.t # <<>>})
  IN  IF verses = <<>> THEN <<<<>>, lead, <<>>>>
                       ELSE Around(kept, focal, Joined(Labelled(kept)))

\* parseWebPassage: only verses without text and number are dropped; without a
\* focus the texts are joined unlabelled.
ParseWeb(verses, focal) ==
  Around(Kept(verses, {v \in Verse : v.t # <<>> \/ v.n # 0}), focal,
         Joined(Kept(TextsOf(verses), Texts \ {<<>>})))

\* composeRichText, as the parts it paints; a negative limit shows all.
Composed(p, limit) ==
  LET b == Len(p[1])
      f == Len(p[2])
  IN  CASE limit < 0                            -> p
        [] 0 <= limit /\ limit <= b             -> <<SubSeq(p[1], 1, limit), <<>>, <<>>>>
        [] b < limit /\ limit <= b + f          -> <<p[1], SubSeq(p[2], 1, limit - b), <<>>>>
        [] b + f < limit                        ->
             <<p[1], p[2], IF limit - b - f < Len(p[3]) THEN SubSeq(p[3], 1, limit - b - f) ELSE p[3]>>
-----------------------------------------------------------------------------
(* The reveal. *)

Whole(p) == p[1] \o p[2] \o p[3]

Clamp(n, low, high) == IF n < low THEN low ELSE IF n > high THEN high ELSE n

Duration(s) == Clamp(SlowestMs - MsPerSpeed * s, FastestMs, SlowestMs)

\* Seeded fault: a step may be none.
FaultNoStep(total, s) == (total * RevealIntervalMs) \div Duration(s)

\* Seeded fault: the step is rounded down.
FaultStep(total, s) ==
  LET whole == (total * RevealIntervalMs) \div Duration(s) IN IF whole < 1 THEN 1 ELSE whole

Step(total, s) ==
  LET up == (total * RevealIntervalMs + Duration(s) - 1) \div Duration(s) IN IF up < 1 THEN 1 ELSE up

\* Seeded fault: the timer of the reveal that was running is not stopped.
FaultStarted(total, s) ==
  IF total = 0 \/ s = 0
  THEN [reveal EXCEPT !.chars = IF s = 0 THEN total ELSE 0, !.total = total]
  ELSE [chars |-> 0, total |-> total, step |-> Step(total, s), running |-> TRUE]

Started(total, s) ==
  IF total = 0 \/ s = 0
  THEN [reveal EXCEPT !.chars = IF s = 0 THEN total ELSE 0, !.total = total, !.running = FALSE]
  ELSE [chars |-> 0, total |-> total, step |-> Step(total, s), running |-> TRUE]

\* startReveal.
StartReveal(p, s) == reveal' = Started(Len(Whole(p)), s) /\ ticks' = 0

ReadingInit ==
  /\ asked = None /\ answer = None /\ parts = <<<<>>, <<>>, <<>>>>
  /\ speed \in Speeds
  /\ reveal = [chars |-> -1, total |-> 0, step |-> 1, running |-> FALSE] /\ ticks = 0

\* fetch: the verse on display stays, and so does its reveal.
Ask(ref) ==
  /\ Normal(ref)
  /\ asked' = ref
  /\ UNCHANGED <<answer, parts, speed, reveal, ticks>>

\* A load fails: nothing else changes.
Fail == asked # None /\ asked' = None /\ UNCHANGED <<answer, parts, speed, reveal, ticks>>

\* What validWebPayload and validEsvPayload let through: verses that each have a
\* text, and at least one (toInt makes 0 of a number that is written as a
\* string); passages that are not blank, whatever markers they have.
Valid(a) ==
  \/ /\ a.web /\ a.lead = <<>> /\ a.more = <<>> /\ a.verses # <<>>
     /\ \A i \in 1..Len(a.verses) : a.verses[i].t # <<>>
  \/ ~a.web /\ (a.lead # <<>> \/ a.verses # <<>>)

\* What onWebResult and onEsvResult take from an answer: all verses, or the
\* first passage.
Taken(a, focal) ==
  IF a.web THEN ParseWeb(a.verses, focal) ELSE ParseNumbered(a.lead, a.verses, focal)

\* A service answers, or an earlier answer comes from the cache, and applyVerse
\* shows it.
Arrive(a) ==
  /\ asked # None /\ Valid(a)
  /\ answer' = [for |-> asked, given |-> a]
  /\ parts' = Taken(a, FocalVerse(asked))
  /\ StartReveal(parts', speed)
  /\ asked' = None
  /\ UNCHANGED speed

\* onRevealTick.
RevealTick ==
  /\ reveal.running
  /\ LET n == IF reveal.chars + reveal.step < reveal.total THEN reveal.chars + reveal.step ELSE reveal.total
     IN  reveal' = [reveal EXCEPT !.chars = n, !.running = n < reveal.total]
  /\ ticks' = IF ticks < SlowestMs THEN ticks + 1 ELSE ticks
  /\ UNCHANGED <<asked, answer, parts, speed>>

\* setRevealSpeed, and setVerseFontSize, which leaves the speed as it is.
SetSpeed(s) ==
  /\ speed' = s
  /\ StartReveal(parts, s)
  /\ UNCHANGED <<asked, answer, parts>>

ReadingNext ==
  \/ \E ref \in References : Ask(ref)
  \/ \E a \in Offered : Arrive(a)
  \/ Fail \/ RevealTick
  \/ \E s \in Speeds : SetSpeed(s)

ReadingSpec == ReadingInit /\ [][ReadingNext]_readingVars

\* An interval timer that runs goes on firing.
FairReading == ReadingSpec /\ WF_readingVars(RevealTick)
-----------------------------------------------------------------------------
\* Every variable keeps its type, and the reveal is that of the text on display:
\* its timer runs exactly while some of it is hidden.
ReadingTypeOK ==
  /\ asked \in References \cup {None} /\ speed \in Speeds /\ ticks \in Nat
  /\ answer # None => answer.for \in References /\ answer.given \in Answers
  /\ parts \in Seq(Seq(Nat)) /\ Len(parts) = 3
  /\ reveal \in [chars : Int, total : Nat, step : Nat \ {0}, running : BOOLEAN]
  /\ reveal.chars # -1 => reveal.total = Len(Whole(parts)) /\ reveal.chars \in 0..reveal.total
  /\ reveal.running <=> reveal.chars # -1 /\ reveal.chars < reveal.total

Letters(text) == Kept(text, {c \in Nat : c > Space})

\* Of an answer that has verses their texts are shown, all of them and in
\* their order; what is lost is what an ESV answer has before its first marker
\* and after its first passage.  An answer without a marker is shown unlabelled.
\* The part in the focus is the verse that was asked for, the first if the
\* passage has it twice, and the whole passage when it has none such or several
\* were asked for, unless one is numbered 0.  And a range that is asked for has
\* the verse in it.
PassageIsWhole ==
  /\ asked # None =>
       LET range == RangeQuery(asked)
       IN  /\ 1 <= range.first /\ range.first <= asked.first
           /\ asked.last = 0 => asked.first < range.last /\ range.last - range.first <= 4
           /\ asked.last # 0 => range = asked
  /\ answer # None =>
       LET a     == answer.given
           focal == FocalVerse(answer.for)
           there == \E i \in 1..Len(a.verses) : a.verses[i].n = focal /\ a.verses[i].t # <<>>
       IN  /\ Letters(Whole(parts)) = IF a.verses = <<>> THEN a.lead
                                                      ELSE FlattenSeq(TextsOf(a.verses))
           /\ IF there THEN parts[2][1] = focal /\ ~Contains(parts[1], focal)
                       ELSE parts[1] = <<>> /\ parts[3] = <<>>

\* What is painted is a beginning of the text, as long as was revealed, each
\* part in its place; and a reveal takes no longer than its speed says, however
\* its steps are rounded.
RevealIsRight ==
  /\ LET shown == IF reveal.chars < 0 THEN Len(Whole(parts)) ELSE reveal.chars
     IN  Whole(Composed(parts, reveal.chars)) = SubSeq(Whole(parts), 1, shown)
  /\ \A i \in 1..3 : IsPrefix(Composed(parts, reveal.chars)[i], parts[i])
  /\ reveal.running => ticks * RevealIntervalMs < Duration(speed)

\* The reveal of a text ends, unless it is started anew for ever.
RevealEnds == []<>(~reveal.running) \/ []<><<ticks' = 0 /\ reveal'.running>>_readingVars
=============================================================================
