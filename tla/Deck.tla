-------------------------------- MODULE Deck --------------------------------
(***************************************************************************)
(* Deck (src/src/references.cpp): the curated verses a random draw is made *)
(* from.  The deck is drawn from front to back and shuffled when a draw    *)
(* finds it used up; the verse on display, which any other way of loading  *)
(* a verse may have put there, is skipped.  A change of the filters deals  *)
(* the matching verses anew, in their curated order.                       *)
(***************************************************************************)
EXTENDS Naturals, Sequences, FiniteSets, SequencesExt, Lists

CONSTANTS Curated,      \* the curated references, in their order
          Selections,   \* the sets of them that some book and topic select
          Elsewhere,    \* references that are not in the deck
          None          \* no reference: the empty string

Verses == {Curated[i] : i \in 1..Len(Curated)}

ASSUME DeckAssumption ==
  /\ Curated \in Seq(Verses)
  /\ \A i, j \in 1..Len(Curated) : Curated[i] = Curated[j] => i = j
  /\ \A s \in Selections : s \subseteq Verses
  /\ Elsewhere \cap Verses = {} /\ None \notin Verses \cup Elsewhere

VARIABLES deck,         \* m_deck
          pos,          \* m_pos
          shown,        \* the reference on display: AppController::anchor()
          drawn,        \* what the last draw returned
          dealt,        \* cards returned since the last deal (not in the code)
          passed        \* cards skipped since the last deal (not in the code)

vars == <<deck, pos, shown, drawn, dealt, passed>>

Cards == Range(deck)

Init ==
  /\ deck = Curated /\ pos = 0
  /\ shown = None /\ drawn = None
  /\ dealt = <<>> /\ passed = {}
-----------------------------------------------------------------------------
\* setFilters: the selected verses in curated order, from the front.
SetFilters(selection) ==
  /\ deck' = Kept(Curated, selection)
  /\ pos' = 0
  /\ dealt' = <<>> /\ passed' = {}
  /\ UNCHANGED <<shown, drawn>>

\* draw finds nothing to draw, and refresh leaves the verse on display.
DrawNothing ==
  /\ deck = <<>>
  /\ drawn' = None
  /\ UNCHANGED <<deck, pos, shown, dealt, passed>>

\* Seeded fault: the deck counts as used up one card too early.
FaultUsedUp == pos + 1 >= Len(deck)

UsedUp == pos >= Len(deck)

\* Seeded fault: the shuffle draws with replacement.
FaultOrders == IF UsedUp THEN [1..Len(deck) -> Cards] ELSE {deck}

\* The orders the deck may be in when draw takes a card: shuffled when it was
\* used up, as it is otherwise.
Orders == IF UsedUp THEN {order \in [1..Len(deck) -> Cards] : Range(order) = Cards} ELSE {deck}

Top == IF UsedUp THEN 0 ELSE pos

\* Seeded fault: the verse on display is not skipped.
FaultSkips(order) == FALSE

\* draw skips the verse on display, unless it is the only card: the next one
\* is taken, around the end of the deck if need be.
Skips(order) == order[Top + 1] = shown /\ Len(deck) > 1

Taken(order) == IF Skips(order) THEN ((Top + 1) % Len(deck)) + 1 ELSE Top + 1

\* draw, called by refresh with the verse on display; what it returns becomes
\* the verse on display.
Draw(order) ==
  /\ deck # <<>>
  /\ deck' = order
  /\ pos' = IF Skips(order) THEN Top + 2 ELSE Top + 1
  /\ drawn' = order[Taken(order)]
  /\ shown' = order[Taken(order)]
  /\ dealt' = Append(IF UsedUp THEN <<>> ELSE dealt, order[Taken(order)])
  /\ passed' = (IF UsedUp THEN {} ELSE passed) \cup (IF Skips(order) THEN {shown} ELSE {})

\* A verse is loaded in another way: a favourite, the history, a reference
\* that was typed in.
ShowOther(v) ==
  /\ shown' = v
  /\ UNCHANGED <<deck, pos, drawn, dealt, passed>>

Next ==
  \/ \E selection \in Selections : SetFilters(selection)
  \/ DrawNothing
  \/ \E order \in Orders : Draw(order)
  \/ \E v \in Verses \cup Elsewhere : ShowOther(v)

Spec == Init /\ [][Next]_vars
-----------------------------------------------------------------------------
\* Every variable keeps its type: the deck is the filtered verses, each once, and
\* a draw that skips a card may leave m_pos one past the end.
TypeOK ==
  /\ deck \in Seq(Verses) /\ Cards \in Selections \cup {Verses}
  /\ Cardinality(Cards) = Len(deck)
  /\ pos \in 0..Len(deck) + 1
  /\ shown \in Verses \cup Elsewhere \cup {None} /\ drawn \in Verses \cup {None}
  /\ dealt \in Seq(Verses) /\ passed \subseteq Verses

\* A draw changes the verse on display, unless the deck has no other, and
\* stays within the filters in force.
DrawIsNew ==
  [][dealt' # dealt /\ dealt' # <<>> =>
       /\ shown' # shown \/ Len(deck) = 1
       /\ drawn' = shown' /\ drawn' \in Cards]_vars

\* When the deck is used up, no card was left out: each was drawn, or passed
\* over while it was the verse on display.
NoneLeftOut == deck # <<>> /\ UsedUp => Cards = Range(dealt) \cup passed

\* "A curated no-repeat verse deck" (src/README.md:12): a card comes a second
\* time only after every card was drawn or was passed over, however the draws
\* are mixed with other ways of loading a verse.
NoRepeat ==
  \A j \in 1..Len(dealt) :
    LET before == {dealt[i] : i \in 1..j - 1}
    IN  dealt[j] \in before => Cards = before \cup passed
=============================================================================
