----------------------------- MODULE Keepsakes ------------------------------
(***************************************************************************)
(* What the user keeps of a verse: the favourites (FavoritesStore,         *)
(* src/src/favorites.cpp, and the slots of AppController that change them) *)
(* and the cards that are saved as images and handed to other apps         *)
(* (src/src/verse_card.cpp and the slots that save and share).             *)
(*                                                                         *)
(* The favourites are on display and in a file; a change reads the file    *)
(* again, edits what it read and replaces the file at one stroke.  Either  *)
(* may fail, and the file may have been damaged before.  A card is named   *)
(* after its content; a save keeps the newest others by their time of      *)
(* change, which the clock decides, and an app a card was handed to reads  *)
(* it later.                                                               *)
(***************************************************************************)
EXTENDS Naturals, Sequences, FiniteSets, SequencesExt, Lists

CONSTANTS Refs,         \* normalised references
          MaxEntries,   \* MAX_ENTRIES
          Contents,     \* contents of a card: text, reference and translation on display
          MaxOthers,    \* cards kept beside the one just saved: 31
          MaxClock,     \* bound on the saves of cards
          None,         \* no reference, no content, no card
          Absent,       \* there is no favourites file
          Unreadable    \* a file that list() refuses, and what reading it yields

ASSUME KeepsakesAssumption ==
  /\ MaxEntries \in Nat \ {0} /\ MaxOthers \in Nat /\ MaxClock \in Nat
  /\ None \notin Refs \cup Contents /\ Absent # Unreadable

VARIABLES
  anchor,     \* anchor(): the reference that was asked for last
  content,    \* what is on display, as a card would carry it
  error,      \* m_errorText: "none", "favorites", or "other" of a load or of the settings
  list,       \* m_favoritesList
  file,       \* favorites.json: Absent, Unreadable or a sequence of references
  cards,      \* the files in cards/: content -> time of change
  last,       \* m_lastCardPath, by the content the name is a digest of
  clock,
  handed,     \* the card handed to another app last           (the rest is not in the code)
  since,      \* the other cards saved since
  inOrder     \* it was the newest card then by a clock that was not set back since

favoriteVars == <<error, list, file>>
cardVars == <<cards, last, clock, handed, since, inOrder>>
vars == <<anchor, content, favoriteVars, cardVars>>

\* What list() accepts: each reference once, and no more than the limit.
Readable(refs) == IsInjective(refs) /\ Len(refs) <= MaxEntries

Init ==
  /\ anchor = None /\ content = None
  /\ file \in {Absent, Unreadable, <<>>} \cup {refs \in BoundedSeq(Refs, MaxEntries) : Readable(refs)}
  /\ \/ file \notin {Absent, Unreadable} /\ list = file /\ error = "none"
     \/ file = Absent /\ list = <<>> /\ error = "none"
     \/ list = <<>> /\ error = "favorites"
  /\ cards = << >> /\ last = None /\ clock = 0
  /\ handed = None /\ since = {} /\ inOrder = FALSE
-----------------------------------------------------------------------------
(* Favourites. *)

\* Seeded fault: a file that cannot be read counts as an empty list.
FaultReads == IF file \in {Absent, Unreadable} THEN {<<>>} ELSE {file, <<>>}

\* What list() returns or throws; opening the file, or making its directory,
\* may fail at any time.
Reads ==
  CASE file = Absent                            -> {<<>>, Unreadable}
    [] file = Unreadable                        -> {Unreadable}
    [] file \notin {Absent, Unreadable}         -> {IF Readable(file) THEN file ELSE Unreadable, Unreadable}

Without(refs, r) == Kept(refs, Refs \ {r})

\* Seeded fault: a reference that the file holds already is added again.
FaultAdded(refs, r) ==
  LET new == <<r>> \o refs
  IN  IF Len(new) > MaxEntries THEN SubSeq(new, 1, MaxEntries) ELSE new

\* FavoritesStore::add: to the front, and the last beyond the limit is dropped.
Added(refs, r) ==
  LET new == <<r>> \o Without(refs, r)
  IN  IF Len(new) > MaxEntries THEN SubSeq(new, 1, MaxEntries) ELSE new

Refused == error' = "favorites" /\ UNCHANGED <<list, file>>

\* add and remove, and what toggle_favorite and remove_favorite make of it.
Change(adds, r) ==
  /\ \/ \E refs \in Reads \ {Unreadable} :
          /\ file' = IF adds THEN Added(refs, r) ELSE Without(refs, r)
          /\ list' = file' /\ error' = "none"
     \/ Refused
  /\ UNCHANGED <<anchor, content, cardVars>>

ToggleFavorite == anchor # None /\ Change(~Contains(list, anchor), anchor)

\* The cross of an entry on display.
RemoveFavorite == \E r \in Range(list) : Change(FALSE, r)
-----------------------------------------------------------------------------
(* Cards. *)

\* Seeded fault: the newest are removed instead of the oldest.
FaultExcess(stamps, keep) ==
  {gone \in SUBSET (DOMAIN stamps \ {keep}) :
     /\ Cardinality(gone) = IF Cardinality(DOMAIN stamps) - 1 > MaxOthers
                            THEN Cardinality(DOMAIN stamps) - 1 - MaxOthers ELSE 0
     /\ \A g \in gone, s \in DOMAIN stamps \ (gone \cup {keep}) : stamps[g] >= stamps[s]}

\* pruneCards: what it may remove, the oldest of all but the card just saved.
\* Which of two that are equally old goes first is up to their names.
Excess(stamps, keep) ==
  {gone \in SUBSET (DOMAIN stamps \ {keep}) :
     /\ Cardinality(gone) = IF Cardinality(DOMAIN stamps) - 1 > MaxOthers
                            THEN Cardinality(DOMAIN stamps) - 1 - MaxOthers ELSE 0
     /\ \A g \in gone, s \in DOMAIN stamps \ (gone \cup {keep}) : stamps[g] <= stamps[s]}

Stamped(c) == [x \in DOMAIN cards \cup {c} |-> IF x = c THEN clock ELSE cards[x]]

\* VerseCardRenderer::save, when the file is replaced; it takes its time.
Save(c) ==
  /\ clock < MaxClock /\ clock' = clock + 1
  /\ \E gone \in Excess(Stamped(c), c) :
       cards' = [x \in DOMAIN Stamped(c) \ gone |-> Stamped(c)[x]]
  /\ last' = c

\* save_verse_card.  When the directory, the encoding or the commit fails,
\* nothing changes.
SaveVerseCard ==
  /\ content # None
  /\ Save(content)
  /\ since' = since \cup ({content} \ {handed})
  /\ UNCHANGED <<anchor, content, favoriteVars, handed, inOrder>>

\* Seeded fault: the last card is shared again whatever is on display.
FaultReusable == last \in DOMAIN cards

\* The last card is still there and its name is that of the content on display.
Reusable == last \in DOMAIN cards /\ last = content

\* share_verse_card, when a card is there; handing it over may be refused.
ShareVerseCard ==
  /\ content # None
  /\ IF Reusable THEN UNCHANGED <<cards, last, clock>> ELSE Save(content)
  /\ \/ /\ handed' = last' /\ since' = {}
        /\ inOrder' = \A c \in DOMAIN cards' : /\ cards'[c] < clock'
                                               /\ c # last' => cards'[c] < cards'[last']
     \/ /\ since' = IF Reusable THEN since ELSE since \cup ({content} \ {handed})
        /\ UNCHANGED <<handed, inOrder>>
  /\ UNCHANGED <<anchor, content, favoriteVars>>
-----------------------------------------------------------------------------
(* What happens around them. *)

\* A verse is asked for, arrives or fails to: VerseFetch has the detail.  Until
\* it arrives the old text is on display without its reference.
Display ==
  /\ anchor' \in Refs /\ content' \in Contents \cup {content} /\ error' \in {"none", "other"}
  /\ UNCHANGED <<list, file, cardVars>>

\* A file is removed behind the app's back.
Vanish(c) ==
  /\ cards' = [x \in DOMAIN cards \ {c} |-> cards[x]]
  /\ handed' = IF handed = c THEN None ELSE handed
  /\ UNCHANGED <<anchor, content, favoriteVars, last, clock, since, inOrder>>

SetClockBack ==
  /\ clock' \in 0..clock /\ clock' # clock
  /\ inOrder' = FALSE
  /\ UNCHANGED <<anchor, content, favoriteVars, cards, last, handed, since>>

\* The process ends, maybe between the commit of a card and its prune, and
\* starts again; the error text may already speak of the settings.
Restart ==
  /\ anchor' = None /\ content' = None /\ last' = None
  /\ \E refs \in Reads :
       /\ list' = IF refs = Unreadable THEN <<>> ELSE refs
       /\ error' \in {"other", IF refs = Unreadable THEN "favorites" ELSE "none"}
  /\ \/ UNCHANGED <<cards, clock, since>>
     \/ /\ content # None /\ clock < MaxClock /\ clock' = clock + 1
        /\ cards' = Stamped(content) /\ since' = since \cup ({content} \ {handed})
  /\ UNCHANGED <<file, handed, inOrder>>

Next ==
  \/ ToggleFavorite \/ RemoveFavorite
  \/ SaveVerseCard \/ ShareVerseCard
  \/ Display
  \/ \E c \in DOMAIN cards : Vanish(c)
  \/ SetClockBack \/ Restart

Spec == Init /\ [][Next]_vars
-----------------------------------------------------------------------------
\* Every variable keeps its type, and what the app writes it can read again: a
\* list that was readable never becomes one that list() refuses, which nothing
\* in the app could mend.  The list on display is the file's, or empty after a
\* read that failed.
TypeOK ==
  /\ anchor \in Refs \cup {None} /\ content \in Contents \cup {None}
  /\ error \in {"none", "favorites", "other"}
  /\ file \notin {Absent, Unreadable} => file \in Seq(Refs) /\ Readable(file)
  /\ list = file \/ list = <<>>
  /\ DOMAIN cards \subseteq Contents /\ \A c \in DOMAIN cards : cards[c] \in 0..MaxClock
  /\ {last, handed} \subseteq Contents \cup {None} /\ since \subseteq Contents
  /\ clock \in 0..MaxClock /\ inOrder \in BOOLEAN

Saved == IF file \in {Absent, Unreadable} THEN <<>> ELSE file

\* No step loses a favourite but the one it removes, or the oldest when one is
\* added to a full list, and the others stay in their order; a file that could
\* not be read is left alone, however stale the list on display is.
FavoritesKept ==
  [][file' # file =>
       /\ file # Unreadable
       /\ \E r \in Refs :
            LET others == Without(Saved, r)
            IN  \/ Without(file', r) = others
                \/ /\ Len(others) = MaxEntries /\ Contains(file', r)
                   /\ Without(file', r) = Front(others)]_vars

\* The card that is handed over exists, and is of what is on display at that
\* moment, whatever was saved, pruned or removed since the last one.
CardOfTheVerse ==
  [][handed' # handed /\ handed' # None => handed' = content /\ handed' \in DOMAIN cards']_vars

\* A card that was handed to another app is not pruned before as many others
\* as are kept were saved, unless the clock was set back; and a save that ends
\* leaves no more cards than are kept.
SharedCardStays ==
  /\ handed # None /\ inOrder /\ Cardinality(since) <= MaxOthers => handed \in DOMAIN cards
  /\ last \in DOMAIN cards => Cardinality(DOMAIN cards) <= MaxOthers + 1
=============================================================================
