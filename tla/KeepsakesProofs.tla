-------------------------- MODULE KeepsakesProofs ---------------------------
(***************************************************************************)
(* Theorems about Keepsakes, for every limit of the list, every number of  *)
(* cards that are kept and every bound of the clock: the favourites can    *)
(* always be read again and none is lost, and a card that was shared is of *)
(* the verse on display and stays for as many saves as it should.          *)
(***************************************************************************)
EXTENDS Keepsakes, ListProofs

-----------------------------------------------------------------------------
(* Lists of references. *)

\* The length of a list, and its elements as those at its places.
LEMMA ListFacts ==
  ASSUME NEW A, NEW s \in Seq(A)
  PROVE  /\ Len(s) \in Nat /\ DOMAIN s = 1..Len(s) /\ Range(s) \subseteq A
         /\ IsInjective(s) <=> \A i, j \in 1..Len(s) : s[i] = s[j] => i = j
<1>1. Len(s) \in Nat /\ DOMAIN s = 1..Len(s) /\ \A i \in 1..Len(s) : s[i] \in A
  OBVIOUS
<1> QED
  BY <1>1 DEF Range, IsInjective

\* A list without a reference is one without it, and no longer.
LEMMA WithoutIsAList ==
  ASSUME NEW refs \in Seq(Refs), Readable(refs), NEW r \in Refs
  PROVE  /\ Without(refs, r) \in Seq(Refs) /\ Readable(Without(refs, r))
         /\ r \notin Range(Without(refs, r)) /\ Len(Without(refs, r)) <= Len(refs)
<1> DEFINE w == Without(refs, r)
<1>1. /\ w \in Seq(Refs) /\ Len(w) <= Len(refs) /\ Range(w) = Range(refs) \cap (Refs \ {r})
      /\ IsInjective(refs) => IsInjective(w)
  BY KeptElements DEF Without
<1> HIDE DEF w
<1>2. Len(w) \in Nat /\ Len(refs) \in Nat /\ MaxEntries \in Nat
  BY <1>1, KeepsakesAssumption
<1>3. Readable(w)
  BY <1>1, <1>2 DEF Readable
<1> QED
  BY <1>1, <1>3 DEF w

\* Taking a reference out of a list that does not have it changes nothing.
LEMMA WithoutAgain ==
  ASSUME NEW refs \in Seq(Refs), NEW r \in Refs, r \notin Range(refs)
  PROVE  Without(refs, r) = refs
<1>1. Range(refs) \subseteq Refs \ {r}
  BY ListFacts
<1> QED
  BY <1>1, KeptWhole DEF Without

\* A beginning of a list has each of its elements once if the list has.
LEMMA BeginningIsAList ==
  ASSUME NEW refs \in Seq(Refs), IsInjective(refs), NEW n \in 0..Len(refs)
  PROVE  /\ SubSeq(refs, 1, n) \in Seq(Refs) /\ Len(SubSeq(refs, 1, n)) = n
         /\ IsInjective(SubSeq(refs, 1, n)) /\ Range(SubSeq(refs, 1, n)) \subseteq Range(refs)
<1> DEFINE t == SubSeq(refs, 1, n)
<1>1. t \in Seq(Refs) /\ Len(t) = n /\ (\A i \in 1..n : t[i] = refs[i]) /\ Len(refs) \in Nat
  OBVIOUS
<1> HIDE DEF t
<1>2. DOMAIN t = 1..n /\ DOMAIN refs = 1..Len(refs) /\ \A i \in 1..n : i \in 1..Len(refs)
  BY <1>1
<1>3. IsInjective(t) /\ Range(t) \subseteq Range(refs)
  BY <1>1, <1>2 DEF IsInjective, Range
<1> QED
  BY <1>1, <1>3 DEF t

\* A reference before a list that does not have it.
LEMMA InFront ==
  ASSUME NEW refs \in Seq(Refs), IsInjective(refs), NEW r \in Refs, r \notin Range(refs)
  PROVE  /\ <<r>> \o refs \in Seq(Refs) /\ Len(<<r>> \o refs) = Len(refs) + 1
         /\ IsInjective(<<r>> \o refs) /\ (<<r>> \o refs)[1] = r
         /\ Without(<<r>> \o refs, r) = refs
<1> DEFINE t == <<r>> \o refs
<1>1. /\ t \in Seq(Refs) /\ Len(t) = Len(refs) + 1 /\ t[1] = r /\ Len(refs) \in Nat
      /\ \A i \in 2..Len(t) : t[i] = refs[i - 1]
  OBVIOUS
<1>2. Without(t, r) = refs
  <2>1. Without(t, r) = Without(refs, r)
    BY KeptBehind DEF Without
  <2> QED
    BY <2>1, WithoutAgain
<1> HIDE DEF t
<1>3. \A i \in 2..Len(t) : i - 1 \in 1..Len(refs) /\ t[i] \in Range(refs)
  <2>1. \A i \in 2..Len(t) : i - 1 \in 1..Len(refs)
    BY <1>1
  <2>2. DOMAIN refs = 1..Len(refs)
    BY <1>1
  <2> QED
    BY <1>1, <2>1, <2>2 DEF Range
<1>4. ASSUME NEW i \in 1..Len(t), NEW j \in 1..Len(t), t[i] = t[j] PROVE i = j
  <2>1. (i = 1 \/ i \in 2..Len(t)) /\ (j = 1 \/ j \in 2..Len(t))
    BY <1>1
  <2>2. CASE i \in 2..Len(t) /\ j \in 2..Len(t)
    <3>1. refs[i - 1] = refs[j - 1] /\ i - 1 \in 1..Len(refs) /\ j - 1 \in 1..Len(refs)
      BY <1>1, <1>3, <1>4, <2>2
    <3>2. i - 1 = j - 1
      BY <3>1, ListFacts
    <3> QED
      BY <1>1, <2>2, <3>2
  <2>3. CASE i = 1 \/ j = 1
    BY <1>1, <1>3, <1>4, <2>1, <2>3
  <2> QED
    BY <2>1, <2>2, <2>3
<1>5. IsInjective(t)
  BY <1>1, <1>4, ListFacts
<1> QED
  BY <1>1, <1>2, <1>5 DEF t

\* What add makes of a list: it can be read, and loses no reference, or only
\* the last of a full one.
LEMMA AddedIsAList ==
  ASSUME NEW refs \in Seq(Refs), Readable(refs), NEW r \in Refs
  PROVE  /\ Added(refs, r) \in Seq(Refs) /\ Readable(Added(refs, r))
         /\ \/ Without(Added(refs, r), r) = Without(refs, r)
            \/ /\ Len(Without(refs, r)) = MaxEntries /\ Contains(Added(refs, r), r)
               /\ Without(Added(refs, r), r) = Front(Without(refs, r))
<1> DEFINE w == Without(refs, r)
           new == <<r>> \o w
<1>1. w \in Seq(Refs) /\ IsInjective(w) /\ Len(w) <= MaxEntries /\ r \notin Range(w)
  BY WithoutIsAList DEF Readable
<1> HIDE DEF w
<1>2. Len(w) \in Nat /\ MaxEntries \in Nat \ {0}
  BY <1>1, KeepsakesAssumption
<1>3. new \in Seq(Refs) /\ Len(new) = Len(w) + 1 /\ IsInjective(new) /\ new[1] = r /\ Without(new, r) = w
  BY <1>1, InFront
<1>4. Added(refs, r) = IF Len(new) > MaxEntries THEN SubSeq(new, 1, MaxEntries) ELSE new
  BY DEF Added, w
<1>5. CASE Len(new) <= MaxEntries
  <2>1. Added(refs, r) = new
    BY <1>2, <1>3, <1>4, <1>5
  <2> QED
    BY <1>3, <1>5, <2>1 DEF Readable, w
<1>6. CASE Len(new) > MaxEntries
  <2>1. Len(w) = MaxEntries /\ Added(refs, r) = SubSeq(new, 1, MaxEntries) /\ MaxEntries \in 0..Len(new)
    BY <1>1, <1>2, <1>3, <1>4, <1>6
  <2> DEFINE cut == SubSeq(new, 1, MaxEntries)
             rest == SubSeq(w, 1, MaxEntries - 1)
  <2>2. cut \in Seq(Refs) /\ Len(cut) = MaxEntries /\ IsInjective(cut)
    BY <1>3, <2>1, BeginningIsAList
  <2>3. rest \in Seq(Refs) /\ IsInjective(rest) /\ Range(rest) \subseteq Range(w)
    <3>1. MaxEntries - 1 \in 0..Len(w)
      BY <1>2, <2>1
    <3> QED
      BY <1>1, <3>1, BeginningIsAList
  <2>4. cut = <<r>> \o rest
    BY <1>1, <1>2, <2>1
  <2>5. rest = Front(w)
    BY <2>1 DEF Front
  <2> HIDE DEF cut, rest
  <2>6. Without(cut, r) = rest /\ cut[1] = r
    BY <1>1, <2>3, <2>4, InFront
  <2>7. Contains(cut, r)
    <3>1. 1 \in 1..Len(cut)
      BY <1>2, <2>2
    <3> QED
      BY <2>6, <3>1 DEF Contains
  <2>8. Added(refs, r) = cut
    BY <2>1 DEF cut
  <2>9. Readable(cut)
    BY <1>2, <2>2 DEF Readable
  <2> QED
    BY <2>1, <2>2, <2>5, <2>6, <2>7, <2>8, <2>9 DEF w
<1> QED
  BY <1>2, <1>3, <1>5, <1>6
-----------------------------------------------------------------------------
(* The favourites. *)

\* The file, when it is one, and the list on display can be read, which is more
\* than the type of the latter says.
FavoritesInv ==
  /\ anchor \in Refs \cup {None}
  /\ file \notin {Absent, Unreadable} => file \in Seq(Refs) /\ Readable(file)
  /\ list = file \/ list = <<>>
  /\ list \in Seq(Refs) /\ Readable(list)

\* The empty list can be read.
LEMMA EmptyIsAList == <<>> \in Seq(Refs) /\ Readable(<<>>) /\ Len(<<>>) = 0
<1>1. <<>> \in Seq(Refs) /\ Len(<<>>) = 0 /\ 0 <= MaxEntries
  BY KeepsakesAssumption
<1> QED
  BY <1>1 DEF Readable, IsInjective

\* What a read yields, if it yields a list, is what the file holds.
LEMMA ReadsAList ==
  ASSUME FavoritesInv, NEW refs \in Reads, refs # Unreadable
  PROVE  refs \in Seq(Refs) /\ Readable(refs) /\ refs = Saved /\ file # Unreadable
<1>1. CASE file = Absent
  <2>1. refs = <<>> /\ Saved = <<>>
    BY <1>1 DEF Reads, Saved
  <2> QED
    BY <1>1, <2>1, EmptyIsAList, KeepsakesAssumption
<1>2. CASE file = Unreadable
  BY <1>2, KeepsakesAssumption DEF Reads
<1>3. CASE file \notin {Absent, Unreadable}
  <2>1. refs = file
    BY <1>3 DEF Reads, FavoritesInv
  <2> QED
    BY <1>3, <2>1 DEF FavoritesInv, Saved
<1> QED
  BY <1>1, <1>2, <1>3

\* The reference a change is about is one, and what it writes can be read and
\* loses nothing else.
LEMMA ChangeStep ==
  ASSUME FavoritesInv, NEW adds, NEW r \in Refs, Change(adds, r)
  PROVE  /\ FavoritesInv'
         /\ file' # file =>
              /\ file # Unreadable
              /\ LET others == Without(Saved, r)
                 IN  \/ Without(file', r) = others
                     \/ /\ Len(others) = MaxEntries /\ Contains(file', r)
                        /\ Without(file', r) = Front(others)
<1>1. CASE Refused
  BY <1>1 DEF Refused, Change, FavoritesInv
<1>2. ASSUME NEW refs \in Reads \ {Unreadable},
             file' = (IF adds THEN Added(refs, r) ELSE Without(refs, r)), list' = file'
      PROVE  /\ file' \in Seq(Refs) /\ Readable(file') /\ refs = Saved /\ file # Unreadable
             /\ \/ Without(file', r) = Without(Saved, r)
                \/ /\ Len(Without(Saved, r)) = MaxEntries /\ Contains(file', r)
                   /\ Without(file', r) = Front(Without(Saved, r))
  <2>1. refs \in Seq(Refs) /\ Readable(refs) /\ refs = Saved /\ file # Unreadable
    BY ReadsAList
  <2>2. CASE adds
    BY <1>2, <2>1, <2>2, AddedIsAList
  <2>3. CASE ~adds
    <3>1. Without(refs, r) \in Seq(Refs) /\ Readable(Without(refs, r)) /\ r \notin Range(Without(refs, r))
      BY <2>1, WithoutIsAList
    <3>2. Without(Without(refs, r), r) = Without(refs, r)
      BY <3>1, WithoutAgain
    <3> QED
      BY <1>2, <2>1, <2>3, <3>1, <3>2
  <2> QED
    BY <2>2, <2>3
<1>3. CASE \E refs \in Reads \ {Unreadable} :
             /\ file' = (IF adds THEN Added(refs, r) ELSE Without(refs, r))
             /\ list' = file' /\ error' = "none"
  <2>1. anchor' = anchor
    BY DEF Change
  <2> QED
    BY <1>2, <1>3, <2>1 DEF FavoritesInv
<1> QED
  BY <1>1, <1>3 DEF Change

\* A change is about a reference: the one on display or one of the list.
LEMMA ChangesAReference ==
  ASSUME FavoritesInv, ToggleFavorite \/ RemoveFavorite
  PROVE  \E adds : \E r \in Refs : Change(adds, r)
<1>1. CASE ToggleFavorite
  <2>1. anchor \in Refs /\ Change(~Contains(list, anchor), anchor)
    BY <1>1 DEF ToggleFavorite, FavoritesInv
  <2> QED
    BY <2>1
<1>2. CASE RemoveFavorite
  <2>1. PICK r \in Range(list) : Change(FALSE, r)
    BY <1>2 DEF RemoveFavorite
  <2>2. r \in Refs
    BY ListFacts DEF FavoritesInv
  <2> QED
    BY <2>1, <2>2
<1> QED
  BY <1>1, <1>2

\* Every step keeps the favourites' invariant.
LEMMA FavoritesStep == ASSUME FavoritesInv, [Next]_vars PROVE FavoritesInv'
<1>1. CASE ToggleFavorite \/ RemoveFavorite
  BY <1>1, ChangesAReference, ChangeStep
<1>2. CASE Display
  BY <1>2 DEF Display, FavoritesInv
<1>3. CASE Restart
  <2>1. PICK refs \in Reads : list' = IF refs = Unreadable THEN <<>> ELSE refs
    BY <1>3 DEF Restart
  <2>2. CASE refs = Unreadable
    BY <1>3, <2>1, <2>2, EmptyIsAList DEF Restart, FavoritesInv
  <2>3. CASE refs # Unreadable
    <3>1. refs \in Seq(Refs) /\ Readable(refs) /\ refs = Saved
      BY <2>3, ReadsAList
    <3>2. refs = file \/ refs = <<>>
      BY <3>1 DEF Saved
    <3> QED
      BY <1>3, <2>1, <2>3, <3>1, <3>2 DEF Restart, FavoritesInv
  <2> QED
    BY <2>2, <2>3
<1>4. CASE UNCHANGED <<anchor, favoriteVars>>
  BY <1>4 DEF favoriteVars, FavoritesInv
<1> QED
  BY <1>1, <1>2, <1>3, <1>4 DEF Next, SaveVerseCard, ShareVerseCard, Vanish, SetClockBack, vars

\* So does the favourites' invariant hold at a start.
LEMMA FavoritesInit == ASSUME Init PROVE FavoritesInv
<1>1. ASSUME file \in BoundedSeq(Refs, MaxEntries) PROVE file \in Seq(Refs)
  <2>1. PICK m \in 0..MaxEntries : file \in [1..m -> Refs]
    BY <1>1 DEF BoundedSeq, SeqOf
  <2>2. m \in Nat
    BY KeepsakesAssumption
  <2> QED
    BY <2>1, <2>2
<1>2. file \notin {Absent, Unreadable} => file \in Seq(Refs) /\ Readable(file)
  BY <1>1, EmptyIsAList DEF Init
<1>3. list = <<>> \/ (list = file /\ file \notin {Absent, Unreadable})
  BY DEF Init
<1> QED
  BY <1>2, <1>3, EmptyIsAList DEF Init, FavoritesInv

\* The favourites' invariant holds in every state.
LEMMA FavoritesInvariance == Spec => []FavoritesInv
<1>1. Init => FavoritesInv
  BY FavoritesInit
<1>2. FavoritesInv /\ [Next]_vars => FavoritesInv'
  BY FavoritesStep
<1> QED
  BY <1>1, <1>2, PTL DEF Spec

\* No step loses a favourite but the one it removes, or the oldest of a full
\* list, whatever the list, its limit and the state of the file; a file that
\* could not be read is left alone.
THEOREM FavoritesAreKept == Spec => FavoritesKept
<1>1. ASSUME FavoritesInv, [Next]_vars
      PROVE  [file' # file =>
                /\ file # Unreadable
                /\ \E r \in Refs :
                     LET others == Without(Saved, r)
                     IN  \/ Without(file', r) = others
                         \/ /\ Len(others) = MaxEntries /\ Contains(file', r)
                            /\ Without(file', r) = Front(others)]_vars
  <2> SUFFICES ASSUME file' # file
               PROVE  /\ file # Unreadable
                      /\ \E r \in Refs :
                           LET others == Without(Saved, r)
                           IN  \/ Without(file', r) = others
                               \/ /\ Len(others) = MaxEntries /\ Contains(file', r)
                                  /\ Without(file', r) = Front(others)
    OBVIOUS
  <2>1. ToggleFavorite \/ RemoveFavorite
    BY <1>1
    DEF Next, SaveVerseCard, ShareVerseCard, Display, Vanish, SetClockBack, Restart, favoriteVars, vars
  <2>2. PICK adds : \E r \in Refs : Change(adds, r)
    BY <1>1, <2>1, ChangesAReference
  <2>3. PICK r \in Refs : Change(adds, r)
    BY <2>2
  <2> QED
    BY <1>1, <2>3, ChangeStep
<1>2. []FavoritesInv /\ [][Next]_vars => FavoritesKept
  BY <1>1, PTL DEF FavoritesKept
<1> QED
  BY <1>2, FavoritesInvariance, PTL DEF Spec
-----------------------------------------------------------------------------
(* The cards. *)

\* The types of what the cards go by.
CardsTyped ==
  /\ content \in Contents \cup {None} /\ error \in {"none", "favorites", "other"}
  /\ DOMAIN cards \subseteq Contents /\ \A c \in DOMAIN cards : cards[c] \in 0..MaxClock
  /\ {last, handed} \subseteq Contents \cup {None} /\ since \subseteq Contents
  /\ clock \in 0..MaxClock /\ inOrder \in BOOLEAN

\* While the clock was not set back since a card was handed over, every card is
\* older than the present, and one that was not saved since is older than it; so
\* the prune comes to it only after as many as are kept.
SharedInv ==
  /\ IsFiniteSet(DOMAIN cards) /\ IsFiniteSet(since)
  /\ inOrder => \A c \in DOMAIN cards : cards[c] < clock
  /\ inOrder /\ handed \in DOMAIN cards =>
       \A c \in DOMAIN cards : c = handed \/ c \in since \/ cards[c] < cards[handed]
  /\ SharedCardStays

\* A save stamps its card with the time, and keeps the others' times.
LEMMA StampedIs ==
  ASSUME NEW c
  PROVE  /\ DOMAIN Stamped(c) = DOMAIN cards \cup {c} /\ Stamped(c)[c] = clock
         /\ \A x \in DOMAIN cards : x # c => Stamped(c)[x] = cards[x]
BY DEF Stamped

\* What a save leaves in the directory: the card and no more others than are
\* kept; those it removes are none unless there are more, none is newer than
\* one that stays, and if one is removed as many as are kept stay.
LEMMA SaveLeaves ==
  ASSUME CardsTyped, IsFiniteSet(DOMAIN cards), NEW c \in Contents, Save(c)
  PROVE  /\ DOMAIN cards' \subseteq DOMAIN cards \cup {c} /\ c \in DOMAIN cards'
         /\ cards'[c] = clock /\ \A x \in DOMAIN cards' : x # c => x \in DOMAIN cards /\ cards'[x] = cards[x]
         /\ IsFiniteSet(DOMAIN cards') /\ Cardinality(DOMAIN cards') <= MaxOthers + 1
         /\ \A g \in DOMAIN cards \ DOMAIN cards' :
              /\ g # c
              /\ \A x \in DOMAIN cards' \ {c} : cards[g] <= cards[x]
              /\ Cardinality(DOMAIN cards') = MaxOthers + 1
<1> DEFINE D == DOMAIN cards \cup {c}
<1>1. DOMAIN Stamped(c) = D /\ Stamped(c)[c] = clock /\ \A x \in DOMAIN cards : x # c => Stamped(c)[x] = cards[x]
  BY StampedIs
<1>2. PICK gone \in Excess(Stamped(c), c) : cards' = [x \in DOMAIN Stamped(c) \ gone |-> Stamped(c)[x]]
  BY DEF Save
<1>3. /\ gone \subseteq D \ {c}
      /\ Cardinality(gone) = IF Cardinality(D) - 1 > MaxOthers THEN Cardinality(D) - 1 - MaxOthers ELSE 0
      /\ \A g \in gone, s \in D \ (gone \cup {c}) : Stamped(c)[g] <= Stamped(c)[s]
  BY <1>1 DEF Excess
<1>4. DOMAIN cards' = D \ gone /\ \A x \in D \ gone : cards'[x] = Stamped(c)[x]
  BY <1>1, <1>2
<1> HIDE DEF D
<1>5. IsFiniteSet(D) /\ c \in D /\ DOMAIN cards \subseteq D
  BY FS_AddElement DEF D
<1>6. Cardinality(D) \in Nat /\ IsFiniteSet(gone) /\ D \cap gone = gone
  <2>1. IsFiniteSet(gone)
    BY <1>3, <1>5, FS_Subset
  <2>2. Cardinality(D) \in Nat
    BY <1>5, FS_CardinalityType
  <2> QED
    BY <1>3, <2>1, <2>2
<1>7. IsFiniteSet(D \ gone) /\ Cardinality(D \ gone) = Cardinality(D) - Cardinality(gone)
  BY <1>5, <1>6, FS_Difference
<1>8. Cardinality(D \ gone) <= MaxOthers + 1
      /\ (Cardinality(gone) # 0 => Cardinality(D \ gone) = MaxOthers + 1)
  BY <1>3, <1>6, <1>7, KeepsakesAssumption
<1>9. ASSUME NEW g \in DOMAIN cards \ DOMAIN cards'
      PROVE  /\ g # c
             /\ \A x \in DOMAIN cards' \ {c} : cards[g] <= cards[x]
             /\ Cardinality(DOMAIN cards') = MaxOthers + 1
  <2>1. g \in gone /\ g # c
    BY <1>3, <1>4, <1>5
  <2>2. Cardinality(gone) # 0
    BY <1>6, <2>1, FS_EmptySet
  <2>3. ASSUME NEW x \in DOMAIN cards' \ {c} PROVE cards[g] <= cards[x]
    <3>1. x \in D \ (gone \cup {c}) /\ x \in DOMAIN cards
      BY <1>4 DEF D
    <3>2. Stamped(c)[g] <= Stamped(c)[x]
      BY <1>3, <2>1, <3>1
    <3> QED
      BY <1>1, <2>1, <3>1, <3>2
  <2> QED
    BY <1>4, <1>8, <2>1, <2>2, <2>3
<1>10. c \in DOMAIN cards' /\ cards'[c] = clock
  BY <1>1, <1>3, <1>4, <1>5
<1>11. DOMAIN cards' \subseteq DOMAIN cards \cup {c}
       /\ \A x \in DOMAIN cards' : x # c => x \in DOMAIN cards /\ cards'[x] = cards[x]
  BY <1>1, <1>4 DEF D
<1> QED
  BY <1>4, <1>7, <1>8, <1>9, <1>10, <1>11

\* A save that is not handed over.
LEMMA SaveKeepsShared ==
  ASSUME CardsTyped, SharedInv, content # None, Save(content),
         since' = since \cup ({content} \ {handed}), UNCHANGED <<content, handed, inOrder>>
  PROVE  SharedInv'
<1>1. content \in Contents /\ clock \in Nat /\ MaxOthers \in Nat /\ clock' = clock + 1 /\ last' = content
  BY KeepsakesAssumption DEF CardsTyped, Save
<1>2. /\ DOMAIN cards' \subseteq DOMAIN cards \cup {content} /\ content \in DOMAIN cards'
      /\ cards'[content] = clock
      /\ \A x \in DOMAIN cards' : x # content => x \in DOMAIN cards /\ cards'[x] = cards[x]
      /\ IsFiniteSet(DOMAIN cards') /\ Cardinality(DOMAIN cards') <= MaxOthers + 1
      /\ \A g \in DOMAIN cards \ DOMAIN cards' :
           /\ g # content
           /\ \A x \in DOMAIN cards' \ {content} : cards[g] <= cards[x]
           /\ Cardinality(DOMAIN cards') = MaxOthers + 1
  BY <1>1, SaveLeaves DEF SharedInv
<1>3. \A x \in DOMAIN cards : cards[x] \in Nat
  BY KeepsakesAssumption DEF CardsTyped
<1>4. IsFiniteSet(since') /\ since \subseteq since' /\ IsFiniteSet(since)
  <2>1. IsFiniteSet(since) /\ IsFiniteSet({content} \ {handed})
    BY FS_Singleton, FS_RemoveElement DEF SharedInv
  <2> QED
    BY <2>1, FS_Union
<1>5. ASSUME inOrder, NEW x \in DOMAIN cards' PROVE cards'[x] < clock'
  <2>1. CASE x = content
    BY <1>1, <1>2, <2>1
  <2>2. CASE x # content
    <3>1. x \in DOMAIN cards /\ cards'[x] = cards[x] /\ cards[x] < clock
      BY <1>2, <1>5, <2>2 DEF SharedInv
    <3> QED
      BY <1>1, <1>3, <3>1
  <2> QED
    BY <2>1, <2>2
<1>6. ASSUME inOrder, handed \in DOMAIN cards', NEW x \in DOMAIN cards'
      PROVE  x = handed \/ x \in since' \/ cards'[x] < cards'[handed]
  <2>1. CASE content = handed
    <3> SUFFICES ASSUME x # handed PROVE cards'[x] < cards'[handed]
      OBVIOUS
    <3>1. x \in DOMAIN cards /\ cards'[x] = cards[x] /\ cards[x] < clock
      BY <1>2, <1>6, <2>1 DEF SharedInv
    <3> QED
      BY <1>2, <2>1, <3>1
  <2>2. CASE content # handed
    <3>1. handed \in DOMAIN cards /\ cards'[handed] = cards[handed] /\ content \in since'
      BY <1>2, <1>6, <2>2
    <3>2. CASE x # content
      BY <1>2, <1>4, <1>6, <3>1, <3>2 DEF SharedInv
    <3> QED
      BY <3>1, <3>2
  <2> QED
    BY <2>1, <2>2
<1>7. ASSUME handed # None, inOrder, Cardinality(since') <= MaxOthers PROVE handed \in DOMAIN cards'
  <2> SUFFICES ASSUME handed \notin DOMAIN cards' PROVE FALSE
    OBVIOUS
  <2>1. Cardinality(since) <= Cardinality(since') /\ Cardinality(since) \in Nat /\ Cardinality(since') \in Nat
    BY <1>4, FS_Subset, FS_CardinalityType
  <2>2. Cardinality(since) <= MaxOthers
    BY <1>1, <1>7, <2>1
  <2>3. handed \in DOMAIN cards
    BY <1>7, <2>2 DEF SharedInv, SharedCardStays
  <2>4. /\ handed # content /\ Cardinality(DOMAIN cards') = MaxOthers + 1
        /\ \A x \in DOMAIN cards' \ {content} : cards[handed] <= cards[x]
    BY <1>2, <2>3
  <2>5. ASSUME NEW x \in DOMAIN cards' PROVE x \in since'
    <3>1. CASE x = content
      BY <2>4, <3>1
    <3>2. CASE x # content
      <4>1. x \in DOMAIN cards /\ x # handed /\ cards[handed] <= cards[x]
        BY <1>2, <2>4, <3>2
      <4>2. ~(cards[x] < cards[handed])
        BY <1>3, <2>3, <4>1
      <4>3. x \in since
        BY <1>7, <2>3, <4>1, <4>2 DEF SharedInv
      <4> QED
        BY <1>4, <4>3
    <3> QED
      BY <3>1, <3>2
  <2>6. Cardinality(DOMAIN cards') <= Cardinality(since')
    BY <1>4, <2>5, FS_Subset
  <2> QED
    BY <1>1, <1>7, <2>1, <2>4, <2>6
<1>8. SharedCardStays'
  BY <1>2, <1>7 DEF SharedCardStays
<1> QED
  BY <1>2, <1>4, <1>5, <1>6, <1>8 DEF SharedInv

\* A card that is handed over: the last one, which is there.
LEMMA HandOverShares ==
  ASSUME CardsTyped, SharedInv, content # None,
         IF Reusable THEN UNCHANGED <<cards, last, clock>> ELSE Save(content),
         handed' = last', since' = {},
         inOrder' = \A c \in DOMAIN cards' : /\ cards'[c] < clock'
                                             /\ c # last' => cards'[c] < cards'[last']
  PROVE  SharedInv' /\ handed' = content /\ handed' \in DOMAIN cards'
<1>1. /\ last' = content /\ content \in DOMAIN cards'
      /\ IsFiniteSet(DOMAIN cards') /\ Cardinality(DOMAIN cards') <= MaxOthers + 1
  <2>1. CASE Reusable
    BY <2>1 DEF Reusable, SharedInv, SharedCardStays
  <2>2. CASE ~Reusable
    <3>1. content \in Contents /\ Save(content) /\ IsFiniteSet(DOMAIN cards)
      BY <2>2 DEF CardsTyped, SharedInv
    <3> QED
      BY <3>1, SaveLeaves DEF Save
  <2> QED
    BY <2>1, <2>2
<1>2. IsFiniteSet(since')
  BY FS_EmptySet
<1>3. SharedCardStays'
  BY <1>1 DEF SharedCardStays
<1> QED
  BY <1>1, <1>2, <1>3 DEF SharedInv

\* Every step keeps the shared card.
LEMMA SharedStep == ASSUME CardsTyped, SharedInv, [Next]_vars PROVE SharedInv'
<1>1. CASE SaveVerseCard
  BY <1>1, SaveKeepsShared DEF SaveVerseCard
<1>2. CASE ShareVerseCard
  <2>1. CASE since' = (IF Reusable THEN since ELSE since \cup ({content} \ {handed}))
             /\ UNCHANGED <<handed, inOrder>>
    <3>1. CASE Reusable
      <4>1. UNCHANGED <<cards, last, clock, since, handed, inOrder>>
        BY <1>2, <2>1, <3>1 DEF ShareVerseCard
      <4> QED
        BY <4>1 DEF SharedInv, SharedCardStays
    <3>2. CASE ~Reusable
      <4>1. content # None /\ Save(content) /\ since' = since \cup ({content} \ {handed})
            /\ UNCHANGED <<content, handed, inOrder>>
        BY <1>2, <2>1, <3>2 DEF ShareVerseCard
      <4> QED
        BY <4>1, SaveKeepsShared
    <3> QED
      BY <3>1, <3>2
  <2>2. CASE /\ handed' = last' /\ since' = {}
             /\ inOrder' = \A c \in DOMAIN cards' : /\ cards'[c] < clock'
                                                    /\ c # last' => cards'[c] < cards'[last']
    BY <1>2, <2>2, HandOverShares DEF ShareVerseCard
  <2> QED
    BY <1>2, <2>1, <2>2 DEF ShareVerseCard
<1>3. ASSUME NEW c \in DOMAIN cards, Vanish(c) PROVE SharedInv'
  <2>1. /\ cards' = [x \in DOMAIN cards \ {c} |-> cards[x]] /\ UNCHANGED <<clock, since, inOrder, last>>
        /\ handed' = IF handed = c THEN None ELSE handed
    BY <1>3 DEF Vanish
  <2>2. DOMAIN cards' = DOMAIN cards \ {c} /\ \A x \in DOMAIN cards' : cards'[x] = cards[x]
    BY <2>1
  <2>3. IsFiniteSet(DOMAIN cards') /\ Cardinality(DOMAIN cards') <= Cardinality(DOMAIN cards)
        /\ Cardinality(DOMAIN cards') \in Nat /\ Cardinality(DOMAIN cards) \in Nat
    BY <2>2, FS_Subset, FS_CardinalityType DEF SharedInv
  <2>4. inOrder' /\ handed' \in DOMAIN cards' =>
          \A x \in DOMAIN cards' : x = handed' \/ x \in since' \/ cards'[x] < cards'[handed']
    <3>1. None \notin DOMAIN cards
      BY KeepsakesAssumption DEF CardsTyped
    <3> QED
      BY <2>1, <2>2, <3>1 DEF SharedInv
  <2>5. SharedCardStays'
    <3>1. handed' # None /\ inOrder' /\ Cardinality(since') <= MaxOthers => handed' \in DOMAIN cards'
      BY <2>1, <2>2 DEF SharedInv, SharedCardStays
    <3>2. last' \in DOMAIN cards' => Cardinality(DOMAIN cards') <= MaxOthers + 1
      BY <2>1, <2>2, <2>3, KeepsakesAssumption DEF SharedInv, SharedCardStays
    <3> QED
      BY <3>1, <3>2 DEF SharedCardStays
  <2> QED
    BY <2>1, <2>2, <2>3, <2>4, <2>5 DEF SharedInv
<1>4. CASE SetClockBack
  BY <1>4 DEF SetClockBack, SharedInv, SharedCardStays
<1>5. CASE Restart
  <2>1. last' = None /\ UNCHANGED <<handed, inOrder>>
    BY <1>5 DEF Restart
  <2>2. None \notin DOMAIN cards /\ None \notin Contents
    BY KeepsakesAssumption DEF CardsTyped
  <2>3. CASE UNCHANGED <<cards, clock, since>>
    BY <2>1, <2>2, <2>3 DEF SharedInv, SharedCardStays
  <2>4. CASE /\ content # None /\ clock < MaxClock /\ clock' = clock + 1
             /\ cards' = Stamped(content) /\ since' = since \cup ({content} \ {handed})
    <3>1. /\ DOMAIN cards' = DOMAIN cards \cup {content} /\ cards'[content] = clock
          /\ \A x \in DOMAIN cards : x # content => cards'[x] = cards[x]
      BY <2>4, StampedIs
    <3>2. clock \in Nat /\ \A x \in DOMAIN cards : cards[x] \in Nat
      BY KeepsakesAssumption DEF CardsTyped
    <3>3. IsFiniteSet(DOMAIN cards') /\ IsFiniteSet(since') /\ since \subseteq since' /\ IsFiniteSet(since)
      <4>1. IsFiniteSet(since) /\ IsFiniteSet({content} \ {handed})
        BY FS_Singleton, FS_RemoveElement DEF SharedInv
      <4>2. IsFiniteSet(DOMAIN cards')
        BY <3>1, FS_AddElement DEF SharedInv
      <4> QED
        BY <2>4, <4>1, <4>2, FS_Union
    <3>4. inOrder' => \A x \in DOMAIN cards' : cards'[x] < clock'
      BY <2>1, <2>4, <3>1, <3>2 DEF SharedInv
    <3>5. inOrder' /\ handed' \in DOMAIN cards' =>
            \A x \in DOMAIN cards' : x = handed' \/ x \in since' \/ cards'[x] < cards'[handed']
      <4>1. CASE content = handed
        BY <2>1, <3>1, <4>1 DEF SharedInv
      <4>2. CASE content # handed
        BY <2>1, <2>4, <3>1, <4>2 DEF SharedInv
      <4> QED
        BY <4>1, <4>2
    <3>6. SharedCardStays'
      <4>1. Cardinality(since) <= Cardinality(since') /\ Cardinality(since) \in Nat /\ Cardinality(since') \in Nat
        BY <3>3, FS_Subset, FS_CardinalityType
      <4>2. handed' # None /\ inOrder' /\ Cardinality(since') <= MaxOthers => handed' \in DOMAIN cards'
        BY <2>1, <3>1, <4>1, KeepsakesAssumption DEF SharedInv, SharedCardStays
      <4>3. last' \notin DOMAIN cards'
        BY <2>1, <2>2, <2>4, <3>1
      <4> QED
        BY <4>2, <4>3 DEF SharedCardStays
    <3> QED
      BY <3>3, <3>4, <3>5, <3>6 DEF SharedInv
  <2> QED
    BY <1>5, <2>3, <2>4 DEF Restart
<1>6. CASE UNCHANGED cardVars
  BY <1>6 DEF cardVars, SharedInv, SharedCardStays
<1> QED
  BY <1>1, <1>2, <1>3, <1>4, <1>5, <1>6 DEF Next, ToggleFavorite, RemoveFavorite, Change, Display, vars

\* A save keeps the types.
LEMMA SaveTyped ==
  ASSUME CardsTyped, IsFiniteSet(DOMAIN cards), content # None, Save(content)
  PROVE  /\ DOMAIN cards' \subseteq Contents /\ \A c \in DOMAIN cards' : cards'[c] \in 0..MaxClock
         /\ last' \in Contents /\ clock' \in 0..MaxClock
<1>1. content \in Contents /\ clock \in 0..MaxClock /\ clock < MaxClock /\ clock' = clock + 1 /\ last' = content
  BY DEF CardsTyped, Save
<1>2. /\ DOMAIN cards' \subseteq DOMAIN cards \cup {content} /\ cards'[content] = clock
      /\ \A x \in DOMAIN cards' : x # content => x \in DOMAIN cards /\ cards'[x] = cards[x]
  BY <1>1, SaveLeaves
<1>3. \A c \in DOMAIN cards' : cards'[c] \in 0..MaxClock
  BY <1>1, <1>2 DEF CardsTyped
<1> QED
  BY <1>1, <1>2, <1>3, KeepsakesAssumption DEF CardsTyped

\* Every step keeps the types of the cards.
LEMMA CardsTypedStep ==
  ASSUME CardsTyped, IsFiniteSet(DOMAIN cards), [Next]_vars PROVE CardsTyped'
<1>1. CASE ToggleFavorite \/ RemoveFavorite
  BY <1>1 DEF ToggleFavorite, RemoveFavorite, Change, Refused, cardVars, CardsTyped
<1>2. CASE SaveVerseCard
  <2>1. content # None /\ Save(content) /\ since' = since \cup ({content} \ {handed})
        /\ UNCHANGED <<content, favoriteVars, handed, inOrder>>
    BY <1>2 DEF SaveVerseCard
  <2>2. content \in Contents
    BY <2>1 DEF CardsTyped
  <2> QED
    BY <2>1, <2>2, SaveTyped DEF favoriteVars, CardsTyped
<1>3. CASE ShareVerseCard
  <2>1. content \in Contents /\ content # None /\ UNCHANGED <<content, error>>
    BY <1>3 DEF ShareVerseCard, favoriteVars, CardsTyped
  <2>2. /\ DOMAIN cards' \subseteq Contents /\ \A c \in DOMAIN cards' : cards'[c] \in 0..MaxClock
        /\ last' \in Contents \cup {None} /\ clock' \in 0..MaxClock
    <3>1. CASE Reusable
      BY <1>3, <3>1 DEF ShareVerseCard, CardsTyped
    <3>2. CASE ~Reusable
      BY <1>3, <2>1, <3>2, SaveTyped DEF ShareVerseCard
    <3> QED
      BY <3>1, <3>2
  <2>3. since' \subseteq Contents /\ handed' \in Contents \cup {None} /\ inOrder' \in BOOLEAN
    BY <1>3, <2>1, <2>2 DEF ShareVerseCard, CardsTyped
  <2> QED
    BY <2>1, <2>2, <2>3 DEF CardsTyped
<1>4. CASE Display
  BY <1>4 DEF Display, cardVars, CardsTyped
<1>5. ASSUME NEW c \in DOMAIN cards, Vanish(c) PROVE CardsTyped'
  BY <1>5 DEF Vanish, favoriteVars, CardsTyped
<1>6. CASE SetClockBack
  <2>1. clock' \in 0..MaxClock
    BY <1>6, KeepsakesAssumption DEF SetClockBack, CardsTyped
  <2> QED
    BY <1>6, <2>1 DEF SetClockBack, favoriteVars, CardsTyped
<1>7. CASE Restart
  <2>1. content' = None /\ last' = None /\ error' \in {"none", "favorites", "other"} /\ UNCHANGED <<handed, inOrder>>
    BY <1>7 DEF Restart
  <2>2. /\ DOMAIN cards' \subseteq Contents /\ \A c \in DOMAIN cards' : cards'[c] \in 0..MaxClock
        /\ clock' \in 0..MaxClock /\ since' \subseteq Contents
    <3>1. CASE UNCHANGED <<cards, clock, since>>
      BY <3>1 DEF CardsTyped
    <3>2. CASE /\ content # None /\ clock < MaxClock /\ clock' = clock + 1
               /\ cards' = Stamped(content) /\ since' = since \cup ({content} \ {handed})
      <4>1. content \in Contents /\ clock \in 0..MaxClock
        BY <3>2 DEF CardsTyped
      <4>2. /\ DOMAIN cards' = DOMAIN cards \cup {content} /\ cards'[content] = clock
            /\ \A x \in DOMAIN cards : x # content => cards'[x] = cards[x]
        BY <3>2, StampedIs
      <4>3. \A c \in DOMAIN cards' : cards'[c] \in 0..MaxClock
        BY <4>1, <4>2 DEF CardsTyped
      <4> QED
        BY <3>2, <4>1, <4>2, <4>3, KeepsakesAssumption DEF CardsTyped
    <3> QED
      BY <1>7, <3>1, <3>2 DEF Restart
  <2> QED
    BY <2>1, <2>2 DEF CardsTyped
<1>8. CASE UNCHANGED vars
  BY <1>8 DEF vars, favoriteVars, cardVars, CardsTyped
<1> QED
  BY <1>1, <1>2, <1>3, <1>4, <1>5, <1>6, <1>7, <1>8 DEF Next

\* The types of the cards and the shared card hold in every state.
LEMMA CardsInvariance == Spec => [](CardsTyped /\ SharedInv)
<1>1. Init => CardsTyped /\ SharedInv
  <2> SUFFICES ASSUME Init PROVE CardsTyped /\ SharedInv
    OBVIOUS
  <2>1. DOMAIN cards = {} /\ since = {} /\ IsFiniteSet({}) /\ handed = None /\ inOrder = FALSE
        /\ last = None /\ content = None /\ clock = 0 /\ error \in {"none", "favorites", "other"}
    BY FS_EmptySet DEF Init
  <2>2. clock \in 0..MaxClock
    BY <2>1, KeepsakesAssumption
  <2>3. CardsTyped
    BY <2>1, <2>2 DEF CardsTyped
  <2> QED
    BY <2>1, <2>3 DEF SharedInv, SharedCardStays
<1>2. (CardsTyped /\ SharedInv) /\ [Next]_vars => (CardsTyped /\ SharedInv)'
  BY CardsTypedStep, SharedStep DEF SharedInv
<1> QED
  BY <1>1, <1>2, PTL DEF Spec

\* A card that was handed to another app is there until as many others as are
\* kept were saved, unless the clock was set back or the file was removed from
\* outside, wherever the process ends; and the cards do not grow beyond that.
THEOREM SharedCardIsKept == Spec => []SharedCardStays
<1>1. SharedInv => SharedCardStays
  BY DEF SharedInv
<1> QED
  BY <1>1, CardsInvariance, PTL

\* The card that is handed over is of what is on display, and there.
THEOREM CardIsOfTheVerse == Spec => CardOfTheVerse
<1>1. ASSUME CardsTyped, SharedInv, [Next]_vars
      PROVE  [handed' # handed /\ handed' # None => handed' = content /\ handed' \in DOMAIN cards']_vars
  <2> SUFFICES ASSUME handed' # handed, handed' # None PROVE handed' = content /\ handed' \in DOMAIN cards'
    OBVIOUS
  <2>1. ShareVerseCard
    BY <1>1
    DEF Next, ToggleFavorite, RemoveFavorite, Change, SaveVerseCard, Display, Vanish, SetClockBack, Restart,
        cardVars, vars
  <2>2. /\ content # None /\ (IF Reusable THEN UNCHANGED <<cards, last, clock>> ELSE Save(content))
        /\ handed' = last' /\ since' = {}
        /\ inOrder' = \A c \in DOMAIN cards' : /\ cards'[c] < clock'
                                               /\ c # last' => cards'[c] < cards'[last']
    BY <2>1 DEF ShareVerseCard
  <2> QED
    BY <1>1, <2>2, HandOverShares
<1>2. [](CardsTyped /\ SharedInv) /\ [][Next]_vars => CardOfTheVerse
  BY <1>1, PTL DEF CardOfTheVerse
<1> QED
  BY <1>2, CardsInvariance, PTL DEF Spec

\* Every variable keeps its type, and what the app writes of its favourites it
\* can read again.
THEOREM KeepsakesTyped == Spec => []TypeOK
<1>1. FavoritesInv /\ CardsTyped => TypeOK
  BY DEF FavoritesInv, CardsTyped, TypeOK
<1> QED
  BY <1>1, FavoritesInvariance, CardsInvariance, PTL
=============================================================================
