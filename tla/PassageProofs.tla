---------------------------- MODULE PassageProofs ----------------------------
(***************************************************************************)
(* Theorems about passages. Of PassageCache, for every size of the file,   *)
(* every age and every way the clock is set: the file never locks itself   *)
(* out, what was replaced does not come back, a put keeps what it stores,  *)
(* and the file is a PassageStore. Of Reading, for passages and texts of   *)
(* any length and every speed: a passage that is taken apart has all its   *)
(* verses, and a reveal shows a beginning of it and ends in time.          *)
(***************************************************************************)
EXTENDS PassageCache, Reading, ListProofs

-----------------------------------------------------------------------------
(* Lists of entries. *)

\* Newer entries come first, and no two have the same key.
Orderly(s) ==
  /\ s \in Seq(Entries)
  /\ \A i, j \in 1..Len(s) : i < j => s[i].put > s[j].put /\ s[i].key # s[j].key

\* What is kept of an orderly list is orderly.
LEMMA KeptOrderly ==
  ASSUME NEW s, Orderly(s), NEW T
  PROVE  Orderly(Kept(s, T)) /\ Range(Kept(s, T)) = Range(s) \cap T
<1> DEFINE t == Kept(s, T)
<1>1. s \in Seq(Entries) /\ t \in Seq(Entries) /\ Range(t) = Range(s) \cap T
  BY KeptElements DEF Orderly
<1>2. PICK f \in [1..Len(t) -> 1..Len(s)] :
        /\ \A i, j \in 1..Len(t) : i < j => f[i] < f[j]
        /\ \A i \in 1..Len(t) : t[i] = s[f[i]]
  BY <1>1, KeptInOrder
<1> HIDE DEF t
<1>3. ASSUME NEW i \in 1..Len(t), NEW j \in 1..Len(t), i < j
      PROVE  t[i].put > t[j].put /\ t[i].key # t[j].key
  <2>1. f[i] \in 1..Len(s) /\ f[j] \in 1..Len(s) /\ f[i] < f[j] /\ t[i] = s[f[i]] /\ t[j] = s[f[j]]
    BY <1>2, <1>3
  <2> QED
    BY <2>1 DEF Orderly
<1>4. Orderly(t)
  BY <1>1, <1>3 DEF Orderly
<1> QED
  BY <1>1, <1>4 DEF t

\* A beginning of an orderly list is orderly.
LEMMA BeginningOrderly ==
  ASSUME NEW s, Orderly(s), NEW n \in 0..Len(s)
  PROVE  /\ Orderly(SubSeq(s, 1, n)) /\ Len(SubSeq(s, 1, n)) = n
         /\ Range(SubSeq(s, 1, n)) = {s[i] : i \in 1..n}
         /\ Range(SubSeq(s, 1, n)) \subseteq Range(s)
<1> DEFINE t == SubSeq(s, 1, n)
<1>1. s \in Seq(Entries) /\ Len(s) \in Nat
  BY DEF Orderly
<1>2. t \in Seq(Entries) /\ Len(t) = n /\ \A i \in 1..n : t[i] = s[i] /\ i \in 1..Len(s)
  BY <1>1
<1> HIDE DEF t
<1>3. DOMAIN t = 1..n /\ DOMAIN s = 1..Len(s)
  BY <1>1, <1>2
<1>4. Orderly(t)
  BY <1>2 DEF Orderly
<1>5. Range(t) = {s[i] : i \in 1..n} /\ Range(t) \subseteq Range(s)
  BY <1>2, <1>3 DEF Range
<1> QED
  BY <1>2, <1>4, <1>5 DEF t

\* The bytes of no entries, and of one.
LEMMA BytesOfFew ==
  /\ Bytes(<<>>) = 0
  /\ \A s \in Seq(Entries) : Len(s) = 1 => Bytes(s) = s[1].size
<1>1. Bytes(<<>>) = 0
  <2> DEFINE Is(f) == f = [i \in 0..0 |-> IF i = 0 THEN 0 ELSE f[i - 1] + <<>>[i].size]
             bytes == CHOOSE f : Is(f)
  <2>1. Is([i \in 0..0 |-> 0])
    OBVIOUS
  <2>2. Is(bytes)
    BY <2>1
  <2>3. bytes[0] = 0
    BY <2>2
  <2>4. Bytes(<<>>) = bytes[0]
    BY DEF Bytes
  <2> QED
    BY <2>3, <2>4
<1>2. ASSUME NEW s \in Seq(Entries), Len(s) = 1 PROVE Bytes(s) = s[1].size
  <2> DEFINE Is(f) == f = [i \in 0..1 |-> IF i = 0 THEN 0 ELSE f[i - 1] + s[i].size]
             bytes == CHOOSE f : Is(f)
  <2>1. s[1].size \in Nat
    <3>1. s[1] \in Entries
      BY <1>2
    <3> QED
      BY <3>1, PassageCacheAssumption DEF Entries
  <2>2. Is([i \in 0..1 |-> IF i = 0 THEN 0 ELSE s[1].size])
    <3> DEFINE g == [i \in 0..1 |-> IF i = 0 THEN 0 ELSE s[1].size]
    <3>1. g[0] = 0 /\ g[1] = s[1].size
      OBVIOUS
    <3>2. ASSUME NEW i \in 0..1 PROVE g[i] = IF i = 0 THEN 0 ELSE g[i - 1] + s[i].size
      <4>1. i = 0 \/ i = 1
        OBVIOUS
      <4>2. g[1] = g[0] + s[1].size
        BY <2>1, <3>1
      <4> HIDE DEF g
      <4> QED
        BY <3>1, <4>1, <4>2
    <3>3. g = [i \in 0..1 |-> g[i]]
      OBVIOUS
    <3> HIDE DEF g
    <3>4. g = [i \in 0..1 |-> IF i = 0 THEN 0 ELSE g[i - 1] + s[i].size]
      BY <3>2, <3>3
    <3> QED
      BY <3>4 DEF g
  <2>3. Is(bytes)
    BY <2>2
  <2>4. bytes[0] = 0 /\ bytes[1] = bytes[0] + s[1].size
    <3> HIDE DEF bytes
    <3> QED
      BY <2>3
  <2>5. Bytes(s) = bytes[1]
    BY <1>2 DEF Bytes
  <2> QED
    BY <2>1, <2>4, <2>5
<1> QED
  BY <1>1, <1>2

\* A set of numbers up to some number has a greatest, unless it is empty.
LEMMA GreatestIsThere ==
  ASSUME NEW k \in Nat, NEW S \in SUBSET (0..k), S # {}
  PROVE  Max(S) \in S /\ \A n \in S : n <= Max(S)
<1> DEFINE R == {n \in Nat : \A T \in SUBSET (0..n) : T # {} => \E m \in T : \A x \in T : m >= x}
<1>1. 0 \in R
  <2>1. SUFFICES ASSUME NEW T \in SUBSET (0..0), T # {} PROVE \E m \in T : \A x \in T : m >= x
    OBVIOUS
  <2>2. \A x \in T : x = 0
    BY <2>1
  <2>3. 0 \in T
    BY <2>1, <2>2
  <2> QED
    BY <2>2, <2>3
<1>2. ASSUME NEW n \in R PROVE n + 1 \in R
  <2>1. SUFFICES ASSUME NEW T \in SUBSET (0..n + 1), T # {} PROVE \E m \in T : \A x \in T : m >= x
    OBVIOUS
  <2>2. CASE n + 1 \in T
    <3>1. \A x \in T : n + 1 >= x
      OBVIOUS
    <3> QED
      BY <2>2, <3>1
  <2>3. CASE n + 1 \notin T
    <3>1. T \in SUBSET (0..n)
      BY <2>3
    <3> QED
      BY <2>1, <3>1
  <2> QED
    BY <2>2, <2>3
<1>3. R = Nat
  <2>1. R \in SUBSET Nat
    OBVIOUS
  <2> HIDE DEF R
  <2> QED
    BY <1>1, <1>2, <2>1, Induction
<1>4. \E m \in S : \A x \in S : m >= x
  BY <1>3
<1>5. Max(S) \in S /\ \A x \in S : Max(S) >= x
  BY <1>4 DEF Max
<1> QED
  BY <1>5
-----------------------------------------------------------------------------
(* What write makes of a list. *)

\* The entries that are fresh at the time.
FreshOnes == {e \in Entries : IsFresh(e)}

\* An orderly list has its elements at its places, and they are entries.
LEMMA OrderlyFacts ==
  ASSUME NEW s, Orderly(s)
  PROVE  /\ s \in Seq(Entries) /\ Len(s) \in Nat /\ DOMAIN s = 1..Len(s)
         /\ Range(s) = {s[i] : i \in 1..Len(s)} /\ Range(s) \subseteq Entries
         /\ \A i \in 1..Len(s) : s[i] \in Entries
<1>1. s \in Seq(Entries) /\ Len(s) \in Nat /\ DOMAIN s = 1..Len(s) /\ \A i \in 1..Len(s) : s[i] \in Entries
  BY DEF Orderly
<1> QED
  BY <1>1 DEF Range

\* Fresh and Without keep the entries they should.
LEMMA FreshAndWithout ==
  ASSUME NEW s, Orderly(s)
  PROVE  /\ Orderly(Fresh(s)) /\ Range(Fresh(s)) = Range(s) \cap FreshOnes
         /\ \A k : /\ Orderly(Without(s, k))
                  /\ Range(Without(s, k)) = {e \in Range(s) : e.key # k}
<1>1. s \in Seq(Entries) /\ Range(s) \subseteq Entries
  BY OrderlyFacts DEF Orderly
<1>2. Orderly(Fresh(s)) /\ Range(Fresh(s)) = Range(s) \cap FreshOnes
  <2> DEFINE T == {e \in Range(s) : IsFresh(e)}
  <2>1. Orderly(Kept(s, T)) /\ Range(Kept(s, T)) = Range(s) \cap T
    BY KeptOrderly
  <2>2. Range(s) \cap T = Range(s) \cap FreshOnes
    BY <1>1 DEF FreshOnes
  <2> QED
    BY <2>1, <2>2 DEF Fresh
<1>3. ASSUME NEW k
      PROVE  Orderly(Without(s, k)) /\ Range(Without(s, k)) = {e \in Range(s) : e.key # k}
  <2> DEFINE T == {e \in Range(s) : e.key # k}
  <2>1. Orderly(Kept(s, T)) /\ Range(Kept(s, T)) = Range(s) \cap T
    BY KeptOrderly
  <2> QED
    BY <2>1 DEF Without
<1> QED
  BY <1>2, <1>3

\* What write leaves of a list is a beginning of its fresh entries, no more than
\* are allowed, and not nothing if there are any.
LEMMA BoundedIs ==
  ASSUME NEW s, Orderly(s)
  PROVE  \E n \in 0..Len(Fresh(s)) :
           /\ Bounded(s) = SubSeq(Fresh(s), 1, n)
           /\ n <= MaxEntries /\ (Len(Fresh(s)) # 0 => n # 0)
<1> DEFINE f == Fresh(s)
           c == Capped(f)
<1>1. Orderly(f) /\ f \in Seq(Entries) /\ Len(f) \in Nat /\ MaxEntries \in Nat \ {0} /\ MaxBytes \in Nat
  BY KeptOrderly, PassageCacheAssumption DEF Fresh, Orderly
<1> HIDE DEF f
<1>2. PICK m \in 0..Len(f) : c = SubSeq(f, 1, m) /\ m <= MaxEntries /\ (Len(f) # 0 => m # 0)
  <2>1. CASE Len(f) <= MaxEntries
    <3>1. c = f /\ SubSeq(f, 1, Len(f)) = f
      BY <1>1, <2>1 DEF Capped
    <3>2. Len(f) \in 0..Len(f)
      BY <1>1
    <3> QED
      BY <2>1, <3>1, <3>2
  <2>2. CASE ~(Len(f) <= MaxEntries)
    <3>1. c = SubSeq(f, 1, MaxEntries) /\ MaxEntries \in 0..Len(f)
      BY <1>1, <2>2 DEF Capped
    <3> QED
      BY <1>1, <3>1
  <2> QED
    BY <2>1, <2>2
<1>3. c \in Seq(Entries) /\ Len(c) = m
  BY <1>1, <1>2
<1> HIDE DEF c
<1> DEFINE S == {n \in 0..Len(c) : Bytes(SubSeq(c, 1, n)) <= MaxBytes}
<1>4. 0 \in S
  <2>1. SubSeq(c, 1, 0) = <<>>
    BY <1>3
  <2>2. Bytes(SubSeq(c, 1, 0)) = 0
    BY <2>1, BytesOfFew
  <2> QED
    BY <1>1, <1>3, <2>2
<1>5. Len(c) # 0 => 1 \in S
  <2> SUFFICES ASSUME Len(c) # 0 PROVE 1 \in S
    OBVIOUS
  <2>1. 1 \in 0..Len(c) /\ SubSeq(c, 1, 1) \in Seq(Entries) /\ Len(SubSeq(c, 1, 1)) = 1
        /\ SubSeq(c, 1, 1)[1] = c[1] /\ c[1] \in Entries
    BY <1>3
  <2>2. Bytes(SubSeq(c, 1, 1)) = c[1].size
    BY <2>1, BytesOfFew
  <2>3. c[1].size \in Nat /\ c[1].size < MaxBytes
    BY <2>1, PassageCacheAssumption DEF Entries
  <2> QED
    BY <1>1, <2>1, <2>2, <2>3
<1>6. Max(S) \in S /\ \A n \in S : n <= Max(S)
  <2>1. S \in SUBSET (0..m) /\ S # {} /\ m \in Nat
    BY <1>2, <1>3, <1>4
  <2> HIDE DEF S
  <2> QED
    BY <2>1, GreatestIsThere
<1>7. Bounded(s) = SubSeq(c, 1, Max(S))
  BY DEF Bounded, Trimmed, c, f
<1>8. Max(S) \in 0..m
  BY <1>3, <1>6
<1>9. Len(f) # 0 => Max(S) # 0
  BY <1>2, <1>3, <1>5, <1>6
<1> HIDE DEF S
<1>10. SubSeq(SubSeq(f, 1, m), 1, Max(S)) = SubSeq(f, 1, Max(S))
  BY <1>1, <1>2, <1>8
<1> QED
  BY <1>1, <1>2, <1>7, <1>8, <1>9, <1>10 DEF f
\* What a write leaves in the file: some of the list, within the limits.
LEMMA WriteLeaves ==
  ASSUME NEW s, Orderly(s), Write(s)
  PROVE  /\ Orderly(file') /\ Range(file') \subseteq Range(s) \cap FreshOnes
         /\ damaged' = FALSE /\ FileBytes(file') <= MaxBytes /\ Len(file') <= MaxEntries
<1>1. PICK n \in 0..Len(Fresh(s)) : Bounded(s) = SubSeq(Fresh(s), 1, n) /\ n <= MaxEntries
  BY BoundedIs
<1>2. Orderly(Fresh(s)) /\ Range(Fresh(s)) = Range(s) \cap FreshOnes
  BY FreshAndWithout
<1>3. file' = SubSeq(Fresh(s), 1, n) /\ damaged' = FALSE /\ FileBytes(file') <= MaxBytes
  BY <1>1 DEF Write, Fits
<1>4. Orderly(file') /\ Len(file') = n /\ Range(file') \subseteq Range(Fresh(s))
  BY <1>2, <1>3, BeginningOrderly
<1> QED
  BY <1>1, <1>2, <1>3, <1>4
-----------------------------------------------------------------------------
(* The file. *)

\* The file is orderly, within the limits unless it was damaged, and holds the
\* latest put of each of its keys; no put is later than the last.
FileInv ==
  /\ Orderly(file) /\ damaged \in BOOLEAN /\ clock \in 1..MaxClock /\ puts \in 0..MaxPuts
  /\ latest \in [LookupKeys -> 0..MaxPuts] /\ \A k \in LookupKeys : latest[k] <= puts
  /\ \A e \in Range(file) : e.put <= puts
  /\ ~damaged => /\ FileBytes(file) <= MaxBytes /\ Len(file) <= MaxEntries
                 /\ \A e \in Range(file) : e.put = latest[e.key]

\* What an entry is made of.
LEMMA EntryFacts ==
  ASSUME NEW e \in Entries
  PROVE  e.key \in LookupKeys /\ e.size \in Sizes /\ e.storedAt \in 1..MaxClock /\ e.put \in 1..MaxPuts
BY DEF Entries

\* What a put writes of what can be read: the entries that are fresh and not of
\* its key.
Staying(k) == IF CanRead THEN {e \in Range(file) \cap FreshOnes : e.key # k} ELSE {}

\* The list a put writes is orderly, its first is the new entry, and all of it
\* is fresh.
LEMMA ReplacedIs ==
  ASSUME FileInv, NEW k \in LookupKeys, NEW size \in Sizes, puts < MaxPuts
  PROVE  /\ Orderly(Replaced(k, size)) /\ Len(Replaced(k, size)) # 0
         /\ Replaced(k, size)[1] = NewEntry(k, size) /\ NewEntry(k, size) \in FreshOnes
         /\ Range(Replaced(k, size)) = {NewEntry(k, size)} \cup Staying(k)
         /\ Fresh(Replaced(k, size)) = Replaced(k, size)
<1> DEFINE new == NewEntry(k, size)
           rest == IF CanRead THEN Without(Fresh(file), k) ELSE <<>>
           s == <<new>> \o rest
<1>1. new \in FreshOnes /\ new \in Entries /\ new.key = k /\ new.put = puts + 1
  <2>1. clock \in 1..MaxClock /\ puts + 1 \in 1..MaxPuts
    BY PassageCacheAssumption DEF FileInv
  <2>2. new \in Entries /\ new.storedAt = clock /\ new.key = k /\ new.put = puts + 1
    BY <2>1 DEF NewEntry, Entries
  <2>3. clock \in Nat \ {0} /\ clock <= clock + Skew /\ clock - clock <= MaxAge
    BY <2>1, PassageCacheAssumption
  <2>4. IsFresh(new)
    BY <2>2, <2>3 DEF IsFresh
  <2> QED
    BY <2>2, <2>4 DEF FreshOnes
<1>2. Orderly(rest) /\ Range(rest) = Staying(k)
  <2>1. CASE CanRead
    <3>1. Orderly(Fresh(file)) /\ Range(Fresh(file)) = Range(file) \cap FreshOnes
      BY FreshAndWithout DEF FileInv
    <3>2. Orderly(Without(Fresh(file), k))
          /\ Range(Without(Fresh(file), k)) = {e \in Range(Fresh(file)) : e.key # k}
      BY <3>1, FreshAndWithout
    <3>3. {e \in Range(Fresh(file)) : e.key # k} = {e \in Range(file) \cap FreshOnes : e.key # k}
      BY <3>1 DEF FreshOnes
    <3> QED
      BY <2>1, <3>2, <3>3 DEF Staying
  <2>2. CASE ~CanRead
    <3>1. Orderly(<<>>) /\ Range(<<>>) = {}
      BY DEF Orderly, Range
    <3> QED
      BY <2>2, <3>1 DEF Staying
  <2> QED
    BY <2>1, <2>2
<1>3. \A e \in Staying(k) : e \in FreshOnes /\ e.key # k /\ e.put <= puts
  BY DEF Staying, FileInv
<1> HIDE DEF new, rest
<1>4. rest \in Seq(Entries) /\ Len(rest) \in Nat /\ Range(rest) = {rest[i] : i \in 1..Len(rest)}
  BY <1>2, OrderlyFacts
<1>5. s \in Seq(Entries) /\ Len(s) = Len(rest) + 1 /\ s[1] = new /\ \A i \in 2..Len(s) : s[i] = rest[i - 1]
  BY <1>1, <1>4
<1> HIDE DEF s
<1>6. \A i \in 2..Len(s) : i - 1 \in 1..Len(rest) /\ s[i] \in Staying(k)
  <2>1. \A i \in 2..Len(s) : i - 1 \in 1..Len(rest)
    BY <1>4, <1>5
  <2> QED
    BY <1>2, <1>4, <1>5, <2>1
<1>7. ASSUME NEW i \in 1..Len(s), NEW j \in 1..Len(s), i < j PROVE s[i].put > s[j].put /\ s[i].key # s[j].key
  <2>1. j \in 2..Len(s)
    BY <1>4, <1>5, <1>7
  <2>2. CASE i = 1
    <3>1. s[j] \in Staying(k) /\ s[j] \in Entries
      BY <1>5, <1>6, <2>1
    <3>2. s[j].put <= puts /\ s[j].key # k /\ s[j].put \in Nat /\ puts \in Nat
      BY <1>3, <3>1, EntryFacts DEF FileInv
    <3> QED
      BY <1>1, <1>5, <2>2, <3>2
  <2>3. CASE i # 1
    <3>1. i \in 2..Len(s) /\ i - 1 \in 1..Len(rest) /\ j - 1 \in 1..Len(rest) /\ i - 1 < j - 1
      BY <1>4, <1>5, <1>6, <1>7, <2>1, <2>3
    <3>2. rest[i - 1].put > rest[j - 1].put /\ rest[i - 1].key # rest[j - 1].key
      BY <1>2, <3>1 DEF Orderly
    <3>3. s[i] = rest[i - 1] /\ s[j] = rest[j - 1]
      BY <1>5, <2>1, <3>1
    <3> QED
      BY <3>2, <3>3
  <2> QED
    BY <2>2, <2>3
<1>8. Orderly(s)
  BY <1>5, <1>7 DEF Orderly
<1>9. Range(s) = {new} \cup Staying(k)
  <2>1. Range(s) = {s[i] : i \in 1..Len(s)}
    BY <1>8, OrderlyFacts
  <2>2. \A i \in 1..Len(s) : i = 1 \/ i \in 2..Len(s)
    BY <1>4, <1>5
  <2>3. Range(s) \subseteq {new} \cup Staying(k)
    BY <1>5, <1>6, <2>1, <2>2
  <2>4. new \in Range(s)
    <3>1. 1 \in 1..Len(s)
      BY <1>4, <1>5
    <3> QED
      BY <1>5, <2>1, <3>1
  <2>5. ASSUME NEW e \in Staying(k) PROVE e \in Range(s)
    <3>1. PICK i \in 1..Len(rest) : e = rest[i]
      BY <1>2, <1>4
    <3>2. i + 1 \in 2..Len(s) /\ i + 1 \in 1..Len(s) /\ (i + 1) - 1 = i
      BY <1>4, <1>5
    <3>3. s[i + 1] = e
      BY <1>5, <3>1, <3>2
    <3> QED
      BY <2>1, <3>2, <3>3
  <2> QED
    BY <2>3, <2>4, <2>5
<1>10. Fresh(s) = s
  <2>1. Range(s) \subseteq FreshOnes
    BY <1>1, <1>3, <1>9
  <2> QED
    BY <1>5, <2>1, KeptWhole DEF Fresh, FreshOnes
<1>11. Len(s) # 0
  BY <1>4, <1>5
<1> QED
  BY <1>1, <1>5, <1>8, <1>9, <1>10, <1>11 DEF s, new, rest, Replaced
\* What a put leaves in the file: the new entry, and as many of the others as
\* there is room for, from the front of the list.
LEMMA PutLeaves ==
  ASSUME FileInv, NEW k \in LookupKeys, NEW size \in Sizes, Put(k, size)
  PROVE  /\ Orderly(file') /\ damaged' = FALSE /\ FileBytes(file') <= MaxBytes /\ Len(file') <= MaxEntries
         /\ NewEntry(k, size) \in Range(file') /\ Range(file') \subseteq {NewEntry(k, size)} \cup Staying(k)
         /\ \E n \in 1..Len(Replaced(k, size)) : file' = SubSeq(Replaced(k, size), 1, n)
<1> DEFINE s == Replaced(k, size)
<1>1. /\ Orderly(s) /\ Len(s) # 0 /\ s[1] = NewEntry(k, size) /\ Fresh(s) = s
      /\ Range(s) = {NewEntry(k, size)} \cup Staying(k)
  BY ReplacedIs DEF Put
<1>2. Write(s)
  BY DEF Put
<1> HIDE DEF s
<1>3. /\ Orderly(file') /\ Range(file') \subseteq Range(s)
      /\ damaged' = FALSE /\ FileBytes(file') <= MaxBytes /\ Len(file') <= MaxEntries
  BY <1>1, <1>2, WriteLeaves
<1>4. PICK n \in 0..Len(s) : Bounded(s) = SubSeq(s, 1, n) /\ n # 0
  BY <1>1, BoundedIs
<1>5. file' = SubSeq(s, 1, n) /\ n \in 1..Len(s)
  <2>1. Len(s) \in Nat
    BY <1>1, OrderlyFacts
  <2> QED
    BY <1>2, <1>4, <2>1 DEF Write
<1>6. Range(file') = {s[i] : i \in 1..n}
  BY <1>1, <1>4, <1>5, BeginningOrderly
<1>7. 1 \in 1..n
  BY <1>5
<1>8. NewEntry(k, size) \in Range(file')
  BY <1>1, <1>6, <1>7
<1> QED
  BY <1>1, <1>3, <1>5, <1>8 DEF s

\* Every step keeps the file's invariant.
LEMMA FileStep == ASSUME FileInv, [Next]_vars PROVE FileInv'
<1>1. ASSUME NEW k \in LookupKeys, NEW size \in Sizes, Put(k, size) PROVE FileInv'
  <2>1. /\ Orderly(file') /\ damaged' = FALSE /\ FileBytes(file') <= MaxBytes /\ Len(file') <= MaxEntries
        /\ Range(file') \subseteq {NewEntry(k, size)} \cup Staying(k)
    BY <1>1, PutLeaves
  <2>2. puts' = puts + 1 /\ puts < MaxPuts /\ latest' = [latest EXCEPT ![k] = puts + 1] /\ clock' = clock
    BY <1>1 DEF Put
  <2>3. puts \in Nat /\ puts' \in 0..MaxPuts /\ MaxPuts \in Nat
    BY <2>2, PassageCacheAssumption DEF FileInv
  <2>4. latest' \in [LookupKeys -> 0..MaxPuts] /\ \A x \in LookupKeys : latest'[x] <= puts'
    BY <2>2, <2>3 DEF FileInv
  <2>5. ASSUME NEW e \in Range(file') PROVE e.put <= puts' /\ e.put = latest'[e.key]
    <3>1. CASE e = NewEntry(k, size)
      <4>1. e.key = k /\ e.put = puts + 1
        BY <3>1 DEF NewEntry
      <4> QED
        BY <2>2, <2>3, <4>1 DEF FileInv
    <3>2. CASE e \in Staying(k)
      <4>1. CanRead /\ e \in Range(file) /\ e.key # k
        BY <3>2 DEF Staying
      <4>2. e.put <= puts /\ e.put = latest[e.key]
        BY <4>1 DEF FileInv, CanRead
      <4>3. e.key \in LookupKeys /\ e.put \in Nat
        BY <4>1, OrderlyFacts, EntryFacts DEF FileInv
      <4> QED
        BY <2>2, <2>3, <4>1, <4>2, <4>3 DEF FileInv
    <3> QED
      BY <2>1, <3>1, <3>2
  <2> QED
    BY <2>1, <2>2, <2>3, <2>4, <2>5 DEF FileInv
<1>2. CASE PutFails
  <2>1. puts' \in 0..MaxPuts /\ puts <= puts' /\ puts \in Nat /\ puts' \in Nat
    BY <1>2, PassageCacheAssumption DEF PutFails, FileInv
  <2>2. UNCHANGED <<file, damaged, clock, latest>>
    BY <1>2 DEF PutFails
  <2>3. \A e \in Range(file) : e.put <= puts'
    <3>1. \A e \in Range(file) : e.put \in Nat
      BY OrderlyFacts, EntryFacts DEF FileInv
    <3> QED
      BY <2>1, <3>1 DEF FileInv
  <2>4. \A k \in LookupKeys : latest[k] <= puts'
    BY <2>1, PassageCacheAssumption DEF FileInv
  <2> QED
    BY <2>1, <2>2, <2>3, <2>4 DEF FileInv
<1>3. CASE Compact
  <2>1. Orderly(Fresh(file)) /\ Range(Fresh(file)) \subseteq Range(file)
    BY FreshAndWithout DEF FileInv
  <2>2. /\ Orderly(file') /\ Range(file') \subseteq Range(file)
        /\ damaged' = FALSE /\ FileBytes(file') <= MaxBytes /\ Len(file') <= MaxEntries
    BY <1>3, <2>1, WriteLeaves DEF Compact
  <2>3. ~damaged /\ UNCHANGED <<clock, puts, latest>>
    BY <1>3 DEF Compact, CanRead
  <2> QED
    BY <2>2, <2>3 DEF FileInv
<1>4. CASE SetClock
  BY <1>4 DEF SetClock, FileInv
<1>5. CASE Damage
  BY <1>5 DEF Damage, FileInv
<1>6. CASE UNCHANGED vars
  BY <1>6 DEF vars, FileInv
<1> QED
  BY <1>1, <1>2, <1>3, <1>4, <1>5, <1>6 DEF Next

\* The file's invariant holds from the start.
LEMMA FileInvariance == Spec => []FileInv
<1>1. ASSUME Init PROVE FileInv
  <2>1. Orderly(<<>>) /\ Range(<<>>) = {} /\ Len(<<>>) = 0
    BY DEF Orderly, Range
  <2>2. FileBytes(<<>>) <= MaxBytes
    <3>1. MaxBytes \in Nat /\ FileBytes(<<>>) = 0 + 1
      BY BytesOfFew, PassageCacheAssumption DEF FileBytes
    <3> QED
      BY <3>1, PassageCacheAssumption
  <2>3. 0 \in 0..MaxPuts /\ 0 <= MaxEntries
    BY PassageCacheAssumption
  <2>4. latest \in [LookupKeys -> 0..MaxPuts] /\ \A k \in LookupKeys : latest[k] <= puts
    BY <1>1, <2>3 DEF Init
  <2>5. damaged \in BOOLEAN /\ clock \in 1..MaxClock /\ puts \in 0..MaxPuts
    BY <1>1, <2>3 DEF Init
  <2>6. \A e \in Range(file) : e.put <= puts /\ e.put = latest[e.key]
    BY <1>1, <2>1 DEF Init
  <2> QED
    BY <1>1, <2>1, <2>2, <2>3, <2>4, <2>5, <2>6 DEF Init, FileInv
<1>2. FileInv /\ [Next]_vars => FileInv'
  BY FileStep
<1> QED
  BY <1>1, <1>2, PTL DEF Spec
-----------------------------------------------------------------------------
(* What the file promises. *)

\* Every variable keeps its type.
THEOREM CacheTyped == Spec => []TypeOK
<1>1. FileInv => TypeOK
  BY DEF FileInv, Orderly, TypeOK
<1> QED
  BY <1>1, FileInvariance, PTL

\* What is fresh of an orderly list has no key twice.
LEMMA NoDuplicates ==
  ASSUME NEW s, Orderly(s)
  PROVE  ~HasDuplicates(Fresh(s))
<1>1. Orderly(Fresh(s))
  BY FreshAndWithout
<1> QED
  BY <1>1 DEF Orderly, HasDuplicates

\* Every entry of the file is the latest put under its key, and read accepts
\* the file at every time of the clock, whatever was put, compacted, damaged or
\* refused before.
THEOREM EntriesStayCurrent == Spec => []EntriesAreCurrent
<1>1. ASSUME FileInv PROVE EntriesAreCurrent
  <2>1. LatestWins
    <3> SUFFICES ASSUME ~damaged, NEW i \in 1..Len(file) PROVE file[i].put = latest[file[i].key]
      BY DEF LatestWins
    <3>1. file[i] \in Range(file)
      BY <1>1, OrderlyFacts DEF FileInv
    <3> QED
      BY <1>1, <3>1 DEF FileInv
  <2>2. WrittenIsReadable
    <3>1. ~HasDuplicates(Fresh(file))
      BY <1>1, NoDuplicates DEF FileInv
    <3> QED
      BY <1>1, <3>1 DEF FileInv, WrittenIsReadable, WithinLimits
  <2> QED
    BY <2>1, <2>2 DEF EntriesAreCurrent
<1> QED
  BY <1>1, FileInvariance, PTL

\* Only a put says that a key has a later put, and only of its own key.
LEMMA PutsSay ==
  ASSUME FileInv, [Next]_vars, latest' # latest
  PROVE  \E k \in LookupKeys, size \in Sizes :
           /\ Put(k, size) /\ latest'[k] = puts + 1
           /\ \A x \in LookupKeys : latest'[x] # latest[x] <=> x = k
<1>1. PICK k \in LookupKeys, size \in Sizes : Put(k, size)
  BY DEF Next, PutFails, Compact, SetClock, Damage, vars
<1>2. latest' = [latest EXCEPT ![k] = puts + 1] /\ puts \in Nat
  BY <1>1, PassageCacheAssumption DEF Put, FileInv
<1>3. latest \in [LookupKeys -> 0..MaxPuts] /\ latest[k] <= puts /\ latest[k] \in Nat
  BY PassageCacheAssumption DEF FileInv
<1>4. latest'[k] = puts + 1 /\ \A x \in LookupKeys : x # k => latest'[x] = latest[x]
  BY <1>2, <1>3
<1>5. latest'[k] # latest[k]
  BY <1>2, <1>3, <1>4
<1> QED
  BY <1>1, <1>4, <1>5

\* A lookup right after a put finds what it stored.
LEMMA PutIsFound ==
  ASSUME FileInv, NEW k \in LookupKeys, NEW size \in Sizes, Put(k, size)
  PROVE  \E e \in Get(k)' : e.put = puts + 1
<1> DEFINE new == NewEntry(k, size)
<1>1. /\ Orderly(file') /\ damaged' = FALSE /\ FileBytes(file') <= MaxBytes /\ Len(file') <= MaxEntries
      /\ new \in Range(file')
  BY PutLeaves
<1>2. new \in FreshOnes
  BY ReplacedIs DEF Put
<1>3. new.key = k /\ new.put = puts + 1
  BY DEF NewEntry
<1> HIDE DEF new
<1>4. Fresh(file)' = Fresh(file')
  BY DEF Put, Fresh, IsFresh
<1>5. Orderly(Fresh(file')) /\ Range(Fresh(file')) = Range(file') \cap FreshOnes
  BY <1>1, FreshAndWithout
<1>6. ~HasDuplicates(Fresh(file')) /\ new \in Range(Fresh(file'))
  BY <1>1, <1>2, <1>5, NoDuplicates
<1>7. CanRead'
  <2>1. ~HasDuplicates(Fresh(file))'
    BY <1>4, <1>6 DEF HasDuplicates
  <2> QED
    BY <1>1, <2>1 DEF CanRead, WithinLimits, FileBytes
<1>8. new \in Get(k)'
  BY <1>3, <1>4, <1>6, <1>7 DEF Get
<1> QED
  BY <1>3, <1>8

\* An entry that is not in the file any more after a put was put before every
\* entry that is, unless it was of the key that was put.
LEMMA OldestGoFirst ==
  ASSUME FileInv, CanRead, NEW k \in LookupKeys, NEW size \in Sizes, Put(k, size),
         NEW e \in Range(file'), NEW f \in Range(Fresh(file)), f \notin Range(file'), f.key # k
  PROVE  e.put > f.put
<1> DEFINE s == Replaced(k, size)
<1>1. Orderly(s) /\ Range(s) = {NewEntry(k, size)} \cup Staying(k)
  BY ReplacedIs DEF Put
<1>2. PICK n \in 1..Len(s) : file' = SubSeq(s, 1, n)
  BY PutLeaves
<1> HIDE DEF s
<1>3. Len(s) \in Nat /\ Range(s) = {s[i] : i \in 1..Len(s)}
  BY <1>1, OrderlyFacts
<1>4. Range(file') = {s[i] : i \in 1..n}
  <2>1. n \in 0..Len(s)
    BY <1>3
  <2> QED
    BY <1>1, <1>2, <2>1, BeginningOrderly
<1>5. f \in Range(s)
  <2>1. Range(Fresh(file)) = Range(file) \cap FreshOnes
    BY FreshAndWithout DEF FileInv
  <2> QED
    BY <1>1, <2>1 DEF Staying
<1>6. PICK i \in 1..n : e = s[i]
  BY <1>4
<1>7. PICK j \in 1..Len(s) : f = s[j]
  BY <1>3, <1>5
<1>8. j \notin 1..n
  BY <1>4, <1>7
<1>9. i \in 1..Len(s) /\ i < j
  BY <1>3, <1>8
<1> QED
  BY <1>1, <1>6, <1>7, <1>9 DEF Orderly

\* A put keeps what it stores, even into a file that is full or could not be
\* read, and gives up what was stored longest ago.
THEOREM PutsAreRight == Spec => PutIsRight
<1>1. ASSUME FileInv, [Next]_vars
      PROVE  [\A k \in LookupKeys :
                latest'[k] # latest[k] => \E e \in Get(k)' : e.put = latest'[k]]_vars
  <2> SUFFICES ASSUME NEW x \in LookupKeys, latest'[x] # latest[x]
               PROVE  \E e \in Get(x)' : e.put = latest'[x]
    OBVIOUS
  <2>1. PICK k \in LookupKeys, size \in Sizes :
          /\ Put(k, size) /\ latest'[k] = puts + 1
          /\ \A y \in LookupKeys : latest'[y] # latest[y] <=> y = k
    BY <1>1, PutsSay
  <2>2. x = k
    BY <2>1
  <2>3. \E e \in Get(k)' : e.put = puts + 1
    BY <1>1, <2>1, PutIsFound
  <2> QED
    BY <2>1, <2>2, <2>3
<1>2. ASSUME FileInv, [Next]_vars
      PROVE  [CanRead /\ latest' # latest =>
                \A e, f \in Range(Fresh(file)) :
                  e \in Range(file') /\ f \notin Range(file') =>
                    e.put > f.put \/ latest'[f.key] # latest[f.key]]_vars
  <2> SUFFICES ASSUME CanRead, latest' # latest, NEW e, NEW f \in Range(Fresh(file)),
                      e \in Range(file'), f \notin Range(file'), latest'[f.key] = latest[f.key]
               PROVE  e.put > f.put
    OBVIOUS
  <2>1. PICK k \in LookupKeys, size \in Sizes :
          /\ Put(k, size) /\ latest'[k] = puts + 1
          /\ \A y \in LookupKeys : latest'[y] # latest[y] <=> y = k
    BY <1>1, <1>2, PutsSay
  <2>2. f.key # k
    BY <2>1
  <2> QED
    BY <1>2, <2>1, <2>2, OldestGoFirst
<1>3. []FileInv /\ [][Next]_vars => StoredIsFound
  BY <1>1, PTL DEF StoredIsFound
<1>4. []FileInv /\ [][Next]_vars => OldestGivesWay
  BY <1>2, PTL DEF OldestGivesWay
<1> QED
  BY <1>3, <1>4, FileInvariance, PTL DEF Spec, PutIsRight
-----------------------------------------------------------------------------
(* The file as a PassageStore. *)

\* What the controller may be served.
Served == IF damaged THEN {} ELSE {[key |-> e.key, value |-> e.put] : e \in Range(file)}

\* Every step is a put of the store, forgets some of it or leaves it alone.
LEMMA StoreStep ==
  ASSUME FileInv, [Next]_vars
  PROVE  \/ Served' \subseteq Served
         \/ \E e \in Served' :
              /\ e \in [key : LookupKeys, value : 1..MaxPuts]
              /\ Served' \subseteq {f \in Served : f.key # e.key} \cup {e}
<1>1. ASSUME NEW k \in LookupKeys, NEW size \in Sizes, Put(k, size)
      PROVE  \E e \in Served' :
               /\ e \in [key : LookupKeys, value : 1..MaxPuts]
               /\ Served' \subseteq {f \in Served : f.key # e.key} \cup {e}
  <2> DEFINE new == NewEntry(k, size)
             e == [key |-> k, value |-> puts + 1]
  <2>1. new \in Range(file') /\ Range(file') \subseteq {new} \cup Staying(k) /\ damaged' = FALSE
    BY <1>1, PutLeaves
  <2>2. new.key = k /\ new.put = puts + 1
    BY DEF NewEntry
  <2> HIDE DEF new
  <2>3. e \in Served' /\ Served' = {[key |-> x.key, value |-> x.put] : x \in Range(file')}
    BY <2>1, <2>2 DEF Served
  <2>4. puts + 1 \in 1..MaxPuts
    BY <1>1, PassageCacheAssumption DEF Put, FileInv
  <2>5. ASSUME NEW x \in Staying(k)
        PROVE  [key |-> x.key, value |-> x.put] \in {f \in Served : f.key # k}
    BY <2>5 DEF Staying, CanRead, Served
  <2>6. Served' \subseteq {f \in Served : f.key # k} \cup {e}
    BY <2>1, <2>2, <2>3, <2>5
  <2> QED
    BY <2>3, <2>4, <2>6
<1>2. CASE PutFails \/ SetClock \/ UNCHANGED vars
  BY <1>2 DEF PutFails, SetClock, vars, Served
<1>3. CASE Compact
  <2>1. Orderly(Fresh(file)) /\ Range(Fresh(file)) \subseteq Range(file)
    BY FreshAndWithout DEF FileInv
  <2>2. Range(file') \subseteq Range(file) /\ damaged' = FALSE /\ ~damaged
    BY <1>3, <2>1, WriteLeaves DEF Compact, CanRead
  <2> QED
    BY <2>2 DEF Served
<1>4. CASE Damage
  BY <1>4 DEF Damage, Served
<1> QED
  BY <1>1, <1>2, <1>3, <1>4 DEF Next

\* The file implements the store: what was replaced never comes back, and
\* nothing is served under a key it was not stored under, however files are
\* damaged, puts refused and the clock set.
THEOREM CacheIsAStore == Spec => StoreSpec
<1>1. Init => Store!Init
  BY DEF Init, Store!Init, Range
<1>2. FileInv /\ [Next]_vars => [Store!Next]_Served
  BY StoreStep DEF Store!Next, Store!Forget, Store!Put, Store!Entries, Served
<1> QED
  BY <1>1, <1>2, FileInvariance, PTL DEF Spec, StoreSpec, Store!Spec, Served

-----------------------------------------------------------------------------
(* Passages. *)

\* Characters, and what is not among the letters.
LEMMA Characters ==
  /\ Space \in Nat /\ Space \notin {c \in Nat : c > Space}
  /\ \A n \in Numbers \cup {0} : n \in Nat /\ n < Space /\ n \notin {c \in Nat : c > Space}
  /\ \A t \in Texts : t \in Seq(Nat) /\ \A i \in 1..Len(t) : t[i] \in {c \in Nat : c > Space}
<1>1. Space \in Nat \ {0} /\ Numbers \subseteq 1..Space - 1
  BY ReadingAssumption
<1>2. \A n \in Numbers \cup {0} : n \in Nat /\ n < Space
  BY <1>1
<1>3. ASSUME NEW t \in Texts PROVE t \in Seq(Nat) /\ \A i \in 1..Len(t) : t[i] \in {c \in Nat : c > Space}
  <2>1. t \in Seq(Nat) /\ \A i \in 1..Len(t) : t[i] > Space
    BY ReadingAssumption
  <2> QED
    BY <2>1
<1> QED
  BY <1>1, <1>2, <1>3

\* The texts of the verses of a passage, and their labels.
LEMMA TextsType ==
  ASSUME NEW vs \in Seq(Verse)
  PROVE  /\ TextsOf(vs) \in Seq(Texts) /\ TextsOf(vs) \in Seq(Seq(Nat)) /\ Len(TextsOf(vs)) = Len(vs)
         /\ Labelled(vs) \in Seq(Seq(Nat)) /\ Len(Labelled(vs)) = Len(vs)
         /\ FlattenSeq(TextsOf(vs)) \in Seq(Nat)
<1>1. ASSUME NEW i \in 1..Len(vs)
      PROVE  vs[i].t \in Texts /\ vs[i].t \in Seq(Nat) /\ <<vs[i].n>> \o vs[i].t \in Seq(Nat)
  <2>1. vs[i] \in Verse
    OBVIOUS
  <2>2. vs[i].t \in Texts /\ vs[i].t \in Seq(Nat) /\ vs[i].n \in Nat
    BY <2>1, Characters DEF Verse
  <2> QED
    BY <2>2
<1>2. TextsOf(vs) \in Seq(Texts) /\ TextsOf(vs) \in Seq(Seq(Nat)) /\ Len(TextsOf(vs)) = Len(vs)
  BY <1>1 DEF TextsOf
<1>3. Labelled(vs) \in Seq(Seq(Nat)) /\ Len(Labelled(vs)) = Len(vs)
  BY <1>1 DEF Labelled
<1> QED
  BY <1>2, <1>3, FlattenType

\* One more verse.
LEMMA TextsAppend ==
  ASSUME NEW vs \in Seq(Verse), NEW v \in Verse
  PROVE  /\ FlattenSeq(TextsOf(Append(vs, v))) = FlattenSeq(TextsOf(vs)) \o v.t
         /\ FlattenSeq(TextsOf(vs)) \in Seq(Nat)
<1> DEFINE u == Append(vs, v)
           ts == TextsOf(vs)
<1>1. v.t \in Seq(Nat)
  BY Characters DEF Verse
<1>2. /\ Len(vs) \in Nat /\ Len(u) = Len(vs) + 1
      /\ u[Len(vs) + 1] = v /\ \A i \in 1..Len(vs) : u[i] = vs[i]
  OBVIOUS
<1>3. ts \in Seq(Seq(Nat)) /\ Len(ts) = Len(vs) /\ \A i \in 1..Len(vs) : ts[i] = vs[i].t
  BY TextsType DEF TextsOf
<1> HIDE DEF u, ts
<1>4. ASSUME NEW i \in 1..Len(vs) + 1 PROVE u[i].t = IF i = Len(vs) + 1 THEN v.t ELSE ts[i]
  <2>1. i = Len(vs) + 1 \/ (i \in 1..Len(vs) /\ i # Len(vs) + 1)
    BY <1>2
  <2> QED
    BY <1>2, <1>3, <2>1
<1>5. TextsOf(u) = [i \in 1..Len(ts) + 1 |-> IF i = Len(ts) + 1 THEN v.t ELSE ts[i]]
  BY <1>2, <1>3, <1>4 DEF TextsOf
<1>6. TextsOf(u) = Append(ts, v.t)
  BY <1>1, <1>3, <1>5, Appended
<1>7. FlattenSeq(ts) \in Seq(Nat)
  BY <1>3, FlattenType
<1>8. FlattenSeq(Append(ts, v.t)) = FlattenSeq(ts) \o v.t
  BY <1>1, <1>3, <1>7, FlattenAppend
<1> QED
  BY <1>6, <1>7, <1>8 DEF u, ts

\* The letters of a text are its own, those of a label with it too.
LEMMA LettersOfText ==
  ASSUME NEW t \in Texts
  PROVE  Letters(t) = t /\ \A n \in Numbers \cup {0} \cup {Space} : Letters(<<n>> \o t) = t
<1> DEFINE L == {c \in Nat : c > Space}
<1>1. t \in Seq(Nat) /\ \A i \in 1..Len(t) : t[i] \in L
  BY Characters
<1>2. Range(t) \subseteq L
  BY <1>1 DEF Range
<1>3. Kept(t, L) = t
  BY <1>1, <1>2, KeptWhole
<1>4. ASSUME NEW n \in Numbers \cup {0} \cup {Space} PROVE Letters(<<n>> \o t) = t
  <2>1. n \in Nat /\ n \notin L
    BY Characters
  <2>2. Kept(<<n>> \o t, L) = Kept(t, L)
    <3> HIDE DEF L
    <3> QED
      BY <1>1, <2>1, KeptBehind
  <2> QED
    BY <1>3, <2>2 DEF Letters
<1> QED
  BY <1>3, <1>4 DEF Letters

\* The letters of two texts, one after the other.
LEMMA LettersAcross ==
  ASSUME NEW s \in Seq(Nat), NEW t \in Seq(Nat)
  PROVE  Letters(s \o t) = Letters(s) \o Letters(t)
<1> DEFINE L == {c \in Nat : c > Space}
<1>1. Kept(s \o t, L) = Kept(s, L) \o Kept(t, L)
  <2> HIDE DEF L
  <2> QED
    BY KeptAcross
<1> QED
  BY <1>1 DEF Letters

\* Joined texts have the letters of each, and spaces between.
LEMMA LettersJoined ==
  ASSUME NEW ts \in Seq(Seq(Nat))
  PROVE  /\ Joined(ts) \in Seq(Nat)
         /\ Letters(Joined(ts)) = FlattenSeq([i \in 1..Len(ts) |-> Letters(ts[i])])
<1> DEFINE spaced == [i \in 1..Len(ts) |-> IF i = 1 THEN ts[i] ELSE <<Space>> \o ts[i]]
           L == {c \in Nat : c > Space}
<1>1. \A i \in 1..Len(ts) : ts[i] \in Seq(Nat) /\ <<Space>> \o ts[i] \in Seq(Nat)
  BY Characters
<1>2. spaced \in Seq(Seq(Nat)) /\ Len(spaced) = Len(ts)
  BY <1>1
<1>3. ASSUME NEW i \in 1..Len(ts) PROVE Kept(spaced[i], L) = Kept(ts[i], L)
  <2>1. Kept(<<Space>> \o ts[i], L) = Kept(ts[i], L)
    BY <1>1, Characters, KeptBehind
  <2>2. spaced[i] = ts[i] \/ spaced[i] = <<Space>> \o ts[i]
    OBVIOUS
  <2> HIDE DEF spaced, L
  <2> QED
    BY <2>1, <2>2
<1>4. Joined(ts) = FlattenSeq(spaced)
  BY DEF Joined
<1> HIDE DEF spaced, L
<1>5. FlattenSeq(spaced) \in Seq(Nat)
  BY <1>2, FlattenType
<1>6. Kept(FlattenSeq(spaced), L) = FlattenSeq([i \in 1..Len(spaced) |-> Kept(spaced[i], L)])
  BY <1>2, KeptFlattened
<1>7. [i \in 1..Len(spaced) |-> Kept(spaced[i], L)] = [i \in 1..Len(ts) |-> Kept(ts[i], L)]
  BY <1>2, <1>3
<1> QED
  BY <1>4, <1>5, <1>6, <1>7 DEF Letters, L

\* A joined text consists of the characters of the texts, and of spaces.
LEMMA JoinedOf ==
  ASSUME NEW ts \in Seq(Seq(Nat)), NEW B, Space \in B, \A i \in 1..Len(ts) : ts[i] \in Seq(B)
  PROVE  Joined(ts) \in Seq(B)
<1> DEFINE spaced == [i \in 1..Len(ts) |-> IF i = 1 THEN ts[i] ELSE <<Space>> \o ts[i]]
<1>1. \A i \in 1..Len(ts) : ts[i] \in Seq(B) /\ <<Space>> \o ts[i] \in Seq(B)
  OBVIOUS
<1>2. spaced \in Seq(Seq(B))
  BY <1>1
<1>3. Joined(ts) = FlattenSeq(spaced)
  BY DEF Joined
<1> HIDE DEF spaced
<1> QED
  BY <1>2, <1>3, FlattenType

\* A passage without the verses that have no text has the same text.
LEMMA TextsKept ==
  ASSUME NEW vs \in Seq(Verse), NEW T, \A v \in Verse : v.t # <<>> => v \in T
  PROVE  /\ Kept(vs, T) \in Seq(Verse)
         /\ FlattenSeq(TextsOf(Kept(vs, T))) = FlattenSeq(TextsOf(vs))
<1> DEFINE S == {s \in Seq(Verse) : FlattenSeq(TextsOf(Kept(s, T))) = FlattenSeq(TextsOf(s))}
<1>1. <<>> \in S
  <2>1. <<>> \in Seq(Verse) /\ Range(<<>>) = {}
    BY DEF Range
  <2>2. Kept(<<>>, T) = <<>>
    BY <2>1, KeptWhole
  <2> QED
    BY <2>1, <2>2
<1>2. ASSUME NEW s \in Seq(Verse), s \in S, NEW v \in Verse PROVE Append(s, v) \in S
  <2> DEFINE k == Kept(s, T)
  <2>1. k \in Seq(Verse)
    BY KeptElements
  <2>2. Kept(Append(s, v), T) = IF v \in T THEN Append(k, v) ELSE k
    BY KeptAppend DEF Further
  <2>3. Append(s, v) \in Seq(Verse)
    OBVIOUS
  <2>4. FlattenSeq(TextsOf(k)) = FlattenSeq(TextsOf(s))
    BY <1>2
  <2> HIDE DEF k
  <2>5. ASSUME NEW r \in Seq(Verse)
        PROVE  /\ FlattenSeq(TextsOf(Append(r, v))) = FlattenSeq(TextsOf(r)) \o v.t
               /\ FlattenSeq(TextsOf(r)) \in Seq(Nat)
    BY TextsAppend
  <2>6. CASE v \in T
    BY <2>1, <2>2, <2>3, <2>4, <2>5, <2>6
  <2>7. CASE v \notin T
    <3>1. v.t = <<>>
      BY <2>7
    <3> DEFINE a == FlattenSeq(TextsOf(s))
    <3>2. a \o <<>> = a
      <4>1. a \in Seq(Nat)
        BY <2>5
      <4> HIDE DEF a
      <4> QED
        BY <4>1
    <3> QED
      BY <2>2, <2>3, <2>4, <2>5, <2>7, <3>1, <3>2
  <2> QED
    BY <2>6, <2>7
<1>3. vs \in S
  <2> HIDE DEF S
  <2> QED
    BY <1>1, <1>2, ListInduction
<1> QED
  BY <1>3, KeptElements
\* The verse in the focus is the first that has the number.
LEMMA FocusIsFirst ==
  ASSUME NEW vs \in Seq(Verse), NEW focal \in Nat, InFocus(vs, focal) # {}
  PROVE  /\ FocusOf(InFocus(vs, focal)) \in 1..Len(vs)
         /\ vs[FocusOf(InFocus(vs, focal))].n = focal
         /\ \A j \in 1..FocusOf(InFocus(vs, focal)) - 1 : vs[j].n # focal
<1> DEFINE found == InFocus(vs, focal)
           i == FocusOf(found)
<1>1. Len(vs) \in Nat /\ found \in SUBSET Nat /\ found = {j \in 1..Len(vs) : vs[j].n = focal}
  BY DEF InFocus
<1>2. \E j \in found : \A k \in found : j <= k
  BY <1>1, LeastIsThere
<1>3. i \in found /\ \A k \in found : i <= k
  BY <1>2 DEF FocusOf
<1> HIDE DEF i, found
<1>4. i \in 1..Len(vs) /\ vs[i].n = focal
  BY <1>1, <1>3
<1>5. ASSUME NEW j \in 1..i - 1 PROVE vs[j].n # focal
  <2>1. j \in 1..Len(vs) /\ ~(i <= j)
    BY <1>1, <1>4
  <2> QED
    BY <1>1, <1>3, <2>1
<1> QED
  BY <1>4, <1>5 DEF i, found

\* The letters of labelled verses that follow one another.
LEMMA LettersOfLabels ==
  ASSUME NEW vs \in Seq(Verse), NEW m \in Nat, NEW n \in Nat, 1 <= m, m <= n + 1, n <= Len(vs)
  PROVE  /\ SubSeq(Labelled(vs), m, n) \in Seq(Seq(Nat)) /\ SubSeq(TextsOf(vs), m, n) \in Seq(Seq(Nat))
         /\ Letters(Joined(SubSeq(Labelled(vs), m, n))) = FlattenSeq(SubSeq(TextsOf(vs), m, n))
<1> DEFINE all == Labelled(vs)
           ts == TextsOf(vs)
           l == SubSeq(all, m, n)
           s == SubSeq(ts, m, n)
<1>1. /\ all \in Seq(Seq(Nat)) /\ ts \in Seq(Texts) /\ ts \in Seq(Seq(Nat))
      /\ Len(all) = Len(vs) /\ Len(ts) = Len(vs) /\ Len(vs) \in Nat
  BY TextsType
<1>2. \A i \in 1..Len(vs) : Letters(all[i]) = ts[i]
  <2>1. ASSUME NEW i \in 1..Len(vs) PROVE Letters(all[i]) = ts[i]
    <3>1. vs[i] \in Verse
      OBVIOUS
    <3>2. vs[i].n \in Numbers \cup {0} \cup {Space} /\ vs[i].t \in Texts
      BY <3>1 DEF Verse
    <3>3. all[i] = <<vs[i].n>> \o vs[i].t /\ ts[i] = vs[i].t
      BY DEF Labelled, TextsOf
    <3> HIDE DEF all, ts
    <3> QED
      BY <3>2, <3>3, LettersOfText
  <2> QED
    BY <2>1
<1> HIDE DEF all, ts
<1>3. /\ l \in Seq(Seq(Nat)) /\ Len(l) = n - m + 1 /\ \A i \in 1..n - m + 1 : l[i] = all[m + i - 1]
      /\ s \in Seq(Seq(Nat)) /\ Len(s) = n - m + 1 /\ \A i \in 1..n - m + 1 : s[i] = ts[m + i - 1]
  BY <1>1
<1> HIDE DEF l, s
<1>4. ASSUME NEW i \in 1..n - m + 1 PROVE Letters(l[i]) = s[i]
  <2>1. m + i - 1 \in 1..Len(vs)
    BY <1>1
  <2> QED
    BY <1>2, <1>3, <2>1
<1>5. s = [i \in 1..Len(l) |-> Letters(l[i])]
  <2>1. s = [i \in 1..n - m + 1 |-> s[i]]
    BY <1>3
  <2> QED
    BY <1>3, <1>4, <2>1
<1>6. Letters(Joined(l)) = FlattenSeq([i \in 1..Len(l) |-> Letters(l[i])])
  BY <1>3, LettersJoined
<1> QED
  BY <1>3, <1>5, <1>6 DEF l, s, all, ts

\* What the passage around a focus is.
IsAround(p, vs, focal) ==
  /\ p \in Seq(Seq(Nat)) /\ Len(p) = 3
  /\ Letters(Whole(p)) = FlattenSeq(TextsOf(vs))
  /\ IF InFocus(vs, focal) # {} THEN p[2][1] = focal /\ ~Contains(p[1], focal)
                                ELSE p[1] = <<>> /\ p[3] = <<>>

\* With a verse in the focus.
LEMMA AroundFocus ==
  ASSUME NEW vs \in Seq(Verse), NEW focal \in Numbers \cup {0}, NEW whole, InFocus(vs, focal) # {}
  PROVE  IsAround(Around(vs, focal, whole), vs, focal)
<1> DEFINE i == FocusOf(InFocus(vs, focal))
           all == Labelled(vs)
           ts == TextsOf(vs)
           before == Joined(SubSeq(all, 1, i - 1))
           after == Joined(SubSeq(all, i + 1, Len(vs)))
           p == <<before, all[i], after>>
           B == Nat \ {focal}
<1>1. Around(vs, focal, whole) = p
  BY DEF Around
<1>2. focal \in Nat /\ focal < Space /\ Space \in Nat
  BY Characters
<1>3. i \in 1..Len(vs) /\ vs[i].n = focal /\ \A j \in 1..i - 1 : vs[j].n # focal
  BY <1>2, FocusIsFirst
<1>4. /\ all \in Seq(Seq(Nat)) /\ ts \in Seq(Texts) /\ ts \in Seq(Seq(Nat))
      /\ Len(all) = Len(vs) /\ Len(ts) = Len(vs) /\ Len(vs) \in Nat
  BY TextsType
<1>5. \A j \in 1..Len(vs) : all[j] = <<vs[j].n>> \o vs[j].t /\ ts[j] = vs[j].t /\ vs[j] \in Verse
  BY DEF Labelled, TextsOf
<1> HIDE DEF i, all, ts
<1>6. i - 1 \in Nat /\ i + 1 \in Nat /\ 1 <= i /\ i - 1 <= Len(vs) /\ i + 1 <= Len(vs) + 1 /\ Len(vs) \in Nat /\ i \in Nat
  BY <1>3, <1>4
<1>7. /\ SubSeq(all, 1, i - 1) \in Seq(Seq(Nat)) /\ SubSeq(ts, 1, i - 1) \in Seq(Seq(Nat))
      /\ Letters(before) = FlattenSeq(SubSeq(ts, 1, i - 1))
  <2>1. 1 \in Nat /\ 1 <= 1 /\ 1 <= (i - 1) + 1
    BY <1>6
  <2> QED
    BY <1>6, <2>1, LettersOfLabels DEF all, ts
<1>8. /\ SubSeq(all, i + 1, Len(vs)) \in Seq(Seq(Nat)) /\ SubSeq(ts, i + 1, Len(vs)) \in Seq(Seq(Nat))
      /\ Letters(after) = FlattenSeq(SubSeq(ts, i + 1, Len(vs)))
  <2> DEFINE m == i + 1
             n == Len(vs)
  <2>1. m \in Nat /\ n \in Nat /\ 1 <= m /\ m <= n + 1 /\ n <= Len(vs)
    BY <1>6
  <2> HIDE DEF m, n
  <2>2. /\ SubSeq(all, m, n) \in Seq(Seq(Nat)) /\ SubSeq(ts, m, n) \in Seq(Seq(Nat))
        /\ Letters(Joined(SubSeq(all, m, n))) = FlattenSeq(SubSeq(ts, m, n))
    BY <2>1, LettersOfLabels DEF all, ts
  <2> QED
    BY <2>2 DEF m, n
<1>9. before \in Seq(Nat) /\ after \in Seq(Nat) /\ all[i] \in Seq(Nat) /\ ts[i] \in Seq(Nat)
  <2>1. before \in Seq(Nat) /\ after \in Seq(Nat)
    BY <1>7, <1>8, LettersJoined
  <2>2. all[i] \in Seq(Nat) /\ ts[i] \in Seq(Nat)
    BY <1>3, <1>4
  <2> QED
    BY <2>1, <2>2
<1>10. Letters(all[i]) = ts[i] /\ all[i][1] = focal
  <2>1. vs[i].n \in Numbers \cup {0} \cup {Space} /\ vs[i].t \in Texts
    BY <1>3, <1>5 DEF Verse
  <2>2. Letters(all[i]) = ts[i]
    BY <1>3, <1>5, <2>1, LettersOfText
  <2>3. vs[i].t \in Seq(Nat)
    BY <2>1, Characters
  <2>4. (<<vs[i].n>> \o vs[i].t)[1] = vs[i].n
    <3> DEFINE t == vs[i].t
               n == vs[i].n
    <3>1. t \in Seq(Nat) /\ n \in Nat
      BY <1>2, <1>3, <2>3
    <3> HIDE DEF t, n
    <3>2. (<<n>> \o t)[1] = n
      BY <3>1
    <3> QED
      BY <3>2 DEF t, n
  <2> QED
    BY <1>3, <1>5, <2>2, <2>4
<1>11. ~Contains(before, focal)
  <2>1. ASSUME NEW j \in 1..Len(SubSeq(all, 1, i - 1)) PROVE SubSeq(all, 1, i - 1)[j] \in Seq(B)
    <3>1. j \in 1..i - 1 /\ j \in 1..Len(vs) /\ SubSeq(all, 1, i - 1)[j] = all[j]
      BY <1>3, <1>4, <1>6
    <3>2. vs[j].n \in Nat /\ vs[j].n # focal /\ vs[j].t \in Texts
      BY <1>3, <1>5, <3>1, Characters DEF Verse
    <3>3. vs[j].t \in Seq(Nat) /\ \A k \in 1..Len(vs[j].t) : vs[j].t[k] > Space /\ vs[j].t[k] \in Nat
      BY <3>2, Characters
    <3> DEFINE t == vs[j].t
               n == vs[j].n
    <3>4. t \in Seq(B)
      <4> HIDE DEF t
      <4>1. t \in Seq(Nat) /\ \A k \in 1..Len(t) : t[k] > Space /\ t[k] \in Nat
        BY <3>3 DEF t
      <4>2. \A k \in 1..Len(t) : t[k] \in B
        BY <1>2, <4>1
      <4> HIDE DEF B
      <4> QED
        BY <4>1, <4>2, ElementsIn
    <3>5. n \in B
      BY <3>2
    <3> HIDE DEF t, n, B
    <3>6. <<n>> \o t \in Seq(B)
      BY <3>4, <3>5
    <3> QED
      BY <1>5, <3>1, <3>6 DEF t, n
  <2>2. Space \in B
    BY <1>2
  <2>3. before \in Seq(B)
    <3> HIDE DEF B
    <3> QED
      BY <1>7, <2>1, <2>2, JoinedOf
  <2> HIDE DEF before
  <2>4. \A j \in 1..Len(before) : before[j] # focal
    BY <2>3
  <2> QED
    BY <2>4 DEF Contains
<1>12. Letters(Whole(p)) = FlattenSeq(TextsOf(vs))
  <2> DEFINE one == <<ts[i]>>
             t1 == SubSeq(ts, 1, i - 1)
             t3 == SubSeq(ts, i + 1, Len(vs))
             a == all[i]
  <2> HIDE DEF before, after
  <2>1. Whole(p) = (before \o a) \o after
    BY DEF Whole
  <2>2. before \o a \in Seq(Nat)
    <3> HIDE DEF a
    <3>1. a \in Seq(Nat)
      BY <1>9 DEF a
    <3> QED
      BY <1>9, <3>1
  <2>3. Letters((before \o a) \o after) = Letters(before \o a) \o Letters(after)
    BY <1>9, <2>2, LettersAcross
  <2>4. Letters(before \o a) = Letters(before) \o Letters(a)
    BY <1>9, LettersAcross
  <2>5. ts = (t1 \o one) \o t3
    BY <1>3, <1>4, SplitAt
  <2>6. one \in Seq(Seq(Nat)) /\ FlattenSeq(one) = ts[i]
    <3> DEFINE x == ts[i]
    <3>1. x \in Seq(Nat)
      BY <1>9
    <3> HIDE DEF x
    <3>2. <<>> \in Seq(Seq(Nat)) /\ FlattenSeq(<<>>) = <<>> /\ <<>> \in Seq(Nat)
      BY FlattenType
    <3>3. FlattenSeq(Append(<<>>, x)) = FlattenSeq(<<>>) \o x
      BY <3>1, <3>2, FlattenAppend
    <3>4. Append(<<>>, x) = <<x>> /\ <<>> \o x = x
      BY <3>1
    <3>5. <<x>> \in Seq(Seq(Nat))
      BY <3>1
    <3> QED
      BY <3>2, <3>3, <3>4, <3>5 DEF x
  <2> HIDE DEF one, t1, t3
  <2>7. t1 \in Seq(Seq(Nat)) /\ t3 \in Seq(Seq(Nat)) /\ t1 \o one \in Seq(Seq(Nat))
    <3>1. t1 \in Seq(Seq(Nat)) /\ t3 \in Seq(Seq(Nat))
      BY <1>7, <1>8 DEF t1, t3
    <3> QED
      BY <2>6, <3>1
  <2>8. /\ FlattenSeq((t1 \o one) \o t3) = FlattenSeq(t1 \o one) \o FlattenSeq(t3)
        /\ FlattenSeq(t1 \o one) = FlattenSeq(t1) \o FlattenSeq(one)
    BY <2>6, <2>7, FlattenAcross
  <2> QED
    BY <1>7, <1>8, <1>10, <2>1, <2>3, <2>4, <2>5, <2>6, <2>8 DEF t1, t3, ts
<1>13. p \in Seq(Seq(Nat)) /\ Len(p) = 3 /\ p[1] = before /\ p[2] = all[i]
  <2> HIDE DEF before, after
  <2> QED
    BY <1>9
<1> HIDE DEF p, before
<1> QED
  BY <1>1, <1>10, <1>11, <1>12, <1>13 DEF IsAround
\* Without one.
LEMMA AroundNone ==
  ASSUME NEW vs \in Seq(Verse), NEW focal, NEW whole \in Seq(Nat), InFocus(vs, focal) = {},
         Letters(whole) = FlattenSeq(TextsOf(vs))
  PROVE  IsAround(Around(vs, focal, whole), vs, focal)
<1> DEFINE p == <<<<>>, whole, <<>>>>
<1>1. Around(vs, focal, whole) = p
  BY DEF Around
<1>2. p \in Seq(Seq(Nat)) /\ Len(p) = 3 /\ p[1] = <<>> /\ p[3] = <<>>
  <2>1. <<>> \in Seq(Nat)
    OBVIOUS
  <2> QED
    BY <2>1
<1>3. Whole(p) = whole
  BY DEF Whole
<1> HIDE DEF p
<1> QED
  BY <1>1, <1>2, <1>3 DEF IsAround

\* The text of a passage is all in the part in focus, or in the three parts.
LEMMA LettersOfAll ==
  ASSUME NEW vs \in Seq(Verse)
  PROVE  /\ Joined(Labelled(vs)) \in Seq(Nat)
         /\ Letters(Joined(Labelled(vs))) = FlattenSeq(TextsOf(vs))
<1> DEFINE n == Len(vs)
<1>1. 1 \in Nat /\ n \in Nat /\ 1 <= 1 /\ 1 <= n + 1 /\ n <= Len(vs)
  OBVIOUS
<1>2. /\ Labelled(vs) \in Seq(Seq(Nat)) /\ Len(Labelled(vs)) = n
      /\ TextsOf(vs) \in Seq(Seq(Nat)) /\ Len(TextsOf(vs)) = n
  BY TextsType
<1> DEFINE all == Labelled(vs)
           ts == TextsOf(vs)
<1> HIDE DEF n, all, ts
<1>3. SubSeq(all, 1, n) = all /\ SubSeq(ts, 1, n) = ts
  BY <1>1, <1>2 DEF all, ts
<1>4. Letters(Joined(SubSeq(all, 1, n))) = FlattenSeq(SubSeq(ts, 1, n))
  BY <1>1, LettersOfLabels DEF all, ts
<1>5. Joined(all) \in Seq(Nat)
  BY <1>2, LettersJoined DEF all
<1> QED
  BY <1>3, <1>4, <1>5 DEF all, ts

\* The texts of a passage without their labels.
LEMMA LettersOfTexts ==
  ASSUME NEW vs \in Seq(Verse)
  PROVE  /\ Joined(Kept(TextsOf(vs), Texts \ {<<>>})) \in Seq(Nat)
         /\ Letters(Joined(Kept(TextsOf(vs), Texts \ {<<>>}))) = FlattenSeq(TextsOf(vs))
<1> DEFINE ts == TextsOf(vs)
           T == Texts \ {<<>>}
           k == Kept(ts, T)
<1>1. ts \in Seq(Texts) /\ ts \in Seq(Seq(Nat))
  BY TextsType
<1> HIDE DEF ts, T
<1>2. k \in Seq(Texts) /\ k \in Seq(Seq(Nat))
  BY <1>1, KeptElements
<1>3. FlattenSeq(k) = FlattenSeq(ts)
  <2>1. Range(ts) \ {<<>>} \subseteq T
    BY <1>1 DEF Range, T
  <2> QED
    BY <1>1, <2>1, FlattenFull
<1> HIDE DEF k
<1>4. ASSUME NEW i \in 1..Len(k) PROVE Letters(k[i]) = k[i]
  <2>1. k[i] \in Texts
    BY <1>2
  <2> QED
    BY <2>1, LettersOfText
<1>5. [i \in 1..Len(k) |-> Letters(k[i])] = k
  <2>1. k = [i \in 1..Len(k) |-> k[i]]
    BY <1>2
  <2> QED
    BY <1>4, <2>1
<1>6. Joined(k) \in Seq(Nat) /\ Letters(Joined(k)) = FlattenSeq([i \in 1..Len(k) |-> Letters(k[i])])
  BY <1>2, LettersJoined
<1> QED
  BY <1>3, <1>5, <1>6 DEF k, ts, T

\* The verses of an answer are all shown, or its text without a marker, and the
\* focus is found if it is there.
IsTaken(p, a, focal) ==
  /\ p \in Seq(Seq(Nat)) /\ Len(p) = 3
  /\ Letters(Whole(p)) = IF a.verses = <<>> THEN a.lead ELSE FlattenSeq(TextsOf(a.verses))
  /\ IF \E i \in 1..Len(a.verses) : a.verses[i].n = focal /\ a.verses[i].t # <<>>
     THEN p[2][1] = focal /\ ~Contains(p[1], focal)
     ELSE p[1] = <<>> /\ p[3] = <<>>

\* A text without a marker is shown as it is.
LEMMA TakenUnmarked ==
  ASSUME NEW a \in Answers, NEW focal, ~a.web, a.verses = <<>>
  PROVE  IsTaken(Taken(a, focal), a, focal)
<1> DEFINE p == <<<<>>, a.lead, <<>>>>
<1>1. a.lead \in Texts /\ a.lead \in Seq(Nat) /\ <<>> \in Seq(Nat)
  BY ReadingAssumption DEF Answers
<1>2. Taken(a, focal) = p
  BY DEF Taken, ParseNumbered
<1>3. p \in Seq(Seq(Nat)) /\ Len(p) = 3 /\ p[1] = <<>> /\ p[3] = <<>>
  BY <1>1
<1>4. Letters(Whole(p)) = a.lead
  <2>1. Whole(p) = a.lead
    BY <1>1 DEF Whole
  <2>2. Letters(a.lead) = a.lead
    BY <1>1, LettersOfText
  <2> QED
    BY <2>1, <2>2
<1>5. ~\E i \in 1..Len(a.verses) : a.verses[i].n = focal /\ a.verses[i].t # <<>>
  OBVIOUS
<1> HIDE DEF p
<1> QED
  BY <1>2, <1>3, <1>4, <1>5 DEF IsTaken

\* Verses are labelled, joined and parted around the focus.
LEMMA TakenApart ==
  ASSUME NEW a \in Answers, NEW focal \in Numbers \cup {0}, Valid(a), a.verses # <<>>
  PROVE  IsTaken(Taken(a, focal), a, focal)
<1> DEFINE web == a.web
           vs == a.verses
           p == Taken(a, focal)
           there == \E i \in 1..Len(vs) : vs[i].n = focal /\ vs[i].t # <<>>
           T == IF web THEN {v \in Verse : v.t # <<>> \/ v.n # 0} ELSE {v \in Verse : v.t # <<>>}
           k == Kept(vs, T)
           whole == IF web THEN Joined(Kept(TextsOf(vs), Texts \ {<<>>})) ELSE Joined(Labelled(k))
<1>0. vs \in Seq(Verse) /\ web \in BOOLEAN /\ (web => \A i \in 1..Len(vs) : vs[i].t # <<>>)
  BY DEF Answers, Valid
<1>1. p = Around(k, focal, whole)
  BY DEF Taken, ParseWeb, ParseNumbered
<1> HIDE DEF p, vs, web
<1>2. k \in Seq(Verse) /\ Range(k) = Range(vs) \cap T /\ FlattenSeq(TextsOf(k)) = FlattenSeq(TextsOf(vs))
  <2>1. \A v \in Verse : v.t # <<>> => v \in T
    OBVIOUS
  <2> HIDE DEF T
  <2> QED
    BY <1>0, <2>1, TextsKept, KeptElements
<1>3. whole \in Seq(Nat) /\ Letters(whole) = FlattenSeq(TextsOf(k))
  <2> HIDE DEF k
  <2>1. CASE web
    BY <1>0, <1>2, <2>1, LettersOfTexts
  <2>2. CASE ~web
    BY <1>2, <2>2, LettersOfAll
  <2> QED
    BY <1>0, <2>1, <2>2
<1>4. InFocus(k, focal) # {} <=> there
  <2>1. Range(k) = {k[i] : i \in 1..Len(k)} /\ Range(vs) = {vs[i] : i \in 1..Len(vs)}
    <3> HIDE DEF k
    <3> QED
      BY <1>0, <1>2 DEF Range
  <2>2. InFocus(k, focal) # {} <=> \E v \in Range(k) : v.n = focal
    <3> HIDE DEF k
    <3> QED
      BY <2>1 DEF InFocus
  <2>3. \A i \in 1..Len(vs) : vs[i] \in T <=> (vs[i].t # <<>> \/ (web /\ vs[i].n # 0))
    <3>1. \A i \in 1..Len(vs) : vs[i] \in Verse
      BY <1>0
    <3> QED
      BY <1>0, <3>1
  <2>4. web => \A i \in 1..Len(vs) : vs[i].t # <<>>
    BY <1>0
  <2> HIDE DEF k, T
  <2>5. (\E v \in Range(k) : v.n = focal) <=> \E i \in 1..Len(vs) : vs[i] \in T /\ vs[i].n = focal
    BY <1>2, <2>1
  <2> QED
    BY <2>2, <2>3, <2>4, <2>5
<1> HIDE DEF k, whole, there
<1>5. IsAround(p, k, focal)
  <2>1. CASE InFocus(k, focal) # {}
    BY <1>1, <1>2, <2>1, AroundFocus
  <2>2. CASE InFocus(k, focal) = {}
    BY <1>1, <1>2, <1>3, <2>2, AroundNone
  <2> QED
    BY <2>1, <2>2
<1> QED
  <2>1. IsAround(p, k, focal) => /\ p \in Seq(Seq(Nat)) /\ Len(p) = 3
                                 /\ Letters(Whole(p)) = FlattenSeq(TextsOf(k))
                                 /\ IF InFocus(k, focal) # {} THEN p[2][1] = focal /\ ~Contains(p[1], focal)
                                                             ELSE p[1] = <<>> /\ p[3] = <<>>
    BY DEF IsAround
  <2>2. /\ p \in Seq(Seq(Nat)) /\ Len(p) = 3
        /\ Letters(Whole(p)) = FlattenSeq(TextsOf(vs))
        /\ IF there THEN p[2][1] = focal /\ ~Contains(p[1], focal) ELSE p[1] = <<>> /\ p[3] = <<>>
    BY <1>2, <1>4, <1>5, <2>1
  <2> QED
    BY <2>2 DEF IsTaken, p, vs, there
-----------------------------------------------------------------------------
(* The reveal. *)

\* The parts of a text that shows its first characters only are beginnings of
\* its parts, and together one of the text.
LEMMA ComposedIsBeginning ==
  ASSUME NEW p \in Seq(Seq(Nat)), Len(p) = 3, NEW limit \in Int,
         limit = -1 \/ limit \in 0..Len(Whole(p))
  PROVE  /\ Whole(Composed(p, limit)) = SubSeq(Whole(p), 1, IF limit < 0 THEN Len(Whole(p)) ELSE limit)
         /\ \A i \in 1..3 : IsPrefix(Composed(p, limit)[i], p[i])
<1> DEFINE a == p[1]
           b == p[2]
           c == p[3]
           ab == a \o b
           abc == ab \o c
<1>1. a \in Seq(Nat) /\ b \in Seq(Nat) /\ c \in Seq(Nat) /\ p = <<a, b, c>>
  <2>1. p[1] \in Seq(Nat) /\ p[2] \in Seq(Nat) /\ p[3] \in Seq(Nat)
    <3>1. 1 \in 1..Len(p) /\ 2 \in 1..Len(p) /\ 3 \in 1..Len(p)
      OBVIOUS
    <3>2. \A i \in 1..Len(p) : p[i] \in Seq(Nat)
      <4> HIDE DEF a, b, c
      <4> QED
        BY ElementOf
    <3> QED
      BY <3>1, <3>2
  <2>2. DOMAIN p = 1..3 /\ p = [i \in 1..3 |-> p[i]]
    OBVIOUS
  <2>3. p = <<p[1], p[2], p[3]>>
    BY <2>1, <2>2
  <2> QED
    BY <2>1, <2>3
<1>2. Whole(p) = abc
  BY DEF Whole
<1>3. Len(a) \in Nat /\ Len(b) \in Nat /\ Len(c) \in Nat
  BY <1>1
<1> HIDE DEF a, b, c
<1>4. ab \in Seq(Nat) /\ Len(ab) = Len(a) + Len(b)
  BY <1>1, TwoLists
<1> HIDE DEF ab
<1>5. abc \in Seq(Nat) /\ Len(abc) = Len(ab) + Len(c)
  BY <1>1, <1>4, TwoLists
<1> HIDE DEF abc
<1> DEFINE q == Composed(p, limit)
           Right == /\ Whole(q) = SubSeq(abc, 1, IF limit < 0 THEN Len(abc) ELSE limit)
                    /\ IsPrefix(q[1], a) /\ IsPrefix(q[2], b) /\ IsPrefix(q[3], c)
<1> SUFFICES Right
  <2>1. \A i \in 1..3 : i = 1 \/ i = 2 \/ i = 3
    OBVIOUS
  <2> HIDE DEF q
  <2> QED
    BY <1>2, <2>1 DEF q, a, b, c
<1>6. CASE limit < 0
  <2>1. q = p
    BY <1>6 DEF Composed
  <2>2. SubSeq(abc, 1, Len(abc)) = abc
    BY <1>5
  <2>3. IsPrefix(a, a) /\ IsPrefix(b, b) /\ IsPrefix(c, c)
    BY <1>1, BeginningIsPrefix
  <2>4. q[1] = a /\ q[2] = b /\ q[3] = c /\ Whole(q) = abc
    <3>1. p[1] = a /\ p[2] = b /\ p[3] = c
      BY DEF a, b, c
    <3> HIDE DEF q
    <3> QED
      BY <1>2, <2>1, <3>1
  <2> HIDE DEF q
  <2> QED
    BY <1>6, <2>2, <2>3, <2>4
<1>7. CASE 0 <= limit /\ limit <= Len(a)
  <2> DEFINE s == SubSeq(a, 1, limit)
  <2>1. q = <<s, <<>>, <<>>>>
    <3>1. Len(p[1]) = Len(a)
      BY DEF a
    <3>2. ~(limit < 0) /\ ~(Len(a) < limit)
      BY <1>3, <1>7
    <3>3. ~(Len(a) + Len(b) < limit)
      BY <1>3, <1>7
    <3> QED
      BY <1>7, <3>2, <3>3 DEF Composed, a, b
  <2>2. limit \in 0..Len(a) /\ limit \in 0..Len(ab)
    BY <1>3, <1>4, <1>7
  <2>3. SubSeq(abc, 1, limit) = SubSeq(ab, 1, limit)
    BY <1>1, <1>4, <2>2, BeginningWithin DEF abc
  <2>4. SubSeq(ab, 1, limit) = s
    BY <1>1, <2>2, BeginningWithin DEF ab
  <2>5. s \in Seq(Nat)
    BY <1>1, <2>2
  <2>6. IsPrefix(s, a) /\ IsPrefix(<<>>, b) /\ IsPrefix(<<>>, c)
    BY <1>1, <2>2, BeginningIsPrefix
  <2> HIDE DEF s, q
  <2>7. Whole(q) = s
    <3>1. (s \o <<>>) \o <<>> = s
      BY <2>5
    <3> QED
      BY <2>1, <3>1 DEF Whole
  <2>8. q[1] = s /\ q[2] = <<>> /\ q[3] = <<>>
    BY <2>1
  <2> QED
    BY <1>7, <2>3, <2>4, <2>6, <2>7, <2>8
<1>8. CASE Len(a) < limit /\ limit <= Len(a) + Len(b)
  <2> DEFINE n == limit - Len(a)
             s == SubSeq(b, 1, n)
  <2>1. q = <<a, s, <<>>>>
    <3>2. ~(limit < 0) /\ ~(0 <= limit /\ limit <= Len(a))
      BY <1>3, <1>8
    <3>3. ~(Len(a) + Len(b) < limit)
      BY <1>3, <1>8
    <3> QED
      BY <1>8, <3>2, <3>3 DEF Composed, a, b
  <2>2. n \in 0..Len(b) /\ limit \in 0..Len(ab) /\ Len(a) + n = limit /\ ~(limit < 0)
    BY <1>3, <1>4, <1>8
  <2>3. SubSeq(abc, 1, limit) = SubSeq(ab, 1, limit)
    BY <1>1, <1>4, <2>2, BeginningWithin DEF abc
  <2> HIDE DEF n
  <2>4. SubSeq(ab, 1, Len(a) + n) = a \o s
    BY <1>1, <2>2, BeginningOver DEF ab
  <2>5. s \in Seq(Nat)
    BY <1>1, <2>2
  <2>6. IsPrefix(a, a) /\ IsPrefix(s, b) /\ IsPrefix(<<>>, c)
    BY <1>1, <2>2, BeginningIsPrefix
  <2> HIDE DEF s, q
  <2>7. Whole(q) = a \o s
    <3>1. a \o s \in Seq(Nat)
      BY <1>1, <2>5
    <3> DEFINE as == a \o s
    <3> HIDE DEF as
    <3>2. as \o <<>> = as
      BY <3>1 DEF as
    <3> QED
      BY <2>1, <3>2 DEF Whole, as
  <2>8. q[1] = a /\ q[2] = s /\ q[3] = <<>>
    BY <2>1
  <2> QED
    BY <2>2, <2>3, <2>4, <2>6, <2>7, <2>8
<1>9. CASE Len(a) + Len(b) < limit
  <2> DEFINE n == limit - Len(a) - Len(b)
             s == SubSeq(c, 1, n)
  <2>1. limit \in 0..Len(abc)
    BY <1>2, <1>3, <1>9
  <2>2. n \in 0..Len(c) /\ Len(ab) + n = limit /\ ~(limit < 0)
    BY <1>3, <1>4, <1>5, <1>9, <2>1
  <2>3. SubSeq(c, 1, Len(c)) = c
    BY <1>1
  <2>4. q = <<a, b, s>>
    <3>1. q = <<a, b, IF n < Len(c) THEN s ELSE c>>
      <4>1. ~(limit < 0) /\ ~(0 <= limit /\ limit <= Len(a)) /\ ~(Len(a) < limit /\ limit <= Len(a) + Len(b))
        BY <1>3, <1>9
      <4> QED
        BY <1>9, <4>1 DEF Composed, a, b, c
    <3>2. ~(n < Len(c)) => n = Len(c)
      BY <1>3, <2>2
    <3> HIDE DEF n, q
    <3> QED
      BY <2>3, <3>1, <3>2
  <2> HIDE DEF n
  <2>5. SubSeq(abc, 1, Len(ab) + n) = ab \o s
    BY <1>1, <1>4, <2>2, BeginningOver DEF abc
  <2>6. IsPrefix(a, a) /\ IsPrefix(b, b) /\ IsPrefix(s, c)
    BY <1>1, <2>2, BeginningIsPrefix
  <2> HIDE DEF s, q
  <2>7. Whole(q) = ab \o s
    BY <2>4 DEF Whole, ab
  <2>8. q[1] = a /\ q[2] = b /\ q[3] = s
    BY <2>4
  <2> QED
    BY <2>2, <2>5, <2>6, <2>7, <2>8
<1> HIDE DEF Right
<1> QED
  BY <1>3, <1>6, <1>7, <1>8, <1>9

\* How long a reveal takes, and how far its steps go.
LEMMA StepsAreLongEnough ==
  ASSUME NEW total \in Nat, NEW s \in Speeds
  PROVE  /\ Duration(s) \in Nat \ {0} /\ Step(total, s) \in Nat \ {0}
         /\ total * RevealIntervalMs <= Step(total, s) * Duration(s)
<1> DEFINE d == Duration(s)
           x == total * RevealIntervalMs
           y == x + d - 1
           q == y \div d
<1>1. d \in Nat \ {0}
  <2>1. /\ FastestMs \in Nat \ {0} /\ SlowestMs \in Nat \ {0} /\ FastestMs <= SlowestMs
        /\ MsPerSpeed * s \in Int
    BY ReadingAssumption
  <2> QED
    BY <2>1 DEF Duration, Clamp
<1>2. x \in Nat
  BY ReadingAssumption
<1> HIDE DEF d, x
<1>3. y \in Nat
  BY <1>1, <1>2
<1>4. q \in Int /\ y < (q + 1) * d /\ q * d <= y
  <2> HIDE DEF y
  <2> QED
    BY <1>1, <1>3
<1> HIDE DEF q
<1>5. x <= q * d
  <2>1. (q + 1) * d = q * d + d /\ q * d \in Int
    BY <1>1, <1>4
  <2> QED
    BY <1>1, <1>2, <1>4, <2>1
<1>6. Step(total, s) = IF q < 1 THEN 1 ELSE q
  BY DEF Step, q, x, d
<1>7. x <= Step(total, s) * d
  <2>1. CASE q < 1
    <3>1. q <= 0
      BY <1>4, <2>1
    <3>2. q * d <= 0
      BY <1>1, <1>4, <3>1
    <3>3. x <= 1 * d
      <4>1. q * d \in Int
        BY <1>1, <1>4
      <4> QED
        BY <1>1, <1>2, <1>5, <3>2, <4>1
    <3> QED
      BY <1>6, <2>1, <3>3
  <2>2. CASE ~(q < 1)
    BY <1>5, <1>6, <2>2
  <2> QED
    BY <2>1, <2>2
<1>8. Step(total, s) \in Nat \ {0}
  BY <1>4, <1>6
<1> QED
  BY <1>1, <1>7, <1>8 DEF x, d

\* A reveal that is still running has not taken as long as its speed says.
LEMMA RevealInTime ==
  ASSUME NEW total \in Nat, NEW s \in Speeds, NEW n \in Nat, n * Step(total, s) < total
  PROVE  n * RevealIntervalMs < Duration(s)
<1> DEFINE d == Duration(s)
           k == Step(total, s)
           i == RevealIntervalMs
<1>1. d \in Nat \ {0} /\ k \in Nat \ {0} /\ total * i <= k * d /\ i \in Nat
  BY StepsAreLongEnough, ReadingAssumption
<1>2. n * k < total /\ total > 0
  BY <1>1
<1> HIDE DEF d, k, i
<1>3. n * i \in Nat /\ n * k \in Nat /\ total * i \in Nat /\ k * d \in Nat
  BY <1>1
<1>4. n * (total * i) <= n * (k * d)
  BY <1>1, <1>3
<1>5. n * (total * i) = (n * i) * total /\ n * (k * d) = (n * k) * d
  BY <1>1
<1>6. (n * k) * d < total * d
  BY <1>1, <1>2, <1>3
<1>7. (n * i) * total < total * d
  <2>1. (n * i) * total \in Int /\ (n * k) * d \in Int /\ total * d \in Int
    BY <1>1, <1>3
  <2> QED
    BY <1>4, <1>5, <1>6, <2>1
<1>8. n * i < d
  <2> DEFINE m == n * i
  <2>1. m \in Nat /\ m * total < total * d
    BY <1>3, <1>7
  <2> HIDE DEF m
  <2>2. ASSUME ~(m < d) PROVE FALSE
    <3>1. d <= m
      BY <1>1, <2>1, <2>2
    <3>2. total * d <= m * total
      BY <1>1, <2>1, <3>1
    <3>3. total * d \in Int /\ m * total \in Int
      BY <1>1, <2>1
    <3> QED
      BY <2>1, <3>2, <3>3
  <2> QED
    BY <2>2 DEF m
<1> QED
  BY <1>8 DEF i, d
-----------------------------------------------------------------------------
(* The invariant. *)

\* A reveal that runs has come a step further with each of its ticks.
StepsInv ==
  reveal.running =>
    reveal.step = Step(reveal.total, speed) /\ ticks * reveal.step <= reveal.chars

\* The inductive invariant.
ReadingInv == ReadingTypeOK /\ PassageIsWhole /\ StepsInv

\* A reveal with some of its fields changed.
LEMMA RevealChanged ==
  ASSUME NEW r \in [chars : Int, total : Nat, step : Nat \ {0}, running : BOOLEAN],
         NEW c \in Int, NEW total \in Nat, NEW b \in BOOLEAN
  PROVE  /\ LET q == [r EXCEPT !.chars = c, !.total = total, !.running = b]
            IN  /\ q \in [chars : Int, total : Nat, step : Nat \ {0}, running : BOOLEAN]
                /\ q.chars = c /\ q.total = total /\ q.step = r.step /\ q.running = b
         /\ LET q == [r EXCEPT !.chars = c, !.running = b]
            IN  /\ q \in [chars : Int, total : Nat, step : Nat \ {0}, running : BOOLEAN]
                /\ q.chars = c /\ q.total = r.total /\ q.step = r.step /\ q.running = b
  OBVIOUS

\* A reveal that is started is the one of its text.
LEMMA StartedRight ==
  ASSUME NEW p, Len(Whole(p)) \in Nat, NEW s \in Speeds, ReadingTypeOK, StartReveal(p, s)
  PROVE  /\ reveal' \in [chars : Int, total : Nat, step : Nat \ {0}, running : BOOLEAN]
         /\ reveal'.chars # -1 /\ reveal'.total = Len(Whole(p)) /\ reveal'.chars \in 0..reveal'.total
         /\ reveal'.running <=> reveal'.chars < reveal'.total
         /\ ticks' \in Nat
         /\ reveal'.running => reveal'.step = Step(reveal'.total, s) /\ ticks' * reveal'.step <= reveal'.chars
<1> DEFINE total == Len(Whole(p))
           stopped == [reveal EXCEPT !.chars = IF s = 0 THEN total ELSE 0, !.total = total, !.running = FALSE]
           fresh == [chars |-> 0, total |-> total, step |-> Step(total, s), running |-> TRUE]
<1>1. reveal \in [chars : Int, total : Nat, step : Nat \ {0}, running : BOOLEAN]
  BY DEF ReadingTypeOK
<1>2. total \in Nat /\ Step(total, s) \in Nat \ {0}
  BY StepsAreLongEnough
<1>3. reveal' = (IF total = 0 \/ s = 0 THEN stopped ELSE fresh) /\ ticks' = 0
  BY DEF StartReveal, Started
<1> HIDE DEF total
<1>4. CASE total = 0 \/ s = 0
  <2>1. reveal' = stopped
    BY <1>3, <1>4
  <2>2. /\ stopped \in [chars : Int, total : Nat, step : Nat \ {0}, running : BOOLEAN]
        /\ stopped.chars = total /\ stopped.total = total /\ ~stopped.running
    <3> DEFINE c == IF s = 0 THEN total ELSE 0
    <3>1. c = total /\ c \in Int
      BY <1>2, <1>4
    <3> DEFINE b == FALSE
               q == [reveal EXCEPT !.chars = c, !.total = total, !.running = b]
    <3>2. b \in BOOLEAN /\ ~b
      OBVIOUS
    <3> HIDE DEF b, c
    <3>3. /\ q \in [chars : Int, total : Nat, step : Nat \ {0}, running : BOOLEAN]
          /\ q.chars = c /\ q.total = total /\ q.running = b
      BY <1>1, <1>2, <3>1, <3>2, RevealChanged
    <3>4. stopped = q
      BY DEF b, c
    <3> HIDE DEF q, stopped
    <3> QED
      BY <3>1, <3>2, <3>3, <3>4
  <2> HIDE DEF stopped
  <2> QED
    BY <1>2, <1>3, <2>1, <2>2 DEF total
<1>5. CASE ~(total = 0 \/ s = 0)
  <2>1. reveal' = fresh
    BY <1>3, <1>5
  <2>2. /\ fresh \in [chars : Int, total : Nat, step : Nat \ {0}, running : BOOLEAN]
        /\ fresh.chars = 0 /\ fresh.total = total /\ fresh.step = Step(total, s) /\ fresh.running
    BY <1>2
  <2> HIDE DEF fresh
  <2>3. 0 * Step(total, s) = 0
    BY <1>2
  <2> QED
    BY <1>2, <1>3, <1>5, <2>1, <2>2, <2>3 DEF total
<1> QED
  BY <1>4, <1>5

\* The text in three parts is a text.
LEMMA WholeType ==
  ASSUME NEW p \in Seq(Seq(Nat)), Len(p) = 3
  PROVE  Whole(p) \in Seq(Nat) /\ Len(Whole(p)) \in Nat
<1>1. p[1] \in Seq(Nat) /\ p[2] \in Seq(Nat) /\ p[3] \in Seq(Nat)
  <2>1. 1 \in 1..Len(p) /\ 2 \in 1..Len(p) /\ 3 \in 1..Len(p)
    OBVIOUS
  <2> QED
    BY <2>1, ElementOf
<1>2. p[1] \o p[2] \in Seq(Nat)
  BY <1>1, TwoLists
<1>3. Whole(p) \in Seq(Nat)
  BY <1>1, <1>2, TwoLists DEF Whole
<1> QED
  BY <1>3

\* It holds at first: there is no text, and nothing to reveal.
LEMMA ReadingInitially == ReadingInit => ReadingInv
<1> SUFFICES ASSUME ReadingInit PROVE ReadingInv
  OBVIOUS
<1>1. parts = <<<<>>, <<>>, <<>>>> /\ parts \in Seq(Seq(Nat)) /\ Len(parts) = 3
  <2>1. <<>> \in Seq(Nat)
    OBVIOUS
  <2> QED
    BY <2>1 DEF ReadingInit
<1>2. asked = None /\ answer = None /\ speed \in Speeds /\ ticks = 0
      /\ reveal = [chars |-> -1, total |-> 0, step |-> 1, running |-> FALSE]
  BY DEF ReadingInit
<1>3. ReadingTypeOK
  BY <1>1, <1>2 DEF ReadingTypeOK
<1>4. PassageIsWhole
  BY <1>2 DEF PassageIsWhole
<1>5. StepsInv
  BY <1>2 DEF StepsInv
<1> QED
  BY <1>3, <1>4, <1>5 DEF ReadingInv

\* A load that begins asks for a range with its verse in it.
LEMMA AskStep ==
  ASSUME ReadingInv, NEW ref \in References, Ask(ref)
  PROVE  ReadingInv'
<1>1. /\ Normal(ref) /\ asked' = ref /\ answer' = answer /\ parts' = parts /\ speed' = speed
      /\ reveal' = reveal /\ ticks' = ticks
  BY DEF Ask
<1>2. ReadingTypeOK' /\ StepsInv'
  BY <1>1 DEF ReadingInv, ReadingTypeOK, StepsInv
<1>3. LET range == RangeQuery(ref)
      IN  /\ 1 <= range.first /\ range.first <= ref.first
          /\ ref.last = 0 => ref.first < range.last /\ range.last - range.first <= 4
          /\ ref.last # 0 => range = ref
  <2>1. ref.first \in Nat /\ ref.first >= 1 /\ ref.last \in Nat
    <3>1. ref.first \in Numbers /\ ref.last \in Numbers \cup {0}
      BY DEF References
    <3>2. \A n \in Numbers : n \in Nat /\ n >= 1
      BY ReadingAssumption
    <3> QED
      BY <3>1, <3>2
  <2>2. CASE ref.last = 0
    <3>1. RangeQuery(ref) = [first |-> IF ref.first > 2 THEN ref.first - 2 ELSE 1, last |-> ref.first + 2]
      BY <2>2 DEF RangeQuery
    <3> QED
      BY <2>1, <2>2, <3>1
  <2>3. CASE ref.last # 0
    <3>1. RangeQuery(ref) = ref
      BY <2>3 DEF RangeQuery
    <3> QED
      BY <2>1, <2>3, <3>1
  <2> QED
    BY <2>2, <2>3
<1>4. PassageIsWhole'
  BY <1>1, <1>3 DEF ReadingInv, PassageIsWhole
<1> QED
  BY <1>2, <1>4 DEF ReadingInv

\* A load that fails leaves everything as it is.
LEMMA FailStep == ReadingInv /\ Fail => ReadingInv'
<1> SUFFICES ASSUME ReadingInv, Fail PROVE ReadingInv'
  OBVIOUS
<1>1. /\ asked' = None /\ answer' = answer /\ parts' = parts /\ speed' = speed
      /\ reveal' = reveal /\ ticks' = ticks
  BY DEF Fail
<1>2. ReadingTypeOK' /\ StepsInv'
  BY <1>1 DEF ReadingInv, ReadingTypeOK, StepsInv
<1>3. PassageIsWhole'
  BY <1>1 DEF ReadingInv, PassageIsWhole
<1> QED
  BY <1>2, <1>3 DEF ReadingInv

\* An answer is taken apart, and its reveal starts.
LEMMA ArriveStep ==
  ASSUME ReadingInv, NEW a \in Answers, Arrive(a)
  PROVE  ReadingInv'
<1> DEFINE focal == FocalVerse(asked)
<1>1. /\ asked # None /\ Valid(a) /\ answer' = [for |-> asked, given |-> a]
      /\ parts' = Taken(a, focal)
      /\ StartReveal(parts', speed) /\ asked' = None /\ speed' = speed
  BY DEF Arrive
<1>2. asked \in References /\ speed \in Speeds /\ ReadingTypeOK
  BY <1>1 DEF ReadingInv, ReadingTypeOK
<1>3. focal \in Numbers \cup {0}
  BY <1>2 DEF FocalVerse, References
<1> HIDE DEF focal
<1> DEFINE p == parts'
           vs == a.verses
           there == \E i \in 1..Len(vs) : vs[i].n = focal /\ vs[i].t # <<>>
<1>4. /\ p \in Seq(Seq(Nat)) /\ Len(p) = 3
      /\ Letters(Whole(p)) = IF vs = <<>> THEN a.lead ELSE FlattenSeq(TextsOf(vs))
      /\ IF there THEN p[2][1] = focal /\ ~Contains(p[1], focal) ELSE p[1] = <<>> /\ p[3] = <<>>
  <2>1. vs = <<>> => ~a.web
    BY <1>1 DEF Valid
  <2>2. IsTaken(p, a, focal)
    <3>1. CASE vs = <<>>
      BY <1>1, <2>1, <3>1, TakenUnmarked
    <3>2. CASE vs # <<>>
      BY <1>1, <1>3, <3>2, TakenApart
    <3> QED
      BY <3>1, <3>2
  <2> QED
    BY <2>2 DEF IsTaken
<1>5. /\ reveal' \in [chars : Int, total : Nat, step : Nat \ {0}, running : BOOLEAN]
      /\ reveal'.chars # -1 /\ reveal'.total = Len(Whole(p)) /\ reveal'.chars \in 0..reveal'.total
      /\ reveal'.running <=> reveal'.chars < reveal'.total
      /\ ticks' \in Nat
      /\ reveal'.running => reveal'.step = Step(reveal'.total, speed) /\ ticks' * reveal'.step <= reveal'.chars
  <2>1. Len(Whole(p)) \in Nat
    BY <1>4, WholeType
  <2> QED
    BY <1>1, <1>2, <2>1, StartedRight
<1>6. answer'.for = asked /\ answer'.given = a
  BY <1>1
<1>7. ReadingTypeOK'
  BY <1>1, <1>2, <1>4, <1>5, <1>6 DEF ReadingTypeOK
<1>8. StepsInv'
  BY <1>1, <1>5 DEF StepsInv
<1>9. PassageIsWhole'
  <2> HIDE DEF p
  <2>1. FocalVerse(answer'.for) = focal
    BY <1>6 DEF focal
  <2> QED
    BY <1>1, <1>4, <1>6, <2>1 DEF PassageIsWhole, p
<1> QED
  BY <1>7, <1>8, <1>9 DEF ReadingInv

\* A tick shows a step more, or the rest.
LEMMA TickStep == ReadingInv /\ RevealTick => ReadingInv'
<1> SUFFICES ASSUME ReadingInv, RevealTick PROVE ReadingInv'
  OBVIOUS
<1> DEFINE r == reveal
           n == IF r.chars + r.step < r.total THEN r.chars + r.step ELSE r.total
           t == [r EXCEPT !.chars = n, !.running = n < r.total]
<1>1. /\ r.running /\ reveal' = t /\ ticks' = (IF ticks < SlowestMs THEN ticks + 1 ELSE ticks)
      /\ asked' = asked /\ answer' = answer /\ parts' = parts /\ speed' = speed
  BY DEF RevealTick
<1>2. /\ r \in [chars : Int, total : Nat, step : Nat \ {0}, running : BOOLEAN]
      /\ r.chars # -1 /\ r.total = Len(Whole(parts)) /\ r.chars \in 0..r.total /\ r.chars < r.total
      /\ ticks \in Nat
  BY <1>1 DEF ReadingInv, ReadingTypeOK
<1>3. n \in 0..r.total /\ n \in Int
  BY <1>2
<1> HIDE DEF n
<1>4. /\ t \in [chars : Int, total : Nat, step : Nat \ {0}, running : BOOLEAN]
      /\ t.chars = n /\ t.total = r.total /\ t.step = r.step /\ (t.running <=> n < r.total)
  <2> DEFINE b == n < r.total
  <2>1. b \in BOOLEAN
    OBVIOUS
  <2> HIDE DEF b
  <2>2. /\ t \in [chars : Int, total : Nat, step : Nat \ {0}, running : BOOLEAN]
        /\ t.chars = n /\ t.total = r.total /\ t.step = r.step /\ t.running = b
    BY <1>2, <1>3, <2>1, RevealChanged DEF b
  <2> HIDE DEF t
  <2> QED
    BY <2>2 DEF b
<1> HIDE DEF t
<1>5. ticks' \in Nat
  BY <1>1, <1>2
<1>6. ReadingTypeOK'
  <2>1. /\ reveal'.total = Len(Whole(parts')) /\ reveal'.chars \in 0..reveal'.total
        /\ reveal'.running <=> reveal'.chars # -1 /\ reveal'.chars < reveal'.total
    BY <1>1, <1>2, <1>3, <1>4
  <2> QED
    BY <1>1, <1>4, <1>5, <2>1 DEF ReadingInv, ReadingTypeOK
<1>7. StepsInv'
  <2> SUFFICES ASSUME n < r.total PROVE t.step = Step(t.total, speed) /\ ticks' * t.step <= n
    BY <1>1, <1>4 DEF StepsInv
  <2>1. r.step = Step(r.total, speed) /\ ticks * r.step <= r.chars
    BY <1>1 DEF ReadingInv, StepsInv
  <2>2. n = r.chars + r.step
    BY <1>2 DEF n
  <2> DEFINE k == r.step
             c == r.chars
  <2>3. k \in Nat \ {0} /\ c \in Nat /\ ticks * k <= c /\ n = c + k
    BY <1>2, <2>1, <2>2
  <2> HIDE DEF k, c
  <2>4. (ticks + 1) * k = ticks * k + k /\ ticks * k \in Nat
    BY <1>2, <2>3
  <2>5. ticks' * k <= n
    <3>1. ticks' = ticks + 1 \/ ticks' = ticks
      BY <1>1
    <3>2. (ticks + 1) * k <= n /\ ticks * k <= n
      BY <1>2, <2>3, <2>4
    <3> QED
      BY <3>1, <3>2
  <2> QED
    BY <1>4, <2>1, <2>5 DEF k
<1>8. PassageIsWhole'
  BY <1>1 DEF ReadingInv, PassageIsWhole
<1> QED
  BY <1>6, <1>7, <1>8 DEF ReadingInv

\* A speed is set: the text is revealed anew.
LEMMA SpeedStep ==
  ASSUME ReadingInv, NEW s \in Speeds, SetSpeed(s)
  PROVE  ReadingInv'
<1>1. speed' = s /\ StartReveal(parts, s) /\ asked' = asked /\ answer' = answer /\ parts' = parts
  BY DEF SetSpeed
<1>2. ReadingTypeOK /\ parts \in Seq(Seq(Nat)) /\ Len(parts) = 3
  BY DEF ReadingInv, ReadingTypeOK
<1>3. /\ reveal' \in [chars : Int, total : Nat, step : Nat \ {0}, running : BOOLEAN]
      /\ reveal'.chars # -1 /\ reveal'.total = Len(Whole(parts)) /\ reveal'.chars \in 0..reveal'.total
      /\ reveal'.running <=> reveal'.chars < reveal'.total
      /\ ticks' \in Nat
      /\ reveal'.running => reveal'.step = Step(reveal'.total, s) /\ ticks' * reveal'.step <= reveal'.chars
  <2>1. Len(Whole(parts)) \in Nat
    BY <1>2, WholeType
  <2> QED
    BY <1>1, <1>2, <2>1, StartedRight
<1>4. ReadingTypeOK'
  BY <1>1, <1>2, <1>3 DEF ReadingTypeOK
<1>5. StepsInv'
  BY <1>1, <1>3 DEF StepsInv
<1>6. PassageIsWhole'
  BY <1>1 DEF ReadingInv, PassageIsWhole
<1> QED
  BY <1>4, <1>5, <1>6 DEF ReadingInv

\* No step breaks the invariant.
LEMMA ReadingInvariance == ReadingInv /\ [ReadingNext]_readingVars => ReadingInv'
<1> SUFFICES ASSUME ReadingInv, [ReadingNext]_readingVars PROVE ReadingInv'
  OBVIOUS
<1>1. ASSUME NEW ref \in References, Ask(ref) PROVE ReadingInv'
  BY <1>1, AskStep
<1>2. ASSUME NEW a \in Offered, Arrive(a) PROVE ReadingInv'
  <2>1. a \in Answers
    BY OfferedAssumption
  <2> QED
    BY <1>2, <2>1, ArriveStep
<1>3. CASE Fail
  BY <1>3, FailStep
<1>4. CASE RevealTick
  BY <1>4, TickStep
<1>5. ASSUME NEW s \in Speeds, SetSpeed(s) PROVE ReadingInv'
  BY <1>5, SpeedStep
<1>6. CASE UNCHANGED readingVars
  <2>1. /\ asked' = asked /\ answer' = answer /\ parts' = parts /\ speed' = speed
        /\ reveal' = reveal /\ ticks' = ticks
    BY <1>6 DEF readingVars
  <2>2. ReadingTypeOK' /\ StepsInv'
    BY <2>1 DEF ReadingInv, ReadingTypeOK, StepsInv
  <2>3. PassageIsWhole'
    BY <2>1 DEF ReadingInv, PassageIsWhole
  <2> QED
    BY <2>2, <2>3 DEF ReadingInv
<1> QED
  BY <1>1, <1>2, <1>3, <1>4, <1>5, <1>6 DEF ReadingNext

\* The invariant of the passages and their reveal holds in every state.
THEOREM ReadingHolds == ReadingSpec => []ReadingInv
BY ReadingInitially, ReadingInvariance, PTL DEF ReadingSpec

\* The types: the reveal is that of the text on display, and its timer runs
\* exactly while some of it is hidden.
THEOREM ReadingTyped == ReadingSpec => []ReadingTypeOK
<1>1. ReadingInv => ReadingTypeOK
  BY DEF ReadingInv
<1> QED
  BY <1>1, ReadingHolds, PTL

\* Whatever the service answers, the texts of the verses it gives are shown, all
\* of them and in their order, with the one that was asked for in the focus; a
\* text without a marker is shown as it is.  What is lost is the lead of an ESV
\* answer that has a marker, and its further passages.
THEOREM PassagesAreWhole == ReadingSpec => []PassageIsWhole
<1>1. ReadingInv => PassageIsWhole
  BY DEF ReadingInv
<1> QED
  BY <1>1, ReadingHolds, PTL

\* What is painted is a beginning of the text, part by part, and a reveal takes
\* no longer than its speed says, for texts of any length.
THEOREM RevealsAreRight == ReadingSpec => []RevealIsRight
<1>1. ReadingInv => RevealIsRight
  <2> SUFFICES ASSUME ReadingInv PROVE RevealIsRight
    OBVIOUS
  <2>1. /\ parts \in Seq(Seq(Nat)) /\ Len(parts) = 3 /\ speed \in Speeds /\ ticks \in Nat
        /\ reveal \in [chars : Int, total : Nat, step : Nat \ {0}, running : BOOLEAN]
        /\ reveal.chars # -1 => reveal.total = Len(Whole(parts)) /\ reveal.chars \in 0..reveal.total
        /\ reveal.running => reveal.chars # -1 /\ reveal.chars < reveal.total
    BY DEF ReadingInv, ReadingTypeOK
  <2>2. reveal.chars = -1 \/ reveal.chars \in 0..Len(Whole(parts))
    BY <2>1
  <2>3. reveal.chars \in Int
    BY <2>1
  <2> DEFINE c == reveal.chars
  <2> HIDE DEF c
  <2>4. /\ Whole(Composed(parts, c)) = SubSeq(Whole(parts), 1, IF c < 0 THEN Len(Whole(parts)) ELSE c)
        /\ \A i \in 1..3 : IsPrefix(Composed(parts, c)[i], parts[i])
    BY <2>1, <2>2, <2>3, ComposedIsBeginning DEF c
  <2>5. ASSUME reveal.running PROVE ticks * RevealIntervalMs < Duration(speed)
    <3>1. /\ reveal.step = Step(reveal.total, speed) /\ ticks * reveal.step <= reveal.chars
          /\ reveal.chars < reveal.total
      BY <2>1, <2>5 DEF ReadingInv, StepsInv
    <3>2. ticks * reveal.step \in Nat /\ reveal.total \in Nat
      BY <2>1
    <3>3. ticks * Step(reveal.total, speed) < reveal.total
      BY <2>3, <3>1, <3>2
    <3> QED
      BY <2>1, <3>2, <3>3, RevealInTime
  <2> QED
    BY <2>4, <2>5 DEF RevealIsRight, c
<1> QED
  BY <1>1, ReadingHolds, PTL
==============================================================================
