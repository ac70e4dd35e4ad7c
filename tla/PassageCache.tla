---------------------------- MODULE PassageCache ----------------------------
(***************************************************************************)
(* PassageCache (src/src/passage_cache.cpp): the file of passages kept for *)
(* reading offline.  Every operation reads the whole file and, to change   *)
(* it, replaces it in one step (QSaveFile), so the file is either the old  *)
(* or the new one after a crash.  The clock is the device's: it may be set *)
(* forth and back between any two operations, and the file may be damaged  *)
(* from outside.                                                           *)
(*                                                                         *)
(* An entry is its lookup key, its size in the JSON document, the time it  *)
(* was stored at and, for the passage, the number of the put that made it. *)
(* The bytes of the document around the entries are not counted.           *)
(***************************************************************************)
EXTENDS Integers, Sequences, FiniteSets, FiniteSetsExt, SequencesExt, Lists

CONSTANTS LookupKeys,   \* provider, verse and key fingerprint
          Sizes,        \* sizes of entries
          MaxEntries,   \* MaxEntries
          MaxBytes,     \* MaxJsonBytes
          MaxAge,       \* MaxAgeSeconds
          Skew,         \* how far in the future an entry may seem to be: 300 s
          MaxClock,     \* bound: the latest time
          MaxPuts       \* bound: puts

ASSUME PassageCacheAssumption ==
  /\ MaxEntries \in Nat \ {0} /\ MaxBytes \in Nat \ {0} /\ MaxAge \in Nat /\ Skew \in Nat
  /\ MaxClock \in Nat \ {0} /\ MaxPuts \in Nat
  /\ \A n \in Sizes : n \in Nat \ {0} /\ n < MaxBytes   \* MaxEntryBytes is far below

VARIABLES file,         \* the entries of the file; none when there is no file
          damaged,      \* the file is not what write left
          clock,        \* currentSecsSinceEpoch
          puts,         \* calls of put so far
          latest        \* per key, the last put that succeeded (not in the code)

vars == <<file, damaged, clock, puts, latest>>

Entries == [key : LookupKeys, size : Sizes, storedAt : 1..MaxClock, put : 1..MaxPuts]

Init ==
  /\ file = <<>> /\ damaged = FALSE /\ clock \in 1..MaxClock
  /\ puts = 0 /\ latest = [k \in LookupKeys |-> 0]
-----------------------------------------------------------------------------
IsFresh(e) ==
  /\ e.storedAt > 0 /\ e.storedAt <= clock + Skew
  /\ clock - e.storedAt <= MaxAge

Fresh(entries) == Kept(entries, {e \in Range(entries) : IsFresh(e)})

Bytes(entries) ==
  LET bytes[i \in 0..Len(entries)] == IF i = 0 THEN 0 ELSE bytes[i - 1] + entries[i].size
  IN  bytes[Len(entries)]

\* With the newline write appends.
FileBytes(entries) == Bytes(entries) + 1

HasDuplicates(entries) ==
  \E i, j \in 1..Len(entries) : i < j /\ entries[i].key = entries[j].key

\* The limits read checks, throwing when the file breaks one of them; of two
\* entries with one key it minds only fresh ones.
WithinLimits ==
  /\ FileBytes(file) <= MaxBytes
  /\ Len(file) <= MaxEntries
  /\ ~HasDuplicates(Fresh(file))

CanRead == ~damaged /\ WithinLimits

\* Seeded fault: put does not remove the entry it replaces.
FaultWithout(entries, k) == entries

\* Entries without those for key k, as put removes them.
Without(entries, k) == Kept(entries, {e \in Range(entries) : e.key # k})

\* The count limit and then the size limit, each at the expense of the end.
Capped(entries) == IF Len(entries) <= MaxEntries THEN entries ELSE SubSeq(entries, 1, MaxEntries)

Trimmed(entries) ==
  SubSeq(entries, 1,
         Max({n \in 0..Len(entries) : Bytes(SubSeq(entries, 1, n)) <= MaxBytes}))

\* What write makes of a list of entries, before the newline.
Bounded(entries) == Trimmed(Capped(Fresh(entries)))

\* Seeded fault: write does not look at the size again after the newline.
FaultFits(entries) == TRUE

\* write gives up when the newline is one byte too many.
Fits(entries) == FileBytes(Bounded(entries)) <= MaxBytes

\* write: on success the file is replaced.
Write(entries) ==
  /\ Fits(entries)
  /\ file' = Bounded(entries)
  /\ damaged' = FALSE

-----------------------------------------------------------------------------
\* Seeded fault: the passage filed is the one of the put before.
FaultNewEntry(k, size) == [key |-> k, size |-> size, storedAt |-> clock, put |-> puts]

NewEntry(k, size) == [key |-> k, size |-> size, storedAt |-> clock, put |-> puts + 1]

\* Seeded fault: the entries that stay are prepended one by one, too.
FaultReversed(k, size) ==
  <<NewEntry(k, size)>> \o Reverse(IF CanRead THEN Without(Fresh(file), k) ELSE <<>>)

\* The list put writes: the new entry before those that could be read, and
\* before none when the file could not.
Replaced(k, size) ==
  <<NewEntry(k, size)>> \o (IF CanRead THEN Without(Fresh(file), k) ELSE <<>>)

Put(k, size) ==
  /\ puts < MaxPuts
  /\ Write(Replaced(k, size))
  /\ puts' = puts + 1
  /\ latest' = [latest EXCEPT ![k] = puts + 1]
  /\ UNCHANGED clock

\* put throws: the disk refuses, or write gives up.  The file stays.
PutFails ==
  /\ puts < MaxPuts
  /\ puts' = puts + 1
  /\ UNCHANGED <<file, damaged, clock, latest>>

\* compact, when the program starts: nothing if the file cannot be read.
Compact ==
  /\ CanRead
  /\ Write(Fresh(file))
  /\ UNCHANGED <<clock, puts, latest>>

\* What get finds under k: nothing, or one entry.
Get(k) == IF CanRead THEN {e \in Range(Fresh(file)) : e.key = k} ELSE {}

SetClock ==
  /\ clock' \in 1..MaxClock \ {clock}
  /\ UNCHANGED <<file, damaged, puts, latest>>

Damage ==
  /\ ~damaged
  /\ damaged' = TRUE
  /\ UNCHANGED <<file, clock, puts, latest>>

Next ==
  \/ \E k \in LookupKeys, size \in Sizes : Put(k, size)
  \/ PutFails \/ Compact \/ SetClock \/ Damage

Spec == Init /\ [][Next]_vars
-----------------------------------------------------------------------------
\* Every variable keeps its type.
TypeOK ==
  /\ file \in Seq(Entries) /\ damaged \in BOOLEAN /\ clock \in 1..MaxClock
  /\ puts \in 0..MaxPuts /\ latest \in [LookupKeys -> 0..MaxPuts]

\* No entry of the file was replaced by a later one under its key, at any
\* time: neither a clock set back nor a file rewritten brings one back.
LatestWins ==
  ~damaged => \A i \in 1..Len(file) : file[i].put = latest[file[i].key]

\* Whatever write leaves, read accepts, at any later time of the clock: the
\* file never locks itself out by its size, its count or its duplicates, for
\* which read would give up all of it (src/README.md:17, "bounded").
WrittenIsReadable == ~damaged => WithinLimits

\* Every entry is the latest put under its key, and the file can be read.
EntriesAreCurrent == LatestWins /\ WrittenIsReadable

\* A put that succeeds is found by a lookup right after, even when the file
\* is full or could not be read before.
StoredIsFound ==
  [][\A k \in LookupKeys :
       latest'[k] # latest[k] => \E e \in Get(k)' : e.put = latest'[k]]_vars

\* When a put makes others give way, those stored longest ago do.
OldestGivesWay ==
  [][CanRead /\ latest' # latest =>
       \A e, f \in Range(Fresh(file)) :
         e \in Range(file') /\ f \notin Range(file') =>
           e.put > f.put \/ latest'[f.key] # latest[f.key]]_vars

\* A put keeps what it stores and gives up what was stored longest ago.
PutIsRight == StoredIsFound /\ OldestGivesWay

\* To the controller the file is a PassageStore; a damaged one is empty.
Store == INSTANCE PassageStore WITH
  Values <- 1..MaxPuts,
  cache <- IF damaged THEN {} ELSE {[key |-> e.key, value |-> e.put] : e \in Range(file)}

\* The file does nothing a PassageStore may not do.
StoreSpec == Store!Spec
=============================================================================
