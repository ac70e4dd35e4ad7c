----------------------------- MODULE KeyStorage -----------------------------
(***************************************************************************)
(* Where the ESV key is kept on Android: SecureStore (secrets.cpp) over    *)
(* SecureKeyStore.java, and the two parts of AppController that use it,    *)
(* its constructor and save_all_settings.  A key may lie in four places:   *)
(* encrypted in the preferences, and in plain text, left by versions       *)
(* before, in a file or in either of two settings files.  Every write and  *)
(* every removal is a step that may fail, and between any two of them the  *)
(* process may end.                                                        *)
(*                                                                         *)
(* The key of the Android key store is not told apart from what it         *)
(* encrypts: when it is deleted, what is stored becomes unreadable.  What  *)
(* a failed commit leaves in memory is left out: it is never read.         *)
(***************************************************************************)
CONSTANTS Keys,         \* keys that pass validatedKey and validApiKey
          Invalid,      \* any other text in place of a key
          Unreadable,   \* what is stored and cannot be decrypted
          MayFail,      \* bound: whether a read, a write or a removal may fail
          None

ASSUME KeyStorageAssumption ==
  /\ MayFail \in BOOLEAN
  /\ Keys \cap {Invalid, Unreadable, None} = {}
  /\ Invalid # None /\ Unreadable # None

VARIABLES
  apiKey,       \* m_apiKey
  error,        \* the constructor has found something to report in m_errorText
  proc,         \* what the main thread is doing
  stored,       \* CIPHERTEXT and IV in the preferences
  file,         \* the file at m_path
  legacy,       \* "apiKey" in m_settings and in m_legacySettings, in their files
  pending,      \* where its removal is not yet in the file
  told,         \* what is kept may not be what is in use, and the user was told  (the rest
  removed,      \* the last key saved was removed                    is not in the code)
  migrated      \* this start has stored the legacy key

stores == <<stored, file, legacy, pending>>
history == <<told, removed, migrated>>
vars == <<apiKey, error, proc, stores, history>>

Places == {"settings", "former"}

\* task is who waits for SecureStore: load ("load", "file"), the constructor
\* ("legacy"), save_all_settings ("save") or its rollback; key is the key to
\* be kept, None to keep none.
At(step, task, key) == [step |-> step, task |-> task, key |-> key]

Off == At("off", "none", None)
Idle == At("idle", "none", None)

\* An installation has what the versions it has gone through have left.
Init ==
  /\ apiKey = None /\ error = FALSE /\ proc = Off
  /\ stored = None
  /\ file \in Keys \cup {Invalid, None}
  /\ legacy \in [Places -> Keys \cup {Invalid, None}]
  /\ pending = {}
  /\ told = FALSE /\ removed = FALSE /\ migrated = FALSE

\* What the constructor takes for the legacy key.
LegacyKey == IF legacy["settings"] # None THEN legacy["settings"] ELSE legacy["former"]

\* The key that a start would use now if nothing failed.
NextStart ==
  LET loaded == IF stored # None THEN stored ELSE file
  IN  IF loaded \in Keys THEN loaded ELSE IF LegacyKey \in Keys THEN LegacyKey ELSE None

\* Whether an operation succeeds.
Outcomes == IF MayFail THEN BOOLEAN ELSE {TRUE}
-----------------------------------------------------------------------------
(* SecureStore::load, called by the constructor. *)

LoadStored ==
  /\ proc.step = "off"
  /\ stored \in Keys
  /\ apiKey' = stored
  /\ proc' = At("removeFile", "load", stored)
  /\ UNCHANGED <<error, stores, history>>

\* The file is not looked at when something is stored.
LoadFile ==
  /\ proc.step = "off"
  /\ stored = None /\ file \in Keys
  /\ apiKey' = file
  /\ proc' = At("set", "file", file)
  /\ UNCHANGED <<error, stores, history>>

LoadNothing ==
  /\ proc.step = "off"
  /\ stored = None /\ file = None
  /\ proc' = At("legacy", "load", None)
  /\ UNCHANGED <<apiKey, error, stores, history>>

\* What is there cannot be read, or cannot be read this time: every way to
\* read the preferences or the file may fail.
LoadFails ==
  /\ proc.step = "off"
  /\ MayFail \/ stored = Unreadable \/ (stored = None /\ file = Invalid)
  /\ error' = TRUE
  /\ told' = (stored \in Keys \/ (stored = None /\ file # Invalid))
  /\ proc' = At("legacy", "load", None)
  /\ UNCHANGED <<apiKey, stores, removed, migrated>>

Load == LoadStored \/ LoadFile \/ LoadNothing \/ LoadFails
-----------------------------------------------------------------------------
(* The operations of SecureStore, with what their callers do next. *)

\* Seeded fault: the file is removed although its key was not stored.
FaultAfterSet(task, ok) ==
  CASE task = "file"           -> At("removeFile", "file", None)
    [] task = "save" /\ ok     -> [proc EXCEPT !.step = "settings"]
    [] OTHER                   -> Idle

AfterSet(task, ok) ==
  CASE task = "file" /\ ok     -> At("removeFile", "file", None)
    [] task = "file" /\ ~ok    -> At("legacy", "load", None)
    [] task = "save" /\ ok     -> [proc EXCEPT !.step = "settings"]
    [] OTHER                   -> Idle

\* SecureKeyStore.set.  The constructor uses the legacy key even when it could
\* not be stored.
Set(ok) ==
  /\ proc.step = "set"
  /\ stored' = IF ok THEN proc.key ELSE stored
  /\ proc' = AfterSet(proc.task, ok)
  /\ apiKey' = IF proc.task = "legacy" THEN proc.key ELSE apiKey
  /\ error' = (error \/ (~ok /\ proc.task \in {"file", "legacy"}))
  /\ told' = IF proc.task \in {"save", "rollback"} /\ ok THEN FALSE
             ELSE told \/ (proc.task = "rollback")
  /\ removed' = (removed /\ ~(ok /\ proc.task = "save"))
  /\ migrated' = (migrated \/ (ok /\ proc.task = "legacy"))
  /\ UNCHANGED <<file, legacy, pending>>

Removing == proc.task \in {"save", "rollback"}

\* SecureStore::clearFile, in load and in clear.
RemoveFile(ok) ==
  /\ proc.step = "removeFile"
  /\ ok \/ file # None
  /\ file' = IF ok THEN None ELSE file
  /\ proc' = IF ~Removing THEN At("legacy", "load", None)
             ELSE IF ok THEN [proc EXCEPT !.step = "deleteEntry"] ELSE Idle
  /\ error' = (error \/ (~ok /\ ~Removing))
  /\ told' = (told \/ (Removing /\ IF ok THEN file # None ELSE proc.task = "rollback"))
  /\ UNCHANGED <<apiKey, stored, legacy, pending, removed, migrated>>

\* SecureKeyStore.delete: first the key of the key store,
DeleteEntry(ok) ==
  /\ proc.step = "deleteEntry"
  /\ stored' = IF ok /\ stored # None THEN Unreadable ELSE stored
  /\ proc' = IF ok THEN [proc EXCEPT !.step = "clearPreferences"] ELSE Idle
  /\ told' = (told \/ (ok /\ stored # None) \/ (~ok /\ proc.task = "rollback"))
  /\ UNCHANGED <<apiKey, error, file, legacy, pending, removed, migrated>>

\* then the preferences.
ClearPreferences(ok) ==
  /\ proc.step = "clearPreferences"
  /\ stored' = IF ok THEN None ELSE stored
  /\ proc' = IF ok /\ proc.task = "save" THEN [proc EXCEPT !.step = "settings"] ELSE Idle
  /\ told' = (told \/ (~ok /\ proc.task = "rollback"))
  /\ UNCHANGED <<apiKey, error, file, legacy, pending, removed, migrated>>
-----------------------------------------------------------------------------
(* The constructor: the key in the settings files. *)

Accepted(key) == key \in Keys

NoLegacy ==
  /\ proc.step = "legacy" /\ LegacyKey = None
  /\ proc' = Idle
  /\ UNCHANGED <<apiKey, error, stores, history>>

RejectLegacy ==
  /\ proc.step = "legacy" /\ LegacyKey # None /\ ~Accepted(LegacyKey)
  /\ proc' = Idle
  /\ error' = TRUE
  /\ UNCHANGED <<apiKey, stores, history>>

\* There is another key already.
SupersedeLegacy ==
  /\ proc.step = "legacy" /\ Accepted(LegacyKey) /\ apiKey # None
  /\ proc' = At("drop", "settings", None)
  /\ pending' = Places
  /\ UNCHANGED <<apiKey, error, stored, file, legacy, history>>

\* A key that is stored at this start is dropped only at the next one:
\* migrationOk is decided before.
StoreLegacy ==
  /\ proc.step = "legacy" /\ Accepted(LegacyKey) /\ apiKey = None /\ ~error
  /\ proc' = At("set", "legacy", LegacyKey)
  /\ UNCHANGED <<apiKey, error, stores, history>>

UseLegacy ==
  /\ proc.step = "legacy" /\ Accepted(LegacyKey) /\ apiKey = None /\ error
  /\ proc' = Idle
  /\ apiKey' = LegacyKey
  /\ UNCHANGED <<error, stores, history>>

Legacy == NoLegacy \/ RejectLegacy \/ SupersedeLegacy \/ StoreLegacy \/ UseLegacy

Dropped(place, ok) ==
  /\ legacy' = IF ok THEN [legacy EXCEPT ![place] = None] ELSE legacy
  /\ pending' = IF ok THEN pending \ {place} ELSE pending

\* The settings files are written one after the other.
DropLegacy(ok) ==
  /\ proc.step = "drop"
  /\ Dropped(proc.task, ok)
  /\ error' = (error \/ ~ok)
  /\ proc' = IF proc.task = "settings" THEN At("drop", "former", None) ELSE Idle
  /\ UNCHANGED <<apiKey, stored, file, history>>

\* A later sync of the same settings: from the event loop, by a setter or by a save.
Flush ==
  /\ proc.step \in {"idle", "settings"}
  /\ \E place \in pending : Dropped(place, TRUE)
  /\ UNCHANGED <<apiKey, error, proc, stored, file, history>>
-----------------------------------------------------------------------------
(* save_all_settings, once its arguments are accepted. *)

\* SecureStore::save, or SecureStore::clear.
Keep(task, key) == At(IF key = None THEN "removeFile" ELSE "set", task, key)

Save(key) ==
  /\ proc.step = "idle"
  /\ proc' = Keep("save", key)
  /\ UNCHANGED <<apiKey, error, stores, history>>

\* The settings and the schedule are written: the key is in use.
Saved ==
  /\ proc.step = "settings"
  /\ proc' = Idle
  /\ apiKey' = proc.key
  /\ removed' = (proc.key = None)
  /\ told' = FALSE
  /\ UNCHANGED <<error, stores, migrated>>

\* Seeded fault: the key is not restored.
FaultRolledBack == Idle

RolledBack == Keep("rollback", apiKey)

\* They are not: rollbackSettings restores the old key.
NotSaved ==
  /\ proc.step = "settings" /\ MayFail
  /\ proc' = RolledBack
  /\ UNCHANGED <<apiKey, error, stores, history>>
-----------------------------------------------------------------------------
\* The process ends, at any step.
Dies ==
  /\ proc.step # "off"
  /\ proc' = Off
  /\ apiKey' = None /\ error' = FALSE /\ pending' = {}
  /\ told' = FALSE /\ migrated' = FALSE
  /\ UNCHANGED <<stored, file, legacy, removed>>

Next ==
  \/ Load \/ Legacy \/ Flush
  \/ \E ok \in Outcomes : \/ Set(ok) \/ RemoveFile(ok) \/ DeleteEntry(ok)
                          \/ ClearPreferences(ok) \/ DropLegacy(ok)
  \/ \E key \in Keys \cup {None} : Save(key)
  \/ Saved \/ NotSaved \/ Dies

Spec == Init /\ [][Next]_vars
-----------------------------------------------------------------------------
\* Every variable keeps its type.
TypeOK ==
  /\ apiKey \in Keys \cup {None} /\ error \in BOOLEAN
  /\ proc \in [step : {"off", "removeFile", "set", "legacy", "drop", "idle", "deleteEntry",
                       "clearPreferences", "settings"},
               task : {"load", "file", "legacy", "settings", "former", "save", "rollback", "none"},
               key : Keys \cup {None}]
  /\ stored \in Keys \cup {Unreadable, None}
  /\ file \in Keys \cup {Invalid, None}
  /\ legacy \in [Places -> Keys \cup {Invalid, None}] /\ pending \in SUBSET Places
  /\ told \in BOOLEAN /\ removed \in BOOLEAN /\ migrated \in BOOLEAN

\* Whatever has failed since, the key that the next start will find is the one
\* in use, unless the user was told that it could not be read, removed or
\* restored; and a process that ends while one key replaces another leaves
\* one of the two.  (What becomes of a key that was removed is RemovedIsGone.)
KeyKept ==
  ~told /\ ~removed =>
    /\ proc.step = "idle" => NextStart = apiKey
    /\ proc.task = "save" /\ proc.key # None => NextStart \in {apiKey, proc.key}

Starting == proc.step # "off" /\ proc.task \in {"load", "file", "legacy", "settings", "former"}

\* No step of a start changes which key a start finds, whichever of its writes
\* fail: a copy is removed only once it is not the one that counts.  So a
\* start that is cut short loses no key.
StartKeepsKey == [][Starting => NextStart' = NextStart]_vars

\* "Stored with the Android Keystore" (src/README.md:208-209): when a start has
\* reported nothing, no key is left in plain text, but for the settings files
\* at the start that has stored their key.
NothingInPlainText ==
  proc.step = "idle" /\ ~error =>
    /\ file = None
    /\ ~migrated => legacy = [place \in Places |-> None]

\* "Removing an ESV key makes its cached entries inaccessible"
\* (src/README.md:21): once a key is removed there is none, until one is saved.
RemovedIsGone == removed => apiKey = None
=============================================================================
