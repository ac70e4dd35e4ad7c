--------------------------- MODULE SettingsProofs ---------------------------
(* Proofs about KeyStorage and Settings, for any keys, times and display     *)
(* settings.  Those about KeyStorage come first and speak of no variable of  *)
(* the settings; the others rest on them, because a step of the settings is  *)
(* one of KeyStorage, or none.                                               *)
EXTENDS Settings, TLAPS

(* The key storage. *)

\* What a start finds outside the settings files.
Loaded == IF stored # None THEN stored ELSE file

\* What each step of the main thread may rely on.
Phases ==
  /\ proc.step = "off" => /\ proc = Off /\ apiKey = None /\ pending = {}
                          /\ ~error /\ ~told /\ ~migrated
  /\ proc.step = "idle" => proc = Idle
  /\ proc.step = "set" =>
       \/ proc.task = "file" /\ stored = None /\ file = proc.key
       \/ /\ proc.task = "legacy" /\ proc.key = LegacyKey /\ apiKey = None
          /\ stored = None /\ file = None /\ ~error
       \/ proc.task = "save"
       \/ proc.task = "rollback" /\ proc.key = apiKey
  /\ proc.step = "set" => proc.key # None
  /\ proc.step = "removeFile" =>
       \/ proc.task \in {"load", "file"} /\ stored = apiKey
       \/ proc.task \in {"save", "rollback"} /\ proc.key = None
  /\ proc.step \in {"deleteEntry", "clearPreferences"} =>
       proc.task \in {"save", "rollback"} /\ proc.key = None
  /\ proc.step = "settings" => proc.task = "save" /\ stored = proc.key
  /\ proc.step = "legacy" => proc.task = "load"
  /\ proc.step = "drop" => proc.task \in {"settings", "former"}

\* A start goes by the copy that counts.
Starts ==
  /\ (proc.step \in {"legacy", "drop"} \/ proc.task \in {"load", "file"}) /\ apiKey # None =>
       apiKey = Loaded
  /\ proc.step \in {"removeFile", "set"} /\ proc.task \in {"load", "file"} => apiKey # None
  /\ proc.step = "drop" => apiKey # None
  /\ proc.step = "legacy" /\ apiKey = None /\ ~error => stored = None /\ file = None
  /\ proc.step = "legacy" /\ apiKey = None /\ ~told => Loaded \notin Keys

\* A key is dropped from the settings files only when another one counts.
Drops == pending # {} /\ ~told /\ ~removed => Loaded \in Keys

\* What a save relies on beyond KeyKept.
Saves ==
  ~told /\ ~removed =>
    /\ proc.task = "save" /\ proc.step # "settings" => NextStart = apiKey
    /\ proc.step = "settings" /\ proc.key = None => NextStart = apiKey
    /\ proc.step = "clearPreferences" => stored = None
    /\ proc.task = "rollback" /\ proc.key = None => stored \in Keys \/ NextStart = apiKey

\* No copy in plain text outlives the step that should have removed it
\* unless an error is reported.
Plain ==
  ~error =>
    /\ proc.step \in {"legacy", "drop", "idle", "deleteEntry", "clearPreferences", "settings"}
         => file = None
    /\ proc.task \in {"save", "rollback"} => file = None
    /\ proc.step = "drop" /\ proc.task = "former" => legacy["settings"] = None
    /\ (proc.step = "idle" \/ proc.task \in {"save", "rollback"}) /\ ~migrated =>
         legacy = [place \in Places |-> None]

IInv == TypeOK /\ Phases /\ Starts /\ Drops /\ Saves /\ Plain /\ KeyKept
-----------------------------------------------------------------------------
\* A start reads what is stored or the file, or reports that it cannot.
LEMMA LoadStep ==
  ASSUME IInv, Load
  PROVE  IInv'
<1> USE KeyStorageAssumption DEF IInv, TypeOK, Phases, Starts, Drops, Saves, Plain, KeyKept,
      Loaded, NextStart, LegacyKey, Places, At, Off, Idle, stores, history
<1>1. CASE LoadStored
  BY <1>1 DEF LoadStored
<1>2. CASE LoadFile
  BY <1>2 DEF LoadFile
<1>3. CASE LoadNothing
  BY <1>3 DEF LoadNothing
<1>4. CASE LoadFails
  BY <1>4 DEF LoadFails
<1> QED
  BY <1>1, <1>2, <1>3, <1>4 DEF Load

\* A key is stored: for a start that migrates one, or for a save.
LEMMA SetStep ==
  ASSUME IInv, NEW ok \in BOOLEAN, Set(ok)
  PROVE  IInv'
<1> USE KeyStorageAssumption DEF IInv, TypeOK, Phases, Starts, Drops, Saves, Plain, KeyKept,
      Loaded, NextStart, LegacyKey, Places, At, Off, Idle, stores, history
<1>1. CASE ok /\ proc.task = "file"
  BY <1>1 DEF Set, AfterSet
<1>2. CASE ~ok /\ proc.task = "file"
  BY <1>2 DEF Set, AfterSet
<1>3. CASE ok /\ proc.task = "legacy"
  BY <1>3 DEF Set, AfterSet
<1>4. CASE ~ok /\ proc.task = "legacy"
  BY <1>4 DEF Set, AfterSet
<1>5. CASE ok /\ proc.task = "save"
  BY <1>5 DEF Set, AfterSet
<1>6. CASE ~ok /\ proc.task = "save"
  BY <1>6 DEF Set, AfterSet
<1>7. CASE ok /\ proc.task = "rollback"
  BY <1>7 DEF Set, AfterSet
<1>8. CASE ~ok /\ proc.task = "rollback"
  BY <1>8 DEF Set, AfterSet
<1> QED
  BY <1>1, <1>2, <1>3, <1>4, <1>5, <1>6, <1>7, <1>8 DEF Set

\* The file goes, first of all when a key is removed.
LEMMA RemoveFileStep ==
  ASSUME IInv, NEW ok \in BOOLEAN, RemoveFile(ok)
  PROVE  IInv'
<1> USE KeyStorageAssumption DEF IInv, TypeOK, Phases, Starts, Drops, Saves, Plain, KeyKept,
      Loaded, NextStart, LegacyKey, Places, At, Off, Idle, stores, history
<1>1. CASE ~Removing /\ ok
  BY <1>1 DEF RemoveFile, Removing
<1>2. CASE ~Removing /\ ~ok
  BY <1>2 DEF RemoveFile, Removing
<1>3. CASE Removing /\ ok /\ file # None
  BY <1>3 DEF RemoveFile, Removing
<1>4. CASE Removing /\ ok /\ file = None
  BY <1>4 DEF RemoveFile, Removing
<1>5. CASE Removing /\ ~ok
  BY <1>5 DEF RemoveFile, Removing
<1> QED
  BY <1>1, <1>2, <1>3, <1>4, <1>5

\* The key entry goes, and what is stored becomes unreadable.
LEMMA DeleteEntryStep ==
  ASSUME IInv, NEW ok \in BOOLEAN, DeleteEntry(ok)
  PROVE  IInv'
<1> USE KeyStorageAssumption DEF IInv, TypeOK, Phases, Starts, Drops, Saves, Plain, KeyKept,
      Loaded, NextStart, LegacyKey, Places, At, Off, Idle, stores, history
<1>1. CASE ok /\ stored # None
  BY <1>1 DEF DeleteEntry
<1>2. CASE ok /\ stored = None
  BY <1>2 DEF DeleteEntry
<1>3. CASE ~ok
  BY <1>3 DEF DeleteEntry
<1> QED
  BY <1>1, <1>2, <1>3

\* What is stored goes.
LEMMA ClearPreferencesStep ==
  ASSUME IInv, NEW ok \in BOOLEAN, ClearPreferences(ok)
  PROVE  IInv'
<1> USE KeyStorageAssumption DEF IInv, TypeOK, Phases, Starts, Drops, Saves, Plain, KeyKept,
      Loaded, NextStart, LegacyKey, Places, At, Off, Idle, stores, history
<1>1. CASE ok
  BY <1>1 DEF ClearPreferences
<1>2. CASE ~ok
  BY <1>2 DEF ClearPreferences
<1> QED
  BY <1>1, <1>2

\* A start looks at the settings files.
LEMMA LegacyStep ==
  ASSUME IInv, Legacy
  PROVE  IInv'
<1> USE KeyStorageAssumption DEF IInv, TypeOK, Phases, Starts, Drops, Saves, Plain, KeyKept,
      Loaded, NextStart, LegacyKey, Places, At, Off, Idle, stores, history
<1>1. CASE NoLegacy
  BY <1>1 DEF NoLegacy
<1>2. CASE RejectLegacy
  BY <1>2 DEF RejectLegacy, Accepted
<1>3. CASE SupersedeLegacy
  BY <1>3 DEF SupersedeLegacy, Accepted
<1>4. CASE StoreLegacy
  BY <1>4 DEF StoreLegacy, Accepted
<1>5. CASE UseLegacy
  BY <1>5 DEF UseLegacy, Accepted
<1> QED
  BY <1>1, <1>2, <1>3, <1>4, <1>5 DEF Legacy

\* It drops the key from one of them.
LEMMA DropLegacyStep ==
  ASSUME IInv, NEW ok \in BOOLEAN, DropLegacy(ok)
  PROVE  IInv'
<1> USE KeyStorageAssumption DEF IInv, TypeOK, Phases, Starts, Drops, Saves, Plain, KeyKept,
      Loaded, NextStart, LegacyKey, Places, At, Off, Idle, stores, history
<1>1. CASE ok
  BY <1>1 DEF DropLegacy, Dropped
<1>2. CASE ~ok
  BY <1>2 DEF DropLegacy, Dropped
<1> QED
  BY <1>1, <1>2

\* A settings file written late does not change which key counts.
LEMMA FlushStep ==
  ASSUME IInv, Flush
  PROVE  IInv'
<1> USE KeyStorageAssumption DEF IInv, TypeOK, Phases, Starts, Drops, Saves, Plain, KeyKept,
      Loaded, NextStart, LegacyKey, Places, At, Off, Idle, stores, history
<1> PICK place \in pending : Dropped(place, TRUE)
  BY DEF Flush
<1>1. /\ proc = Idle \/ (proc.step = "settings" /\ proc.task = "save" /\ stored = proc.key)
      /\ UNCHANGED <<apiKey, error, proc, stored, file, history>>
      /\ place \in Places
      /\ legacy' = [legacy EXCEPT ![place] = None]
      /\ pending' = pending \ {place}
  BY DEF Flush, Dropped
<1>2. TypeOK'
  BY <1>1
<1>3. Plain'
  <2>1. legacy = [p \in Places |-> None] => legacy' = legacy
    BY <1>1
  <2> QED
    BY <1>1, <2>1
<1>4. ~told /\ ~removed => NextStart' = NextStart
  BY <1>1
<1> HIDE DEF NextStart
<1>5. Phases' /\ Starts' /\ Drops' /\ Saves' /\ KeyKept'
  BY <1>1, <1>4
<1> QED
  BY <1>2, <1>3, <1>5

\* A save begins with the key.
LEMMA SaveStep ==
  ASSUME IInv, NEW key \in Keys \cup {None}, Save(key)
  PROVE  IInv'
<1> USE KeyStorageAssumption DEF IInv, TypeOK, Phases, Starts, Drops, Saves, Plain, KeyKept,
      Loaded, NextStart, LegacyKey, Places, At, Off, Idle, stores, history
<1>1. CASE key = None
  BY <1>1 DEF Save, Keep
<1>2. CASE key # None
  BY <1>2 DEF Save, Keep
<1> QED
  BY <1>1, <1>2

\* The rest of a save succeeds, and the key is in use,
LEMMA SavedStep ==
  ASSUME IInv, Saved
  PROVE  IInv'
<1> USE KeyStorageAssumption DEF IInv, TypeOK, Phases, Starts, Drops, Saves, Plain, KeyKept,
      Loaded, NextStart, LegacyKey, Places, At, Off, Idle, stores, history
<1> QED
  BY DEF Saved

\* or it fails, and the old key is put back.
LEMMA NotSavedStep ==
  ASSUME IInv, NotSaved
  PROVE  IInv'
<1> USE KeyStorageAssumption DEF IInv, TypeOK, Phases, Starts, Drops, Saves, Plain, KeyKept,
      Loaded, NextStart, LegacyKey, Places, At, Off, Idle, stores, history
<1> QED
  BY DEF NotSaved, RolledBack, Keep

\* A process that ends leaves a start a consistent choice.
LEMMA DiesStep ==
  ASSUME IInv, Dies
  PROVE  IInv'
<1> USE KeyStorageAssumption DEF IInv, TypeOK, Phases, Starts, Drops, Saves, Plain, KeyKept,
      Loaded, NextStart, LegacyKey, Places, At, Off, Idle, stores, history
<1> QED
  BY DEF Dies

\* Nothing happens.
LEMMA StutterStep ==
  ASSUME IInv, UNCHANGED vars
  PROVE  IInv'
  BY DEF vars, IInv, TypeOK, Phases, Starts, Drops, Saves, Plain, KeyKept,
      Loaded, NextStart, LegacyKey, Places, At, Off, Idle, stores, history
-----------------------------------------------------------------------------
LEMMA InitIInv == ASSUME Init PROVE IInv
<1> USE DEF Init, Off, At
<1>1. TypeOK
  BY DEF TypeOK
<1>2. Phases /\ Starts /\ Drops /\ Saves /\ Plain
  BY DEF Phases, Starts, Drops, Saves, Plain
<1>3. KeyKept
  BY DEF KeyKept
<1> QED
  BY <1>1, <1>2, <1>3 DEF IInv

LEMMA StepIInv == ASSUME IInv, [Next]_vars PROVE IInv'
<1>1. Outcomes \subseteq BOOLEAN
  BY DEF Outcomes
<1> QED
  BY <1>1, LoadStep, SetStep, RemoveFileStep, DeleteEntryStep, ClearPreferencesStep,
     LegacyStep, DropLegacyStep, FlushStep, SaveStep, SavedStep, NotSavedStep, DiesStep,
     StutterStep DEF Next

\* The conjunction of all parts holds in every reachable state: of a start that
\* any failure or crash may cut short, and of every save and its rollback.
THEOREM Invariance == Spec => []IInv
<1>1. Init => IInv
  BY InitIInv
<1>2. IInv /\ [Next]_vars => IInv'
  BY StepIInv
<1> QED
  BY <1>1, <1>2, PTL DEF Spec

\* Every variable keeps its type; no text but a valid key is ever in use.
THEOREM TypeCorrect == Spec => []TypeOK
  BY Invariance, PTL DEF IInv

\* The key the next start will find is the one in use, whatever has failed,
\* unless the user was told otherwise.
THEOREM KeyIsKept == Spec => []KeyKept
  BY Invariance, PTL DEF IInv

\* After a start that has reported nothing, no key is left in plain text
\* outside the settings files whose key that start has stored.
THEOREM NoKeyInPlainText == Spec => []NothingInPlainText
<1>1. IInv => NothingInPlainText
  BY DEF IInv, Phases, Plain, NothingInPlainText, Idle, At
<1> QED
  BY <1>1, Invariance, PTL

\* No step of a start changes which key a start finds.
THEOREM StartsKeepTheKey == Spec => StartKeepsKey
<1>1. IInv /\ [Next]_vars => [Starting => NextStart' = NextStart]_vars
  <2> SUFFICES ASSUME IInv, Next, Starting PROVE NextStart' = NextStart
    BY DEF vars
  <2> USE KeyStorageAssumption DEF IInv, TypeOK, Phases, Starts, Starting, NextStart, Loaded,
        LegacyKey, Places, Off, Idle, At, stores, history
  <2>1. proc.step \in {"removeFile", "set", "legacy", "drop"}
    OBVIOUS
  <2>2. ASSUME NEW ok \in BOOLEAN, Set(ok) PROVE NextStart' = NextStart
    BY <2>2 DEF Set
  <2>3. ASSUME NEW ok \in BOOLEAN, RemoveFile(ok) PROVE NextStart' = NextStart
    BY <2>3 DEF RemoveFile
  <2>4. ASSUME NEW ok \in BOOLEAN, DropLegacy(ok) PROVE NextStart' = NextStart
    BY <2>4 DEF DropLegacy, Dropped
  <2>5. CASE Legacy
    BY <2>5 DEF Legacy, NoLegacy, RejectLegacy, SupersedeLegacy, StoreLegacy, UseLegacy
  <2>6. CASE Dies
    BY <2>6 DEF Dies
  <2> QED
    BY <2>1, <2>2, <2>3, <2>4, <2>5, <2>6 DEF Next, Outcomes, Load, LoadStored, LoadFile,
       LoadNothing, LoadFails, Flush, DeleteEntry, ClearPreferences, Save, Saved, NotSaved
<1> QED
  BY <1>1, Invariance, PTL DEF Spec, StartKeepsKey
-----------------------------------------------------------------------------
(* The settings. *)

\* Where a save is, and what it has done so far.
Stages ==
  saving # None =>
    /\ saving.stage # "key" => proc.step = "settings"
    /\ proc.task \in {"save", "rollback"} /\ proc.step # "idle"
    /\ look = saving.old.look /\ ticking = (saving.old.autoOpenAt # None)
    /\ saving.stage \in {"key", "write", "restoreKey"} =>
         settings = saving.old /\ (failed \/ disk = settings)
    /\ saving.stage = "schedule" => settings = saving.values /\ disk = settings /\ ~failed

\* Between two saves, and before the settings are read.
Rest ==
  /\ saving = None /\ look # None =>
       /\ look = settings.look
       /\ ticking = (settings.autoOpenAt # None)
       /\ failed \/ disk = settings
  /\ look = None => disk = settings

\* The variables of this module; those of KeyStorage have IInv.
Types ==
  /\ settings \in Persisted /\ disk \in Persisted
  /\ look # None => settings \in Values
  /\ failed \in BOOLEAN /\ ticking \in BOOLEAN /\ look \in Looks \cup {None}
  /\ saving \in {None} \cup [stage : SaveStages, values : Values, old : Values]
  /\ saving # None => look # None

SInv == IInv /\ Types /\ Stages /\ Rest
-----------------------------------------------------------------------------
(* Every step is one of KeyStorage, or none. *)

\* A sync of the settings is a flush to KeyStorage, or nothing.
LEMMA SyncIsFlush ==
  ASSUME NEW values, NEW ok, Sync(values, ok), proc.step \in {"idle", "settings"},
         UNCHANGED <<apiKey, error, proc, stored, file, history>>
  PROVE  [Next]_vars
<1>1. CASE ok /\ "settings" \in pending
  <2>1. Dropped("settings", TRUE)
    BY <1>1 DEF Sync
  <2>2. \E place \in pending : Dropped(place, TRUE)
    BY <1>1, <2>1
  <2> QED
    BY <2>2 DEF Flush, Next
<1>2. CASE ~(ok /\ "settings" \in pending)
  BY <1>2 DEF Sync, vars, stores
<1> QED
  BY <1>1, <1>2

LEMMA StepIsKeyStep == ASSUME SInv, [SettingsNext]_allVars PROVE [Next]_vars
<1>1. CASE StartStep
  BY <1>1 DEF StartStep, Next
<1>2. CASE DropStep
  BY <1>2 DEF DropStep, Next
<1>3. CASE FlushFormer
  <2>1. \E place \in pending : Dropped(place, TRUE)
    BY <1>3 DEF FlushFormer
  <2> QED
    BY <1>3, <2>1 DEF FlushFormer, AtRest, Flush, Next
<1>4. ASSUME NEW ok \in Outcomes, FlushSettings(ok) PROVE [Next]_vars
  BY <1>4, SyncIsFlush DEF FlushSettings, AtRest
<1>5. ASSUME NEW ok \in Outcomes, Construct(ok) PROVE [Next]_vars
  <2>1. CASE Repaired = settings
    BY <1>5, <2>1 DEF Construct, vars, stores
  <2>2. CASE Repaired # settings
    BY <1>5, <2>2, SyncIsFlush DEF Construct
  <2> QED
    BY <2>1, <2>2
<1>6. ASSUME NEW ok \in Outcomes, WriteSettings(ok) PROVE [Next]_vars
  BY <1>6, SyncIsFlush DEF WriteSettings, Stage, SInv, Stages
<1>7. ASSUME NEW ok \in Outcomes, RestoreSettings(ok) PROVE [Next]_vars
  BY <1>7, SyncIsFlush DEF RestoreSettings, Stage, SInv, Stages
<1>8. ASSUME NEW value \in Looks, NEW ok \in Outcomes, SetLook(value, ok) PROVE [Next]_vars
  BY <1>8, SyncIsFlush DEF SetLook, AtRest
<1>9. ASSUME NEW key \in Keys \cup {None}, NEW values \in Values, StartSave(key, values)
      PROVE [Next]_vars
  BY <1>9 DEF StartSave, Next
<1>10. CASE KeyStep
  BY <1>10 DEF KeyStep, Next
<1>11. CASE Scheduled
  BY <1>11 DEF Scheduled, Next
<1>12. CASE NotScheduled
  BY <1>12 DEF NotScheduled, vars
<1>13. CASE RestoreKey
  BY <1>13 DEF RestoreKey, Next
<1>14. CASE SettingsDie
  BY <1>14 DEF SettingsDie, Next
<1>15. CASE UNCHANGED allVars
  BY <1>15 DEF allVars
<1> QED
  BY <1>1, <1>2, <1>3, <1>4, <1>5, <1>6, <1>7, <1>8, <1>9, <1>10, <1>11, <1>12, <1>13,
     <1>14, <1>15 DEF SettingsNext
-----------------------------------------------------------------------------
(* The parts that are not about keys, action by action. *)

LEMMA InitSInv == ASSUME SettingsInit PROVE SInv
<1>1. IInv
  BY InitIInv DEF SettingsInit
<1> QED
  BY <1>1 DEF SettingsInit, SInv, Types, Stages, Rest

\* Going to another stage changes nothing else of a save.
LEMMA GoToStage ==
  ASSUME Types, saving # None, GoTo("write") \/ GoTo("schedule") \/ GoTo("restore")
                               \/ GoTo("restoreKey") \/ GoTo("key")
  PROVE  /\ saving' \in [stage : SaveStages, values : Values, old : Values]
         /\ saving' # None /\ saving'.old = saving.old /\ saving'.values = saving.values
         /\ saving.old \in Values /\ saving.values \in Values
         /\ Values \subseteq Persisted
<1> DEFINE S == [stage : SaveStages, values : Values, old : Values]
<1>1. saving \in S
  BY DEF Types
<1>2. PICK st \in SaveStages : saving' = [saving EXCEPT !.stage = st]
  BY DEF GoTo, SaveStages
<1>3. saving' \in S /\ saving'.old = saving.old /\ saving'.values = saving.values
  BY <1>1, <1>2
<1>4. saving' # None
  BY <1>3, SettingsAssumption
<1>5. Values \subseteq Persisted
  BY DEF Values, Persisted
<1> QED
  BY <1>1, <1>3, <1>4, <1>5

LEMMA StartKeepsTypes ==
  ASSUME SInv, StartStep \/ DropStep \/ FlushFormer
  PROVE  Types' /\ Stages' /\ Rest'
<1> USE DEF SInv, Types, Stages, Rest, settingVars
<1>1. CASE StartStep
  BY <1>1 DEF StartStep
<1>2. CASE DropStep
  BY <1>2 DEF DropStep
<1>3. CASE FlushFormer
  BY <1>3 DEF FlushFormer, AtRest
<1> QED
  BY <1>1, <1>2, <1>3

LEMMA FlushKeepsTypes ==
  ASSUME SInv, NEW ok \in BOOLEAN, FlushSettings(ok)
  PROVE  Types' /\ Stages' /\ Rest'
  BY DEF SInv, Types, Stages, Rest, FlushSettings, Sync, AtRest

LEMMA ConstructKeepsTypes ==
  ASSUME SInv, NEW ok \in BOOLEAN, Construct(ok)
  PROVE  Types' /\ Stages' /\ Rest'
<1> USE SettingsAssumption DEF SInv, Types, Construct
<1>1. Repaired \in Values
  BY DEF Repaired, Persisted, Values
<1>2. settings' = Repaired /\ disk' \in Persisted /\ (failed' \/ disk' = settings')
  BY <1>1 DEF Sync, Values, Persisted, Rest
<1> QED
  BY <1>1, <1>2 DEF Values, Persisted, Sync, Stages, Rest

LEMMA SetLookKeepsTypes ==
  ASSUME SInv, NEW value \in Looks, NEW ok \in BOOLEAN, SetLook(value, ok)
  PROVE  Types' /\ Stages' /\ Rest'
<1> USE DEF SInv, SetLook, AtRest
<1>1. settings \in Values
  BY DEF Types
<1>2. settings' = [settings EXCEPT !.look = value] /\ settings' \in Values
  BY <1>1 DEF Sync, Values
<1>3. settings'.look = value /\ settings'.autoOpenAt = settings.autoOpenAt
  BY <1>1, <1>2 DEF Values
<1>4. Values \subseteq Persisted
  BY DEF Values, Persisted
<1>5. disk' \in Persisted /\ failed' \in BOOLEAN /\ (failed' \/ disk' = settings')
  BY <1>2, <1>4 DEF Sync, Types, Rest
<1>6. saving' = None /\ look' = value /\ ticking' = ticking
      /\ ticking = (settings.autoOpenAt # None)
  BY DEF Rest
<1>7. Types'
  BY <1>2, <1>4, <1>5, <1>6, SettingsAssumption DEF Types
<1> QED
  BY <1>2, <1>3, <1>5, <1>6, <1>7, SettingsAssumption DEF Stages, Rest

LEMMA StartSaveKeepsTypes ==
  ASSUME SInv, NEW key \in Keys \cup {None}, NEW values \in Values, StartSave(key, values)
  PROVE  Types' /\ Stages' /\ Rest'
<1>1. proc'.task = "save" /\ proc'.step # "idle"
  BY DEF StartSave, Save, Keep, At
<1>2. saving' = [stage |-> "key", values |-> values, old |-> settings] /\ saving'.stage = "key"
      /\ saving'.old = settings /\ settings \in Values
  BY DEF StartSave, AtRest, SInv, Types
<1>3. Types'
  BY <1>2 DEF StartSave, AtRest, SInv, Types, SaveStages
<1>4. Stages' /\ Rest'
  BY <1>1, <1>2 DEF StartSave, AtRest, SInv, Stages, Rest
<1> QED
  BY <1>3, <1>4

\* While the key is saved or restored, the main thread stays with that task.
LEMMA KeyStepStays ==
  ASSUME SInv, KeyStep
  PROVE  /\ saving.stage = "key"
         /\ proc'.step # "idle" => proc'.task = proc.task
<1> USE DEF SInv, IInv, TypeOK, Stages, KeyStep
<1>1. PICK ok \in Outcomes : Set(ok) \/ RemoveFile(ok) \/ DeleteEntry(ok) \/ ClearPreferences(ok)
  OBVIOUS
<1>2. proc.step # "settings"
  BY <1>1 DEF Set, RemoveFile, DeleteEntry, ClearPreferences
<1>3. saving.stage = "key" /\ proc.task \in {"save", "rollback"}
  BY <1>2
<1>4. CASE Set(ok)
  BY <1>3, <1>4 DEF Set, AfterSet, Idle, At
<1>5. CASE RemoveFile(ok)
  BY <1>3, <1>5 DEF RemoveFile, Removing, Idle, At
<1>6. CASE DeleteEntry(ok) \/ ClearPreferences(ok)
  BY <1>3, <1>6 DEF DeleteEntry, ClearPreferences, Idle, At
<1> QED
  BY <1>1, <1>3, <1>4, <1>5, <1>6

LEMMA KeyStepKeepsTypes ==
  ASSUME SInv, KeyStep
  PROVE  Types' /\ Stages' /\ Rest'
<1> USE KeyStepStays DEF SInv, Types, KeyStep
<1>1. CASE proc'.step = "idle"
  BY <1>1 DEF Stages, Rest
<1>2. CASE proc'.step = "settings"
  <2>1. GoTo("write") /\ saving' = [saving EXCEPT !.stage = "write"]
    BY <1>2 DEF GoTo
  <2>2. Types'
    BY <2>1, GoToStage
  <2> QED
    BY <1>2, <2>1, <2>2, GoToStage DEF Stages, Rest
<1>3. CASE proc'.step \notin {"idle", "settings"}
  <2>1. saving' = saving
    BY <1>3
  <2> QED
    BY <1>3, <2>1 DEF Stages, Rest
<1> QED
  BY <1>1, <1>2, <1>3

LEMMA WriteKeepsTypes ==
  ASSUME SInv, NEW ok \in BOOLEAN, WriteSettings(ok)
  PROVE  Types' /\ Stages' /\ Rest'
<1> USE DEF SInv, WriteSettings, Stage
<1>1. GoTo("restore") \/ GoTo("schedule")
  OBVIOUS
<1>2. saving'.stage = IF failed' THEN "restore" ELSE "schedule"
  BY DEF GoTo, Types
<1>3. Types'
  BY <1>1, GoToStage DEF Types, Sync
<1>4. Stages'
  BY <1>1, <1>2, GoToStage DEF Sync, Stages, Types
<1>5. Rest'
  BY <1>1, GoToStage DEF Rest, Types
<1> QED
  BY <1>3, <1>4, <1>5

LEMMA ScheduledKeepsTypes ==
  ASSUME SInv, Scheduled
  PROVE  Types' /\ Stages' /\ Rest'
<1> USE DEF SInv, Scheduled, Stage
<1>1. settings = saving.values /\ disk = settings /\ settings.look \in Looks
  BY DEF Stages, Types, Values
<1>2. Types'
  BY <1>1, SettingsAssumption DEF Types
<1>3. Stages' /\ Rest'
  BY <1>1 DEF Stages, Rest
<1> QED
  BY <1>2, <1>3

LEMMA NotScheduledKeepsTypes ==
  ASSUME SInv, NotScheduled
  PROVE  Types' /\ Stages' /\ Rest'
<1> USE DEF SInv, NotScheduled, Stage, vars
<1>1. GoTo("restore") /\ saving'.stage = "restore"
  BY DEF GoTo, Types
<1>2. Types'
  BY <1>1, GoToStage DEF Types
<1> QED
  BY <1>1, <1>2, GoToStage DEF Stages, Rest

LEMMA RestoreKeepsTypes ==
  ASSUME SInv, NEW ok \in BOOLEAN, RestoreSettings(ok)
  PROVE  Types' /\ Stages' /\ Rest'
<1> USE DEF SInv, RestoreSettings, Stage
<1>1. GoTo("restoreKey") /\ saving'.stage = "restoreKey"
  BY DEF GoTo, Types
<1>2. Types'
  BY <1>1, GoToStage DEF Types, Sync, Old
<1>3. settings' = saving.old /\ (failed' \/ disk' = settings')
  BY DEF Sync, Old
<1> QED
  BY <1>1, <1>2, <1>3, GoToStage DEF Stages, Rest, Types

LEMMA RestoreKeyKeepsTypes ==
  ASSUME SInv, RestoreKey
  PROVE  Types' /\ Stages' /\ Rest'
<1> USE DEF SInv, RestoreKey, Stage
<1>1. GoTo("key") /\ saving'.stage = "key"
  BY DEF GoTo, Types
<1>2. Types'
  BY <1>1, GoToStage DEF Types
<1>3. proc'.task = "rollback" /\ proc'.step # "idle"
  BY DEF NotSaved, RolledBack, Keep, At
<1> QED
  BY <1>1, <1>2, <1>3, GoToStage DEF Stages, Rest

LEMMA DieKeepsTypes ==
  ASSUME SInv, SettingsDie
  PROVE  Types' /\ Stages' /\ Rest'
  BY DEF SInv, Types, Stages, Rest, SettingsDie

LEMMA StepSInv == ASSUME SInv, [SettingsNext]_allVars PROVE SInv'
<1>1. IInv'
  BY StepIsKeyStep, StepIInv DEF SInv
<1>2. Outcomes \subseteq BOOLEAN
  BY DEF Outcomes
<1>3. CASE UNCHANGED allVars
  BY <1>1, <1>3 DEF SInv, Types, Stages, Rest, allVars, vars, settingVars
<1>4. Types' /\ Stages' /\ Rest'
  BY <1>2, <1>3, StartKeepsTypes, FlushKeepsTypes, ConstructKeepsTypes, SetLookKeepsTypes,
     StartSaveKeepsTypes, KeyStepKeepsTypes, WriteKeepsTypes, ScheduledKeepsTypes,
     NotScheduledKeepsTypes, RestoreKeepsTypes, RestoreKeyKeepsTypes, DieKeepsTypes
     DEF SettingsNext, SInv
<1> QED
  BY <1>1, <1>4 DEF SInv
-----------------------------------------------------------------------------
\* The strengthening is an invariant of the settings.
THEOREM SettingsInvariance == SettingsSpec => []SInv
<1>1. SettingsInit => SInv
  BY InitSInv
<1>2. SInv /\ [SettingsNext]_allVars => SInv'
  BY StepSInv
<1> QED
  BY <1>1, <1>2, PTL DEF SettingsSpec

\* The settings and the keys together implement KeyStorage: no sync, setter or
\* save does to a key what KeyStorage does not allow.
THEOREM SettingsUseKeyStorage == SettingsSpec => KeySpec
<1>1. SettingsInit => Init
  BY DEF SettingsInit
<1>2. SInv /\ [SettingsNext]_allVars => [Next]_vars
  BY StepIsKeyStep
<1> QED
  BY <1>1, <1>2, SettingsInvariance, PTL DEF SettingsSpec, KeySpec, Spec

\* So what holds of KeyStorage holds here: the key the next start will find is
\* the one in use.
THEOREM SavesKeepTheKey == SettingsSpec => []KeyKept
  BY SettingsUseKeyStorage, KeyIsKept, PTL DEF KeySpec

\* The key that is in force is kept, and not in plain text.
THEOREM SettingsKeepTheKeySafe == SettingsSpec => []KeySafe
  BY SettingsUseKeyStorage, KeyIsKept, NoKeyInPlainText, PTL DEF KeySpec, KeySafe

\* No step of a start changes which key a start finds, whatever the settings and
\* a save that was cut short have left behind.
THEOREM SettingsStartsKeepTheKey == SettingsSpec => StartKeepsKey
  BY SettingsUseKeyStorage, StartsKeepTheKey, PTL DEF KeySpec

\* No setting is one the program would not accept, once it is started.
THEOREM SettingsAreTyped == SettingsSpec => []SettingsTypeOK
<1>1. SInv => SettingsTypeOK
  BY DEF SInv, IInv, Types, SettingsTypeOK
<1> QED
  BY <1>1, SettingsInvariance, PTL

\* What is set is in force and, unless a write has failed, in the file; and
\* the file does not have the settings of a save before the storage has its key.
THEOREM SettingsAreInForce == SettingsSpec => []SettingsInForce
<1>1. SInv => SettingsInForce
  <2>1. ASSUME SInv, AtRest
        PROVE  look = settings.look /\ ticking = (settings.autoOpenAt # None)
               /\ (failed \/ disk = settings)
    BY <2>1 DEF SInv, Rest, AtRest
  <2>2. ASSUME SInv, saving # None, ~failed, disk # saving.old, proc.key # None
        PROVE  NextStart = proc.key
    <3>1. saving.stage \in {"schedule", "restore"}
      BY <2>2 DEF SInv, Types, Stages, SaveStages
    <3>2. proc.step = "settings" /\ stored = proc.key /\ proc.key \in Keys
      BY <2>2, <3>1 DEF SInv, Stages, IInv, Phases, TypeOK
    <3> QED
      BY <3>2, KeyStorageAssumption DEF NextStart
  <2> QED
    BY <2>1, <2>2 DEF SettingsInForce
<1> QED
  BY <1>1, SettingsInvariance, PTL

\* A save takes effect as a whole or not at all.
THEOREM SavesAreWhole == SettingsSpec => SaveIsWhole
<1>1. ASSUME SInv, [SettingsNext]_allVars, saving # None, saving' = None, proc'.step # "off"
      PROVE  \/ /\ apiKey' = proc.key /\ (proc.key # None => NextStart' = proc.key)
                /\ settings' = saving.values /\ disk' = settings' /\ look' = settings'.look
             \/ /\ apiKey' = apiKey /\ settings' = saving.old
                /\ look' = settings'.look /\ UNCHANGED ticking
  <2>1. CASE KeyStep
    <3>1. apiKey' = apiKey
      BY <2>1, <1>1 DEF KeyStep, SInv, Stages, Set, RemoveFile, DeleteEntry, ClearPreferences
    <3> QED
      BY <2>1, <3>1, <1>1, KeyStepStays DEF KeyStep, SInv, Stages
  <2>2. CASE Scheduled
    <3>1. proc.step = "settings" /\ stored = proc.key /\ proc.key \in Keys \cup {None}
          /\ stored' = stored
      BY <2>2, <1>1 DEF Scheduled, Saved, SInv, IInv, Phases, TypeOK, stores
    <3>2. proc.key # None => NextStart' = proc.key
      BY <3>1, KeyStorageAssumption DEF NextStart
    <3> QED
      BY <2>2, <3>2, <1>1 DEF Scheduled, Saved, Stage, SInv, Stages
  <2>3. CASE ~KeyStep /\ ~Scheduled
    <3>1. CASE SettingsDie
      BY <1>1, <3>1 DEF SettingsDie, Dies, Off, At
    <3>2. ASSUME NEW ok \in Outcomes, WriteSettings(ok) \/ RestoreSettings(ok)
          PROVE  saving' # None
      BY <1>1, <3>2, GoToStage DEF WriteSettings, RestoreSettings, SInv
    <3>3. ASSUME NotScheduled \/ RestoreKey PROVE saving' # None
      BY <1>1, <3>3, GoToStage DEF NotScheduled, RestoreKey, SInv
    <3>4. ASSUME NEW ok \in Outcomes, FlushSettings(ok) \/ Construct(ok)
          PROVE  UNCHANGED saving
      BY <3>4 DEF FlushSettings, Construct
    <3>5. ASSUME StartStep \/ DropStep \/ UNCHANGED allVars PROVE UNCHANGED saving
      BY <3>5 DEF StartStep, DropStep, allVars, settingVars
    <3>6. ASSUME NEW ok \in Outcomes, NEW value \in Looks, SetLook(value, ok)
          PROVE  UNCHANGED saving
      BY <3>6 DEF SetLook
    <3>7. ASSUME NEW key, NEW values, StartSave(key, values) PROVE FALSE
      BY <1>1, <3>7 DEF StartSave, AtRest
    <3>8. FlushFormer => UNCHANGED saving
      BY DEF FlushFormer, settingVars
    <3> QED
      BY <1>1, <2>3, <3>1, <3>2, <3>3, <3>4, <3>5, <3>6, <3>7, <3>8 DEF SettingsNext
  <2> QED
    BY <2>1, <2>2, <2>3
<1>2. SInv /\ [SettingsNext]_allVars =>
        [saving # None /\ saving' = None /\ proc'.step # "off" =>
           \/ /\ apiKey' = proc.key /\ (proc.key # None => NextStart' = proc.key)
              /\ settings' = saving.values /\ disk' = settings' /\ look' = settings'.look
           \/ /\ apiKey' = apiKey /\ settings' = saving.old
              /\ look' = settings'.look /\ UNCHANGED ticking]_allVars
  BY <1>1
<1> QED
  BY <1>2, SettingsInvariance, PTL DEF SettingsSpec, SaveIsWhole
=============================================================================
