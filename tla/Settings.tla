------------------------------ MODULE Settings ------------------------------
(***************************************************************************)
(* The settings of AppController (src/src/controller.cpp): the constructor *)
(* that repairs and reads them, the setters behind the sliders, and        *)
(* save_all_settings, which changes the key, the settings file and the     *)
(* alarm one after the other and takes back what it has done when a later  *)
(* step fails.  The key is kept by KeyStorage, whose main thread (proc)    *)
(* this module shares: between any two steps the process may end.          *)
(*                                                                         *)
(* A QSettings object writes its whole file or nothing; what it could not  *)
(* write it keeps and writes at a later sync, and its status reports the   *)
(* first error of the process for ever after.                              *)
(*                                                                         *)
(* Two settings stand for the seven of a save: the time of the auto-open,  *)
(* for those that only m_settings holds, and the display settings, which   *)
(* have members of the controller beside them.  The alarm is a step that   *)
(* may fail (DailyNotifications has the rest of it), and the auto-open     *)
(* that a save may cause is Overlay's.                                     *)
(***************************************************************************)
EXTENDS KeyStorage

CONSTANTS Times,        \* auto-open times: "HH:mm"
          Looks,        \* font size, scrim opacity and reveal speed, within their bounds
          DefaultLook

VARIABLES
  settings,     \* m_settings, as setting() reads it
  disk,         \* the same in its file
  failed,       \* m_settings.status() is not NoError
  look,         \* m_verseFontSize, m_scrimOpacity, m_revealSpeed; None before they are read
  ticking,      \* m_autoOpenTimer is active
  saving        \* the save under way: where it is, what it is to save, what it may restore

settingVars == <<settings, disk, failed, look, ticking, saving>>
allVars == <<vars, settingVars>>

Values == [autoOpenAt : Times \cup {None}, look : Looks]

\* Where save_all_settings is.
SaveStages == {"key", "write", "schedule", "restore", "restoreKey"}

\* What a version before may have written, or a user edited.
Persisted == [autoOpenAt : Times \cup {None, Invalid}, look : Looks \cup {Invalid}]

ASSUME SettingsAssumption ==
  /\ DefaultLook \in Looks
  /\ {None, Invalid} \cap (Times \cup Looks) = {}
  /\ None \notin [stage : SaveStages, values : Values, old : Values]

SettingsInit ==
  /\ Init
  /\ disk \in Persisted /\ settings = disk /\ failed = FALSE
  /\ look = None /\ ticking = FALSE /\ saving = None

AtRest == proc.step = "idle" /\ look # None /\ saving = None
-----------------------------------------------------------------------------
(* m_settings. *)

\* Seeded fault: a failed write is not seen, because the status is not asked.
FaultSync(values, ok) ==
  /\ settings' = values
  /\ disk' = IF ok THEN values ELSE disk
  /\ failed' = failed
  /\ IF ok /\ "settings" \in pending THEN Dropped("settings", TRUE) ELSE UNCHANGED <<legacy, pending>>

\* setValue or remove, and sync, which also writes what is pending.
Sync(values, ok) ==
  /\ settings' = values
  /\ disk' = IF ok THEN values ELSE disk
  /\ failed' = (failed \/ ~ok)
  /\ IF ok /\ "settings" \in pending THEN Dropped("settings", TRUE) ELSE UNCHANGED <<legacy, pending>>

\* The event loop writes what is pending in either settings.
FlushSettings(ok) ==
  /\ AtRest
  /\ settings # disk \/ "settings" \in pending
  /\ Sync(settings, ok)
  /\ UNCHANGED <<apiKey, error, proc, stored, file, history, look, ticking, saving>>

FlushFormer ==
  /\ AtRest
  /\ "former" \in pending /\ Dropped("former", TRUE)
  /\ UNCHANGED <<apiKey, error, proc, stored, file, history, settingVars>>
-----------------------------------------------------------------------------
(* The constructor, past the keys, and the setters. *)

\* Loading, migrating and dropping keys.
StartStep ==
  /\ look = None
  /\ \/ Load \/ Legacy
     \/ \E ok \in Outcomes : Set(ok) \/ RemoveFile(ok)
  /\ UNCHANGED settingVars

\* The sync after a legacy key was removed from m_settings is one of m_settings.
DropStep ==
  /\ look = None
  /\ \E ok \in Outcomes :
       /\ DropLegacy(ok)
       /\ failed' = (failed \/ (proc.task = "settings" /\ ~ok))
  /\ UNCHANGED <<settings, disk, look, ticking, saving>>

\* Seeded fault: only the time is repaired.
FaultRepaired == [settings EXCEPT !.autoOpenAt = IF @ = Invalid THEN None ELSE @]

Repaired ==
  [autoOpenAt |-> IF settings.autoOpenAt = Invalid THEN None ELSE settings.autoOpenAt,
   look |-> IF settings.look = Invalid THEN DefaultLook ELSE settings.look]

\* repairPersistedSettings, the members, syncAutoOpenTimer.
Construct(ok) ==
  /\ proc.step = "idle" /\ look = None
  /\ IF Repaired = settings
     THEN UNCHANGED <<settings, disk, failed, legacy, pending>>
     ELSE Sync(Repaired, ok)
  /\ look' = Repaired.look
  /\ ticking' = (Repaired.autoOpenAt # None)
  /\ UNCHANGED <<apiKey, error, proc, stored, file, history, saving>>

\* setVerseFontSize, setScrimOpacity and setRevealSpeed: the member follows the
\* slider whether or not the setting can be written.
SetLook(value, ok) ==
  /\ AtRest /\ value # look
  /\ look' = value
  /\ Sync([settings EXCEPT !.look = value], ok)
  /\ UNCHANGED <<apiKey, error, proc, stored, file, history, ticking, saving>>
-----------------------------------------------------------------------------
(* save_all_settings, with arguments it accepts. *)

\* First the key, by the steps of KeyStorage: when they fail, nothing else is
\* touched.
StartSave(key, values) ==
  /\ AtRest
  /\ Save(key)
  /\ saving' = [stage |-> "key", values |-> values, old |-> settings]
  /\ UNCHANGED <<settings, disk, failed, look, ticking>>

KeyStep ==
  /\ saving # None
  /\ \E ok \in Outcomes : Set(ok) \/ RemoveFile(ok) \/ DeleteEntry(ok) \/ ClearPreferences(ok)
  /\ saving' = CASE proc'.step = "idle"     -> None
                 [] proc'.step = "settings" -> [saving EXCEPT !.stage = "write"]
                 [] OTHER                   -> saving
  /\ UNCHANGED <<settings, disk, failed, look, ticking>>

Stage(stage) == saving # None /\ saving.stage = stage
GoTo(stage) == saving' = [saving EXCEPT !.stage = stage]

\* Then the settings.  An error of an earlier sync counts as well.
WriteSettings(ok) ==
  /\ Stage("write")
  /\ Sync(saving.values, ok)
  /\ GoTo(IF failed' THEN "restore" ELSE "schedule")
  /\ UNCHANGED <<apiKey, error, proc, stored, file, history, look, ticking>>

\* Then the alarm.
Scheduled ==
  /\ Stage("schedule")
  /\ Saved
  /\ look' = saving.values.look
  /\ ticking' = (settings.autoOpenAt # None)
  /\ saving' = None
  /\ UNCHANGED <<settings, disk, failed>>

NotScheduled ==
  /\ Stage("schedule") /\ MayFail
  /\ GoTo("restore")
  /\ UNCHANGED <<vars, settings, disk, failed, look, ticking>>

\* Seeded fault: the time of the auto-open is not restored.
FaultOld == [saving.old EXCEPT !.autoOpenAt = saving.values.autoOpenAt]

Old == saving.old

\* rollbackSettings: the settings, whether or not they can be written, and then
\* the key.
RestoreSettings(ok) ==
  /\ Stage("restore")
  /\ Sync(Old, ok)
  /\ GoTo("restoreKey")
  /\ UNCHANGED <<apiKey, error, proc, stored, file, history, look, ticking>>

\* Seeded fault: the key is not restored.
FaultRestoreKey ==
  /\ Stage("restoreKey")
  /\ proc' = Idle /\ saving' = None
  /\ UNCHANGED <<apiKey, error, stores, history, settings, disk, failed, look, ticking>>

RestoreKey ==
  /\ Stage("restoreKey")
  /\ NotSaved
  /\ GoTo("key")
  /\ UNCHANGED <<settings, disk, failed, look, ticking>>
-----------------------------------------------------------------------------
\* The process ends.  What it had not written is gone.
SettingsDie ==
  /\ Dies
  /\ settings' = disk /\ failed' = FALSE
  /\ look' = None /\ ticking' = FALSE /\ saving' = None
  /\ UNCHANGED disk

SettingsNext ==
  \/ StartStep \/ DropStep \/ FlushFormer
  \/ \E ok \in Outcomes : \/ FlushSettings(ok) \/ Construct(ok)
                          \/ WriteSettings(ok) \/ RestoreSettings(ok)
  \/ \E value \in Looks, ok \in Outcomes : SetLook(value, ok)
  \/ \E key \in Keys \cup {None}, values \in Values : StartSave(key, values)
  \/ KeyStep \/ Scheduled \/ NotScheduled \/ RestoreKey
  \/ SettingsDie

SettingsSpec == SettingsInit /\ [][SettingsNext]_allVars
-----------------------------------------------------------------------------
\* Every variable keeps its type, those of KeyStorage included: once the
\* constructor has run, no setting is one the program would not accept.
SettingsTypeOK ==
  /\ TypeOK
  /\ settings \in Persisted /\ disk \in Persisted
  /\ look # None => settings \in Values
  /\ failed \in BOOLEAN /\ ticking \in BOOLEAN /\ look \in Looks \cup {None}
  /\ saving \in {None} \cup [stage : SaveStages, values : Values, old : Values]

\* Between two slots the display and the auto-open timer go by the settings
\* that the form shows, and these are the ones the next start will find unless
\* a write has failed in this process; and while a save is under way, the
\* file does not have its settings before the storage has its key.
SettingsInForce ==
  /\ AtRest => /\ look = settings.look
               /\ ticking = (settings.autoOpenAt # None)
               /\ failed \/ disk = settings
  /\ saving # None /\ ~failed /\ disk # saving.old /\ proc.key # None =>
       NextStart = proc.key

\* Whatever a save does around it, the key that is in force is kept and is not
\* left in plain text.
KeySafe == KeyKept /\ NothingInPlainText

\* A save takes effect as a whole or not at all, whichever of its steps fails:
\* either the key, the settings and what follows from them are the new ones
\* and are stored, or they are the ones from before.
SaveIsWhole ==
  [][saving # None /\ saving' = None /\ proc'.step # "off" =>
       \/ /\ apiKey' = proc.key /\ (proc.key # None => NextStart' = proc.key)
          /\ settings' = saving.values /\ disk' = settings' /\ look' = settings'.look
       \/ /\ apiKey' = apiKey /\ settings' = saving.old
          /\ look' = settings'.look /\ UNCHANGED ticking]_allVars

\* The settings do nothing to the keys that KeyStorage does not allow, so what
\* holds of KeyStorage holds here.
KeySpec == Spec
=============================================================================
