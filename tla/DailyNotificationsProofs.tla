---------------------- MODULE DailyNotificationsProofs ----------------------
(***************************************************************************)
(* Theorems about DailyNotifications, for every length of the day, every   *)
(* set of times and verses, and any number of failed commits, deaths of    *)
(* the process and changes of the clock or the permission.                 *)
(***************************************************************************)
EXTENDS DailyNotifications, TLAPS

-----------------------------------------------------------------------------
(* The inductive invariants. *)

\* What the threads carry from one step to the next is there when they use it.
CarriedInv ==
  /\ rx.pc \in {"text", "overwrite", "notify", "record"} => rx.day \in Days
  /\ rx.pc \in {"text", "overwrite", "notify"} => rx.reference \in Verses
  /\ rx.pc \in {"overwrite", "notify"} => rx.text \in Verses
  /\ disk.lastDay # None => memory.lastDay # None

\* A request for permission is on record only while there is no time, in memory
\* and in the file; a permission on display as denied means there is no time.
PendingInv ==
  /\ memory.pendingAt # None => memory.time = None
  /\ disk.pendingAt # None => disk.time = None
  /\ app.pc \in {"commit", "next", "arm", "undo"} => memory.pendingAt = None
  /\ app.pc \in {"schedule", "commit", "next", "arm", "undo"} => displayed = "granted"
  /\ app.pc \in {"idle", "sync"} /\ displayed = "denied" => memory.time = None

\* A sync that goes on to the alarm has stored the time of the settings.
SettingInv ==
  /\ app.pc \in {"schedule", "commit", "next", "arm", "undo"} => dailyAt # None
  /\ app.pc \in {"next", "arm", "undo"} => memory.time = dailyAt
  /\ TimeFollowsSetting

One(condition) == IF condition THEN 1 ELSE 0

Posting == rx.pc \in {"post", "text", "overwrite", "notify"}

\* The notifications under way: a receiver about to set the alarm does not
\* add to an alarm that has not fired or a broadcast that waits for it.
UnderWay ==
  IF rx.pc = "arm" THEN 1 + One("daily" \in broadcasts \/ alarm # None)
                   ELSE One(Posting) + One("daily" \in broadcasts) + One(alarm # None)

\* The next step of the controller may leave no time.
MayDropTime == app.pc = "remove" \/ (app.pc \in {"next", "undo"} /\ app.previous = None)

StrayInv ==
  /\ memory.time # None => stray = 0
  /\ memory.time = None => stray + UnderWay <= 2
  /\ MayDropTime => UnderWay <= 2

\* What was scheduled is on its way until the controller cancels it.
OnItsWay ==
  \/ alarm # None /\ alarm % DayLength = dailyAt
  \/ "daily" \in broadcasts
  \/ rx.pc # "idle"

ArmedInv ==
  /\ ~(rx.pc = "arm" /\ app.pc = "arm")
  /\ synced =>
       /\ dailyAt # None /\ memory.time = dailyAt /\ memory.pendingAt = None
       /\ permission = "granted" /\ app.pc \notin {"off", "undo", "remove"}
       /\ rx.pc = "arm" => rx.time = dailyAt
       /\ OnItsWay

\* The days with a notification that nothing excuses: none is to come, and
\* today's is on record or about to be.
Reporting == rx.pc \in {"text", "overwrite", "notify", "record"}

PostedInv ==
  /\ Reporting /\ rx.day > Today => Today..rx.day \subseteq excused
  /\ \A d \in Days \ excused :
       /\ posted[d] <= 1
       /\ posted[d] = 1 =>
            /\ d <= Today
            /\ d = Today => memory.lastDay = d \/ (rx.pc = "record" /\ rx.day = d)
            /\ Reporting => d < rx.day \/ (d = rx.day /\ rx.pc = "record")

PromptInv == prompts \in 0..1 /\ (prompts = 1 => memory.requested /\ disk.requested)
-----------------------------------------------------------------------------
(* The clock. *)

\* Division by a positive number keeps the order of natural numbers.
LEMMA DivMonotone ==
  ASSUME NEW a \in Nat, NEW b \in Nat, NEW k \in Nat \ {0}, a <= b
  PROVE  a \div k \in Nat /\ a \div k <= b \div k
OBVIOUS

\* An instant t of the day number q is t instants after the day began.
LEMMA ModOfSum ==
  ASSUME NEW q \in Nat, NEW k \in Nat \ {0}, NEW t \in 0..k - 1
  PROVE  q * k + t \in Nat /\ (q * k + t) % k = t /\ (q * k + t + k) % k = t
OBVIOUS

\* Instants and days are natural numbers, and days grow with the instants.
LEMMA DaysGrow ==
  ASSUME NEW m \in Instants, NEW n \in Instants, m <= n
  PROVE  m \in Nat /\ Day(m) \in Nat /\ Day(m) \in Days /\ Day(m) <= Day(n)
<1>1. m \in Nat /\ n \in Nat /\ MaxClock \in Nat /\ n <= MaxClock
  BY DailyNotificationsAssumption DEF Instants
<1>2. Day(m) \in Nat /\ Day(n) \in Nat /\ Day(m) <= Day(n) /\ Day(n) <= Day(MaxClock)
      /\ Day(MaxClock) \in Nat
  BY <1>1, DivMonotone, DailyNotificationsAssumption DEF Day
<1> QED
  BY <1>1, <1>2 DEF Days

\* No day is the sentinel.
LEMMA DayIsNotNone == ASSUME NEW d \in Days PROVE d \in Nat /\ d # None
<1>1. MaxClock \in Instants /\ MaxClock <= MaxClock
  BY DailyNotificationsAssumption DEF Instants
<1>2. Day(MaxClock) \in Nat
  BY <1>1, DaysGrow
<1> QED
  BY <1>2, DailyNotificationsAssumption DEF Days

\* The next instant of a time of day is an instant of that time of day.
LEMMA NextInstantIsOfTime ==
  ASSUME clock \in Instants, NEW t \in Times
  PROVE  NextInstant(t) \in Nat /\ NextInstant(t) # None /\ NextInstant(t) % DayLength = t
<1>1. Today \in Nat /\ t \in 0..DayLength - 1 /\ DayLength \in Nat \ {0}
  BY DaysGrow, DailyNotificationsAssumption DEF Today, Instants
<1>2. /\ Today * DayLength + t \in Nat
      /\ (Today * DayLength + t) % DayLength = t
      /\ (Today * DayLength + t + DayLength) % DayLength = t
  BY <1>1, ModOfSum
<1> DEFINE today == Today * DayLength + t
<1>3. NextInstant(t) = today \/ NextInstant(t) = today + DayLength
  BY DEF NextInstant
<1>4. today \in Nat /\ today + DayLength \in Nat
  BY <1>1, <1>2
<1> QED
  BY <1>2, <1>3, <1>4, DailyNotificationsAssumption
-----------------------------------------------------------------------------
(* Types. *)

\* A commit of preferences changes memory, and the file or the count of faults.
LEMMA CommitStep ==
  ASSUME TypeOK, NEW p \in Preferences, NEW ok \in BOOLEAN, Commit(p, ok)
  PROVE  /\ memory' = p /\ disk' \in {disk, p} /\ (ok => disk' = p)
         /\ memory' \in Preferences /\ disk' \in Preferences
         /\ stray' = (IF p.time = None THEN stray ELSE 0)
         /\ stray' \in Nat /\ faults' \in 0..MaxFaults
  BY DailyNotificationsAssumption DEF Commit, Fault, TypeOK

\* permissionState drops a request that has expired and nothing else.
LEMMA ReadStateStep ==
  ASSUME TypeOK, ReadState
  PROVE  /\ memory' = [memory EXCEPT !.pendingAt = memory'.pendingAt]
         /\ memory'.pendingAt \in {memory.pendingAt, None}
         /\ ~Pending(memory) => memory'.pendingAt = None
         /\ disk' \in {disk, memory'}
         /\ memory' \in Preferences /\ disk' \in Preferences
         /\ stray' \in Nat /\ faults' \in 0..MaxFaults
         /\ stray' = stray \/ (memory.time # None /\ stray' = 0)
<1>1. Expired \in Preferences
  BY DEF Expired, TypeOK, Preferences
<1>2. CASE Expired = memory
  BY <1>1, <1>2 DEF ReadState, Expired, preferences, TypeOK, Preferences
<1>3. CASE Expired # memory
  <2>1. PICK ok \in BOOLEAN : Commit(Expired, ok)
    BY <1>3 DEF ReadState
  <2>2. Expired = [memory EXCEPT !.pendingAt = None] /\ ~Pending(memory)
    BY <1>3 DEF Expired
  <2> QED
    BY <1>1, <2>1, <2>2, CommitStep DEF TypeOK, Preferences
<1> QED
  BY <1>2, <1>3

\* The parts of TypeOK, by the variables they are about.
ControllerOK ==
  /\ dailyAt \in Times \cup {None}
  /\ displayed \in Permissions \cup {"pending", "unavailable"}
  /\ app \in [pc : {"off", "idle", "sync", "schedule", "commit", "next", "arm", "undo",
                    "cancel", "remove"},
              caller : {"refresh", "save", "again", None},
              old : Times \cup {None}, previous : Times \cup {None},
              verdict : {"true", "false", "commit", None}]

ReceiverOK ==
  /\ rx \in [pc : {"idle", "post", "text", "overwrite", "notify", "record", "next", "arm"},
             reference : Verses \cup {None}, text : Verses \cup {None},
             day : Days \cup {None}, time : Times \cup {None}]
  /\ rx.pc = "arm" => rx.time \in Times

PreferencesOK ==
  memory \in Preferences /\ disk \in Preferences /\ stray \in Nat /\ faults \in 0..MaxFaults

SystemOK ==
  /\ alarm \in Nat \cup {None} /\ broadcasts \subseteq {"daily", "rearm", "answer"}
  /\ permission \in Permissions /\ prompt \in BOOLEAN /\ clock \in Instants

HistoryOK ==
  /\ posted \in [Days -> Nat] /\ excused \subseteq Days
  /\ notified \in [reference : Verses, text : Verses] \cup {None}
  /\ prompts \in Nat /\ synced \in BOOLEAN

\* Together they are TypeOK.
LEMMA TypeParts ==
  TypeOK <=> ControllerOK /\ ReceiverOK /\ PreferencesOK /\ SystemOK /\ HistoryOK
BY DEF TypeOK, ControllerOK, ReceiverOK, PreferencesOK, SystemOK, HistoryOK

\* The controller's thread after a return is between two slots, or syncs again.
LEMMA ReturnStep ==
  ASSUME ControllerOK, NEW ok \in BOOLEAN, Return(ok)
  PROVE  /\ dailyAt' \in Times \cup {None}
         /\ app' = [pc |-> app'.pc, caller |-> app'.caller,
                    old |-> None, previous |-> None, verdict |-> None]
         /\ app'.pc \in {"idle", "sync"} /\ app'.caller \in {None, "again"}
         /\ ok => app'.pc = "idle" /\ dailyAt' = dailyAt
  BY DEF Return, Idle, Off, Call, ControllerOK

\* A step of Android's main thread.
RxStep == Receive \/ OnPermissionResult \/ Post \/ ReadText \/ Overwrite \/ Notify \/ Record
            \/ ReadTime \/ Rearm

\* A step of a sync.
SyncStep == Sync \/ Schedule \/ CommitTime \/ CheckTime \/ Arm \/ Undo \/ CancelAlarm
              \/ RemoveTime

\* A step of the system or its user.
SystemStep ==
  \/ AlarmFires \/ Tick \/ \E n \in Instants : SetClock(n)
  \/ \E p \in Permissions : ChangePermission(p)
  \/ \E p \in {"granted", "denied"} : Answer(p)

\* What those steps leave alone.
LEMMA RxFrame == RxStep => UNCHANGED <<dailyAt, displayed, app, permission, prompt, clock,
                                       excused, prompts, synced>>
BY DEF RxStep, Receive, OnPermissionResult, Post, ReadText, Overwrite, Notify, Record, ReadTime,
       Rearm, controller, system, history

\* A sync does not touch Android's main thread, the system but for the alarm, or
\* what was shown.
LEMMA SyncFrame == SyncStep => UNCHANGED <<rx, broadcasts, permission, prompt, clock, posted,
                                           notified, excused, prompts>>
BY DEF SyncStep, Sync, Schedule, CommitTime, CheckTime, Arm, Undo, CancelAlarm, RemoveTime,
       system, history

\* The system and its user touch neither thread nor the preferences.
LEMMA SystemFrame == SystemStep => UNCHANGED <<dailyAt, displayed, app, rx, memory, disk, stray,
                                               posted, notified, prompts>>
BY DEF SystemStep, AlarmFires, Tick, SetClock, ChangePermission, Answer, controller, preferences,
       history


\* The controller's thread and what it keeps, typed.
LEMMA ControllerTyped == ASSUME TypeOK, [Next]_vars PROVE ControllerOK'
<1> USE TypeParts DEF ControllerOK
<1>1. memory.time \in Times \cup {None}
  BY DEF PreferencesOK, Preferences
<1>2. PermissionState \in Permissions \cup {"pending"}
  BY DEF PermissionState, SystemOK
<1>3. ASSUME NEW ok \in BOOLEAN, Return(ok), UNCHANGED displayed PROVE ControllerOK'
  BY <1>3, ReturnStep
<1>4. CASE Sync
  <2>1. displayed' \in Permissions \cup {"pending", "unavailable"}
    BY <1>2, <1>4 DEF Sync
  <2>2. CASE Return(TRUE)
    BY <2>1, <2>2 DEF Return, Idle, Off
  <2>3. CASE app' = [app EXCEPT !.pc = "cancel", !.verdict = "commit"] /\ UNCHANGED dailyAt
    BY <2>1, <2>3
  <2>4. CASE app' = Unpermitted /\ UNCHANGED dailyAt
    BY <2>1, <2>4 DEF Unpermitted
  <2>5. CASE app' = [app EXCEPT !.pc = "schedule"] /\ UNCHANGED dailyAt
    BY <2>1, <2>5
  <2> QED
    BY <1>4, <2>2, <2>3, <2>4, <2>5 DEF Sync
<1>5. CASE Schedule \/ CheckTime \/ CancelAlarm
  BY <1>5 DEF Schedule, CheckTime, CancelAlarm, Failed, controller
<1>6. CASE CommitTime \/ Undo
  BY <1>1, <1>6 DEF CommitTime, Undo, Failed, controller
<1>7. CASE Arm
  BY <1>3, <1>7 DEF Arm
<1>8. CASE RemoveTime
  BY <1>3, <1>8 DEF RemoveTime
<1>9. CASE Launch
  BY <1>9 DEF Launch, Call, Idle, Off
<1>10. ASSUME NEW t \in Times \cup {None}, Save(t) PROVE ControllerOK'
  BY <1>10 DEF Save, Call, Idle, Off
<1>11. CASE Refresh
  BY <1>2, <1>11 DEF Refresh, Call, Idle, Off, Unpermitted
<1>12. CASE RequestPermission
  BY <1>2, <1>12 DEF RequestPermission, Call, Idle, Off
<1>13. ASSUME NEW v \in Verses, UpdateSnapshot(v) PROVE ControllerOK'
  BY <1>13 DEF UpdateSnapshot, controller
<1>14. CASE Kill \/ Reboot
  BY <1>14 DEF Kill, Reboot, Dies, Off, controller
<1>15. CASE RxStep \/ SystemStep \/ UNCHANGED vars
  BY <1>15, RxFrame, SystemFrame DEF vars, controller
<1> QED
  BY <1>4, <1>5, <1>6, <1>7, <1>8, <1>9, <1>10, <1>11, <1>12, <1>13, <1>14, <1>15
  DEF Next, RxStep, SystemStep

\* Android's main thread and what it carries, typed.
LEMMA ReceiverTyped ==
  ASSUME TypeOK, CarriedInv, [Next]_vars
  PROVE  /\ ReceiverOK'
         /\ rx'.pc \in {"text", "overwrite", "notify", "record"} => rx'.day \in Days
         /\ rx'.pc \in {"text", "overwrite", "notify"} => rx'.reference \in Verses
         /\ rx'.pc \in {"overwrite", "notify"} => rx'.text \in Verses
<1> USE TypeParts DEF ReceiverOK, CarriedInv
<1>1. /\ memory.time \in Times \cup {None} /\ memory.reference \in Verses
      /\ memory.text \in Verses /\ Today \in Days
  BY DaysGrow DEF PreferencesOK, Preferences, SystemOK, Today, Instants
<1>2. CASE Receive \/ Record \/ Rearm \/ Kill \/ Reboot
  BY <1>2 DEF Receive, Record, Rearm, Kill, Reboot, Dies, Resting
<1>3. CASE Post
  BY <1>1, <1>3 DEF Post
<1>4. CASE ReadText \/ Overwrite \/ Notify
  BY <1>1, <1>4 DEF ReadText, Overwrite, Notify
<1>5. CASE ReadTime
  <2>1. \/ /\ rx' = [pc |-> "arm", reference |-> None, text |-> None, day |-> None,
                     time |-> memory.time]
           /\ memory.time # None
        \/ rx' = Resting
    BY <1>5 DEF ReadTime, Resting
  <2> QED
    BY <1>1, <2>1 DEF Resting
<1>6. CASE UNCHANGED rx
  BY <1>6
<1>7. CASE OnPermissionResult \/ SyncStep \/ Launch \/ SystemStep \/ UNCHANGED vars
  BY <1>6, <1>7, SyncFrame, SystemFrame DEF OnPermissionResult, Launch, vars
<1>8. CASE Refresh \/ RequestPermission
  BY <1>6, <1>8 DEF Refresh, RequestPermission
<1>9. ASSUME NEW t \in Times \cup {None}, Save(t) PROVE UNCHANGED rx
  BY <1>9 DEF Save
<1>10. ASSUME NEW v \in Verses, UpdateSnapshot(v) PROVE UNCHANGED rx
  BY <1>10 DEF UpdateSnapshot
<1> QED
  BY <1>2, <1>3, <1>4, <1>5, <1>6, <1>7, <1>8, <1>9, <1>10 DEF Next, SyncStep, SystemStep

\* What becomes of memory and the file in a step: they stay, permissionState
\* drops an expired request, entries are committed, or the file is read again.
PreferencesStep ==
  \/ UNCHANGED <<memory, disk>> /\ stray' \in {stray, stray + 1, 0} /\ faults' \in 0..MaxFaults
  \/ ReadState
  \/ \E ok \in BOOLEAN :
       \/ Commit([memory EXCEPT !.pendingAt = None], ok)
       \/ rx.pc = "overwrite" /\ Commit([memory EXCEPT !.text = rx.text], ok)
       \/ rx.pc = "record" /\ Commit([memory EXCEPT !.lastDay = rx.day], ok)
       \/ \E t \in Times \cup {None} : Commit([memory EXCEPT !.time = t], ok)
       \/ Commit([memory EXCEPT !.requested = TRUE, !.pendingAt = clock], ok)
       \/ \E v \in Verses : Commit([memory EXCEPT !.reference = v, !.text = v], ok)
  \/ /\ memory' = disk /\ UNCHANGED disk /\ faults' \in 0..MaxFaults
     /\ stray' = IF disk.time = None THEN stray ELSE 0

\* Every step is one of those.
LEMMA PreferencesSteps == ASSUME TypeOK, [Next]_vars PROVE PreferencesStep
<1> USE TypeParts
<1>1. /\ memory.time \in Times \cup {None} /\ app.previous \in Times \cup {None}
      /\ dailyAt \in Times \cup {None}
  BY DEF PreferencesOK, Preferences, ControllerOK
<1>2. ASSUME UNCHANGED preferences PROVE PreferencesStep
  BY <1>2 DEF PreferencesStep, preferences, PreferencesOK
<1>3. ASSUME ReadState PROVE PreferencesStep
  BY <1>3 DEF PreferencesStep
<1>fault. ASSUME Fault PROVE faults' \in 0..MaxFaults
  BY <1>fault, DailyNotificationsAssumption DEF Fault, PreferencesOK
<1>4. CASE Receive \/ ReadText \/ Rearm \/ Arm \/ CancelAlarm \/ Launch
  BY <1>2, <1>4 DEF Receive, ReadText, Rearm, Arm, CancelAlarm, Launch
<1>5. CASE Post \/ ReadTime \/ Sync \/ Schedule \/ CheckTime
  BY <1>3, <1>5 DEF Post, ReadTime, Sync, Schedule, CheckTime
<1>6. CASE OnPermissionResult
  BY <1>6 DEF OnPermissionResult, PreferencesStep
<1>7. CASE Overwrite
  BY <1>2, <1>7 DEF Overwrite, PreferencesStep
<1>8. CASE Record
  BY <1>8 DEF Record, PreferencesStep
<1>9. CASE CommitTime
  <2>1. PICK ok \in BOOLEAN : Commit([memory EXCEPT !.time = dailyAt], ok)
    BY <1>9 DEF CommitTime
  <2> QED
    BY <1>1, <2>1 DEF PreferencesStep
<1>10. CASE Undo
  <2>1. PICK ok \in BOOLEAN : Commit([memory EXCEPT !.time = app.previous], ok)
    BY <1>10 DEF Undo
  <2> QED
    BY <1>1, <2>1 DEF PreferencesStep
<1>11. CASE RemoveTime
  <2>1. PICK ok \in BOOLEAN : Commit([memory EXCEPT !.time = None], ok)
    BY <1>11 DEF RemoveTime
  <2> QED
    BY <2>1 DEF PreferencesStep
<1>12. ASSUME NEW t \in Times \cup {None}, Save(t) PROVE PreferencesStep
  BY <1>2, <1>12 DEF Save
<1>13. CASE Refresh
  BY <1>2, <1>13 DEF Refresh, PreferencesStep
<1>14. CASE RequestPermission
  BY <1>3, <1>14 DEF RequestPermission, PreferencesStep
<1>15. ASSUME NEW v \in Verses, UpdateSnapshot(v) PROVE PreferencesStep
  BY <1>15 DEF UpdateSnapshot, PreferencesStep
<1>16. CASE Notify
  BY <1>16 DEF Notify, PreferencesStep, PreferencesOK
<1>17. CASE AlarmFires \/ Tick \/ \E p \in {"granted", "denied"} : Answer(p)
  BY <1>2, <1>17 DEF AlarmFires, Tick, Answer
<1>18. CASE (\E n \in Instants : SetClock(n)) \/ \E p \in Permissions : ChangePermission(p)
  <2>1. Fault /\ UNCHANGED <<memory, disk, stray>>
    BY <1>18 DEF SetClock, ChangePermission
  <2> QED
    BY <1>fault, <2>1 DEF PreferencesStep
<1>19. CASE Kill \/ Reboot
  <2>1. /\ Fault /\ memory' = disk /\ UNCHANGED disk
        /\ stray' = IF disk.time = None THEN stray ELSE 0
    BY <1>19 DEF Kill, Reboot, Dies
  <2> QED
    BY <1>fault, <2>1 DEF PreferencesStep
<1>20. CASE UNCHANGED vars
  BY <1>2, <1>20 DEF vars
<1> QED
  BY <1>4, <1>5, <1>6, <1>7, <1>8, <1>9, <1>10, <1>11, <1>12, <1>13, <1>14, <1>15, <1>16, <1>17,
     <1>18, <1>19, <1>20 DEF Next

\* The preferences, typed; a day on record in the file is on record in memory.
LEMMA PreferencesTyped ==
  ASSUME TypeOK, CarriedInv, [Next]_vars
  PROVE  PreferencesOK' /\ (disk'.lastDay # None => memory'.lastDay # None)
<1> USE TypeParts DEF PreferencesOK
<1>1. PreferencesStep
  BY PreferencesSteps
<1>2. ASSUME NEW p \in Preferences, NEW ok \in BOOLEAN, Commit(p, ok),
             memory.lastDay # None => p.lastDay # None
      PROVE  PreferencesOK' /\ (disk'.lastDay # None => memory'.lastDay # None)
  BY <1>2, CommitStep DEF CarriedInv
<1>3. CASE ReadState
  BY <1>3, ReadStateStep DEF CarriedInv, Preferences
<1>4. CASE UNCHANGED <<memory, disk>> /\ stray' \in {stray, stray + 1, 0} /\ faults' \in 0..MaxFaults
  BY <1>4 DEF CarriedInv
<1>5. CASE /\ memory' = disk /\ UNCHANGED disk /\ faults' \in 0..MaxFaults
           /\ stray' = IF disk.time = None THEN stray ELSE 0
  BY <1>5
<1>6. ASSUME NEW ok \in BOOLEAN, Commit([memory EXCEPT !.pendingAt = None], ok)
      PROVE  PreferencesOK' /\ (disk'.lastDay # None => memory'.lastDay # None)
  <2>1. [memory EXCEPT !.pendingAt = None] \in Preferences
    BY DEF Preferences
  <2> QED
    BY <1>2, <1>6, <2>1 DEF Preferences
<1>7. ASSUME NEW ok \in BOOLEAN, rx.pc = "overwrite", Commit([memory EXCEPT !.text = rx.text], ok)
      PROVE  PreferencesOK' /\ (disk'.lastDay # None => memory'.lastDay # None)
  <2>1. [memory EXCEPT !.text = rx.text] \in Preferences
    BY <1>7 DEF CarriedInv, Preferences
  <2> QED
    BY <1>2, <1>7, <2>1 DEF Preferences
<1>8. ASSUME NEW ok \in BOOLEAN, rx.pc = "record", Commit([memory EXCEPT !.lastDay = rx.day], ok)
      PROVE  PreferencesOK' /\ (disk'.lastDay # None => memory'.lastDay # None)
  <2>1. [memory EXCEPT !.lastDay = rx.day] \in Preferences /\ rx.day # None
    BY <1>8, DayIsNotNone DEF CarriedInv, Preferences
  <2> QED
    BY <1>2, <1>8, <2>1 DEF Preferences
<1>9. ASSUME NEW ok \in BOOLEAN, NEW t \in Times \cup {None}, Commit([memory EXCEPT !.time = t], ok)
      PROVE  PreferencesOK' /\ (disk'.lastDay # None => memory'.lastDay # None)
  <2>1. [memory EXCEPT !.time = t] \in Preferences
    BY DEF Preferences
  <2> QED
    BY <1>2, <1>9, <2>1 DEF Preferences
<1>10. ASSUME NEW ok \in BOOLEAN, Commit([memory EXCEPT !.requested = TRUE, !.pendingAt = clock], ok)
      PROVE  PreferencesOK' /\ (disk'.lastDay # None => memory'.lastDay # None)
  <2>1. [memory EXCEPT !.requested = TRUE, !.pendingAt = clock] \in Preferences
    BY DEF Preferences, SystemOK
  <2> QED
    BY <1>2, <1>10, <2>1 DEF Preferences
<1>11. ASSUME NEW ok \in BOOLEAN, NEW v \in Verses,
              Commit([memory EXCEPT !.reference = v, !.text = v], ok)
      PROVE  PreferencesOK' /\ (disk'.lastDay # None => memory'.lastDay # None)
  <2>1. [memory EXCEPT !.reference = v, !.text = v] \in Preferences
    BY DEF Preferences
  <2> QED
    BY <1>2, <1>11, <2>1 DEF Preferences
<1> QED
  BY <1>1, <1>3, <1>4, <1>5, <1>6, <1>7, <1>8, <1>9, <1>10, <1>11 DEF PreferencesStep


\* The system, typed: the alarm is set for instants.
LEMMA SystemTyped == ASSUME TypeOK, SettingInv, [Next]_vars PROVE SystemOK'
<1> USE TypeParts DEF SystemOK
<1>1. CASE Rearm
  BY <1>1, NextInstantIsOfTime DEF Rearm, ReceiverOK
<1>2. CASE Arm
  <2>1. memory.time \in Times
    BY <1>2 DEF Arm, SettingInv, ControllerOK
  <2> QED
    BY <1>2, <2>1, NextInstantIsOfTime DEF Arm
<1>3. CASE Receive \/ OnPermissionResult
  BY <1>3 DEF Receive, OnPermissionResult
<1>4. CASE UNCHANGED system
  BY <1>4 DEF system
<1>5. CASE Post \/ ReadText \/ Overwrite \/ Notify \/ Record \/ ReadTime
  BY <1>4, <1>5 DEF Post, ReadText, Overwrite, Notify, Record, ReadTime
<1>6. CASE Sync \/ Schedule \/ CommitTime \/ CheckTime \/ Undo \/ RemoveTime \/ Launch \/ Refresh
             \/ UNCHANGED vars
  BY <1>4, <1>6 DEF Sync, Schedule, CommitTime, CheckTime, Undo, RemoveTime, Launch, Refresh, vars
<1>7. CASE CancelAlarm
  BY <1>7 DEF CancelAlarm
<1>8. ASSUME NEW t \in Times \cup {None}, Save(t) PROVE SystemOK'
  BY <1>4, <1>8 DEF Save
<1>9. ASSUME NEW v \in Verses, UpdateSnapshot(v) PROVE SystemOK'
  BY <1>4, <1>9 DEF UpdateSnapshot
<1>10. CASE RequestPermission
  BY <1>10 DEF RequestPermission, ShowsPrompt
<1>11. CASE AlarmFires
  BY <1>11 DEF AlarmFires
<1>12. CASE Tick
  BY <1>12, DailyNotificationsAssumption DEF Tick, Instants
<1>13. ASSUME NEW n \in Instants, SetClock(n) PROVE SystemOK'
  BY <1>13 DEF SetClock
<1>14. ASSUME NEW p \in Permissions, ChangePermission(p) PROVE SystemOK'
  BY <1>14 DEF ChangePermission
<1>15. ASSUME NEW p \in {"granted", "denied"}, Answer(p) PROVE SystemOK'
  BY <1>15 DEF Answer, Permissions
<1>16. CASE Kill \/ Reboot
  BY <1>16 DEF Kill, Reboot, Dies
<1> QED
  BY <1>1, <1>2, <1>3, <1>5, <1>6, <1>7, <1>8, <1>9, <1>10, <1>11, <1>12, <1>13, <1>14, <1>15,
     <1>16 DEF Next

\* The record of what was shown, typed: what is excused are days.
LEMMA HistoryTyped == ASSUME TypeOK, CarriedInv, [Next]_vars PROVE HistoryOK'
<1> USE TypeParts DEF HistoryOK
<1>1. CASE Notify
  <2>1. rx.day \in Days /\ rx.reference \in Verses /\ rx.text \in Verses
    BY <1>1 DEF Notify, CarriedInv
  <2> QED
    BY <1>1, <2>1 DEF Notify
<1>2. CASE RequestPermission
  BY <1>2 DEF RequestPermission, ShowsPrompt
<1>3. ASSUME NEW n \in Instants, SetClock(n) PROVE HistoryOK'
  <2>1. Today \in Days /\ Day(n) \in Days
    BY DaysGrow DEF Today, SystemOK, Instants
  <2>2. Day(n)..Today \subseteq Days
    <3>1. MaxClock \in Instants /\ MaxClock <= MaxClock
      BY DailyNotificationsAssumption DEF Instants
    <3>2. Day(MaxClock) \in Nat
      BY <3>1, DaysGrow
    <3> QED
      BY <2>1, <3>2 DEF Days
  <2> QED
    BY <1>3, <2>2 DEF SetClock
<1>4. CASE Kill \/ Reboot
  <2>1. disk.lastDay # memory.lastDay => memory.lastDay \in Days
    BY DEF CarriedInv, PreferencesOK, Preferences
  <2>2. rx.pc = "record" => rx.day \in Days
    BY DEF CarriedInv
  <2> QED
    BY <1>4, <2>1, <2>2 DEF Kill, Reboot, Dies
<1>5. CASE Arm
  BY <1>5 DEF Arm, history
<1>6. ASSUME UNCHANGED history, synced' \in BOOLEAN PROVE HistoryOK'
  BY <1>6 DEF history
<1>7. CASE Receive \/ OnPermissionResult \/ Post \/ ReadText \/ Overwrite \/ Record \/ ReadTime
             \/ Rearm
  BY <1>6, <1>7 DEF Receive, OnPermissionResult, Post, ReadText, Overwrite, Record, ReadTime, Rearm
<1>8. CASE Sync \/ Schedule \/ CommitTime \/ CheckTime \/ Undo \/ CancelAlarm \/ RemoveTime
  BY <1>6, <1>8 DEF Sync, Schedule, CommitTime, CheckTime, Undo, CancelAlarm, RemoveTime
<1>9. CASE Launch \/ Refresh \/ AlarmFires \/ Tick \/ UNCHANGED vars
  BY <1>6, <1>9 DEF Launch, Refresh, AlarmFires, Tick, vars
<1>10. ASSUME NEW t \in Times \cup {None}, Save(t) PROVE HistoryOK'
  BY <1>6, <1>10 DEF Save
<1>11. ASSUME NEW v \in Verses, UpdateSnapshot(v) PROVE HistoryOK'
  BY <1>6, <1>11 DEF UpdateSnapshot
<1>12. ASSUME NEW p \in Permissions, ChangePermission(p) PROVE HistoryOK'
  BY <1>6, <1>12 DEF ChangePermission
<1>13. ASSUME NEW p \in {"granted", "denied"}, Answer(p) PROVE HistoryOK'
  BY <1>6, <1>13 DEF Answer
<1> QED
  BY <1>1, <1>2, <1>3, <1>4, <1>5, <1>7, <1>8, <1>9, <1>10, <1>11, <1>12, <1>13 DEF Next

\* Every step keeps the types, and what the threads carry.
LEMMA TypeStep ==
  ASSUME TypeOK, CarriedInv, SettingInv, [Next]_vars
  PROVE  TypeOK' /\ CarriedInv'
BY TypeParts, ControllerTyped, ReceiverTyped, PreferencesTyped, SystemTyped, HistoryTyped
DEF TypeOK, ControllerOK, ReceiverOK, PreferencesOK, SystemOK, HistoryOK, CarriedInv
-----------------------------------------------------------------------------
(* The time, the request for permission and the settings. *)

\* Android's main thread changes neither the time nor the request for the
\* prompt, and takes at most a pending request off the record.
LEMMA RxKeeps ==
  ASSUME TypeOK, CarriedInv, RxStep
  PROVE  /\ memory'.time = memory.time /\ memory'.requested = memory.requested
         /\ memory'.pendingAt \in {memory.pendingAt, None}
         /\ disk' \in {disk, memory'}
<1> DEFINE Kept == /\ memory'.time = memory.time /\ memory'.requested = memory.requested
                   /\ memory'.pendingAt \in {memory.pendingAt, None}
                   /\ disk' \in {disk, memory'}
<1>1. memory \in Preferences
  BY DEF TypeOK
<1>2. CASE Receive \/ ReadText \/ Notify \/ Rearm
  BY <1>2 DEF Receive, ReadText, Notify, Rearm, preferences
<1>3. CASE Post \/ ReadTime
  BY <1>1, <1>3, ReadStateStep DEF Post, ReadTime, Preferences
<1>4. CASE OnPermissionResult
  BY <1>1, <1>4 DEF OnPermissionResult, Commit, Preferences
<1>5. CASE Overwrite
  BY <1>1, <1>5 DEF Overwrite, Commit, Preferences, preferences
<1>6. CASE Record
  BY <1>1, <1>6 DEF Record, Commit, Preferences
<1> QED
  BY <1>2, <1>3, <1>4, <1>5, <1>6 DEF RxStep

\* The steps of both threads and of the system keep PendingInv.
LEMMA PendingStep ==
  ASSUME TypeOK, CarriedInv, PendingInv, SettingInv, [Next]_vars
  PROVE  PendingInv'
<1> USE DEF PendingInv
<1>1. memory \in Preferences /\ disk \in Preferences
  BY DEF TypeOK
<1>2. ASSUME ReadState
      PROVE  /\ memory'.time = memory.time /\ memory'.pendingAt \in {memory.pendingAt, None}
             /\ ~Pending(memory) => memory'.pendingAt = None
             /\ disk' \in {disk, memory'}
  BY <1>1, <1>2, ReadStateStep DEF Preferences
<1>3. ASSUME NEW t \in Times \cup {None}, NEW ok \in BOOLEAN, Commit([memory EXCEPT !.time = t], ok)
      PROVE  /\ memory'.time = t /\ memory'.pendingAt = memory.pendingAt
             /\ disk' \in {disk, memory'}
  BY <1>1, <1>3 DEF Commit, Preferences
<1>4. CASE RxStep
  BY <1>4, RxFrame, RxKeeps
<1>5. CASE SystemStep
  BY <1>5, SystemFrame
<1>6. CASE Sync
  BY <1>2, <1>6 DEF Sync, Return, Unpermitted, Idle, Off, Call, Granted, PermissionState, TypeOK
<1>7. CASE Schedule
  BY <1>2, <1>7 DEF Schedule, Failed, Granted, PermissionState, TypeOK, controller
<1>8. CASE CheckTime
  BY <1>2, <1>8 DEF CheckTime, TypeOK, controller
<1>9. CASE CommitTime
  <2>1. PICK ok \in BOOLEAN :
          /\ Commit([memory EXCEPT !.time = dailyAt], ok)
          /\ app' = IF ok THEN [app EXCEPT !.pc = "next", !.previous = memory.time] ELSE Failed
    BY <1>9 DEF CommitTime
  <2>2. dailyAt \in Times \cup {None} /\ UNCHANGED displayed
    BY <1>9 DEF CommitTime, controller, TypeOK
  <2>3. memory.pendingAt = None /\ displayed = "granted"
    BY <1>9 DEF CommitTime
  <2>4. app'.pc \in {"next", "cancel"}
    BY <2>1 DEF Failed, TypeOK
  <2> QED
    BY <1>3, <2>1, <2>2, <2>3, <2>4
<1>10. CASE Undo
  <2>1. PICK ok \in BOOLEAN : Commit([memory EXCEPT !.time = app.previous], ok)
    BY <1>10 DEF Undo
  <2>2. app.previous \in Times \cup {None} /\ app'.pc = "cancel" /\ memory.pendingAt = None
    BY <1>10 DEF Undo, Failed, TypeOK
  <2> QED
    BY <1>3, <2>1, <2>2
<1>11. CASE CancelAlarm
  BY <1>11 DEF CancelAlarm, preferences, TypeOK
<1>12. CASE RemoveTime
  <2>1. PICK ok \in BOOLEAN :
          /\ Commit([memory EXCEPT !.time = None], ok)
          /\ Return(app.verdict = "true" \/ (app.verdict = "commit" /\ ok))
    BY <1>12 DEF RemoveTime
  <2>2. app'.pc \in {"idle", "sync"}
    BY <2>1 DEF Return, Idle, Off, Call
  <2> QED
    BY <1>3, <2>1, <2>2
<1>13. CASE Arm
  BY <1>13 DEF Arm, Return, Idle, Off, Call, preferences
<1>14. CASE Launch
  BY <1>14 DEF Launch, Call, Idle, Off, preferences
<1>15. ASSUME NEW t \in Times \cup {None}, Save(t) PROVE PendingInv'
  BY <1>15 DEF Save, Call, Idle, Off, preferences
<1>16. CASE Refresh
  <2>1. CASE Pending(memory)
    BY <1>16, <2>1 DEF Refresh, PermissionState, preferences, Pending
  <2>2. CASE ~Pending(memory)
    <3>1. PICK ok \in BOOLEAN : Commit([memory EXCEPT !.pendingAt = None], ok)
      BY <1>16, <2>2 DEF Refresh
    <3>2. memory'.time = memory.time /\ memory'.pendingAt = None /\ disk' \in {disk, memory'}
      BY <1>1, <3>1 DEF Commit, Preferences
    <3>3. app'.pc = "cancel" \/ (app'.pc = "sync" /\ displayed' = "granted")
      BY <1>16, <2>2 DEF Refresh, Call, Idle, Off, Unpermitted, Granted, TypeOK
    <3> QED
      BY <3>2, <3>3
  <2> QED
    BY <2>1, <2>2
<1>17. CASE RequestPermission
  <2>1. app.pc = "idle" /\ memory.time = None
    BY <1>17 DEF RequestPermission
  <2>2. CASE PermissionState = "denied"
    <3>1. PICK ok \in BOOLEAN : Commit([memory EXCEPT !.requested = TRUE, !.pendingAt = clock], ok)
      BY <1>17, <2>2 DEF RequestPermission
    <3>2. memory'.time = None /\ disk' \in {disk, memory'}
      BY <1>1, <2>1, <3>1 DEF Commit, Preferences
    <3> QED
      BY <1>17, <2>1, <2>2, <3>2 DEF RequestPermission
  <2>3. CASE PermissionState # "denied"
    BY <1>2, <1>17, <2>1, <2>3 DEF RequestPermission, Call, Idle, Off
  <2> QED
    BY <2>2, <2>3
<1>18. ASSUME NEW v \in Verses, UpdateSnapshot(v) PROVE PendingInv'
  <2>1. PICK ok \in BOOLEAN : Commit([memory EXCEPT !.reference = v, !.text = v], ok)
    BY <1>18 DEF UpdateSnapshot
  <2>2. /\ memory'.time = memory.time /\ memory'.pendingAt = memory.pendingAt
        /\ disk' \in {disk, memory'}
    BY <1>1, <2>1 DEF Commit, Preferences
  <2> QED
    BY <1>18, <2>2 DEF UpdateSnapshot, controller
<1>19. CASE Kill \/ Reboot
  BY <1>19 DEF Kill, Reboot, Dies, Off
<1>20. CASE UNCHANGED vars
  BY <1>20 DEF vars, controller, preferences
<1> QED
  BY <1>4, <1>5, <1>6, <1>7, <1>8, <1>9, <1>10, <1>11, <1>12, <1>13, <1>14, <1>15, <1>16, <1>17,
     <1>18, <1>19, <1>20 DEF Next, RxStep, SystemStep

\* ... and SettingInv: a sync that finds a request pending has no time to cancel.
LEMMA SettingStep ==
  ASSUME TypeOK, CarriedInv, PendingInv, SettingInv, [Next]_vars
  PROVE  SettingInv'
<1> USE DEF SettingInv, TimeFollowsSetting
<1>1. memory \in Preferences
  BY DEF TypeOK
<1>2. ASSUME ReadState PROVE memory'.time = memory.time
  BY <1>1, <1>2, ReadStateStep DEF Preferences
<1>3. ASSUME NEW t \in Times \cup {None}, NEW ok \in BOOLEAN, Commit([memory EXCEPT !.time = t], ok)
      PROVE  memory'.time = t
  BY <1>1, <1>3 DEF Commit, Preferences
<1>4. CASE RxStep
  BY <1>4, RxFrame, RxKeeps
<1>5. CASE SystemStep
  BY <1>5, SystemFrame
<1>6. CASE Sync
  <2>1. PermissionState = "pending" => memory.time = None
    BY DEF PermissionState, Pending, PendingInv, TypeOK, Permissions
  <2> QED
    BY <1>2, <1>6, <2>1 DEF Sync, Return, Unpermitted, Idle, Off, Call, TypeOK
<1>7. CASE Schedule
  BY <1>7 DEF Schedule, Failed, TypeOK, controller
<1>8. CASE CheckTime
  <2>1. memory.time = dailyAt /\ dailyAt # None /\ UNCHANGED dailyAt /\ memory'.time = memory.time
    BY <1>2, <1>8 DEF CheckTime, controller
  <2>2. app'.pc \in {"arm", "undo"}
    BY <1>8 DEF CheckTime, TypeOK
  <2> QED
    BY <2>1, <2>2
<1>9. CASE CommitTime
  <2>1. PICK ok \in BOOLEAN :
          /\ Commit([memory EXCEPT !.time = dailyAt], ok)
          /\ app' = IF ok THEN [app EXCEPT !.pc = "next", !.previous = memory.time] ELSE Failed
    BY <1>9 DEF CommitTime
  <2>2. dailyAt \in Times \cup {None} /\ dailyAt # None /\ UNCHANGED dailyAt
    BY <1>9 DEF CommitTime, controller, TypeOK
  <2>3. app'.pc \in {"next", "cancel"}
    BY <2>1 DEF Failed, TypeOK
  <2> QED
    BY <1>3, <2>1, <2>2, <2>3
<1>10. CASE Undo \/ CancelAlarm
  BY <1>10 DEF Undo, CancelAlarm, Failed, TypeOK
<1>11. CASE RemoveTime
  <2>1. PICK ok \in BOOLEAN :
          /\ Commit([memory EXCEPT !.time = None], ok)
          /\ Return(app.verdict = "true" \/ (app.verdict = "commit" /\ ok))
    BY <1>11 DEF RemoveTime
  <2>2. app'.pc \in {"idle", "sync"}
    BY <2>1 DEF Return, Idle, Off, Call
  <2> QED
    BY <1>3, <2>1, <2>2
<1>12. CASE Arm
  BY <1>12 DEF Arm, Return, Idle, Off, preferences
<1>13. CASE Launch
  BY <1>13 DEF Launch, Call, Idle, Off
<1>14. ASSUME NEW t \in Times \cup {None}, Save(t) PROVE SettingInv'
  BY <1>14 DEF Save, Call, Idle, Off
<1>15. CASE Refresh
  <2>1. CASE Pending(memory)
    BY <1>15, <2>1 DEF Refresh, preferences
  <2>2. CASE ~Pending(memory)
    BY <1>15, <2>2 DEF Refresh, Call, Idle, Off, Unpermitted, TypeOK
  <2> QED
    BY <2>1, <2>2
<1>16. CASE RequestPermission
  <2>1. memory'.time = memory.time
    BY <1>1, <1>2, <1>16 DEF RequestPermission, Commit, Preferences
  <2> QED
    BY <1>16, <2>1 DEF RequestPermission, Call, Idle, Off
<1>17. ASSUME NEW v \in Verses, UpdateSnapshot(v) PROVE SettingInv'
  BY <1>1, <1>17 DEF UpdateSnapshot, Commit, Preferences, controller
<1>18. CASE Kill \/ Reboot
  BY <1>18 DEF Kill, Reboot, Dies, Off
<1>19. CASE UNCHANGED vars
  BY <1>19 DEF vars, controller, preferences
<1> QED
  BY <1>4, <1>5, <1>6, <1>7, <1>8, <1>9, <1>10, <1>11, <1>12, <1>13, <1>14, <1>15, <1>16, <1>17,
     <1>18, <1>19 DEF Next, RxStep, SystemStep
-----------------------------------------------------------------------------
(* The prompt for permission. *)

\* That the prompt was asked for stays on record, in memory and in the file.
LEMMA RequestedStays ==
  ASSUME TypeOK, [Next]_vars, memory.requested, disk.requested
  PROVE  memory'.requested /\ disk'.requested
<1>1. PreferencesStep
  BY PreferencesSteps
<1>2. memory \in Preferences
  BY DEF TypeOK
<1>3. CASE ReadState
  BY <1>2, <1>3, ReadStateStep DEF Preferences
<1>4. ASSUME NEW ok \in BOOLEAN
      PROVE  /\ Commit([memory EXCEPT !.pendingAt = None], ok)
                  => memory'.requested /\ disk'.requested
             /\ Commit([memory EXCEPT !.text = rx.text], ok)
                  => memory'.requested /\ disk'.requested
             /\ Commit([memory EXCEPT !.lastDay = rx.day], ok)
                  => memory'.requested /\ disk'.requested
             /\ Commit([memory EXCEPT !.requested = TRUE, !.pendingAt = clock], ok)
                  => memory'.requested /\ disk'.requested
  BY <1>2 DEF Commit, Preferences
<1>5. ASSUME NEW ok \in BOOLEAN, NEW t, Commit([memory EXCEPT !.time = t], ok)
      PROVE  memory'.requested /\ disk'.requested
  BY <1>2, <1>5 DEF Commit, Preferences
<1>6. ASSUME NEW ok \in BOOLEAN, NEW v, Commit([memory EXCEPT !.reference = v, !.text = v], ok)
      PROVE  memory'.requested /\ disk'.requested
  BY <1>2, <1>6 DEF Commit, Preferences
<1> QED
  BY <1>1, <1>3, <1>4, <1>5, <1>6 DEF PreferencesStep

\* The prompt is shown only with the request on record in the file.
LEMMA PromptStep == ASSUME TypeOK, PromptInv, [Next]_vars PROVE PromptInv'
<1> USE DEF PromptInv
<1>1. ASSUME UNCHANGED prompts PROVE PromptInv'
  BY <1>1, RequestedStays
<1>2. CASE RequestPermission
  <2>1. CASE PermissionState = "denied"
    <3>1. PICK ok \in BOOLEAN :
            /\ Commit([memory EXCEPT !.requested = TRUE, !.pendingAt = clock], ok)
            /\ prompts' = IF ShowsPrompt(ok) THEN prompts + 1 ELSE prompts
      BY <1>2, <2>1 DEF RequestPermission
    <3>2. CASE ok
      <4>1. memory' = [memory EXCEPT !.requested = TRUE, !.pendingAt = clock] /\ disk' = memory'
        BY <3>1, <3>2 DEF Commit
      <4>2. memory'.requested /\ disk'.requested
        BY <4>1 DEF TypeOK, Preferences
      <4>3. prompts = 0 /\ prompts' = prompts + 1
        BY <1>2, <3>1, <3>2 DEF RequestPermission, ShowsPrompt
      <4> QED
        BY <4>2, <4>3
    <3>3. CASE ~ok
      BY <1>1, <3>1, <3>3 DEF ShowsPrompt
    <3> QED
      BY <3>2, <3>3
  <2>2. CASE PermissionState # "denied"
    BY <1>1, <1>2, <2>2 DEF RequestPermission
  <2> QED
    BY <2>1, <2>2
<1>3. CASE RxStep \/ SyncStep \/ SystemStep \/ Launch \/ Refresh \/ UNCHANGED vars
  BY <1>1, <1>3, RxFrame, SyncFrame, SystemFrame DEF Launch, Refresh, vars, history
<1>4. ASSUME NEW t \in Times \cup {None}, Save(t) PROVE PromptInv'
  BY <1>1, <1>4 DEF Save, history
<1>5. ASSUME NEW v \in Verses, UpdateSnapshot(v) PROVE PromptInv'
  BY <1>1, <1>5 DEF UpdateSnapshot, history
<1>6. CASE Kill \/ Reboot
  BY <1>1, <1>6 DEF Kill, Reboot, Dies
<1> QED
  BY <1>2, <1>3, <1>4, <1>5, <1>6 DEF Next, RxStep, SyncStep, SystemStep
-----------------------------------------------------------------------------
(* The alarm. *)

\* While the last sync's schedule stands, permissionState says granted.
LEMMA SyncedIsGranted == ASSUME ArmedInv, synced, TypeOK PROVE Granted /\ ~Pending(memory)
BY DEF ArmedInv, Granted, PermissionState, Pending

\* Android's main thread passes on what was scheduled.
LEMMA ArmedRx == ASSUME TypeOK, CarriedInv, ArmedInv, RxStep PROVE ArmedInv'
<1> USE DEF ArmedInv, OnItsWay
<1>1. UNCHANGED <<dailyAt, app, permission, synced>>
  BY RxFrame
<1>2. memory'.time = memory.time /\ (memory.pendingAt = None => memory'.pendingAt = None)
  BY RxKeeps
<1>3. CASE Receive
  BY <1>1, <1>2, <1>3 DEF Receive, Resting
<1>4. CASE OnPermissionResult
  BY <1>1, <1>2, <1>4 DEF OnPermissionResult
<1>5. CASE Post \/ ReadText \/ Overwrite \/ Notify \/ Record
  <2>1. rx'.pc \notin {"idle", "arm"}
    BY <1>5 DEF Post, ReadText, Overwrite, Notify, Record, Resting, TypeOK
  <2> QED
    BY <1>1, <1>2, <2>1
<1>6. CASE ReadTime
  <2>1. app.pc # "arm"
    BY <1>6 DEF ReadTime, AppHoldsLock
  <2>2. synced => rx'.pc = "arm" /\ rx'.time = memory.time
    BY <1>6, SyncedIsGranted DEF ReadTime, Resting
  <2> QED
    BY <1>1, <1>2, <2>1, <2>2
<1>7. CASE Rearm
  <2>1. rx.pc = "arm" /\ rx.time \in Times /\ rx'.pc = "idle"
    BY <1>7 DEF Rearm, TypeOK, Resting
  <2>2. alarm' # None /\ alarm' % DayLength = rx.time
    BY <1>7, <2>1, NextInstantIsOfTime DEF Rearm, TypeOK
  <2> QED
    BY <1>1, <1>2, <2>1, <2>2
<1> QED
  BY <1>3, <1>4, <1>5, <1>6, <1>7 DEF RxStep

\* A sync sets the alarm for the time it stored, while the lock keeps a receiver
\* with another time away.
LEMMA ArmedSync ==
  ASSUME TypeOK, PendingInv, SettingInv, ArmedInv, SyncStep
  PROVE  ArmedInv'
<1> USE DEF ArmedInv, OnItsWay
<1>1. UNCHANGED <<rx, broadcasts, permission>>
  BY SyncFrame
<1>2. memory \in Preferences
  BY DEF TypeOK
<1>3. ASSUME ReadState
      PROVE  /\ memory'.time = memory.time
             /\ memory.pendingAt = None => memory'.pendingAt = None
  BY <1>2, <1>3, ReadStateStep DEF Preferences
<1>4. CASE Sync
  <2>1. UNCHANGED <<alarm, synced>>
    BY <1>4 DEF Sync, system
  <2>2. app'.pc # "arm"
    BY <1>4 DEF Sync, Return, Idle, Off, Unpermitted, TypeOK
  <2>3. CASE synced
    <3>1. app' = [app EXCEPT !.pc = "schedule"] /\ UNCHANGED dailyAt
      BY <1>4, <2>3, SyncedIsGranted DEF Sync, Granted
    <3>2. app'.pc = "schedule"
      BY <3>1 DEF TypeOK
    <3> QED
      BY <1>1, <1>3, <1>4, <2>1, <3>1, <3>2 DEF Sync
  <2> QED
    BY <1>1, <2>1, <2>2, <2>3
<1>5. CASE Schedule
  <2>1. UNCHANGED <<alarm, synced, dailyAt>>
    BY <1>5 DEF Schedule, system, controller
  <2>2. app'.pc \in {"commit", "cancel"}
    BY <1>5 DEF Schedule, Failed, TypeOK
  <2> QED
    BY <1>1, <1>3, <1>5, <2>1, <2>2 DEF Schedule
<1>6. CASE CommitTime
  <2>1. UNCHANGED <<alarm, synced, dailyAt>>
    BY <1>6 DEF CommitTime, system, controller
  <2>2. app'.pc \in {"next", "cancel"}
    BY <1>6 DEF CommitTime, Failed, TypeOK
  <2>3. memory'.time = dailyAt /\ memory'.pendingAt = memory.pendingAt
    BY <1>2, <1>6 DEF CommitTime, Commit, Preferences
  <2> QED
    BY <1>1, <2>1, <2>2, <2>3
<1>7. CASE CheckTime
  <2>1. UNCHANGED <<alarm, synced, dailyAt>> /\ rx.pc # "arm"
    BY <1>7 DEF CheckTime, system, controller, RxHoldsLock
  <2>2. app'.pc \in {"arm", "undo"} /\ (synced => app'.pc = "arm")
    BY <1>7, SyncedIsGranted DEF CheckTime, TypeOK
  <2> QED
    BY <1>1, <1>3, <1>7, <2>1, <2>2 DEF CheckTime
<1>8. CASE Arm
  <2>1. memory.time = dailyAt /\ dailyAt \in Times /\ dailyAt # None /\ memory.pendingAt = None
        /\ rx.pc # "arm"
    BY <1>8 DEF Arm, SettingInv, PendingInv, TypeOK
  <2>2. alarm' # None /\ alarm' % DayLength = dailyAt
    BY <1>8, <2>1, NextInstantIsOfTime DEF Arm, TypeOK
  <2>3. app'.pc = "idle" /\ UNCHANGED <<dailyAt, memory>>
    BY <1>8 DEF Arm, Return, Idle, Off, preferences
  <2> QED
    BY <1>1, <1>8, <2>1, <2>2, <2>3 DEF Arm
<1>9. CASE Undo
  BY <1>1, <1>9 DEF Undo, Failed, TypeOK
<1>10. CASE CancelAlarm
  BY <1>1, <1>10 DEF CancelAlarm, TypeOK
<1>11. CASE RemoveTime
  BY <1>1, <1>11 DEF RemoveTime, Return, Idle, Off, Call
<1> QED
  BY <1>4, <1>5, <1>6, <1>7, <1>8, <1>9, <1>10, <1>11 DEF SyncStep

\* Every other step leaves the schedule as it is or gives it up.
LEMMA ArmedStep ==
  ASSUME TypeOK, CarriedInv, PendingInv, SettingInv, ArmedInv, [Next]_vars
  PROVE  ArmedInv'
<1> USE DEF ArmedInv, OnItsWay
<1>1. CASE Launch
  BY <1>1 DEF Launch, Call, Idle, Off
<1>2. ASSUME NEW t \in Times \cup {None}, Save(t) PROVE ArmedInv'
  BY <1>2 DEF Save, Call, Idle, Off
<1>3. CASE Refresh
  <2>1. UNCHANGED <<rx, synced, alarm, broadcasts, permission, dailyAt>>
    BY <1>3 DEF Refresh, system
  <2>2. app'.pc # "arm"
    BY <1>3 DEF Refresh, Call, Idle, Off, Unpermitted, TypeOK
  <2>3. CASE synced
    <3>1. PICK ok \in BOOLEAN : Commit([memory EXCEPT !.pendingAt = None], ok)
      BY <1>3, <2>3, SyncedIsGranted DEF Refresh
    <3>2. memory'.time = memory.time /\ memory'.pendingAt = None
      BY <3>1 DEF Commit, TypeOK, Preferences
    <3>3. app'.pc = "sync"
      BY <1>3, <2>3, SyncedIsGranted DEF Refresh, Call, Idle, Off
    <3> QED
      BY <2>1, <3>2, <3>3
  <2> QED
    BY <2>1, <2>2, <2>3
<1>4. CASE RequestPermission
  <2>1. UNCHANGED <<rx, synced, alarm, broadcasts, permission, dailyAt>>
    BY <1>4 DEF RequestPermission
  <2>2. app'.pc \in {"idle", "sync"}
    BY <1>4 DEF RequestPermission, Call, Idle, Off
  <2>3. CASE synced
    <3>1. ReadState
      BY <1>4, <2>3, SyncedIsGranted DEF RequestPermission, Granted
    <3>2. memory'.time = memory.time /\ (memory.pendingAt = None => memory'.pendingAt = None)
      BY <3>1, ReadStateStep DEF TypeOK, Preferences
    <3> QED
      BY <2>1, <2>2, <3>2
  <2> QED
    BY <2>1, <2>2, <2>3
<1>5. ASSUME NEW v \in Verses, UpdateSnapshot(v) PROVE ArmedInv'
  <2>1. UNCHANGED <<rx, synced, alarm, broadcasts, permission, dailyAt, app>>
    BY <1>5 DEF UpdateSnapshot, system, controller
  <2>2. memory'.time = memory.time /\ memory'.pendingAt = memory.pendingAt
    BY <1>5 DEF UpdateSnapshot, Commit, TypeOK, Preferences
  <2> QED
    BY <2>1, <2>2
<1>6. CASE AlarmFires
  BY <1>6 DEF AlarmFires, controller, preferences
<1>7. CASE Tick
  BY <1>7 DEF Tick, controller, preferences
<1>8. ASSUME NEW n \in Instants, SetClock(n) PROVE ArmedInv'
  BY <1>8 DEF SetClock, controller
<1>9. ASSUME NEW p \in Permissions, ChangePermission(p) PROVE ArmedInv'
  BY <1>9 DEF ChangePermission
<1>10. ASSUME NEW p \in {"granted", "denied"}, Answer(p) PROVE ArmedInv'
  BY <1>10 DEF Answer
<1>11. CASE Kill \/ Reboot
  BY <1>11 DEF Kill, Reboot, Dies, Off
<1>12. CASE UNCHANGED vars
  BY <1>12 DEF vars, controller, preferences, system
<1> QED
  BY <1>1, <1>2, <1>3, <1>4, <1>5, <1>6, <1>7, <1>8, <1>9, <1>10, <1>11, <1>12,
     ArmedRx, ArmedSync DEF Next, RxStep, SyncStep
-----------------------------------------------------------------------------
(* One notification a day. *)

\* Today and the day of the notification under way are days, and days are
\* natural numbers.
LEMMA DaysAtHand ==
  ASSUME TypeOK, CarriedInv
  PROVE  /\ Today \in Days /\ Today \in Nat /\ Days \subseteq Nat /\ excused \subseteq Days
         /\ Reporting => rx.day \in Days /\ rx.day \in Nat
BY DaysGrow, DayIsNotNone DEF TypeOK, CarriedInv, Reporting, Today, Instants

\* The steps that are neither of a report's end nor of the process's.
OtherStep ==
  \/ Receive \/ OnPermissionResult \/ Post \/ ReadText \/ Overwrite \/ ReadTime \/ Rearm
  \/ SyncStep \/ Launch \/ (\E t \in Times \cup {None} : Save(t)) \/ Refresh
  \/ RequestPermission \/ (\E v \in Verses : UpdateSnapshot(v)) \/ SystemStep \/ UNCHANGED vars

\* They leave the last day on record, and what was posted, alone.
LEMMA OtherFrame ==
  ASSUME TypeOK, OtherStep
  PROVE  memory'.lastDay = memory.lastDay /\ posted' = posted
<1>1. memory \in Preferences
  BY DEF TypeOK
<1>2. ASSUME ReadState PROVE memory'.lastDay = memory.lastDay
  BY <1>1, <1>2, ReadStateStep DEF Preferences
<1>3. CASE Receive \/ ReadText \/ Rearm \/ Arm \/ CancelAlarm \/ Launch \/ Tick \/ AlarmFires
             \/ UNCHANGED vars
  BY <1>3 DEF Receive, ReadText, Rearm, Arm, CancelAlarm, Launch, Tick, AlarmFires, vars,
     preferences, history
<1>4. CASE Post \/ ReadTime \/ Sync \/ Schedule \/ CheckTime
  BY <1>2, <1>4 DEF Post, ReadTime, Sync, Schedule, CheckTime, history
<1>5. CASE OnPermissionResult \/ Overwrite
  BY <1>1, <1>5 DEF OnPermissionResult, Overwrite, Commit, Preferences, preferences, history
<1>6. CASE CommitTime \/ Undo \/ RemoveTime
  BY <1>1, <1>6 DEF CommitTime, Undo, RemoveTime, Commit, Preferences, history
<1>7. CASE Refresh
  BY <1>1, <1>7 DEF Refresh, Commit, Preferences, preferences, history
<1>8. CASE RequestPermission
  BY <1>1, <1>2, <1>8 DEF RequestPermission, Commit, Preferences
<1>9. ASSUME NEW v \in Verses, UpdateSnapshot(v) PROVE memory'.lastDay = memory.lastDay /\ posted' = posted
  BY <1>1, <1>9 DEF UpdateSnapshot, Commit, Preferences, history
<1>10. ASSUME NEW t \in Times \cup {None}, Save(t) PROVE memory'.lastDay = memory.lastDay /\ posted' = posted
  BY <1>10 DEF Save, preferences, history
<1>11. CASE SystemStep
  BY <1>11, SystemFrame
<1> QED
  BY <1>3, <1>4, <1>5, <1>6, <1>7, <1>8, <1>9, <1>10, <1>11
  DEF OtherStep, SyncStep

\* The steps of a report: it begins on a day not on record, and ends with that
\* day on record.
LEMMA PostedReport ==
  ASSUME TypeOK, CarriedInv, PostedInv,
         Post \/ ReadText \/ Overwrite \/ Notify \/ Record
  PROVE  PostedInv'
<1> USE DaysAtHand DEF PostedInv, Reporting
<1>1. UNCHANGED <<clock, excused>> /\ Today' = Today
  BY RxFrame DEF RxStep, Today
<1>2. CASE Post
  <2>1. memory'.lastDay = memory.lastDay /\ posted' = posted
    BY <1>2, OtherFrame DEF OtherStep
  <2>2. CASE MayPost
    <3>1. rx'.pc = "text" /\ rx'.day = Today /\ memory.lastDay # Today /\ rx.pc = "post"
      BY <1>2, <2>2 DEF Post, MayPost, TypeOK
    <3> QED
      BY <1>1, <2>1, <3>1
  <2>3. CASE ~MayPost
    <3>1. rx'.pc = "next" /\ rx.pc = "post"
      BY <1>2, <2>3 DEF Post, TypeOK
    <3> QED
      BY <1>1, <2>1, <3>1
  <2> QED
    BY <2>2, <2>3
<1>3. CASE ReadText \/ Overwrite
  <2>1. memory'.lastDay = memory.lastDay /\ posted' = posted
    BY <1>3, OtherFrame DEF OtherStep
  <2>2. /\ rx.pc \in {"text", "overwrite"} /\ rx'.pc \in {"overwrite", "notify"}
        /\ rx'.day = rx.day
    BY <1>3 DEF ReadText, Overwrite, TypeOK
  <2> QED
    BY <1>1, <2>1, <2>2
<1>4. CASE Notify
  <2>1. rx.pc = "notify" /\ rx'.pc = "record" /\ rx'.day = rx.day /\ UNCHANGED memory
    BY <1>4 DEF Notify, TypeOK
  <2>2. \A d \in Days : posted'[d] = IF d = rx.day THEN posted[d] + 1 ELSE posted[d]
    BY <1>4 DEF Notify, TypeOK
  <2>3. \A d \in Days : posted[d] \in Nat
    BY DEF TypeOK
  <2>4. rx.day \notin excused => posted[rx.day] = 0 /\ rx.day <= Today
    <3>1. CASE rx.day > Today
      BY <2>1, <3>1
    <3>2. CASE rx.day <= Today
      BY <2>1, <2>3, <3>2
    <3> QED
      BY <2>1, <3>1, <3>2
  <2>5. ASSUME NEW d \in Days \ excused
        PROVE  /\ posted'[d] <= 1
               /\ posted'[d] = 1 =>
                    /\ d <= Today
                    /\ d = Today => memory.lastDay = d \/ rx.day = d
                    /\ d <= rx.day
    BY <2>1, <2>2, <2>3, <2>4
  <2> QED
    BY <1>1, <2>1, <2>5
<1>5. CASE Record
  <2>1. rx.pc = "record" /\ rx'.pc = "next"
    BY <1>5 DEF Record, Resting
  <2>2. memory'.lastDay = rx.day /\ UNCHANGED posted
    BY <1>5 DEF Record, Commit, history, TypeOK, Preferences
  <2>3. ASSUME NEW d \in Days \ excused, posted[d] = 1, d = Today PROVE rx.day = d
    <3>1. d <= rx.day
      BY <2>1, <2>3
    <3>2. CASE d < rx.day
      <4>1. d \in Today..rx.day
        BY <2>1, <2>3, <3>2
      <4> QED
        BY <2>1, <2>3, <3>2, <4>1
    <3> QED
      BY <2>1, <3>1, <3>2
  <2> QED
    BY <1>1, <2>1, <2>2, <2>3
<1> QED
  BY <1>2, <1>3, <1>4, <1>5


\* The other steps: time passes, a clock set back excuses the days that come
\* again, and a process that ends excuses the days whose record it loses.
LEMMA PostedStep ==
  ASSUME TypeOK, CarriedInv, PostedInv, [Next]_vars
  PROVE  PostedInv'
<1> USE DaysAtHand DEF PostedInv, Reporting
<1>1. CASE Receive \/ OnPermissionResult \/ ReadTime \/ Rearm
  <2>1. UNCHANGED <<clock, excused>> /\ Today' = Today
    BY <1>1, RxFrame DEF RxStep, Today
  <2>2. memory'.lastDay = memory.lastDay /\ posted' = posted
    BY <1>1, OtherFrame DEF OtherStep
  <2>3. rx.pc \in {"idle", "next", "arm"} /\ rx'.pc \in {"idle", "post", "next", "arm"}
    <3>1. CASE ReadTime
      BY <3>1 DEF ReadTime, Resting
    <3> QED
      BY <1>1, <3>1 DEF Receive, OnPermissionResult, Rearm, Resting
  <2> QED
    BY <2>1, <2>2, <2>3
<1>2. CASE OtherStep /\ UNCHANGED <<rx, excused, clock>>
  <2>1. memory'.lastDay = memory.lastDay /\ posted' = posted
    BY <1>2, OtherFrame
  <2> QED
    BY <1>2, <2>1 DEF Today
<1>3. CASE SyncStep \/ Launch \/ Refresh \/ RequestPermission \/ AlarmFires \/ UNCHANGED vars
  BY <1>2, <1>3, SyncFrame
  DEF OtherStep, SystemStep, Launch, Refresh, RequestPermission, AlarmFires, system, history, vars
<1>4. ASSUME NEW t \in Times \cup {None}, Save(t) PROVE PostedInv'
  BY <1>2, <1>4 DEF OtherStep, Save, system, history
<1>5. ASSUME NEW v \in Verses, UpdateSnapshot(v) PROVE PostedInv'
  BY <1>2, <1>5 DEF OtherStep, UpdateSnapshot, system, history
<1>6. ASSUME NEW p \in Permissions, ChangePermission(p) PROVE PostedInv'
  BY <1>2, <1>6 DEF OtherStep, SystemStep, ChangePermission, history
<1>7. ASSUME NEW p \in {"granted", "denied"}, Answer(p) PROVE PostedInv'
  BY <1>2, <1>7 DEF OtherStep, SystemStep, Answer, history
<1>8. CASE Tick
  <2>1. memory'.lastDay = memory.lastDay /\ UNCHANGED <<rx, posted, excused>>
    BY <1>8, OtherFrame, SystemFrame DEF OtherStep, SystemStep, Tick, history
  <2>2. clock' = clock + 1 /\ clock \in Instants /\ clock' \in Instants
    BY <1>8, DailyNotificationsAssumption DEF Tick, TypeOK, Instants
  <2>3. Today' \in Nat /\ Today <= Today'
    BY <2>2, DaysGrow, DailyNotificationsAssumption DEF Today, Instants
  <2>4. \A d \in Days \ excused : posted[d] = 1 /\ d = Today' => d = Today
    BY <2>3
  <2> QED
    BY <2>1, <2>3, <2>4
<1>9. ASSUME NEW n \in Instants, SetClock(n) PROVE PostedInv'
  <2>1. memory'.lastDay = memory.lastDay /\ UNCHANGED <<rx, posted>>
    BY <1>9, OtherFrame, SystemFrame DEF OtherStep, SystemStep
  <2>2. Today' = Day(n) /\ Day(n) \in Nat
    BY <1>9, DaysGrow, DailyNotificationsAssumption DEF SetClock, Today, Instants
  <2>3. CASE Day(n) < Today
    <3>1. excused' = excused \cup Day(n)..Today
      BY <1>9, <2>3 DEF SetClock
    <3>2. \A d \in Days \ excused' : posted[d] = 1 => d < Day(n)
      BY <2>2, <2>3, <3>1
    <3>3. ASSUME Reporting, rx.day > Day(n) PROVE Day(n)..rx.day \subseteq excused'
      <4>1. CASE rx.day > Today
        BY <2>2, <2>3, <3>1, <3>3, <4>1
      <4>2. CASE ~(rx.day > Today)
        BY <2>2, <2>3, <3>1, <3>3, <4>2
      <4> QED
        BY <4>1, <4>2
    <3> QED
      BY <2>1, <2>2, <3>1, <3>2, <3>3
  <2>4. CASE ~(Day(n) < Today)
    <3>1. excused' = excused
      BY <1>9, <2>4 DEF SetClock
    <3>2. \A d \in Days \ excused : posted[d] = 1 /\ d = Day(n) => d = Today
      BY <2>2, <2>4
    <3>3. Reporting /\ rx.day > Day(n) => Day(n)..rx.day \subseteq excused
      BY <2>2, <2>4
    <3> QED
      BY <2>1, <2>2, <2>4, <3>1, <3>2, <3>3
  <2> QED
    BY <2>3, <2>4
<1>10. CASE Kill \/ Reboot
  <2>1. /\ rx' = Resting /\ memory' = disk /\ UNCHANGED <<clock, posted>>
        /\ excused' = excused \cup (IF disk.lastDay # memory.lastDay THEN {memory.lastDay} ELSE {})
                              \cup (IF rx.pc = "record" THEN {rx.day} ELSE {})
    BY <1>10 DEF Kill, Reboot, Dies
  <2>2. rx'.pc = "idle" /\ Today' = Today
    BY <2>1 DEF Resting, Today
  <2>3. ASSUME NEW d \in Days \ excused', posted[d] = 1, d = Today PROVE disk.lastDay = d
    <3>1. memory.lastDay = d \/ (rx.pc = "record" /\ rx.day = d)
      BY <2>1, <2>3
    <3> QED
      BY <2>1, <2>3, <3>1
  <2> QED
    BY <2>1, <2>2, <2>3
<1> QED
  BY <1>1, <1>3, <1>4, <1>5, <1>6, <1>7, <1>8, <1>9, <1>10, PostedReport DEF Next, SyncStep
-----------------------------------------------------------------------------
(* What a cancelled time leaves behind. *)

\* UnderWay is a number, and what it counts.
LEMMA UnderWayIs ==
  /\ UnderWay \in 0..3
  /\ rx.pc = "arm" => UnderWay <= 2
  /\ ~(Posting /\ alarm # None /\ "daily" \in broadcasts) => UnderWay <= 2
BY DEF UnderWay, One, Posting

\* A step that keeps the time, brings nothing more under way and counts nothing,
\* and lets the controller drop the time only as before or with little under way.
LEMMA NothingMore ==
  ASSUME TypeOK, StrayInv, memory'.time = memory.time, UnderWay' <= UnderWay,
         stray' = stray \/ (memory.time # None /\ stray' = 0),
         MayDropTime' => MayDropTime \/ UnderWay' <= 2
  PROVE  StrayInv'
<1>1. UnderWay \in 0..3 /\ UnderWay' \in 0..3
  BY DEF UnderWay, One, Posting
<1>2. stray \in Nat
  BY DEF TypeOK
<1> QED
  BY <1>1, <1>2 DEF StrayInv

\* The steps of Android's main thread.
LEMMA StrayRx == ASSUME TypeOK, CarriedInv, StrayInv, RxStep PROVE StrayInv'
<1>1. memory'.time = memory.time /\ (MayDropTime' <=> MayDropTime)
  BY RxFrame, RxKeeps DEF MayDropTime
<1>2. memory \in Preferences
  BY DEF TypeOK
<1>3. ASSUME RxStep, ~Notify PROVE stray' = stray \/ (memory.time # None /\ stray' = 0)
  <2>1. CASE Receive \/ ReadText \/ Rearm
    BY <2>1 DEF Receive, ReadText, Rearm, preferences
  <2>2. CASE Post \/ ReadTime
    BY <2>2, ReadStateStep DEF Post, ReadTime
  <2>3. CASE OnPermissionResult \/ Overwrite \/ Record
    BY <1>2, <2>3 DEF OnPermissionResult, Overwrite, Record, Commit, Preferences, preferences
  <2> QED
    BY <1>3, <2>1, <2>2, <2>3 DEF RxStep
<1>4. CASE Receive
  <2>1. /\ rx.pc = "idle" /\ UNCHANGED alarm
        /\ \/ rx'.pc = "post" /\ "daily" \in broadcasts /\ broadcasts' = broadcasts \ {"daily"}
           \/ rx'.pc = "next" /\ broadcasts' = broadcasts \ {"rearm"}
    BY <1>4 DEF Receive, Resting
  <2>2. UnderWay' = UnderWay
    BY <2>1 DEF UnderWay, One, Posting
  <2> QED
    BY <1>1, <1>3, <1>4, <2>2, UnderWayIs, NothingMore DEF RxStep, Receive, preferences
<1>6. UnderWay \in Nat
  BY UnderWayIs
<1>7. CASE OnPermissionResult
  <2>1. UnderWay' = UnderWay
    BY <1>7 DEF OnPermissionResult, UnderWay, One, Posting
  <2> QED
    BY <1>1, <1>3, <1>6, <1>7, <2>1, NothingMore DEF OnPermissionResult, RxStep, Notify
<1>8. CASE Post \/ ReadText \/ Overwrite
  <2>1. /\ rx.pc \in {"post", "text", "overwrite"}
        /\ rx'.pc \in {"text", "overwrite", "notify", "next"}
        /\ UNCHANGED <<alarm, broadcasts>>
    BY <1>8 DEF Post, ReadText, Overwrite, system, TypeOK
  <2>2. UnderWay' <= UnderWay
    BY <2>1 DEF UnderWay, One, Posting
  <2> QED
    BY <1>1, <1>3, <1>8, <2>1, <2>2, NothingMore DEF RxStep, Notify
<1>9. CASE Notify
  <2>1. /\ rx.pc = "notify" /\ rx'.pc = "record" /\ UNCHANGED <<alarm, broadcasts, memory>>
        /\ stray' = IF memory.time = None THEN stray + 1 ELSE 0
    BY <1>9 DEF Notify, system, TypeOK
  <2>2. UnderWay' = UnderWay - 1
    BY <2>1 DEF UnderWay, One, Posting
  <2>3. stray \in Nat
    BY DEF TypeOK
  <2> QED
    BY <1>1, <1>6, <2>1, <2>2, <2>3, UnderWayIs DEF StrayInv
<1>10. CASE Record
  <2>1. rx.pc = "record" /\ rx'.pc = "next" /\ UNCHANGED <<alarm, broadcasts>>
    BY <1>10 DEF Record, system, Resting
  <2>2. UnderWay' = UnderWay
    BY <2>1 DEF UnderWay, One, Posting
  <2> QED
    BY <1>1, <1>3, <1>6, <1>10, <2>1, <2>2, NothingMore DEF RxStep, Notify
<1>11. CASE ReadTime
  <2>1. /\ rx.pc = "next" /\ UNCHANGED <<alarm, broadcasts>>
        /\ rx'.pc = "idle" \/ (rx'.pc = "arm" /\ memory.time # None)
    BY <1>11 DEF ReadTime, system, Resting
  <2>2. stray' = stray \/ (memory.time # None /\ stray' = 0)
    BY <1>3, <1>11, <2>1 DEF RxStep, Notify
  <2>3. CASE rx'.pc = "idle"
    <3>1. UnderWay' = UnderWay
      BY <2>1, <2>3 DEF UnderWay, One, Posting
    <3> QED
      BY <1>1, <1>6, <2>2, <3>1, NothingMore
  <2>4. CASE rx'.pc = "arm" /\ memory.time # None
    <3>1. UnderWay' <= 2
      BY <2>4 DEF UnderWay, One
    <3> QED
      BY <1>1, <2>2, <2>4, <3>1 DEF StrayInv
  <2> QED
    BY <2>1, <2>3, <2>4
<1>12. CASE Rearm
  <2>1. rx.pc = "arm" /\ rx'.pc = "idle" /\ UNCHANGED broadcasts
    BY <1>12 DEF Rearm, Resting
  <2>2. UnderWay' <= UnderWay
    BY <2>1 DEF UnderWay, One, Posting
  <2> QED
    BY <1>1, <1>3, <1>12, <2>1, <2>2, NothingMore DEF RxStep, Notify
<1> QED
  BY <1>4, <1>7, <1>8, <1>9, <1>10, <1>11, <1>12 DEF RxStep

\* The steps of a sync: no time is left only when at most two are under way.
LEMMA StraySync ==
  ASSUME TypeOK, SettingInv, StrayInv, SyncStep
  PROVE  StrayInv'
<1>1. memory \in Preferences /\ stray \in Nat /\ UnderWay \in 0..3 /\ UnderWay' \in 0..3
  BY DEF TypeOK, UnderWay, One, Posting
<1>2. UNCHANGED <<rx, broadcasts>>
  BY SyncFrame
<1>3. UNCHANGED alarm => UnderWay' = UnderWay
  BY <1>2 DEF UnderWay, One, Posting
<1>4. ASSUME ReadState
      PROVE  memory'.time = memory.time /\ (stray' = stray \/ (memory.time # None /\ stray' = 0))
  BY <1>1, <1>4, ReadStateStep DEF Preferences
<1>5. CASE Sync
  <2>1. app'.pc \in {"idle", "cancel", "schedule"}
    BY <1>5 DEF Sync, Return, Idle, Off, Unpermitted, TypeOK
  <2> QED
    BY <1>1, <1>3, <1>4, <1>5, <2>1, NothingMore DEF Sync, system, MayDropTime
<1>6. CASE Schedule
  <2>1. app'.pc \in {"commit", "cancel"}
    BY <1>6 DEF Schedule, Failed, TypeOK
  <2> QED
    BY <1>1, <1>3, <1>4, <1>6, <2>1, NothingMore DEF Schedule, system, MayDropTime
<1>7. CASE CommitTime
  <2>1. dailyAt # None /\ UNCHANGED alarm
    BY <1>7 DEF CommitTime, SettingInv, system
  <2>2. PICK ok \in BOOLEAN :
          /\ Commit([memory EXCEPT !.time = dailyAt], ok)
          /\ app' = IF ok THEN [app EXCEPT !.pc = "next", !.previous = memory.time] ELSE Failed
    BY <1>7 DEF CommitTime
  <2>3. memory'.time # None /\ stray' = 0
    BY <1>1, <2>1, <2>2 DEF Commit, Preferences
  <2>4. app'.pc = "cancel" \/ (app'.pc = "next" /\ app'.previous = memory.time)
    BY <2>2 DEF Failed, TypeOK
  <2> QED
    BY <1>1, <1>3, <2>1, <2>3, <2>4 DEF StrayInv, MayDropTime
<1>8. CASE CheckTime
  <2>1. app.pc = "next" /\ app'.pc \in {"arm", "undo"} /\ app'.previous = app.previous
    BY <1>8 DEF CheckTime, TypeOK
  <2> QED
    BY <1>1, <1>3, <1>4, <1>8, <2>1, NothingMore DEF CheckTime, system, MayDropTime
<1>9. CASE Arm
  <2>1. memory.time # None /\ app'.pc = "idle" /\ UNCHANGED <<memory, stray>>
    BY <1>9 DEF Arm, SettingInv, Return, Idle, Off, preferences
  <2> QED
    BY <2>1 DEF StrayInv, MayDropTime
<1>10. CASE Undo
  <2>1. memory.time # None /\ UNCHANGED alarm
    BY <1>10 DEF Undo, SettingInv, system
  <2>2. PICK ok \in BOOLEAN : Commit([memory EXCEPT !.time = app.previous], ok)
    BY <1>10 DEF Undo
  <2>3. /\ memory'.time = app.previous /\ app'.pc = "cancel"
        /\ stray' = IF app.previous = None THEN stray ELSE 0
    BY <1>1, <1>10, <2>2 DEF Undo, Failed, Commit, Preferences, TypeOK
  <2>4. stray = 0 /\ (app.previous = None => UnderWay <= 2)
    BY <1>10, <2>1 DEF Undo, StrayInv, MayDropTime
  <2> QED
    BY <1>1, <1>3, <2>1, <2>3, <2>4 DEF StrayInv, MayDropTime
<1>11. CASE CancelAlarm
  <2>1. alarm' = None /\ app'.pc = "remove" /\ UNCHANGED <<memory, stray>>
    BY <1>11 DEF CancelAlarm, preferences, TypeOK
  <2>2. UnderWay' <= UnderWay /\ UnderWay' <= 2
    BY <1>2, <2>1 DEF UnderWay, One, Posting
  <2> QED
    BY <2>1, <2>2, NothingMore
<1>12. CASE RemoveTime
  <2>1. UnderWay <= 2 /\ UNCHANGED alarm
    BY <1>12 DEF RemoveTime, StrayInv, MayDropTime, system
  <2>2. PICK ok \in BOOLEAN : Commit([memory EXCEPT !.time = None], ok)
    BY <1>12 DEF RemoveTime
  <2>3. memory'.time = None /\ stray' = stray
    BY <1>1, <2>2 DEF Commit, Preferences
  <2>4. app'.pc \in {"idle", "sync"}
    BY <1>12 DEF RemoveTime, Return, Idle, Off, Call
  <2> QED
    BY <1>1, <1>3, <2>1, <2>3, <2>4 DEF StrayInv, MayDropTime
<1> QED
  BY <1>5, <1>6, <1>7, <1>8, <1>9, <1>10, <1>11, <1>12 DEF SyncStep

\* The other steps: a process that ends may lose the time, and then takes what
\* it was posting with it.
LEMMA StrayStep ==
  ASSUME TypeOK, CarriedInv, SettingInv, StrayInv, [Next]_vars
  PROVE  StrayInv'
<1>1. memory \in Preferences /\ stray \in Nat /\ UnderWay \in 0..3
  BY DEF TypeOK, UnderWay, One, Posting
<1>2. ASSUME UNCHANGED <<rx, alarm>>, "daily" \in broadcasts' <=> "daily" \in broadcasts
      PROVE  UnderWay' = UnderWay
  BY <1>2 DEF UnderWay, One, Posting
<1>3. ASSUME ReadState
      PROVE  memory'.time = memory.time /\ (stray' = stray \/ (memory.time # None /\ stray' = 0))
  BY <1>1, <1>3, ReadStateStep DEF Preferences
<1>4. CASE Launch
  BY <1>1, <1>2, <1>4, NothingMore
  DEF Launch, Call, Idle, Off, preferences, system, MayDropTime
<1>5. ASSUME NEW t \in Times \cup {None}, Save(t) PROVE StrayInv'
  BY <1>1, <1>2, <1>5, NothingMore DEF Save, Call, Idle, Off, preferences, system, MayDropTime
<1>6. CASE Refresh
  <2>1. memory'.time = memory.time /\ (stray' = stray \/ (memory.time # None /\ stray' = 0))
    BY <1>1, <1>6 DEF Refresh, Commit, Preferences, preferences
  <2>2. app'.pc \in {"idle", "sync", "cancel"}
    BY <1>6 DEF Refresh, Call, Idle, Off, Unpermitted, TypeOK
  <2> QED
    BY <1>1, <1>2, <1>6, <2>1, <2>2, NothingMore DEF Refresh, system, MayDropTime
<1>7. CASE RequestPermission
  <2>1. memory'.time = memory.time /\ (stray' = stray \/ (memory.time # None /\ stray' = 0))
    BY <1>1, <1>3, <1>7 DEF RequestPermission, Commit, Preferences
  <2>2. app'.pc \in {"idle", "sync"}
    BY <1>7 DEF RequestPermission, Call, Idle, Off
  <2> QED
    BY <1>1, <1>2, <1>7, <2>1, <2>2, NothingMore DEF RequestPermission, MayDropTime
<1>8. ASSUME NEW v \in Verses, UpdateSnapshot(v) PROVE StrayInv'
  <2>1. memory'.time = memory.time /\ (stray' = stray \/ (memory.time # None /\ stray' = 0))
    BY <1>1, <1>8 DEF UpdateSnapshot, Commit, Preferences
  <2> QED
    BY <1>1, <1>2, <1>8, <2>1, NothingMore DEF UpdateSnapshot, system, controller, MayDropTime
<1>9. CASE SystemStep
  <2>1. UNCHANGED <<memory, stray, app, rx>>
    BY <1>9, SystemFrame
  <2>2. CASE AlarmFires
    <3>1. alarm # None /\ alarm' = None /\ broadcasts' = broadcasts \cup {"daily"}
      BY <2>2 DEF AlarmFires
    <3>2. UnderWay' <= UnderWay
      BY <2>1, <3>1 DEF UnderWay, One, Posting
    <3> QED
      BY <2>1, <3>2, NothingMore DEF MayDropTime
  <2>3. CASE ~AlarmFires
    <3>1. UNCHANGED alarm /\ ("daily" \in broadcasts' <=> "daily" \in broadcasts)
      BY <1>9, <2>3 DEF SystemStep, Tick, SetClock, ChangePermission, Answer
    <3> QED
      BY <1>1, <1>2, <2>1, <3>1, NothingMore DEF MayDropTime
  <2> QED
    BY <2>2, <2>3
<1>10. CASE Kill \/ Reboot
  <2>1. /\ app'.pc = "off" /\ rx'.pc = "idle"
        /\ memory' = disk /\ stray' = IF disk.time = None THEN stray ELSE 0
        /\ UNCHANGED alarm \/ alarm' = None
        /\ "daily" \in broadcasts' => "daily" \in broadcasts
    BY <1>10 DEF Kill, Reboot, Dies, Off, Resting
  <2>2. UnderWay' <= UnderWay /\ UnderWay' <= 2 /\ UnderWay' \in Nat
    BY <2>1 DEF UnderWay, One, Posting
  <2> QED
    BY <1>1, <2>1, <2>2 DEF StrayInv, MayDropTime
<1>11. CASE UNCHANGED vars
  BY <1>1, <1>2, <1>11, NothingMore DEF vars, controller, preferences, system, MayDropTime
<1> QED
  BY <1>4, <1>5, <1>6, <1>7, <1>8, <1>9, <1>10, <1>11, StrayRx, StraySync
  DEF Next, RxStep, SyncStep, SystemStep
-----------------------------------------------------------------------------
(* The invariant of the specification, and what follows from it. *)

NotificationsInv ==
  /\ TypeOK /\ CarriedInv /\ PendingInv /\ SettingInv
  /\ StrayInv /\ ArmedInv /\ PostedInv /\ PromptInv

\* The initial state has nothing scheduled, posted or asked for.
LEMMA NotificationsInit == Init => NotificationsInv
<1> SUFFICES ASSUME Init PROVE NotificationsInv
  OBVIOUS
<1> USE DailyNotificationsAssumption DEF Init
<1>1. 0 \in Instants /\ Day(0) \in Nat
  BY DaysGrow DEF Instants
<1>2. memory \in Preferences /\ memory.time = None /\ memory.lastDay = None
      /\ memory.pendingAt = None
  BY DEF Preferences
<1>3. TypeOK
  <2>1. ControllerOK /\ ReceiverOK /\ SystemOK
    BY <1>1 DEF ControllerOK, ReceiverOK, SystemOK, Off, Resting, Permissions
  <2>2. PreferencesOK
    BY <1>2 DEF PreferencesOK
  <2>3. HistoryOK
    BY DEF HistoryOK
  <2> QED
    BY <2>1, <2>2, <2>3, TypeParts
<1>4. CarriedInv /\ PendingInv /\ SettingInv
  BY <1>2 DEF CarriedInv, PendingInv, SettingInv, TimeFollowsSetting, Off, Resting
<1>5. StrayInv
  BY <1>2 DEF StrayInv, UnderWay, One, Posting, MayDropTime, Off, Resting
<1>6. ArmedInv /\ PostedInv /\ PromptInv
  BY DEF ArmedInv, PostedInv, Reporting, PromptInv, Off, Resting
<1> QED
  BY <1>3, <1>4, <1>5, <1>6 DEF NotificationsInv

\* Every step keeps the invariant.
LEMMA NotificationsStep ==
  ASSUME NotificationsInv, [Next]_vars
  PROVE  NotificationsInv'
BY TypeStep, PendingStep, SettingStep, StrayStep, ArmedStep, PostedStep, PromptStep
DEF NotificationsInv

\* The invariant holds throughout.
THEOREM NotificationsHold == Spec => []NotificationsInv
<1>1. Init => NotificationsInv
  BY NotificationsInit
<1>2. NotificationsInv /\ [Next]_vars => NotificationsInv'
  BY NotificationsStep
<1> QED
  BY <1>1, <1>2, PTL DEF Spec

\* Every variable keeps its type, and an alarm is set only for a time.
THEOREM NotificationsTyped == Spec => []TypeOK
<1>1. NotificationsInv => TypeOK
  BY DEF NotificationsInv
<1> QED
  BY <1>1, NotificationsHold, PTL

\* A pending request for permission goes with no time, between two slots the
\* scheduler keeps the time of the settings or none, and after a cancel at most
\* two notifications follow, for any number of lost answers, failed commits,
\* deaths of the process and changes of the clock.
THEOREM NotificationsKeepTime == Spec => []TimeKept
<1>1. NotificationsInv => TimeKept
  <2> SUFFICES ASSUME NotificationsInv PROVE TimeKept
    OBVIOUS
  <2>1. PendingMeansNoTime
    BY DEF NotificationsInv, PendingInv, PendingMeansNoTime, Pending
  <2>2. TimeFollowsSetting
    BY DEF NotificationsInv, SettingInv
  <2>3. FewStrays
    BY UnderWayIs DEF NotificationsInv, StrayInv, FewStrays, TypeOK
  <2> QED
    BY <2>1, <2>2, <2>3 DEF TimeKept
<1> QED
  BY <1>1, NotificationsHold, PTL

\* What a sync has scheduled is on its way, for the time of the settings,
\* whatever a receiver did meanwhile.
THEOREM NotificationsAreArmed == Spec => []ScheduledIsArmed
<1>1. NotificationsInv => ScheduledIsArmed
  BY DEF NotificationsInv, ArmedInv, OnItsWay, ScheduledIsArmed
<1> QED
  BY <1>1, NotificationsHold, PTL

\* No day has a second notification, and the prompt is shown once, except for
\* days whose record was lost with the process or that the clock came back to.
THEOREM NotificationsComeOnce == Spec => []NothingTwice
<1>1. NotificationsInv => NothingTwice
  <2> SUFFICES ASSUME NotificationsInv PROVE NothingTwice
    OBVIOUS
  <2>1. OncePerDay
    BY DEF NotificationsInv, PostedInv, OncePerDay, TypeOK
  <2>2. PromptedOnce
    BY DEF NotificationsInv, PromptInv, PromptedOnce
  <2> QED
    BY <2>1, <2>2 DEF NothingTwice
<1> QED
  BY <1>1, NotificationsHold, PTL
=============================================================================
