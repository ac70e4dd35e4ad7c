------------------------- MODULE DailyNotifications -------------------------
(***************************************************************************)
(* The daily notification: DailyVerseScheduler and DailyVerseReceiver in   *)
(* android/src, and the part of AppController that drives them.  Two       *)
(* threads of one process share the preferences and the alarm: the         *)
(* controller's (app) and Android's main thread (rx), where broadcasts     *)
(* and the answer to the permission prompt arrive.  The methods that are   *)
(* synchronized exclude each other; schedule, cancel and updateSnapshot    *)
(* are not.  The process may end at any step, and broadcasts start it      *)
(* again without the controller.                                           *)
(*                                                                         *)
(* A commit of the preferences changes what the process reads at once, and *)
(* the file only if it succeeds.  The platform supports notifications,     *)
(* its services do not throw, and one verse of the snapshot stands for a   *)
(* reference and its text, compacted already.  "blocked" stands for the    *)
(* app and for its channel being blocked in the system's settings.         *)
(***************************************************************************)
EXTENDS Naturals, FiniteSets

CONSTANTS DayLength,    \* instants of a day
          Times,        \* times of day that may be set: instants of a day
          Verses,       \* verses of the snapshot
          PendingFor,   \* how long a request for permission counts as pending
          MaxClock,     \* bound: the last instant
          MaxFaults,    \* bound: see Faults
          None

ASSUME DailyNotificationsAssumption ==
  /\ DayLength \in Nat \ {0} /\ Times \subseteq 0..DayLength - 1
  /\ PendingFor \in Nat /\ MaxClock \in Nat /\ MaxFaults \in Nat
  /\ None \notin Nat

VARIABLES
  dailyAt,          \* setting "dailyNotificationAt"
  displayed,        \* m_notificationPermissionState
  app,              \* where the controller's thread is
  rx,               \* where Android's main thread is
  memory, disk,     \* the preferences, as the process has them and in their file
  alarm,            \* the instant the alarm is set for
  broadcasts,       \* broadcasts and answers not yet received
  permission,       \* what the system has on record
  prompt,           \* the permission prompt is on display
  clock,
  posted,           \* notifications per day                     (the rest is not in the code)
  notified,         \* reference and text of the last notification
  stray,            \* notifications since there is no time for them
  excused,          \* days whose record was lost or that came again
  prompts,          \* how often the prompt was shown
  synced,           \* the last sync scheduled, and nothing has happened to that since
  faults            \* commits that failed, deaths of the process, changes of clock or permission

controller == <<dailyAt, displayed>>
preferences == <<memory, disk, stray, faults>>
system == <<alarm, broadcasts, permission, prompt, clock>>
history == <<posted, notified, excused, prompts>>
vars == <<controller, app, rx, preferences, system, history, synced>>

Instants == 0..MaxClock
Day(n) == n \div DayLength
Days == 0..Day(MaxClock)
Today == Day(clock)

Permissions == {"granted", "denied", "blocked"}

Preferences == [time : Times \cup {None}, reference : Verses, text : Verses,
                lastDay : Days \cup {None}, requested : BOOLEAN,
                pendingAt : Instants \cup {None}]

\* The controller's thread: pc is "off" while there is none, "idle" between
\* two slots; caller is who called syncNotificationSchedule, old what its
\* rollback restores, previous what the rollback of schedule does, and
\* verdict what the sync will return after its cancel ("commit": cancel's result).
Off == [pc |-> "off", caller |-> None, old |-> None, previous |-> None, verdict |-> None]
Idle == [Off EXCEPT !.pc = "idle"]

Resting == [pc |-> "idle", reference |-> None, text |-> None, day |-> None, time |-> None]

Init ==
  /\ dailyAt = None /\ displayed = "unavailable" /\ app = Off /\ rx = Resting
  /\ \E v \in Verses :
       memory = [time |-> None, reference |-> v, text |-> v, lastDay |-> None,
                 requested |-> FALSE, pendingAt |-> None]
  /\ disk = memory
  /\ alarm = None /\ broadcasts = {} /\ permission \in {"granted", "denied"}
  /\ prompt = FALSE /\ clock = 0
  /\ posted = [d \in Days |-> 0] /\ notified = None /\ stray = 0 /\ excused = {}
  /\ prompts = 0 /\ synced = FALSE /\ faults = 0
-----------------------------------------------------------------------------
(* The preferences, the lock and the permission. *)

Fault == faults < MaxFaults /\ faults' = faults + 1

\* SharedPreferences.Editor.commit, of preferences p.
Commit(p, ok) ==
  /\ memory' = p
  /\ stray' = IF p.time = None THEN stray ELSE 0
  /\ \/ ok /\ disk' = p /\ UNCHANGED faults
     \/ ~ok /\ Fault /\ UNCHANGED disk

\* Seeded fault: scheduleNext is not synchronized on the controller's side.
FaultRxHoldsLock == rx.pc \in {"text", "overwrite", "notify", "record"}

\* Android's main thread is inside a synchronized method.
RxHoldsLock == rx.pc \in {"text", "overwrite", "notify", "record", "arm"}

\* ... or the controller's is.
AppHoldsLock == app.pc = "arm"

Pending(p) == p.pendingAt # None /\ clock < p.pendingAt + PendingFor

PermissionState == IF Pending(memory) THEN "pending" ELSE permission

Granted == PermissionState = "granted"

\* The preferences after permissionState, which drops a request that has
\* expired.
Expired == IF Pending(memory) THEN memory ELSE [memory EXCEPT !.pendingAt = None]

\* permissionState, whatever becomes of its commit.
ReadState ==
  IF Expired = memory THEN UNCHANGED preferences ELSE \E ok \in BOOLEAN : Commit(Expired, ok)

\* The next instant of time t of the day: today if it is still to come.
NextInstant(t) ==
  LET today == Today * DayLength + t
  IN  IF today <= clock THEN today + DayLength ELSE today
-----------------------------------------------------------------------------
(* Android's main thread: DailyVerseReceiver and onPermissionResult. *)

Receive ==
  /\ rx.pc = "idle"
  /\ \E b \in broadcasts \cap {"daily", "rearm"} :
       /\ broadcasts' = broadcasts \ {b}
       /\ rx' = [Resting EXCEPT !.pc = IF b = "daily" THEN "post" ELSE "next"]
  /\ UNCHANGED <<controller, app, preferences, alarm, permission, prompt, clock, history, synced>>

\* onPermissionResult, whatever the answer was.
OnPermissionResult ==
  /\ rx.pc = "idle" /\ ~AppHoldsLock
  /\ "answer" \in broadcasts
  /\ broadcasts' = broadcasts \ {"answer"}
  /\ \E ok \in BOOLEAN : Commit([memory EXCEPT !.pendingAt = None], ok)
  /\ UNCHANGED <<controller, app, rx, alarm, permission, prompt, clock, history, synced>>

\* Seeded fault: the record of the day is not looked at.
FaultMayPost == Granted

MayPost == Granted /\ memory.lastDay # Today

\* postIfNeeded: the checks, and the reference.
Post ==
  /\ rx.pc = "post" /\ ~AppHoldsLock
  /\ ReadState
  /\ rx' = IF MayPost
           THEN [rx EXCEPT !.pc = "text", !.day = Today, !.reference = memory.reference]
           ELSE [rx EXCEPT !.pc = "next"]
  /\ UNCHANGED <<controller, app, system, history, synced>>

ReadText ==
  /\ rx.pc = "text"
  /\ rx' = [rx EXCEPT !.pc = "overwrite", !.text = memory.text]
  /\ UNCHANGED <<controller, app, preferences, system, history, synced>>

\* The text is read a second time, and overwritten when it is not what the
\* first reading gave, once compacted.
Overwrite ==
  /\ rx.pc = "overwrite"
  /\ rx' = [rx EXCEPT !.pc = "notify"]
  /\ IF memory.text = rx.text
     THEN UNCHANGED preferences
     ELSE \E ok \in BOOLEAN : Commit([memory EXCEPT !.text = rx.text], ok)
  /\ UNCHANGED <<controller, app, system, history, synced>>

Notify ==
  /\ rx.pc = "notify"
  /\ rx' = [rx EXCEPT !.pc = "record"]
  /\ posted' = [posted EXCEPT ![rx.day] = @ + 1]
  /\ notified' = [reference |-> rx.reference, text |-> rx.text]
  /\ stray' = IF memory.time = None THEN stray + 1 ELSE 0
  /\ UNCHANGED <<controller, app, memory, disk, faults, system, excused, prompts, synced>>

Record ==
  /\ rx.pc = "record"
  /\ rx' = [Resting EXCEPT !.pc = "next"]
  /\ \E ok \in BOOLEAN : Commit([memory EXCEPT !.lastDay = rx.day], ok)
  /\ UNCHANGED <<controller, app, system, history, synced>>

\* Seeded fault: the time is not checked.
FaultUncheckedTime ==
  /\ rx.pc = "next" /\ ~AppHoldsLock
  /\ ReadState
  /\ rx' = IF Granted THEN [Resting EXCEPT !.pc = "arm", !.time = memory.time] ELSE Resting
  /\ UNCHANGED <<controller, app, system, history, synced>>

\* scheduleNext: the checks, and the time.
ReadTime ==
  /\ rx.pc = "next" /\ ~AppHoldsLock
  /\ ReadState
  /\ rx' = IF Granted /\ memory.time # None
           THEN [Resting EXCEPT !.pc = "arm", !.time = memory.time]
           ELSE Resting
  /\ UNCHANGED <<controller, app, system, history, synced>>

\* ... and the alarm.
Rearm ==
  /\ rx.pc = "arm"
  /\ alarm' = NextInstant(rx.time)
  /\ rx' = Resting
  /\ UNCHANGED <<controller, app, preferences, broadcasts, permission, prompt, clock,
                 history, synced>>
-----------------------------------------------------------------------------
(* The controller's thread: syncNotificationSchedule, step by step. *)

Call(caller, old) == [Idle EXCEPT !.pc = "sync", !.caller = caller, !.old = old]

\* What the callers do when syncNotificationSchedule returns ok.  On a failure
\* the constructor, a request and a refresh remove the time; save_all_settings
\* restores the old one and syncs again, unless the key cannot be restored.
Return(ok) ==
  \/ /\ ok \/ app.caller = "again"
     /\ app' = Idle
     /\ UNCHANGED dailyAt
  \/ /\ ~ok /\ app.caller = "refresh"
     /\ app' = Idle
     /\ dailyAt' = None
  \/ /\ ~ok /\ app.caller = "save"
     /\ app' \in {Idle, Call("again", None)}
     /\ dailyAt' = app.old

\* Seeded fault: without permission the old schedule stays.
FaultUnpermitted == Idle

\* Without permission cancel is called for its effect alone.
Unpermitted == [app EXCEPT !.pc = "cancel", !.verdict = "true"]

\* The state of the permission, and which way to go.
Sync ==
  /\ app.pc = "sync" /\ ~RxHoldsLock
  /\ ReadState
  /\ displayed' = PermissionState
  /\ \/ /\ dailyAt = None
        /\ app' = [app EXCEPT !.pc = "cancel", !.verdict = "commit"]
        /\ UNCHANGED dailyAt
     \/ dailyAt # None /\ PermissionState = "pending" /\ Return(TRUE)
     \/ /\ dailyAt # None /\ PermissionState \in {"denied", "blocked"}
        /\ app' = Unpermitted
        /\ UNCHANGED dailyAt
     \/ /\ dailyAt # None /\ Granted
        /\ app' = [app EXCEPT !.pc = "schedule"]
        /\ UNCHANGED dailyAt
  /\ UNCHANGED <<rx, system, history, synced>>

Failed == [app EXCEPT !.pc = "cancel", !.previous = None, !.verdict = "false"]

\* schedule: the permission once more,
Schedule ==
  /\ app.pc = "schedule" /\ ~RxHoldsLock
  /\ ReadState
  /\ app' = IF Granted THEN [app EXCEPT !.pc = "commit"] ELSE Failed
  /\ UNCHANGED <<controller, rx, system, history, synced>>

\* the new time, which stays in memory when its commit fails,
CommitTime ==
  /\ app.pc = "commit"
  /\ \E ok \in BOOLEAN :
       /\ Commit([memory EXCEPT !.time = dailyAt], ok)
       /\ app' = IF ok THEN [app EXCEPT !.pc = "next", !.previous = memory.time] ELSE Failed
  /\ UNCHANGED <<controller, rx, system, history, synced>>

\* scheduleNext: the checks, and the time,
CheckTime ==
  /\ app.pc = "next" /\ ~RxHoldsLock
  /\ ReadState
  /\ app' = [app EXCEPT !.pc = IF Granted THEN "arm" ELSE "undo"]
  /\ UNCHANGED <<controller, rx, system, history, synced>>

\* the alarm,
Arm ==
  /\ app.pc = "arm"
  /\ alarm' = NextInstant(memory.time)
  /\ synced' = (permission = "granted")
  /\ Return(TRUE)
  /\ UNCHANGED <<displayed, rx, preferences, broadcasts, permission, prompt, clock, history>>

\* or, when that failed, the time before.
Undo ==
  /\ app.pc = "undo"
  /\ \E ok \in BOOLEAN : Commit([memory EXCEPT !.time = app.previous], ok)
  /\ app' = Failed
  /\ UNCHANGED <<controller, rx, system, history, synced>>

\* cancel: the alarm, and then the time, without the lock.
CancelAlarm ==
  /\ app.pc = "cancel"
  /\ alarm' = None
  /\ synced' = FALSE
  /\ app' = [app EXCEPT !.pc = "remove"]
  /\ UNCHANGED <<controller, rx, preferences, broadcasts, permission, prompt, clock, history>>

RemoveTime ==
  /\ app.pc = "remove"
  /\ \E ok \in BOOLEAN :
       /\ Commit([memory EXCEPT !.time = None], ok)
       /\ Return(app.verdict = "true" \/ (app.verdict = "commit" /\ ok))
  /\ UNCHANGED <<displayed, rx, system, history, synced>>
-----------------------------------------------------------------------------
(* The controller's thread: what starts a sync, and the snapshot. *)

\* The constructor, in a process that a broadcast may have started before.
Launch ==
  /\ app.pc = "off"
  /\ app' = Call("refresh", None)
  /\ displayed' = "unavailable"
  /\ UNCHANGED <<dailyAt, rx, preferences, system, history, synced>>

\* save_all_settings, once the settings are written.
Save(t) ==
  /\ app.pc = "idle"
  /\ dailyAt' = t
  /\ app' = Call("save", dailyAt)
  /\ synced' = FALSE
  /\ UNCHANGED <<displayed, rx, preferences, system, history>>

\* refresh_notification_status, when the application becomes active and every
\* 250 ms while a request is pending.
Refresh ==
  /\ app.pc = "idle" /\ ~RxHoldsLock
  /\ displayed' = PermissionState
  /\ IF Pending(memory)
     THEN UNCHANGED <<app, preferences>>
     ELSE /\ \E ok \in BOOLEAN : Commit([memory EXCEPT !.pendingAt = None], ok)
          /\ app' = IF Granted THEN Call("refresh", None) ELSE Unpermitted
  /\ UNCHANGED <<dailyAt, rx, system, history, synced>>

ShowsPrompt(ok) == ok

\* request_notification_permission, which the settings offer while the
\* permission on display is denied and was not requested.
RequestPermission ==
  /\ app.pc = "idle" /\ ~RxHoldsLock
  /\ displayed = "denied" /\ ~memory.requested
  /\ IF PermissionState = "denied"
     THEN \E ok \in BOOLEAN :
            /\ Commit([memory EXCEPT !.requested = TRUE, !.pendingAt = clock], ok)
            /\ displayed' = IF ok THEN "pending" ELSE "unavailable"
            /\ prompt' = (prompt \/ ShowsPrompt(ok))
            /\ prompts' = IF ShowsPrompt(ok) THEN prompts + 1 ELSE prompts
            /\ UNCHANGED app
     ELSE /\ ReadState
          /\ displayed' = PermissionState
          /\ app' = IF Granted THEN Call("refresh", None) ELSE app
          /\ UNCHANGED <<prompt, prompts>>
  /\ UNCHANGED <<dailyAt, rx, alarm, broadcasts, permission, clock, posted, notified,
                 excused, synced>>

\* updateSnapshot, for a verse just shown.
UpdateSnapshot(v) ==
  /\ app.pc = "idle"
  /\ \E ok \in BOOLEAN : Commit([memory EXCEPT !.reference = v, !.text = v], ok)
  /\ UNCHANGED <<controller, app, rx, system, history, synced>>
-----------------------------------------------------------------------------
(* The system and its user. *)

AlarmFires ==
  /\ alarm # None /\ alarm <= clock
  /\ alarm' = None
  /\ broadcasts' = broadcasts \cup {"daily"}
  /\ UNCHANGED <<controller, app, rx, preferences, permission, prompt, clock, history, synced>>

Tick ==
  /\ clock < MaxClock
  /\ clock' = clock + 1
  /\ UNCHANGED <<controller, app, rx, preferences, alarm, broadcasts, permission, prompt,
                 history, synced>>

\* Also the broadcast after a change of the time zone or an update of the app.
SetClock(n) ==
  /\ Fault
  /\ clock' = n
  /\ broadcasts' = broadcasts \cup {"rearm"}
  /\ excused' = IF Day(n) < Today THEN excused \cup Day(n)..Today ELSE excused
  /\ UNCHANGED <<controller, app, rx, memory, disk, stray, alarm, permission, prompt,
                 posted, notified, prompts, synced>>

\* The answer to the prompt is delivered only to the process that asked.
Answer(p) ==
  /\ prompt
  /\ prompt' = FALSE
  /\ permission' = p
  /\ broadcasts' = IF app.pc = "off" THEN broadcasts ELSE broadcasts \cup {"answer"}
  /\ synced' = FALSE
  /\ UNCHANGED <<controller, app, rx, preferences, alarm, clock, history>>

\* In the system's settings.
ChangePermission(p) ==
  /\ Fault
  /\ permission' = p
  /\ synced' = FALSE
  /\ UNCHANGED <<controller, app, rx, memory, disk, stray, alarm, broadcasts, prompt, clock,
                 history>>

\* The process ends.  What it did not commit is lost, and so are what it was
\* doing and the answers meant for it.
Dies ==
  /\ Fault
  /\ app' = Off /\ rx' = Resting
  /\ memory' = disk
  /\ stray' = IF disk.time = None THEN stray ELSE 0
  /\ excused' = excused \cup (IF disk.lastDay # memory.lastDay THEN {memory.lastDay} ELSE {})
                        \cup (IF rx.pc = "record" THEN {rx.day} ELSE {})
  /\ synced' = FALSE
  /\ UNCHANGED <<controller, disk, permission, prompt, clock, posted, notified, prompts>>

Kill == Dies /\ broadcasts' = broadcasts \ {"answer"} /\ UNCHANGED alarm

\* The device is started again: its alarms are gone, and a broadcast says so.
Reboot == Dies /\ broadcasts' = {"rearm"} /\ alarm' = None

Next ==
  \/ Receive \/ OnPermissionResult
  \/ Post \/ ReadText \/ Overwrite \/ Notify \/ Record \/ ReadTime \/ Rearm
  \/ Sync \/ Schedule \/ CommitTime \/ CheckTime \/ Arm \/ Undo \/ CancelAlarm \/ RemoveTime
  \/ Launch \/ \E t \in Times \cup {None} : Save(t)
  \/ Refresh \/ RequestPermission \/ \E v \in Verses : UpdateSnapshot(v)
  \/ AlarmFires \/ Tick \/ \E n \in Instants : SetClock(n)
  \/ \E p \in Permissions : ChangePermission(p)
  \/ \E p \in {"granted", "denied"} : Answer(p)
  \/ Kill \/ Reboot

Spec == Init /\ [][Next]_vars
-----------------------------------------------------------------------------
\* Every variable keeps its type, and an alarm is set only for a time.
TypeOK ==
  /\ dailyAt \in Times \cup {None}
  /\ displayed \in Permissions \cup {"pending", "unavailable"}
  /\ app \in [pc : {"off", "idle", "sync", "schedule", "commit", "next", "arm", "undo",
                    "cancel", "remove"},
              caller : {"refresh", "save", "again", None},
              old : Times \cup {None}, previous : Times \cup {None},
              verdict : {"true", "false", "commit", None}]
  /\ rx \in [pc : {"idle", "post", "text", "overwrite", "notify", "record", "next", "arm"},
             reference : Verses \cup {None}, text : Verses \cup {None},
             day : Days \cup {None}, time : Times \cup {None}]
  /\ rx.pc = "arm" => rx.time \in Times
  /\ memory \in Preferences /\ disk \in Preferences
  /\ alarm \in Nat \cup {None} /\ broadcasts \subseteq {"daily", "rearm", "answer"}
  /\ permission \in Permissions /\ prompt \in BOOLEAN /\ clock \in Instants
  /\ posted \in [Days -> Nat] /\ excused \subseteq Days
  /\ notified \in [reference : Verses, text : Verses] \cup {None}
  /\ stray \in Nat /\ prompts \in Nat /\ synced \in BOOLEAN /\ faults \in 0..MaxFaults

\* A request for permission is pending only while the scheduler keeps no time,
\* in spite of answers that are lost, preferences that are, and the clock: a
\* sync that finds it pending and returns has left nothing it should have
\* cancelled.
PendingMeansNoTime == Pending(memory) => memory.time = None

\* Between two slots the scheduler keeps the time of the settings or none,
\* whatever failed: the time, the alarm, either rollback or their commits.
TimeFollowsSetting == app.pc = "idle" => memory.time \in {None, dailyAt}

\* When a sync has scheduled and neither the permission nor the process was
\* lost since, the next notification is for the time of the settings: the
\* alarm is set for it, or it is under way.  A receiver that set its alarm
\* with a time it read before the change would break this.
ScheduledIsArmed ==
  synced /\ app.pc = "idle" =>
    /\ memory.time = dailyAt
    /\ \/ alarm # None /\ alarm % DayLength = dailyAt
       \/ "daily" \in broadcasts
       \/ rx.pc # "idle"

\* "Persist a one-per-day dedupe record" (src/README.md:27): no day has a second
\* notification unless the record of the first was lost with the process or the
\* clock was set back to an earlier day.
OncePerDay == \A d \in Days : posted[d] > 1 => d \in excused

\* cancel removes the alarm before the time and holds no lock, so a receiver
\* that has read the time sets the alarm again.  That does not go on: once
\* there is no time two notifications follow at most, one under way and one
\* from such an alarm.
FewStrays == stray <= 2

\* "A denied prompt is not repeatedly shown" (src/README.md:219): no failed
\* commit, lost answer or death of the process brings it back.
PromptedOnce == prompts <= 1

\* The scheduler's time, the request for permission and the settings agree, and
\* what a cancelled time leaves behind dies out.
TimeKept == PendingMeansNoTime /\ TimeFollowsSetting /\ FewStrays

\* Neither a day's notification nor the prompt for permission comes twice.
NothingTwice == OncePerDay /\ PromptedOnce

\* "The notification uses the last validated verse snapshot"
\* (src/README.md:27-28): its reference and its text are of one verse.
NotificationIsOneVerse == notified # None => notified.reference = notified.text
=============================================================================
