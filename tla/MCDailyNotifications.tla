------------------------ MODULE MCDailyNotifications ------------------------
(* DailyNotifications for TLC: two times of day, one of them at midnight.   *)
EXTENDS DailyNotifications

CONSTANTS v1, v2

MCTimes == {0, 1}
MCOneTime == {1}
MCOneVerse == {v1}
MCTwoVerses == {v1, v2}
=============================================================================
