---------------------- MODULE MCScheduledNotifications ----------------------
(* Instances of ScheduledNotifications for TLC.                            *)
EXTENDS ScheduledNotifications

CONSTANTS s1, s2
=============================================================================
