------------------------ MODULE MCNotificationOutbox ------------------------
(* Small instances of NotificationOutbox for TLC: a request task, which also  *)
(* serves the retry button, and the scheduled job.                           *)
EXTENDS NotificationOutbox

CONSTANTS request, job

TwoTasks   == {request, job}
Schedulers == {job}
=============================================================================
