--------------------------- MODULE MCScheduleChecks ---------------------------
(* TLC instances of ScheduleChecks.                                        *)
EXTENDS ScheduleChecks, TLC

\* A period shorter than the lateness that is allowed, so that the windows of
\* two times overlap; as a cron expression and as a rate.
Schedulings == { <<"cron", 2>>, <<"rate", 2>> }

=============================================================================
