--------------------------- MODULE MCScheduledJobs ---------------------------
EXTENDS ScheduledJobs, TLC
===============================================================================
