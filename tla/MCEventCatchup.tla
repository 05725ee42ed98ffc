---------------------------- MODULE MCEventCatchup ----------------------------
EXTENDS EventCatchup, TLC
===============================================================================
