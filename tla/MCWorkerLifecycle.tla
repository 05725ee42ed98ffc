-------------------------- MODULE MCWorkerLifecycle --------------------------
EXTENDS WorkerLifecycle, TLC
==============================================================================
