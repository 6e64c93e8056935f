-------------------------- MODULE MCWorkerSession --------------------------
EXTENDS WorkerSession
=============================================================================
