----------------------------- MODULE MCJobQueue -----------------------------
EXTENDS JobQueue
=============================================================================
