----------------------------- MODULE MCJobTimer -----------------------------
EXTENDS JobTimer
=============================================================================
