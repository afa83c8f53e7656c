-------------------------- MODULE MCLongCalcClient --------------------------
EXTENDS LongCalcClient
=============================================================================
