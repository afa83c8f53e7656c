----------------------------- MODULE MCGameRoom -----------------------------
EXTENDS GameRoom
=============================================================================
