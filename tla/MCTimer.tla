------------------------------- MODULE MCTimer -------------------------------
EXTENDS Timer
=============================================================================
