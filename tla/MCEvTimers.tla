----------------------------- MODULE MCEvTimers -----------------------------
EXTENDS EvTimers
=============================================================================
