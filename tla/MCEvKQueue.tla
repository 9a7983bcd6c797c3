----------------------------- MODULE MCEvKQueue -----------------------------
EXTENDS EvKQueue
=============================================================================
