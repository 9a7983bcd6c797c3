------------------------------ MODULE MCEvJobs ------------------------------
EXTENDS EvJobs
=============================================================================
