------------------------------- MODULE MCFcfs -------------------------------
EXTENDS FcfsScheduler, MCScheduler
=============================================================================
