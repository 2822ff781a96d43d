---------------------------- MODULE MCSpscTaskQueue ----------------------------
EXTENDS SpscTaskQueue
=============================================================================
