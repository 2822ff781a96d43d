------------------------------ MODULE MCThreadPool ------------------------------
EXTENDS ThreadPool
=============================================================================
