----------------------------- MODULE MCWorkers -----------------------------
\* Workers on small instances.
EXTENDS Workers
=============================================================================
