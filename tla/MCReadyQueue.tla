---------------------------- MODULE MCReadyQueue -----------------------------
\* Three tasks through a ring that starts at two slots, so that six
\* outstanding entries make it grow twice after it has wrapped.
EXTENDS ReadyQueue
==============================================================================
