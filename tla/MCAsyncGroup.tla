----------------------------- MODULE MCAsyncGroup -----------------------------
\* Every group of N statements over Var.
EXTENDS AsyncGroup
===============================================================================
