---------------------------- MODULE MCMirOwnership ----------------------------
\* Small instances of MirOwnership: two interchangeable locals, and the statement
\* kinds each question needs.
EXTENDS MirOwnership, TLC

LocalSymmetry == Permutations(Local)

\* Copies under every kind of control flow, and copies and spawns around breaks.
AllDialects ==
  {{"bind", "read", "copy", "if", "for", "continue", "return"},
   {"bind", "write", "copy", "spawn", "if", "for", "break"}}
BreakDialect == {{"bind", "read", "for", "break"}}
===============================================================================
