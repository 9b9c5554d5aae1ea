---------------------------- MODULE MCAstDiskCache ----------------------------
\* Two processes, which are interchangeable, as are the contents.
EXTENDS AstDiskCache, TLC

Symmetry == Permutations(Proc) \cup Permutations(Key)
===============================================================================
