--------------------------- MODULE MCPackageResolver ---------------------------
(* Three packages, in one graph of each kind that resolution treats differently. *)
EXTENDS PackageResolver

CONSTANTS p1, p2, p3

Deps(a, b, c) == [p \in Pkg |-> CASE p = p1 -> a [] p = p2 -> b [] OTHER -> c]

\* A shared package, within the limit when the shorter path is taken first; two packages
\* over a third; a cycle of two under a package; a package that depends on itself.
Diamond == Deps({p2, p3}, {p3}, {})
Fork == Deps({p3}, {p3}, {})
Under == Deps({p2}, {p3}, {p2})
Loop == Deps({p1}, {p1}, {})
Graphs == {Diamond, Fork, Under, Loop}

\* The package without dependencies is plain, with the others in its archive or alone.
PlainOf == [r \in Graphs |-> IF r \in {Diamond, Fork} THEN {p3} ELSE {}]
ArchiveOf == [r \in Graphs |-> CASE r = Diamond -> Deps(p1, p1, p1)
                                 [] r = Under -> Deps(p1, p1, p3)
                                 [] OTHER -> Deps(p1, p2, p3)]
Names == Deps(1, 2, 3)
=============================================================================
