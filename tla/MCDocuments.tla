---------------------------- MODULE MCDocuments ----------------------------
EXTENDS Documents, TLC

CONSTANTS p1, p2, d1, d2, s1, s2, f1, f2

\* Processes, devices, secrets and folders are interchangeable.
Symmetry == Permutations({p1, p2}) \cup Permutations({s1, s2})
            \cup Permutations({d1, d2}) \cup Permutations({f1, f2})
=============================================================================
