----------------------------- MODULE MCAdmission -----------------------------
EXTENDS Admission, TLC

CONSTANTS d1, d2, d3, d4, r1, r2, c1, c2, course

MCCourseOf == [content \in {c1, c2} |-> course]
MCPagesOf == (c1 :> 1) @@ (c2 :> 2)
Symmetry == Permutations(Requests) \cup Permutations(Legacy) \cup Permutations(Documents \ Legacy)
=============================================================================
