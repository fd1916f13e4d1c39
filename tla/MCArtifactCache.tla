--------------------------- MODULE MCArtifactCache ---------------------------
(***************************************************************************)
(* Instances of ArtifactCache for TLC.                                     *)
(***************************************************************************)
EXTENDS ArtifactCache, TLC

CONSTANTS t1, t2, m1, m2, v1, v2, d1

OneMain == {m1}
TwoMains == {m1, m2}

\* What ages: nothing, or the metadata file m1.
NoRefresh == {}
BothRefresh == {<<m1, "main">>, <<m1, "sum">>}

\* The two versions differ in length.
DistinctSizes == [v \in Versions |-> IF v = v1 THEN 2 ELSE 3]

\* A .jar and its .pom share a directory.
OneDir == [m \in Mains |-> d1]

Symmetric == Permutations(Tasks)
=============================================================================
