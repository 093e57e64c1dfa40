----------------------------- MODULE MCSetArchive -----------------------------
(* Model checking of SetArchive over small sets of model values. *)
EXTENDS SetArchive, TLC

\* Documents, requests and job slots are interchangeable.
Symmetry ==
    Permutations(Docs) \cup Permutations(Hits) \cup Permutations(Builders)
        \cup Permutations(ArtifactIds)
\* A bound: a request that came through a share link meets one build at most;
\* builds that overlap meet requests that look the record up themselves.
LinkMeetsOneBuild ==
    Cardinality(Running) <=
        IF \E h \in Hits : hit[h] # None /\ hit[h].linked # None THEN 1 ELSE 2
=============================================================================
