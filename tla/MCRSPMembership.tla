--------------------------- MODULE MCRSPMembership ---------------------------
(* Model-checking instances of RSPMembership.                              *)
EXTENDS RSPMembership

CONSTANTS p1, p2, p3

\* Any draw of the random IDs, collisions included.
MCAnyIDs == [Peers -> IDs]

\* Pairwise distinct IDs: p1 has 1, p2 has 2, p3 has 3.
MCDistinctIDs == {[p \in Peers |-> CASE p = p1 -> 1 [] p = p2 -> 2 [] OTHER -> 3]}
=============================================================================
