-------------------------- MODULE MCMemorySession --------------------------
(* Instances of MemorySession for TLC: two facts that become the same       *)
(* relationship, one that becomes none, and one that is extracted twice.    *)
EXTENDS MemorySession, TLC

CONSTANTS r1, r2, f1, f2, f3, e1

MCEdgeOf == (f1 :> e1) @@ (f2 :> e1) @@ (f3 :> NoEdge)
MCExtractions == {<<>>, <<f1, f2, f1>>, <<f2, f3>>}

(* Nothing distinguishes the requests. *)
MCSymmetry == Permutations(Requests)
=============================================================================
