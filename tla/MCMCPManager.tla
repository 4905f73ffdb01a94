---------------------------- MODULE MCMCPManager ----------------------------
(* An instance of MCPManager for TLC: two servers whose tools overlap, one  *)
(* of which may list a tool twice, and two concurrent calls.                *)
EXTENDS MCPManager, TLC

CONSTANTS m1, m2, t1, t2, c1, c2

MCConfig == <<m1, m2>>
MCOffers == (m1 :> {<<>>, <<t1>>, <<t1, t1>>}) @@ (m2 :> {<<t1, t2>>, <<t2>>})

(* Nothing distinguishes the calls. *)
MCSymmetry == Permutations({c1, c2})
=============================================================================
