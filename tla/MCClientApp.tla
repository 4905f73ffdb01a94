----------------------------- MODULE MCClientApp -----------------------------
(* Instances of ClientApp for TLC: a letter, and a blank of two bytes (the  *)
(* no-break space).                                                         *)
EXTENDS ClientApp, TLC

CONSTANTS letter, nbsp

MCWidth == (letter :> 1) @@ (nbsp :> 2)
=============================================================================
