---------------------------- MODULE MCLifecycle ----------------------------
(* An instance of Lifecycle for TLC: two clients and three Ctrl-C. *)
EXTENDS Lifecycle

CONSTANTS c1, c2
=============================================================================
