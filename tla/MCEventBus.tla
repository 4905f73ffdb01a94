----------------------------- MODULE MCEventBus -----------------------------
(* An instance of EventBus for TLC: two publications of one class, so that  *)
(* they meet in its list as well as in the global one, and two handlers     *)
(* that may subscribe to either.                                            *)
EXTENDS EventBus, TLC

CONSTANTS e1, e2, h1, h2, chat

MCTypeOf == [e \in Events |-> chat]
=============================================================================
