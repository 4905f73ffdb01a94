--------------------------- MODULE MCChatPipeline ---------------------------
(* Instances of ChatPipeline for TLC: two envelopes on one session, and the *)
(* same beside a second session with one of its own.                        *)
EXTENDS ChatPipeline, TLC

CONSTANTS s1, s2, r1, r2, r3

MCOneOwner == (r1 :> s1) @@ (r2 :> s1)
MCTwoOwners == MCOneOwner @@ (r3 :> s2)

MCAnyKind == [r \in Requests |-> AllKinds]
MCOneOfEach == (r1 :> {"prompt"}) @@ (r2 :> {"ping"}) @@ (r3 :> {"bad"})

(* Requests of one session are alike until they are sent. *)
MCSymmetry == Permutations({r1, r2})
=============================================================================
