------------------------------- MODULE MCChat -------------------------------
(* Two matching resources of this campus, one of them of the priority type, *)
(* and one of another campus that outranks them.                            *)
EXTENDS Chat, TLC

CONSTANTS r1, r2, r3

MCElsewhere == {r1}
MCPriority  == {r3}
MCQuestions == {<<r1, r2, r3>>, <<r3>>}

=============================================================================
