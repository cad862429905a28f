------------------------ MODULE MCIncidentLifecycle ------------------------
(* A small instance of IncidentLifecycle. *)
EXTENDS IncidentLifecycle
CONSTANTS offline, weak, a, b
MCKeys == {offline, weak}
MCPayloads == {a, b}
MCSlots == 1..2
=============================================================================
