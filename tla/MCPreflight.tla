------------------------------ MODULE MCPreflight ------------------------------
(* An instance of Preflight: one project configured with a small subnet and   *)
(* one with a larger one around it, as nested address blocks overlap.         *)
EXTENDS Preflight

CONSTANTS p1, p2, net

MCProjects == {p1, p2}
MCCheckouts == {p1}
MCOthers == {net}
MCConfigured == [p \in MCProjects |-> IF p = p1 THEN {1} ELSE {1, 2}]
=============================================================================
