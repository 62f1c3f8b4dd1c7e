--------------------------- MODULE MCMcpAdmission ---------------------------
(* McpAdmission for TLC: two calls of one principal and one of another in  *)
(* the same organization, which is the instance.                           *)
EXTENDS McpAdmission

CONSTANTS c1, c2, d1, p1, p2

MCCalls == {c1, c2, d1}
MCPrincipalOf == [c \in MCCalls |-> IF c = d1 THEN p2 ELSE p1]
MCGroups == {{c1, c2}, {d1}, MCCalls}
MCLimit == [g \in MCGroups |-> IF g = MCCalls THEN 2 ELSE 1]
=============================================================================
