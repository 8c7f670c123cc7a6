--------------------------- MODULE MCPlanExchange ---------------------------
\* Three processes, of one host or of two.
EXTENDS PlanExchange

CONSTANTS p1, p2, p3

OneHost == (p1 :> 0) @@ (p2 :> 1) @@ (p3 :> 2)
TwoHosts == (p1 :> 0) @@ (p2 :> 1) @@ (p3 :> 0)
MCIndices == {OneHost, TwoHosts}
=============================================================================
