-------------------------- MODULE MCStrategyModel --------------------------
\* Three jobs of eight devices: two nodes of four with groups of two, in two
\* pipelines; one node with groups of four, in one pipeline; and the same in two
\* pipelines of one stage.
EXTENDS StrategyModel

MCShapes == {[dp |-> 2, tp |-> 2, pp |-> 2, node |-> 4],
             [dp |-> 1, tp |-> 4, pp |-> 2, node |-> 8],
             [dp |-> 2, tp |-> 4, pp |-> 1, node |-> 8]}
=============================================================================
