---------------------------- MODULE MCBootstrap ----------------------------
\* Four processes on two hosts.
EXTENDS Bootstrap

CONSTANTS p1, p2, p3, p4, h1, h2

MCHostOf == (p1 :> h1) @@ (p2 :> h2) @@ (p3 :> h1) @@ (p4 :> h2)
=============================================================================
