----------------------------- MODULE MCElastic -----------------------------
\* Device 0 is always in use; the others come and go.
EXTENDS Elastic

SomePlans == {{}, {1}, {2}, {1, 2}}
=============================================================================
