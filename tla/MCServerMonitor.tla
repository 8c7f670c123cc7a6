-------------------------- MODULE MCServerMonitor --------------------------
\* Three processes on two hosts: the one of the second host may get its rank first.
EXTENDS ServerMonitor, TLC

Processes == {"a", "b", "c"}
Nodes == "a" :> 0 @@ "b" :> 0 @@ "c" :> 1
=============================================================================
