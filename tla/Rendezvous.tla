----------------------------- MODULE Rendezvous -----------------------------
(***************************************************************************)
(* What a caller of DeviceController.Barrier relies on: a group of         *)
(* processes meets, again and again, and no call returns before every      *)
(* member has made the call of the same round.  It says nothing of the     *)
(* counters, of condition variables or of who resets what.                 *)
(***************************************************************************)
EXTENDS Naturals

CONSTANT Group        \* the processes that call the barrier

VARIABLES entered,    \* entered[p]: calls process p has made so far
          left        \* left[p]: calls of process p that have returned

vars == <<entered, left>>

Init == /\ entered = [p \in Group |-> 0]
        /\ left = [p \in Group |-> 0]

Arrive(p) == /\ entered[p] = left[p]
             /\ entered' = [entered EXCEPT ![p] = @ + 1]
             /\ UNCHANGED left

\* Everybody has made the call that p is waiting in.
Complete(p) == \A q \in Group : entered[q] > left[p]

Depart(p) == /\ left[p] < entered[p]
             /\ Complete(p)
             /\ left' = [left EXCEPT ![p] = @ + 1]
             /\ UNCHANGED entered

\* The last member to arrive need not be seen waiting.
ArriveLast(p) == /\ entered[p] = left[p]
                 /\ \A q \in Group \ {p} : entered[q] > left[p]
                 /\ entered' = [entered EXCEPT ![p] = @ + 1]
                 /\ left' = [left EXCEPT ![p] = @ + 1]

Next == \E p \in Group : Arrive(p) \/ Depart(p) \/ ArriveLast(p)

Spec == Init /\ [][Next]_vars

\* Arriving is the caller's business; a complete round must let everyone go.
FairSpec == Spec /\ \A p \in Group : WF_vars(Depart(p))
=============================================================================
