--------------------------- MODULE BarrierHandler ---------------------------
(***************************************************************************)
(* DeviceController.Barrier of the asynchronous RPC server                 *)
(* (python/hetu/rpc/heturpc_async_server.py), for one key world_rank of    *)
(* its dictionaries barrier_nums and barrier_end_nums.                     *)
(*                                                                         *)
(* Each call runs on a thread of its own.  The whole handler is inside     *)
(* `with self.barrier_cond', so a thread runs alone from the moment it     *)
(* gets the lock until it returns or calls wait(); one action below is one *)
(* such stretch.  A thread asleep in wait() runs again only after a        *)
(* notify_all(), and then tests its condition anew.                        *)
(*                                                                         *)
(* The module is also used by modules that put callers around the handler: *)
(* Bootstrap, PlanExchange and Elastic conjoin their own guards to Enter.  *)
(***************************************************************************)
EXTENDS Naturals, FiniteSets

CONSTANTS Group,      \* the processes of world_rank
          Firsts,     \* those whose request.rank equals world_rank[0]
          MaxCalls    \* bound: calls each process makes

ASSUME GroupAssumption == IsFiniteSet(Group) /\ Group # {}
ASSUME FirstsAssumption == Firsts \subseteq Group /\ Firsts # {}
ASSUME MaxCallsAssumption == MaxCalls \in Nat

VARIABLES
  barrier_nums,       \* arrivals counted
  barrier_end_nums,   \* threads past the first wait loop; 0 also stands for "no key yet"
  at,                 \* where the thread that serves p is
  notified,           \* sleeping threads a notify_all() has woken
  entered, left       \* calls made and returned, as in Rendezvous

barrierVars == <<barrier_nums, barrier_end_nums, at, notified, entered, left>>

Size == Cardinality(Group)

BarrierInit ==
  /\ barrier_nums = 0
  /\ barrier_end_nums = 0
  /\ at = [p \in Group |-> "outside"]
  /\ notified = {}
  /\ entered = [p \in Group |-> 0]
  /\ left = [p \in Group |-> 0]

-----------------------------------------------------------------------------
\* The threads asleep in one of the two wait loops.
Sleepers == {p \in Group : at[p] # "outside"}

\* Mutant: the first loop opens one arrival short.
AllArrivedButOne(nums) == nums + 1 >= Size

\* Conditions that end the two loops.
AllArrived(nums) == nums >= Size
AllPassed(ends) == ends >= Size

\* Mutant: nobody resets.
EndNumsKept(p) == barrier_end_nums

\* The counters as thread p leaves them at its arrival and at its return: the
\* call whose rank is the first of the group resets one on its way in and the
\* other on its way out.
EndNumsOnEntry(p) == IF p \in Firsts THEN 0 ELSE barrier_end_nums
NumsOnReturn(p, nums) == IF p \in Firsts THEN 0 ELSE nums

\* Mutant: the counters change and nobody is told.
NotifyNobody(p) == notified' = notified \ {p}

\* notify_all() by thread p wakes every other thread that sleeps.
NotifyAll(p) == notified' = Sleepers \ {p}

Return(p, nums) ==
  /\ at' = [at EXCEPT ![p] = "outside"]
  /\ barrier_nums' = NumsOnReturn(p, nums)
  /\ left' = [left EXCEPT ![p] = @ + 1]

\* Thread p, past the first loop, counts itself, and returns if it is the last
\* to do so.
PassFirstLoop(p, nums, ends) ==
  /\ barrier_end_nums' = ends + 1
  /\ NotifyAll(p)
  /\ IF AllPassed(ends + 1)
     THEN Return(p, nums)
     ELSE /\ at' = [at EXCEPT ![p] = "ending"]
          /\ barrier_nums' = nums
          /\ UNCHANGED left

Enter(p) ==
  /\ at[p] = "outside"
  /\ entered[p] < MaxCalls
  /\ entered' = [entered EXCEPT ![p] = @ + 1]
  /\ IF AllArrived(barrier_nums + 1)
     THEN PassFirstLoop(p, barrier_nums + 1, EndNumsOnEntry(p))
     ELSE /\ at' = [at EXCEPT ![p] = "arrived"]
          /\ barrier_nums' = barrier_nums + 1
          /\ barrier_end_nums' = EndNumsOnEntry(p)
          /\ NotifyAll(p)
          /\ UNCHANGED left

\* A woken thread whose condition does not hold goes back to sleep.
SleepAgain(p) ==
  /\ notified' = notified \ {p}
  /\ UNCHANGED <<barrier_nums, barrier_end_nums, at, left>>

ResumeArrived(p) ==
  /\ at[p] = "arrived"
  /\ p \in notified
  /\ UNCHANGED entered
  /\ IF AllArrived(barrier_nums)
     THEN PassFirstLoop(p, barrier_nums, barrier_end_nums)
     ELSE SleepAgain(p)

ResumeEnding(p) ==
  /\ at[p] = "ending"
  /\ p \in notified
  /\ UNCHANGED entered
  /\ IF AllPassed(barrier_end_nums)
     THEN /\ Return(p, barrier_nums)
          /\ notified' = notified \ {p}
          /\ UNCHANGED barrier_end_nums
     ELSE SleepAgain(p)

Resume(p) == ResumeArrived(p) \/ ResumeEnding(p)

-----------------------------------------------------------------------------
\* How the callers must behave for the handler to be right: nobody calls again
\* before every member has got its reply to the previous call.
Separated(p) == \A q \in Group : left[q] >= entered[p]

Finished == /\ \A p \in Group : left[p] = MaxCalls
            /\ UNCHANGED barrierVars

Next == \/ \E p \in Group : (Separated(p) /\ Enter(p)) \/ Resume(p)
        \/ Finished

Spec == BarrierInit /\ [][Next]_barrierVars

\* A woken thread gets the lock in the end.
FairSpec == Spec /\ \A p \in Group : WF_barrierVars(Resume(p))

-----------------------------------------------------------------------------
\* Type invariant of the handler's state.
TypeOK ==
  /\ barrier_nums \in Nat
  /\ barrier_end_nums \in Nat
  /\ at \in [Group -> {"outside", "arrived", "ending"}]
  /\ notified \in SUBSET Group
  /\ entered \in [Group -> Nat]
  /\ left \in [Group -> Nat]

\* A call returns only when every member has made its call of that round: the
\* comment at rpc_comm.cc:50-51 and every user of global_comm_barrier_rpc
\* depend on it, and it must survive the two resets by different threads.
NobodyLeavesEarly == \A p, q \in Group : left[p] <= entered[q]

\* No thread sleeps while the condition it waits for holds: each increment is
\* followed by a notify_all() before the lock is released, and no reset can
\* make a condition true.
NoLostWakeup ==
  \A p \in Group \ notified :
    /\ at[p] = "arrived" => ~AllArrived(barrier_nums)
    /\ at[p] = "ending" => ~AllPassed(barrier_end_nums)

\* The handler keeps the promise of Rendezvous, liveness included, for callers
\* that stay one round apart.
R == INSTANCE Rendezvous
ImplementsRendezvous == R!FairSpec
=============================================================================
