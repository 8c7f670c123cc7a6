--------------------------- MODULE ServerMonitor ---------------------------
(***************************************************************************)
(* Who is still there: the loop of server_launch, which flags the ranks    *)
(* that exited or fell silent and stops the server when all have, and the  *)
(* handlers that feed it from the server's own process, GetRank, Exit and  *)
(* HeartBeat (python/hetu/rpc/heturpc_async_server.py).  The three shared  *)
(* arrays arr, exit_arr and last_heartbeat are read by the monitor without *)
(* the handlers' lock, one entry at a time.                                *)
(*                                                                         *)
(* The clock is counted in the monitor's periods of five seconds, which is *)
(* also the period of a client's heartbeat thread.  A scan takes no time   *)
(* on that scale.  The processes are past the barrier of RPC_Init_Once.    *)
(***************************************************************************)
EXTENDS Integers, FiniteSets

CONSTANTS Group,       \* the processes
          NodeOf,      \* the place of a process's host in nodenames
          MaxCrashes,  \* bound: processes that die without a call to Exit
          MaxLate      \* bound: processes whose heartbeats are ever late

ASSUME GroupAssumption == IsFiniteSet(Group) /\ Group # {}
ASSUME NodeAssumption == NodeOf \in [Group -> Nat]
ASSUME FaultAssumption == MaxCrashes \in Nat /\ MaxLate \in Nat

VARIABLES
  rank,               \* of each process, once GetRank has answered
  state,              \* of each process
  arr,                \* arr[0], the ranks handed out
  exit_arr,           \* the ranks flagged as gone
  age,                \* periods since last_heartbeat of a rank
  pc, i, upTo,        \* of the monitor: its scan has reached rank i of upTo
  counted,            \* arr[0] as the test after the scan has read it
  late,               \* the processes that were ever silent for too long
  muddled             \* the monitor has counted while ranks were being given

procVars == <<rank, state>>
arrays == <<arr, exit_arr, age>>
scanVars == <<pc, i, upTo, counted>>
vars == <<procVars, arrays, scanVars, late, muddled>>

Ranks == 0..(Cardinality(Group) - 1)
NoRank == -1
Limit == 2            \* interval > 10
Ancient == Limit + 1  \* older is not told apart; last_heartbeat starts at 0.0

Init ==
  /\ rank = [p \in Group |-> NoRank]
  /\ state = [p \in Group |-> "starting"]
  /\ arr = 0
  /\ exit_arr = {}
  /\ age = [r \in Ranks |-> Ancient]
  /\ pc = "asleep" /\ i = 0 /\ upTo = 0 /\ counted = 0
  /\ late = {}
  /\ muddled = FALSE

Gone(p) == state[p] \in {"exited", "crashed"}
AllRanked == \A p \in Group : rank[p] # NoRank
Serving == pc # "stopped"

-----------------------------------------------------------------------------
\* Mutant: GetRank leaves the heartbeat to the client's thread.
NoFirstHeartbeat(r) == age

\* GetRank counts as a heartbeat of the rank it gives.
FirstHeartbeat(r) == [age EXCEPT ![r] = 0]

\* The processes of the nodes before p's, then those of its node that came first.
RankFor(p) == Cardinality({q \in Group : \/ NodeOf[q] < NodeOf[p]
                                         \/ NodeOf[q] = NodeOf[p] /\ rank[q] # NoRank})

GetRank(p) ==
  /\ Serving
  /\ state[p] = "starting"
  /\ state' = [state EXCEPT ![p] = "running"]
  /\ rank' = [rank EXCEPT ![p] = RankFor(p)]
  /\ age' = FirstHeartbeat(RankFor(p))
  /\ arr' = arr + 1
  /\ UNCHANGED <<exit_arr, scanVars, late, muddled>>

HeartBeat(p) ==
  /\ Serving
  /\ state[p] = "running"
  /\ age' = [age EXCEPT ![rank[p]] = 0]
  /\ UNCHANGED <<procVars, arr, exit_arr, scanVars, late, muddled>>

\* No process ends of itself before AllGatherHostnames has heard of every rank.
\* DeviceClient::Exit ends the heartbeat thread before it makes the call.
Exit(p) ==
  /\ Serving
  /\ state[p] = "running"
  /\ AllRanked
  /\ state' = [state EXCEPT ![p] = "exited"]
  /\ exit_arr' = exit_arr \cup {rank[p]}
  /\ UNCHANGED <<rank, arr, age, scanVars, late, muddled>>

Crash(p) ==
  /\ Serving
  /\ ~Gone(p)
  /\ Cardinality({q \in Group : state[q] = "crashed"}) < MaxCrashes
  /\ state' = [state EXCEPT ![p] = "crashed"]
  /\ UNCHANGED <<rank, arrays, scanVars, late, muddled>>

-----------------------------------------------------------------------------
\* The live processes that will have been silent for more than Limit.
Silent == {p \in Group : state[p] = "running" /\ age[rank[p]] >= Limit}

\* Five seconds pass and the monitor wakes up.  A heartbeat thread that is on
\* time has beaten at least once in the last two periods.
Wake ==
  /\ pc = "asleep"
  /\ Cardinality(late \cup Silent) <= MaxLate
  /\ late' = late \cup Silent
  /\ age' = [r \in Ranks |-> IF age[r] < Ancient THEN age[r] + 1 ELSE Ancient]
  /\ pc' = "scanning"
  /\ i' = 0
  /\ upTo' = arr
  /\ UNCHANGED <<procVars, arr, exit_arr, counted, muddled>>

SilentTooLong(r) == age[r] > Limit

\* A flag, once set, is never taken back.  The slots below arr[0] need not be
\* those of the ranks handed out.
ScanRank ==
  /\ pc = "scanning"
  /\ i < upTo
  /\ i' = i + 1
  /\ exit_arr' = IF SilentTooLong(i) THEN exit_arr \cup {i} ELSE exit_arr
  /\ muddled' = (muddled \/ (SilentTooLong(i) /\ ~AllRanked))
  /\ UNCHANGED <<procVars, arr, age, pc, upTo, counted, late>>

ReadCount ==
  /\ pc = "scanning"
  /\ i = upTo
  /\ counted' = arr
  /\ pc' = IF arr = 0 THEN "asleep" ELSE "counted"
  /\ UNCHANGED <<procVars, arrays, i, upTo, late, muddled>>

\* Mutant: the server waits for one more.
MoreThanAllGone(given, gone) == given < gone

AllAreGone(given, gone) == given <= gone

\* arr[0] has been read before exit_arr is summed.
SumExits ==
  /\ pc = "counted"
  /\ pc' = IF AllAreGone(counted, Cardinality(exit_arr)) THEN "stopped" ELSE "asleep"
  /\ muddled' = (muddled \/ counted < arr)
  /\ UNCHANGED <<procVars, arrays, i, upTo, counted, late>>

Monitor == Wake \/ ScanRank \/ ReadCount \/ SumExits

Stopped == ~Serving /\ UNCHANGED vars

Next == \/ \E p \in Group : GetRank(p) \/ HeartBeat(p) \/ Exit(p) \/ Crash(p)
        \/ Monitor
        \/ Stopped

\* The monitor keeps running, and a process that is on time beats often enough
\* for Wake never to wait for it for ever.
Spec == /\ Init /\ [][Next]_vars
        /\ WF_vars(Monitor)
        /\ \A p \in Group : WF_vars(HeartBeat(p) /\ age[rank[p]] > 0)

-----------------------------------------------------------------------------
TypeOK ==
  /\ rank \in [Group -> Ranks \cup {NoRank}]
  /\ state \in [Group -> {"starting", "running", "exited", "crashed"}]
  /\ arr \in 0..Cardinality(Group)
  /\ exit_arr \subseteq Ranks
  /\ age \in [Ranks -> 0..Ancient]
  /\ pc \in {"asleep", "scanning", "counted", "stopped"}
  /\ i \in 0..upTo /\ upTo \in 0..Cardinality(Group) /\ counted \in 0..Cardinality(Group)
  /\ late \subseteq Group
  /\ muddled \in BOOLEAN

\* p.terminate() takes the server from nobody who still needs it, and a late
\* heartbeat costs no more than the process it was late from: a flag once set
\* counts for one rank, whichever process it misjudged.  The exception is a
\* start during which the monitor flags a slot, or counts, before every process
\* has its rank.
OnTimeAreServed ==
  ~Serving /\ ~muddled => \A p \in Group : Gone(p) \/ p \in late

\* However the flags came about, the server stops once every process is gone,
\* if one of them ever got a rank: Exit may be missing, a rank may be flagged
\* before it is given, and arr[0] may stay below the number of processes.
StopsInTheEnd == (arr > 0 /\ \A p \in Group : Gone(p)) ~> ~Serving
=============================================================================
