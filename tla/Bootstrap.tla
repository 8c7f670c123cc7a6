----------------------------- MODULE Bootstrap -----------------------------
(***************************************************************************)
(* How the processes of a job find out who they are: RPC_Init_Once and     *)
(* SetUpDeviceMappingAndAssignLocalDevice (hetu/impl/communication/        *)
(* rpc_comm.cc) talking to the asynchronous server's Connect, Barrier,     *)
(* GetRank, CommitHostName, GetHostName, CommitDeviceInfo and              *)
(* GetDeviceInfo, up to the first global_comm_barrier_rpc of the training  *)
(* script.                                                                 *)
(*                                                                         *)
(* Every process passes rank 0 to Barrier, so each of them is one of       *)
(* Firsts: each call resets barrier_end_nums on its way in and             *)
(* barrier_nums on its way out.                                            *)
(***************************************************************************)
EXTENDS Integers, FiniteSets, SequencesExt

CONSTANTS Group,      \* the processes; the job is started with -ngpus |Group|
          Hosts,
          HostOf      \* HostOf[p]: HETU_LOCAL_HOSTNAME of p

ASSUME GroupAssumption == IsFiniteSet(Group) /\ Group # {}
ASSUME HostAssumption == HostOf \in [Group -> Hosts]

VARIABLES
  barrier_nums, barrier_end_nums, at, notified, entered, left,
  local_worldsizes,   \* processes connected from each host
  nodenames,          \* the hosts in the order of their first Connect
  local_ranks,        \* ranks handed out on each host
  hostnames,          \* rank -> host, for the ranks committed so far
  deviceinfos,        \* rank -> device, likewise
  pc, rank,           \* of each process
  gathered,           \* what AllGatherHostnames of a process has read
  devices             \* rank_to_device_mapping of a process

barrierVars == <<barrier_nums, barrier_end_nums, at, notified, entered, left>>
nodeVars == <<local_worldsizes, nodenames, local_ranks>>
tableVars == <<hostnames, deviceinfos>>
procVars == <<pc, rank, gathered, devices>>
vars == <<barrierVars, nodeVars, tableVars, procVars>>

Calls == 2            \* bound: one barrier inside RPC_Init_Once, one after set-up
B == INSTANCE BarrierHandler WITH Firsts <- Group, MaxCalls <- Calls

Size == Cardinality(Group)
NoRank == -1

Init ==
  /\ B!BarrierInit
  /\ local_worldsizes = [h \in Hosts |-> 0]
  /\ nodenames = << >>
  /\ local_ranks = [h \in Hosts |-> 0]
  /\ hostnames = << >>
  /\ deviceinfos = << >>
  /\ pc = [p \in Group |-> "start"]
  /\ rank = [p \in Group |-> NoRank]
  /\ gathered = [p \in Group |-> << >>]
  /\ devices = [p \in Group |-> << >>]

GoTo(p, place) == pc' = [pc EXCEPT ![p] = place]

-----------------------------------------------------------------------------
Connect(p) ==
  /\ pc[p] = "start"
  /\ GoTo(p, "connected")
  /\ LET h == HostOf[p]
     IN  /\ nodenames' = IF Contains(nodenames, h) THEN nodenames
                         ELSE Append(nodenames, h)
         /\ local_worldsizes' = [local_worldsizes EXCEPT ![h] = @ + 1]
  /\ UNCHANGED <<barrierVars, local_ranks, tableVars, rank, gathered, devices>>

\* The places at which a process calls Barrier, and how many calls it has made
\* before.
CallsBefore(p) == CASE pc[p] = "connected" -> 0
                    [] pc[p] = "mapped" -> 1
                    [] OTHER -> Calls
AboutToCall(p) == entered[p] = CallsBefore(p) /\ entered[p] < Calls

CallBarrier(p) ==
  /\ AboutToCall(p)
  /\ B!Enter(p)
  /\ UNCHANGED <<nodeVars, tableVars, procVars>>

BarrierThread(p) ==
  /\ B!Resume(p)
  /\ UNCHANGED <<nodeVars, tableVars, procVars>>

\* Mutant: the reply of the first barrier is not waited for.
BarrierNotAwaited(p) == TRUE

InitBarrierReturned(p) == left[p] = 1

\* The nodes that come before h in nodenames.
Earlier(h) ==
  LET mine == CHOOSE i \in DOMAIN nodenames : nodenames[i] = h
  IN  {nodenames[i] : i \in 1..(mine - 1)}

\* GetRank: the processes counted on the nodes that come before, one node after
\* the other, then those of this one.
Counted(nodes) == {c \in nodes \X (1..Size) : c[2] <= local_worldsizes[c[1]]}
RankOn(h) == Cardinality(Counted(Earlier(h))) + local_ranks[h]

GetRank(p) ==
  /\ pc[p] = "connected"
  /\ InitBarrierReturned(p)
  /\ GoTo(p, "ranked")
  /\ LET h == HostOf[p]
     IN  /\ rank' = [rank EXCEPT ![p] = RankOn(h)]
         /\ local_ranks' = [local_ranks EXCEPT ![h] = @ + 1]
  /\ UNCHANGED <<barrierVars, local_worldsizes, nodenames, tableVars, gathered,
                 devices>>

-----------------------------------------------------------------------------
\* One assignment to a dictionary of the server.
Put(table, r, entry) ==
  [s \in DOMAIN table \cup {r} |-> IF s = r THEN entry ELSE table[s]]

CommitHostName(p) ==
  /\ pc[p] = "ranked"
  /\ GoTo(p, "gathering")
  /\ hostnames' = Put(hostnames, rank[p], HostOf[p])
  /\ UNCHANGED <<barrierVars, nodeVars, deviceinfos, rank, gathered, devices>>

\* Mutant: a process reads the table up to its own rank only.
GatheredToSelf(p, s) == Len(s) > rank[p]

Gathered(p, s) == Len(s) = Size

\* The loop of AllGatherHostnames: GetHostName(rank) sleeps until the entry of
\* that rank is there.
GetHostName(p) ==
  LET r == Len(gathered[p])
  IN  /\ pc[p] = "gathering"
      /\ ~Gathered(p, gathered[p])
      /\ r \in DOMAIN hostnames
      /\ gathered' = [gathered EXCEPT ![p] = Append(@, hostnames[r])]
      /\ UNCHANGED <<barrierVars, nodeVars, tableVars, pc, rank, devices>>

\* Mutants: the process counts itself; ranks are taken to go round the hosts.
LocalRankWithSelf(p) ==
  Cardinality({i \in 1..(rank[p] + 1) : gathered[p][i] = HostOf[p]})
LocalRankRoundRobin(p) == rank[p] \div Cardinality(Hosts)

LocalRank(p) == Cardinality({i \in 1..rank[p] : gathered[p][i] = HostOf[p]})

\* resources[kCUDA] is also the world size, so multiplex is 0 unless a local
\* rank reaches it.
LocalDevice(p) == [index |-> LocalRank(p) % Size,
                   multiplex |-> LocalRank(p) \div Size]

\* The process checks the entry at its own rank, picks its device, commits it.
CommitDeviceInfo(p) ==
  /\ pc[p] = "gathering"
  /\ Gathered(p, gathered[p])
  /\ IF gathered[p][rank[p] + 1] = HostOf[p]
     THEN /\ GoTo(p, "mapping")
          /\ deviceinfos' = Put(deviceinfos, rank[p], LocalDevice(p))
     ELSE /\ GoTo(p, "aborted")
          /\ UNCHANGED deviceinfos
  /\ UNCHANGED <<barrierVars, nodeVars, hostnames, rank, gathered, devices>>

\* GetDeviceInfo(rank) sleeps likewise; a device met twice aborts the process.
GetDeviceInfo(p) ==
  LET r == Len(devices[p])
      device == [host |-> gathered[p][r + 1], info |-> deviceinfos[r]]
      all == Append(devices[p], device)
  IN  /\ pc[p] = "mapping"
      /\ r \in DOMAIN deviceinfos
      /\ IF Contains(devices[p], device)
         THEN GoTo(p, "aborted") /\ UNCHANGED devices
         ELSE /\ GoTo(p, IF Gathered(p, all) THEN "mapped" ELSE "mapping")
              /\ devices' = [devices EXCEPT ![p] = all]
      /\ UNCHANGED <<barrierVars, nodeVars, tableVars, rank, gathered>>

-----------------------------------------------------------------------------
Ready(p) == left[p] = Calls

Finished == (\A p \in Group : Ready(p)) /\ UNCHANGED vars

Step(p) == \/ Connect(p) \/ CallBarrier(p) \/ BarrierThread(p) \/ GetRank(p)
           \/ CommitHostName(p) \/ GetHostName(p)
           \/ CommitDeviceInfo(p) \/ GetDeviceInfo(p)

Next == (\E p \in Group : Step(p)) \/ Finished

\* Every process keeps running and every server thread is scheduled.
Spec == Init /\ [][Next]_vars /\ \A p \in Group : WF_vars(Step(p))

-----------------------------------------------------------------------------
\* Type invariant.  A rank is below the world size: rpc_comm.cc indexes its
\* vectors with it.
TypeOK ==
  /\ B!TypeOK
  /\ local_worldsizes \in [Hosts -> 0..Size]
  /\ Range(nodenames) \subseteq Hosts /\ IsInjective(nodenames)
  /\ local_ranks \in [Hosts -> 0..Size]
  /\ Range(hostnames) \subseteq Hosts
  /\ DOMAIN deviceinfos \subseteq DOMAIN hostnames
  /\ pc \in [Group -> {"start", "connected", "ranked", "gathering", "mapping",
                       "mapped", "aborted"}]
  /\ rank \in [Group -> -1..(Size - 1)]
  /\ \A p \in Group : Len(devices[p]) <= Size /\ Len(gathered[p]) <= Size

\* GetRank gives no rank twice and numbers the nodes one after the other, in
\* the order they connected in, whatever the order of the calls: the rank of a
\* process depends on counters that other processes are still changing.
RanksFollowNodes ==
  \A p, q \in Group :
    /\ p # q /\ rank[p] # NoRank => rank[p] # rank[q]
    /\ HostOf[p] # HostOf[q] /\ rank[p] # NoRank /\ rank[q] # NoRank =>
         (rank[p] < rank[q] <=>
          \E i, j \in DOMAIN nodenames : /\ i < j
                                         /\ nodenames[i] = HostOf[p]
                                         /\ nodenames[j] = HostOf[q])

\* Neither "Local hostname mismatched after gathering" nor "Device is
\* duplicated" stops a process.
NoAssertFails == \A p \in Group : pc[p] # "aborted"

\* Every process ends with the same rank_to_device_mapping; it holds each
\* process's own device at its rank, and numbers the devices of a host from 0.
OneMapping ==
  \A p \in Group : pc[p] = "mapped" =>
    /\ \A q \in Group :
         /\ pc[q] = "mapped" => devices[p] = devices[q]
         /\ devices[p][rank[q] + 1] = [host |-> HostOf[q], info |-> LocalDevice(q)]
    /\ \A h \in Hosts :
         LET mine == {d \in Range(devices[p]) : d.host = h}
         IN  {d.info.index : d \in mine} = 0..(Cardinality(mine) - 1)

\* Nobody reaches the barrier after set-up while a member still sleeps in the
\* one before Connect returned: that is all that keeps the reset of
\* barrier_end_nums, which here every call does, from undoing a count.
BarrierCallersSeparated ==
  \A p \in Group : AboutToCall(p) /\ at[p] = "outside" => B!Separated(p)

\* Every process comes out of set-up and of the barrier that follows it.
AllReady == <>(\A p \in Group : Ready(p))
=============================================================================
