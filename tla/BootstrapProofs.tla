-------------------------- MODULE BootstrapProofs --------------------------
(***************************************************************************)
(* For any processes on any hosts: start-up itself keeps the callers of    *)
(* its two barriers apart.  Nobody has read all the host names before      *)
(* everybody has committed its own, which is after its first barrier; so   *)
(* the exchange of host names is what BarrierHandler needs between two     *)
(* calls, and the handler's proof carries over to start-up.                *)
(***************************************************************************)
EXTENDS Bootstrap, FiniteSetTheorems, TLAPS

BP == INSTANCE BarrierProofs WITH Firsts <- Group, MaxCalls <- Calls

Stations == {"start", "connected", "ranked", "gathering", "mapping", "mapped",
             "aborted"}

\* The processes that have committed a host name, and those that have read all.
Committers == {p \in Group : pc[p] \in {"gathering", "mapping", "mapped", "aborted"}}
Readers == {p \in Group : pc[p] \in {"mapping", "mapped", "aborted"}}

\* Where a process is in start-up and what it has called so far.
Places == \A p \in Group :
  /\ pc[p] = "start" => entered[p] = 0 /\ left[p] = 0
  /\ pc[p] = "connected" => entered[p] \in {0, 1} /\ left[p] \in {0, 1}
  /\ pc[p] \in {"ranked", "gathering", "mapping", "aborted"} =>
       entered[p] = 1 /\ left[p] = 1
  /\ pc[p] = "mapped" => entered[p] \in {1, 2} /\ left[p] \in {1, 2}

\* The entries of the table of host names belong to processes that committed.
Committed == \A r \in DOMAIN hostnames :
               hostnames[r] \in Hosts /\ \E p \in Committers : rank[p] = r

\* A process has read entries that were there, and all before it goes on.
Read == \A p \in Group : /\ 0..(Len(gathered[p]) - 1) \subseteq DOMAIN hostnames
                         /\ p \in Readers => Len(gathered[p]) = Size

Shape == /\ pc \in [Group -> Stations] /\ DOMAIN rank = Group
         /\ gathered \in [Group -> Seq(Hosts)]

IInv == Shape /\ Places /\ Committed /\ Read /\ BP!IInv

-----------------------------------------------------------------------------
\* The handler of this module is the one that the proofs are about.
LEMMA SameSize == B!Size = BP!Size /\ Size = BP!Size
<1>1. /\ B!Cardinality(Group) = BP!Cardinality(Group)
      /\ Cardinality(Group) = BP!Cardinality(Group)
  BY DEF B!Cardinality, BP!Cardinality, Cardinality
<1>. QED
  BY <1>1 DEF B!Size, BP!Size, Size

LEMMA SameHandler ==
  ASSUME NEW p \in Group
  PROVE  /\ B!Enter(p) <=> BP!Enter(p)
         /\ B!ResumeArrived(p) <=> BP!ResumeArrived(p)
         /\ B!ResumeEnding(p) <=> BP!ResumeEnding(p)
<1>. USE SameSize DEF B!AllArrived, BP!AllArrived, B!AllPassed, BP!AllPassed,
       B!PassFirstLoop, BP!PassFirstLoop, B!NotifyAll, BP!NotifyAll,
       B!Sleepers, BP!Sleepers, B!Return, BP!Return, B!NumsOnReturn, BP!NumsOnReturn,
       B!SleepAgain, BP!SleepAgain
<1>1. B!Enter(p) <=> BP!Enter(p)
  BY DEF B!Enter, BP!Enter, B!EndNumsOnEntry, BP!EndNumsOnEntry
<1>2. B!ResumeArrived(p) <=> BP!ResumeArrived(p)
  BY DEF B!ResumeArrived, BP!ResumeArrived
<1>3. B!ResumeEnding(p) <=> BP!ResumeEnding(p)
  BY DEF B!ResumeEnding, BP!ResumeEnding
<1>. QED
  BY <1>1, <1>2, <1>3

\* What the proofs about the handler assume.
LEMMA HandlerAssumptions == /\ BP!IsFiniteSet(Group) /\ Group # {}
                            /\ Group \subseteq Group /\ Calls \in Nat
<1>1. BP!IsFiniteSet(Group)
  BY GroupAssumption DEF IsFiniteSet, BP!IsFiniteSet
<1>. QED
  BY <1>1, GroupAssumption DEF Calls

\* The invariant of the handler survives what it does for callers that are
\* separated, and what it has no part in.
LEMMA HandlerKept ==
  /\ BP!BarrierInit => BP!IInv
  /\ \A p \in Group : BP!IInv /\ BP!Separated(p) /\ BP!Enter(p) => BP!IInv'
  /\ \A p \in Group : BP!IInv /\ (BP!ResumeArrived(p) \/ BP!ResumeEnding(p)) => BP!IInv'
  /\ BP!IInv /\ UNCHANGED barrierVars => BP!IInv'
<1>. USE HandlerAssumptions
<1>1. BP!BarrierInit => BP!IInv
  BY BP!InitIInv
<1>2. \A p \in Group : BP!IInv /\ BP!Separated(p) /\ BP!Enter(p) => BP!IInv'
  BY BP!EnterIInv
<1>3. \A p \in Group : BP!IInv /\ (BP!ResumeArrived(p) \/ BP!ResumeEnding(p)) => BP!IInv'
  BY BP!ResumeArrivedIInv, BP!ResumeEndingIInv
<1>4. BP!IInv /\ UNCHANGED barrierVars => BP!IInv'
  <2>1. BP!IInv /\ UNCHANGED barrierVars => notified' \in SUBSET Group
    BY DEF BP!IInv, BP!TypeOK, barrierVars
  <2>. QED
    BY <2>1, BP!SleepIInv DEF barrierVars
<1>. QED
  BY <1>1, <1>2, <1>3, <1>4

\* What the handler's steps do to the calls made and returned.
LEMMA HandlerSteps ==
  ASSUME BP!IInv, NEW p \in Group
  PROVE  /\ entered \in [Group -> Nat] /\ left \in [Group -> Nat]
         /\ left[p] <= entered[p] /\ entered[p] <= left[p] + 1
         /\ BP!Enter(p) => /\ entered' = [entered EXCEPT ![p] = @ + 1]
                           /\ left' \in {left, [left EXCEPT ![p] = @ + 1]}
         /\ BP!ResumeArrived(p) \/ BP!ResumeEnding(p) =>
              /\ entered' = entered /\ entered[p] = left[p] + 1
              /\ left' \in {left, [left EXCEPT ![p] = @ + 1]}
<1>1. BP!TypeOK /\ BP!Calls
  BY DEF BP!IInv
<1>2. BP!Enter(p) => /\ entered' = [entered EXCEPT ![p] = @ + 1]
                     /\ left' \in {left, [left EXCEPT ![p] = @ + 1]}
  BY DEF BP!Enter, BP!PassFirstLoop, BP!Return
<1>3. BP!ResumeArrived(p) \/ BP!ResumeEnding(p) =>
        /\ entered' = entered /\ at[p] # "outside"
        /\ left' \in {left, [left EXCEPT ![p] = @ + 1]}
  BY DEF BP!ResumeArrived, BP!ResumeEnding, BP!PassFirstLoop, BP!Return, BP!SleepAgain
<1>. QED
  BY <1>1, <1>2, <1>3 DEF BP!TypeOK, BP!Calls

-----------------------------------------------------------------------------
\* A process that has read as many host names as there are processes has read
\* one of each: the ranks below Size and the processes that committed are
\* mapped one to one.
LEMMA ReadersWaitForAll ==
  ASSUME IInv, NEW p \in Group, Len(gathered[p]) = Size
  PROVE  Committers = Group /\ \A q \in Group : rank[q] \in 0..(Size - 1)
<1>. DEFINE ranks == 0..(Size - 1)
<1>1. Size \in Nat /\ IsFiniteSet(Group)
  BY GroupAssumption, FS_CardinalityType DEF Size
<1>2. ranks \subseteq DOMAIN hostnames
  BY DEF IInv, Read
<1>. DEFINE Of(r) == CHOOSE q \in Committers : rank[q] = r
            f == [r \in ranks |-> Of(r)]
<1>3. \A r \in ranks : Of(r) \in Committers /\ rank[Of(r)] = r
  BY <1>2 DEF IInv, Committed
<1>4. Committers \subseteq Group /\ IsFiniteSet(Committers)
  <2>1. Committers \subseteq Group
    BY DEF Committers
  <2>. QED
    BY <2>1, <1>1, FS_Subset
<1>5. f \in Injection(ranks, Committers)
  <2>1. f \in [ranks -> Committers]
    BY <1>3
  <2>2. \A r, s \in ranks : f[r] = f[s] => r = s
    BY <1>3
  <2>. HIDE DEF f
  <2>. QED
    BY <2>1, <2>2 DEF Injection, IsInjective
<1>6. Cardinality(ranks) <= Cardinality(Committers)
  <2>. HIDE DEF f
  <2>. QED BY <1>4, <1>5, FS_Injection
<1>7. Cardinality(ranks) = Size
  <2>1. Size - 1 \in Int /\ 0 \in Int
    BY <1>1
  <2>2. Cardinality(0..(Size - 1)) = IF 0 > Size - 1 THEN 0 ELSE (Size - 1) - 0 + 1
    BY <2>1, FS_Interval
  <2>. HIDE DEF Size
  <2>. QED
    BY <2>2, <1>1
<1>8. Cardinality(Committers) <= Cardinality(Group) /\ Cardinality(Committers) \in Nat
  BY <1>1, <1>4, FS_Subset, FS_CardinalityType
<1>9. Cardinality(Group) = Cardinality(Committers)
  <2>1. Size <= Cardinality(Committers)
    BY <1>6, <1>7
  <2>. QED
    BY <2>1, <1>1, <1>8 DEF Size
<1>10. Committers = Group
  BY <1>1, <1>4, <1>9, FS_Subset
<1>11. f \in Surjection(ranks, Committers)
  <2>1. Cardinality(ranks) = Cardinality(Committers)
    BY <1>7, <1>9 DEF Size
  <2>. HIDE DEF f
  <2>. QED
    BY <2>1, <1>4, <1>5, FS_Injection
<1>12. ASSUME NEW q \in Group PROVE rank[q] \in ranks
  <2>1. PICK r \in ranks : f[r] = q
    BY <1>10, <1>11 DEF Surjection
  <2>. QED
    BY <2>1, <1>3
<1>. QED
  BY <1>10, <1>12

\* Whoever is about to call has seen everybody return from its call before.
LEMMA SeparatedNow ==
  ASSUME IInv, NEW p \in Group, AboutToCall(p)
  PROVE  BP!Separated(p)
<1>. SUFFICES ASSUME NEW q \in Group PROVE left[q] >= entered[p]
  BY DEF BP!Separated
<1>1. entered[p] \in Nat /\ left[q] \in Nat
  BY HandlerSteps DEF IInv
<1>2. \/ pc[p] = "connected" /\ entered[p] = 0
      \/ pc[p] = "mapped" /\ entered[p] = 1
  BY <1>1 DEF AboutToCall, CallsBefore, Calls
<1>3. CASE pc[p] = "connected" /\ entered[p] = 0
  BY <1>1, <1>3
<1>4. CASE pc[p] = "mapped" /\ entered[p] = 1
  <2>1. Len(gathered[p]) = Size
    BY <1>4 DEF Readers, IInv, Read
  <2>2. q \in Committers
    BY <2>1, ReadersWaitForAll
  <2>. QED
    BY <1>4, <2>2 DEF Committers, IInv, Places
<1>. QED
  BY <1>2, <1>3, <1>4

-----------------------------------------------------------------------------
LEMMA InitIInv == Init => IInv
<1>. SUFFICES ASSUME Init PROVE IInv
  OBVIOUS
<1>1. BP!IInv
  <2>1. BP!BarrierInit
    BY DEF Init, B!BarrierInit, BP!BarrierInit
  <2>. QED
    BY <2>1, HandlerKept
<1>2. Shape /\ Committed
  BY DEF Init, Shape, Stations, Committed
<1>3. Places
  BY DEF Init, Places, B!BarrierInit
<1>4. Read
  BY DEF Init, Read, Readers
<1>. QED
  BY <1>1, <1>2, <1>3, <1>4 DEF IInv

\* The handler's steps: the call, and a thread that wakes up.
LEMMA BarrierIInv ==
  ASSUME IInv, NEW p \in Group, CallBarrier(p) \/ BarrierThread(p)
  PROVE  IInv'
<1>. USE DEF IInv
<1>1. UNCHANGED <<pc, rank, gathered, hostnames>>
  BY DEF CallBarrier, BarrierThread, procVars, tableVars
<1>2. BP!IInv'
  <2>1. CASE CallBarrier(p)
    <3>1. BP!Separated(p) /\ BP!Enter(p)
      BY <2>1, SeparatedNow, SameHandler DEF CallBarrier
    <3>. QED
      BY <3>1, HandlerKept
  <2>2. CASE BarrierThread(p)
    BY <2>2, SameHandler, HandlerKept DEF BarrierThread, B!Resume
  <2>. QED
    BY <2>1, <2>2
<1>3. pc \in [Group -> Stations] /\ entered \in [Group -> Nat] /\ left \in [Group -> Nat]
  BY HandlerSteps DEF Shape
<1>4. left' \in {left, [left EXCEPT ![p] = @ + 1]}
  BY SameHandler, HandlerSteps DEF CallBarrier, BarrierThread, B!Resume
<1>5. /\ \/ pc[p] = "connected" /\ left[p] = 0 /\ entered'[p] = 1
         \/ pc[p] = "mapped" /\ left[p] = 1 /\ entered'[p] = 2
      /\ \A q \in Group \ {p} : entered'[q] = entered[q]
  <2>1. CASE CallBarrier(p)
    <3>1. AboutToCall(p) /\ BP!Enter(p)
      BY <2>1, SameHandler DEF CallBarrier
    <3>2. entered' = [entered EXCEPT ![p] = @ + 1] /\ left[p] <= entered[p]
      BY <3>1, HandlerSteps
    <3>. QED
      BY <3>1, <3>2, <1>3 DEF Places, AboutToCall, CallsBefore, Calls
  <2>2. CASE BarrierThread(p)
    <3>1. entered' = entered /\ entered[p] = left[p] + 1
      BY <2>2, SameHandler, HandlerSteps DEF BarrierThread, B!Resume
    <3>. QED
      BY <3>1, <1>3 DEF Places, Stations
  <2>. QED
    BY <2>1, <2>2
<1>6. Places'
  <2>. SUFFICES ASSUME NEW q \in Group PROVE
         /\ pc[q] = "start" => entered'[q] = 0 /\ left'[q] = 0
         /\ pc[q] = "connected" => entered'[q] \in {0, 1} /\ left'[q] \in {0, 1}
         /\ pc[q] \in {"ranked", "gathering", "mapping", "aborted"} =>
              entered'[q] = 1 /\ left'[q] = 1
         /\ pc[q] = "mapped" => entered'[q] \in {1, 2} /\ left'[q] \in {1, 2}
    BY <1>1 DEF Places
  <2>1. CASE q = p
    BY <2>1, <1>3, <1>4, <1>5
  <2>2. CASE q # p
    BY <2>2, <1>3, <1>4, <1>5 DEF Places
  <2>. QED
    BY <2>1, <2>2
<1>7. Shape' /\ Committed' /\ Read'
  BY <1>1 DEF Shape, Committed, Committers, Read, Readers
<1>. QED
  BY <1>2, <1>6, <1>7

\* Steps that the barrier has no part in keep the calls where they belong.
LEMMA PlacesKept ==
  ASSUME IInv, NEW p \in Group, UNCHANGED barrierVars, NEW place \in Stations,
         pc' = [pc EXCEPT ![p] = place],
         \/ place = pc[p]
         \/ pc[p] = "start" /\ place = "connected"
         \/ pc[p] = "connected" /\ place = "ranked" /\ left[p] = 1
         \/ /\ pc[p] \in {"ranked", "gathering", "mapping"}
            /\ place \in {"gathering", "mapping", "mapped", "aborted"}
  PROVE  Places' /\ BP!IInv' /\ pc' \in [Group -> Stations]
<1>. USE DEF IInv
<1>1. BP!IInv'
  BY HandlerKept
<1>2. UNCHANGED <<entered, left>>
  BY DEF barrierVars
<1>3. /\ pc \in [Group -> Stations] /\ entered \in [Group -> Nat] /\ left \in [Group -> Nat]
      /\ left[p] <= entered[p]
  BY HandlerSteps DEF Shape
<1>4. Places'
  <2>. SUFFICES ASSUME NEW q \in Group PROVE
         /\ pc'[q] = "start" => entered[q] = 0 /\ left[q] = 0
         /\ pc'[q] = "connected" => entered[q] \in {0, 1} /\ left[q] \in {0, 1}
         /\ pc'[q] \in {"ranked", "gathering", "mapping", "aborted"} =>
              entered[q] = 1 /\ left[q] = 1
         /\ pc'[q] = "mapped" => entered[q] \in {1, 2} /\ left[q] \in {1, 2}
    BY <1>2 DEF Places
  <2>1. CASE pc'[q] = pc[q]
    BY <2>1 DEF Places
  <2>2. CASE pc'[q] # pc[q]
    <3>1. q = p /\ pc'[p] = place
      BY <1>3, <2>2
    <3>. QED
      BY <3>1, <2>2, <1>3 DEF Places
  <2>. QED
    BY <2>1, <2>2
<1>. QED
  BY <1>1, <1>3, <1>4

\* Connect and GetRank: nothing is in the tables of a process at either.
LEMMA EarlyIInv ==
  ASSUME IInv, NEW p \in Group, Connect(p) \/ GetRank(p)
  PROVE  IInv'
<1>1. PICK place \in {"connected", "ranked"} :
        /\ pc' = [pc EXCEPT ![p] = place]
        /\ pc[p] \in {"start", "connected"}
        /\ \/ pc[p] = "start" /\ place = "connected"
           \/ pc[p] = "connected" /\ place = "ranked" /\ left[p] = 1
        /\ UNCHANGED barrierVars /\ UNCHANGED <<gathered, hostnames>>
        /\ DOMAIN rank' = DOMAIN rank
        /\ \A q \in Group \ {p} : rank'[q] = rank[q]
  BY DEF Connect, GetRank, GoTo, InitBarrierReturned, tableVars, IInv, Shape
<1>2. Places' /\ BP!IInv' /\ pc' \in [Group -> Stations]
  BY <1>1, PlacesKept DEF Stations
<1>3. Committers' = Committers /\ Readers' = Readers /\ p \notin Committers
  BY <1>1 DEF Committers, Readers, IInv, Shape
<1>4. Shape' /\ Committed'
  <2>1. \A q \in Committers : rank'[q] = rank[q]
    BY <1>1, <1>3 DEF Committers
  <2>. QED
    BY <2>1, <1>1, <1>2, <1>3 DEF IInv, Shape, Committed
<1>5. Read'
  BY <1>1, <1>3 DEF IInv, Read
<1>. QED
  BY <1>2, <1>4, <1>5 DEF IInv

LEMMA CommitIInv ==
  ASSUME IInv, NEW p \in Group, CommitHostName(p)
  PROVE  IInv'
<1>1. /\ pc[p] = "ranked" /\ pc' = [pc EXCEPT ![p] = "gathering"]
      /\ UNCHANGED barrierVars /\ UNCHANGED <<rank, gathered>>
      /\ DOMAIN hostnames' = DOMAIN hostnames \cup {rank[p]}
      /\ \A r \in DOMAIN hostnames' : hostnames'[r] \in {hostnames[r], HostOf[p]}
      /\ \A r \in DOMAIN hostnames' \ DOMAIN hostnames : hostnames'[r] = HostOf[p]
  BY DEF CommitHostName, GoTo, Put
<1>2. Places' /\ BP!IInv' /\ pc' \in [Group -> Stations]
  BY <1>1, PlacesKept DEF Stations
<1>3. Committers' = Committers \cup {p} /\ Readers' = Readers
  BY <1>1 DEF Committers, Readers, IInv, Shape
<1>4. Committed'
  <2>. SUFFICES ASSUME NEW r \in DOMAIN hostnames'
                PROVE  hostnames'[r] \in Hosts /\ \E q \in Committers' : rank[q] = r
    BY <1>1 DEF Committed
  <2>1. HostOf[p] \in Hosts
    BY HostAssumption
  <2>. QED
    BY <2>1, <1>1, <1>3 DEF IInv, Committed
<1>5. Shape' /\ Read'
  BY <1>1, <1>2, <1>3 DEF IInv, Shape, Read
<1>. QED
  BY <1>2, <1>4, <1>5 DEF IInv

LEMMA GatherIInv ==
  ASSUME IInv, NEW p \in Group, GetHostName(p)
  PROVE  IInv'
<1>. DEFINE r == Len(gathered[p])
<1>1. /\ pc[p] = "gathering" /\ r \in DOMAIN hostnames
      /\ gathered' = [gathered EXCEPT ![p] = Append(gathered[p], hostnames[r])]
      /\ UNCHANGED barrierVars /\ UNCHANGED <<pc, rank, hostnames>>
  BY DEF GetHostName, tableVars
<1>2. Places' /\ BP!IInv' /\ pc' \in [Group -> Stations]
  <2>1. pc' = [pc EXCEPT ![p] = pc[p]] /\ pc[p] \in Stations
    BY <1>1 DEF IInv, Shape
  <2>. QED
    BY <2>1, <1>1, PlacesKept
<1>3. Committers' = Committers /\ Readers' = Readers /\ p \notin Readers
  BY <1>1 DEF Committers, Readers
<1>4. /\ gathered[p] \in Seq(Hosts) /\ r \in Nat /\ hostnames[r] \in Hosts
      /\ gathered'[p] = Append(gathered[p], hostnames[r])
      /\ \A q \in Group \ {p} : gathered'[q] = gathered[q]
  BY <1>1 DEF IInv, Shape, Committed
<1>5. Shape' /\ Committed'
  BY <1>1, <1>2, <1>3, <1>4 DEF IInv, Shape, Committed
<1>6. Read'
  <2>. SUFFICES ASSUME NEW q \in Group
                PROVE  /\ 0..(Len(gathered'[q]) - 1) \subseteq DOMAIN hostnames
                       /\ q \in Readers => Len(gathered'[q]) = Size
    BY <1>1, <1>3 DEF Read
  <2>1. CASE q = p
    <3>1. Len(gathered'[p]) = r + 1
      BY <1>4
    <3>2. 0..(r - 1) \subseteq DOMAIN hostnames
      BY DEF IInv, Read
    <3>3. 0..r = 0..(r - 1) \cup {r}
      BY <1>4
    <3>4. Len(gathered'[p]) - 1 = r
      BY <3>1, <1>4
    <3>. HIDE DEF r
    <3>. QED
      BY <2>1, <3>2, <3>3, <3>4, <1>1, <1>3
  <2>2. CASE q # p
    BY <2>2, <1>4 DEF IInv, Read
  <2>. QED
    BY <2>1, <2>2
<1>. QED
  BY <1>2, <1>5, <1>6 DEF IInv

\* CommitDeviceInfo and GetDeviceInfo, of a process that has all host names.
LEMMA DeviceIInv ==
  ASSUME IInv, NEW p \in Group, CommitDeviceInfo(p) \/ GetDeviceInfo(p)
  PROVE  IInv'
<1>1. PICK place \in {"mapping", "mapped", "aborted"} :
        /\ pc[p] \in {"gathering", "mapping"}
        /\ pc' = [pc EXCEPT ![p] = place]
        /\ pc[p] = "gathering" => Len(gathered[p]) = Size
        /\ UNCHANGED barrierVars /\ UNCHANGED <<rank, gathered, hostnames>>
  BY DEF CommitDeviceInfo, GetDeviceInfo, GoTo, Gathered, tableVars
<1>2. Places' /\ BP!IInv' /\ pc' \in [Group -> Stations]
  BY <1>1, PlacesKept DEF Stations
<1>3. /\ Committers' = Committers /\ Readers' = Readers \cup {p}
      /\ Len(gathered[p]) = Size
  BY <1>1 DEF Committers, Readers, IInv, Shape, Read
<1>4. Shape' /\ Committed' /\ Read'
  BY <1>1, <1>2, <1>3 DEF IInv, Shape, Committed, Read
<1>. QED
  BY <1>2, <1>4 DEF IInv

-----------------------------------------------------------------------------
\* The order in which start-up calls the server, and what a process has read of
\* the host names, keep the barrier handler in the states it was proved in.
THEOREM Inductive == Spec => []IInv
<1>1. IInv /\ [Next]_vars => IInv'
  <2>. SUFFICES ASSUME IInv, [Next]_vars PROVE IInv'
    OBVIOUS
  <2>1. ASSUME NEW p \in Group, Step(p) PROVE IInv'
    BY <2>1, BarrierIInv, EarlyIInv, CommitIInv, GatherIInv, DeviceIInv DEF Step
  <2>2. CASE UNCHANGED vars
    <3>1. BP!IInv'
      BY <2>2, HandlerKept DEF vars, IInv
    <3>. QED
      BY <2>2, <3>1 DEF IInv, Shape, Places, Committed, Committers, Read, Readers,
           vars, barrierVars, tableVars, procVars
  <2>. QED
    BY <2>1, <2>2 DEF Next, Finished
<1>. QED
  BY <1>1, InitIInv, PTL DEF Spec

\* Nobody reaches the barrier after set-up while a member still sleeps in the
\* barrier of RPC_Init_Once, for any number of processes and hosts.
THEOREM Separation == Spec => []BarrierCallersSeparated
<1>1. IInv => BarrierCallersSeparated
  BY SeparatedNow DEF BarrierCallersSeparated, B!Separated, BP!Separated
<1>. QED
  BY <1>1, Inductive, PTL

\* Nobody comes out of either barrier of start-up before everybody is in it.
THEOREM BarrierSafe == Spec => [](\A p, q \in Group : left[p] <= entered[q])
<1>1. IInv => \A p, q \in Group : left[p] <= entered[q]
  BY DEF IInv, BP!IInv, BP!Lockstep
<1>. QED
  BY <1>1, Inductive, PTL
-----------------------------------------------------------------------------
(***************************************************************************)
(* Ranks.  Nobody connects any more once a rank is given, so the numbers   *)
(* of processes that GetRank adds up no longer change, and the ranks of a  *)
(* node fill an interval of their own.                                     *)
(***************************************************************************)
Connected(h) == {p \in Group : HostOf[p] = h /\ pc[p] # "start"}
Ranked(h) == {p \in Group : HostOf[p] = h /\ rank[p] # NoRank}

\* The ranks that the nodes before h take.
Offset(h) == Cardinality(Counted(Earlier(h)))

RankShape == /\ rank \in [Group -> Nat \cup {NoRank}]
             /\ nodenames \in Seq(Hosts) /\ IsInjective(nodenames)
             /\ local_worldsizes \in [Hosts -> Nat]
             /\ local_ranks \in [Hosts -> Nat]

\* What the server's counters say of the processes.
Tallied == \A h \in Hosts :
  /\ local_worldsizes[h] = Cardinality(Connected(h))
  /\ local_ranks[h] = Cardinality(Ranked(h))

\* A connected process has its node in the list; it has a rank from GetRank on.
Named == \A p \in Group :
  /\ pc[p] # "start" => \E i \in DOMAIN nodenames : nodenames[i] = HostOf[p]
  /\ rank[p] = NoRank <=> pc[p] \in {"start", "connected"}

Placed == \A p \in Group : rank[p] # NoRank =>
  /\ Offset(HostOf[p]) <= rank[p]
  /\ rank[p] < Offset(HostOf[p]) + local_ranks[HostOf[p]]

Distinct == \A p, q \in Group : p # q /\ rank[p] # NoRank => rank[p] # rank[q]

RInv == RankShape /\ Tallied /\ Named /\ Placed /\ Distinct

LEMMA SizeNat == Size \in Nat /\ IsFiniteSet(Group)
  BY GroupAssumption, FS_CardinalityType DEF Size

\* The nodes in the list before the i-th are finitely many, and known.
LEMMA EarlierNodes ==
  ASSUME RankShape, NEW i \in DOMAIN nodenames
  PROVE  /\ Earlier(nodenames[i]) = {nodenames[k] : k \in 1..(i - 1)}
         /\ IsFiniteSet(Earlier(nodenames[i]))
<1>1. \A k, l \in DOMAIN nodenames : nodenames[k] = nodenames[l] => k = l
  BY DEF RankShape, IsInjective
<1>2. Earlier(nodenames[i]) = {nodenames[k] : k \in 1..(i - 1)}
  <2>1. (CHOOSE k \in DOMAIN nodenames : nodenames[k] = nodenames[i]) = i
    BY <1>1
  <2>. QED
    BY <2>1 DEF Earlier
<1>. DEFINE f == [k \in 1..(i - 1) |-> nodenames[k]]
<1>3. f \in Surjection(1..(i - 1), Earlier(nodenames[i]))
  BY <1>2 DEF Surjection
<1>4. i - 1 \in Int /\ 1 \in Int
  BY DEF RankShape
<1>5. IsFiniteSet(1..(i - 1))
  BY <1>4, FS_Interval
<1>6. IsFiniteSet(Earlier(nodenames[i]))
  <2>. HIDE DEF f
  <2>. QED BY <1>3, <1>5, FS_Surjection
<1>. QED
  BY <1>2, <1>6

\* What a finite set of nodes counts is finite, and a node counts its processes.
LEMMA CountedFinite ==
  ASSUME NEW nodes, IsFiniteSet(nodes)
  PROVE  IsFiniteSet(Counted(nodes)) /\ Cardinality(Counted(nodes)) \in Nat
<1>1. IsFiniteSet(1..Size)
  BY SizeNat, FS_Interval
<1>2. IsFiniteSet(nodes \X (1..Size))
  BY <1>1, FS_Product
<1>3. Counted(nodes) \in SUBSET (nodes \X (1..Size))
  BY DEF Counted
<1>. QED
  BY <1>2, <1>3, FS_Subset, FS_CardinalityType

LEMMA NoMoreThanSize ==
  ASSUME RInv, NEW h \in Hosts
  PROVE  /\ IsFiniteSet(Connected(h)) /\ IsFiniteSet(Ranked(h))
         /\ local_worldsizes[h] \in Nat /\ local_worldsizes[h] <= Size
         /\ local_ranks[h] \in Nat /\ local_ranks[h] <= local_worldsizes[h]
<1>1. Connected(h) \in SUBSET Group /\ Ranked(h) \in SUBSET Connected(h)
  BY DEF Connected, Ranked, RInv, Named
<1>2. /\ IsFiniteSet(Connected(h)) /\ IsFiniteSet(Ranked(h))
      /\ Cardinality(Connected(h)) <= Cardinality(Group)
      /\ Cardinality(Ranked(h)) <= Cardinality(Connected(h))
  BY <1>1, SizeNat, FS_Subset
<1>. QED
  BY <1>2 DEF RInv, RankShape, Tallied, Size

LEMMA CountedOne ==
  ASSUME RInv, NEW h \in Hosts
  PROVE  Cardinality(Counted({h})) = local_worldsizes[h]
<1>. DEFINE n == local_worldsizes[h]
            f == [k \in 1..n |-> <<h, k>>]
<1>1. n \in Nat /\ n <= Size /\ Size \in Nat
  BY NoMoreThanSize, SizeNat
<1>2. Counted({h}) = {<<h, k>> : k \in 1..n}
  <2>1. ASSUME NEW c \in Counted({h}) PROVE c \in {<<h, k>> : k \in 1..n}
    <3>1. c \in {h} \X (1..Size) /\ c[2] <= local_worldsizes[c[1]]
      BY <2>1 DEF Counted
    <3>2. c = <<h, c[2]>> /\ c[2] \in 1..Size /\ c[1] = h
      BY <3>1
    <3>3. c[2] \in 1..n
      BY <3>1, <3>2, <1>1
    <3>. QED
      BY <3>2, <3>3
  <2>2. ASSUME NEW k \in 1..n PROVE <<h, k>> \in Counted({h})
    <3>1. k \in 1..Size /\ k <= local_worldsizes[h]
      BY <2>2, <1>1
    <3>. QED
      BY <3>1 DEF Counted
  <2>. QED
    BY <2>1, <2>2
<1>3. f \in Bijection(1..n, Counted({h}))
  <2>1. f \in [1..n -> Counted({h})]
    BY <1>2
  <2>2. \A k, l \in 1..n : f[k] = f[l] => k = l
    OBVIOUS
  <2>3. \A c \in Counted({h}) : \E k \in 1..n : f[k] = c
    BY <1>2
  <2>. HIDE DEF f
  <2>. QED
    BY <2>1, <2>2, <2>3 DEF Bijection, Injection, Surjection, IsInjective
<1>4. ExistsBijection(1..n, Counted({h}))
  BY <1>3 DEF ExistsBijection
<1>. HIDE DEF n, f
<1>5. n \in Nat
  BY <1>1
<1>. QED
  BY <1>4, <1>5, FS_CountingElements DEF n

\* The intervals of two nodes do not overlap.
LEMMA NodesApart ==
  ASSUME RInv, NEW i \in DOMAIN nodenames, NEW j \in DOMAIN nodenames, i < j
  PROVE  Offset(nodenames[i]) + local_worldsizes[nodenames[i]] <= Offset(nodenames[j])
<1>. DEFINE h == nodenames[i]
            before == Counted(Earlier(h))
            mine == Counted({h})
            all == Counted(Earlier(nodenames[j]))
<1>0. RankShape /\ h \in Hosts /\ i \in Nat \ {0} /\ j \in Nat \ {0}
  BY DEF RInv, RankShape
<1>1. /\ Earlier(h) = {nodenames[k] : k \in 1..(i - 1)}
      /\ Earlier(nodenames[j]) = {nodenames[k] : k \in 1..(j - 1)}
      /\ IsFiniteSet(Earlier(h)) /\ IsFiniteSet(Earlier(nodenames[j]))
  BY <1>0, EarlierNodes
<1>2. Earlier(h) \cup {h} \subseteq Earlier(nodenames[j])
  <2>1. 1..(i - 1) \subseteq 1..(j - 1) /\ i \in 1..(j - 1)
    BY <1>0
  <2>. QED
    BY <2>1, <1>1
<1>3. h \notin Earlier(h)
  <2>0. DOMAIN nodenames = 1..Len(nodenames) /\ Len(nodenames) \in Nat
    BY <1>0 DEF RankShape
  <2>1. \A k \in 1..(i - 1) : k \in DOMAIN nodenames /\ k # i
    BY <2>0, <1>0
  <2>2. \A k \in 1..(i - 1) : nodenames[k] # nodenames[i]
    BY <2>1 DEF RInv, RankShape, IsInjective
  <2>. QED
    BY <2>2, <1>1
<1>4. before \cup mine \in SUBSET all
  BY <1>2 DEF Counted
<1>5. before \cap mine = {}
  <2>1. \A c \in before : c[1] \in Earlier(h)
    BY DEF Counted
  <2>2. \A c \in mine : c[1] \in {h}
    BY DEF Counted
  <2>. QED
    BY <2>1, <2>2, <1>3
<1>6. /\ IsFiniteSet(before) /\ IsFiniteSet(mine) /\ IsFiniteSet(all)
      /\ Cardinality(before) \in Nat /\ Cardinality(mine) \in Nat
      /\ Cardinality(all) \in Nat
  <2>1. IsFiniteSet({h})
    BY FS_Singleton
  <2>. QED
    BY <1>1, <2>1, CountedFinite
<1>7. Cardinality(mine) = local_worldsizes[h]
  BY <1>0, CountedOne
<1>. HIDE DEF before, mine, all
<1>8. Cardinality(before \cup mine) = Cardinality(before) + Cardinality(mine)
                                       - Cardinality(before \cap mine)
  BY <1>6, FS_Union
<1>9. Cardinality(before \cap mine) = 0
  BY <1>5, FS_EmptySet
<1>10. Cardinality(before \cup mine) <= Cardinality(all)
  BY <1>4, <1>6, FS_Subset
<1>11. Cardinality(before) + local_worldsizes[h] <= Cardinality(all)
  BY <1>6, <1>7, <1>8, <1>9, <1>10
<1>. QED
  BY <1>11 DEF before, all, Offset
-----------------------------------------------------------------------------
\* Steps that touch neither the server's lists of nodes nor a rank.
LEMMA RanksKept ==
  ASSUME RInv, UNCHANGED nodeVars, UNCHANGED rank,
         pc' \in [Group -> Stations],
         \A p \in Group : /\ pc'[p] = "start" <=> pc[p] = "start"
                          /\ pc'[p] = "connected" <=> pc[p] = "connected"
  PROVE  RInv'
<1>1. \A h : Connected(h)' = Connected(h) /\ Ranked(h)' = Ranked(h)
  BY DEF Connected, Ranked
<1>2. \A h : Offset(h)' = Offset(h)
  BY DEF Offset, Counted, Earlier, nodeVars
<1>3. RankShape' /\ Tallied' /\ Distinct'
  BY <1>1 DEF RInv, RankShape, Tallied, Distinct, nodeVars
<1>4. Named'
  BY DEF RInv, Named, nodeVars
<1>5. Placed'
  BY <1>2 DEF RInv, Placed, nodeVars
<1>. QED
  BY <1>3, <1>4, <1>5 DEF RInv

\* Nobody has a rank while somebody still has to connect.
LEMMA NobodyRankedYet ==
  ASSUME IInv, RInv, NEW p \in Group, pc[p] = "start"
  PROVE  \A q \in Group : rank[q] = NoRank
<1>. SUFFICES ASSUME NEW q \in Group, rank[q] # NoRank PROVE FALSE
  OBVIOUS
<1>1. pc[q] \in Stations \ {"start", "connected"}
  BY DEF IInv, Shape, RInv, Named
<1>2. left[q] >= 1 /\ left[q] \in Nat
  BY <1>1 DEF IInv, Places, Stations
<1>3. left[q] <= entered[p]
  BY DEF IInv, BP!IInv, BP!Lockstep
<1>4. entered[p] = 0
  BY DEF IInv, Places
<1>. QED
  BY <1>2, <1>3, <1>4

LEMMA ConnectRInv ==
  ASSUME IInv, RInv, NEW p \in Group, Connect(p)
  PROVE  RInv'
<1>. DEFINE h == HostOf[p]
<1>1. /\ pc[p] = "start" /\ pc' = [pc EXCEPT ![p] = "connected"]
      /\ local_worldsizes' = [local_worldsizes EXCEPT ![h] = local_worldsizes[h] + 1]
      /\ nodenames' = IF Contains(nodenames, h) THEN nodenames ELSE Append(nodenames, h)
      /\ UNCHANGED <<local_ranks, rank>>
  BY DEF Connect, GoTo
<1>2. \A q \in Group : rank[q] = NoRank
  BY <1>1, NobodyRankedYet
<1>3. pc \in [Group -> Stations] /\ h \in Hosts /\ RankShape
  BY HostAssumption DEF IInv, Shape, RInv
<1>4. RankShape' /\ \E i \in DOMAIN nodenames' : nodenames'[i] = h
  <2>1. CASE Contains(nodenames, h)
    <3>1. nodenames' = nodenames
      BY <2>1, <1>1
    <3>2. \E i \in 1..Len(nodenames) : nodenames[i] = h
      BY <2>1 DEF Contains
    <3>. QED
      BY <3>1, <3>2, <1>1, <1>3 DEF RankShape
  <2>2. CASE ~Contains(nodenames, h)
    <3>1. nodenames' = Append(nodenames, h) /\ nodenames' \in Seq(Hosts)
      BY <2>2, <1>1, <1>3 DEF RankShape
    <3>2. \A i \in 1..Len(nodenames) : nodenames[i] # h
      BY <2>2 DEF Contains
    <3>3. IsInjective(nodenames')
      BY <3>1, <3>2, <1>3 DEF RankShape, IsInjective
    <3>4. /\ Len(nodenames') \in DOMAIN nodenames'
          /\ nodenames'[Len(nodenames')] = h
      BY <3>1, <1>3 DEF RankShape
    <3>5. RankShape'
      BY <3>1, <3>3, <1>1, <1>3 DEF RankShape
    <3>. QED
      BY <3>4, <3>5
  <2>. QED
    BY <2>1, <2>2
<1>5. \A i \in DOMAIN nodenames : i \in DOMAIN nodenames' /\ nodenames'[i] = nodenames[i]
  BY <1>1, <1>3 DEF RankShape
<1>6. Tallied'
  <2>. SUFFICES ASSUME NEW g \in Hosts
                PROVE  /\ local_worldsizes'[g] = Cardinality(Connected(g)')
                       /\ local_ranks'[g] = Cardinality(Ranked(g)')
    BY DEF Tallied
  <2>1. Ranked(g)' = Ranked(g) /\ local_ranks'[g] = Cardinality(Ranked(g))
    BY <1>1 DEF Ranked, RInv, Tallied
  <2>2. local_worldsizes[g] = Cardinality(Connected(g)) /\ IsFiniteSet(Connected(g))
    BY NoMoreThanSize DEF RInv, Tallied
  <2>3. CASE g = h
    <3>1. Connected(g)' = Connected(g) \cup {p} /\ p \notin Connected(g)
      BY <2>3, <1>1, <1>3 DEF Connected
    <3>2. Cardinality(Connected(g) \cup {p}) = Cardinality(Connected(g)) + 1
      BY <3>1, <2>2, FS_AddElement
    <3>. QED
      BY <2>1, <2>2, <2>3, <3>1, <3>2, <1>1, <1>3 DEF RankShape
  <2>4. CASE g # h
    <3>1. Connected(g)' = Connected(g)
      BY <2>4, <1>1, <1>3 DEF Connected
    <3>. QED
      BY <2>1, <2>2, <2>4, <3>1, <1>1, <1>3 DEF RankShape
  <2>. QED
    BY <2>3, <2>4
<1>7. Named'
  <2>. SUFFICES ASSUME NEW q \in Group
                PROVE  /\ pc'[q] # "start" =>
                            \E i \in DOMAIN nodenames' : nodenames'[i] = HostOf[q]
                       /\ pc'[q] \in {"start", "connected"}
    BY <1>1, <1>2 DEF Named
  <2>1. CASE q = p
    BY <2>1, <1>1, <1>3, <1>4
  <2>2. CASE q # p
    <3>1. pc'[q] = pc[q] /\ pc[q] \in {"start", "connected"}
      BY <2>2, <1>1, <1>2, <1>3 DEF RInv, Named
    <3>. QED
      BY <3>1, <1>5 DEF RInv, Named
  <2>. QED
    BY <2>1, <2>2
<1>8. Placed' /\ Distinct'
  BY <1>1, <1>2 DEF Placed, Distinct
<1>. QED
  BY <1>4, <1>6, <1>7, <1>8 DEF RInv

LEMMA OffsetNat ==
  ASSUME RInv, NEW p \in Group, pc[p] # "start"
  PROVE  Offset(HostOf[p]) \in Nat
<1>1. PICK i \in DOMAIN nodenames : nodenames[i] = HostOf[p]
  BY DEF RInv, Named
<1>2. IsFiniteSet(Earlier(HostOf[p]))
  BY <1>1, EarlierNodes DEF RInv
<1>. QED
  BY <1>2, CountedFinite DEF Offset

LEMMA GetRankRInv ==
  ASSUME IInv, RInv, NEW p \in Group, GetRank(p)
  PROVE  RInv'
<1>. DEFINE h == HostOf[p]
            new == Offset(h) + local_ranks[h]
<1>1. /\ pc[p] = "connected" /\ pc' = [pc EXCEPT ![p] = "ranked"]
      /\ rank' = [rank EXCEPT ![p] = new]
      /\ local_ranks' = [local_ranks EXCEPT ![h] = local_ranks[h] + 1]
      /\ UNCHANGED <<local_worldsizes, nodenames>>
  BY DEF GetRank, GoTo, RankOn, Offset
<1>2. pc \in [Group -> Stations] /\ h \in Hosts /\ RankShape /\ rank[p] = NoRank
  BY <1>1, HostAssumption DEF IInv, Shape, RInv, Named
<1>3. Offset(h) \in Nat /\ local_ranks[h] \in Nat /\ new \in Nat /\ new # NoRank
  BY <1>1, <1>2, OffsetNat DEF RankShape, NoRank
<1>4. \A g : Offset(g)' = Offset(g) /\ Connected(g)' = Connected(g)
  <2>1. \A g : Offset(g)' = Offset(g)
    BY <1>1 DEF Offset, Counted, Earlier
  <2>2. \A g : Connected(g)' = Connected(g)
    BY <1>1, <1>2 DEF Connected
  <2>. QED
    BY <2>1, <2>2
<1>. HIDE DEF new
<1>5. RankShape'
  BY <1>1, <1>2, <1>3 DEF RankShape
<1>6. Tallied'
  <2>. SUFFICES ASSUME NEW g \in Hosts
                PROVE  /\ local_worldsizes'[g] = Cardinality(Connected(g)')
                       /\ local_ranks'[g] = Cardinality(Ranked(g)')
    BY DEF Tallied
  <2>1. local_worldsizes'[g] = Cardinality(Connected(g)')
    BY <1>1, <1>4 DEF RInv, Tallied
  <2>2. local_ranks[g] = Cardinality(Ranked(g)) /\ IsFiniteSet(Ranked(g))
    BY NoMoreThanSize DEF RInv, Tallied
  <2>3. CASE g = h
    <3>1. Ranked(g)' = Ranked(g) \cup {p} /\ p \notin Ranked(g)
      BY <2>3, <1>1, <1>2, <1>3 DEF Ranked, RankShape
    <3>2. Cardinality(Ranked(g) \cup {p}) = Cardinality(Ranked(g)) + 1
      BY <3>1, <2>2, FS_AddElement
    <3>. QED
      BY <2>1, <2>2, <2>3, <3>1, <3>2, <1>1, <1>2 DEF RankShape
  <2>4. CASE g # h
    <3>1. Ranked(g)' = Ranked(g)
      BY <2>4, <1>1, <1>2 DEF Ranked, RankShape
    <3>. QED
      BY <2>1, <2>2, <2>4, <3>1, <1>1, <1>2 DEF RankShape
  <2>. QED
    BY <2>3, <2>4
<1>7. Named'
  <2>. SUFFICES ASSUME NEW q \in Group
                PROVE  /\ pc'[q] # "start" =>
                            \E i \in DOMAIN nodenames : nodenames[i] = HostOf[q]
                       /\ rank'[q] = NoRank <=> pc'[q] \in {"start", "connected"}
    BY <1>1 DEF Named
  <2>1. CASE q = p
    <3>1. pc'[q] = "ranked" /\ rank'[q] = new
      BY <2>1, <1>1, <1>2 DEF RankShape
    <3>2. \E i \in DOMAIN nodenames : nodenames[i] = HostOf[q]
      BY <2>1, <1>1 DEF RInv, Named
    <3>. QED
      BY <3>1, <3>2, <1>3
  <2>2. CASE q # p
    <3>1. pc'[q] = pc[q] /\ rank'[q] = rank[q]
      BY <2>2, <1>1, <1>2 DEF RankShape
    <3>. QED
      BY <3>1 DEF RInv, Named
  <2>. QED
    BY <2>1, <2>2
<1>8. Placed'
  <2>. SUFFICES ASSUME NEW q \in Group, rank'[q] # NoRank
                PROVE  /\ Offset(HostOf[q]) <= rank'[q]
                       /\ rank'[q] < Offset(HostOf[q]) + local_ranks'[HostOf[q]]
    BY <1>4 DEF Placed
  <2>1. CASE q = p
    BY <2>1, <1>1, <1>2, <1>3 DEF RankShape, new
  <2>2. CASE q # p
    <3>1. rank'[q] = rank[q] /\ rank[q] \in Nat
      BY <2>2, <1>1, <1>2 DEF RankShape
    <3>2. Offset(HostOf[q]) <= rank[q] /\ rank[q] < Offset(HostOf[q]) + local_ranks[HostOf[q]]
      BY <3>1 DEF RInv, Placed
    <3>3. Offset(HostOf[q]) \in Nat
      BY <3>1, OffsetNat DEF RInv, Named
    <3>4. /\ HostOf[q] \in Hosts /\ local_ranks[HostOf[q]] \in Nat
          /\ local_ranks'[HostOf[q]] \in {local_ranks[HostOf[q]], local_ranks[HostOf[q]] + 1}
      BY <1>1, <1>2, HostAssumption DEF RankShape
    <3>. QED
      BY <3>1, <3>2, <3>3, <3>4
  <2>. QED
    BY <2>1, <2>2
<1>9. ASSUME NEW q \in Group, q # p, rank[q] # NoRank PROVE rank[q] # new
  <2>1. /\ Offset(HostOf[q]) <= rank[q] /\ Offset(HostOf[q]) \in Nat
        /\ rank[q] < Offset(HostOf[q]) + local_ranks[HostOf[q]]
        /\ rank[q] \in Nat
    BY <1>9, <1>2, OffsetNat DEF RInv, Placed, Named, RankShape
  <2>2. CASE HostOf[q] = h
    BY <2>1, <2>2, <1>3 DEF new
  <2>3. CASE HostOf[q] # h
    <3>1. PICK i \in DOMAIN nodenames : nodenames[i] = HostOf[q]
      BY <1>9 DEF RInv, Named
    <3>2. PICK j \in DOMAIN nodenames : nodenames[j] = h
      BY <1>1 DEF RInv, Named
    <3>3. i < j \/ j < i
      BY <2>3, <3>1, <3>2, <1>2 DEF RankShape
    <3>4. /\ HostOf[q] \in Hosts
          /\ local_ranks[HostOf[q]] <= local_worldsizes[HostOf[q]]
          /\ local_worldsizes[HostOf[q]] \in Nat /\ local_ranks[HostOf[q]] \in Nat
      BY HostAssumption, NoMoreThanSize
    <3>5. CASE i < j
      <4>1. Offset(HostOf[q]) + local_worldsizes[HostOf[q]] <= Offset(h)
        BY <3>1, <3>2, <3>5, NodesApart
      <4>. QED
        BY <4>1, <3>4, <2>1, <1>3 DEF new
    <3>6. CASE j < i
      <4>1. Offset(h) + local_worldsizes[h] <= Offset(HostOf[q])
        BY <3>1, <3>2, <3>6, NodesApart
      <4>2. local_ranks[h] < local_worldsizes[h] /\ local_worldsizes[h] \in Nat
        <5>1. Ranked(h) \in SUBSET Connected(h) /\ p \in Connected(h) \ Ranked(h)
          BY <1>1, <1>2 DEF Connected, Ranked, RInv, Named
        <5>2. IsFiniteSet(Connected(h)) /\ local_ranks[h] <= local_worldsizes[h]
          BY <1>2, NoMoreThanSize
        <5>3. Cardinality(Ranked(h)) # Cardinality(Connected(h))
          BY <5>1, <5>2, FS_Subset
        <5>. QED
          BY <5>2, <5>3, <1>2 DEF RInv, Tallied, RankShape
      <4>. QED
        BY <4>1, <4>2, <2>1, <1>3 DEF new
    <3>. QED
      BY <3>3, <3>5, <3>6
  <2>. QED
    BY <2>2, <2>3
<1>10. Distinct'
  <2>. SUFFICES ASSUME NEW q \in Group, NEW r \in Group, q # r, rank'[q] # NoRank
                PROVE  rank'[q] # rank'[r]
    BY DEF Distinct
  <2>1. rank'[p] = new /\ \A s \in Group \ {p} : rank'[s] = rank[s]
    BY <1>1, <1>2 DEF RankShape
  <2>. QED
    BY <2>1, <1>3, <1>9 DEF RInv, Distinct
<1>. QED
  BY <1>5, <1>6, <1>7, <1>8, <1>10 DEF RInv
\* The counters, the list of nodes and the ranks agree in every state.
THEOREM RanksInductive == Spec => [](IInv /\ RInv)
<1>1. Init => RInv
  <2>. SUFFICES ASSUME Init PROVE RInv
    OBVIOUS
  <2>1. RankShape
    BY DEF Init, RankShape, IsInjective
  <2>2. Tallied
    <3>1. \A h : Connected(h) = {} /\ Ranked(h) = {}
      BY DEF Init, Connected, Ranked
    <3>. QED
      BY <3>1, FS_EmptySet DEF Init, Tallied
  <2>3. Named /\ Placed /\ Distinct
    BY DEF Init, Named, Placed, Distinct
  <2>. QED
    BY <2>1, <2>2, <2>3 DEF RInv
<1>2. ASSUME IInv, RInv, IInv', NEW p \in Group, Step(p) PROVE RInv'
  <2>1. CASE Connect(p)
    BY <1>2, <2>1, ConnectRInv
  <2>2. CASE GetRank(p)
    BY <1>2, <2>2, GetRankRInv
  <2>3. CASE CallBarrier(p) \/ BarrierThread(p)
    <3>1. UNCHANGED <<nodeVars, pc, rank>>
      BY <2>3 DEF CallBarrier, BarrierThread, procVars
    <3>. QED
      BY <3>1, <1>2, RanksKept DEF IInv, Shape
  <2>4. CASE CommitHostName(p) \/ GetHostName(p) \/ CommitDeviceInfo(p) \/ GetDeviceInfo(p)
    <3>1. /\ UNCHANGED nodeVars /\ UNCHANGED rank
          /\ \/ UNCHANGED pc
             \/ /\ pc[p] \in {"ranked", "gathering", "mapping"}
                /\ \E place \in {"gathering", "mapping", "mapped", "aborted"} :
                     pc' = [pc EXCEPT ![p] = place]
      BY <2>4 DEF CommitHostName, GetHostName, CommitDeviceInfo, GetDeviceInfo, GoTo
    <3>2. pc \in [Group -> Stations] /\ pc' \in [Group -> Stations]
      BY <1>2 DEF IInv, Shape
    <3>3. \A q \in Group : /\ pc'[q] = "start" <=> pc[q] = "start"
                           /\ pc'[q] = "connected" <=> pc[q] = "connected"
      BY <3>1, <3>2
    <3>. QED
      BY <3>1, <3>2, <3>3, <1>2, RanksKept
  <2>. QED
    BY <1>2, <2>1, <2>2, <2>3, <2>4 DEF Step
<1>3. ASSUME IInv, RInv, UNCHANGED vars PROVE RInv'
  BY <1>3, RanksKept DEF vars, nodeVars, procVars, IInv, Shape
<1>4. IInv /\ RInv /\ IInv' /\ [Next]_vars => RInv'
  BY <1>2, <1>3 DEF Next, Finished
<1>. QED
  BY <1>1, <1>4, Inductive, PTL DEF Spec

\* GetRank gives no rank twice and numbers the nodes in the order of their first
\* Connect, whatever the order of the calls, for any processes and hosts.
THEOREM RanksOrdered == Spec => []RanksFollowNodes
<1>1. ASSUME IInv, RInv PROVE RanksFollowNodes
  <2>. SUFFICES ASSUME NEW p \in Group, NEW q \in Group
                PROVE  /\ p # q /\ rank[p] # NoRank => rank[p] # rank[q]
                       /\ HostOf[p] # HostOf[q] /\ rank[p] # NoRank /\ rank[q] # NoRank =>
                            (rank[p] < rank[q] <=>
                             \E i, j \in DOMAIN nodenames : /\ i < j
                                                            /\ nodenames[i] = HostOf[p]
                                                            /\ nodenames[j] = HostOf[q])
    BY DEF RanksFollowNodes
  <2>1. p # q /\ rank[p] # NoRank => rank[p] # rank[q]
    BY <1>1 DEF RInv, Distinct
  \* The process whose node comes first has the lower rank.
  <2>2. ASSUME NEW s \in Group, NEW t \in Group, rank[s] # NoRank, rank[t] # NoRank,
               NEW i \in DOMAIN nodenames, NEW j \in DOMAIN nodenames, i < j,
               nodenames[i] = HostOf[s], nodenames[j] = HostOf[t]
        PROVE  rank[s] < rank[t] /\ rank[s] \in Nat /\ rank[t] \in Nat
    <3>1. Offset(HostOf[s]) + local_worldsizes[HostOf[s]] <= Offset(HostOf[t])
      BY <1>1, <2>2, NodesApart
    <3>2. /\ rank[s] < Offset(HostOf[s]) + local_ranks[HostOf[s]]
          /\ Offset(HostOf[t]) <= rank[t]
      BY <1>1, <2>2 DEF RInv, Placed
    <3>3. /\ local_ranks[HostOf[s]] <= local_worldsizes[HostOf[s]]
          /\ local_ranks[HostOf[s]] \in Nat /\ local_worldsizes[HostOf[s]] \in Nat
      BY <1>1, HostAssumption, NoMoreThanSize
    <3>4. Offset(HostOf[s]) \in Nat /\ Offset(HostOf[t]) \in Nat
      BY <1>1, <2>2, OffsetNat DEF RInv, Named
    <3>5. rank[s] \in Nat /\ rank[t] \in Nat
      BY <1>1, <2>2 DEF RInv, RankShape
    <3>. QED
      BY <3>1, <3>2, <3>3, <3>4, <3>5
  <2>3. ASSUME HostOf[p] # HostOf[q], rank[p] # NoRank, rank[q] # NoRank
        PROVE  rank[p] < rank[q] <=>
                 \E i, j \in DOMAIN nodenames : /\ i < j
                                                /\ nodenames[i] = HostOf[p]
                                                /\ nodenames[j] = HostOf[q]
    <3>1. PICK i \in DOMAIN nodenames : nodenames[i] = HostOf[p]
      BY <1>1, <2>3 DEF RInv, Named
    <3>2. PICK j \in DOMAIN nodenames : nodenames[j] = HostOf[q]
      BY <1>1, <2>3 DEF RInv, Named
    <3>3. i < j \/ j < i
      BY <3>1, <3>2, <2>3, <1>1 DEF RInv, RankShape
    <3>4. CASE i < j
      BY <2>2, <2>3, <3>1, <3>2, <3>4
    <3>5. CASE j < i
      <4>1. rank[q] < rank[p] /\ rank[q] \in Nat /\ rank[p] \in Nat
        BY <2>2, <2>3, <3>1, <3>2, <3>5
      <4>2. ASSUME NEW k \in DOMAIN nodenames, NEW l \in DOMAIN nodenames, k < l,
                   nodenames[k] = HostOf[p], nodenames[l] = HostOf[q]
            PROVE  FALSE
        <5>1. rank[p] < rank[q]
          BY <2>2, <2>3, <4>2
        <5>. QED
          BY <4>1, <5>1
      <4>. QED
        BY <4>1, <4>2
    <3>. QED
      BY <3>3, <3>4, <3>5
  <2>. QED
    BY <2>1, <2>3
<1>. QED
  BY <1>1, RanksInductive, PTL
-----------------------------------------------------------------------------
(***************************************************************************)
(* The exchange of host names and devices.  Every table entry belongs to   *)
(* the process of that rank, no entry is written twice, and what a process *)
(* has read of the tables is still in them.                                *)
(***************************************************************************)
DeviceInfos == [index : Nat, multiplex : Nat]

\* The processes that have committed a device.
Holders == {p \in Group : pc[p] \in {"mapping", "mapped"}}

OwnHostName == \A q \in Committers : /\ rank[q] \in DOMAIN hostnames
                                     /\ hostnames[rank[q]] = HostOf[q]

Copied == \A p \in Group : \A i \in 1..Len(gathered[p]) :
            gathered[p][i] = hostnames[i - 1]

OwnDevice ==
  /\ \A q \in Holders : /\ rank[q] \in DOMAIN deviceinfos
                        /\ deviceinfos[rank[q]] = LocalDevice(q)
  /\ \A r \in DOMAIN deviceinfos : /\ deviceinfos[r] \in DeviceInfos
                                   /\ \E q \in Holders : rank[q] = r

\* What a process has read of the devices.
Listing(p) ==
  /\ p \notin Holders => devices[p] = << >>
  /\ pc[p] = "mapping" => Len(devices[p]) < Size
  /\ pc[p] = "mapped" => Len(devices[p]) = Size
  /\ \A i \in 1..Len(devices[p]) :
       /\ i - 1 \in DOMAIN deviceinfos
       /\ devices[p][i] = [host |-> gathered[p][i], info |-> deviceinfos[i - 1]]

Mapping == /\ devices \in [Group -> Seq([host : Hosts, info : DeviceInfos])]
           /\ \A p \in Group : Listing(p)

EInv == OwnHostName /\ Copied /\ OwnDevice /\ Mapping /\ NoAssertFails

LEMMA ModSmall ==
  ASSUME NEW x \in Nat, NEW n \in Nat, x < n
  PROVE  x % n = x /\ x \div n \in Nat
  OBVIOUS

LEMMA SizePositive == Size \in Nat /\ Size > 0
<1>1. Size # 0
  BY GroupAssumption, FS_EmptySet DEF Size
<1>. QED
  BY <1>1, SizeNat

\* The local rank of a process is at most its rank, so it is a device index.
LEMMA LocalRankBound ==
  ASSUME NEW p \in Group, rank[p] \in 0..(Size - 1)
  PROVE  /\ LocalRank(p) \in Nat /\ LocalRank(p) < Size
         /\ LocalDevice(p).index = LocalRank(p)
         /\ LocalDevice(p) \in DeviceInfos
<1>. DEFINE S == {i \in 1..rank[p] : gathered[p][i] = HostOf[p]}
<1>1. IsFiniteSet(1..rank[p]) /\ Cardinality(1..rank[p]) = rank[p]
  <2>1. rank[p] \in Nat
    BY SizePositive
  <2>2. /\ IsFiniteSet(1..rank[p])
        /\ Cardinality(1..rank[p]) = IF 1 > rank[p] THEN 0 ELSE rank[p] - 1 + 1
    BY <2>1, FS_Interval
  <2>. QED
    BY <2>1, <2>2
<1>2. S \in SUBSET (1..rank[p])
  OBVIOUS
<1>3. Cardinality(S) \in Nat /\ Cardinality(S) <= rank[p]
  <2>. HIDE DEF S
  <2>1. IsFiniteSet(S) /\ Cardinality(S) <= Cardinality(1..rank[p])
    BY <1>1, <1>2, FS_Subset
  <2>2. Cardinality(S) \in Nat
    BY <2>1, FS_CardinalityType
  <2>. QED
    BY <2>1, <2>2, <1>1
<1>4. LocalRank(p) \in Nat /\ LocalRank(p) < Size
  BY <1>3, SizePositive DEF LocalRank
<1>5. LocalRank(p) % Size = LocalRank(p) /\ LocalRank(p) \div Size \in Nat
  BY <1>4, SizePositive, ModSmall
<1>. QED
  BY <1>4, <1>5 DEF LocalDevice, DeviceInfos

\* A process with all the host names has every process's own at its rank.
LEMMA FullTable ==
  ASSUME IInv, EInv, NEW p \in Group, Len(gathered[p]) = Size
  PROVE  \A q \in Group : /\ rank[q] \in 0..(Size - 1)
                          /\ gathered[p][rank[q] + 1] = HostOf[q]
<1>1. Committers = Group /\ \A q \in Group : rank[q] \in 0..(Size - 1)
  BY ReadersWaitForAll
<1>2. ASSUME NEW q \in Group PROVE gathered[p][rank[q] + 1] = HostOf[q]
  <2>1. rank[q] + 1 \in 1..Size /\ (rank[q] + 1) - 1 = rank[q]
    BY <1>1, SizePositive
  <2>2. gathered[p][rank[q] + 1] = hostnames[(rank[q] + 1) - 1]
    BY <2>1 DEF EInv, Copied
  <2>. QED
    BY <1>1, <2>1, <2>2 DEF EInv, OwnHostName
<1>. QED
  BY <1>1, <1>2

LEMMA SameTable ==
  ASSUME IInv, EInv, NEW p \in Group, NEW q \in Group,
         Len(gathered[p]) = Size, Len(gathered[q]) = Size
  PROVE  gathered[p] = gathered[q]
<1>1. gathered[p] \in Seq(Hosts) /\ gathered[q] \in Seq(Hosts)
  BY DEF IInv, Shape
<1>2. \A i \in 1..Size : gathered[p][i] = gathered[q][i]
  BY DEF EInv, Copied
<1>. QED
  BY <1>1, <1>2

LEMMA HoldersHaveRead ==
  ASSUME IInv, NEW p \in Holders
  PROVE  p \in Group /\ p \in Committers /\ Len(gathered[p]) = Size
  BY DEF IInv, Read, Holders, Readers, Committers

\* On one host the devices are numbered in the order of the ranks.
LEMMA LocalRanksGrow ==
  ASSUME IInv, EInv, NEW p \in Group, NEW q \in Group, HostOf[p] = HostOf[q],
         rank[p] < rank[q], Len(gathered[p]) = Size, Len(gathered[q]) = Size
  PROVE  LocalRank(p) < LocalRank(q)
<1>. DEFINE S == {i \in 1..rank[p] : gathered[p][i] = HostOf[p]}
            T == {i \in 1..rank[q] : gathered[q][i] = HostOf[q]}
<1>1. /\ rank[p] \in Nat /\ rank[q] \in Nat
      /\ gathered[p][rank[p] + 1] = HostOf[p] /\ gathered[p] = gathered[q]
  BY FullTable, SameTable, SizePositive
<1>2. S \in SUBSET T
  BY <1>1
<1>3. rank[p] + 1 \in T /\ rank[p] + 1 \notin S
  BY <1>1
<1>4. IsFiniteSet(T)
  <2>1. IsFiniteSet(1..rank[q])
    <3>1. 1 \in Int /\ rank[q] \in Int
      BY <1>1
    <3>. QED
      BY <3>1, FS_Interval
  <2>2. T \in SUBSET (1..rank[q])
    OBVIOUS
  <2>. HIDE DEF T
  <2>. QED
    BY <2>1, <2>2, FS_Subset
<1>5. /\ Cardinality(S) \in Nat /\ Cardinality(T) \in Nat
      /\ Cardinality(S) <= Cardinality(T) /\ Cardinality(S) # Cardinality(T)
  <2>. HIDE DEF S, T
  <2>1. /\ IsFiniteSet(S) /\ Cardinality(S) <= Cardinality(T)
        /\ Cardinality(T) = Cardinality(S) => T = S
    BY <1>2, <1>4, FS_Subset
  <2>2. T # S
    BY <1>3
  <2>. QED
    BY <1>4, <2>1, <2>2, FS_CardinalityType
<1>. QED
  BY <1>5 DEF LocalRank

\* Two devices committed from one host differ.
LEMMA DevicesApart ==
  ASSUME IInv, EInv, NEW p \in Group, Len(gathered[p]) = Size,
         NEW r \in DOMAIN deviceinfos, NEW s \in DOMAIN deviceinfos, r < s,
         gathered[p][r + 1] = gathered[p][s + 1]
  PROVE  deviceinfos[r].index < deviceinfos[s].index
<1>1. PICK q \in Holders : rank[q] = r
  BY DEF EInv, OwnDevice
<1>2. PICK t \in Holders : rank[t] = s
  BY DEF EInv, OwnDevice
<1>3. /\ q \in Group /\ Len(gathered[q]) = Size
      /\ t \in Group /\ Len(gathered[t]) = Size
  BY <1>1, <1>2, HoldersHaveRead
<1>4. HostOf[q] = HostOf[t] /\ rank[q] < rank[t]
  BY <1>1, <1>2, <1>3, FullTable
<1>5. LocalRank(q) < LocalRank(t)
  BY <1>3, <1>4, LocalRanksGrow
<1>6. LocalDevice(q).index = LocalRank(q) /\ LocalDevice(t).index = LocalRank(t)
  BY <1>3, FullTable, LocalRankBound
<1>7. deviceinfos[r] = LocalDevice(q) /\ deviceinfos[s] = LocalDevice(t)
  BY <1>1, <1>2 DEF EInv, OwnDevice
<1>. QED
  BY <1>5, <1>6, <1>7
-----------------------------------------------------------------------------
\* Steps of processes that have no entry yet, and of the barrier.
LEMMA QuietEInv ==
  ASSUME IInv, EInv, NEW p \in Group,
         UNCHANGED <<tableVars, gathered, devices>>,
         \A q \in Committers : rank'[q] = rank[q],
         \/ UNCHANGED pc
         \/ /\ pc[p] \in {"start", "connected"}
            /\ \E place \in {"connected", "ranked"} : pc' = [pc EXCEPT ![p] = place]
  PROVE  EInv'
<1>1. /\ Committers' = Committers /\ Holders' = Holders
      /\ \A q \in Group : /\ pc'[q] = "mapping" <=> pc[q] = "mapping"
                          /\ pc'[q] = "mapped" <=> pc[q] = "mapped"
                          /\ pc'[q] = "aborted" <=> pc[q] = "aborted"
  BY DEF Committers, Holders, IInv, Shape
<1>2. \A q \in Holders : q \in Committers /\ rank'[q] = rank[q]
  BY DEF Holders, Committers
<1>3. \A q \in Holders : LocalDevice(q)' = LocalDevice(q)
  BY <1>2 DEF LocalDevice, LocalRank
<1>4. OwnHostName' /\ Copied'
  BY <1>1 DEF EInv, OwnHostName, Copied, tableVars
<1>5. OwnDevice'
  BY <1>1, <1>2, <1>3 DEF EInv, OwnDevice, tableVars
<1>6. Mapping'
  BY <1>1 DEF EInv, Mapping, Listing, tableVars
<1>7. NoAssertFails'
  BY <1>1 DEF EInv, NoAssertFails
<1>. QED
  BY <1>4, <1>5, <1>6, <1>7 DEF EInv

\* A new entry: no other process has its rank.
LEMMA CommitHostNameEInv ==
  ASSUME IInv, RInv, EInv, NEW p \in Group, CommitHostName(p)
  PROVE  EInv'
<1>1. /\ pc[p] = "ranked" /\ pc' = [pc EXCEPT ![p] = "gathering"]
      /\ hostnames' = Put(hostnames, rank[p], HostOf[p])
      /\ UNCHANGED <<deviceinfos, rank, gathered, devices>>
  BY DEF CommitHostName, GoTo
<1>2. /\ Committers' = Committers \cup {p} /\ Holders' = Holders
      /\ p \notin Committers
      /\ \A q \in Group : /\ pc'[q] = "mapping" <=> pc[q] = "mapping"
                          /\ pc'[q] = "mapped" <=> pc[q] = "mapped"
                          /\ pc'[q] = "aborted" <=> pc[q] = "aborted"
  BY <1>1 DEF Committers, Holders, IInv, Shape
<1>3. rank[p] \notin DOMAIN hostnames
  <2>. SUFFICES ASSUME rank[p] \in DOMAIN hostnames PROVE FALSE
    OBVIOUS
  <2>1. PICK q \in Committers : rank[q] = rank[p]
    BY DEF IInv, Committed
  <2>2. q # p /\ q \in Group /\ rank[p] # NoRank
    BY <1>1, <1>2, <2>1 DEF Committers, RInv, Named
  <2>. QED
    BY <2>1, <2>2 DEF RInv, Distinct
<1>4. /\ DOMAIN hostnames' = DOMAIN hostnames \cup {rank[p]}
      /\ hostnames'[rank[p]] = HostOf[p]
      /\ \A r \in DOMAIN hostnames : hostnames'[r] = hostnames[r]
  BY <1>1, <1>3 DEF Put
<1>5. OwnHostName'
  BY <1>1, <1>2, <1>4 DEF EInv, OwnHostName
<1>6. Copied'
  <2>. SUFFICES ASSUME NEW q \in Group, NEW i \in 1..Len(gathered[q])
                PROVE  gathered[q][i] = hostnames'[i - 1]
    BY <1>1 DEF Copied
  <2>1. i - 1 \in DOMAIN hostnames
    <3>1. i - 1 \in 0..(Len(gathered[q]) - 1)
      BY DEF IInv, Shape
    <3>. QED
      BY <3>1 DEF IInv, Read
  <2>. QED
    BY <2>1, <1>4 DEF EInv, Copied
<1>7. OwnDevice'
  <2>1. \A q \in Group : LocalDevice(q)' = LocalDevice(q)
    BY <1>1 DEF LocalDevice, LocalRank
  <2>. QED
    BY <2>1, <1>1, <1>2 DEF EInv, OwnDevice, Holders
<1>8. Mapping' /\ NoAssertFails'
  BY <1>1, <1>2 DEF EInv, Mapping, Listing, NoAssertFails
<1>. QED
  BY <1>5, <1>6, <1>7, <1>8 DEF EInv

LEMMA GetHostNameEInv ==
  ASSUME IInv, EInv, NEW p \in Group, GetHostName(p)
  PROVE  EInv'
<1>. DEFINE r == Len(gathered[p])
<1>1. /\ pc[p] = "gathering" /\ r \in DOMAIN hostnames
      /\ gathered' = [gathered EXCEPT ![p] = Append(gathered[p], hostnames[r])]
      /\ UNCHANGED <<pc, rank, hostnames, deviceinfos, devices>>
  BY DEF GetHostName, tableVars
<1>2. /\ gathered[p] \in Seq(Hosts) /\ r \in Nat /\ hostnames[r] \in Hosts
      /\ gathered'[p] = Append(gathered[p], hostnames[r])
      /\ \A q \in Group \ {p} : gathered'[q] = gathered[q]
  BY <1>1 DEF IInv, Shape, Committed
<1>3. p \notin Holders /\ Holders \subseteq Group /\ Holders' = Holders
  BY <1>1 DEF Holders
<1>4. OwnHostName' /\ NoAssertFails'
  BY <1>1 DEF EInv, OwnHostName, NoAssertFails, Committers
<1>5. Copied'
  <2>. SUFFICES ASSUME NEW q \in Group, NEW i \in 1..Len(gathered'[q])
                PROVE  gathered'[q][i] = hostnames[i - 1]
    BY <1>1 DEF Copied
  <2>1. CASE q # p
    BY <2>1, <1>2 DEF EInv, Copied
  <2>2. CASE q = p
    <3>1. /\ i \in 1..(r + 1)
          /\ gathered'[p][i] = IF i = r + 1 THEN hostnames[r] ELSE gathered[p][i]
      BY <2>2, <1>2
    <3>2. CASE i = r + 1
      <4>1. i - 1 = r
        BY <3>2, <1>2
      <4>. QED
        BY <2>2, <3>1, <3>2, <4>1
    <3>3. CASE i # r + 1
      <4>1. i \in 1..Len(gathered[p])
        BY <3>1, <3>3, <1>2
      <4>2. gathered[p][i] = hostnames[i - 1]
        BY <4>1 DEF EInv, Copied
      <4>. QED
        BY <2>2, <3>1, <3>3, <4>2
    <3>. QED
      BY <3>2, <3>3
  <2>. QED
    BY <2>1, <2>2
<1>6. OwnDevice'
  <2>1. \A q \in Holders : LocalDevice(q)' = LocalDevice(q)
    BY <1>1, <1>2, <1>3 DEF LocalDevice, LocalRank
  <2>. QED
    BY <2>1, <1>1, <1>3 DEF EInv, OwnDevice
<1>7. Mapping'
  <2>. SUFFICES ASSUME NEW q \in Group PROVE Listing(q)'
    BY <1>1 DEF EInv, Mapping
  <2>1. Listing(q) /\ pc' = pc /\ devices' = devices /\ deviceinfos' = deviceinfos
    BY <1>1 DEF EInv, Mapping
  <2>2. CASE q = p
    <3>1. devices[p] = << >> /\ pc[p] = "gathering"
      BY <1>1, <1>3, <2>1, <2>2 DEF Listing
    <3>2. 1..Len(devices[p]) = {}
      BY <3>1
    <3>. QED
      BY <2>1, <2>2, <3>1, <3>2 DEF Listing
  <2>3. CASE q # p
    BY <2>1, <2>3, <1>2, <1>3 DEF Listing
  <2>. QED
    BY <2>2, <2>3
<1>. QED
  BY <1>4, <1>5, <1>6, <1>7 DEF EInv

\* The entry at a process's own rank is its own, so it goes on; its device gets
\* an entry that no other process writes.
LEMMA CommitDeviceInfoEInv ==
  ASSUME IInv, RInv, EInv, NEW p \in Group, CommitDeviceInfo(p)
  PROVE  EInv'
<1>1. pc[p] = "gathering" /\ Len(gathered[p]) = Size
  BY DEF CommitDeviceInfo, Gathered
<1>2. rank[p] \in 0..(Size - 1) /\ gathered[p][rank[p] + 1] = HostOf[p]
  BY <1>1, FullTable
<1>3. /\ pc' = [pc EXCEPT ![p] = "mapping"]
      /\ deviceinfos' = Put(deviceinfos, rank[p], LocalDevice(p))
      /\ UNCHANGED <<hostnames, rank, gathered, devices>>
  BY <1>2 DEF CommitDeviceInfo, GoTo
<1>4. /\ Committers' = Committers /\ Holders' = Holders \cup {p} /\ p \notin Holders
      /\ \A q \in Group \ {p} : pc'[q] = pc[q]
      /\ pc'[p] = "mapping"
  BY <1>1, <1>3 DEF Committers, Holders, IInv, Shape
<1>5. rank[p] \notin DOMAIN deviceinfos
  <2>. SUFFICES ASSUME rank[p] \in DOMAIN deviceinfos PROVE FALSE
    OBVIOUS
  <2>1. PICK q \in Holders : rank[q] = rank[p]
    BY DEF EInv, OwnDevice
  <2>2. q # p /\ q \in Group /\ rank[p] # NoRank
    BY <1>1, <1>4, <2>1 DEF Holders, RInv, Named
  <2>. QED
    BY <2>1, <2>2 DEF RInv, Distinct
<1>6. /\ DOMAIN deviceinfos' = DOMAIN deviceinfos \cup {rank[p]}
      /\ deviceinfos'[rank[p]] = LocalDevice(p)
      /\ \A r \in DOMAIN deviceinfos : deviceinfos'[r] = deviceinfos[r]
  BY <1>3, <1>5 DEF Put
<1>7. OwnHostName' /\ Copied'
  BY <1>3, <1>4 DEF EInv, OwnHostName, Copied
<1>8. OwnDevice'
  <2>1. \A q \in Group : LocalDevice(q)' = LocalDevice(q)
    BY <1>3 DEF LocalDevice, LocalRank
  <2>2. LocalDevice(p) \in DeviceInfos
    BY <1>2, LocalRankBound
  <2>3. \A q \in Holders' : /\ rank[q] \in DOMAIN deviceinfos'
                            /\ deviceinfos'[rank[q]] = LocalDevice(q)
    BY <1>4, <1>6 DEF EInv, OwnDevice
  <2>4. \A r \in DOMAIN deviceinfos' : /\ deviceinfos'[r] \in DeviceInfos
                                       /\ \E q \in Holders' : rank[q] = r
    BY <1>4, <1>6, <2>2 DEF EInv, OwnDevice
  <2>5. \A q \in Holders' : q \in Group
    BY DEF Holders
  <2>. QED
    BY <1>3, <2>1, <2>3, <2>4, <2>5 DEF OwnDevice
<1>9. Mapping'
  <2>. SUFFICES ASSUME NEW q \in Group PROVE Listing(q)'
    BY <1>3 DEF EInv, Mapping
  <2>1. Listing(q)
    BY DEF EInv, Mapping
  <2>2. CASE q = p
    <3>1. devices[p] = << >> /\ Len(devices[p]) = 0 /\ 1..Len(devices[p]) = {}
      BY <1>4, <2>1, <2>2 DEF Listing
    <3>. QED
      BY <2>2, <3>1, <1>3, <1>4, SizePositive DEF Listing
  <2>3. CASE q # p
    BY <2>1, <2>3, <1>3, <1>4, <1>6 DEF Listing
  <2>. QED
    BY <2>2, <2>3
<1>10. NoAssertFails'
  BY <1>4 DEF EInv, NoAssertFails
<1>. QED
  BY <1>7, <1>8, <1>9, <1>10 DEF EInv

\* A process never meets a device twice, so it goes on.
LEMMA GetDeviceInfoEInv ==
  ASSUME IInv, EInv, NEW p \in Group, GetDeviceInfo(p)
  PROVE  EInv'
<1>. DEFINE r == Len(devices[p])
            device == [host |-> gathered[p][r + 1], info |-> deviceinfos[r]]
            all == Append(devices[p], device)
<1>1. /\ pc[p] = "mapping" /\ r \in DOMAIN deviceinfos
      /\ IF Contains(devices[p], device)
         THEN GoTo(p, "aborted") /\ UNCHANGED devices
         ELSE /\ GoTo(p, IF Gathered(p, all) THEN "mapped" ELSE "mapping")
              /\ devices' = [devices EXCEPT ![p] = all]
      /\ UNCHANGED <<tableVars, rank, gathered>>
  BY DEF GetDeviceInfo
<1>2. /\ p \in Holders /\ Len(gathered[p]) = Size
      /\ devices[p] \in Seq([host : Hosts, info : DeviceInfos])
      /\ r < Size /\ r \in Nat
  <2>1. p \in Holders
    BY <1>1 DEF Holders
  <2>2. Len(gathered[p]) = Size
    BY <2>1, HoldersHaveRead
  <2>3. devices[p] \in Seq([host : Hosts, info : DeviceInfos]) /\ Listing(p)
    BY DEF EInv, Mapping
  <2>4. r \in Nat
    BY <2>3
  <2>. QED
    BY <2>1, <2>2, <2>3, <2>4, <1>1 DEF Listing
<1>3. device \in [host : Hosts, info : DeviceInfos]
  <2>1. r + 1 \in 1..Size
    BY <1>2, SizePositive
  <2>2. gathered[p] \in Seq(Hosts)
    BY DEF IInv, Shape
  <2>3. gathered[p][r + 1] \in Hosts
    BY <2>1, <2>2, <1>2
  <2>4. deviceinfos[r] \in DeviceInfos
    BY <1>1 DEF EInv, OwnDevice
  <2>. QED
    BY <2>3, <2>4
<1>4. ~Contains(devices[p], device)
  <2>. SUFFICES ASSUME NEW i \in 1..Len(devices[p]), devices[p][i] = device PROVE FALSE
    BY DEF Contains
  <2>1. /\ i - 1 \in DOMAIN deviceinfos
        /\ devices[p][i] = [host |-> gathered[p][i], info |-> deviceinfos[i - 1]]
    BY DEF EInv, Mapping, Listing
  <2>2. gathered[p][i] = gathered[p][r + 1] /\ deviceinfos[i - 1] = deviceinfos[r]
    BY <2>1
  <2>3. i - 1 < r /\ (i - 1) + 1 = i
    BY <1>2
  <2>4. deviceinfos[i - 1].index < deviceinfos[r].index
    <3>1. gathered[p][(i - 1) + 1] = gathered[p][r + 1]
      BY <2>2, <2>3
    <3>. HIDE DEF r, device, all
    <3>. QED
      BY <1>1, <1>2, <2>1, <2>3, <3>1, DevicesApart
  <2>5. deviceinfos[r].index \in Nat
    BY <1>1 DEF EInv, OwnDevice, DeviceInfos
  <2>. QED
    BY <2>2, <2>4, <2>5
<1>. HIDE DEF device
<1>5. /\ pc' = [pc EXCEPT ![p] = IF Len(all) = Size THEN "mapped" ELSE "mapping"]
      /\ devices' = [devices EXCEPT ![p] = all]
      /\ UNCHANGED <<hostnames, deviceinfos, rank, gathered>>
  BY <1>1, <1>4 DEF GoTo, Gathered, tableVars
<1>6. /\ Committers' = Committers /\ Holders' = Holders
      /\ \A q \in Group \ {p} : pc'[q] = pc[q]
      /\ pc'[p] = IF Len(all) = Size THEN "mapped" ELSE "mapping"
  BY <1>1, <1>5 DEF Committers, Holders, IInv, Shape
<1>7. OwnHostName' /\ Copied'
  BY <1>5, <1>6 DEF EInv, OwnHostName, Copied
<1>8. OwnDevice'
  <2>1. \A q \in Holders : LocalDevice(q)' = LocalDevice(q)
    BY <1>5 DEF LocalDevice, LocalRank
  <2>. QED
    BY <2>1, <1>5, <1>6 DEF EInv, OwnDevice
<1>9. NoAssertFails'
  BY <1>6 DEF EInv, NoAssertFails
<1>10. /\ Len(all) = r + 1 /\ all \in Seq([host : Hosts, info : DeviceInfos])
       /\ all[r + 1] = device
       /\ \A i \in 1..r : all[i] = devices[p][i]
  BY <1>2, <1>3
<1>11. Mapping'
  <2>1. ASSUME NEW q \in Group PROVE Listing(q)'
    <3>1. CASE q = p
      <4>1. devices'[p] = all
        BY <1>5 DEF EInv, Mapping
      <4>2. ASSUME NEW i \in 1..(r + 1)
            PROVE  /\ i - 1 \in DOMAIN deviceinfos
                   /\ all[i] = [host |-> gathered[p][i], info |-> deviceinfos[i - 1]]
        <5>1. CASE i = r + 1
          <6>1. i - 1 = r
            BY <5>1, <1>2
          <6>. QED
            BY <5>1, <6>1, <1>1, <1>10 DEF device
        <5>2. CASE i # r + 1
          <6>1. i \in 1..r
            BY <5>2, <1>2
          <6>. QED
            BY <6>1, <1>10 DEF EInv, Mapping, Listing
        <5>. QED
          BY <5>1, <5>2
      <4>3. /\ pc'[p] = "mapping" => Len(all) < Size
            /\ pc'[p] = "mapped" => Len(all) = Size
        BY <1>2, <1>6, <1>10, SizePositive
      <4>. HIDE DEF all
      <4>. QED
        BY <3>1, <4>1, <4>2, <4>3, <1>2, <1>5, <1>6, <1>10 DEF Listing
    <3>2. CASE q # p
      <4>1. devices'[q] = devices[q] /\ Listing(q)
        BY <3>2, <1>5 DEF EInv, Mapping
      <4>. QED
        BY <3>2, <4>1, <1>5, <1>6 DEF Listing
    <3>. QED
      BY <3>1, <3>2
  <2>2. devices' \in [Group -> Seq([host : Hosts, info : DeviceInfos])]
    BY <1>5, <1>10 DEF EInv, Mapping
  <2>. QED
    BY <2>1, <2>2 DEF Mapping
<1>. QED
  BY <1>7, <1>8, <1>9, <1>11 DEF EInv
LEMMA InitEInv == Init => EInv
<1>. SUFFICES ASSUME Init PROVE EInv
  OBVIOUS
<1>1. OwnHostName /\ OwnDevice /\ NoAssertFails
  BY DEF Init, OwnHostName, Committers, OwnDevice, Holders, NoAssertFails
<1>2. Copied
  <2>1. \A p \in Group : 1..Len(gathered[p]) = {}
    BY DEF Init
  <2>. QED
    BY <2>1 DEF Copied
<1>3. Mapping
  <2>1. \A p \in Group : devices[p] = << >> /\ 1..Len(devices[p]) = {}
    BY DEF Init
  <2>. QED
    BY <2>1 DEF Init, Mapping, Listing
<1>. QED
  BY <1>1, <1>2, <1>3 DEF EInv

LEMMA StepEInv ==
  ASSUME IInv, RInv, EInv, NEW p \in Group, Step(p)
  PROVE  EInv'
<1>1. CASE CallBarrier(p) \/ BarrierThread(p)
  <2>1. UNCHANGED <<pc, rank, tableVars, gathered, devices>>
    BY <1>1 DEF CallBarrier, BarrierThread, procVars
  <2>. QED
    BY <2>1, QuietEInv
<1>2. CASE Connect(p)
  BY <1>2, QuietEInv DEF Connect, GoTo
<1>3. CASE GetRank(p)
  <2>1. /\ pc[p] = "connected" /\ pc' = [pc EXCEPT ![p] = "ranked"]
        /\ UNCHANGED <<tableVars, gathered, devices>>
        /\ \A q \in Group \ {p} : rank'[q] = rank[q]
    BY <1>3 DEF GetRank, GoTo, RInv, RankShape
  <2>2. \A q \in Committers : q \in Group \ {p}
    BY <2>1 DEF Committers
  <2>. QED
    BY <2>1, <2>2, QuietEInv
<1>. QED
  BY <1>1, <1>2, <1>3, CommitHostNameEInv, GetHostNameEInv, CommitDeviceInfoEInv,
     GetDeviceInfoEInv DEF Step

\* Every table entry is the one of the process of that rank, every copy of it
\* is still true, and no assertion of start-up fails.
THEOREM ExchangeInductive == Spec => [](IInv /\ RInv /\ EInv)
<1>1. ASSUME IInv, EInv, UNCHANGED vars PROVE EInv'
  <2>1. UNCHANGED <<pc, rank, tableVars, gathered, devices>>
    BY <1>1 DEF vars, procVars
  <2>2. PICK p \in Group : TRUE
    BY GroupAssumption
  <2>. QED
    BY <1>1, <2>1, <2>2, QuietEInv
<1>2. IInv /\ RInv /\ EInv /\ [Next]_vars => EInv'
  BY <1>1, StepEInv DEF Next, Finished
<1>. QED
  BY <1>2, InitEInv, RanksInductive, PTL DEF Spec

\* Neither "Local hostname mismatched after gathering" nor "Device is
\* duplicated" ever stops a process, for any processes and hosts.
THEOREM NoAbort == Spec => []NoAssertFails
<1>1. EInv => NoAssertFails
  BY DEF EInv
<1>. QED
  BY <1>1, ExchangeInductive, PTL

-----------------------------------------------------------------------------
\* A set of as many numbers below n as there are in 0..n-1 is 0..n-1: the
\* devices of one host, once no two of them have the same number.
LEMMA NumbersFill ==
  ASSUME NEW S, IsFiniteSet(S), NEW f \in [S -> 0..(Cardinality(S) - 1)],
         \A x, y \in S : f[x] = f[y] => x = y
  PROVE  {f[x] : x \in S} = 0..(Cardinality(S) - 1)
<1>. DEFINE T == 0..(Cardinality(S) - 1)
<1>1. Cardinality(S) \in Nat
  BY FS_CardinalityType
<1>2. 0 \in Int /\ Cardinality(S) - 1 \in Int
  BY <1>1
<1>3. /\ IsFiniteSet(T)
      /\ Cardinality(T) = IF 0 > Cardinality(S) - 1 THEN 0 ELSE Cardinality(S) - 1 - 0 + 1
  BY <1>2, FS_Interval
<1>4. Cardinality(S) = Cardinality(T)
  BY <1>1, <1>3
<1>5. f \in Injection(S, T)
  BY DEF Injection, IsInjective
<1>. HIDE DEF T
<1>6. f \in Surjection(S, T)
  BY <1>3, <1>4, <1>5, FS_Injection
<1>7. {f[x] : x \in S} = T
  <2>1. \A x \in S : f[x] \in T
    BY <1>5 DEF Injection
  <2>2. \A t \in T : \E x \in S : f[x] = t
    BY <1>6 DEF Surjection
  <2>. QED
    BY <2>1, <2>2
<1>. QED
  BY <1>7 DEF T

\* The mapping of a mapped process has an entry for every rank.
LEMMA MappedEntries ==
  ASSUME IInv, EInv, NEW p \in Group, pc[p] = "mapped"
  PROVE  /\ Len(gathered[p]) = Size /\ Len(devices[p]) = Size
         /\ DOMAIN devices[p] = 1..Size
         /\ \A i \in 1..Size :
              /\ i - 1 \in DOMAIN deviceinfos
              /\ devices[p][i] = [host |-> gathered[p][i], info |-> deviceinfos[i - 1]]
              /\ devices[p][i].host = gathered[p][i]
              /\ devices[p][i].info = deviceinfos[i - 1]
              /\ devices[p][i].info.index \in Nat
<1>1. p \in Holders /\ Listing(p)
  BY DEF Holders, EInv, Mapping
<1>2. Len(gathered[p]) = Size /\ Len(devices[p]) = Size
  BY <1>1, HoldersHaveRead DEF Listing
<1>3. DOMAIN devices[p] = 1..Size
  BY <1>2 DEF EInv, Mapping
<1>4. ASSUME NEW i \in 1..Size
      PROVE  /\ i - 1 \in DOMAIN deviceinfos
             /\ devices[p][i] = [host |-> gathered[p][i], info |-> deviceinfos[i - 1]]
             /\ devices[p][i].host = gathered[p][i]
             /\ devices[p][i].info = deviceinfos[i - 1]
             /\ devices[p][i].info.index \in Nat
  <2>1. /\ i - 1 \in DOMAIN deviceinfos
        /\ devices[p][i] = [host |-> gathered[p][i], info |-> deviceinfos[i - 1]]
    BY <1>1, <1>2 DEF Listing
  <2>2. deviceinfos[i - 1].index \in Nat
    BY <2>1 DEF EInv, OwnDevice, DeviceInfos
  <2>. QED
    BY <2>1, <2>2
<1>. QED
  BY <1>2, <1>3, <1>4

\* The places in a table at which a host stands.
PlacesOf(table, h) == {i \in 1..Size : table[i] = h}

\* The devices that a mapped process lists for a host are as many as the places
\* of the host in the table, and their numbers run from 0.
LEMMA HostNumbered ==
  ASSUME IInv, EInv, NEW p \in Group, pc[p] = "mapped", NEW h \in Hosts
  PROVE  LET mine == {d \in Range(devices[p]) : d.host = h}
         IN  {d.info.index : d \in mine} = 0..(Cardinality(mine) - 1)
<1>. DEFINE g == gathered[p]
            P == PlacesOf(g, h)
            mine == {d \in Range(devices[p]) : d.host = h}
            at1 == [i \in P |-> devices[p][i]]
<1>1. /\ Len(g) = Size
      /\ \A i \in 1..Size : /\ i - 1 \in DOMAIN deviceinfos
                            /\ devices[p][i].host = g[i]
                            /\ devices[p][i].info = deviceinfos[i - 1]
                            /\ devices[p][i].info.index \in Nat
  BY MappedEntries
<1>2. DOMAIN devices[p] = 1..Size
  BY MappedEntries
<1>3. mine = {devices[p][i] : i \in P}
  <2>1. Range(devices[p]) = {devices[p][i] : i \in 1..Size}
    BY <1>2 DEF Range
  <2>. QED
    BY <2>1, <1>1 DEF PlacesOf
\* Of two places of the host the later one has the higher number.
<1>4. ASSUME NEW i \in P, NEW j \in P, i < j
      PROVE  devices[p][i].info.index < devices[p][j].info.index
  <2>1. /\ i \in 1..Size /\ j \in 1..Size /\ g[i] = g[j]
        /\ i - 1 < j - 1 /\ (i - 1) + 1 = i /\ (j - 1) + 1 = j
    BY <1>4, SizePositive DEF PlacesOf
  <2>2. deviceinfos[i - 1].index < deviceinfos[j - 1].index
    BY <1>1, <2>1, DevicesApart
  <2>. QED
    BY <1>1, <2>1, <2>2
<1>5. \A i \in P : devices[p][i].info.index \in Nat /\ i \in Nat
  <2>. SUFFICES ASSUME NEW i \in P PROVE devices[p][i].info.index \in Nat /\ i \in Nat
    OBVIOUS
  <2>1. i \in 1..Size
    BY DEF PlacesOf
  <2>. QED
    BY <1>1, <2>1
<1>6. IsFiniteSet(P)
  <2>1. 1 \in Int /\ Size \in Int
    BY SizePositive
  <2>2. IsFiniteSet(1..Size) /\ P \in SUBSET (1..Size)
    BY <2>1, FS_Interval DEF PlacesOf
  <2>. HIDE DEF P
  <2>. QED
    BY <2>2, FS_Subset
<1>7. IsFiniteSet(mine) /\ Cardinality(mine) = Cardinality(P)
  <2>1. at1 \in Surjection(P, mine)
    BY <1>3 DEF Surjection
  <2>2. at1 \in Injection(P, mine)
    <3>1. \A i, j \in P : at1[i] = at1[j] => i = j
      <4>. SUFFICES ASSUME NEW i \in P, NEW j \in P, devices[p][i] = devices[p][j], i # j
                    PROVE  FALSE
        OBVIOUS
      <4>1. i < j \/ j < i
        BY <1>5
      <4>2. devices[p][i].info.index \in Nat
        BY <1>5
      <4>. HIDE DEF P
      <4>. QED
        BY <1>4, <4>1, <4>2
    <3>2. at1 \in [P -> mine]
      BY <1>3
    <3>. HIDE DEF at1, P, mine
    <3>. QED
      BY <3>1, <3>2 DEF Injection, IsInjective
  <2>. HIDE DEF at1, P, mine
  <2>. QED
    BY <2>1, <2>2, <1>6, FS_Surjection
\* A number is below the count of the host's places: it counts those before.
<1>8. ASSUME NEW i \in P
      PROVE  devices[p][i].info.index \in 0..(Cardinality(P) - 1)
  <2>1. i \in 1..Size /\ g[i] = h
    BY DEF PlacesOf
  <2>2. PICK q \in Holders : rank[q] = i - 1
    BY <1>1, <2>1 DEF EInv, OwnDevice
  <2>3. q \in Group /\ Len(gathered[q]) = Size
    BY HoldersHaveRead
  <2>4. gathered[q] = g
    BY <1>1, <2>3, SameTable
  <2>5. rank[q] \in 0..(Size - 1) /\ g[rank[q] + 1] = HostOf[q]
    BY <1>1, <2>3, FullTable
  <2>6. HostOf[q] = h /\ rank[q] + 1 = i
    BY <2>1, <2>2, <2>5
  <2>7. devices[p][i].info.index = LocalRank(q) /\ LocalRank(q) \in Nat
    <3>1. deviceinfos[i - 1] = LocalDevice(q)
      BY <2>2 DEF EInv, OwnDevice
    <3>. QED
      BY <3>1, <1>1, <2>1, <2>3, <2>5, LocalRankBound
  <2>. DEFINE before == {k \in 1..rank[q] : gathered[q][k] = HostOf[q]}
  <2>8. before \in SUBSET P /\ i \notin before /\ i \in P
    BY <2>1, <2>4, <2>5, <2>6, SizePositive DEF PlacesOf
  <2>. HIDE DEF before, P
  <2>9. Cardinality(before) <= Cardinality(P) /\ Cardinality(before) # Cardinality(P)
    BY <2>8, <1>6, FS_Subset
  <2>10. LocalRank(q) = Cardinality(before)
    BY DEF before, LocalRank
  <2>11. Cardinality(P) \in Nat
    BY <1>6, FS_CardinalityType
  <2>. QED
    BY <2>7, <2>9, <2>10, <2>11
<1>. DEFINE f == [d \in mine |-> d.info.index]
<1>9. f \in [mine -> 0..(Cardinality(mine) - 1)]
  <2>1. \A d \in mine : d.info.index \in 0..(Cardinality(mine) - 1)
    <3>. SUFFICES ASSUME NEW d \in mine PROVE d.info.index \in 0..(Cardinality(mine) - 1)
      OBVIOUS
    <3>1. PICK i \in P : d = devices[p][i]
      BY <1>3
    <3>. HIDE DEF mine, P
    <3>. QED
      BY <3>1, <1>7, <1>8
  <2>. HIDE DEF mine
  <2>. QED
    BY <2>1
<1>10. \A d, e \in mine : f[d] = f[e] => d = e
  <2>. SUFFICES ASSUME NEW d \in mine, NEW e \in mine, d.info.index = e.info.index
                PROVE  d = e
    OBVIOUS
  <2>1. PICK i \in P : d = devices[p][i]
    BY <1>3
  <2>2. PICK j \in P : e = devices[p][j]
    BY <1>3
  <2>3. i = j \/ i < j \/ j < i
    BY <1>5
  <2>4. d.info.index \in Nat
    BY <2>1, <1>5
  <2>. HIDE DEF P, mine
  <2>. QED
    BY <1>4, <2>1, <2>2, <2>3, <2>4
<1>11. {f[d] : d \in mine} = 0..(Cardinality(mine) - 1)
  <2>. HIDE DEF f, mine
  <2>. QED
    BY <1>7, <1>9, <1>10, NumbersFill
<1>12. {f[d] : d \in mine} = {d.info.index : d \in mine}
  OBVIOUS
<1>. QED
  BY <1>11, <1>12

\* Every process ends with the same rank_to_device_mapping, which holds each
\* process's own device at its rank and numbers the devices of a host from 0,
\* for any processes and hosts.
THEOREM MappingAgreed == Spec => []OneMapping
<1>1. ASSUME IInv, RInv, EInv PROVE OneMapping
  <2>. SUFFICES ASSUME NEW p \in Group, pc[p] = "mapped"
                PROVE  /\ \A q \in Group :
                            /\ pc[q] = "mapped" => devices[p] = devices[q]
                            /\ devices[p][rank[q] + 1] =
                                 [host |-> HostOf[q], info |-> LocalDevice(q)]
                       /\ \A h \in Hosts :
                            LET mine == {d \in Range(devices[p]) : d.host = h}
                            IN  {d.info.index : d \in mine} = 0..(Cardinality(mine) - 1)
    BY DEF OneMapping
  <2>1. ASSUME NEW q \in Group, pc[q] = "mapped"
        PROVE  /\ Len(gathered[q]) = Size /\ Len(devices[q]) = Size
               /\ \A i \in 1..Size :
                    /\ i - 1 \in DOMAIN deviceinfos
                    /\ devices[q][i] = [host |-> gathered[q][i], info |-> deviceinfos[i - 1]]
    BY <1>1, <2>1, MappedEntries
  <2>2. ASSUME NEW q \in Group, pc[q] = "mapped" PROVE devices[p] = devices[q]
    <3>1. gathered[p] = gathered[q]
      BY <1>1, <2>1, <2>2, SameTable
    <3>2. \A i \in 1..Size : devices[p][i] = devices[q][i]
      BY <2>1, <2>2, <3>1
    <3>3. Len(devices[p]) = Size /\ Len(devices[q]) = Size
      BY <2>1, <2>2
    <3>4. /\ devices[p] \in Seq([host : Hosts, info : DeviceInfos])
          /\ devices[q] \in Seq([host : Hosts, info : DeviceInfos])
      BY <1>1 DEF EInv, Mapping
    <3>. QED
      BY <3>2, <3>3, <3>4
  <2>3. ASSUME NEW q \in Group
        PROVE  devices[p][rank[q] + 1] = [host |-> HostOf[q], info |-> LocalDevice(q)]
    <3>1. /\ rank[q] \in 0..(Size - 1) /\ gathered[p][rank[q] + 1] = HostOf[q]
      BY <1>1, <2>1, FullTable
    <3>2. rank[q] + 1 \in 1..Size /\ (rank[q] + 1) - 1 = rank[q]
      BY <3>1, SizePositive
    <3>3. rank[q] \in DOMAIN deviceinfos
      BY <2>1, <3>2
    <3>4. PICK s \in Holders : rank[s] = rank[q]
      BY <1>1, <3>3 DEF EInv, OwnDevice
    <3>5. s = q
      <4>1. s \in Group /\ rank[s] # NoRank
        BY <3>1, <3>4, SizePositive DEF Holders, NoRank
      <4>. QED
        BY <1>1, <3>4, <4>1 DEF RInv, Distinct
    <3>6. deviceinfos[rank[q]] = LocalDevice(q)
      BY <1>1, <3>4, <3>5 DEF EInv, OwnDevice
    <3>. QED
      BY <2>1, <3>1, <3>2, <3>6
  <2>. QED
    BY <1>1, <2>2, <2>3, HostNumbered
<1>. QED
  BY <1>1, ExchangeInductive, PTL
=============================================================================
