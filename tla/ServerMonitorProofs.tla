------------------------ MODULE ServerMonitorProofs ------------------------
(***************************************************************************)
(* For any processes on any hosts and any number of crashes and late       *)
(* heartbeats: the server does not stop under a process that is alive and  *)
(* has been heard of in time.                                              *)
(***************************************************************************)
EXTENDS ServerMonitor, FiniteSetTheorems, TLAPS

Ranked == {p \in Group : rank[p] # NoRank}

\* The processes of the nodes before node n, and those with the processes of
\* node n that have their rank.
Earlier(n) == {q \in Group : NodeOf[q] < n}
UpToNode(n) == {q \in Group : \/ NodeOf[q] < n
                              \/ NodeOf[q] = n /\ rank[q] # NoRank}

\* Who has a rank: processes that wait for GetRank have none.
Assigned == \A p \in Group : /\ state[p] = "starting" => rank[p] = NoRank
                             /\ state[p] \in {"running", "exited"} => rank[p] # NoRank

\* The ranks of a node lie together, after those of all nodes before it.
Placed == \A p \in Group : rank[p] # NoRank =>
            /\ Cardinality(Earlier(NodeOf[p])) <= rank[p]
            /\ rank[p] < Cardinality(UpToNode(NodeOf[p]))

Distinct == \A p, q \in Group : rank[p] # NoRank /\ rank[p] = rank[q] => p = q

Counted == arr = Cardinality(Ranked)

\* Only the entry of a late process gets old enough to be flagged.
Ages == \A p \in Group : state[p] = "running" /\ age[rank[p]] > Limit => p \in late

\* A flag belongs to a process that is gone or late.
Flags == ~muddled /\ exit_arr # {} =>
           /\ AllRanked
           /\ \A p \in Group : rank[p] \in exit_arr => Gone(p) \/ p \in late

Scan == pc = "counted" => counted > 0

IInv == TypeOK /\ Assigned /\ Placed /\ Distinct /\ Counted /\ Ages
          /\ Flags /\ Scan /\ OnTimeAreServed

-----------------------------------------------------------------------------
\* Sizes of sets of processes.
LEMMA GroupSize == /\ IsFiniteSet(Group)
                   /\ Cardinality(Group) \in Nat \ {0}
<1>. QED
  BY GroupAssumption, FS_CardinalityType, FS_EmptySet

LEMMA SubsetSize ==
  ASSUME NEW S, NEW T, S \subseteq T, T \subseteq Group
  PROVE  /\ IsFiniteSet(S) /\ IsFiniteSet(T)
         /\ Cardinality(S) \in Nat /\ Cardinality(T) \in Nat
         /\ Cardinality(S) <= Cardinality(T)
         /\ Cardinality(T) <= Cardinality(Group)
<1>1. IsFiniteSet(T) /\ Cardinality(T) <= Cardinality(Group)
  BY GroupSize, FS_Subset
<1>. QED
  BY <1>1, FS_Subset, FS_CardinalityType

LEMMA OneMore ==
  ASSUME NEW S, S \subseteq Group, NEW p \in Group, p \notin S
  PROVE  Cardinality(S \cup {p}) = Cardinality(S) + 1
<1>1. IsFiniteSet(S)
  BY SubsetSize
<1>. QED
  BY <1>1, FS_AddElement

LEMMA RanksSize ==
  /\ IsFiniteSet(Ranks) /\ Cardinality(Ranks) = Cardinality(Group)
  /\ \A r \in Ranks : r \in Nat
<1>1. Cardinality(Group) - 1 \in Int
  BY GroupSize
<1>. QED
  BY <1>1, GroupSize, FS_Interval DEF Ranks

\* A rank that GetRank gives is nobody's, and lies where the node's ranks do.
LEMMA NewRank ==
  ASSUME TypeOK, Placed, NEW p \in Group, rank[p] = NoRank
  PROVE  /\ RankFor(p) \in Ranks
         /\ RankFor(p) = Cardinality(UpToNode(NodeOf[p]))
         /\ Cardinality(Earlier(NodeOf[p])) <= RankFor(p)
         /\ \A q \in Group : rank[q] # NoRank => rank[q] # RankFor(p)
<1>. DEFINE E(x) == Cardinality(Earlier(NodeOf[x]))
            U(x) == Cardinality(UpToNode(NodeOf[x]))
<1>1. RankFor(p) = U(p)
  BY DEF RankFor, UpToNode
<1>2. \A x \in Group : /\ Earlier(NodeOf[x]) \subseteq UpToNode(NodeOf[x])
                       /\ UpToNode(NodeOf[x]) \subseteq Group
  BY DEF Earlier, UpToNode
<1>3. \A x \in Group : E(x) \in Nat /\ U(x) \in Nat /\ E(x) <= U(x)
  BY <1>2, SubsetSize
<1>4. p \notin UpToNode(NodeOf[p])
  BY NodeAssumption DEF UpToNode
<1>5. Cardinality(UpToNode(NodeOf[p]) \cup {p}) = U(p) + 1
  BY <1>2, <1>4, OneMore
<1>6. U(p) + 1 <= Cardinality(Group)
  <2>1. UpToNode(NodeOf[p]) \cup {p} \subseteq Group
    BY <1>2
  <2>. QED
    BY <2>1, <1>5, SubsetSize
<1>7. RankFor(p) \in Ranks
  <2>. HIDE DEF U
  <2>. QED BY <1>1, <1>3, <1>6, GroupSize DEF Ranks
<1>8. ASSUME NEW q \in Group, rank[q] # NoRank PROVE rank[q] # RankFor(p)
  <2>1. /\ rank[q] \in Nat /\ E(q) <= rank[q] /\ rank[q] < U(q)
        /\ NodeOf[p] \in Nat /\ NodeOf[q] \in Nat
    BY <1>8, RanksSize, NodeAssumption DEF TypeOK, Placed
  <2>2. CASE NodeOf[q] = NodeOf[p]
    BY <2>1, <2>2, <1>1
  <2>3. CASE NodeOf[q] < NodeOf[p]
    <3>1. UpToNode(NodeOf[q]) \subseteq Earlier(NodeOf[p]) /\ Earlier(NodeOf[p]) \subseteq Group
      BY <2>3, NodeAssumption DEF UpToNode, Earlier
    <3>2. U(q) <= E(p)
      BY <3>1, SubsetSize
    <3>. HIDE DEF E, U
    <3>. QED BY <3>2, <2>1, <1>1, <1>3
  <2>4. CASE NodeOf[p] < NodeOf[q]
    <3>1. /\ UpToNode(NodeOf[p]) \cup {p} \subseteq Earlier(NodeOf[q])
          /\ Earlier(NodeOf[q]) \subseteq Group
      BY <2>4, NodeAssumption DEF UpToNode, Earlier
    <3>2. U(p) + 1 <= E(q)
      BY <3>1, <1>5, SubsetSize
    <3>. HIDE DEF E, U
    <3>. QED BY <3>2, <2>1, <1>1, <1>3
  <2>. HIDE DEF E, U
  <2>. QED
    BY <2>1, <2>2, <2>3, <2>4
<1>. QED
  BY <1>1, <1>3, <1>7, <1>8

-----------------------------------------------------------------------------
LEMMA InitIInv == Init => IInv
<1>. SUFFICES ASSUME Init PROVE IInv
  OBVIOUS
<1>1. TypeOK
  <2>1. /\ Ancient \in 0..Ancient /\ 0 \in 0..0 /\ 0 \in 0..Cardinality(Group)
    BY GroupSize DEF Ancient, Limit
  <2>2. age \in [Ranks -> 0..Ancient]
    BY <2>1 DEF Init
  <2>. QED
    BY <2>1, <2>2 DEF Init, TypeOK
<1>2. Counted
  <2>1. Ranked = {}
    BY DEF Init, Ranked
  <2>. QED
    BY <2>1, FS_EmptySet DEF Counted, Init
<1>3. Assigned /\ Placed /\ Distinct /\ Ages /\ Flags /\ Scan /\ OnTimeAreServed
  BY DEF Init, Assigned, Placed, Distinct, Ages, Flags, Scan, OnTimeAreServed, Serving
<1>. QED
  BY <1>1, <1>2, <1>3 DEF IInv

LEMMA GetRankIInv ==
  ASSUME IInv, NEW p \in Group, GetRank(p)
  PROVE  IInv'
<1>. USE DEF IInv
<1>1. /\ rank[p] = NoRank /\ rank \in [Group -> Ranks \cup {NoRank}]
      /\ state \in [Group -> {"starting", "running", "exited", "crashed"}]
  BY DEF Assigned, GetRank, TypeOK
<1>2. /\ RankFor(p) \in Ranks /\ RankFor(p) \in Nat
      /\ RankFor(p) = Cardinality(UpToNode(NodeOf[p]))
      /\ Cardinality(Earlier(NodeOf[p])) <= RankFor(p)
      /\ \A q \in Group : rank[q] # NoRank => rank[q] # RankFor(p)
  BY <1>1, NewRank, RanksSize
<1>3. rank' = [rank EXCEPT ![p] = RankFor(p)] /\ state' = [state EXCEPT ![p] = "running"]
  BY DEF GetRank
<1>4. RankFor(p) # NoRank
  BY <1>2 DEF NoRank
<1>5. Counted' /\ arr' \in 0..Cardinality(Group)
  <2>1. Ranked' = Ranked \cup {p} /\ p \notin Ranked /\ Ranked \subseteq Group
    BY <1>1, <1>3, <1>4 DEF Ranked
  <2>2. Cardinality(Ranked') = Cardinality(Ranked) + 1
    BY <2>1, OneMore
  <2>3. arr' = arr + 1 /\ arr \in 0..Cardinality(Group)
    BY DEF GetRank, TypeOK
  <2>4. Cardinality(Ranked') \in Nat /\ Cardinality(Ranked') <= Cardinality(Group)
    BY <2>1, SubsetSize
  <2>. QED
    BY <2>2, <2>3, <2>4, GroupSize DEF Counted
<1>6. TypeOK'
  <2>1. age' \in [Ranks -> 0..Ancient]
    BY <1>2 DEF TypeOK, GetRank, FirstHeartbeat, Ancient, Limit
  <2>2. rank' \in [Group -> Ranks \cup {NoRank}]
    BY <1>1, <1>2, <1>3
  <2>3. state' \in [Group -> {"starting", "running", "exited", "crashed"}]
    BY <1>1, <1>3
  <2>. QED
    BY <2>1, <2>2, <2>3, <1>5 DEF TypeOK, GetRank, scanVars
<1>7. Assigned'
  BY <1>1, <1>3, <1>4 DEF Assigned
<1>8. Placed'
  <2>. SUFFICES ASSUME NEW q \in Group, rank'[q] # NoRank
                PROVE  /\ Cardinality(Earlier(NodeOf[q])) <= rank'[q]
                       /\ rank'[q] < Cardinality(UpToNode(NodeOf[q])')
    BY DEF Placed, Earlier, UpToNode
  <2>1. UpToNode(NodeOf[p])' = UpToNode(NodeOf[p]) \cup {p} /\ p \notin UpToNode(NodeOf[p])
    <3>1. ASSUME NEW x \in Group
          PROVE  (rank'[x] # NoRank) <=> (rank[x] # NoRank \/ x = p)
      BY <1>1, <1>3, <1>4
    <3>. QED
      BY <3>1, <1>1, NodeAssumption DEF UpToNode
  <2>2. CASE q = p
    <3>1. Cardinality(UpToNode(NodeOf[p])') = RankFor(p) + 1
      BY <2>1, <1>2, OneMore DEF UpToNode
    <3>. QED
      BY <3>1, <2>2, <1>1, <1>2, <1>3
  <2>3. CASE q # p
    <3>1. rank'[q] = rank[q] /\ rank[q] \in Nat
      BY <2>3, <1>1, <1>3, RanksSize
    <3>2. /\ UpToNode(NodeOf[q]) \subseteq UpToNode(NodeOf[q])'
          /\ UpToNode(NodeOf[q])' \subseteq Group
      BY <1>1, <1>3, <1>4 DEF UpToNode
    <3>3. /\ Cardinality(UpToNode(NodeOf[q])) <= Cardinality(UpToNode(NodeOf[q])')
          /\ Cardinality(UpToNode(NodeOf[q])) \in Nat
          /\ Cardinality(UpToNode(NodeOf[q])') \in Nat
      BY <3>2, SubsetSize
    <3>4. /\ Cardinality(Earlier(NodeOf[q])) <= rank[q]
          /\ rank[q] < Cardinality(UpToNode(NodeOf[q]))
      BY <3>1 DEF Placed
    <3>. QED
      BY <3>1, <3>3, <3>4
  <2>. QED
    BY <2>2, <2>3
<1>9. Distinct'
  BY <1>1, <1>2, <1>3 DEF Distinct
<1>10. Ages'
  <2>. SUFFICES ASSUME NEW q \in Group, state'[q] = "running", age'[rank'[q]] > Limit
                PROVE  q \in late'
    BY DEF Ages
  <2>1. age' = [age EXCEPT ![RankFor(p)] = 0] /\ late' = late
    BY DEF GetRank, FirstHeartbeat
  <2>2. age \in [Ranks -> 0..Ancient]
    BY DEF TypeOK
  <2>3. q # p
    BY <2>1, <2>2, <1>1, <1>2, <1>3 DEF Limit
  <2>4. state[q] = "running" /\ rank'[q] = rank[q] /\ rank[q] # NoRank
    BY <2>3, <1>1, <1>3 DEF Assigned
  <2>5. age'[rank'[q]] = age[rank[q]]
    BY <2>1, <2>2, <2>4, <1>1, <1>2
  <2>. QED
    BY <2>1, <2>4, <2>5 DEF Ages
<1>11. Flags'
  <2>1. ~muddled' /\ exit_arr' # {} => AllRanked /\ exit_arr # {} /\ ~muddled
    BY DEF GetRank, scanVars, Flags
  <2>2. ~AllRanked
    BY <1>1 DEF AllRanked
  <2>. QED
    BY <2>1, <2>2 DEF Flags
<1>12. Scan' /\ OnTimeAreServed'
  BY DEF Scan, OnTimeAreServed, GetRank, Serving, scanVars
<1>. QED
  BY <1>5, <1>6, <1>7, <1>8, <1>9, <1>10, <1>11, <1>12

\* What depends on the ranks alone.
LEMMA RanksKept ==
  ASSUME IInv, UNCHANGED <<rank, arr>>
  PROVE  Placed' /\ Distinct' /\ Counted'
<1>1. Ranked' = Ranked /\ \A n : UpToNode(n)' = UpToNode(n) /\ Earlier(n)' = Earlier(n)
  BY DEF Ranked, UpToNode, Earlier
<1>. QED
  BY <1>1 DEF IInv, Placed, Distinct, Counted

LEMMA HeartBeatIInv ==
  ASSUME IInv, NEW p \in Group, HeartBeat(p)
  PROVE  IInv'
<1>. USE DEF IInv
<1>1. UNCHANGED <<procVars, arr, exit_arr, scanVars, late, muddled>>
  BY DEF HeartBeat
<1>2. Placed' /\ Distinct' /\ Counted'
  BY <1>1, RanksKept DEF procVars
<1>3. TypeOK'
  <2>1. age' \in [Ranks -> 0..Ancient]
    <3>1. age' = [age EXCEPT ![rank[p]] = 0] /\ age \in [Ranks -> 0..Ancient]
      BY DEF TypeOK, HeartBeat
    <3>2. 0 \in 0..Ancient
      BY DEF Ancient, Limit
    <3>. QED
      BY <3>1, <3>2
  <2>. QED
    BY <2>1, <1>1 DEF TypeOK, procVars, scanVars
<1>4. Ages'
  <2>. SUFFICES ASSUME NEW q \in Group, state[q] = "running", age'[rank[q]] > Limit
                PROVE  q \in late
    BY <1>1 DEF Ages, procVars
  <2>1. age' = [age EXCEPT ![rank[p]] = 0] /\ age \in [Ranks -> 0..Ancient]
    BY DEF HeartBeat, TypeOK
  <2>2. rank[q] \in Ranks
    BY DEF Assigned, TypeOK
  <2>3. age'[rank[q]] = age[rank[q]]
    BY <2>1, <2>2 DEF Limit
  <2>. QED
    BY <2>3 DEF Ages
<1>5. Assigned' /\ Flags' /\ Scan' /\ OnTimeAreServed'
  BY <1>1 DEF Assigned, Flags, Scan, OnTimeAreServed, Serving, AllRanked, Gone,
              procVars, scanVars
<1>. QED
  BY <1>2, <1>3, <1>4, <1>5

LEMMA ExitIInv ==
  ASSUME IInv, NEW p \in Group, Exit(p)
  PROVE  IInv'
<1>. USE DEF IInv
<1>1. /\ state' = [state EXCEPT ![p] = "exited"]
      /\ exit_arr' = exit_arr \cup {rank[p]}
      /\ UNCHANGED <<rank, arr, age, scanVars, late, muddled>>
      /\ state \in [Group -> {"starting", "running", "exited", "crashed"}]
      /\ rank \in [Group -> Ranks \cup {NoRank}]
      /\ AllRanked /\ Serving
  BY DEF Exit, TypeOK
<1>2. Placed' /\ Distinct' /\ Counted'
  BY <1>1, RanksKept
<1>3. TypeOK'
  <2>1. state' \in [Group -> {"starting", "running", "exited", "crashed"}]
    BY <1>1
  <2>2. exit_arr' \subseteq Ranks
    BY <1>1 DEF TypeOK, AllRanked
  <2>. QED
    BY <1>1, <2>1, <2>2 DEF TypeOK, scanVars
<1>4. \A q \in Group : Gone(q) => Gone(q)'
  BY <1>1 DEF Gone
<1>5. Gone(p)'
  BY <1>1 DEF Gone
<1>6. Flags'
  <2>. SUFFICES ASSUME ~muddled, NEW q \in Group, rank[q] \in exit_arr \cup {rank[p]}
                PROVE  Gone(q)' \/ q \in late
    BY <1>1 DEF Flags, AllRanked
  <2>1. CASE rank[q] \in exit_arr
    BY <2>1, <1>4 DEF Flags
  <2>2. CASE rank[q] = rank[p]
    BY <2>2, <1>1, <1>5 DEF Distinct, AllRanked
  <2>. QED
    BY <2>1, <2>2
<1>7. Assigned' /\ Ages' /\ Scan' /\ OnTimeAreServed'
  BY <1>1 DEF Assigned, Ages, Scan, OnTimeAreServed, Serving, AllRanked, scanVars
<1>. QED
  BY <1>2, <1>3, <1>6, <1>7

LEMMA CrashIInv ==
  ASSUME IInv, NEW p \in Group, Crash(p)
  PROVE  IInv'
<1>. USE DEF IInv
<1>1. /\ state' = [state EXCEPT ![p] = "crashed"]
      /\ UNCHANGED <<rank, arrays, scanVars, late, muddled>>
      /\ state \in [Group -> {"starting", "running", "exited", "crashed"}]
      /\ Serving
  BY DEF Crash, TypeOK
<1>2. Placed' /\ Distinct' /\ Counted'
  BY <1>1, RanksKept DEF arrays
<1>3. TypeOK'
  <2>1. state' \in [Group -> {"starting", "running", "exited", "crashed"}]
    BY <1>1
  <2>. QED
    BY <1>1, <2>1 DEF TypeOK, arrays, scanVars
<1>4. \A q \in Group : Gone(q) => Gone(q)'
  BY <1>1 DEF Gone
<1>5. Flags'
  BY <1>1, <1>4 DEF Flags, AllRanked, arrays
<1>6. Assigned' /\ Ages' /\ Scan' /\ OnTimeAreServed'
  BY <1>1 DEF Assigned, Ages, Scan, OnTimeAreServed, Serving, arrays, scanVars
<1>. QED
  BY <1>2, <1>3, <1>5, <1>6

LEMMA WakeIInv ==
  ASSUME IInv, Wake
  PROVE  IInv'
<1>. USE DEF IInv
<1>1. /\ UNCHANGED <<procVars, arr, exit_arr, counted, muddled>>
      /\ pc' = "scanning" /\ i' = 0 /\ upTo' = arr
      /\ late' = late \cup Silent
      /\ age' = [r \in Ranks |-> IF age[r] < Ancient THEN age[r] + 1 ELSE Ancient]
      /\ age \in [Ranks -> 0..Ancient]
  BY DEF Wake, TypeOK
<1>2. Placed' /\ Distinct' /\ Counted'
  BY <1>1, RanksKept DEF procVars
<1>3. TypeOK'
  <2>1. age' \in [Ranks -> 0..Ancient]
    BY <1>1 DEF Ancient, Limit
  <2>2. late' \subseteq Group
    BY <1>1 DEF TypeOK, Silent
  <2>3. i' \in 0..upTo' /\ upTo' \in 0..Cardinality(Group)
    BY <1>1, GroupSize DEF TypeOK
  <2>. QED
    BY <1>1, <2>1, <2>2, <2>3 DEF TypeOK, procVars
<1>4. Ages'
  <2>. SUFFICES ASSUME NEW q \in Group, state[q] = "running", age'[rank[q]] > Limit
                PROVE  q \in late'
    BY <1>1 DEF Ages, procVars
  <2>1. rank[q] \in Ranks
    BY DEF Assigned, TypeOK
  <2>2. age[rank[q]] >= Limit
    BY <1>1, <2>1 DEF Ancient, Limit
  <2>. QED
    BY <1>1, <2>2 DEF Silent
<1>5. Assigned' /\ Flags' /\ Scan' /\ OnTimeAreServed'
  BY <1>1 DEF Assigned, Flags, Scan, OnTimeAreServed, Serving, AllRanked, Gone, procVars
<1>. QED
  BY <1>2, <1>3, <1>4, <1>5

LEMMA ScanRankIInv ==
  ASSUME IInv, ScanRank
  PROVE  IInv'
<1>. USE DEF IInv
<1>1. /\ UNCHANGED <<procVars, arr, age, pc, upTo, counted, late>>
      /\ pc = "scanning" /\ i < upTo /\ i' = i + 1
      /\ exit_arr' = IF SilentTooLong(i) THEN exit_arr \cup {i} ELSE exit_arr
      /\ muddled' = (muddled \/ (SilentTooLong(i) /\ ~AllRanked))
  BY DEF ScanRank
<1>2. Placed' /\ Distinct' /\ Counted'
  BY <1>1, RanksKept DEF procVars
<1>3. i \in Ranks /\ i' \in 0..upTo'
  BY <1>1, GroupSize DEF TypeOK, Ranks
<1>4. TypeOK'
  <2>1. exit_arr' \subseteq Ranks
    BY <1>1, <1>3 DEF TypeOK
  <2>2. muddled' \in BOOLEAN
    BY <1>1 DEF TypeOK
  <2>. QED
    BY <1>1, <1>3, <2>1, <2>2 DEF TypeOK, procVars
<1>5. Flags'
  <2>1. CASE SilentTooLong(i)
    <3>. SUFFICES ASSUME ~muddled, AllRanked, NEW q \in Group, rank[q] \in exit_arr \cup {i}
                  PROVE  Gone(q) \/ q \in late
      BY <1>1, <2>1 DEF Flags, AllRanked, Gone, procVars
    <3>1. CASE rank[q] \in exit_arr
      BY <3>1 DEF Flags
    <3>2. CASE rank[q] = i
      <4>1. state[q] # "starting"
        BY DEF AllRanked, Assigned
      <4>2. Gone(q) \/ state[q] = "running"
        BY <4>1 DEF Gone, TypeOK
      <4>. QED
        BY <4>2, <3>2, <2>1 DEF Ages, SilentTooLong
    <3>. QED
      BY <3>1, <3>2
  <2>2. CASE ~SilentTooLong(i)
    BY <1>1, <2>2 DEF Flags, AllRanked, Gone, procVars
  <2>. QED
    BY <2>1, <2>2
<1>6. Assigned' /\ Ages' /\ Scan' /\ OnTimeAreServed'
  BY <1>1 DEF Assigned, Ages, Scan, OnTimeAreServed, Serving, procVars
<1>. QED
  BY <1>2, <1>4, <1>5, <1>6

LEMMA ReadCountIInv ==
  ASSUME IInv, ReadCount
  PROVE  IInv'
<1>. USE DEF IInv
<1>1. /\ UNCHANGED <<procVars, arrays, i, upTo, late, muddled>>
      /\ pc = "scanning" /\ counted' = arr
      /\ pc' = IF arr = 0 THEN "asleep" ELSE "counted"
      /\ arr \in 0..Cardinality(Group)
  BY DEF ReadCount, TypeOK
<1>2. Placed' /\ Distinct' /\ Counted'
  BY <1>1, RanksKept DEF procVars, arrays
<1>3. TypeOK'
  BY <1>1 DEF TypeOK, procVars, arrays
<1>4. Scan'
  BY <1>1, GroupSize DEF Scan
<1>5. Assigned' /\ Ages' /\ Flags' /\ OnTimeAreServed'
  BY <1>1 DEF Assigned, Ages, Flags, OnTimeAreServed, Serving, AllRanked, Gone,
              procVars, arrays
<1>. QED
  BY <1>2, <1>3, <1>4, <1>5

\* When the flags reach the count that was read, and no rank was given since,
\* they are all the ranks.
LEMMA SumExitsIInv ==
  ASSUME IInv, SumExits
  PROVE  IInv'
<1>. USE DEF IInv
<1>1. /\ UNCHANGED <<procVars, arrays, i, upTo, counted, late>>
      /\ pc = "counted"
      /\ pc' = IF counted <= Cardinality(exit_arr) THEN "stopped" ELSE "asleep"
      /\ muddled' = (muddled \/ counted < arr)
  BY DEF SumExits, AllAreGone
<1>2. Placed' /\ Distinct' /\ Counted'
  BY <1>1, RanksKept DEF procVars, arrays
<1>3. TypeOK'
  BY <1>1 DEF TypeOK, procVars, arrays
<1>4. Assigned' /\ Ages' /\ Flags' /\ Scan'
  BY <1>1 DEF Assigned, Ages, Flags, Scan, AllRanked, Gone, procVars, arrays
<1>5. OnTimeAreServed'
  <2>. SUFFICES ASSUME counted <= Cardinality(exit_arr), ~muddled, ~(counted < arr),
                       NEW p \in Group
                PROVE  Gone(p) \/ p \in late
    BY <1>1 DEF OnTimeAreServed, Serving, Gone, procVars
  <2>1. exit_arr \subseteq Ranks /\ counted \in Nat /\ arr \in Nat /\ counted > 0
    BY <1>1, GroupSize DEF TypeOK, Scan
  <2>2. exit_arr # {}
    BY <2>1, FS_EmptySet
  <2>3. AllRanked
    BY <2>2 DEF Flags
  <2>4. arr = Cardinality(Group)
    <3>1. Ranked = Group
      BY <2>3 DEF Ranked, AllRanked
    <3>. QED
      BY <3>1 DEF Counted
  <2>5. exit_arr = Ranks
    <3>1. /\ Cardinality(exit_arr) \in Nat /\ Cardinality(exit_arr) <= Cardinality(Ranks)
          /\ Cardinality(exit_arr) = Cardinality(Ranks) => exit_arr = Ranks
      BY <2>1, RanksSize, FS_Subset, FS_CardinalityType
    <3>. QED
      BY <3>1, <2>1, <2>4, RanksSize, GroupSize
  <2>. QED
    BY <2>2, <2>3, <2>5 DEF Flags, AllRanked, TypeOK
<1>. QED
  BY <1>2, <1>3, <1>4, <1>5

-----------------------------------------------------------------------------
THEOREM Inductive == Spec => []IInv
<1>1. IInv /\ [Next]_vars => IInv'
  <2>. SUFFICES ASSUME IInv, [Next]_vars PROVE IInv'
    OBVIOUS
  <2>1. ASSUME NEW p \in Group, GetRank(p) \/ HeartBeat(p) \/ Exit(p) \/ Crash(p)
        PROVE  IInv'
    BY <2>1, GetRankIInv, HeartBeatIInv, ExitIInv, CrashIInv
  <2>2. CASE Monitor
    BY <2>2, WakeIInv, ScanRankIInv, ReadCountIInv, SumExitsIInv DEF Monitor
  <2>3. CASE UNCHANGED vars
    <3>1. UNCHANGED <<rank, arr>>
      BY <2>3 DEF vars, procVars, arrays
    <3>2. Placed' /\ Distinct' /\ Counted'
      BY <3>1, RanksKept
    <3>. QED
      BY <2>3, <3>2 DEF IInv, TypeOK, Assigned, Ages, Flags, Scan, OnTimeAreServed,
                       Serving, AllRanked, Gone, vars, procVars, arrays, scanVars
  <2>. QED
    BY <2>1, <2>2, <2>3 DEF Next, Stopped
<1>. QED
  BY <1>1, InitIInv, PTL DEF Spec

\* The arrays of the server and the ranks of its clients keep their shape: a
\* rank is an index into last_heartbeat and exit_arr.
THEOREM TypeCorrect == Spec => []TypeOK
<1>1. IInv => TypeOK
  BY DEF IInv
<1>. QED
  BY <1>1, Inductive, PTL

\* GetRank never gives a rank twice, in whatever order the hosts' processes
\* come.
THEOREM RanksApart == Spec => []Distinct
<1>1. IInv => Distinct
  BY DEF IInv
<1>. QED
  BY <1>1, Inductive, PTL

\* server_launch does not terminate the server under a live process whose
\* heartbeats are on time, once every process has its rank.
THEOREM OnTimeServed == Spec => []OnTimeAreServed
<1>1. IInv => OnTimeAreServed
  BY DEF IInv
<1>. QED
  BY <1>1, Inductive, PTL
=============================================================================
