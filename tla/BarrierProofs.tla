---------------------------- MODULE BarrierProofs ----------------------------
(***************************************************************************)
(* For every finite group, every nonempty choice of the members that carry *)
(* world_rank[0] and any number of calls: a caller discipline of one round *)
(* at a time makes the handler a rendezvous.  Without it the handler may   *)
(* stop, but lets nobody out early if all carry world_rank[0].             *)
(***************************************************************************)
EXTENDS BarrierHandler, FiniteSetTheorems, TLAPS

Arrived == {p \in Group : at[p] = "arrived"}
Ending == {p \in Group : at[p] = "ending"}

\* Every member has made its call of the current round (or none of the next).
Open == \A p, q \in Group : entered[p] = entered[q]

\* A process has one call more made than returned exactly while it is inside.
Calls == \A p \in Group :
           entered[p] = left[p] + (IF at[p] = "outside" THEN 0 ELSE 1)

\* Members are at most one round apart.
Lockstep == \A p, q \in Group :
              left[p] <= entered[q] /\ entered[p] <= left[q] + 1

\* While some member is still missing: barrier_nums counts the arrivals, nobody
\* is past the first loop, and the reset of barrier_end_nums is not undone.
Gathering ==
  ~Open => /\ Ending = {}
           /\ barrier_nums = Cardinality(Arrived)
           /\ (\E f \in Firsts : at[f] = "arrived") => barrier_end_nums = 0

\* Once all have arrived: the first loop empties into the second, which opens
\* when it holds the whole group; barrier_nums is reset before the round ends.
Opened ==
  Open => /\ Arrived # {} => /\ \A p \in Group : at[p] # "outside"
                             /\ barrier_nums = Size
                             /\ barrier_end_nums = Cardinality(Ending)
          /\ Arrived = {} /\ Ending # {} => barrier_end_nums = Size
          /\ (\E f \in Firsts : at[f] = "outside") => barrier_nums = 0

IInv == TypeOK /\ Calls /\ Lockstep /\ Gathering /\ Opened

-----------------------------------------------------------------------------
\* Cardinalities of the subsets of the group that the counters stand for.
LEMMA GroupSize == Size \in Nat /\ Size > 0
<1>1. IsFiniteSet(Group) /\ Group # {}
  BY GroupAssumption
<1>2. Cardinality(Group) \in Nat /\ Cardinality(Group) # 0
  BY <1>1, FS_CardinalityType, FS_EmptySet
<1>. QED
  BY <1>2 DEF Size

LEMMA SubsetSize ==
  ASSUME NEW S \in SUBSET Group
  PROVE  /\ IsFiniteSet(S)
         /\ Cardinality(S) \in Nat
         /\ Cardinality(S) <= Size
         /\ Cardinality(S) = Size => S = Group
         /\ \A p \in Group \ S : Cardinality(S \cup {p}) = Cardinality(S) + 1
         /\ S = {} <=> Cardinality(S) = 0
<1>1. IsFiniteSet(Group)
  BY GroupAssumption
<1>2. IsFiniteSet(S)
  BY <1>1, FS_Subset
<1>3. Cardinality(S) \in Nat /\ Cardinality(S) <= Size
  BY <1>1, <1>2, FS_Subset, FS_CardinalityType DEF Size
<1>4. Cardinality(S) = Size => S = Group
  BY <1>1, FS_Subset DEF Size
<1>5. \A p \in Group \ S : Cardinality(S \cup {p}) = Cardinality(S) + 1
  BY <1>2, FS_AddElement
<1>6. S = {} <=> Cardinality(S) = 0
  BY <1>2, FS_EmptySet
<1>. QED
  BY <1>2, <1>3, <1>4, <1>5, <1>6

-----------------------------------------------------------------------------
\* What IInv says of the three moments at which a thread moves.

\* A caller that keeps its distance finds every other member outside or in the
\* first loop of its own round, and is counted with them.
LEMMA AtEntry ==
  ASSUME IInv, NEW p \in Group, Separated(p), at[p] = "outside"
  PROVE  /\ \A q \in Group : left[q] = entered[p]
         /\ Ending = {}
         /\ barrier_nums = Cardinality(Arrived)
         /\ (\E f \in Firsts : at[f] = "arrived") => barrier_end_nums = 0
         /\ barrier_nums + 1 >= Size => Arrived = Group \ {p}
         /\ barrier_nums + 1 <= Size
<1>. USE DEF IInv
<1>1. \A q \in Group : left[q] = entered[p]
  BY DEF TypeOK, Lockstep, Separated, Calls
<1>2. CASE Open
  <2>1. \A q \in Group : at[q] = "outside"
    BY <1>1, <1>2 DEF Open, Calls, TypeOK
  <2>2. Ending = {} /\ Arrived = {} /\ barrier_nums = 0
    BY <1>2, <2>1, FirstsAssumption DEF Opened, Ending, Arrived
  <2>3. Cardinality(Arrived) = 0
    BY <2>2, FS_EmptySet
  <2>4. \A f \in Firsts : at[f] # "arrived"
    BY <2>1, FirstsAssumption
  <2>5. ASSUME barrier_nums + 1 >= Size PROVE Arrived = Group \ {p}
    <3>1. Size = 1
      BY <2>2, <2>5, GroupSize
    <3>2. Cardinality({p}) = Size
      BY <3>1, FS_Singleton
    <3>3. Group = {p}
      BY <3>2, SubsetSize
    <3>. QED
      BY <2>2, <3>3
  <2>. QED
    BY <1>1, <2>2, <2>3, <2>4, <2>5, GroupSize
<1>3. CASE ~Open
  <2>1. /\ Ending = {}
        /\ barrier_nums = Cardinality(Arrived)
        /\ (\E f \in Firsts : at[f] = "arrived") => barrier_end_nums = 0
    BY <1>3 DEF Gathering
  <2>2. Arrived \in SUBSET Group /\ p \in Group \ Arrived
    BY DEF Arrived
  <2>3. Cardinality(Arrived \cup {p}) = barrier_nums + 1
    BY <2>1, <2>2, SubsetSize
  <2>4. /\ Cardinality(Arrived \cup {p}) \in Nat
        /\ Cardinality(Arrived \cup {p}) <= Size
        /\ Cardinality(Arrived \cup {p}) = Size => Arrived \cup {p} = Group
    <3>1. Arrived \cup {p} \in SUBSET Group
      BY <2>2
    <3>. QED
      BY <3>1, SubsetSize
  <2>. QED
    BY <1>1, <2>1, <2>2, <2>3, <2>4, GroupSize
<1>. QED
  BY <1>2, <1>3

\* Somebody who is not outside in a round that has opened shows that all have
\* entered; the first loop's condition holds only then.
LEMMA AtFirstLoop ==
  ASSUME IInv, NEW p \in Group, at[p] = "arrived", AllArrived(barrier_nums)
  PROVE  /\ Open
         /\ \A q \in Group : at[q] # "outside"
         /\ barrier_nums = Size
         /\ barrier_end_nums = Cardinality(Ending)
<1>. USE DEF IInv
<1>1. Open
  <2>1. SUFFICES ASSUME ~Open PROVE FALSE
    OBVIOUS
  <2>2. Arrived \in SUBSET Group
    BY DEF Arrived
  <2>3. Cardinality(Arrived) = Size
    BY <2>1, <2>2, SubsetSize, GroupSize DEF Gathering, AllArrived
  <2>4. \A q \in Group : at[q] = "arrived"
    BY <2>2, <2>3, SubsetSize DEF Arrived
  <2>5. \A q \in Group : entered[q] = left[q] + 1
    BY <2>4 DEF Calls
  <2>. QED
    BY <2>1, <2>5 DEF Lockstep, Open, TypeOK
<1>2. Arrived # {}
  BY DEF Arrived
<1>. QED
  BY <1>1, <1>2 DEF Opened

\* The second loop opens only when the first one is empty.
LEMMA AtSecondLoop ==
  ASSUME IInv, NEW p \in Group, at[p] = "ending", AllPassed(barrier_end_nums)
  PROVE  Open /\ Arrived = {} /\ barrier_end_nums = Size
<1>. USE DEF IInv
<1>1. Ending # {}
  BY DEF Ending
<1>2. Open
  BY <1>1 DEF Gathering
<1>3. Arrived = {}
  <2>1. SUFFICES ASSUME Arrived # {} PROVE FALSE
    OBVIOUS
  <2>2. barrier_end_nums = Cardinality(Ending)
    BY <1>2, <2>1 DEF Opened
  <2>3. Ending \in SUBSET Group
    BY DEF Ending
  <2>4. Ending = Group
    BY <2>2, <2>3, SubsetSize, GroupSize DEF AllPassed
  <2>. QED
    BY <2>1, <2>4 DEF Ending, Arrived
<1>. QED
  BY <1>1, <1>2, <1>3 DEF Opened

-----------------------------------------------------------------------------
\* The subsets that change when thread p moves.
LEMMA InitIInv == BarrierInit => IInv
<1>. SUFFICES ASSUME BarrierInit PROVE IInv
  OBVIOUS
<1>1. TypeOK /\ Calls /\ Lockstep
  BY DEF BarrierInit, TypeOK, Calls, Lockstep
<1>2. Open /\ Arrived = {} /\ Ending = {} /\ barrier_nums = 0
  BY DEF BarrierInit, Open, Arrived, Ending
<1>3. Gathering /\ Opened
  BY <1>2 DEF Gathering, Opened
<1>. QED
  BY <1>1, <1>3 DEF IInv

\* A thread that goes back to sleep, or nothing, leaves IInv alone.
LEMMA SleepIInv ==
  ASSUME IInv, notified' \in SUBSET Group,
         UNCHANGED <<barrier_nums, barrier_end_nums, at, left, entered>>
  PROVE  IInv'
<1>1. TypeOK' /\ Calls' /\ Lockstep'
  BY DEF IInv, TypeOK, Calls, Lockstep
<1>2. Arrived' = Arrived /\ Ending' = Ending /\ (Open' <=> Open)
  BY DEF Arrived, Ending, Open
<1>3. Gathering' /\ Opened'
  BY <1>2 DEF IInv, Gathering, Opened
<1>. QED
  BY <1>1, <1>3 DEF IInv

LEMMA EnterIInv ==
  ASSUME IInv, NEW p \in Group, Separated(p), Enter(p)
  PROVE  IInv'
<1>. USE GroupSize
<1>1. /\ at[p] = "outside"
      /\ entered' = [entered EXCEPT ![p] = @ + 1]
  BY DEF Enter
<1>2. /\ \A q \in Group : left[q] = entered[p]
      /\ Ending = {}
      /\ barrier_nums = Cardinality(Arrived)
      /\ (\E f \in Firsts : at[f] = "arrived") => barrier_end_nums = 0
      /\ barrier_nums + 1 >= Size => Arrived = Group \ {p}
      /\ barrier_nums + 1 <= Size
  BY <1>1, AtEntry
<1>3. TypeOK
  BY DEF IInv
<1>4. Arrived \in SUBSET Group /\ p \in Group \ Arrived
  BY <1>1 DEF Arrived
<1>5. CASE ~AllArrived(barrier_nums + 1)
  <2>1. /\ at' = [at EXCEPT ![p] = "arrived"]
        /\ barrier_nums' = barrier_nums + 1
        /\ barrier_end_nums' = EndNumsOnEntry(p)
        /\ notified' \in SUBSET Group
        /\ left' = left
    BY <1>5 DEF Enter, NotifyAll, Sleepers
  <2>2. TypeOK'
    BY <1>1, <1>3, <2>1 DEF TypeOK, EndNumsOnEntry
  <2>3. Calls' /\ Lockstep'
    <3>1. Calls'
      BY <1>1, <1>3, <2>1 DEF IInv, Calls, TypeOK
    <3>2. Lockstep'
      BY <1>1, <1>2, <1>3, <2>1 DEF IInv, Lockstep, TypeOK
    <3>. QED
      BY <3>1, <3>2
  <2>4. Arrived' = Arrived \cup {p} /\ Ending' = {}
    BY <1>2, <1>3, <2>1 DEF Arrived, Ending, TypeOK
  <2>5. barrier_nums' = Cardinality(Arrived')
    BY <1>2, <1>4, <2>1, <2>4, SubsetSize
  <2>6. (\E f \in Firsts : at'[f] = "arrived") => barrier_end_nums' = 0
    BY <1>2, <1>3, <2>1, FirstsAssumption DEF EndNumsOnEntry, TypeOK
  <2>7. ~Open'
    <3>1. PICK q \in Group : q \notin Arrived'
      <4>1. Arrived' # Group
        BY <1>2, <1>3, <1>5, <2>1, <2>5 DEF AllArrived, Size, TypeOK
      <4>. QED
        BY <2>4, <4>1, <1>4
    <3>2. at[q] = "outside" /\ q # p
      BY <1>2, <1>3, <2>4, <3>1 DEF Arrived, Ending, TypeOK
    <3>3. entered'[q] = entered[p] /\ entered'[p] = entered[p] + 1
      BY <1>1, <1>2, <1>3, <3>2 DEF IInv, Calls, TypeOK
    <3>. QED
      BY <1>3, <3>3 DEF Open, TypeOK
  <2>8. Gathering' /\ Opened'
    BY <2>4, <2>5, <2>6, <2>7 DEF Gathering, Opened
  <2>. QED
    BY <2>2, <2>3, <2>8 DEF IInv
<1>6. CASE AllArrived(barrier_nums + 1)
  <2>1. /\ Arrived = Group \ {p}
        /\ barrier_nums + 1 = Size
    BY <1>2, <1>3, <1>6 DEF AllArrived, TypeOK
  <2>2. EndNumsOnEntry(p) = 0
    <3>1. CASE p \in Firsts
      BY <3>1 DEF EndNumsOnEntry
    <3>2. CASE p \notin Firsts
      <4>1. PICK f \in Firsts : f \in Group \ {p}
        BY <3>2, FirstsAssumption
      <4>. QED
        BY <1>2, <2>1, <3>2, <4>1 DEF Arrived, EndNumsOnEntry
    <3>. QED
      BY <3>1, <3>2
  <2>3. /\ barrier_end_nums' = 1
        /\ notified' \in SUBSET Group
    BY <1>6, <2>2 DEF Enter, PassFirstLoop, NotifyAll, Sleepers
  <2>4. Open' /\ \A q \in Group : entered'[q] = entered[p] + 1
    BY <1>1, <1>2, <1>3, <2>1 DEF IInv, Calls, Open, TypeOK, Arrived
  <2>5. CASE Size = 1
    <3>1. Group = {p}
      <4>1. Cardinality({p}) = Size
        BY <2>5, FS_Singleton
      <4>. QED
        BY <4>1, SubsetSize
    <3>2. AllPassed(1) /\ p \in Firsts
      BY <2>5, <3>1, FirstsAssumption DEF AllPassed
    <3>3. /\ at' = [at EXCEPT ![p] = "outside"]
          /\ left' = [left EXCEPT ![p] = @ + 1]
          /\ barrier_nums' = 0
      BY <1>6, <2>2, <3>2 DEF Enter, PassFirstLoop, Return, NumsOnReturn
    <3>4. TypeOK' /\ Calls' /\ Lockstep'
      BY <1>1, <1>2, <1>3, <2>3, <3>1, <3>3
      DEF IInv, TypeOK, Calls, Lockstep
    <3>5. Arrived' = {} /\ Ending' = {}
      BY <1>3, <3>1, <3>3 DEF Arrived, Ending, TypeOK
    <3>6. Gathering' /\ Opened'
      BY <2>4, <3>3, <3>5 DEF Gathering, Opened
    <3>. QED
      BY <3>4, <3>6 DEF IInv
  <2>6. CASE Size > 1
    <3>1. /\ at' = [at EXCEPT ![p] = "ending"]
          /\ left' = left
          /\ barrier_nums' = Size
      BY <1>6, <2>1, <2>2, <2>6 DEF Enter, PassFirstLoop, AllPassed
    <3>2. TypeOK'
      BY <1>1, <1>3, <2>3, <3>1 DEF TypeOK
    <3>3. Calls' /\ Lockstep'
      BY <1>1, <1>2, <1>3, <2>4, <3>1 DEF IInv, Calls, Lockstep, TypeOK
    <3>4. Ending' = {p} /\ Cardinality(Ending') = 1
      <4>1. Ending' = {p}
        BY <1>2, <1>3, <3>1 DEF Ending, TypeOK
      <4>. QED
        BY <4>1, FS_Singleton
    <3>5. \A q \in Group : at'[q] # "outside"
      BY <1>3, <2>1, <3>1 DEF Arrived, TypeOK
    <3>6. Arrived' # {}
      <4>1. Arrived # {}
        <5>1. Cardinality(Arrived) # 0
          BY <1>2, <1>3, <2>1, <2>6 DEF TypeOK
        <5>. QED
          BY <5>1, FS_EmptySet
      <4>. QED
        BY <1>3, <2>1, <3>1, <4>1 DEF Arrived, TypeOK
    <3>7. Gathering' /\ Opened'
      BY <2>3, <2>4, <3>1, <3>4, <3>5, <3>6, FirstsAssumption
      DEF Gathering, Opened, Size
    <3>. QED
      BY <3>2, <3>3, <3>7 DEF IInv
  <2>. QED
    BY <2>5, <2>6
<1>. QED
  BY <1>5, <1>6

LEMMA ResumeArrivedIInv ==
  ASSUME IInv, NEW p \in Group, ResumeArrived(p)
  PROVE  IInv'
<1>. USE GroupSize
<1>1. at[p] = "arrived" /\ entered' = entered /\ TypeOK
  BY DEF ResumeArrived, IInv
<1>2. CASE ~AllArrived(barrier_nums)
  BY <1>2, SleepIInv DEF ResumeArrived, SleepAgain, IInv, TypeOK
<1>3. CASE AllArrived(barrier_nums)
  <2>1. /\ Open
        /\ \A q \in Group : at[q] # "outside"
        /\ barrier_nums = Size
        /\ barrier_end_nums = Cardinality(Ending)
    BY <1>1, <1>3, AtFirstLoop
  <2>2. Ending \in SUBSET Group /\ p \in Group \ Ending
    BY <1>1 DEF Ending
  <2>3. /\ Cardinality(Ending \cup {p}) = barrier_end_nums + 1
        /\ barrier_end_nums + 1 <= Size
        /\ barrier_end_nums + 1 = Size => Ending \cup {p} = Group
    <3>1. Cardinality(Ending \cup {p}) = barrier_end_nums + 1
      BY <2>1, <2>2, SubsetSize
    <3>2. Ending \cup {p} \in SUBSET Group
      BY <2>2
    <3>. QED
      BY <3>1, <3>2, SubsetSize
  <2>4. /\ barrier_end_nums' = barrier_end_nums + 1
        /\ notified' \in SUBSET Group
    BY <1>3 DEF ResumeArrived, PassFirstLoop, NotifyAll, Sleepers
  <2>5. Open'
    BY <1>1, <2>1 DEF Open
  <2>6. CASE ~AllPassed(barrier_end_nums + 1)
    <3>1. /\ at' = [at EXCEPT ![p] = "ending"]
          /\ barrier_nums' = barrier_nums
          /\ left' = left
      BY <1>3, <2>6 DEF ResumeArrived, PassFirstLoop
    <3>2. TypeOK' /\ Calls' /\ Lockstep'
      BY <1>1, <2>4, <3>1 DEF IInv, TypeOK, Calls, Lockstep
    <3>3. /\ Ending' = Ending \cup {p}
          /\ \A q \in Group : at'[q] # "outside"
      BY <1>1, <2>1, <3>1 DEF Ending, TypeOK
    <3>4. Arrived' # {}
      <4>1. Ending' # Group
        BY <1>1, <2>3, <2>6, <3>3 DEF AllPassed, Size, TypeOK
      <4>2. PICK q \in Group : q \notin Ending'
        BY <2>2, <3>3, <4>1
      <4>. QED
        BY <3>2, <3>3, <4>2 DEF Ending, Arrived, TypeOK
    <3>5. Gathering' /\ Opened'
      BY <2>1, <2>3, <2>4, <2>5, <3>1, <3>3, <3>4, FirstsAssumption
      DEF Gathering, Opened, Size
    <3>. QED
      BY <3>2, <3>5 DEF IInv
  <2>7. CASE AllPassed(barrier_end_nums + 1)
    <3>1. /\ at' = [at EXCEPT ![p] = "outside"]
          /\ barrier_nums' = NumsOnReturn(p, barrier_nums)
          /\ left' = [left EXCEPT ![p] = @ + 1]
      BY <1>3, <2>7 DEF ResumeArrived, PassFirstLoop, Return
    <3>2. TypeOK' /\ Calls'
      BY <1>1, <2>4, <3>1 DEF IInv, TypeOK, Calls, NumsOnReturn
    <3>3. Lockstep'
      BY <1>1, <2>1, <3>1 DEF IInv, Lockstep, Open, Calls, TypeOK
    <3>4. barrier_end_nums' = Size /\ Ending \cup {p} = Group
      BY <1>1, <2>3, <2>4, <2>7 DEF AllPassed, TypeOK
    <3>5. Arrived' = {}
      BY <1>1, <3>1, <3>4 DEF Arrived, Ending, TypeOK
    <3>6. (\E f \in Firsts : at'[f] = "outside") => barrier_nums' = 0
      BY <1>1, <2>1, <3>1, FirstsAssumption DEF NumsOnReturn, TypeOK
    <3>7. Gathering' /\ Opened'
      BY <2>5, <3>4, <3>5, <3>6 DEF Gathering, Opened, Size
    <3>. QED
      BY <3>2, <3>3, <3>7 DEF IInv
  <2>. QED
    BY <2>6, <2>7
<1>. QED
  BY <1>2, <1>3

LEMMA ResumeEndingIInv ==
  ASSUME IInv, NEW p \in Group, ResumeEnding(p)
  PROVE  IInv'
<1>. USE GroupSize
<1>1. at[p] = "ending" /\ entered' = entered /\ TypeOK
  BY DEF ResumeEnding, IInv
<1>2. CASE ~AllPassed(barrier_end_nums)
  BY <1>2, SleepIInv DEF ResumeEnding, SleepAgain, IInv, TypeOK
<1>3. CASE AllPassed(barrier_end_nums)
  <2>1. Open /\ Arrived = {} /\ barrier_end_nums = Size
    BY <1>1, <1>3, AtSecondLoop
  <2>2. /\ at' = [at EXCEPT ![p] = "outside"]
        /\ barrier_nums' = NumsOnReturn(p, barrier_nums)
        /\ barrier_end_nums' = barrier_end_nums
        /\ left' = [left EXCEPT ![p] = @ + 1]
        /\ notified' = notified \ {p}
    BY <1>3 DEF ResumeEnding, Return
  <2>3. TypeOK' /\ Calls'
    BY <1>1, <2>2 DEF IInv, TypeOK, Calls, NumsOnReturn
  <2>4. Lockstep'
    BY <1>1, <2>1, <2>2 DEF IInv, Lockstep, Open, Calls, TypeOK
  <2>5. Open' /\ Arrived' = {}
    BY <1>1, <2>1, <2>2 DEF Open, Arrived, TypeOK
  <2>6. (\E f \in Firsts : at'[f] = "outside") => barrier_nums' = 0
    <3>1. SUFFICES ASSUME NEW f \in Firsts, at'[f] = "outside", p \notin Firsts
                   PROVE  barrier_nums' = 0
      BY <2>2 DEF NumsOnReturn
    <3>2. at[f] = "outside"
      BY <1>1, <2>2, <3>1, FirstsAssumption DEF TypeOK
    <3>. QED
      BY <2>1, <2>2, <3>1, <3>2 DEF IInv, Opened, NumsOnReturn
  <2>7. Gathering' /\ Opened'
    BY <2>1, <2>2, <2>5, <2>6 DEF Gathering, Opened, Size
  <2>. QED
    BY <2>3, <2>4, <2>7 DEF IInv
<1>. QED
  BY <1>2, <1>3

-----------------------------------------------------------------------------
\* Every reachable state of the handler satisfies the inductive invariant.
THEOREM Inductive == Spec => []IInv
<1>1. BarrierInit => IInv
  BY InitIInv
<1>2. IInv /\ [Next]_barrierVars => IInv'
  <2>. SUFFICES ASSUME IInv, [Next]_barrierVars PROVE IInv'
    OBVIOUS
  <2>1. ASSUME NEW p \in Group, Separated(p), Enter(p) PROVE IInv'
    BY <2>1, EnterIInv
  <2>2. ASSUME NEW p \in Group, ResumeArrived(p) PROVE IInv'
    BY <2>2, ResumeArrivedIInv
  <2>3. ASSUME NEW p \in Group, ResumeEnding(p) PROVE IInv'
    BY <2>3, ResumeEndingIInv
  <2>4. CASE UNCHANGED barrierVars
    BY <2>4, SleepIInv DEF barrierVars, IInv, TypeOK
  <2>. QED
    BY <2>1, <2>2, <2>3, <2>4 DEF Next, Resume, Finished
<1>. QED
  BY <1>1, <1>2, PTL DEF Spec

\* The counters stay natural numbers and the bookkeeping keeps its shape: the
\* type invariant of the Barrier handler.
THEOREM TypeCorrect == Spec => []TypeOK
<1>1. IInv => TypeOK
  BY DEF IInv
<1>. QED
  BY <1>1, Inductive, PTL

\* Barrier returns to nobody before the last member has called, whoever carries
\* world_rank[0] and however often the group meets.
THEOREM BarrierSafe == Spec => []NobodyLeavesEarly
<1>1. IInv => NobodyLeavesEarly
  BY DEF IInv, Lockstep, NobodyLeavesEarly
<1>. QED
  BY <1>1, Inductive, PTL

\* notify_all() is called often enough: no thread of Barrier sleeps on a true
\* condition.  This needs no assumption on the callers' discipline.
THEOREM NoWakeupLost == Spec => []NoLostWakeup
<1>1. BarrierInit => NoLostWakeup
  BY DEF BarrierInit, NoLostWakeup
<1>2. TypeOK /\ TypeOK' /\ NoLostWakeup /\ [Next]_barrierVars => NoLostWakeup'
  <2>. SUFFICES ASSUME TypeOK, TypeOK', NoLostWakeup, [Next]_barrierVars
                PROVE  NoLostWakeup'
    OBVIOUS
  <2>. USE GroupSize DEF AllArrived, AllPassed
  <2>1. ASSUME NEW p \in Group, Enter(p) PROVE NoLostWakeup'
    BY <2>1 DEF Enter, PassFirstLoop, Return, NotifyAll, Sleepers, TypeOK,
                NoLostWakeup
  <2>2. ASSUME NEW p \in Group, ResumeArrived(p) PROVE NoLostWakeup'
    BY <2>2 DEF ResumeArrived, PassFirstLoop, Return, NotifyAll, Sleepers,
                SleepAgain, TypeOK, NoLostWakeup
  <2>3. ASSUME NEW p \in Group, ResumeEnding(p) PROVE NoLostWakeup'
    BY <2>3 DEF ResumeEnding, Return, NumsOnReturn, SleepAgain, TypeOK,
                NoLostWakeup
  <2>4. CASE UNCHANGED barrierVars
    BY <2>4 DEF barrierVars, NoLostWakeup, Size
  <2>. QED
    BY <2>1, <2>2, <2>3, <2>4 DEF Next, Resume, Finished
<1>. QED
  BY <1>1, <1>2, TypeCorrect, PTL DEF Spec

\* The handler, with its two counters and its wait loops, implements the
\* rendezvous its callers think of.
THEOREM Refinement == Spec => R!Spec
<1>1. BarrierInit => R!Init
  BY DEF BarrierInit, R!Init
<1>2. IInv /\ [Next]_barrierVars => [R!Next]_(R!vars)
  <2>. SUFFICES ASSUME IInv, [Next]_barrierVars PROVE [R!Next]_(R!vars)
    OBVIOUS
  <2>. USE GroupSize DEF R!vars
  <2>1. ASSUME NEW p \in Group, Separated(p), Enter(p) PROVE R!Next
    <3>1. /\ at[p] = "outside"
          /\ entered' = [entered EXCEPT ![p] = @ + 1]
          /\ entered[p] = left[p]
      BY <2>1 DEF Enter, IInv, Calls, TypeOK
    <3>2. CASE left' = left
      BY <3>1, <3>2 DEF R!Next, R!Arrive
    <3>3. CASE left' # left
      <4>1. /\ AllArrived(barrier_nums + 1)
            /\ left' = [left EXCEPT ![p] = @ + 1]
        BY <2>1, <3>3 DEF Enter, PassFirstLoop, Return
      <4>2. Arrived = Group \ {p}
        BY <2>1, <3>1, <4>1, AtEntry DEF AllArrived
      <4>3. \A q \in Group \ {p} : entered[q] > left[p]
        <5>1. \A q \in Group : left[q] = entered[p]
          BY <2>1, <3>1, AtEntry
        <5>2. \A q \in Group \ {p} : at[q] = "arrived"
          BY <4>2 DEF Arrived
        <5>. QED
          BY <3>1, <5>1, <5>2 DEF IInv, Calls, TypeOK
      <4>. QED
        BY <3>1, <4>1, <4>3 DEF R!Next, R!ArriveLast
    <3>. QED
      BY <3>2, <3>3
  <2>2. ASSUME NEW p \in Group, Resume(p) PROVE [R!Next]_(R!vars)
    <3>1. at[p] # "outside" /\ entered' = entered /\ left[p] < entered[p]
      BY <2>2 DEF Resume, ResumeArrived, ResumeEnding, IInv, Calls, TypeOK
    <3>2. CASE left' = left
      BY <3>1, <3>2
    <3>3. CASE left' # left
      <4>1. Open
        <5>1. CASE ResumeArrived(p)
          <6>1. at[p] = "arrived" /\ AllArrived(barrier_nums)
            BY <3>3, <5>1 DEF ResumeArrived, SleepAgain
          <6>. QED
            BY <6>1, AtFirstLoop
        <5>2. CASE ResumeEnding(p)
          <6>1. at[p] = "ending" /\ AllPassed(barrier_end_nums)
            BY <3>3, <5>2 DEF ResumeEnding, SleepAgain
          <6>. QED
            BY <6>1, AtSecondLoop
        <5>. QED
          BY <2>2, <5>1, <5>2 DEF Resume
      <4>2. left' = [left EXCEPT ![p] = @ + 1]
        BY <2>2, <3>3 DEF Resume, ResumeArrived, ResumeEnding, SleepAgain,
                          PassFirstLoop, Return
      <4>3. \A q \in Group : entered[q] > left[p]
        BY <3>1, <4>1 DEF Open
      <4>. QED
        BY <3>1, <4>2, <4>3 DEF R!Next, R!Depart, R!Complete
    <3>. QED
      BY <3>2, <3>3
  <2>3. CASE UNCHANGED barrierVars
    BY <2>3 DEF barrierVars
  <2>. QED
    BY <2>1, <2>2, <2>3 DEF Next, Finished
<1>. QED
  BY <1>1, <1>2, Inductive, PTL DEF Spec, R!Spec
-----------------------------------------------------------------------------
(***************************************************************************)
(* When every caller is among Firsts, as in the processes of a job (they   *)
(* all pass rank 0), a caller that does not wait for the others stops the  *)
(* barrier but never opens it early: its entry resets barrier_end_nums     *)
(* under those that still sleep in the second loop, who sleep for good,    *)
(* and without them nobody gets through the first loop again.              *)
(***************************************************************************)
Jammed ==
  /\ TypeOK /\ Calls
  /\ barrier_nums = Cardinality(Arrived) /\ barrier_end_nums = 0
  /\ Ending # {}
  /\ \E r \in Nat : \A p \in Group : left[p] = IF at[p] = "ending" THEN r ELSE r + 1

AnyIInv == IInv \/ Jammed

\* A caller that finds another still asleep in the call before finds the second
\* loop open, and the round's count of arrivals reset.
LEMMA AtOvertaking ==
  ASSUME Firsts = Group, IInv, NEW p \in Group, at[p] = "outside", ~Separated(p)
  PROVE  /\ barrier_nums = 0 /\ Arrived = {} /\ Ending # {}
         /\ \A q \in Group : left[q] = IF at[q] = "ending" THEN left[p] - 1 ELSE left[p]
<1>. USE DEF IInv
<1>1. PICK q \in Group : left[q] < entered[p]
  BY DEF Separated, TypeOK
<1>2. entered[p] = left[p] /\ left[p] = left[q] + 1 /\ entered[q] = left[p] /\ at[q] # "outside"
  BY <1>1 DEF TypeOK, Calls, Lockstep
<1>3. \A x \in Group : entered[x] = left[p]
  <2>. SUFFICES ASSUME NEW x \in Group PROVE entered[x] = left[p]
    OBVIOUS
  <2>1. left[p] <= entered[x] /\ entered[x] <= left[q] + 1
    BY DEF Lockstep
  <2>2. left[p] \in Nat /\ entered[x] \in Nat /\ left[q] \in Nat
    BY DEF TypeOK
  <2>. QED
    BY <1>2, <2>1, <2>2
<1>4. Open
  BY <1>3 DEF Open
<1>5. Arrived = {} /\ barrier_nums = 0
  BY <1>4 DEF Opened
<1>6. \A x \in Group : at[x] \in {"outside", "ending"}
  BY <1>5 DEF Arrived, TypeOK
<1>7. Ending # {}
  BY <1>2, <1>6 DEF Ending
<1>8. \A x \in Group : left[x] = IF at[x] = "ending" THEN left[p] - 1 ELSE left[p]
  BY <1>3, <1>6 DEF Calls, TypeOK
<1>. QED
  BY <1>5, <1>7, <1>8

\* Neither loop opens while some sleep in the second and its count is reset.
LEMMA NoneGetsThrough ==
  ASSUME Jammed
  PROVE  /\ ~AllArrived(barrier_nums) /\ ~AllPassed(barrier_end_nums)
         /\ \A p \in Group : at[p] = "outside" =>
              /\ ~AllArrived(barrier_nums + 1)
              /\ Cardinality(Arrived \cup {p}) = barrier_nums + 1
<1>. USE GroupSize DEF Jammed
<1>1. PICK e \in Group : at[e] = "ending"
  BY DEF Ending
<1>2. Arrived \in SUBSET Group /\ Arrived # Group
  BY <1>1 DEF Arrived
<1>3. Cardinality(Arrived) \in Nat /\ Cardinality(Arrived) < Size
  BY <1>2, SubsetSize
<1>4. ASSUME NEW p \in Group, at[p] = "outside"
      PROVE  /\ ~AllArrived(barrier_nums + 1)
             /\ Cardinality(Arrived \cup {p}) = barrier_nums + 1
  <2>1. /\ p \in Group \ Arrived /\ Arrived \cup {p} \in SUBSET Group
        /\ Arrived \cup {p} # Group
    BY <1>1, <1>2, <1>4 DEF Arrived
  <2>2. Cardinality(Arrived \cup {p}) = barrier_nums + 1
    BY <1>2, <2>1, SubsetSize
  <2>3. Cardinality(Arrived \cup {p}) \in Nat /\ Cardinality(Arrived \cup {p}) < Size
    BY <2>1, SubsetSize
  <2>. QED
    BY <2>2, <2>3 DEF AllArrived
<1>. QED
  BY <1>3, <1>4 DEF AllArrived, AllPassed

\* What is jammed stays so, when a thread sleeps on or nothing happens.
LEMMA SleepAnyIInv ==
  ASSUME AnyIInv, notified' \in SUBSET Group,
         UNCHANGED <<barrier_nums, barrier_end_nums, at, left, entered>>
  PROVE  AnyIInv'
<1>1. CASE IInv
  BY <1>1, SleepIInv DEF AnyIInv
<1>2. CASE Jammed
  <2>1. Arrived' = Arrived /\ Ending' = Ending
    BY DEF Arrived, Ending
  <2>. QED
    BY <1>2, <2>1 DEF AnyIInv, Jammed, TypeOK, Calls
<1>. QED
  BY <1>1, <1>2 DEF AnyIInv

\* A call that does not wait for the others.
LEMMA EnterAnyIInv ==
  ASSUME Firsts = Group, AnyIInv, NEW p \in Group, Enter(p)
  PROVE  AnyIInv'
<1>1. at[p] = "outside" /\ entered' = [entered EXCEPT ![p] = @ + 1]
  BY DEF Enter
<1>2. TypeOK /\ Calls
  BY DEF AnyIInv, IInv, Jammed
<1>3. CASE IInv /\ Separated(p)
  BY <1>3, EnterIInv DEF AnyIInv
<1>4. CASE ~(IInv /\ Separated(p))
  <2>1. /\ Ending # {} /\ p \notin Arrived
        /\ ~AllArrived(barrier_nums + 1)
        /\ Cardinality(Arrived \cup {p}) = barrier_nums + 1
        /\ \E r \in Nat : \A q \in Group : left[q] = IF at[q] = "ending" THEN r ELSE r + 1
    <3>1. CASE Jammed
      BY <3>1, <1>1, NoneGetsThrough DEF Jammed, Arrived
    <3>2. CASE IInv
      <4>1. /\ barrier_nums = 0 /\ Arrived = {} /\ Ending # {}
            /\ \A q \in Group : left[q] = IF at[q] = "ending" THEN left[p] - 1 ELSE left[p]
        BY <3>2, <1>1, <1>4, AtOvertaking
      <4>2. PICK e \in Group : at[e] = "ending"
        BY <4>1 DEF Ending
      <4>3. left[p] - 1 \in Nat /\ left[p] = (left[p] - 1) + 1
        BY <4>1, <4>2, <1>2 DEF TypeOK
      <4>4. Size # 1
        <5>1. e # p /\ {e} \in SUBSET Group
          BY <4>2, <1>1
        <5>2. Cardinality({e}) = 1
          BY FS_Singleton
        <5>3. Cardinality({e}) = Size => {e} = Group
          BY <5>1, SubsetSize
        <5>. QED
          BY <5>1, <5>2, <5>3
      <4>5. Cardinality(Arrived \cup {p}) = barrier_nums + 1
        <5>1. Arrived \cup {p} = {p}
          BY <4>1
        <5>2. Cardinality({p}) = 1
          BY FS_Singleton
        <5>. QED
          BY <5>1, <5>2, <4>1
      <4>. QED
        BY <4>1, <4>3, <4>4, <4>5, GroupSize DEF AllArrived
    <3>. QED
      BY <3>1, <3>2 DEF AnyIInv
  <2>2. /\ at' = [at EXCEPT ![p] = "arrived"]
        /\ barrier_nums' = barrier_nums + 1
        /\ barrier_end_nums' = 0
        /\ notified' \in SUBSET Group
        /\ left' = left
    BY <2>1 DEF Enter, NotifyAll, Sleepers, EndNumsOnEntry
  <2>3. TypeOK' /\ Calls'
    BY <1>1, <1>2, <2>2 DEF TypeOK, Calls
  <2>4. Arrived' = Arrived \cup {p} /\ Ending' = Ending
    BY <1>1, <1>2, <2>2 DEF Arrived, Ending, TypeOK
  <2>5. \E r \in Nat : \A q \in Group : left'[q] = IF at'[q] = "ending" THEN r ELSE r + 1
    BY <1>1, <1>2, <2>1, <2>2 DEF TypeOK
  <2>6. Jammed'
    BY <2>1, <2>2, <2>3, <2>4, <2>5 DEF Jammed
  <2>. QED
    BY <2>6 DEF AnyIInv
<1>. QED
  BY <1>3, <1>4

LEMMA ResumeAnyIInv ==
  ASSUME AnyIInv, NEW p \in Group, Resume(p)
  PROVE  AnyIInv'
<1>1. CASE IInv
  BY <1>1, ResumeArrivedIInv, ResumeEndingIInv DEF Resume, AnyIInv
<1>2. CASE Jammed
  <2>1. SleepAgain(p) /\ UNCHANGED entered
    BY <1>2, NoneGetsThrough DEF Resume, ResumeArrived, ResumeEnding
  <2>2. notified' \in SUBSET Group
    BY <1>2, <2>1 DEF SleepAgain, Jammed, TypeOK
  <2>. QED
    BY <2>1, <2>2, SleepAnyIInv DEF SleepAgain
<1>. QED
  BY <1>1, <1>2 DEF AnyIInv

\* What the callers may rely on whatever they do: who is outside is nowhere ahead
\* of another, and who is a call ahead is inside.
LEMMA AnyRounds ==
  ASSUME AnyIInv, NEW p \in Group, NEW q \in Group
  PROVE  /\ left[p] <= entered[q]
         /\ at[p] = "outside" => entered[q] \in {entered[p], entered[p] + 1}
         /\ entered[q] = entered[p] + 1 => at[q] # "outside"
<1>1. /\ entered[p] \in Nat /\ entered[q] \in Nat /\ left[p] \in Nat /\ left[q] \in Nat
      /\ entered[p] = left[p] + (IF at[p] = "outside" THEN 0 ELSE 1)
      /\ entered[q] = left[q] + (IF at[q] = "outside" THEN 0 ELSE 1)
  BY DEF AnyIInv, IInv, Jammed, TypeOK, Calls
<1>2. CASE IInv
  BY <1>1, <1>2 DEF IInv, Lockstep
<1>3. CASE Jammed
  <2>1. PICK r \in Nat : \A x \in Group : left[x] = IF at[x] = "ending" THEN r ELSE r + 1
    BY <1>3 DEF Jammed
  <2>. QED
    BY <1>1, <2>1
<1>. QED
  BY <1>2, <1>3 DEF AnyIInv

\* The handler under callers that call when they like.
AnySpec == /\ BarrierInit
           /\ [][\E p \in Group : Enter(p) \/ Resume(p)]_barrierVars

\* Barrier returns to nobody before the last member has called, for callers that
\* keep no distance too, when each is the first of its own world_rank: those who
\* break it wait for ever instead.
THEOREM SafeHoweverCalled == ASSUME Firsts = Group PROVE AnySpec => []NobodyLeavesEarly
<1>1. BarrierInit => AnyIInv
  BY InitIInv DEF AnyIInv
<1>2. AnyIInv /\ [\E p \in Group : Enter(p) \/ Resume(p)]_barrierVars => AnyIInv'
  <2>. SUFFICES ASSUME AnyIInv, [\E p \in Group : Enter(p) \/ Resume(p)]_barrierVars
                PROVE  AnyIInv'
    OBVIOUS
  <2>1. ASSUME NEW p \in Group, Enter(p) \/ Resume(p) PROVE AnyIInv'
    BY <2>1, EnterAnyIInv, ResumeAnyIInv
  <2>2. CASE UNCHANGED barrierVars
    BY <2>2, SleepAnyIInv DEF barrierVars, AnyIInv, IInv, Jammed, TypeOK
  <2>. QED
    BY <2>1, <2>2
<1>3. AnyIInv => NobodyLeavesEarly
  BY AnyRounds DEF NobodyLeavesEarly
<1>. QED
  BY <1>1, <1>2, <1>3, PTL DEF AnySpec
=============================================================================
