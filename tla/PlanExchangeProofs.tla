------------------------ MODULE PlanExchangeProofs ------------------------
(***************************************************************************)
(* For any group, number of steps and size of the worker pools: when the   *)
(* training step is collective, the callers of consume() stay one round    *)
(* apart at the barrier, which is what BarrierHandler has been proved to   *)
(* need, and so the barrier keeps every plan until all have read it.       *)
(*                                                                         *)
(* Whether it is or not, a plan that has been removed never comes back,    *)
(* unless two processes make it: those of index 0 of two hosts.            *)
(***************************************************************************)
EXTENDS PlanExchange, SequenceTheorems, TLAPS

BP == INSTANCE BarrierProofs WITH Firsts <- Group, MaxCalls <- steps

Stations == {"planning", "calling", "getting", "meeting", "training", "done"}

\* Where a process is in consume() and what it has called so far.
Places == \A p \in Group :
  /\ pc[p] \in {"planning", "calling", "getting", "done"} =>
       entered[p] = step[p] /\ left[p] = step[p]
  /\ pc[p] = "meeting" => /\ left[p] <= entered[p]
                          /\ entered[p] \in {step[p], step[p] + 1}
                          /\ left[p] \in {step[p], step[p] + 1}
  /\ pc[p] = "training" => entered[p] = step[p] + 1 /\ left[p] = step[p] + 1
  /\ pc[p] = "planning" => step[p] = consumer_iter[p]
  /\ pc[p] \notin {"planning", "done"} => step[p] < consumer_iter[p] + span

\* A process is at most one training step ahead of another.
Together == \A p, q \in Group : Began(q, step[p] - 1)

Functions == /\ step \in [Group -> Nat] /\ consumer_iter \in [Group -> Nat]
             /\ pc \in [Group -> Stations]

IInv == Functions /\ Places /\ Together /\ BP!IInv

-----------------------------------------------------------------------------
\* The handler of this module is the one that the proofs are about.
LEMMA SameSize == B!Size = BP!Size
<1>1. B!Cardinality(Group) = BP!Cardinality(Group)
  BY DEF B!Cardinality, BP!Cardinality
<1>. QED
  BY <1>1 DEF B!Size, BP!Size

LEMMA SameHandler ==
  ASSUME NEW p \in Group
  PROVE  /\ B!Enter(p) <=> BP!Enter(p)
         /\ B!ResumeArrived(p) <=> BP!ResumeArrived(p)
         /\ B!ResumeEnding(p) <=> BP!ResumeEnding(p)
<1>. USE SameSize DEF B!AllArrived, BP!AllArrived, B!AllPassed, BP!AllPassed,
       B!PassFirstLoop, BP!PassFirstLoop, B!NotifyAll, BP!NotifyAll,
       B!Sleepers, BP!Sleepers, B!Return, BP!Return, B!NumsOnReturn, BP!NumsOnReturn,
       B!SleepAgain, BP!SleepAgain
<1>1. B!Enter(p) <=> BP!Enter(p)
  BY DEF B!Enter, BP!Enter, B!EndNumsOnEntry, BP!EndNumsOnEntry
<1>2. B!ResumeArrived(p) <=> BP!ResumeArrived(p)
  BY DEF B!ResumeArrived, BP!ResumeArrived
<1>3. B!ResumeEnding(p) <=> BP!ResumeEnding(p)
  BY DEF B!ResumeEnding, BP!ResumeEnding
<1>. QED
  BY <1>1, <1>2, <1>3

\* What the proofs about the handler assume.
LEMMA HandlerAssumptions == /\ BP!IsFiniteSet(Group) /\ Group # {}
                            /\ Group \subseteq Group /\ steps \in Nat
<1>1. BP!IsFiniteSet(Group)
  BY GroupAssumption DEF IsFiniteSet, BP!IsFiniteSet
<1>. QED
  BY <1>1, GroupAssumption, StepsAssumption

\* The invariant of the handler survives what it does for callers that are
\* separated, and what it has no part in.
LEMMA HandlerKept ==
  /\ BP!BarrierInit => BP!IInv
  /\ \A p \in Group : BP!IInv /\ BP!Separated(p) /\ BP!Enter(p) => BP!IInv'
  /\ \A p \in Group : BP!IInv /\ (BP!ResumeArrived(p) \/ BP!ResumeEnding(p)) => BP!IInv'
  /\ BP!IInv /\ UNCHANGED barrierVars => BP!IInv'
<1>. USE HandlerAssumptions
<1>1. BP!BarrierInit => BP!IInv
  BY BP!InitIInv
<1>2. \A p \in Group : BP!IInv /\ BP!Separated(p) /\ BP!Enter(p) => BP!IInv'
  BY BP!EnterIInv
<1>3. \A p \in Group : BP!IInv /\ (BP!ResumeArrived(p) \/ BP!ResumeEnding(p)) => BP!IInv'
  BY BP!ResumeArrivedIInv, BP!ResumeEndingIInv
<1>4. BP!IInv /\ UNCHANGED barrierVars => BP!IInv'
  <2>1. BP!IInv /\ UNCHANGED barrierVars => notified' \in SUBSET Group
    BY DEF BP!IInv, BP!TypeOK, barrierVars
  <2>. QED
    BY <2>1, BP!SleepIInv DEF barrierVars
<1>. QED
  BY <1>1, <1>2, <1>3, <1>4

\* What the handler's steps do to the calls made and returned.
LEMMA HandlerSteps ==
  ASSUME BP!IInv, NEW p \in Group
  PROVE  /\ entered \in [Group -> Nat] /\ left \in [Group -> Nat]
         /\ BP!Enter(p) => /\ entered' = [entered EXCEPT ![p] = @ + 1]
                           /\ left' \in {left, [left EXCEPT ![p] = @ + 1]}
         /\ BP!ResumeArrived(p) \/ BP!ResumeEnding(p) =>
              /\ entered' = entered /\ entered[p] = left[p] + 1
              /\ left' \in {left, [left EXCEPT ![p] = @ + 1]}
<1>1. BP!TypeOK /\ BP!Calls
  BY DEF BP!IInv
<1>2. BP!Enter(p) => /\ entered' = [entered EXCEPT ![p] = @ + 1]
                     /\ left' \in {left, [left EXCEPT ![p] = @ + 1]}
  BY DEF BP!Enter, BP!PassFirstLoop, BP!Return
<1>3. BP!ResumeArrived(p) \/ BP!ResumeEnding(p) =>
        /\ entered' = entered /\ at[p] # "outside"
        /\ left' \in {left, [left EXCEPT ![p] = @ + 1]}
  BY DEF BP!ResumeArrived, BP!ResumeEnding, BP!PassFirstLoop, BP!Return, BP!SleepAgain
<1>. QED
  BY <1>1, <1>2, <1>3 DEF BP!TypeOK, BP!Calls

\* Whoever is about to call has seen everybody begin the training step before.
LEMMA SeparatedNow ==
  ASSUME IInv, NEW p \in Group, AboutToCall(p)
  PROVE  BP!Separated(p)
<1>. SUFFICES ASSUME NEW q \in Group PROVE left[q] >= entered[p]
  BY DEF BP!Separated
<1>1. entered[p] = step[p] /\ step[p] \in Nat /\ step[q] \in Nat
  BY DEF AboutToCall, IInv, Functions
<1>2. Began(q, step[p] - 1)
  BY DEF IInv, Together
<1>3. left[q] \in {step[q], step[q] + 1} /\ (pc[q] = "training" => left[q] = step[q] + 1)
  BY DEF IInv, Places, Functions, Stations
<1>4. CASE step[q] > step[p] - 1
  BY <1>1, <1>3, <1>4
<1>5. CASE step[q] = step[p] - 1 /\ pc[q] = "training"
  BY <1>1, <1>3, <1>5
<1>. QED
  BY <1>2, <1>4, <1>5 DEF Began

LEMMA SizePositive == Size \in Nat \ {0}
<1>1. Size = BP!Size
  BY DEF Size, BP!Size, Cardinality, BP!Cardinality
<1>. QED
  BY <1>1, HandlerAssumptions, BP!GroupSize

LEMMA SpanSize == span \in Nat \ {0}
<1>1. Size \in Nat \ {0}
  BY SizePositive
<1>2. iter_per_rank \in Nat \ {0}
  BY StepsAssumption
<1>. QED
  BY <1>1, <1>2 DEF span

-----------------------------------------------------------------------------
LEMMA InitIInv == Init => IInv
<1>. SUFFICES ASSUME Init PROVE IInv
  OBVIOUS
<1>1. BP!IInv
  <2>1. BP!BarrierInit
    BY DEF Init, B!BarrierInit, BP!BarrierInit
  <2>. QED
    BY <2>1, HandlerKept
<1>2. Functions /\ Together
  BY DEF Init, Functions, Stations, Together, Began
<1>3. Places
  BY SpanSize DEF Init, Places, B!BarrierInit
<1>. QED
  BY <1>1, <1>2, <1>3 DEF IInv

\* Planning and reading, which the handler has no part in.
LEMMA LocalIInv ==
  ASSUME IInv, NEW p \in Group,
         Plan(p) \/ CallGetJson(p) \/ GetJson(p) \/ RemoveJson(p) \/ PutJson(p)
  PROVE  IInv'
<1>. USE SpanSize DEF IInv
<1>1. UNCHANGED barrierVars /\ UNCHANGED consumer_iter
  BY DEF Plan, CallGetJson, GetJson, RemoveJson, PutJson, loopVars
<1>2. BP!IInv'
  BY <1>1, HandlerKept
<1>3. UNCHANGED <<entered, left>>
  BY <1>1 DEF barrierVars
<1>4. /\ step' = step
      /\ \/ pc' = pc
         \/ pc[p] = "planning" /\ pc' = [pc EXCEPT ![p] = "done"]
         \/ pc[p] = "planning" /\ pc' = [pc EXCEPT ![p] = "calling"]
         \/ pc[p] = "calling" /\ pc' = [pc EXCEPT ![p] = "getting"]
         \/ pc[p] = "getting" /\ pc' = [pc EXCEPT ![p] = "meeting"]
         \/ /\ pc[p] = "meeting" /\ left[p] = step[p] + 1
            /\ pc' = [pc EXCEPT ![p] = "training"]
  <2>1. CASE Plan(p)
    <3>1. step[p] = consumer_iter[p] /\ pc[p] = "planning"
      BY <2>1 DEF Plan, Places
    <3>2. step' = step
      BY <2>1, <3>1 DEF Plan, Functions
    <3>. QED
      BY <2>1, <3>1, <3>2 DEF Plan, GoTo
  <2>2. CASE CallGetJson(p) \/ GetJson(p) \/ RemoveJson(p) \/ PutJson(p)
    BY <2>2 DEF CallGetJson, GetJson, RemoveJson, PutJson, GoTo, Met
  <2>. QED
    BY <2>1, <2>2
<1>5. /\ pc \in [Group -> Stations] /\ step \in [Group -> Nat] /\ consumer_iter \in [Group -> Nat]
      /\ entered \in [Group -> Nat] /\ left \in [Group -> Nat]
  BY HandlerSteps DEF Functions
<1>6. Functions'
  BY <1>1, <1>4, <1>5 DEF Functions, Stations
<1>7. Places'
  <2>. SUFFICES ASSUME NEW q \in Group PROVE
         /\ pc'[q] \in {"planning", "calling", "getting", "done"} =>
              entered[q] = step[q] /\ left[q] = step[q]
         /\ pc'[q] = "meeting" => /\ left[q] <= entered[q]
                                 /\ entered[q] \in {step[q], step[q] + 1}
                                 /\ left[q] \in {step[q], step[q] + 1}
         /\ pc'[q] = "training" => entered[q] = step[q] + 1 /\ left[q] = step[q] + 1
         /\ pc'[q] = "planning" => step[q] = consumer_iter[q]
         /\ pc'[q] \notin {"planning", "done"} => step[q] < consumer_iter[q] + span
    BY <1>1, <1>3, <1>4, <1>5 DEF Places
  <2>1. CASE pc'[q] = pc[q]
    BY <2>1 DEF Places
  <2>2. CASE pc'[q] # pc[q]
    <3>1. q = p
      BY <1>4, <1>5, <2>2
    <3>. QED
      BY <3>1, <1>4, <1>5 DEF Places
  <2>. QED
    BY <2>1, <2>2
<1>8. Together'
  <2>. SUFFICES ASSUME NEW a \in Group, NEW b \in Group, Began(b, step[a] - 1)
                PROVE  step[b] > step[a] - 1 \/ (step[b] = step[a] - 1 /\ pc'[b] = "training")
    BY <1>4 DEF Together, Began
  <2>1. pc[b] = "training" => pc'[b] = "training"
    BY <1>4, <1>5
  <2>. QED
    BY <2>1 DEF Began
<1>. QED
  BY <1>2, <1>6, <1>7, <1>8

\* The handler's steps: the call, and a thread that wakes up.
LEMMA BarrierIInv ==
  ASSUME IInv, NEW p \in Group, CallBarrier(p) \/ BarrierThread(p)
  PROVE  IInv'
<1>. USE DEF IInv
<1>1. UNCHANGED <<pc, step, consumer_iter>>
  BY DEF CallBarrier, BarrierThread, loopVars
<1>2. BP!IInv'
  <2>1. CASE CallBarrier(p)
    <3>1. BP!Separated(p) /\ BP!Enter(p)
      BY <2>1, SeparatedNow, SameHandler DEF CallBarrier
    <3>. QED
      BY <3>1, HandlerKept
  <2>2. CASE BarrierThread(p)
    BY <2>2, SameHandler, HandlerKept DEF BarrierThread, B!Resume
  <2>. QED
    BY <2>1, <2>2
<1>3. /\ pc \in [Group -> Stations] /\ step \in [Group -> Nat] /\ consumer_iter \in [Group -> Nat]
      /\ entered \in [Group -> Nat] /\ left \in [Group -> Nat]
  BY HandlerSteps DEF Functions
<1>4. /\ pc[p] = "meeting" /\ left[p] = step[p]
      /\ entered'[p] = step[p] + 1
      /\ \A q \in Group \ {p} : entered'[q] = entered[q]
  <2>1. CASE CallBarrier(p)
    <3>1. pc[p] = "meeting" /\ entered[p] = step[p] /\ BP!Enter(p)
      BY <2>1, SameHandler DEF CallBarrier, AboutToCall
    <3>2. entered' = [entered EXCEPT ![p] = @ + 1]
      BY <3>1, HandlerSteps
    <3>. QED
      BY <3>1, <3>2, <1>3 DEF Places
  <2>2. CASE BarrierThread(p)
    <3>1. entered' = entered /\ entered[p] = left[p] + 1
      BY <2>2, SameHandler, HandlerSteps DEF BarrierThread, B!Resume
    <3>. QED
      BY <3>1, <1>3 DEF Places, Stations
  <2>. QED
    BY <2>1, <2>2
<1>5. left' \in {left, [left EXCEPT ![p] = @ + 1]}
  BY SameHandler, HandlerSteps DEF CallBarrier, BarrierThread, B!Resume
<1>6. Places'
  <2>. SUFFICES ASSUME NEW q \in Group PROVE
         /\ pc[q] \in {"planning", "calling", "getting", "done"} =>
              entered'[q] = step[q] /\ left'[q] = step[q]
         /\ pc[q] = "meeting" => /\ left'[q] <= entered'[q]
                                /\ entered'[q] \in {step[q], step[q] + 1}
                                /\ left'[q] \in {step[q], step[q] + 1}
         /\ pc[q] = "training" => entered'[q] = step[q] + 1 /\ left'[q] = step[q] + 1
         /\ pc[q] = "planning" => step[q] = consumer_iter[q]
         /\ pc[q] \notin {"planning", "done"} => step[q] < consumer_iter[q] + span
    BY <1>1, <1>3 DEF Places
  <2>1. CASE q = p
    BY <2>1, <1>3, <1>4, <1>5 DEF Places
  <2>2. CASE q # p
    BY <2>2, <1>3, <1>4, <1>5 DEF Places
  <2>. QED
    BY <2>1, <2>2
<1>7. Functions' /\ Together'
  BY <1>1 DEF Functions, Together, Began
<1>. QED
  BY <1>2, <1>6, <1>7

LEMMA TrainIInv ==
  ASSUME Collective, IInv, NEW p \in Group, Train(p)
  PROVE  IInv'
<1>. USE SpanSize DEF IInv
<1>1. /\ UNCHANGED barrierVars /\ UNCHANGED <<entered, left>>
      /\ pc[p] = "training"
      /\ step' = [step EXCEPT ![p] = step[p] + 1]
      /\ \A q \in Group : Began(q, step[p])
  BY DEF Train, Trained, barrierVars
<1>2. BP!IInv'
  BY <1>1, HandlerKept
<1>3. /\ pc \in [Group -> Stations] /\ step \in [Group -> Nat] /\ consumer_iter \in [Group -> Nat]
      /\ entered \in [Group -> Nat] /\ left \in [Group -> Nat]
  BY HandlerSteps DEF Functions
<1>4. \/ /\ step[p] + 1 < consumer_iter[p] + span
         /\ pc' = [pc EXCEPT ![p] = "calling"] /\ consumer_iter' = consumer_iter
      \/ /\ ~(step[p] + 1 < consumer_iter[p] + span)
         /\ pc' = [pc EXCEPT ![p] = "planning"]
         /\ consumer_iter' = [consumer_iter EXCEPT ![p] = @ + span]
  BY DEF Train, GoTo, loopVars
<1>5. step[p] < consumer_iter[p] + span
  BY <1>1 DEF Places
<1>6. Functions'
  BY <1>1, <1>3, <1>4 DEF Functions, Stations
<1>7. Places'
  <2>. SUFFICES ASSUME NEW q \in Group PROVE
         /\ pc'[q] \in {"planning", "calling", "getting", "done"} =>
              entered[q] = step'[q] /\ left[q] = step'[q]
         /\ pc'[q] = "meeting" => /\ left[q] <= entered[q]
                                 /\ entered[q] \in {step'[q], step'[q] + 1}
                                 /\ left[q] \in {step'[q], step'[q] + 1}
         /\ pc'[q] = "training" => entered[q] = step'[q] + 1 /\ left[q] = step'[q] + 1
         /\ pc'[q] = "planning" => step'[q] = consumer_iter'[q]
         /\ pc'[q] \notin {"planning", "done"} => step'[q] < consumer_iter'[q] + span
    BY <1>1 DEF Places
  <2>1. CASE q = p
    <3>1. step'[p] = step[p] + 1 /\ entered[p] = step[p] + 1 /\ left[p] = step[p] + 1
      BY <1>1, <1>3 DEF Places
    <3>2. \/ /\ step[p] + 1 < consumer_iter[p] + span
             /\ pc'[p] = "calling" /\ consumer_iter'[p] = consumer_iter[p]
          \/ /\ step[p] + 1 = consumer_iter[p] + span
             /\ pc'[p] = "planning" /\ consumer_iter'[p] = consumer_iter[p] + span
      BY <1>3, <1>4, <1>5
    <3>. QED
      BY <2>1, <3>1, <3>2, <1>3
  <2>2. CASE q # p
    <3>1. step'[q] = step[q] /\ pc'[q] = pc[q] /\ consumer_iter'[q] = consumer_iter[q]
      BY <2>2, <1>1, <1>3, <1>4
    <3>. QED
      BY <3>1, <1>3 DEF Places
  <2>. QED
    BY <2>1, <2>2
<1>8. Together'
  <2>. SUFFICES ASSUME NEW a \in Group, NEW b \in Group
                PROVE  Began(b, step[a] - 1)'
    BY DEF Together, Began
  <2>. DEFINE s == step'[a] - 1
  <2>1. s \in Int /\ step[b] \in Nat /\ step'[b] \in Nat
    BY <1>1, <1>3
  <2>2. Began(b, s)
    <3>1. CASE a = p
      BY <3>1, <1>1, <1>3
    <3>2. CASE a # p
      BY <3>2, <1>1, <1>3 DEF Together
    <3>. QED
      BY <3>1, <3>2
  <2>3. step'[b] > s \/ (step'[b] = s /\ pc'[b] = "training")
    <3>1. CASE b = p
      <4>1. step'[b] = step[b] + 1 /\ step[b] >= s
        BY <3>1, <2>1, <2>2, <1>1, <1>3 DEF Began
      <4>. QED
        BY <4>1, <2>1
    <3>2. CASE b # p
      BY <3>2, <2>1, <2>2, <1>1, <1>3, <1>4 DEF Began
    <3>. QED
      BY <3>1, <3>2
  <2>. QED
    BY <2>3 DEF Began
<1>. QED
  BY <1>2, <1>6, <1>7, <1>8

-----------------------------------------------------------------------------
THEOREM Inductive == ASSUME Collective PROVE Spec => []IInv
<1>1. IInv /\ [Next]_vars => IInv'
  <2>. SUFFICES ASSUME IInv, [Next]_vars PROVE IInv'
    OBVIOUS
  <2>1. ASSUME NEW p \in Group, Step(p) \/ PutJson(p) PROVE IInv'
    BY <2>1, LocalIInv, BarrierIInv, TrainIInv DEF Step
  <2>2. CASE UNCHANGED vars
    <3>1. BP!IInv'
      BY <2>2, HandlerKept DEF vars, IInv
    <3>. QED
      BY <2>2, <3>1 DEF IInv, Functions, Places, Together, Began, vars, barrierVars, loopVars
  <2>. QED
    BY <2>1, <2>2 DEF Next, Finished
<1>. QED
  BY <1>1, InitIInv, PTL DEF Spec

\* consume() calls global_comm_barrier_rpc only when everybody's call before has
\* returned, as long as the training step in between is collective.
THEOREM Separation == ASSUME Collective PROVE Spec => []CallersSeparated
<1>1. IInv => CallersSeparated
  BY SeparatedNow DEF CallersSeparated, B!Separated, BP!Separated
<1>. QED
  BY <1>1, Inductive, PTL

\* No kv_store.remove() takes a plan from a process that has not read it: who
\* removes has left the barrier, and whoever has called it has its plan.
THEOREM PlansKept == ASSUME Collective PROVE Spec => []RemovedAfterAllGot
<1>1. IInv => RemovedAfterAllGot
  <2>. SUFFICES ASSUME IInv, NEW p \in Group, NEW q \in Group, NEW s \in 0..(steps - 1),
                       Removed(p, s)
                PROVE  Got(q, s)
    BY DEF RemovedAfterAllGot
  <2>. USE DEF IInv
  <2>1. /\ step[p] \in Nat /\ step[q] \in Nat /\ s \in Int
        /\ entered[q] \in Nat /\ left[p] \in Nat
    BY HandlerSteps, StepsAssumption DEF Functions
  <2>2. left[p] > s
    BY <2>1 DEF Removed, Places, Functions, Stations
  <2>3. left[p] <= entered[q]
    BY DEF BP!IInv, BP!Lockstep
  <2>4. entered[q] > s
    BY <2>1, <2>2, <2>3
  <2>. QED
    BY <2>1, <2>4 DEF Places, Got, Functions, Stations
<1>. QED
  BY <1>1, Inductive, PTL

-----------------------------------------------------------------------------
(***************************************************************************)
(* A plan is put once.  Spans begin at multiples of the number of          *)
(* processes, and the test of Assigned is on the beginning of the span: it *)
(* is process 0 of a host that plans all steps, and it plans each once,    *)
(* when its producer_iter passes it.  What is planned on one host only is  *)
(* put once.                                                               *)
(***************************************************************************)
Windows ==
  /\ step \in [Group -> Nat] /\ pc \in [Group -> Stations]
  /\ span_id \in [Group -> Nat]
  /\ producer_iter \in [Group -> Nat] /\ consumer_iter \in [Group -> Nat]
  /\ \A p \in Group :
       /\ producer_iter[p] % Size = 0
       /\ pc[p] = "planning" => step[p] = consumer_iter[p]
       /\ pc[p] \notin {"planning", "done"} => step[p] < consumer_iter[p] + span

\* The first step that p has not submitted and will, if it is the planner.
Horizon(p) == IF pc[p] \in {"planning", "done"} THEN producer_iter[p]
              ELSE producer_iter[p] + ProducerSpan(p)

\* The steps submitted so far.
Planned == /\ planned \in [Group -> SUBSET Nat]
           /\ \A p \in Group : \A s \in planned[p] : index[p] = 0 /\ s < Horizon(p)

\* Nobody has put or got the plan of s, or two hosts make it.
Fresh(s) == ~Twice(s) => s \notin store /\ \A q \in Group : ~Got(q, s)

Elements(s) == {s[i] : i \in 1..Len(s)}

\* A plan in the making is made once, and nobody has it yet, unless another
\* host makes it too.
Pools ==
  /\ pool \in [Group -> Seq(Nat)]
  /\ \A p \in Group : /\ \A s \in Elements(pool[p]) : s \in planned[p] /\ Fresh(s)
                      /\ \A i, j \in 1..Len(pool[p]) : pool[p][i] = pool[p][j] => i = j

\* What is in the store, or was, has been submitted; what was removed is not in
\* the store, unless two hosts make it.
Stored ==
  /\ store \subseteq Nat
  /\ \A s \in store : \E r \in Group : s \in planned[r]
  /\ \A q \in Group, s \in Nat : Got(q, s) => \E r \in Group : s \in planned[r]
  /\ \A q \in Group : \A s \in store : ~Twice(s) => ~Removed(q, s)

SInv == Windows /\ Planned /\ Pools /\ Stored

-----------------------------------------------------------------------------
\* Division by a constant that is not a numeral.
LEMMA Product ==
  ASSUME NEW n \in Nat \ {0}, NEW m \in Int, n * m >= 0, n * m < n
  PROVE  m = 0
<1>1. CASE m >= 1
  <2>1. n * m = n * (m - 1) + n
    OBVIOUS
  <2>2. n * (m - 1) >= 0
    BY <1>1
  <2>. QED
    BY <2>1, <2>2
<1>2. CASE m <= -1
  <2>1. n * (-m) >= 1
    BY <1>2
  <2>2. n * (-m) = -(n * m)
    OBVIOUS
  <2>. QED
    BY <2>1, <2>2
<1>. QED
  BY <1>1, <1>2

\* A multiple of n stays one when another is added.
LEMMA ModKept ==
  ASSUME NEW n \in Nat \ {0}, NEW x \in Nat, NEW k \in Nat, x % n = 0
  PROVE  (x + n * k) % n = 0
<1>. DEFINE d == x \div n
            y == x + n * k
            e == y \div n
            r == y % n
<1>1. x = n * d /\ d \in Nat
  OBVIOUS
<1>2. n * k \in Nat /\ y \in Nat
  OBVIOUS
<1>3. y = n * e + r /\ e \in Nat /\ r \in 0..(n - 1)
  BY <1>2
<1>. HIDE DEF d, y, e, r
<1>4. n * ((d + k) - e) = (n * d + n * k) - n * e
  BY <1>1, <1>3
<1>5. n * ((d + k) - e) = r
  BY <1>1, <1>3, <1>4 DEF y
<1>6. (d + k) - e = 0
  BY <1>5, <1>1, <1>3, Product
<1>7. r = n * 0
  BY <1>5, <1>6
<1>. QED
  BY <1>7 DEF r, y

LEMMA SpansAligned ==
  ASSUME NEW x \in Nat, x % Size = 0
  PROVE  (x + span) % Size = 0 /\ (x + span * 2) % Size = 0
<1>1. Size \in Nat \ {0}
  BY SizePositive
<1>2. iter_per_rank \in Nat /\ iter_per_rank * 2 \in Nat
  BY StepsAssumption
<1>3. span * 2 = Size * (iter_per_rank * 2)
  BY <1>1, <1>2 DEF span
<1>4. (x + Size * iter_per_rank) % Size = 0 /\ (x + Size * (iter_per_rank * 2)) % Size = 0
  BY <1>1, <1>2, ModKept
<1>. QED
  BY <1>3, <1>4 DEF span

\* What is left of a sequence when its i-th element is taken out.
LEMMA TakenOut ==
  ASSUME NEW S, NEW s \in Seq(S), NEW i \in 1..Len(s)
  PROVE  /\ RemoveAt(s, i) \in Seq(S) /\ Len(RemoveAt(s, i)) = Len(s) - 1
         /\ \A j \in 1..(Len(s) - 1) : RemoveAt(s, i)[j] = IF j < i THEN s[j] ELSE s[j + 1]
<1>. DEFINE a == SubSeq(s, 1, i - 1)
            b == SubSeq(s, i + 1, Len(s))
<1>1. a \in Seq(S) /\ Len(a) = i - 1 /\ \A j \in 1..(i - 1) : a[j] = s[j]
  OBVIOUS
<1>2. b \in Seq(S) /\ Len(b) = Len(s) - i /\ \A j \in 1..(Len(s) - i) : b[j] = s[i + j]
  OBVIOUS
<1>. HIDE DEF a, b
<1>3. RemoveAt(s, i) = a \o b
  BY DEF RemoveAt, a, b
<1>4. a \o b \in Seq(S) /\ Len(a \o b) = Len(a) + Len(b)
  BY <1>1, <1>2, ConcatProperties
<1>5. \A j \in 1..(Len(s) - 1) : (a \o b)[j] = IF j < i THEN s[j] ELSE s[j + 1]
  BY <1>1, <1>2
<1>. QED
  BY <1>1, <1>2, <1>3, <1>4, <1>5

-----------------------------------------------------------------------------
LEMMA InitSInv == Init => SInv
<1>. SUFFICES ASSUME Init PROVE SInv
  OBVIOUS
<1>1. Windows
  <2>1. 0 % Size = 0
    BY SizePositive
  <2>. QED
    BY <2>1, SpanSize DEF Init, Windows, Stations
<1>2. Planned /\ Pools
  BY DEF Init, Planned, Pools, Elements
<1>3. Stored
  BY DEF Init, Stored, Got
<1>. QED
  BY <1>1, <1>2, <1>3 DEF SInv

LEMMA PlanSInv ==
  ASSUME SInv, NEW p \in Group, Plan(p)
  PROVE  SInv'
<1>. DEFINE new == Submitted(p)
            n == ProducerSpan(p)
<1>. USE DEF SInv
<1>1. /\ UNCHANGED <<index, store, span_id, producer_iter, consumer_iter>>
      /\ pc[p] = "planning"
  BY DEF Plan
<1>2. step' = step
  BY DEF Plan, Windows
<1>3. n \in Nat
  BY SpanSize DEF ProducerSpan
<1>4. CASE producer_iter[p] + n >= steps
  <2>1. /\ pc' = [pc EXCEPT ![p] = "done"]
        /\ UNCHANGED <<pool, planned>>
    BY <1>4 DEF Plan, GoTo
  <2>2. \A q \in Group : \A s : (Got(q, s)' <=> Got(q, s)) /\ (Removed(q, s)' <=> Removed(q, s))
    BY <1>1, <1>2, <2>1 DEF Got, Removed, Windows
  <2>3. Windows'
    BY <1>1, <1>2, <2>1 DEF Windows, Stations
  <2>4. Planned'
    <3>1. \A q \in Group : Horizon(q)' = Horizon(q)
      BY <1>1, <2>1 DEF Horizon, ProducerSpan, Windows
    <3>. QED
      BY <3>1, <1>1, <2>1 DEF Planned
  <2>5. Pools' /\ Stored'
    <3>1. \A s : (Twice(s)' <=> Twice(s)) /\ (Fresh(s)' <=> Fresh(s))
      BY <1>1, <2>1, <2>2 DEF Twice, Fresh
    <3>2. Pools'
      BY <3>1, <2>1 DEF Pools, Elements
    <3>. QED
      BY <3>1, <3>2, <1>1, <2>1, <2>2 DEF Stored
  <2>. QED
    BY <2>3, <2>4, <2>5
<1>5. CASE ~(producer_iter[p] + n >= steps)
  <2>1. /\ pc' = [pc EXCEPT ![p] = "calling"]
        /\ pool' = [pool EXCEPT ![p] = @ \o new]
        /\ planned' = [planned EXCEPT ![p] = @ \cup Range(new)]
    BY <1>5 DEF Plan, GoTo
  <2>2. \A q \in Group : \A s : (Got(q, s)' <=> Got(q, s)) /\ (Removed(q, s)' <=> Removed(q, s))
    BY <1>1, <1>2, <2>1 DEF Got, Removed, Windows
  <2>3. Windows'
    BY <1>1, <1>2, <2>1, SpanSize DEF Windows, Stations
  <2>4. producer_iter[p] \in Nat
    BY DEF Windows
  <2>5. /\ new \in Seq(Nat)
        /\ \A i \in 1..Len(new) : /\ index[p] = 0 /\ new[i] >= producer_iter[p]
                                  /\ new[i] < producer_iter[p] + n
                                  /\ \A j \in 1..Len(new) : new[i] = new[j] => i = j
    <3>1. CASE Assigned(p)
      <4>1. index[p] = 0
        BY <3>1 DEF Assigned, Windows
      <4>2. new = [i \in 1..n |-> producer_iter[p] + i - 1]
        BY <3>1 DEF Submitted
      <4>3. new \in [1..n -> Nat]
        BY <4>2, <2>4, <1>3
      <4>4. new \in Seq(Nat) /\ Len(new) = n
        BY <4>3, <1>3
      <4>. HIDE DEF n
      <4>. QED
        BY <4>1, <4>2, <4>4, <2>4, <1>3
    <3>2. CASE ~Assigned(p)
      BY <3>2 DEF Submitted
    <3>. QED
      BY <3>1, <3>2
  <2>6. Range(new) = Elements(new)
    BY <2>5 DEF Range, Elements
  <2>. HIDE DEF new, n
  <2>7. Planned'
    <3>1. planned'[p] = planned[p] \cup Elements(new)
      BY <2>1, <2>6 DEF Planned
    <3>2. \A q \in Group \ {p} : planned'[q] = planned[q] /\ Horizon(q)' = Horizon(q)
      BY <2>1, <1>1 DEF Planned, Horizon, ProducerSpan, Windows
    <3>3. Horizon(p) = producer_iter[p] /\ Horizon(p)' = producer_iter[p] + n
      BY <2>1, <1>1 DEF Horizon, ProducerSpan, Windows, n
    <3>4. planned' \in [Group -> SUBSET Nat]
      BY <3>1, <2>1, <2>5, <2>6 DEF Planned, Elements
    <3>5. \A s \in planned'[p] : index[p] = 0 /\ s < Horizon(p)'
      <4>1. ASSUME NEW s \in planned[p] PROVE index[p] = 0 /\ s < Horizon(p)'
        <5>1. s \in Nat /\ index[p] = 0 /\ s < producer_iter[p]
          BY <3>3 DEF Planned
        <5>. QED
          BY <5>1, <3>3, <2>4, <1>3
      <4>2. ASSUME NEW i \in 1..Len(new) PROVE index[p] = 0 /\ new[i] < Horizon(p)'
        BY <3>3, <2>5
      <4>. QED
        BY <3>1, <4>1, <4>2 DEF Elements
    <3>. QED
      BY <3>2, <3>4, <3>5, <1>1 DEF Planned
  <2>8. \A i \in 1..Len(new) : new[i] \notin planned[p]
    <3>. SUFFICES ASSUME NEW i \in 1..Len(new), new[i] \in planned[p]
                  PROVE  FALSE
      OBVIOUS
    <3>1. Horizon(p) = producer_iter[p]
      BY <1>1 DEF Horizon
    <3>2. new[i] \in Nat /\ new[i] < producer_iter[p]
      BY <3>1 DEF Planned
    <3>. QED
      BY <3>2, <2>5, <2>4
  <2>15. \A r \in Group : planned[r] \subseteq planned'[r]
    BY <2>1 DEF Planned
  <2>16. \A s : Twice(s) => Twice(s)'
    BY <2>15 DEF Twice
  <2>9. ASSUME NEW s \in Elements(new) PROVE Fresh(s)'
    <3>1. s \in Nat /\ s \in planned'[p] /\ s \notin planned[p]
      BY <2>1, <2>5, <2>6, <2>8 DEF Planned, Elements
    <3>2. ~Twice(s)' => \A r \in Group : s \notin planned[r]
      BY <3>1, <2>15 DEF Twice
    <3>. QED
      BY <3>1, <3>2, <1>1, <2>2 DEF Stored, Fresh
  <2>10. Pools'
    <3>. DEFINE old == pool[p]
    <3>1. old \in Seq(Nat) /\ pool'[p] = old \o new
      BY <2>1 DEF Pools
    <3>2. \A s \in Elements(old) : s \in planned[p] /\ Fresh(s)
      BY DEF Pools
    <3>. HIDE DEF old
    <3>3. /\ old \o new \in Seq(Nat) /\ Len(old \o new) = Len(old) + Len(new)
          /\ \A i \in 1..(Len(old) + Len(new)) :
               (old \o new)[i] = IF i <= Len(old) THEN old[i] ELSE new[i - Len(old)]
      BY <3>1, <2>5, ConcatProperties
    <3>4. \A i \in 1..Len(pool'[p]) :
            \/ i \in 1..Len(old) /\ pool'[p][i] = old[i]
            \/ /\ i \notin 1..Len(old) /\ i - Len(old) \in 1..Len(new)
               /\ pool'[p][i] = new[i - Len(old)]
      <4>0. Len(old) \in Nat /\ Len(new) \in Nat
        BY <3>1, <2>5
      <4>1. ASSUME NEW i \in 1..(Len(old) + Len(new)), i <= Len(old)
            PROVE  i \in 1..Len(old) /\ (old \o new)[i] = old[i]
        BY <4>0, <4>1, <3>3
      <4>2. ASSUME NEW i \in 1..(Len(old) + Len(new)), ~(i <= Len(old))
            PROVE  /\ i \notin 1..Len(old) /\ i - Len(old) \in 1..Len(new)
                   /\ (old \o new)[i] = new[i - Len(old)]
        BY <4>0, <4>2, <3>3
      <4>. QED
        BY <4>1, <4>2, <3>1, <3>3
    <3>5. \A i, j \in 1..Len(pool'[p]) : pool'[p][i] = pool'[p][j] => i = j
      <4>. SUFFICES ASSUME NEW i \in 1..Len(pool'[p]), NEW j \in 1..Len(pool'[p]),
                           pool'[p][i] = pool'[p][j]
                    PROVE  i = j
        OBVIOUS
      <4>1. CASE i \in 1..Len(old) /\ j \in 1..Len(old)
        <5>1. old[i] = old[j]
          BY <4>1, <3>4
        <5>. QED
          BY <4>1, <5>1 DEF Pools, old
      <4>2. CASE i \notin 1..Len(old) /\ j \notin 1..Len(old)
        <5>1. i - Len(old) = j - Len(old)
          <6>1. /\ i - Len(old) \in 1..Len(new) /\ j - Len(old) \in 1..Len(new)
                /\ new[i - Len(old)] = new[j - Len(old)]
            BY <4>2, <3>4
          <6>. QED
            BY <6>1, <2>5
        <5>. QED
          BY <5>1, <3>1
      <4>. QED
        BY <4>1, <4>2, <3>2, <3>4, <2>8 DEF Elements
    <3>6. \A s \in Elements(pool'[p]) : s \in planned'[p] /\ Fresh(s)'
      <4>. SUFFICES ASSUME NEW s \in Elements(pool'[p])
                    PROVE  s \in planned'[p] /\ Fresh(s)'
        OBVIOUS
      <4>1. planned'[p] = planned[p] \cup Elements(new)
        BY <2>1, <2>6 DEF Planned
      <4>2. s \in Elements(old) \/ s \in Elements(new)
        BY <3>4 DEF Elements
      <4>3. CASE s \in Elements(old)
        BY <4>1, <4>3, <3>2, <2>16, <2>2, <1>1 DEF Fresh
      <4>4. CASE s \in Elements(new)
        BY <4>1, <4>4, <2>9
      <4>. QED
        BY <4>2, <4>3, <4>4
    <3>7. \A q \in Group \ {p} : pool'[q] = pool[q] /\ planned'[q] = planned[q]
      BY <2>1 DEF Pools, Planned
    <3>8. pool' \in [Group -> Seq(Nat)]
      BY <3>1, <3>3, <2>1 DEF Pools
    <3>9. \A q \in Group \ {p} : \A s \in Elements(pool[q]) : Fresh(s)'
      <4>1. \A s : Fresh(s) => Fresh(s)'
        BY <2>16, <2>2, <1>1 DEF Fresh
      <4>. QED
        BY <4>1 DEF Pools
    <3>. QED
      BY <3>5, <3>6, <3>7, <3>8, <3>9 DEF Pools
  <2>11. Stored'
    <3>1. \A q \in Group : \A s \in store' : ~Twice(s)' => ~Removed(q, s)'
      BY <2>16, <1>1, <2>2 DEF Stored
    <3>. QED
      BY <3>1, <2>15, <1>1, <2>2 DEF Stored
  <2>. QED
    BY <2>3, <2>7, <2>10, <2>11
<1>. QED
  BY <1>4, <1>5

LEMMA PutSInv ==
  ASSUME SInv, NEW p \in Group, PutJson(p)
  PROVE  SInv'
<1>. USE DEF SInv
<1>1. PICK i \in 1..Min({iter_per_rank, Len(pool[p])}) :
        /\ store' = store \cup {pool[p][i]}
        /\ pool' = [pool EXCEPT ![p] = RemoveAt(@, i)]
  BY DEF PutJson
<1>2. UNCHANGED <<index, pc, step, span_id, producer_iter, consumer_iter, planned>>
  BY DEF PutJson, loopVars
<1>. DEFINE old == pool[p]
<1>3. old \in Seq(Nat) /\ Len(old) \in Nat
  BY DEF Pools
<1>4. i \in 1..Len(old)
  <2>1. Min({iter_per_rank, Len(old)}) <= Len(old) /\ Min({iter_per_rank, Len(old)}) \in Nat
    BY <1>3, StepsAssumption DEF Min
  <2>. QED
    BY <2>1, <1>1, <1>3
<1>5. /\ RemoveAt(old, i) \in Seq(Nat) /\ Len(RemoveAt(old, i)) = Len(old) - 1
      /\ \A j \in 1..(Len(old) - 1) :
           RemoveAt(old, i)[j] = IF j < i THEN old[j] ELSE old[j + 1]
  BY <1>3, <1>4, TakenOut
<1>6. pool'[p] = RemoveAt(old, i)
  BY <1>1 DEF Pools
<1>7. \A q \in Group : \A s : (Got(q, s)' <=> Got(q, s)) /\ (Removed(q, s)' <=> Removed(q, s))
  BY <1>2 DEF Got, Removed
<1>8. Windows' /\ Planned'
  BY <1>2 DEF Windows, Planned, Horizon, ProducerSpan
<1>9. /\ old[i] \in planned[p] /\ old[i] \in Nat
      /\ ~Twice(old[i]) => \A q \in Group : ~Removed(q, old[i])
  <2>1. old[i] \in planned[p] /\ old[i] \in Nat /\ Fresh(old[i])
    BY <1>3, <1>4 DEF Pools, Elements
  <2>. QED
    BY <2>1 DEF Fresh, Got, Removed
<1>12. \A s : Twice(s)' <=> Twice(s)
  BY <1>2 DEF Twice
<1>10. Stored'
  BY <1>1, <1>2, <1>7, <1>9, <1>12 DEF Stored
<1>11. Pools'
  <2>. HIDE DEF old
  <2>6. \A j \in 1..Len(pool'[p]) : \E k \in 1..Len(old) : k # i /\ pool'[p][j] = old[k]
    <3>. SUFFICES ASSUME NEW j \in 1..Len(pool'[p])
                  PROVE  \E k \in 1..Len(old) : k # i /\ pool'[p][j] = old[k]
      OBVIOUS
    <3>1. j \in 1..(Len(old) - 1)
      BY <1>5, <1>6
    <3>2. CASE j < i
      BY <3>1, <3>2, <1>3, <1>4, <1>5, <1>6
    <3>3. CASE ~(j < i)
      <4>1. pool'[p][j] = old[j + 1]
        BY <3>1, <3>3, <1>5, <1>6
      <4>2. j + 1 \in 1..Len(old) /\ j + 1 # i
        BY <3>1, <3>3, <1>3, <1>4
      <4>. QED
        BY <4>1, <4>2
    <3>. QED
      BY <3>2, <3>3
  <2>7. \A k \in 1..Len(old) :
          /\ old[k] \in planned[p] /\ Fresh(old[k])
          /\ k # i => old[k] # old[i]
    BY <1>4 DEF Pools, Elements, old
  <2>8. store' = store \cup {old[i]}
    BY <1>1 DEF old
  <2>9. \A s : Fresh(s) /\ s # old[i] => Fresh(s)'
    BY <2>8, <1>7, <1>12 DEF Fresh
  <2>1. \A s \in Elements(pool'[p]) : s \in planned[p] /\ Fresh(s)'
    <3>. SUFFICES ASSUME NEW s \in Elements(pool'[p])
                  PROVE  s \in planned[p] /\ Fresh(s)'
      OBVIOUS
    <3>1. PICK k \in 1..Len(old) : k # i /\ s = old[k]
      BY <2>6 DEF Elements
    <3>2. s \in planned[p] /\ Fresh(s) /\ s # old[i]
      BY <2>7, <3>1
    <3>. QED
      BY <3>2, <2>9
  <2>2. \A j, k \in 1..Len(pool'[p]) : pool'[p][j] = pool'[p][k] => j = k
    <3>. SUFFICES ASSUME NEW j \in 1..Len(pool'[p]), NEW k \in 1..Len(pool'[p]),
                         pool'[p][j] = pool'[p][k]
                  PROVE  j = k
      OBVIOUS
    <3>. DEFINE u == IF j < i THEN j ELSE j + 1
                v == IF k < i THEN k ELSE k + 1
    <3>0. j \in 1..(Len(old) - 1) /\ k \in 1..(Len(old) - 1)
      BY <1>5, <1>6
    <3>1. /\ pool'[p][j] = old[u] /\ u \in 1..Len(old)
          /\ pool'[p][k] = old[v] /\ v \in 1..Len(old)
      <4>0. i \in Nat /\ i <= Len(old) /\ Len(old) \in Nat
        BY <1>3, <1>4
      <4>1. pool'[p][j] = old[u] /\ u \in 1..Len(old)
        <5>0. pool'[p][j] = IF j < i THEN old[j] ELSE old[j + 1]
          BY <3>0, <1>5, <1>6
        <5>1. CASE j < i
          BY <5>0, <5>1, <4>0, <3>0
        <5>2. CASE ~(j < i)
          BY <5>0, <5>2, <4>0, <3>0
        <5>. QED
          BY <5>1, <5>2
      <4>2. pool'[p][k] = old[v] /\ v \in 1..Len(old)
        <5>0. pool'[p][k] = IF k < i THEN old[k] ELSE old[k + 1]
          BY <3>0, <1>5, <1>6
        <5>1. CASE k < i
          BY <5>0, <5>1, <4>0, <3>0
        <5>2. CASE ~(k < i)
          BY <5>0, <5>2, <4>0, <3>0
        <5>. QED
          BY <5>1, <5>2
      <4>. QED
        BY <4>1, <4>2
    <3>2. u = v
      <4>. HIDE DEF u, v
      <4>. QED
        BY <3>1 DEF Pools, old
    <3>. QED
      BY <3>2, <1>4, <1>3
  <2>3. \A q \in Group \ {p} : pool'[q] = pool[q]
    BY <1>1 DEF Pools
  <2>4. \A q \in Group \ {p} : \A s \in Elements(pool[q]) : Fresh(s)'
    <3>. SUFFICES ASSUME NEW q \in Group \ {p}, NEW s \in Elements(pool[q])
                  PROVE  Fresh(s)'
      OBVIOUS
    <3>1. s \in planned[q] /\ Fresh(s)
      BY DEF Pools
    <3>2. CASE s = old[i]
      BY <3>1, <3>2, <1>9, <1>12 DEF Twice, Fresh
    <3>3. CASE s # old[i]
      BY <3>1, <3>3, <2>9
    <3>. QED
      BY <3>2, <3>3
  <2>5. pool' \in [Group -> Seq(Nat)]
    BY <1>1, <1>5, <1>6 DEF Pools
  <2>. QED
    BY <2>1, <2>2, <2>3, <2>4, <2>5, <1>2 DEF Pools
<1>. QED
  BY <1>8, <1>10, <1>11

\* The other steps: GetJson gets what is stored, RemoveJson removes it.
LEMMA OtherSInv ==
  ASSUME SInv, NEW p \in Group,
         \/ CallGetJson(p) \/ GetJson(p) \/ RemoveJson(p)
         \/ CallBarrier(p) \/ BarrierThread(p)
  PROVE  SInv'
<1>. USE DEF SInv
<1>1. /\ UNCHANGED <<index, step, pool, span_id, producer_iter, consumer_iter, planned>>
      /\ store' \subseteq store
  BY DEF CallGetJson, GetJson, RemoveJson, CallBarrier, BarrierThread, loopVars
<1>2. PICK place \in Stations \ {"planning", "done"} :
        /\ pc' = pc \/ pc' = [pc EXCEPT ![p] = place]
        /\ pc' # pc => /\ pc[p] \in {"calling", "getting", "meeting"}
                       /\ place = "meeting" => step[p] \in store
                       /\ place = "training" => pc[p] = "meeting" /\ step[p] \notin store'
  BY DEF CallGetJson, GetJson, RemoveJson, CallBarrier, BarrierThread, GoTo, Stations
<1>3. \A q \in Group : \A s : /\ Got(q, s)' => Got(q, s) \/ s \in store
                              /\ Removed(q, s)' => Removed(q, s) \/ s \notin store'
  BY <1>1, <1>2 DEF Got, Removed, Windows, Stations
<1>4. Windows'
  BY <1>1, <1>2 DEF Windows, Stations
<1>5. Planned'
  <2>1. \A q \in Group : Horizon(q)' = Horizon(q)
    BY <1>1, <1>2 DEF Horizon, ProducerSpan, Windows, Stations
  <2>. QED
    BY <2>1, <1>1 DEF Planned
<1>6. Pools'
  <2>1. ASSUME NEW s, Fresh(s) PROVE Fresh(s)'
    <3>1. \A q \in Group : s \notin store /\ ~Got(q, s) => ~Got(q, s)'
      BY <1>3 DEF Got
    <3>. QED
      BY <2>1, <3>1, <1>1 DEF Fresh, Twice
  <2>. QED
    BY <2>1, <1>1 DEF Pools
<1>7. Stored'
  <2>1. \A s \in Nat : \A q \in Group : Got(q, s)' => Got(q, s) \/ s \in store
    BY <1>3 DEF Got
  <2>2. \A s \in store' : \A q \in Group : ~Twice(s)' => ~Removed(q, s)'
    <3>1. \A s : Twice(s)' <=> Twice(s)
      BY <1>1 DEF Twice
    <3>. QED
      BY <3>1, <1>1, <1>3 DEF Stored, Removed
  <2>. QED
    BY <2>1, <2>2, <1>1 DEF Stored
<1>. QED
  BY <1>4, <1>5, <1>6, <1>7

LEMMA TrainSInv ==
  ASSUME SInv, NEW p \in Group, Train(p)
  PROVE  SInv'
<1>. USE DEF SInv
<1>1. /\ UNCHANGED <<index, store, pool, planned>> /\ pc[p] = "training"
      /\ step' = [step EXCEPT ![p] = step[p] + 1]
      /\ \/ pc' = [pc EXCEPT ![p] = "calling"] /\ UNCHANGED <<span_id, producer_iter, consumer_iter>>
         \/ /\ ~(step[p] + 1 < consumer_iter[p] + span)
            /\ pc' = [pc EXCEPT ![p] = "planning"]
            /\ producer_iter' = [producer_iter EXCEPT ![p] = @ + ProducerSpan(p)]
            /\ consumer_iter' = [consumer_iter EXCEPT ![p] = @ + span]
            /\ span_id' = [span_id EXCEPT ![p] = @ + 1]
  BY DEF Train, NextProducer, GoTo, loopVars
<1>2. ProducerSpan(p) \in {span, span * 2} /\ ProducerSpan(p) \in Nat /\ span \in Nat
  BY SpanSize DEF ProducerSpan
<1>3. (producer_iter[p] + ProducerSpan(p)) % Size = 0
  BY <1>2, SpansAligned DEF Windows
<1>4. Windows'
  <2>1. CASE pc' = [pc EXCEPT ![p] = "calling"]
    <3>1. UNCHANGED <<span_id, producer_iter, consumer_iter>> /\ step[p] + 1 < consumer_iter[p] + span
      BY <2>1, <1>1 DEF Train, GoTo, Windows
    <3>. QED
      BY <2>1, <3>1, <1>1, <1>2 DEF Windows, Stations
  <2>2. CASE pc' # [pc EXCEPT ![p] = "calling"]
    <3>1. /\ pc' = [pc EXCEPT ![p] = "planning"]
          /\ producer_iter' = [producer_iter EXCEPT ![p] = @ + ProducerSpan(p)]
          /\ consumer_iter' = [consumer_iter EXCEPT ![p] = @ + span]
          /\ span_id' = [span_id EXCEPT ![p] = @ + 1]
      BY <2>2, <1>1
    <3>2. step[p] + 1 = consumer_iter[p] + span
      BY <2>2, <1>1, <1>2 DEF Windows
    <3>3. /\ step'[p] = consumer_iter'[p] /\ pc'[p] = "planning"
          /\ producer_iter'[p] % Size = 0
      BY <3>1, <3>2, <1>1, <1>3 DEF Windows
    <3>4. \A q \in Group \ {p} : /\ step'[q] = step[q] /\ pc'[q] = pc[q]
                                 /\ producer_iter'[q] = producer_iter[q]
                                 /\ consumer_iter'[q] = consumer_iter[q]
      BY <3>1, <1>1 DEF Windows
    <3>5. /\ step' \in [Group -> Nat] /\ pc' \in [Group -> Stations]
          /\ span_id' \in [Group -> Nat]
          /\ producer_iter' \in [Group -> Nat] /\ consumer_iter' \in [Group -> Nat]
      BY <3>1, <1>1, <1>2 DEF Windows, Stations
    <3>. QED
      BY <3>3, <3>4, <3>5 DEF Windows
  <2>. QED
    BY <2>1, <2>2
<1>5. \A q \in Group : \A s \in Nat : /\ Got(q, s)' <=> Got(q, s)
                                      /\ Removed(q, s)' <=> Removed(q, s)
  BY <1>1 DEF Got, Removed, Windows
<1>6. Planned'
  <2>1. \A q \in Group : Horizon(q)' = Horizon(q)
    BY <1>1, <1>2 DEF Horizon, ProducerSpan, Windows
  <2>. QED
    BY <2>1, <1>1 DEF Planned
<1>7. Pools'
  <2>1. ASSUME NEW r \in Group, NEW s \in Elements(pool[r]) PROVE Fresh(s)'
    <3>1. s \in Nat /\ Fresh(s)
      BY DEF Pools, Elements
    <3>2. \A q \in Group : Got(q, s)' => Got(q, s)
      BY <3>1, <1>5
    <3>. QED
      BY <3>1, <3>2, <1>1 DEF Fresh, Twice
  <2>. QED
    BY <2>1, <1>1 DEF Pools
<1>8. Stored'
  <2>1. \A s \in Nat : \A q \in Group : Got(q, s)' => Got(q, s)
    BY <1>5 DEF Got
  <2>2. \A s \in store : \A q \in Group : ~Twice(s)' => ~Removed(q, s)'
    BY <1>1, <1>5 DEF Stored, Removed, Twice
  <2>. QED
    BY <2>1, <2>2, <1>1 DEF Stored
<1>. QED
  BY <1>4, <1>6, <1>7, <1>8

\* A plan that has been removed is in the store again only when two processes
\* have submitted its planning, whatever the training step does and however the
\* processes are spread over hosts: no process plans a step twice.
THEOREM NothingStale == Spec => []NoStalePlan
<1>1. SInv /\ [Next]_vars => SInv'
  <2>. SUFFICES ASSUME SInv, [Next]_vars PROVE SInv'
    OBVIOUS
  <2>1. ASSUME NEW p \in Group, Step(p) \/ PutJson(p) PROVE SInv'
    BY <2>1, PlanSInv, PutSInv, OtherSInv, TrainSInv DEF Step
  <2>2. CASE UNCHANGED vars
    BY <2>2 DEF SInv, Windows, Planned, Horizon, ProducerSpan, Pools, Fresh, Twice, Elements,
         Stored, Got, Removed, vars, loopVars
  <2>. QED
    BY <2>1, <2>2 DEF Next, Finished
<1>2. SInv => NoStalePlan
  BY GroupAssumption DEF SInv, Stored, NoStalePlan
<1>. QED
  BY <1>1, <1>2, InitSInv, PTL DEF Spec
=============================================================================
