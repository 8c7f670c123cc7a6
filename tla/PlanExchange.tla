---------------------------- MODULE PlanExchange ----------------------------
(***************************************************************************)
(* The planning loop of a Hydraulis job (run_plan in examples/hydraulis/   *)
(* train_hetu_with_kv_store.py): plans are computed ahead by worker pools  *)
(* and handed to every process through the key-value store of the RPC      *)
(* server (kv_store/server.py, kv_store/producer_consumer.py).             *)
(*                                                                         *)
(* consume() gets the plan, meets all the others in                        *)
(* global_comm_barrier_rpc, and removes the plan.  Nothing in it keeps a   *)
(* fast process from meeting again while a slow one still sleeps in the    *)
(* barrier: the training step between two consumes does, when it is        *)
(* collective.                                                             *)
(***************************************************************************)
EXTENDS Integers, FiniteSets, SequencesExt

CONSTANTS Group,           \* the processes
          Indices,         \* the ways to number them: local_device.index, which
                           \* begins at 0 on every host
          iter_per_rank,   \* plans per process and span; size of each pool
          steps,           \* bound: args.steps
          Workers,         \* _MAX_GRPC_WORKERS
          Collective       \* a training step ends only once all have begun it

Size == Cardinality(Group)

ASSUME GroupAssumption == IsFiniteSet(Group) /\ Group # {}
ASSUME IndexAssumption == Indices \subseteq [Group -> Nat] /\ Indices # {}
ASSUME StepsAssumption == iter_per_rank \in Nat \ {0} /\ steps \in Nat
\* One worker is left for a put when every process waits in a call.
ASSUME WorkersAssumption == Workers > Size
ASSUME CollectiveAssumption == Collective \in BOOLEAN

VARIABLES
  index,                          \* one of Indices: the hosts of this job
  barrier_nums, barrier_end_nums, at, notified, entered, left,
  store,                          \* steps whose plan is in json_dicts
  pc, span_id, producer_iter, consumer_iter,
  step,                           \* of the consuming loop
  pool,                           \* steps submitted and not yet put
  planned                         \* steps a process has submitted so far

barrierVars == <<barrier_nums, barrier_end_nums, at, notified, entered, left>>
loopVars == <<span_id, producer_iter, consumer_iter, planned>>
vars == <<index, barrierVars, store, pc, loopVars, step, pool>>

B == INSTANCE BarrierHandler WITH Firsts <- Group, MaxCalls <- steps

Init ==
  /\ index \in Indices
  /\ B!BarrierInit
  /\ store = {}
  /\ pc = [p \in Group |-> "planning"]
  /\ span_id = [p \in Group |-> 0]
  /\ producer_iter = [p \in Group |-> 0]
  /\ consumer_iter = [p \in Group |-> 0]
  /\ step = [p \in Group |-> 0]
  /\ pool = [p \in Group |-> << >>]
  /\ planned = [p \in Group |-> {}]

GoTo(p, place) == pc' = [pc EXCEPT ![p] = place]

-----------------------------------------------------------------------------
span == Size * iter_per_rank

\* The first time round the loop plans the next span too, to stay ahead.
ProducerSpan(p) == IF span_id[p] = 0 THEN span * 2 ELSE span

\* Whether p submits the planning of a step.  The test is on producer_iter, which
\* stays the same for all the steps of a span, and on the index, which repeats on
\* every host: there is a planner per host.
Assigned(p) == producer_iter[p] % Size = index[p]

\* The steps whose planning p submits, in order.
Submitted(p) == IF Assigned(p)
                THEN [i \in 1..ProducerSpan(p) |-> producer_iter[p] + i - 1]
                ELSE << >>

Plan(p) ==
  /\ pc[p] = "planning"
  /\ IF producer_iter[p] + ProducerSpan(p) >= steps
     THEN /\ GoTo(p, "done")
          /\ UNCHANGED <<step, pool, planned>>
     ELSE /\ GoTo(p, "calling")
          /\ step' = [step EXCEPT ![p] = consumer_iter[p]]
          /\ pool' = [pool EXCEPT ![p] = @ \o Submitted(p)]
          /\ planned' = [planned EXCEPT ![p] = @ \cup Range(Submitted(p))]
  /\ UNCHANGED <<index, barrierVars, store, span_id, producer_iter, consumer_iter>>

\* Calls that hold a worker of the server's thread pool: those asleep in
\* GetJson and in Barrier.
Blocked == {p \in Group : pc[p] = "getting" \/ at[p] # "outside"}


FreeWorker == Cardinality(Blocked) < Workers

\* _producer_task: one of the tasks that run in p's pool ends with PutJson.
PutJson(p) ==
  /\ FreeWorker
  /\ \E i \in 1..Min({iter_per_rank, Len(pool[p])}) :
       /\ store' = store \cup {pool[p][i]}
       /\ pool' = [pool EXCEPT ![p] = RemoveAt(@, i)]
  /\ UNCHANGED <<index, barrierVars, pc, loopVars, step>>

-----------------------------------------------------------------------------
\* consume(): get, which sleeps until the key is there ...
CallGetJson(p) ==
  /\ pc[p] = "calling"
  /\ FreeWorker
  /\ GoTo(p, "getting")
  /\ UNCHANGED <<index, barrierVars, store, loopVars, step, pool>>

GetJson(p) ==
  /\ pc[p] = "getting"
  /\ step[p] \in store
  /\ GoTo(p, "meeting")
  /\ UNCHANGED <<index, barrierVars, store, loopVars, step, pool>>

\* ... the barrier, one call for each step consumed ...
AboutToCall(p) == pc[p] = "meeting" /\ entered[p] = step[p]

CallBarrier(p) ==
  /\ AboutToCall(p)
  /\ FreeWorker
  /\ B!Enter(p)
  /\ UNCHANGED <<index, store, pc, loopVars, step, pool>>

BarrierThread(p) ==
  /\ B!Resume(p)
  /\ UNCHANGED <<index, store, pc, loopVars, step, pool>>

\* Mutant: the plan is removed without waiting for the others.
NotMet(p) == TRUE

Met(p) == left[p] = step[p] + 1

\* ... and remove, by every process; then the training step begins.
RemoveJson(p) ==
  /\ pc[p] = "meeting"
  /\ Met(p)
  /\ FreeWorker
  /\ store' = store \ {step[p]}
  /\ GoTo(p, "training")
  /\ UNCHANGED <<index, barrierVars, loopVars, step, pool>>

\* p has begun or ended the training of step s.
Began(p, s) == step[p] > s \/ (step[p] = s /\ pc[p] = "training")

\* Mutant: the step ends for a process as soon as it has done its own part.
TrainedAlone(p) == TRUE

Trained(p) == Collective => \A q \in Group : Began(q, step[p])

\* Mutant: where the planning goes on is a span further, the first time too.
NextProducerOfOneSpan(p) == producer_iter[p] + span

\* The first step that the next planning is for.
NextProducer(p) == producer_iter[p] + ProducerSpan(p)

\* hetu_train: a collective step of the graph (outside this module).
Train(p) ==
  LET next == step[p] + 1
  IN  /\ pc[p] = "training"
      /\ Trained(p)
      /\ step' = [step EXCEPT ![p] = next]
      /\ IF next < consumer_iter[p] + span
         THEN GoTo(p, "calling") /\ UNCHANGED loopVars
         ELSE /\ GoTo(p, "planning")
              /\ producer_iter' = [producer_iter EXCEPT ![p] = NextProducer(p)]
              /\ consumer_iter' = [consumer_iter EXCEPT ![p] = @ + span]
              /\ span_id' = [span_id EXCEPT ![p] = @ + 1]
              /\ UNCHANGED planned
      /\ UNCHANGED <<index, barrierVars, store, pool>>

-----------------------------------------------------------------------------
Finished == /\ \A p \in Group : pc[p] = "done" /\ pool[p] = << >>
            /\ UNCHANGED vars

Step(p) == \/ Plan(p) \/ CallGetJson(p) \/ GetJson(p) \/ CallBarrier(p)
           \/ BarrierThread(p) \/ RemoveJson(p) \/ Train(p)

Next == (\E p \in Group : Step(p) \/ PutJson(p)) \/ Finished

\* Processes run, server threads are scheduled, and every planning task ends
\* (with a result: _producer_task swallows an exception and puts nothing).
Spec == /\ Init /\ [][Next]_vars
        /\ \A p \in Group : WF_vars(Step(p)) /\ WF_vars(PutJson(p))

-----------------------------------------------------------------------------
\* Type invariant.
TypeOK ==
  /\ B!TypeOK
  /\ store \subseteq 0..(steps - 1)
  /\ pc \in [Group -> {"planning", "calling", "getting", "meeting", "training",
                       "done"}]
  /\ \A p \in Group :
       /\ step[p] \in 0..steps /\ span_id[p] \in Nat
       /\ producer_iter[p] \in 0..steps /\ consumer_iter[p] \in 0..steps
       /\ Range(pool[p]) \subseteq planned[p]
       /\ planned[p] \subseteq 0..(steps - 1)
  /\ Cardinality(Blocked) <= Workers

Got(p, s) == step[p] > s \/ (step[p] = s /\ pc[p] \in {"meeting", "training"})
Removed(p, s) == step[p] > s \/ (step[p] = s /\ pc[p] = "training")

\* No process removes a plan before every other has read it: the remove that
\* comes first must not strand a process that is late in GetJson.
RemovedAfterAllGot ==
  \A p, q \in Group, s \in 0..(steps - 1) :
    Removed(p, s) => Got(q, s)

\* The planners of two hosts have both submitted the planning of s.
Twice(s) == \E p, q \in Group : p # q /\ s \in planned[p] \cap planned[q]

\* Once all have removed a plan it is gone: a plan that came back would be
\* served to the same step of the next epoch, whose key is the same.  The one
\* exception is a plan that two processes make: on several hosts every host has
\* its planner, and the slower one puts back what has been removed.
NoStalePlan ==
  \A s \in store : Twice(s) \/ \E p \in Group : ~Removed(p, s)

\* Nobody calls Barrier while another member still sleeps in the call before.
\* The barrier itself does not see to it, and breaks without it.
CallersSeparated ==
  \A p \in Group : AboutToCall(p) => B!Separated(p)

=============================================================================
