------------------------------ MODULE Pipeline ------------------------------
(***************************************************************************)
(* One call of ExecutableGraph::CrucialRun (hetu/graph/                    *)
(* executable_graph.cc): each stage of a pipeline runs the forward and     *)
(* backward tasks that GeneratePipedreamFlushSchedule lists for it, and    *)
(* exchanges activations and gradients with its neighbours through NCCL.   *)
(*                                                                         *)
(* The host of a stage only enqueues: kernels on the computing stream,     *)
(* sends and receives on the P2P stream, events between the two.  Sends    *)
(* and receives with no other operator between them, also those of two     *)
(* tasks, go into one NCCL group.  A group is a kernel of the P2P stream:  *)
(* its transfers take place in any order, each once the other end is       *)
(* running a group with its counterpart.  NCCL pairs the sends and         *)
(* receives of two devices by their order and knows nothing of what they   *)
(* carry.  One device stands for a stage, one kernel for the operators of  *)
(* a task.                                                                 *)
(***************************************************************************)
EXTENDS Integers, FiniteSets, SequencesExt

CONSTANT Jobs     \* num_stages, num_micro_batches, is_inference and whether the
                  \* last stage shares a weight of the first

ASSUME JobsAssumption == \A j \in Jobs :
  /\ j.num_stages \in Nat \ {0} /\ j.num_micro_batches \in Nat \ {0}
  /\ j.is_inference \in BOOLEAN /\ j.shared \in BOOLEAN

VARIABLES
  job,            \* of Jobs; it never changes
  at,             \* the next task of each stage's host
  host,           \* what each host has enqueued
  computed,       \* kernels finished on each stage's computing stream
  moved,          \* transfers made from each stage to each
  accumulated,    \* micro batches in a stage's grad_accumulation
  finished        \* what PostRun is given

vars == <<job, at, host, computed, moved, accumulated, finished>>

Stages == 0..(job.num_stages - 1)
Channels == Stages \X Stages
IsFirst(s) == s = 0
IsLast(s) == s = job.num_stages - 1
MicroBatches == 0..(job.num_micro_batches - 1)

\* The P2P stream holds ops, each with its group and its number among those of
\* its channel; groups[g] is the number of kernels that group g waits for.  A
\* kernel waits for the groups up to its "after".
Empty == [continuous |-> FALSE,   \* is_continuous_p2p
          ops |-> << >>, groups |-> << >>, kernels |-> << >>,
          synced |-> 0]           \* groups the computing stream waits for

Nothing == [from |-> -1, micro_batches |-> {}]

Init ==
  /\ job \in Jobs
  /\ at = [s \in Stages |-> 1]
  /\ host = [s \in Stages |-> Empty]
  /\ computed = [s \in Stages |-> 0]
  /\ moved = [c \in Channels |-> 0]
  /\ accumulated = [s \in Stages |-> {}]
  /\ finished = [s \in Stages |-> Nothing]

-----------------------------------------------------------------------------
(* GeneratePipedreamFlushSchedule *)

Forward(m) == [type |-> "forward", micro_batch |-> m]
Backward(m) == [type |-> "backward", micro_batch |-> m]
Bubble == [type |-> "bubble", micro_batch |-> 0]

Warmup(s) == Min({job.num_micro_batches, job.num_stages - s - 1})

Remaining(s) == job.num_micro_batches - Warmup(s)

Tasks(s) ==
  IF job.is_inference THEN [i \in 1..job.num_micro_batches |-> Forward(i - 1)]
  ELSE [i \in 1..Warmup(s) |-> Forward(i - 1)]
       \o [i \in 1..(2 * Remaining(s)) |-> IF i % 2 = 1
                                           THEN Forward(Warmup(s) + i \div 2)
                                           ELSE Backward(i \div 2 - 1)]
       \o (IF Remaining(s) = 0 THEN <<Bubble>> ELSE << >>)
       \o [i \in 1..Warmup(s) |-> Backward(Remaining(s) + i - 1)]

-----------------------------------------------------------------------------
(* ComputeFunc: what the host enqueues for the operators of a task *)

\* ncclGroupStart behind the kernels enqueued so far.
GroupStart(h) == [h EXCEPT !.continuous = TRUE,
                           !.groups = Append(@, Len(h.kernels))]

\* Mutant: the computing stream does not wait for the group.
GroupEndOnly(h) == [h EXCEPT !.continuous = FALSE]

GroupEnd(h) == [h EXCEPT !.continuous = FALSE, !.synced = Len(h.groups)]

Closed(h) == IF h.continuous THEN GroupEnd(h) ELSE h

Issue(h, from, to, what) ==
  LET before == {i \in DOMAIN h.ops : h.ops[i].from = from /\ h.ops[i].to = to}
  IN  [h EXCEPT !.ops = Append(@, [from |-> from, to |-> to, what |-> what,
                                   number |-> Cardinality(before) + 1,
                                   group |-> Len(h.groups)])]

\* Mutant: each send and receive is a group of its own.
P2PAlone(h, from, to, what) == Issue(GroupStart(Closed(h)), from, to, what)

P2P(h, from, to, what) ==
  Issue(IF h.continuous THEN h ELSE GroupStart(h), from, to, what)

\* Only the first micro batch carries the shared weight, in a group of its own
\* with no event behind it.
SharedP2P(h, s, task) ==
  LET last == job.num_stages - 1
  IN  IF job.shared /\ last > 0 /\ s \in {0, last} /\ task = Forward(0)
      THEN [Issue(GroupStart(Closed(h)), 0, last, <<"weight", 0>>) EXCEPT !.continuous = FALSE]
      ELSE h

RunKernel(h, task) ==
  [Closed(h) EXCEPT !.kernels = Append(@, [task |-> task, after |-> Closed(h).synced])]

Data(task) == <<IF task.type = "forward" THEN "activation" ELSE "gradient",
               task.micro_batch>>
Before(s, task) == IF task.type = "forward" THEN s - 1 ELSE s + 1
Behind(s, task) == IF task.type = "forward" THEN s + 1 ELSE s - 1

Exchange(h, from, to, task) ==
  IF {from, to} \subseteq Stages THEN P2P(h, from, to, Data(task)) ELSE h

\* A group ends and another begins, with no event.
BubbleBetween(h) == [h EXCEPT !.groups = Append(@, 0)]

\* One turn of the loop over the tasks.  In local_fw_topo and local_bw_topo what
\* is received comes first and what is sent last; the shared weight is received
\* before the rest and sent among it.  The gradient is complete with the last task.
RunTask(s) ==
  LET task == Tasks(s)[at[s]]
      grads == accumulated[s] \cup {task.micro_batch}
  IN  /\ at[s] <= Len(Tasks(s))
      /\ at' = [at EXCEPT ![s] = @ + 1]
      /\ IF task.type = "bubble"
         THEN /\ host[s].continuous   \* asserted by ncclGroupEnd_safe
              /\ host' = [host EXCEPT ![s] = BubbleBetween(@)]
         ELSE \E weighed \in {SharedP2P(host[s], s, task)} :
              \E fed \in {Exchange(weighed, Before(s, task), s, task)} :
              \E run \in {RunKernel(fed, task)} :
                host' = [host EXCEPT ![s] = Exchange(run, s, Behind(s, task), task)]
      /\ IF task.type = "backward"
         THEN /\ accumulated' = [accumulated EXCEPT ![s] = grads]
              /\ finished' = IF at[s] < Len(Tasks(s)) THEN finished
                             ELSE [finished EXCEPT ![s] = [from |-> task.micro_batch,
                                                           micro_batches |-> grads]]
         ELSE UNCHANGED <<accumulated, finished>>
      /\ UNCHANGED <<job, computed, moved>>

EndTasks(s) ==
  /\ at[s] = Len(Tasks(s)) + 1
  /\ at' = [at EXCEPT ![s] = @ + 1]
  /\ host' = [host EXCEPT ![s] = Closed(@)]
  /\ UNCHANGED <<job, computed, moved, accumulated, finished>>

-----------------------------------------------------------------------------
(* The two streams of each device *)

Moved(op) == op.number <= moved[<<op.from, op.to>>]

\* The groups of stage s up to g have made all their transfers.
GroupsDone(s, g) ==
  \A i \in DOMAIN host[s].ops : host[s].ops[i].group <= g => Moved(host[s].ops[i])

Running(s, g) ==
  /\ g < Len(host[s].groups) \/ ~host[s].continuous
  /\ computed[s] >= host[s].groups[g]
  /\ GroupsDone(s, g - 1)

Transfer(c) ==
  /\ \A s \in {c[1], c[2]} : \E i \in DOMAIN host[s].ops :
       LET op == host[s].ops[i]
       IN  /\ <<op.from, op.to>> = c /\ op.number = moved[c] + 1
           /\ Running(s, op.group)
  /\ moved' = [moved EXCEPT ![c] = @ + 1]
  /\ UNCHANGED <<job, at, host, computed, accumulated, finished>>

Compute(s) ==
  /\ computed[s] < Len(host[s].kernels)
  /\ GroupsDone(s, host[s].kernels[computed[s] + 1].after)
  /\ computed' = [computed EXCEPT ![s] = @ + 1]
  /\ UNCHANGED <<job, at, host, moved, accumulated, finished>>

-----------------------------------------------------------------------------
Host(s) == RunTask(s) \/ EndTasks(s)

AllDone == \A s \in Stages : /\ at[s] = Len(Tasks(s)) + 2
                             /\ computed[s] = Len(host[s].kernels)
                             /\ GroupsDone(s, Len(host[s].groups))

Done == AllDone /\ UNCHANGED vars

Next == \/ \E s \in Stages : Host(s) \/ Compute(s)
        \/ \E c \in Channels : Transfer(c)
        \/ Done

\* Hosts run, and the devices go on with what can go on.
Spec == Init /\ [][Next]_vars /\ WF_vars(Next)

-----------------------------------------------------------------------------
Ran(s, task) == \E k \in 1..computed[s] : host[s].kernels[k].task = task
Received(s, what) ==
  \E i \in DOMAIN host[s].ops : LET op == host[s].ops[i]
                               IN  op.to = s /\ op.what = what /\ Moved(op)

\* What a transfer takes away has been computed, what it brings is what its
\* receiver has a buffer for, and no kernel starts before its input is there:
\* the events between the two streams see to it, for every task and group.
DataReady ==
  /\ \A s \in Stages : \A i \in DOMAIN host[s].ops :
       LET op == host[s].ops[i]
           what == op.what
           counterpart(r) == r.from = s /\ r.to = op.to /\ r.number = op.number
       IN  op.from = s /\ Moved(op) =>
             /\ \E j \in DOMAIN host[op.to].ops : /\ counterpart(host[op.to].ops[j])
                                                 /\ host[op.to].ops[j].what = what
             /\ what[1] = "activation" => Ran(s, Forward(what[2]))
             /\ what[1] = "gradient" => Ran(s, Backward(what[2]))
  /\ \A s \in Stages, m \in MicroBatches :
       /\ Ran(s, Forward(m)) =>
            /\ IsFirst(s) \/ Received(s, <<"activation", m>>)
            /\ job.shared /\ IsLast(s) /\ ~IsFirst(s) => Received(s, <<"weight", 0>>)
       /\ Ran(s, Backward(m)) =>
            /\ Ran(s, Forward(m))
            /\ IsLast(s) \/ Received(s, <<"gradient", m>>)

\* Neighbours never wait for each other's groups in a ring, and every stage ends
\* with the gradients of all micro batches, where PostRun looks for them.
EveryStageFinishes ==
  <>(/\ AllDone
     /\ ~job.is_inference =>
          \A s \in Stages : finished[s] = [from |-> job.num_micro_batches - 1,
                                           micro_batches |-> MicroBatches])
=============================================================================
