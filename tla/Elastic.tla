------------------------------ MODULE Elastic ------------------------------
(***************************************************************************)
(* The elastic training loop: Trainer.setup_stragglers, run_plan,          *)
(* detect_straggler_and_plan and train (python/hetu/engine/trainer.py),    *)
(* with the profile files of Straggler (python/hetu/engine/straggler.py)   *)
(* and the barriers ExecutableGraph::Run (hetu/graph/executable_graph.cc)  *)
(* makes among the devices in use.                                         *)
(*                                                                         *)
(* Each process owns one device and one log file.  A window of steps is    *)
(* profiled into the file; then everybody reads everybody's file, each     *)
(* process works out by itself whether to change the plan, and to which    *)
(* one.  Nothing compares the answers: that they agree rests on all having *)
(* read the same files, which global_comm_barrier_rpc is there to ensure.  *)
(* Every process passes rank 0 to it, so that each is one of Firsts.       *)
(***************************************************************************)
EXTENDS Integers, FiniteSets, Sequences

CONSTANTS N,            \* the processes; one device each
          Plans,        \* the sets of devices a plan may suspend
          Steps, Epochs,
          PRE_PROFILING_ROUND, SLIDING_WINDOW

ASSUME SizeAssumption == N \in Nat \ {0}
ASSUME WindowAssumption == /\ PRE_PROFILING_ROUND \in Nat \ {0}
                           /\ SLIDING_WINDOW \in Nat \ {0}
ASSUME LengthAssumption == Steps \in Nat \ {0} /\ Epochs \in Nat \ {0}

Group == 0..(N - 1)
ASSUME PlansAssumption == Plans \subseteq (SUBSET Group) \ {Group} /\ Plans # {}

VARIABLES
  barrier_nums, barrier_end_nums, at, notified, entered, left,
  file,               \* each process's log file
  pc,
  seen,               \* the profiles a process has read, devices in order
  cnt,                \* detect_straggler_and_plan_cnt
  step, epoch,
  start,              \* dataset_args.step of the run_plan a process is in
  plan,               \* strategy_args
  ran,                \* calls of graph.run begun
  decision            \* what the planner makes of the profiles last decided on

barrierVars == <<barrier_nums, barrier_end_nums, at, notified, entered, left>>
loopVars == <<cnt, step, epoch, start, plan, ran>>
vars == <<barrierVars, file, pc, seen, loopVars, decision>>

Calls == 1 + 6 * Steps * Epochs   \* bound, never reached
B == INSTANCE BarrierHandler WITH Firsts <- Group, MaxCalls <- Calls

\* A file as its owner has just truncated it for profile window w.
Fresh(w) == [window |-> w, entries |-> 0, eof |-> FALSE]

Init ==
  /\ B!BarrierInit
  /\ file = [p \in Group |-> Fresh(0)]
  /\ pc = [p \in Group |-> "preprofiling"]
  /\ seen = [p \in Group |-> << >>]
  /\ cnt = [p \in Group |-> 0]
  /\ step = [p \in Group |-> 0]
  /\ epoch = [p \in Group |-> 0]
  /\ start = [p \in Group |-> 0]
  /\ \E s \in Plans : plan = [p \in Group |-> [window |-> 0, suspended |-> s]]
  /\ ran = [p \in Group |-> 0]
  /\ decision = [seen |-> << >>, switch |-> FALSE, suspended |-> {}]

GoTo(p, place) == pc' = [pc EXCEPT ![p] = place]
Outside(p) == at[p] = "outside"

-----------------------------------------------------------------------------
\* The four calls of global_comm_barrier_rpc, and where each one leads.  Nothing
\* keeps callers one round apart: from the barrier after a step to the one before
\* the files are read, and on to the one after, there is no collective, and a
\* suspended device passes graph.run without one.
After == [profiled |-> "baselines", ran |-> "stepped", logged |-> "reading",
          read |-> "deciding"]

CallBarrier(p) ==
  /\ pc[p] \in DOMAIN After
  /\ B!Enter(p)
  /\ GoTo(p, After[pc[p]])
  /\ UNCHANGED <<file, seen, loopVars, decision>>

BarrierThread(p) ==
  /\ B!Resume(p)
  /\ UNCHANGED <<file, pc, seen, loopVars, decision>>

\* setup_stragglers up to its barrier: nobody looks at the file before.
PreProfile(p) ==
  /\ pc[p] = "preprofiling"
  /\ file' = [file EXCEPT ![p].entries = PRE_PROFILING_ROUND, ![p].eof = TRUE]
  /\ GoTo(p, "profiled")
  /\ UNCHANGED <<barrierVars, seen, loopVars, decision>>

\* The reading loops of setup_stragglers and detect_straggler_and_plan.
Expected == [baselines |-> PRE_PROFILING_ROUND - 1, reading |-> SLIDING_WINDOW]
AllRead == [baselines |-> "starting", reading |-> "read"]

Reading(p) == pc[p] \in DOMAIN Expected /\ Outside(p)
NextFile(p) == file[Len(seen[p])]

IgnoreFirst(n) == n - 1

\* read_profile: the length is asserted once the end of the file is there.
ReadProfile(p) ==
  /\ Reading(p)
  /\ NextFile(p).eof
  /\ LET all == Append(seen[p], NextFile(p).window)
     IN  IF IgnoreFirst(NextFile(p).entries) # Expected[pc[p]]
         THEN GoTo(p, "failed") /\ UNCHANGED seen
         ELSE /\ seen' = [seen EXCEPT ![p] = all]
              /\ GoTo(p, IF Len(all) = N THEN AllRead[pc[p]] ELSE pc[p])
  /\ UNCHANGED <<barrierVars, file, loopVars, decision>>

\* Until then the file is opened and read again and again.
Poll(p) == Reading(p) /\ ~NextFile(p).eof /\ UNCHANGED vars

-----------------------------------------------------------------------------
\* Mutant: the new window is appended to the old one.
NotTruncated(p) == [file[p] EXCEPT !.window = @ + 1, !.eof = FALSE]

\* begin_profile.
Truncated(p) == Fresh(file[p].window + 1)

\* The first call of run_plan.  No barrier separates it from the reading of
\* the baselines.
StartPlan(p) ==
  /\ pc[p] = "starting"
  /\ file' = [file EXCEPT ![p] = Truncated(p)]
  /\ seen' = [seen EXCEPT ![p] = << >>]
  /\ GoTo(p, "stepping")
  /\ UNCHANGED <<barrierVars, loopVars, decision>>

BeginRun(p) ==
  /\ pc[p] = "stepping"
  /\ cnt' = [cnt EXCEPT ![p] = @ + 1]
  /\ ran' = [ran EXCEPT ![p] = @ + 1]
  /\ GoTo(p, "running")
  /\ UNCHANGED <<barrierVars, file, seen, step, epoch, start, plan, decision>>

Suspended(p) == p \in plan[p].suspended

\* The devices in use meet in graph.run; a suspended one passes it and runs a
\* workload of its own.  Either way one entry is logged.
EndRun(p) ==
  /\ pc[p] = "running"
  /\ Suspended(p) \/ \A q \in Group \ plan[p].suspended : ran[q] >= ran[p]
  /\ file' = [file EXCEPT ![p].entries = @ + 1]
  /\ GoTo(p, "ran")
  /\ UNCHANGED <<barrierVars, seen, loopVars, decision>>

\* Mutant: no entry is left over for read_profile to drop.
WindowOver(p) == cnt[p] = SLIDING_WINDOW

TimeToDetect(p) == cnt[p] = SLIDING_WINDOW + 1

\* The two nested loops go on; an epoch begins at dataset_args.step.
Advance(p) ==
  IF step[p] + 1 < Steps
  THEN /\ step' = [step EXCEPT ![p] = @ + 1]
       /\ GoTo(p, "stepping")
       /\ UNCHANGED epoch
  ELSE IF epoch[p] + 1 < Epochs
  THEN /\ step' = [step EXCEPT ![p] = start[p]]
       /\ epoch' = [epoch EXCEPT ![p] = @ + 1]
       /\ GoTo(p, "stepping")
  ELSE GoTo(p, "done") /\ UNCHANGED <<step, epoch>>

NextStep(p) ==
  /\ pc[p] = "stepped" /\ Outside(p)
  /\ ~TimeToDetect(p)
  /\ Advance(p)
  /\ UNCHANGED <<barrierVars, file, seen, cnt, start, plan, ran, decision>>

EndProfile(p) ==
  /\ pc[p] = "stepped" /\ Outside(p)
  /\ TimeToDetect(p)
  /\ file' = [file EXCEPT ![p].eof = TRUE]
  /\ GoTo(p, "logged")
  /\ UNCHANGED <<barrierVars, seen, loopVars, decision>>

\* Mutant: a process plans with the profiles of the devices it shares no plan
\* with left out.
OwnProfile(p) == <<seen[p], p>>

Evidence(p) == seen[p]

\* What StrategyModel makes of the profiles is a function of them.  A plan that
\* is changed begins with the step that has just been run.
Decide(p) ==
  /\ pc[p] = "deciding" /\ Outside(p)
  /\ \E switch \in BOOLEAN, s \in Plans :
       LET d == [seen |-> Evidence(p), switch |-> switch, suspended |-> s]
       IN  /\ decision.seen = Evidence(p) => d = decision
           /\ ~switch => s = plan[p].suspended
           /\ decision' = d
           /\ IF switch
              THEN /\ start' = [start EXCEPT ![p] = step[p]]
                   /\ plan' = [plan EXCEPT ![p] = [window |-> file[p].window,
                                                   suspended |-> s]]
                   /\ GoTo(p, "stepping")
                   /\ UNCHANGED <<step, epoch>>
              ELSE Advance(p) /\ UNCHANGED <<start, plan>>
  /\ file' = [file EXCEPT ![p] = Truncated(p)]
  /\ seen' = [seen EXCEPT ![p] = << >>]
  /\ cnt' = [cnt EXCEPT ![p] = 0]
  /\ UNCHANGED <<barrierVars, ran>>

-----------------------------------------------------------------------------
Step(p) == \/ PreProfile(p) \/ CallBarrier(p) \/ BarrierThread(p)
           \/ ReadProfile(p) \/ Poll(p) \/ StartPlan(p)
           \/ BeginRun(p) \/ EndRun(p) \/ NextStep(p) \/ EndProfile(p) \/ Decide(p)

Done(p) == pc[p] = "done"
Finished == (\A p \in Group : Done(p) /\ Outside(p)) /\ UNCHANGED vars

Next == (\E p \in Group : Step(p)) \/ Finished

\* Every process keeps running and every server thread is scheduled.
Spec == Init /\ [][Next]_vars /\ \A p \in Group : WF_vars(Step(p))

-----------------------------------------------------------------------------
\* Processes that are in graph.run at once run the same step of the same epoch
\* under the same plan: each has taken that from its own reading of the files.
RunTogether ==
  \A p, q \in Group :
    pc[p] = "running" /\ pc[q] = "running" =>
      /\ ran[p] = ran[q]
      /\ <<epoch[p], step[p], plan[p]>> = <<epoch[q], step[q], plan[q]>>

\* "file length wrong" (straggler.py) stops nobody: no reader meets the end of
\* a file that holds another number of entries than its window has.
NoShortProfile == \A p \in Group : pc[p] # "failed"

\* A process has begun to train while another has not read its baseline: the
\* file has been truncated under the reader.
SetupRace == \E p, q \in Group : /\ pc[p] = "baselines" /\ Outside(p)
                                 /\ Len(seen[p]) <= q
                                 /\ file[q].window > 0

\* A process has called the barrier again while another still sleeps in the call
\* before: its entry has reset barrier_end_nums, and that one sleeps for good.
Overtaken == \E p, q \in Group : entered[p] > left[q] + 1

\* Training ends, unless the start went the first way, or a barrier the second.
EndsUnlessRaced == <>SetupRace \/ <>Overtaken \/ <>(\A p \in Group : Done(p))
=============================================================================
