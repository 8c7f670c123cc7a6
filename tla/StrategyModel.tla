--------------------------- MODULE StrategyModel ---------------------------
(***************************************************************************)
(* Re-planning around slow devices: what Trainer.detect_straggler_and_plan *)
(* measures under the plan in force (python/hetu/engine/trainer.py), when  *)
(* it asks for another plan, and how StrategyModel makes one               *)
(* (python/hetu/engine/strategy.py): tensor-parallel groups node by node,  *)
(* then pipelines of groups, then a rank for every device.                 *)
(*                                                                         *)
(* Speeds are straggler ratios, times ten.  One process is modelled: all   *)
(* compute the same from the same profiles (see Elastic).  Which optimum   *)
(* the solver of the integer programs returns, and which of several        *)
(* templates with the best objective is first, is left open.               *)
(***************************************************************************)
EXTENDS Integers, FiniteSets, SequencesExt

CONSTANTS Shapes,           \* dp, tp, pp and DEVICES_PER_NODE of the jobs looked at
          NormalLayers,       \* normal_layers: layers of a stage when all is well
          NormalMbn,          \* normal_mbn: micro batches of a pipeline then
          MemoryLayers,       \* layers a whole group's memory holds
          Speeds,             \* the ratios a device may have
          MayChange,          \* bound: the devices that ever change
          MaxChanges          \* bound: changes of a device's speed

ASSUME ShapesAssumption == \A s \in Shapes :
  /\ s.dp \in Nat \ {0} /\ s.tp \in {1, 2, 4, 8} /\ s.pp \in Nat \ {0}
  /\ (s.dp * s.tp * s.pp) % s.node = 0 /\ s.node % s.tp = 0
ASSUME LayersAssumption ==
  NormalLayers \in Nat \ {0} /\ NormalMbn \in Nat \ {0} /\ MemoryLayers \in Nat
ASSUME ChangesAssumption == MayChange \subseteq Nat /\ MaxChanges \in Nat

Normal == 10
Threshold == 12       \* straggler_threshold
SafeGap == 3          \* straggler_safe_gap
ASSUME SpeedsAssumption == Normal \in Speeds /\ Speeds \subseteq Nat \ 0..(Normal - 1)

VARIABLES
  shape,              \* of Shapes; it never changes
  sr,                 \* how slow each device is
  changes,            \* changes of speed so far
  plan,               \* strategy_args of the plan in force
  models,             \* strategy_models_pool, each with the plan it has made
  model,              \* place of strategy_model in it; 0 stands for None
  pc,                 \* one of Failures: an assertion or an error has ended the job
  groups,             \* all_tp_groups
  newSuspended        \* new_suspended_devices

vars == <<shape, sr, changes, plan, models, model, pc, groups, newSuspended>>

Dp == shape.dp
Tp == shape.tp
Pp == shape.pp
DEVICES_PER_NODE == shape.node
DevicesNum == Dp * Tp * Pp
Devices == 0..(DevicesNum - 1)
Nodes == 0..(DevicesNum \div DEVICES_PER_NODE - 1)

\* A plan maps ranks, counted from 0, to devices; layers is hetero_layers, of each
\* stage of each pipeline, and so has hetero_stages in it.
NoPlan == [ranks |-> << >>, suspended |-> {}, unused |-> {}, layers |-> << >>]

DeviceOf(p, rank) == p.ranks[rank + 1]
RankOf(p, d) == CHOOSE r \in 0..(Len(p.ranks) - 1) : DeviceOf(p, r) = d

Init ==
  /\ shape \in Shapes
  /\ sr = [d \in Devices |-> Normal]
  /\ changes = 0
  /\ plan = [NoPlan EXCEPT !.ranks = [i \in 1..DevicesNum |-> i - 1],
                           !.layers = [i \in 1..Dp |-> [j \in 1..Pp |-> NormalLayers]]]
  /\ models = << >> /\ model = 0
  /\ pc = "training"
  /\ groups = << >> /\ newSuspended = << >>

SpeedChange(d) ==
  /\ pc = "training"
  /\ changes < MaxChanges
  /\ changes' = changes + 1
  /\ \E s \in Speeds \ {sr[d]} : sr' = [sr EXCEPT ![d] = s]
  /\ UNCHANGED <<shape, plan, models, model, pc, groups, newSuspended>>

-----------------------------------------------------------------------------
(* detect_straggler_and_plan *)

\* The loop looks at as many ranks as there are devices.
Looked == 0..(DevicesNum - 1)
Unused == Looked \cap plan.unused
Suspended == (Looked \cap plan.suspended) \ Unused
Used == Looked \ (plan.suspended \cup plan.unused)

Ratios(ranks) == [d \in {DeviceOf(plan, r) : r \in ranks} |-> sr[d]]

\* Mutant: suspended devices are not profiled and count as normal.
DetectedNoWorkload == [used |-> Ratios(Used),
                       suspended |-> [d \in DOMAIN Ratios(Suspended) |-> Normal],
                       unused |-> {DeviceOf(plan, r) : r \in Unused},
                       old |-> plan, plan |-> NoPlan]

\* A model keeps old_strategy_args, from which it has device_to_layers_prop.
Detected == [used |-> Ratios(Used), suspended |-> Ratios(Suspended),
             unused |-> {DeviceOf(plan, r) : r \in Unused},
             old |-> plan, plan |-> NoPlan]

\* curr_tp: the ranks of a group that are not suspended must divide its width.
WidthsOK ==
  \A r \in Used :
    Tp % Cardinality({q \in 0..(Len(plan.ranks) - 1) :
                        q \div Tp = r \div Tp /\ q \notin plan.suspended}) = 0

Close(a, b) == a - b < SafeGap /\ b - a < SafeGap
Slow(s) == s >= Threshold

\* __eq__ of models with the same unused devices.  With other ones it returns
\* flag_1, a name that does not exist.
Same(m, n) ==
  /\ \A d \in DOMAIN m.used : d \in DOMAIN n.used /\ Close(m.used[d], n.used[d])
  /\ \A d \in DOMAIN m.suspended :
       /\ d \in DOMAIN n.suspended
       /\ \/ Slow(m.suspended[d]) /\ Slow(n.suspended[d])
          \/ Close(m.suspended[d], n.suspended[d])

Raises(m) == \E k \in DOMAIN models : models[k].unused # m.unused

\* The latest model of the pool that equals m, or m as a new one.
Cached(m) == {k \in DOMAIN models : Same(models[k], m)}

Detect ==
  LET m == Detected
      needSwitch == model = 0 \/ ~Same(m, models[model])
      pool == IF Cached(m) = {} THEN Append(models, m) ELSE models
      k == IF Cached(m) = {} THEN Len(pool) ELSE Max(Cached(m))
  IN  /\ pc = "training"
      /\ UNCHANGED <<shape, sr, changes, groups, newSuspended>>
      /\ IF ~WidthsOK \/ Raises(m)
         THEN /\ pc' = IF ~WidthsOK THEN "tp % curr_tp" ELSE "flag_1"
              /\ UNCHANGED <<plan, models, model>>
         ELSE /\ models' = pool
              /\ model' = k
              /\ IF ~needSwitch THEN UNCHANGED <<pc, plan>>
                 ELSE IF pool[k].plan = NoPlan
                      THEN pc' = "arranging" /\ UNCHANGED plan
                      ELSE plan' = pool[k].plan /\ UNCHANGED pc

-----------------------------------------------------------------------------
(* solve_tp_arrangments_new: a node keeps DEVICES_PER_NODE - tp devices for  *)
(* whole groups and splits what it has besides into partial ones.            *)

Model == models[model]
Old == Model.old

Ratio(d) == IF d \in DOMAIN Model.used THEN Model.used[d] ELSE Model.suspended[d]
ByRank(S) == SelectSeq(Old.ranks, LAMBDA d : d \in S)

\* A suspended device comes back only when it is no straggler any more.
Out == {d \in DOMAIN Model.suspended : Slow(Model.suspended[d])}

\* available_devices_sr, of all nodes.
Available == ByRank(DOMAIN Model.used) \o ByRank(DOMAIN Model.suspended \ Out)
NodeOf(d) == d \div DEVICES_PER_NODE
AvailableOf(n) == SelectSeq(Available, LAMBDA d : NodeOf(d) = n)

Homo == DEVICES_PER_NODE - Tp
Spare(n) == Len(AvailableOf(n)) - Homo

\* Healthy devices by their number, stragglers by their ratio: two scales in
\* one key.
Key(d) == IF Slow(Ratio(d)) THEN Ratio(d) * DEVICES_PER_NODE ELSE d * Normal
Stable(s, Less(_, _)) ==
  SortSeq(s, LAMBDA a, b : \/ Less(a, b)
                           \/ ~Less(b, a) /\ SelectInSeq(s, LAMBDA x : x = a)
                                               < SelectInSeq(s, LAMBDA x : x = b))
Sorted(n) == Stable(AvailableOf(n), LAMBDA a, b : Key(a) < Key(b))

Stragglers(n) == Len(SelectSeq(AvailableOf(n), LAMBDA d : Slow(Ratio(d))))
Healthy(n) == Len(AvailableOf(n)) - Stragglers(n)

\* The last j healthy devices of an order move, one after the other, behind
\* the first len stragglers.
MoveBack(order, k, len, j) ==
  SubSeq(order, 1, k - j) \o SubSeq(order, k + 1, k + len)
    \o SubSeq(order, k - j + 1, k) \o SubSeq(order, k + len + 1, Len(order))

\* A split halves the width from begin on, for as long as devices are left:
\* begin + begin/2 + ... + h is 2 * begin - h.
Split(n, begin) == {h \in {begin, begin \div 2, begin \div 4, begin \div 8} \ {0} :
                      2 * begin - h <= Spare(n)}
Slice(order, begin, h) == SubSeq(order, Homo + 2 * begin - 2 * h + 1,
                                 Homo + 2 * begin - h)

\* hetero_tp_alpha: a group of h devices is that many times slower.
Alpha(h) == Tp \div h
Slowest(s) == Max({Ratio(d) : d \in Range(s)})

Scale == 600          \* R is kept exact
ASSUME ScaleAssumption ==
  \A t \in Shapes, s \in Speeds, h \in {1, 2, 4, 8} :
    h <= t.tp => Scale % ((t.tp \div h) * s) = 0

\* The candidates <<straggler_seq_len, moves, begin>> of a node, what each is
\* worth, and the first of the best.
Candidates(n) ==
  LET begins == {b \in {1, 2, 4, 8} : b <= Spare(n)}
  IN  IF Stragglers(n) <= 1 THEN {0} \X {0} \X begins
      ELSE (1..(Stragglers(n) - 1)) \X (0..Healthy(n)) \X begins

R(n, order, begin) ==
  MapThenSumSet(LAMBDA h : Scale \div (Alpha(h) * Slowest(Slice(order, begin, h))),
                Split(n, begin))

Before(c, d) == \/ c[1] < d[1]
                \/ c[1] = d[1] /\ c[2] < d[2]
                \/ c[1] = d[1] /\ c[2] = d[2] /\ c[3] > d[3]

Best(n) ==
  LET ordered == {<<c, MoveBack(order, Healthy(n), c[1], c[2])>> :
                    c \in Candidates(n), order \in {Sorted(n)}}
      worth == {<<R(n, t[2], t[1][3]), t[1], t[2]>> : t \in ordered}
  IN  CHOOSE w \in worth : \A v \in worth \ {w} : \/ v[1] < w[1]
                                                  \/ v[1] = w[1] /\ Before(w[2], v[2])

-----------------------------------------------------------------------------
(* What devices hold under the old plan, and which of them go together       *)

Sum(s) == FoldSeq(+, 0, s)

\* The layers <<first, last + 1>> of the stages of a pipeline.
Spans(l) == [j \in DOMAIN l |-> <<Sum(SubSeq(l, 1, j - 1)), Sum(SubSeq(l, 1, j))>>]

\* device_to_layers_prop.
LayersOf(d) == FlattenSeq([i \in DOMAIN Old.layers |-> Spans(Old.layers[i])])
                 [RankOf(Old, d) \div Tp + 1]
Slices(d) == {r \in 0..(Len(Old.ranks) - 1) \ Old.unused :
                r \div Tp = RankOf(Old, d) \div Tp}
SliceNum(d) == Cardinality({r \in Slices(d) : r < RankOf(Old, d)})

IouScale == 2520      \* IoU is kept exact
ASSUME IouAssumption ==
  \A t \in Shapes : \A u \in 1..(t.pp * NormalLayers) : IouScale % u = 0
IoU(a, b) ==
  LET common == Max({0, Min({a[2], b[2]}) - Max({a[1], b[1]})})
      union == (a[2] - a[1]) + (b[2] - b[1]) - common
  IN  IF union = 0 THEN 0 ELSE (common * IouScale) \div union

FirstBest(s, Worth(_)) ==
  s[Min({i \in DOMAIN s : \A j \in DOMAIN s : Worth(s[j]) <= Worth(s[i])})]

\* Mutant: a device may be taken again.
StillThere(homo, got) == homo

NotVisited(homo, got) == SelectSeq(homo, LAMBDA d : d \notin Range(got))

\* The next device for the whole groups of a node, got being placed: one that was the
\* same slice of a whole group, and whose layers are most like the first's.
NextDevice(homo, got) ==
  LET slice == Len(got) % Tp
      first == got[Len(got) - slice + 1]
      free == NotVisited(homo, got)
      fits == SelectSeq(free, LAMBDA d : SliceNum(d) = slice
                                           /\ Cardinality(Slices(d)) = Tp)
  IN  IF fits = << >> THEN Head(free)
      ELSE IF slice = 0 THEN Head(fits)
      ELSE FirstBest(fits, LAMBDA d : IoU(LayersOf(d), LayersOf(first)))

WholeGroups(homo) ==
  LET got == FoldLeft(LAMBDA acc, d : Append(acc, NextDevice(homo, acc)), << >>, homo)
  IN  [t \in 1..(Len(homo) \div Tp) |-> SubSeq(got, (t - 1) * Tp + 1, t * Tp)]

\* Mutant: the devices left over are counted from the next one on.
LeftAfterNext(order, split) == SubSeq(order, Homo + SumSet(split) + 2, Len(order))

LeftOver(order, split) == SubSeq(order, Homo + SumSet(split) + 1, Len(order))

\* What the best candidate makes of a node.
Arrangement(n) ==
  LET best == Best(n)
      order == best[3]
      begin == best[2][3]
      split == Split(n, begin)
  IN  [groups |-> WholeGroups(SubSeq(order, 1, Homo))
                    \o [i \in 1..Cardinality(split) |->
                          Slice(order, begin, begin \div 2^(i - 1))],
       left |-> LeftOver(order, split)]

Arrange ==
  /\ pc = "arranging"
  /\ UNCHANGED <<shape, sr, changes, plan, models, model>>
  /\ IF \E n \in Nodes : Spare(n) <= 0
     THEN pc' = "too few devices" /\ UNCHANGED <<groups, newSuspended>>
     ELSE LET nodes == [n \in 1..Cardinality(Nodes) |-> Arrangement(n - 1)]
          IN  /\ groups' = FlattenSeq([n \in DOMAIN nodes |-> nodes[n].groups])
              /\ newSuspended' = ByRank(Out)
                                   \o FlattenSeq([n \in DOMAIN nodes |-> nodes[n].left])
              /\ pc' = "placing"

-----------------------------------------------------------------------------
(* enumerate_pp_pattern: where stragglers are, in templates, and then how    *)
(* the normal groups fill the best of them.                                  *)

\* TPGroup.sr: below the threshold all groups count as normal.
GroupSr(g) == LET s == Slowest(g) * Alpha(Len(g))
              IN  IF Slow(s) THEN s ELSE Normal
SlowGroups == Stable(SelectSeq(groups, LAMBDA g : GroupSr(g) > Normal),
                     LAMBDA g, h : GroupSr(g) > GroupSr(h))
NormalGroups(n) == Stable(SelectSeq(groups, LAMBDA g : GroupSr(g) = Normal
                                                         /\ NodeOf(Head(g)) = n),
                          LAMBDA g, h : Max(Range(g)) < Max(Range(h)))

\* hetero_stages_plans.
StagePlans ==
  LET k == Len(groups)
      base == k \div Dp
  IN  IF k = Dp * Pp THEN {[i \in 1..Dp |-> Pp]}
      ELSE {s \in [1..Dp -> (base - 1)..(base + (k % Dp) + 1)] :
              Sum(s) = k /\ \A i \in 1..(Dp - 1) : s[i + 1] <= s[i]}

None == << >>

\* place has a pipeline for each of the stragglers.
In(i, place) == SelectSeq([k \in DOMAIN place |-> k], LAMBDA k : place[k] = i)

\* The stragglers of a pipeline take its first stages, the slowest first.
Template(slow, stages, place) ==
  [i \in 1..Dp |-> LET mine == In(i, place)
                   IN  [j \in 1..stages[i] |->
                          IF j <= Len(mine) THEN slow[mine[j]] ELSE None]]

\* What the search keeps: the pipelines with most stragglers first, then the one
\* with the slowest.
Kept(slow, stages, place) ==
  LET count(i) == Len(In(i, place))
      first(i) == GroupSr(slow[In(i, place)[1]])
  IN  /\ \A i \in 1..Dp : count(i) <= stages[i]
      /\ \A i \in 1..(Dp - 1) :
           /\ count(i + 1) <= count(i)
           /\ count(i + 1) = count(i) /\ count(i) >= 1 => first(i + 1) <= first(i)

Templates ==
  UNION {{Template(slow, stages, place) :
            place \in {f \in [1..Len(slow) -> 1..Dp] : Kept(slow, stages, f)}} :
         stages \in StagePlans, slow \in {SlowGroups}}

\* The first integer program: layers for the stages of a pipeline, within the
\* memory of each group, such that the slowest stage is as fast as possible.
SrAt(g) == IF g = None THEN Normal ELSE GroupSr(g)
AlphaAt(g) == IF g = None THEN 1 ELSE Alpha(Len(g))
Layers(pipeline) ==
  {l \in [DOMAIN pipeline -> 0..(Pp * NormalLayers)] :
     /\ Sum(l) = Pp * NormalLayers
     /\ \A j \in DOMAIN l : l[j] * AlphaAt(pipeline[j]) <= MemoryLayers}
Cost(pipeline, l) == Max({SrAt(pipeline[j]) * l[j] : j \in DOMAIN l})
Optimal(pipeline) ==
  LET layers == Layers(pipeline)
      best == Min({Cost(pipeline, l) : l \in layers})
  IN  {l \in layers : Cost(pipeline, l) = best}

\* The second: micro batches for the pipelines, at least as many as stages.
Batches(t) == {m \in [1..Dp -> 0..(Dp * NormalMbn)] :
                 Sum(m) = Dp * NormalMbn /\ \A i \in 1..Dp : m[i] >= Len(t[i])}

Legal(t) == Batches(t) # {} /\ \A i \in 1..Dp : Layers(t[i]) # {}

Objective(t) ==
  LET o == [i \in 1..Dp |-> Min({Cost(t[i], l) : l \in Layers(t[i])})]
  IN  Min({Max({o[i] * m[i] : i \in 1..Dp}) : m \in Batches(t)})

\* strategies[0]: of the templates that can be solved one of the best.
Chosen ==
  LET legal == {<<Objective(t), t>> : t \in {u \in Templates : Legal(u)}}
  IN  {x[2] : x \in {y \in legal : \A z \in legal : y[1] <= z[1]}}

\* Overlap of the layers a group holds with those of a stage.
Overlap(g, span) == MapThenSumSet(LAMBDA d : IoU(span, LayersOf(d)), Range(g))

\* The places <<stage, pipeline>> of a template still to fill, stage by stage.
Slots(t) ==
  SelectSeq([k \in 1..(Len(t[1]) * Dp) |-> <<(k - 1) \div Dp + 1, ((k - 1) % Dp) + 1>>],
            LAMBDA s : s[1] \in DOMAIN t[s[2]] /\ t[s[2]][s[1]] = None)

\* The best of the candidates that are not in t yet, if any is left.
Fill(t, slot, layers, candidates) ==
  LET free == SelectSeq(candidates, LAMBDA g : \A i \in 1..Dp : g \notin Range(t[i]))
      span == Spans(layers[slot[2]])[slot[1]]
  IN  IF free = << >> THEN t
      ELSE [t EXCEPT ![slot[2]][slot[1]] =
              FirstBest(free, LAMBDA g : Overlap(g, span))]

\* The first pass takes groups of the node that the first pipeline's straggler is of,
\* the second any.  As many groups are normal as places are left.
NearStraggler(t, layers) ==
  FoldLeft(LAMBDA acc, slot :
             Fill(acc, slot, layers, NormalGroups(NodeOf(Head(t[1][slot[1]])))),
           t, SelectSeq(Slots(t), LAMBDA slot : t[1][slot[1]] # None))
Filled(t, layers) ==
  LET near == NearStraggler(t, layers)
      all == FlattenSeq([n \in 1..Cardinality(Nodes) |-> NormalGroups(n - 1)])
  IN  FoldLeft(LAMBDA acc, slot : Fill(acc, slot, layers, all), near, Slots(near))

-----------------------------------------------------------------------------
(* make_plans *)

\* Each group has Tp ranks.  Those it has no device for go to the suspended
\* devices, and then to dummy devices, numbered from DevicesNum on.
Ranks(pipelines, layers) ==
  LET order == FlattenSeq(pipelines)
      work == FlattenSeq(layers)
      total == 1..(Len(order) * Tp)
      stage(i) == (i - 1) \div Tp + 1
      offset(i) == (i - 1) % Tp
      gaps == {i \in total : offset(i) >= Len(order[stage(i)])}
      gap(i) == Cardinality({k \in gaps : k <= i})
      held == Len(newSuspended)
      device(i) == IF i \notin gaps THEN order[stage(i)][offset(i) + 1]
                   ELSE IF gap(i) <= held THEN newSuspended[gap(i)]
                   ELSE DevicesNum + gap(i) - held - 1
  IN  [ranks |-> [i \in total |-> device(i)],
       suspended |-> {i - 1 : i \in {k \in gaps : gap(k) <= held}}
                       \cup {i - 1 : i \in {k \in total \ gaps : work[stage(k)] = 0}},
       unused |-> {i - 1 : i \in {k \in gaps : gap(k) > held}},
       layers |-> layers]

\* Of dummy devices there are as many as ranks besides the devices' own.
Enough(p) == \A d \in Range(p.ranks) : d < Len(p.ranks)

\* A pipeline without a stage has no last one, pipeline[-1].
NoStage == \E stages \in StagePlans : \E i \in 1..Dp : stages[i] = 0

Fails(why) == pc' = why /\ UNCHANGED <<plan, models, groups, newSuspended>>

Place ==
  /\ pc = "placing"
  /\ UNCHANGED <<shape, sr, changes, model>>
  /\ IF NoStage THEN Fails("IndexError")
     ELSE IF Chosen = {} THEN Fails("no possible strategies")
     ELSE \E t \in Chosen : \E layers \in [1..Dp -> UNION {Optimal(t[i]) : i \in 1..Dp}] :
            /\ \A i \in 1..Dp : layers[i] \in Optimal(t[i])
            /\ LET p == Ranks(Filled(t, layers), layers)
               IN  IF ~Enough(p) THEN Fails("unreachable")
                   ELSE /\ plan' = p
                        /\ models' = [models EXCEPT ![model].plan = p]
                        /\ pc' = "training"
                        /\ groups' = << >> /\ newSuspended' = << >>

-----------------------------------------------------------------------------
Failures == {"tp % curr_tp", "flag_1", "too few devices", "IndexError",
             "no possible strategies", "unreachable"}

Plan == Detect \/ Arrange \/ Place
Failed == pc \in Failures /\ UNCHANGED vars

Next == (\E d \in MayChange \cap Devices : SpeedChange(d)) \/ Plan \/ Failed

\* The process runs: fairness of Plan.  Arrange and Place are possible wherever pc is
\* theirs and leave it, so that theirs is stated without ENABLED, of which they are
\* too costly.
Spec == /\ Init /\ [][Next]_vars
        /\ WF_vars(Detect)
        /\ []<>(pc \notin {"arranging", "placing"})

-----------------------------------------------------------------------------
\* Every device has one rank: run_plan (trainer.py) asserts that a process
\* finds its device in rank_to_device_mapping once.
EveryDeviceRanked ==
  /\ Devices \subseteq Range(plan.ranks)
  /\ IsInjective(plan.ranks)

StageIdle == \E i \in DOMAIN plan.layers : \E j \in DOMAIN plan.layers[i] :
               plan.layers[i][j] = 0
Dummies == plan.unused # {}

\* However often it is re-planned the job ends with an error only in three ways.  After
\* a plan with dummy devices models are not compared (flag_1 does not exist) and a
\* group's width counts them; a stage without layers suspends its group, which may leave
\* a node short of devices; and of pipelines of one stage some get none.  All other
\* assertions hold, and there is a strategy if a whole group's memory holds all layers.
FailsOnlySo ==
  pc \in Failures => \/ pc \in {"flag_1", "tp % curr_tp"} /\ Dummies
                     \/ pc = "too few devices" /\ StageIdle
                     \/ pc = "IndexError" /\ Pp = 1

\* Re-planning ends when the speeds stop changing.
PlanningSettles == <>[][UNCHANGED plan]_vars
=============================================================================
