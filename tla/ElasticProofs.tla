--------------------------- MODULE ElasticProofs ---------------------------
(***************************************************************************)
(* For any number of processes, plans, steps, epochs and windows:          *)
(* processes run the same step under the same plan, and nobody reads half  *)
(* a profile.  The callers of the barrier need not stay one round apart    *)
(* for that: one that overtakes another stops them all (BarrierProofs).    *)
(*                                                                         *)
(* Two processes that have made the same number of calls are between the   *)
(* same barriers, where each may be before or behind the one point at      *)
(* which it works out what to run next.  One that has made a call more is  *)
(* still waiting in it, and counts as if it were about to make it.         *)
(***************************************************************************)
EXTENDS Elastic, FiniteSetTheorems, TLAPS

BP == INSTANCE BarrierProofs WITH Firsts <- Group, MaxCalls <- Calls

\* The places on the way to a run, of which the next call is that of "ran".
Starting == {"baselines", "starting"}
Late == {"stepping", "running", "ran"}
Places == {"preprofiling", "profiled"} \cup Starting \cup Late
          \cup {"stepped", "logged", "reading", "read", "deciding", "done"}

\* Where a process called from that is now at or behind this place.
CalledFrom == [baselines |-> "profiled", stepped |-> "ran", reading |-> "logged",
               deciding |-> "read"]

\* The run that a process is at or next comes to.
NotBegun(a) == a \in {"preprofiling", "profiled", "stepping"} \cup Starting
NotProfiled(a) == a \in {"preprofiling", "profiled"} \cup Starting
Run(p) == [ran |-> IF NotBegun(pc[p]) THEN ran[p] + 1 ELSE ran[p],
           cnt |-> IF NotBegun(pc[p]) THEN cnt[p] + 1 ELSE cnt[p],
           epoch |-> epoch[p], step |-> step[p], start |-> start[p], plan |-> plan[p],
           window |-> IF NotProfiled(pc[p]) THEN 1 ELSE file[p].window]

\* The run after r when nothing changes, and after a decision.
NextOf(r) == IF r.step + 1 < Steps
             THEN [step |-> r.step + 1, epoch |-> r.epoch]
             ELSE [step |-> r.start, epoch |-> r.epoch + 1]
Onward(r) ==
  [ran |-> r.ran + 1, cnt |-> r.cnt + 1, epoch |-> NextOf(r).epoch,
   step |-> NextOf(r).step, start |-> r.start, plan |-> r.plan, window |-> r.window]
DecidedBy(d, r) ==
  IF d.switch
  THEN [ran |-> r.ran + 1, cnt |-> 1, epoch |-> r.epoch, step |-> r.step,
        start |-> r.step, window |-> r.window + 1,
        plan |-> [window |-> r.window, suspended |-> d.suspended]]
  ELSE [ran |-> r.ran + 1, cnt |-> 1, epoch |-> NextOf(r).epoch,
        step |-> NextOf(r).step, start |-> r.start, plan |-> r.plan,
        window |-> r.window + 1]
Decided(r) == DecidedBy(decision, r)

\* A process at place a with run r, and one at b with run u, between the same
\* barriers: neither has passed the point, or both; or the first has not; or the
\* first is done, and no reading of files is ahead of the other.
Abreast(a, r, b, u) ==
  /\ r = u
  /\ \/ a \in {"preprofiling", "profiled"} /\ b \in {"preprofiling", "profiled"}
     \/ a \in Starting \cup Late /\ b \in Starting \cup Late
     \/ a \in {"stepped", "logged"} /\ b \in {"stepped", "logged"}
     \/ a \in {"reading", "read"} /\ b \in {"reading", "read"}
     \/ a = "deciding" /\ b = "deciding"
  /\ a = "logged" \/ b = "logged" => r.cnt = SLIDING_WINDOW + 1

Behind(a, r, b, u) ==
  /\ b \in Late
  /\ \/ a = "stepped" /\ r.cnt # SLIDING_WINDOW + 1 /\ u = Onward(r)
     \/ /\ a = "deciding" /\ decision.seen = [i \in 1..N |-> r.window]
        /\ u = Decided(r)

Over(a, b, u) ==
  /\ a = "done"
  /\ \/ b \in Late \cup {"deciding", "done"}
     \/ b = "stepped" /\ u.cnt # SLIDING_WINDOW + 1

Beside(a, r, b, u) ==
  \/ Abreast(a, r, b, u) \/ Behind(a, r, b, u) \/ Behind(b, u, a, r)
  \/ Over(a, b, u) \/ Over(b, a, r)

-----------------------------------------------------------------------------
Shape ==
  /\ pc \in [Group -> Places]
  /\ cnt \in [Group -> Nat]
  /\ seen \in [Group -> Seq(Nat)]
  /\ file \in [Group -> [window : Nat, entries : Nat, eof : BOOLEAN]]
  /\ step \in [Group -> Nat] /\ epoch \in [Group -> Nat] /\ start \in [Group -> Nat]
  /\ ran \in [Group -> Nat]
  /\ plan \in [Group -> [window : Nat, suspended : SUBSET Group]]

\* Whoever is in a call of the barrier has come from the place before.
Waiting == \A p \in Group : at[p] # "outside" => pc[p] \in DOMAIN CalledFrom

\* What is in the file of a process, n runs into its window, and what it has read.
FileFits(place, n, f) ==
  /\ NotProfiled(place) => n = 0 /\ f.window = 0
  /\ place \in {"profiled"} \cup Starting =>
       f = [window |-> 0, entries |-> PRE_PROFILING_ROUND, eof |-> TRUE]
  /\ place \in {"stepping", "ran", "stepped"} => f.entries = n /\ f.eof = FALSE
  /\ place = "running" => f.entries + 1 = n /\ f.eof = FALSE
  /\ place \in {"logged", "reading", "read", "deciding"} =>
       n = SLIDING_WINDOW + 1 /\ f.entries = n /\ f.eof = TRUE

ListFits(place, f, s) ==
  /\ place \in {"preprofiling", "profiled", "stepped", "logged"} \cup Late => s = << >>
  /\ place \in {"baselines", "reading"} => Len(s) < N
  /\ place = "reading" => \A i \in 1..Len(s) : s[i] = f.window
  /\ place \in {"read", "deciding"} => s = [i \in 1..N |-> f.window]

Fits(p) == FileFits(pc[p], cnt[p], file[p]) /\ ListFits(pc[p], file[p], seen[p])
Profiles == \A p \in Group : Fits(p)

Together == \A p, q \in Group : p # q =>
  /\ entered[p] = entered[q] => Beside(pc[p], Run(p), pc[q], Run(q))
  /\ entered[q] = entered[p] + 1 => Beside(pc[p], Run(p), CalledFrom[pc[q]], Run(q))

IInv == Shape /\ Waiting /\ Profiles /\ Together /\ BP!AnyIInv

-----------------------------------------------------------------------------
-----------------------------------------------------------------------------
\* The handler of this module is the one that the proofs are about.
LEMMA SameHandler ==
  ASSUME NEW p \in Group
  PROVE  /\ B!Enter(p) <=> BP!Enter(p)
         /\ B!ResumeArrived(p) <=> BP!ResumeArrived(p)
         /\ B!ResumeEnding(p) <=> BP!ResumeEnding(p)
         /\ B!BarrierInit <=> BP!BarrierInit
<1>1. B!Size = BP!Size
  <2>1. B!Cardinality(Group) = BP!Cardinality(Group)
    BY DEF B!Cardinality, BP!Cardinality
  <2>. QED
    BY <2>1 DEF B!Size, BP!Size
<1>. USE <1>1 DEF B!AllArrived, BP!AllArrived, B!AllPassed, BP!AllPassed,
       B!PassFirstLoop, BP!PassFirstLoop, B!NotifyAll, BP!NotifyAll,
       B!Sleepers, BP!Sleepers, B!Return, BP!Return, B!NumsOnReturn, BP!NumsOnReturn,
       B!SleepAgain, BP!SleepAgain
<1>2. B!Enter(p) <=> BP!Enter(p)
  BY DEF B!Enter, BP!Enter, B!EndNumsOnEntry, BP!EndNumsOnEntry
<1>3. B!ResumeArrived(p) <=> BP!ResumeArrived(p)
  BY DEF B!ResumeArrived, BP!ResumeArrived
<1>4. B!ResumeEnding(p) <=> BP!ResumeEnding(p)
  BY DEF B!ResumeEnding, BP!ResumeEnding
<1>6. B!BarrierInit <=> BP!BarrierInit
  BY DEF B!BarrierInit, BP!BarrierInit
<1>. QED
  BY <1>2, <1>3, <1>4, <1>6

\* What the proofs about the handler assume.
LEMMA HandlerAssumptions == /\ BP!IsFiniteSet(Group) /\ Group # {}
                            /\ Group \subseteq Group /\ Calls \in Nat
<1>1. IsFiniteSet(Group)
  BY SizeAssumption, FS_Interval DEF Group
<1>2. BP!IsFiniteSet(Group)
  BY <1>1 DEF IsFiniteSet, BP!IsFiniteSet
<1>3. 0 \in Group
  BY SizeAssumption DEF Group
<1>4. Calls \in Nat
  <2>1. Steps * Epochs \in Nat /\ Steps \in Nat /\ Epochs \in Nat
    BY LengthAssumption
  <2>2. 6 * Steps * Epochs \in Nat
    BY <2>1
  <2>. QED
    BY <2>2 DEF Calls
<1>. QED
  BY <1>2, <1>3, <1>4

\* The invariant of the handler survives what it does, whenever it is called, and
\* what it has no part in.
LEMMA HandlerKept ==
  /\ BP!BarrierInit => BP!AnyIInv
  /\ \A p \in Group : BP!AnyIInv /\ BP!Enter(p) => BP!AnyIInv'
  /\ \A p \in Group : BP!AnyIInv /\ (BP!ResumeArrived(p) \/ BP!ResumeEnding(p)) => BP!AnyIInv'
  /\ BP!AnyIInv /\ UNCHANGED barrierVars => BP!AnyIInv'
<1>. USE HandlerAssumptions
<1>1. BP!BarrierInit => BP!AnyIInv
  BY BP!InitIInv DEF BP!AnyIInv
<1>2. \A p \in Group : BP!AnyIInv /\ BP!Enter(p) => BP!AnyIInv'
  BY BP!EnterAnyIInv
<1>3. \A p \in Group : BP!AnyIInv /\ (BP!ResumeArrived(p) \/ BP!ResumeEnding(p)) => BP!AnyIInv'
  BY BP!ResumeAnyIInv DEF BP!Resume
<1>4. BP!AnyIInv /\ UNCHANGED barrierVars => BP!AnyIInv'
  <2>1. BP!AnyIInv /\ UNCHANGED barrierVars => notified' \in SUBSET Group
    BY DEF BP!AnyIInv, BP!IInv, BP!Jammed, BP!TypeOK, barrierVars
  <2>. QED
    BY <2>1, BP!SleepAnyIInv DEF barrierVars
<1>. QED
  BY <1>1, <1>2, <1>3, <1>4

\* What the handler's steps do to the calls made and to the threads in it.
LEMMA HandlerSteps ==
  ASSUME BP!AnyIInv, NEW p \in Group
  PROVE  /\ entered \in [Group -> Nat] /\ left \in [Group -> Nat]
         /\ BP!Enter(p) => /\ at[p] = "outside"
                           /\ entered' = [entered EXCEPT ![p] = @ + 1]
                           /\ \A q \in Group \ {p} : at'[q] = at[q]
         /\ BP!ResumeArrived(p) \/ BP!ResumeEnding(p) =>
              /\ entered' = entered /\ at[p] # "outside"
              /\ \A q \in Group \ {p} : at'[q] = at[q]
<1>1. BP!TypeOK
  BY DEF BP!AnyIInv, BP!IInv, BP!Jammed
<1>2. BP!Enter(p) => /\ at[p] = "outside"
                     /\ entered' = [entered EXCEPT ![p] = @ + 1]
                     /\ \A q \in Group \ {p} : at'[q] = at[q]
  BY <1>1 DEF BP!Enter, BP!PassFirstLoop, BP!Return, BP!TypeOK
<1>3. BP!ResumeArrived(p) \/ BP!ResumeEnding(p) =>
        /\ entered' = entered /\ at[p] # "outside"
        /\ \A q \in Group \ {p} : at'[q] = at[q]
  BY <1>1 DEF BP!ResumeArrived, BP!ResumeEnding, BP!PassFirstLoop, BP!Return, BP!SleepAgain,
              BP!TypeOK
<1>. QED
  BY <1>1, <1>2, <1>3 DEF BP!TypeOK

\* A process that is outside the barrier is nowhere ahead of another, and one that
\* is a call ahead is in the barrier.
LEMMA Rounds ==
  ASSUME BP!AnyIInv, NEW p \in Group, NEW q \in Group
  PROVE  /\ at[p] = "outside" => entered[q] \in {entered[p], entered[p] + 1}
         /\ entered[q] = entered[p] + 1 => at[q] # "outside"
  BY HandlerAssumptions, BP!AnyRounds

LEMMA CallPlaces ==
  /\ DOMAIN After = {"profiled", "ran", "logged", "read"}
  /\ DOMAIN CalledFrom = {"baselines", "stepped", "reading", "deciding"}
  /\ After["profiled"] = "baselines" /\ After["ran"] = "stepped"
  /\ After["logged"] = "reading" /\ After["read"] = "deciding"
  /\ CalledFrom["baselines"] = "profiled" /\ CalledFrom["stepped"] = "ran"
  /\ CalledFrom["reading"] = "logged" /\ CalledFrom["deciding"] = "read"
  /\ Expected["baselines"] = PRE_PROFILING_ROUND - 1 /\ Expected["reading"] = SLIDING_WINDOW
  /\ AllRead["baselines"] = "starting" /\ AllRead["reading"] = "read"
  /\ DOMAIN Expected = {"baselines", "reading"}
  BY DEF After, CalledFrom, Expected, AllRead
-----------------------------------------------------------------------------
\* Both processes of a pair keep their relation when one outside the barrier moves
\* on, if the move keeps it wherever the other is.
LEMMA StepTogether ==
  ASSUME IInv, NEW p \in Group, at[p] = "outside", UNCHANGED barrierVars,
         \A q \in Group \ {p} : pc'[q] = pc[q] /\ Run(q)' = Run(q),
         \A q \in Group \ {p} :
           pc[q] = "deciding" /\ decision.seen = [i \in 1..N |-> Run(q).window] =>
             decision' = decision,
         \A q \in Group \ {p} : \A b :
           Beside(pc[p], Run(p), b, Run(q)) => Beside(pc[p], Run(p), b, Run(q))'
  PROVE  Together'
<1>. SUFFICES ASSUME NEW x \in Group, NEW y \in Group, x # y
              PROVE  /\ entered[x] = entered[y] =>
                          Beside(pc[x], Run(x), pc[y], Run(y))'
                     /\ entered[y] = entered[x] + 1 =>
                          Beside(pc[x], Run(x), CalledFrom[pc[y]], Run(y))'
  BY DEF Together, barrierVars
<1>1. /\ entered[x] = entered[y] => Beside(pc[x], Run(x), pc[y], Run(y))
      /\ entered[x] = entered[y] => Beside(pc[y], Run(y), pc[x], Run(x))
      /\ entered[y] = entered[x] + 1 => Beside(pc[x], Run(x), CalledFrom[pc[y]], Run(y))
  BY DEF IInv, Together
<1>2. CASE x = p
  <2>. y \in Group \ {p} /\ pc'[y] = pc[y] /\ Run(y)' = Run(y)
    BY <1>2
  <2>1. \A b : Beside(pc[x], Run(x), b, Run(y)) => Beside(pc[x], Run(x), b, Run(y))'
    BY <1>2
  <2>2. entered[x] = entered[y] => Beside(pc[x], Run(x), pc[y], Run(y))'
    <3>. PICK b : b = pc[y]
      OBVIOUS
    <3>1. entered[x] = entered[y] => Beside(pc[x], Run(x), b, Run(y))'
      BY <1>1, <2>1
    <3>. QED
      BY <3>1 DEF Beside, Abreast, Behind, Over
  <2>3. entered[y] = entered[x] + 1 => Beside(pc[x], Run(x), CalledFrom[pc[y]], Run(y))'
    <3>. PICK b : b = CalledFrom[pc[y]]
      OBVIOUS
    <3>1. entered[y] = entered[x] + 1 => Beside(pc[x], Run(x), b, Run(y))'
      BY <1>1, <2>1
    <3>2. CalledFrom[pc'[y]] = b
      OBVIOUS
    <3>. QED
      BY <3>1, <3>2 DEF Beside, Abreast, Behind, Over, CalledFrom
  <2>. QED
    BY <2>2, <2>3
<1>3. CASE y = p
  <2>1. entered[y] # entered[x] + 1
    BY <1>3, Rounds DEF IInv
  <2>. x \in Group \ {p} /\ pc'[x] = pc[x] /\ Run(x)' = Run(x)
    BY <1>3
  <2>. PICK b : b = pc[x]
    OBVIOUS
  <2>2. entered[x] = entered[y] => Beside(pc[y], Run(y), b, Run(x))'
    BY <1>1, <1>3
  <2>3. entered[x] = entered[y] => Beside(pc[x], Run(x), pc[y], Run(y))'
    BY <2>2 DEF Beside, Abreast, Behind, Over
  <2>. QED
    BY <2>1, <2>3
<1>4. CASE x # p /\ y # p
  <2>1. /\ pc'[x] = pc[x] /\ Run(x)' = Run(x) /\ pc'[y] = pc[y] /\ Run(y)' = Run(y)
        /\ \/ decision' = decision
           \/ /\ ~(pc[x] = "deciding" /\ decision.seen = [i \in 1..N |-> Run(x).window])
              /\ ~(pc[y] = "deciding" /\ decision.seen = [i \in 1..N |-> Run(y).window])
    BY <1>4
  <2>2. CASE decision' = decision
    BY <1>1, <2>1, <2>2 DEF Beside, Abreast, Behind, Over, Decided, CalledFrom
  <2>3. CASE /\ ~(pc[x] = "deciding" /\ decision.seen = [i \in 1..N |-> Run(x).window])
             /\ ~(pc[y] = "deciding" /\ decision.seen = [i \in 1..N |-> Run(y).window])
    <3>1. entered[x] = entered[y] => Beside(pc[x], Run(x), pc[y], Run(y))'
      BY <1>1, <2>1, <2>3 DEF Beside, Abreast, Behind, Over, Onward
    <3>2. ASSUME entered[y] = entered[x] + 1
          PROVE  Beside(pc[x], Run(x), CalledFrom[pc[y]], Run(y))'
      <4>1. pc[y] \in DOMAIN CalledFrom
        BY <3>2, Rounds DEF IInv, Waiting
      <4>2. CalledFrom[pc[y]] # "deciding" /\ CalledFrom[pc'[y]] = CalledFrom[pc[y]]
        BY <2>1, <4>1, CallPlaces
      <4>. PICK b : b = CalledFrom[pc[y]]
        OBVIOUS
      <4>3. Beside(pc[x], Run(x), b, Run(y)) /\ b # "deciding"
        BY <1>1, <3>2, <4>2
      <4>4. Beside(pc[x], Run(x), b, Run(y))'
        BY <4>3, <2>1, <2>3 DEF Beside, Abreast, Behind, Over, Onward
      <4>5. CalledFrom[pc[y]]' = b
        BY <4>2 DEF CalledFrom
      <4>. QED
        BY <4>4, <4>5 DEF Beside, Abreast, Behind, Over
    <3>. QED
      BY <3>1, <3>2
  <2>. QED
    BY <2>1, <2>2, <2>3
<1>. QED
  BY <1>2, <1>3, <1>4

\* Steps between the barriers that leave the run at hand as it is.
LEMMA QuietTogether ==
  ASSUME IInv, NEW p \in Group, NEW a, at[p] = "outside",
         UNCHANGED <<barrierVars, decision>>, pc' = [pc EXCEPT ![p] = a],
         \A q \in Group : Run(q)' = Run(q),
         \/ a = pc[p]
         \/ pc[p] = "preprofiling" /\ a = "profiled"
         \/ pc[p] = "baselines" /\ a = "starting"
         \/ pc[p] = "starting" /\ a = "stepping"
         \/ pc[p] = "stepping" /\ a = "running"
         \/ pc[p] = "running" /\ a = "ran"
         \/ pc[p] = "stepped" /\ a = "logged" /\ cnt[p] = SLIDING_WINDOW + 1
         \/ pc[p] = "reading" /\ a = "read"
  PROVE  Together'
<1>1. pc'[p] = a /\ \A q \in Group \ {p} : pc'[q] = pc[q]
  BY DEF IInv, Shape
<1>2. pc[p] = "stepped" => Run(p).cnt = cnt[p]
  BY DEF Run, NotBegun, Starting
<1>3. ASSUME NEW q \in Group \ {p}, NEW b, Beside(pc[p], Run(p), b, Run(q))
      PROVE  Beside(pc[p], Run(p), b, Run(q))'
  <2>1. Run(p)' = Run(p) /\ Run(q)' = Run(q) /\ decision' = decision
    OBVIOUS
  <2>. PICK r, u : r = Run(p) /\ u = Run(q)
    OBVIOUS
  <2>2. Beside(pc[p], r, b, u)
    BY <1>3
  <2>3. Beside(a, r, b, u)
    BY <1>2, <2>2 DEF Beside, Abreast, Behind, Over, Starting, Late
  <2>4. Beside(a, r, b, u)'
    BY <2>1, <2>3 DEF Beside, Abreast, Behind, Over, Decided
  <2>. QED
    BY <2>1, <2>4, <1>1 DEF Beside, Abreast, Behind, Over
<1>4. decision' = decision
  OBVIOUS
<1>5. UNCHANGED barrierVars
  OBVIOUS
<1>. QED
  BY <1>1, <1>3, <1>4, <1>5, StepTogether

\* Where processes are not waiting.
LEMMA NotWaiting ==
  ASSUME IInv, NEW p \in Group, pc[p] \notin DOMAIN CalledFrom
  PROVE  at[p] = "outside"
  BY DEF IInv, Waiting

\* The rest of the invariant over such a step.
LEMMA QuietIInv ==
  ASSUME IInv, NEW p \in Group, NEW a, at[p] = "outside",
         UNCHANGED <<barrierVars, epoch, step, start, plan, decision>>,
         pc' = [pc EXCEPT ![p] = a], a \notin DOMAIN CalledFrom \/ a = pc[p],
         \A q \in Group \ {p} : /\ file'[q] = file[q] /\ seen'[q] = seen[q]
                                /\ cnt'[q] = cnt[q] /\ ran'[q] = ran[q],
         Shape', Fits(p)', Run(p)' = Run(p),
         \/ a = pc[p]
         \/ pc[p] = "preprofiling" /\ a = "profiled"
         \/ pc[p] = "baselines" /\ a = "starting"
         \/ pc[p] = "starting" /\ a = "stepping"
         \/ pc[p] = "stepping" /\ a = "running"
         \/ pc[p] = "running" /\ a = "ran"
         \/ pc[p] = "stepped" /\ a = "logged" /\ cnt[p] = SLIDING_WINDOW + 1
         \/ pc[p] = "reading" /\ a = "read"
  PROVE  IInv'
<1>1. pc'[p] = a /\ \A q \in Group \ {p} : pc'[q] = pc[q]
  BY DEF IInv, Shape
<1>2. \A q \in Group : Run(q)' = Run(q)
  <2>. SUFFICES ASSUME NEW q \in Group \ {p} PROVE Run(q)' = Run(q)
    OBVIOUS
  <2>. QED
    BY <1>1 DEF Run, NotBegun, NotProfiled
<1>3. Together'
  BY <1>2, QuietTogether
<1>4. Waiting'
  BY <1>1 DEF IInv, Waiting, barrierVars, CalledFrom
<1>5. Profiles'
  <2>. SUFFICES ASSUME NEW q \in Group \ {p} PROVE Fits(q)'
    BY DEF Profiles
  <2>1. Fits(q)
    BY DEF IInv, Profiles
  <2>. QED
    BY <2>1, <1>1 DEF Fits
<1>6. BP!AnyIInv'
  BY HandlerKept DEF IInv
<1>. QED
  BY <1>3, <1>4, <1>5, <1>6 DEF IInv

\* What the invariant says of one process.
LEMMA OfOne ==
  ASSUME IInv, NEW p \in Group
  PROVE  /\ pc[p] \in Places /\ cnt[p] \in Nat /\ seen[p] \in Seq(Nat)
         /\ file[p] \in [window : Nat, entries : Nat, eof : BOOLEAN]
         /\ step[p] \in Nat /\ epoch[p] \in Nat /\ start[p] \in Nat /\ ran[p] \in Nat
         /\ plan[p] \in [window : Nat, suspended : SUBSET Group]
         /\ FileFits(pc[p], cnt[p], file[p]) /\ ListFits(pc[p], file[p], seen[p])
  BY DEF IInv, Shape, Profiles, Fits

\* Shape after a step that changes some of what one process has.
LEMMA ShapeKept ==
  ASSUME IInv, NEW p \in Group, NEW a \in Places, NEW f, NEW s, NEW c, NEW r,
         f \in [window : Nat, entries : Nat, eof : BOOLEAN], s \in Seq(Nat),
         c \in Nat, r \in Nat,
         pc' = [pc EXCEPT ![p] = a], file' = [file EXCEPT ![p] = f],
         seen' = [seen EXCEPT ![p] = s], cnt' = [cnt EXCEPT ![p] = c],
         ran' = [ran EXCEPT ![p] = r]
  PROVE  /\ pc' \in [Group -> Places] /\ cnt' \in [Group -> Nat]
         /\ seen' \in [Group -> Seq(Nat)]
         /\ file' \in [Group -> [window : Nat, entries : Nat, eof : BOOLEAN]]
         /\ ran' \in [Group -> Nat]
<1>. DEFINE File == [window : Nat, entries : Nat, eof : BOOLEAN]
            List == Seq(Nat)
<1>1. /\ pc \in [Group -> Places] /\ cnt \in [Group -> Nat] /\ seen \in [Group -> List]
      /\ file \in [Group -> File] /\ ran \in [Group -> Nat]
  BY DEF IInv, Shape
<1>2. f \in File /\ s \in List
  OBVIOUS
<1>3. /\ pc' \in [Group -> Places] /\ cnt' \in [Group -> Nat] /\ seen' \in [Group -> List]
      /\ file' \in [Group -> File] /\ ran' \in [Group -> Nat]
  <2>. HIDE DEF File, List
  <2>. QED
    BY <1>1, <1>2
<1>. QED
  BY <1>3

\* A step between the barriers that leaves the run at hand as it is: where the process
\* goes, its file, what it has read, its counters.
LEMMA QuietStep ==
  ASSUME IInv, NEW p \in Group, NEW a \in Places, NEW f, NEW s, NEW c, NEW r,
         f \in [window : Nat, entries : Nat, eof : BOOLEAN], s \in Seq(Nat),
         c \in Nat, r \in Nat,
         pc' = [pc EXCEPT ![p] = a], file' = [file EXCEPT ![p] = f],
         seen' = [seen EXCEPT ![p] = s], cnt' = [cnt EXCEPT ![p] = c],
         ran' = [ran EXCEPT ![p] = r],
         UNCHANGED <<barrierVars, epoch, step, start, plan, decision>>,
         at[p] = "outside", a \notin DOMAIN CalledFrom \/ a = pc[p],
         FileFits(a, c, f), ListFits(a, f, s),
         IF NotBegun(a) = NotBegun(pc[p]) THEN r = ran[p] /\ c = cnt[p]
         ELSE NotBegun(pc[p]) /\ r = ran[p] + 1 /\ c = cnt[p] + 1,
         IF NotProfiled(a) THEN NotProfiled(pc[p])
         ELSE f.window = IF NotProfiled(pc[p]) THEN 1 ELSE file[p].window,
         \/ a = pc[p]
         \/ pc[p] = "preprofiling" /\ a = "profiled"
         \/ pc[p] = "baselines" /\ a = "starting"
         \/ pc[p] = "starting" /\ a = "stepping"
         \/ pc[p] = "stepping" /\ a = "running"
         \/ pc[p] = "running" /\ a = "ran"
         \/ pc[p] = "stepped" /\ a = "logged" /\ cnt[p] = SLIDING_WINDOW + 1
         \/ pc[p] = "reading" /\ a = "read"
  PROVE  IInv'
<1>1. /\ pc' \in [Group -> Places] /\ cnt' \in [Group -> Nat]
      /\ seen' \in [Group -> Seq(Nat)]
      /\ file' \in [Group -> [window : Nat, entries : Nat, eof : BOOLEAN]]
      /\ ran' \in [Group -> Nat]
  BY ShapeKept
<1>2. /\ pc'[p] = a /\ file'[p] = f /\ seen'[p] = s /\ cnt'[p] = c /\ ran'[p] = r
      /\ \A q \in Group \ {p} : /\ pc'[q] = pc[q] /\ file'[q] = file[q]
                                /\ seen'[q] = seen[q] /\ cnt'[q] = cnt[q]
                                /\ ran'[q] = ran[q]
  BY DEF IInv, Shape
<1>3. Shape'
  <2>1. /\ step' = step /\ epoch' = epoch /\ start' = start /\ plan' = plan
        /\ step \in [Group -> Nat] /\ epoch \in [Group -> Nat] /\ start \in [Group -> Nat]
        /\ plan \in [Group -> [window : Nat, suspended : SUBSET Group]]
    BY DEF IInv, Shape
  <2>. QED
    BY <1>1, <2>1 DEF Shape
<1>4. Fits(p)'
  BY <1>2 DEF Fits
<1>5. Run(p)' = Run(p)
  <2>1. /\ (IF NotBegun(a) THEN r + 1 ELSE r) = (IF NotBegun(pc[p]) THEN ran[p] + 1 ELSE ran[p])
        /\ (IF NotBegun(a) THEN c + 1 ELSE c) = (IF NotBegun(pc[p]) THEN cnt[p] + 1 ELSE cnt[p])
    <3>1. CASE NotBegun(a) = NotBegun(pc[p])
      BY <3>1
    <3>2. CASE NotBegun(a) # NotBegun(pc[p])
      BY <3>2 DEF NotBegun
    <3>. QED
      BY <3>1, <3>2
  <2>2. (IF NotProfiled(a) THEN 1 ELSE f.window)
          = (IF NotProfiled(pc[p]) THEN 1 ELSE file[p].window)
    OBVIOUS
  <2>3. /\ epoch'[p] = epoch[p] /\ step'[p] = step[p] /\ start'[p] = start[p]
        /\ plan'[p] = plan[p]
    OBVIOUS
  <2>. HIDE DEF NotBegun, NotProfiled
  <2>. QED
    BY <2>1, <2>2, <2>3, <1>2 DEF Run
<1>6. \A q \in Group \ {p} : /\ file'[q] = file[q] /\ seen'[q] = seen[q]
                             /\ cnt'[q] = cnt[q] /\ ran'[q] = ran[q]
  BY <1>2
<1>. QED
  BY <1>3, <1>4, <1>5, <1>6, QuietIInv

\* A function with the value it has at p put there is the same function.
LEMMA Unchanged ==
  ASSUME IInv, NEW p \in Group
  PROVE  /\ file = [file EXCEPT ![p] = file[p]] /\ seen = [seen EXCEPT ![p] = seen[p]]
         /\ cnt = [cnt EXCEPT ![p] = cnt[p]] /\ ran = [ran EXCEPT ![p] = ran[p]]
         /\ pc = [pc EXCEPT ![p] = pc[p]]
  BY DEF IInv, Shape

-----------------------------------------------------------------------------
\* What is left of a file's record when some of it is replaced.
LEMMA FileRecord ==
  ASSUME NEW x \in [window : Nat, entries : Nat, eof : BOOLEAN], NEW n \in Nat,
         NEW e \in BOOLEAN
  PROVE  /\ [x EXCEPT !.entries = n] = [window |-> x.window, entries |-> n, eof |-> x.eof]
         /\ [x EXCEPT !.eof = e] = [window |-> x.window, entries |-> x.entries, eof |-> e]
         /\ [x EXCEPT !.entries = n, !.eof = e]
              = [window |-> x.window, entries |-> n, eof |-> e]
<1>1. [x EXCEPT !.entries = n] = [window |-> x.window, entries |-> n, eof |-> x.eof]
  OBVIOUS
<1>2. [x EXCEPT !.eof = e] = [window |-> x.window, entries |-> x.entries, eof |-> e]
  OBVIOUS
<1>3. [x EXCEPT !.entries = n, !.eof = e]
        = [window |-> x.window, entries |-> n, eof |-> e]
  <2>1. [x EXCEPT !.entries = n, !.eof = e] = [[x EXCEPT !.entries = n] EXCEPT !.eof = e]
    OBVIOUS
  <2>. DEFINE y == [window |-> x.window, entries |-> n, eof |-> x.eof]
  <2>2. [y EXCEPT !.eof = e] = [window |-> x.window, entries |-> n, eof |-> e]
    <3>1. y \in [window : Nat, entries : Nat, eof : BOOLEAN] /\ y.window = x.window
          /\ y.entries = n
      OBVIOUS
    <3>. HIDE DEF y
    <3>2. [y EXCEPT !.eof = e] = [window |-> y.window, entries |-> y.entries, eof |-> e]
      BY <3>1
    <3>. QED
      BY <3>1, <3>2
  <2>. QED
    BY <2>1, <2>2, <1>1
<1>. QED
  BY <1>1, <1>2, <1>3

\* The steps that leave the run at hand as it is.
LEMMA PreProfileIInv ==
  ASSUME IInv, NEW p \in Group, PreProfile(p)
  PROVE  IInv'
<1>. DEFINE f == [window |-> 0, entries |-> PRE_PROFILING_ROUND, eof |-> TRUE]
<1>1. /\ pc[p] = "preprofiling" /\ pc' = [pc EXCEPT ![p] = "profiled"]
      /\ file' = [file EXCEPT ![p].entries = PRE_PROFILING_ROUND, ![p].eof = TRUE]
      /\ UNCHANGED <<barrierVars, seen, cnt, step, epoch, start, plan, ran, decision>>
  BY DEF PreProfile, GoTo, loopVars
<1>2. at[p] = "outside" /\ "profiled" \notin DOMAIN CalledFrom
  BY <1>1, NotWaiting, CallPlaces
<1>3. /\ file[p] \in [window : Nat, entries : Nat, eof : BOOLEAN]
      /\ file[p].window = 0 /\ cnt[p] = 0 /\ seen[p] = << >>
      /\ seen[p] \in Seq(Nat) /\ cnt[p] \in Nat /\ ran[p] \in Nat
  BY <1>1, OfOne DEF FileFits, ListFits, NotProfiled
<1>4. file' = [file EXCEPT ![p] = f]
  <2>1. file' = [file EXCEPT ![p] = [file[p] EXCEPT !.entries = PRE_PROFILING_ROUND,
                                                    !.eof = TRUE]]
    BY <1>1 DEF IInv, Shape
  <2>2. [file[p] EXCEPT !.entries = PRE_PROFILING_ROUND, !.eof = TRUE] = f
    BY <1>3, WindowAssumption, FileRecord
  <2>. QED
    BY <2>1, <2>2
<1>5. seen' = [seen EXCEPT ![p] = seen[p]] /\ cnt' = [cnt EXCEPT ![p] = cnt[p]]
      /\ ran' = [ran EXCEPT ![p] = ran[p]]
  BY <1>1, Unchanged
<1>6. f \in [window : Nat, entries : Nat, eof : BOOLEAN]
  BY WindowAssumption
<1>7. FileFits("profiled", cnt[p], f) /\ ListFits("profiled", f, seen[p])
  BY <1>3 DEF FileFits, ListFits, NotProfiled, Starting, Late
<1>8. /\ NotBegun("profiled") = NotBegun(pc[p]) /\ NotProfiled("profiled")
      /\ NotProfiled(pc[p]) /\ "profiled" \in Places
  BY <1>1 DEF NotBegun, NotProfiled, Places
<1>. HIDE DEF f
<1>. QED
  BY <1>1, <1>2, <1>3, <1>4, <1>5, <1>6, <1>7, <1>8, QuietStep

LEMMA StartPlanIInv ==
  ASSUME IInv, NEW p \in Group, StartPlan(p)
  PROVE  IInv'
<1>. DEFINE f == [window |-> 1, entries |-> 0, eof |-> FALSE]
<1>1. /\ pc[p] = "starting" /\ pc' = [pc EXCEPT ![p] = "stepping"]
      /\ file' = [file EXCEPT ![p] = [window |-> file[p].window + 1, entries |-> 0,
                                      eof |-> FALSE]]
      /\ seen' = [seen EXCEPT ![p] = << >>]
      /\ UNCHANGED <<barrierVars, cnt, step, epoch, start, plan, ran, decision>>
  BY DEF StartPlan, GoTo, Truncated, Fresh, loopVars
<1>2. at[p] = "outside" /\ "stepping" \notin DOMAIN CalledFrom
  BY <1>1, NotWaiting, CallPlaces
<1>3. /\ file[p].window = 0 /\ cnt[p] = 0 /\ cnt[p] \in Nat /\ ran[p] \in Nat
      /\ << >> \in Seq(Nat)
  <2>1. FileFits(pc[p], cnt[p], file[p]) /\ ran[p] \in Nat
    BY OfOne
  <2>2. NotProfiled(pc[p])
    BY <1>1 DEF NotProfiled, Starting
  <2>. QED
    BY <2>1, <2>2 DEF FileFits
<1>4. file' = [file EXCEPT ![p] = f]
  BY <1>1, <1>3
<1>5. cnt' = [cnt EXCEPT ![p] = cnt[p]] /\ ran' = [ran EXCEPT ![p] = ran[p]]
  BY <1>1, Unchanged
<1>6. f \in [window : Nat, entries : Nat, eof : BOOLEAN]
  OBVIOUS
<1>7. FileFits("stepping", cnt[p], f) /\ ListFits("stepping", f, << >>)
  BY <1>3 DEF FileFits, ListFits, NotProfiled, Starting, Late
<1>8. /\ NotBegun("stepping") = NotBegun(pc[p]) /\ ~NotProfiled("stepping")
      /\ NotProfiled(pc[p]) /\ "stepping" \in Places /\ f.window = 1
  BY <1>1 DEF NotBegun, NotProfiled, Starting, Late, Places
<1>. HIDE DEF f
<1>. QED
  BY <1>1, <1>2, <1>3, <1>4, <1>5, <1>6, <1>7, <1>8, QuietStep

LEMMA BeginRunIInv ==
  ASSUME IInv, NEW p \in Group, BeginRun(p)
  PROVE  IInv'
<1>1. /\ pc[p] = "stepping" /\ pc' = [pc EXCEPT ![p] = "running"]
      /\ cnt' = [cnt EXCEPT ![p] = cnt[p] + 1] /\ ran' = [ran EXCEPT ![p] = ran[p] + 1]
      /\ UNCHANGED <<barrierVars, file, seen, step, epoch, start, plan, decision>>
  BY DEF BeginRun, GoTo
<1>2. at[p] = "outside" /\ "running" \notin DOMAIN CalledFrom
  BY <1>1, NotWaiting, CallPlaces
<1>3. /\ file[p] \in [window : Nat, entries : Nat, eof : BOOLEAN]
      /\ file[p].entries = cnt[p] /\ file[p].eof = FALSE /\ seen[p] = << >>
      /\ seen[p] \in Seq(Nat) /\ cnt[p] + 1 \in Nat /\ ran[p] + 1 \in Nat
  <2>1. /\ FileFits(pc[p], cnt[p], file[p]) /\ ListFits(pc[p], file[p], seen[p])
        /\ file[p] \in [window : Nat, entries : Nat, eof : BOOLEAN]
        /\ seen[p] \in Seq(Nat) /\ cnt[p] \in Nat /\ ran[p] \in Nat
    BY OfOne
  <2>2. file[p].entries = cnt[p] /\ file[p].eof = FALSE
    BY <1>1, <2>1 DEF FileFits
  <2>3. seen[p] = << >>
    BY <1>1, <2>1 DEF ListFits, Late
  <2>. QED
    BY <2>1, <2>2, <2>3
<1>4. file' = [file EXCEPT ![p] = file[p]] /\ seen' = [seen EXCEPT ![p] = seen[p]]
  BY <1>1, Unchanged
<1>5. FileFits("running", cnt[p] + 1, file[p]) /\ ListFits("running", file[p], seen[p])
  BY <1>3 DEF FileFits, ListFits, NotProfiled, Starting, Late
<1>6. /\ ~NotBegun("running") /\ NotBegun(pc[p]) /\ ~NotProfiled("running")
      /\ ~NotProfiled(pc[p]) /\ "running" \in Places
  BY <1>1 DEF NotBegun, NotProfiled, Starting, Late, Places
<1>. QED
  BY <1>1, <1>2, <1>3, <1>4, <1>5, <1>6, QuietStep

LEMMA EndRunIInv ==
  ASSUME IInv, NEW p \in Group, EndRun(p)
  PROVE  IInv'
<1>. DEFINE f == [window |-> file[p].window, entries |-> file[p].entries + 1, eof |-> FALSE]
<1>1. /\ pc[p] = "running" /\ pc' = [pc EXCEPT ![p] = "ran"]
      /\ file' = [file EXCEPT ![p].entries = @ + 1]
      /\ UNCHANGED <<barrierVars, seen, cnt, step, epoch, start, plan, ran, decision>>
  BY DEF EndRun, GoTo, loopVars
<1>2. at[p] = "outside" /\ "ran" \notin DOMAIN CalledFrom
  BY <1>1, NotWaiting, CallPlaces
<1>3. /\ file[p] \in [window : Nat, entries : Nat, eof : BOOLEAN]
      /\ file[p].entries + 1 = cnt[p] /\ file[p].eof = FALSE /\ seen[p] = << >>
      /\ seen[p] \in Seq(Nat) /\ cnt[p] \in Nat /\ ran[p] \in Nat
  BY <1>1, OfOne DEF FileFits, ListFits, Late
<1>4. file' = [file EXCEPT ![p] = f]
  <2>1. file' = [file EXCEPT ![p] = [file[p] EXCEPT !.entries = file[p].entries + 1]]
    BY <1>1 DEF IInv, Shape
  <2>2. [file[p] EXCEPT !.entries = file[p].entries + 1] = f
    <3>1. file[p].entries + 1 \in Nat
      BY <1>3
    <3>2. [file[p] EXCEPT !.entries = file[p].entries + 1]
            = [window |-> file[p].window, entries |-> file[p].entries + 1,
               eof |-> file[p].eof]
      BY <1>3, <3>1, FileRecord
    <3>. QED
      BY <1>3, <3>2
  <2>. QED
    BY <2>1, <2>2
<1>5. seen' = [seen EXCEPT ![p] = seen[p]] /\ cnt' = [cnt EXCEPT ![p] = cnt[p]]
      /\ ran' = [ran EXCEPT ![p] = ran[p]]
  BY <1>1, Unchanged
<1>6. f \in [window : Nat, entries : Nat, eof : BOOLEAN]
  BY <1>3
<1>7. FileFits("ran", cnt[p], f) /\ ListFits("ran", f, seen[p])
  BY <1>3 DEF FileFits, ListFits, NotProfiled, Starting, Late
<1>8. /\ NotBegun("ran") = NotBegun(pc[p]) /\ ~NotProfiled("ran")
      /\ ~NotProfiled(pc[p]) /\ "ran" \in Places /\ f.window = file[p].window
  BY <1>1 DEF NotBegun, NotProfiled, Starting, Late, Places
<1>. HIDE DEF f
<1>. QED
  BY <1>1, <1>2, <1>3, <1>4, <1>5, <1>6, <1>7, <1>8, QuietStep

LEMMA EndProfileIInv ==
  ASSUME IInv, NEW p \in Group, EndProfile(p)
  PROVE  IInv'
<1>. DEFINE f == [window |-> file[p].window, entries |-> file[p].entries, eof |-> TRUE]
<1>1. /\ pc[p] = "stepped" /\ pc' = [pc EXCEPT ![p] = "logged"] /\ at[p] = "outside"
      /\ cnt[p] = SLIDING_WINDOW + 1
      /\ file' = [file EXCEPT ![p].eof = TRUE]
      /\ UNCHANGED <<barrierVars, seen, cnt, step, epoch, start, plan, ran, decision>>
  BY DEF EndProfile, GoTo, loopVars, Outside, TimeToDetect
<1>2. "logged" \notin DOMAIN CalledFrom
  BY CallPlaces
<1>3. /\ file[p] \in [window : Nat, entries : Nat, eof : BOOLEAN]
      /\ file[p].entries = cnt[p] /\ seen[p] = << >>
      /\ seen[p] \in Seq(Nat) /\ cnt[p] \in Nat /\ ran[p] \in Nat
  BY <1>1, OfOne DEF FileFits, ListFits
<1>4. file' = [file EXCEPT ![p] = f]
  <2>1. file' = [file EXCEPT ![p] = [file[p] EXCEPT !.eof = TRUE]]
    BY <1>1 DEF IInv, Shape
  <2>2. [file[p] EXCEPT !.eof = TRUE] = f
    BY <1>3, FileRecord
  <2>. QED
    BY <2>1, <2>2
<1>5. seen' = [seen EXCEPT ![p] = seen[p]] /\ cnt' = [cnt EXCEPT ![p] = cnt[p]]
      /\ ran' = [ran EXCEPT ![p] = ran[p]]
  BY <1>1, Unchanged
<1>6. f \in [window : Nat, entries : Nat, eof : BOOLEAN]
  BY <1>3
<1>7. FileFits("logged", cnt[p], f) /\ ListFits("logged", f, seen[p])
  BY <1>1, <1>3 DEF FileFits, ListFits, NotProfiled, Starting, Late
<1>8. /\ NotBegun("logged") = NotBegun(pc[p]) /\ ~NotProfiled("logged")
      /\ ~NotProfiled(pc[p]) /\ "logged" \in Places /\ f.window = file[p].window
  BY <1>1 DEF NotBegun, NotProfiled, Starting, Places
<1>. HIDE DEF f
<1>. QED
  BY <1>1, <1>2, <1>3, <1>4, <1>5, <1>6, <1>7, <1>8, QuietStep

-----------------------------------------------------------------------------
\* A process that reads is at the same round as the owner of the file it is at, or the
\* owner waits a round ahead; either way the file is the one the reader expects.
LEMMA OwnersFile ==
  ASSUME IInv, NEW p \in Group, NEW q \in Group, p # q, at[p] = "outside"
  PROVE  /\ pc[p] = "reading" => pc[q] \in {"reading", "read", "deciding"} /\ Run(q) = Run(p)
         /\ pc[p] = "baselines" => pc[q] \in Starting \cup Late \cup {"stepped"}
<1>1. entered[q] \in {entered[p], entered[p] + 1}
  BY Rounds DEF IInv
<1>2. CASE entered[q] = entered[p]
  <2>1. Beside(pc[p], Run(p), pc[q], Run(q))
    BY <1>2 DEF IInv, Together
  <2>. QED
    BY <2>1 DEF Beside, Abreast, Behind, Over, Starting, Late
<1>3. CASE entered[q] = entered[p] + 1
  <2>1. Beside(pc[p], Run(p), CalledFrom[pc[q]], Run(q))
    BY <1>3 DEF IInv, Together
  <2>2. pc[q] \in DOMAIN CalledFrom
    BY <1>3, Rounds DEF IInv, Waiting
  <2>. PICK b : b = CalledFrom[pc[q]]
    OBVIOUS
  <2>3. /\ pc[p] = "reading" => b \in {"reading", "read"} /\ Run(q) = Run(p)
        /\ pc[p] = "baselines" => b \in Starting \cup Late
    BY <2>1 DEF Beside, Abreast, Behind, Over, Starting, Late
  <2>. QED
    BY <2>2, <2>3, CallPlaces DEF Starting, Late
<1>. QED
  BY <1>1, <1>2, <1>3

\* So a complete file has as many entries as its reader asserts.
LEMMA FileExpected ==
  ASSUME IInv, NEW p \in Group, Reading(p), NextFile(p).eof
  PROVE  /\ IgnoreFirst(NextFile(p).entries) = Expected[pc[p]]
         /\ NextFile(p).window \in Nat /\ Len(seen[p]) \in 0..(N - 1)
         /\ pc[p] = "reading" => NextFile(p).window = file[p].window
<1>1. pc[p] \in {"baselines", "reading"} /\ at[p] = "outside"
  BY CallPlaces DEF Reading, Outside
<1>2. Len(seen[p]) \in 0..(N - 1)
  <2>1. seen[p] \in Seq(Nat) /\ ListFits(pc[p], file[p], seen[p])
    BY OfOne
  <2>2. Len(seen[p]) \in Nat /\ Len(seen[p]) < N
    BY <2>1, <1>1 DEF ListFits
  <2>. QED
    BY <2>2, SizeAssumption
<1>. DEFINE q == Len(seen[p])
<1>3. q \in Group
  BY <1>2 DEF Group
<1>. HIDE DEF q
<1>4. /\ file[q] \in [window : Nat, entries : Nat, eof : BOOLEAN]
      /\ FileFits(pc[q], cnt[q], file[q]) /\ NextFile(p) = file[q]
  BY <1>3, OfOne DEF NextFile, q
<1>5. CASE pc[p] = "reading"
  <2>1. pc[q] \in {"reading", "read", "deciding"} /\ (q # p => Run(q) = Run(p))
    BY <1>1, <1>3, <1>5, OwnersFile
  <2>2. file[q].entries = SLIDING_WINDOW + 1
    BY <2>1, <1>4 DEF FileFits
  <2>3. file[q].window = file[p].window
    <3>1. ~NotProfiled(pc[q]) /\ ~NotProfiled(pc[p])
      BY <2>1, <1>5 DEF NotProfiled, Starting
    <3>. QED
      BY <2>1, <3>1 DEF Run
  <2>. QED
    BY <1>2, <1>4, <1>5, <2>2, <2>3, CallPlaces, WindowAssumption DEF IgnoreFirst
<1>6. CASE pc[p] = "baselines"
  <2>1. pc[q] \in Starting \cup Late \cup {"stepped"}
    BY <1>1, <1>3, <1>6, OwnersFile DEF Starting
  <2>2. pc[q] \in Starting
    BY <2>1, <1>4 DEF FileFits, Late
  <2>3. file[q].entries = PRE_PROFILING_ROUND
    BY <2>2, <1>4 DEF FileFits
  <2>. QED
    BY <1>2, <1>4, <1>6, <2>3, CallPlaces, WindowAssumption DEF IgnoreFirst
<1>. QED
  BY <1>1, <1>5, <1>6

LEMMA ReadProfileIInv ==
  ASSUME IInv, NEW p \in Group, ReadProfile(p)
  PROVE  IInv'
<1>. DEFINE w == NextFile(p).window
            s == Append(seen[p], w)
            a == IF Len(s) = N THEN AllRead[pc[p]] ELSE pc[p]
<1>1. /\ pc[p] \in {"baselines", "reading"} /\ at[p] = "outside"
      /\ w \in Nat /\ Len(seen[p]) \in 0..(N - 1)
      /\ pc[p] = "reading" => w = file[p].window
  BY FileExpected, CallPlaces DEF ReadProfile, Reading, Outside
<1>2. /\ seen' = [seen EXCEPT ![p] = s] /\ pc' = [pc EXCEPT ![p] = a]
      /\ UNCHANGED <<barrierVars, file, cnt, step, epoch, start, plan, ran, decision>>
  BY FileExpected DEF ReadProfile, GoTo, loopVars
<1>3. /\ file[p] \in [window : Nat, entries : Nat, eof : BOOLEAN] /\ seen[p] \in Seq(Nat)
      /\ cnt[p] \in Nat /\ ran[p] \in Nat
      /\ FileFits(pc[p], cnt[p], file[p]) /\ ListFits(pc[p], file[p], seen[p])
  BY OfOne
<1>4. /\ file' = [file EXCEPT ![p] = file[p]] /\ cnt' = [cnt EXCEPT ![p] = cnt[p]]
      /\ ran' = [ran EXCEPT ![p] = ran[p]]
  BY <1>2, Unchanged
<1>. HIDE DEF w
<1>5. /\ s \in Seq(Nat) /\ Len(s) = Len(seen[p]) + 1 /\ Len(s) \in 1..N
      /\ \A i \in 1..Len(s) : s[i] = IF i = Len(s) THEN w ELSE seen[p][i]
      /\ s = [i \in 1..Len(s) |-> s[i]]
  <2>1. s \in Seq(Nat) /\ Len(s) = Len(seen[p]) + 1
    BY <1>1, <1>3
  <2>2. Len(s) \in 1..N
    BY <2>1, <1>1, SizeAssumption
  <2>3. \A i \in 1..Len(s) : s[i] = IF i = Len(s) THEN w ELSE seen[p][i]
    BY <1>1, <1>3
  <2>4. s = [i \in 1..Len(s) |-> s[i]]
    <3>. HIDE DEF s
    <3>. QED
      BY <2>1
  <2>. QED
    BY <2>1, <2>2, <2>3, <2>4
<1>. HIDE DEF s
<1>6. pc[p] = "reading" => \A i \in 1..Len(s) : s[i] = file[p].window
  BY <1>1, <1>3, <1>5 DEF ListFits
<1>7. /\ a \in Places /\ a \in {"baselines", "starting", "reading", "read"}
      /\ a \notin DOMAIN CalledFrom \/ a = pc[p]
      /\ \/ a = pc[p] /\ Len(s) < N
         \/ pc[p] = "baselines" /\ a = "starting"
         \/ pc[p] = "reading" /\ a = "read" /\ Len(s) = N
  BY <1>1, <1>5, CallPlaces, SizeAssumption DEF Places, Starting
<1>. HIDE DEF a
<1>8. FileFits(a, cnt[p], file[p])
  BY <1>1, <1>3, <1>7 DEF FileFits, NotProfiled, Starting
<1>9. ListFits(a, file[p], s)
  <2>1. CASE a = pc[p] /\ Len(s) < N
    BY <2>1, <1>1, <1>6 DEF ListFits, Late
  <2>2. CASE pc[p] = "baselines" /\ a = "starting"
    BY <2>2 DEF ListFits, Late
  <2>3. CASE pc[p] = "reading" /\ a = "read" /\ Len(s) = N
    <3>1. s = [i \in 1..N |-> file[p].window]
      BY <2>3, <1>5, <1>6
    <3>. QED
      BY <2>3, <3>1 DEF ListFits, Late
  <2>. QED
    BY <1>7, <2>1, <2>2, <2>3
<1>10. /\ NotBegun(a) = NotBegun(pc[p])
       /\ NotProfiled(a) <=> NotProfiled(pc[p])
  BY <1>1, <1>7 DEF NotBegun, NotProfiled, Starting
<1>11. /\ IF NotBegun(a) = NotBegun(pc[p]) THEN ran[p] = ran[p] /\ cnt[p] = cnt[p]
          ELSE NotBegun(pc[p]) /\ ran[p] = ran[p] + 1 /\ cnt[p] = cnt[p] + 1
       /\ IF NotProfiled(a) THEN NotProfiled(pc[p])
          ELSE file[p].window = IF NotProfiled(pc[p]) THEN 1 ELSE file[p].window
       /\ \/ a = pc[p]
          \/ pc[p] = "baselines" /\ a = "starting"
          \/ pc[p] = "reading" /\ a = "read"
  BY <1>7, <1>10
<1>. QED
  BY <1>1, <1>2, <1>3, <1>4, <1>5, <1>7, <1>8, <1>9, <1>11, QuietStep

-----------------------------------------------------------------------------
\* The steps that pass the point at which a process works out its next run.  Only the
\* run and the place of p change, to those of the run u, or to the end.
LEMMA TurnIInv ==
  ASSUME IInv, NEW p \in Group, NEW a \in {"stepping", "done"}, NEW f, NEW s, NEW c,
         at[p] = "outside", UNCHANGED <<barrierVars, ran>>,
         f \in [window : Nat, entries : Nat, eof : BOOLEAN], s \in Seq(Nat), c \in Nat,
         pc' = [pc EXCEPT ![p] = a], file' = [file EXCEPT ![p] = f],
         seen' = [seen EXCEPT ![p] = s], cnt' = [cnt EXCEPT ![p] = c],
         step' \in [Group -> Nat], epoch' \in [Group -> Nat], start' \in [Group -> Nat],
         plan' \in [Group -> [window : Nat, suspended : SUBSET Group]],
         \A q \in Group \ {p} : /\ step'[q] = step[q] /\ epoch'[q] = epoch[q]
                                /\ start'[q] = start[q] /\ plan'[q] = plan[q],
         a = "stepping" => FileFits(a, c, f) /\ s = << >>,
         Together'
  PROVE  IInv'
<1>1. a \in Places /\ a \notin DOMAIN CalledFrom /\ ran[p] \in Nat
  BY OfOne, CallPlaces DEF Places, Late
<1>2. ran' = [ran EXCEPT ![p] = ran[p]]
  BY Unchanged
<1>3. /\ pc' \in [Group -> Places] /\ cnt' \in [Group -> Nat]
      /\ seen' \in [Group -> Seq(Nat)]
      /\ file' \in [Group -> [window : Nat, entries : Nat, eof : BOOLEAN]]
      /\ ran' \in [Group -> Nat]
  BY <1>1, <1>2, ShapeKept
<1>4. /\ pc'[p] = a /\ file'[p] = f /\ seen'[p] = s /\ cnt'[p] = c
      /\ \A q \in Group \ {p} : /\ pc'[q] = pc[q] /\ file'[q] = file[q]
                                /\ seen'[q] = seen[q] /\ cnt'[q] = cnt[q]
  BY DEF IInv, Shape
<1>5. Shape'
  BY <1>3 DEF Shape
<1>6. Profiles'
  <2>1. ASSUME NEW q \in Group \ {p} PROVE Fits(q)'
    <3>1. Fits(q)
      BY DEF IInv, Profiles
    <3>. QED
      BY <3>1, <1>4 DEF Fits
  <2>2. FileFits(a, c, f) /\ ListFits(a, f, s)
    <3>1. CASE a = "stepping"
      BY <3>1 DEF ListFits, Late
    <3>2. CASE a = "done"
      BY <3>2 DEF FileFits, ListFits, NotProfiled, Starting, Late
    <3>. QED
      BY <3>1, <3>2
  <2>3. Fits(p)'
    BY <2>2, <1>4 DEF Fits
  <2>. QED
    BY <2>1, <2>3 DEF Profiles
<1>7. Waiting'
  BY <1>1, <1>4 DEF IInv, Waiting, barrierVars, CalledFrom
<1>8. BP!AnyIInv'
  BY HandlerKept DEF IInv
<1>. QED
  BY <1>5, <1>6, <1>7, <1>8 DEF IInv

\* What Advance makes of the step and the epoch.
LEMMA Advances ==
  ASSUME IInv, NEW p \in Group, Advance(p)
  PROVE  \E a \in {"stepping", "done"} :
           /\ pc' = [pc EXCEPT ![p] = a]
           /\ step' \in [Group -> Nat] /\ epoch' \in [Group -> Nat]
           /\ \A q \in Group \ {p} : step'[q] = step[q] /\ epoch'[q] = epoch[q]
           /\ a = "stepping" => \A r : r.step = step[p] /\ r.epoch = epoch[p]
                                       /\ r.start = start[p] =>
                                  /\ step'[p] = NextOf(r).step
                                  /\ epoch'[p] = NextOf(r).epoch
<1>1. /\ step \in [Group -> Nat] /\ epoch \in [Group -> Nat] /\ start[p] \in Nat
      /\ step[p] \in Nat /\ epoch[p] \in Nat
  BY DEF IInv, Shape
<1>2. CASE step[p] + 1 < Steps
  <2>1. /\ step' = [step EXCEPT ![p] = step[p] + 1] /\ epoch' = epoch
        /\ pc' = [pc EXCEPT ![p] = "stepping"]
    BY <1>2 DEF Advance, GoTo
  <2>. QED
    BY <1>1, <1>2, <2>1 DEF NextOf
<1>3. CASE ~(step[p] + 1 < Steps) /\ epoch[p] + 1 < Epochs
  <2>1. /\ step' = [step EXCEPT ![p] = start[p]]
        /\ epoch' = [epoch EXCEPT ![p] = epoch[p] + 1]
        /\ pc' = [pc EXCEPT ![p] = "stepping"]
    BY <1>3 DEF Advance, GoTo
  <2>. QED
    BY <1>1, <1>3, <2>1 DEF NextOf
<1>4. CASE ~(step[p] + 1 < Steps) /\ ~(epoch[p] + 1 < Epochs)
  <2>1. step' = step /\ epoch' = epoch /\ pc' = [pc EXCEPT ![p] = "done"]
    BY <1>4 DEF Advance, GoTo
  <2>. QED
    BY <1>1, <2>1
<1>. QED
  BY <1>2, <1>3, <1>4

LEMMA NextStepIInv ==
  ASSUME IInv, NEW p \in Group, NextStep(p)
  PROVE  IInv'
<1>1. /\ pc[p] = "stepped" /\ at[p] = "outside" /\ cnt[p] # SLIDING_WINDOW + 1
      /\ Advance(p)
      /\ UNCHANGED <<barrierVars, file, seen, cnt, start, plan, ran, decision>>
  BY DEF NextStep, Outside, TimeToDetect
<1>2. PICK a \in {"stepping", "done"} :
        /\ pc' = [pc EXCEPT ![p] = a]
        /\ step' \in [Group -> Nat] /\ epoch' \in [Group -> Nat]
        /\ \A q \in Group \ {p} : step'[q] = step[q] /\ epoch'[q] = epoch[q]
        /\ a = "stepping" => \A r : r.step = step[p] /\ r.epoch = epoch[p]
                                    /\ r.start = start[p] =>
                               /\ step'[p] = NextOf(r).step
                               /\ epoch'[p] = NextOf(r).epoch
  BY <1>1, Advances
<1>3. /\ file[p] \in [window : Nat, entries : Nat, eof : BOOLEAN] /\ seen[p] \in Seq(Nat)
      /\ cnt[p] \in Nat /\ FileFits("stepped", cnt[p], file[p]) /\ seen[p] = << >>
  <2>1. /\ file[p] \in [window : Nat, entries : Nat, eof : BOOLEAN] /\ seen[p] \in Seq(Nat)
        /\ cnt[p] \in Nat
        /\ FileFits(pc[p], cnt[p], file[p]) /\ ListFits(pc[p], file[p], seen[p])
    BY OfOne
  <2>. QED
    BY <2>1, <1>1 DEF ListFits
<1>4. /\ file' = [file EXCEPT ![p] = file[p]] /\ seen' = [seen EXCEPT ![p] = seen[p]]
      /\ cnt' = [cnt EXCEPT ![p] = cnt[p]]
  BY <1>1, Unchanged
<1>5. /\ pc'[p] = a /\ \A q \in Group \ {p} : pc'[q] = pc[q]
  BY <1>2 DEF IInv, Shape
<1>6. \A q \in Group \ {p} : Run(q)' = Run(q)
  BY <1>1, <1>2, <1>5 DEF Run, NotBegun, NotProfiled
<1>7. Run(p).cnt = cnt[p] /\ (a = "stepping" => Run(p)' = Onward(Run(p)))
  <2>1. /\ Run(p).ran = ran[p] /\ Run(p).cnt = cnt[p] /\ Run(p).epoch = epoch[p]
        /\ Run(p).step = step[p] /\ Run(p).start = start[p] /\ Run(p).plan = plan[p]
        /\ Run(p).window = file[p].window
    BY <1>1 DEF Run, NotBegun, NotProfiled, Starting
  <2>2. ASSUME a = "stepping" PROVE Run(p)' = Onward(Run(p))
    <3>1. Run(p)' = [ran |-> ran[p] + 1, cnt |-> cnt[p] + 1, epoch |-> epoch'[p],
                     step |-> step'[p], start |-> start[p], plan |-> plan[p],
                     window |-> file[p].window]
      BY <1>1, <1>5, <2>2 DEF Run, NotBegun, NotProfiled, Starting
    <3>2. step'[p] = NextOf(Run(p)).step /\ epoch'[p] = NextOf(Run(p)).epoch
      BY <1>2, <2>1, <2>2
    <3>. QED
      BY <2>1, <3>1, <3>2 DEF Onward
  <2>. QED
    BY <2>1, <2>2
<1>8. ASSUME NEW q \in Group \ {p}, NEW b, Beside(pc[p], Run(p), b, Run(q))
      PROVE  Beside(pc[p], Run(p), b, Run(q))'
  <2>. PICK r, u, v : r = Run(p) /\ u = Run(q) /\ v = Run(p)'
    OBVIOUS
  <2>1. Beside("stepped", r, b, u) /\ r.cnt # SLIDING_WINDOW + 1
    BY <1>1, <1>7, <1>8
  <2>2. a = "stepping" => v = Onward(r)
    BY <1>7
  <2>3. Beside(a, v, b, u)
    BY <2>1, <2>2 DEF Beside, Abreast, Behind, Over, Starting, Late
  <2>4. Beside(a, v, b, u)'
    BY <2>3, <1>1 DEF Beside, Abreast, Behind, Over, Decided
  <2>. QED
    BY <2>4, <1>5, <1>6 DEF Beside, Abreast, Behind, Over
<1>9. Together'
  BY <1>1, <1>5, <1>6, <1>8, StepTogether
<1>10. a = "stepping" => FileFits(a, cnt[p], file[p])
  BY <1>3 DEF FileFits, NotProfiled, Starting
<1>11. /\ start' \in [Group -> Nat]
       /\ plan' \in [Group -> [window : Nat, suspended : SUBSET Group]]
       /\ step' \in [Group -> Nat] /\ epoch' \in [Group -> Nat]
       /\ \A q \in Group \ {p} : /\ step'[q] = step[q] /\ epoch'[q] = epoch[q]
                                 /\ start'[q] = start[q] /\ plan'[q] = plan[q]
  BY <1>1, <1>2 DEF IInv, Shape
<1>12. at[p] = "outside" /\ UNCHANGED <<barrierVars, ran>> /\ pc' = [pc EXCEPT ![p] = a]
  BY <1>1, <1>2
<1>. QED
  BY <1>3, <1>4, <1>9, <1>10, <1>11, <1>12, TurnIInv

\* Whoever else decides on the same profiles is one that p decides with.
LEMMA OneDecision ==
  ASSUME IInv, NEW p \in Group, NEW q \in Group, p # q, at[p] = "outside",
         pc[p] = "deciding", pc[q] = "deciding"
  PROVE  Run(p) = Run(q)
<1>1. entered[q] \in {entered[p], entered[p] + 1}
  BY Rounds DEF IInv
<1>2. CASE entered[q] = entered[p]
  <2>1. Beside(pc[p], Run(p), pc[q], Run(q))
    BY <1>2 DEF IInv, Together
  <2>. QED
    BY <2>1 DEF Beside, Abreast, Behind, Over, Starting, Late
<1>3. CASE entered[q] = entered[p] + 1
  <2>1. Beside(pc[p], Run(p), CalledFrom[pc[q]], Run(q))
    BY <1>3 DEF IInv, Together
  <2>2. Beside("deciding", Run(p), "read", Run(q))
    BY <2>1, CallPlaces
  <2>. QED
    BY <2>2 DEF Beside, Abreast, Behind, Over, Starting, Late
<1>. QED
  BY <1>1, <1>2, <1>3

\* What Decide makes of what p has.
LEMMA Decides ==
  ASSUME IInv, NEW p \in Group, Decide(p)
  PROVE  \E a \in {"stepping", "done"} :
           /\ pc' = [pc EXCEPT ![p] = a]
           /\ step' \in [Group -> Nat] /\ epoch' \in [Group -> Nat]
           /\ start' \in [Group -> Nat]
           /\ plan' \in [Group -> [window : Nat, suspended : SUBSET Group]]
           /\ \A q \in Group \ {p} : /\ step'[q] = step[q] /\ epoch'[q] = epoch[q]
                                     /\ start'[q] = start[q] /\ plan'[q] = plan[q]
           /\ a = "stepping" =>
                [ran |-> ran[p] + 1, cnt |-> 1, epoch |-> epoch'[p], step |-> step'[p],
                 start |-> start'[p], plan |-> plan'[p], window |-> file[p].window + 1]
                  = DecidedBy(decision', Run(p))
           /\ decision'.seen = seen[p]
           /\ decision.seen = seen[p] => decision' = decision
<1>1. /\ step \in [Group -> Nat] /\ epoch \in [Group -> Nat] /\ start \in [Group -> Nat]
      /\ plan \in [Group -> [window : Nat, suspended : SUBSET Group]]
      /\ step[p] \in Nat /\ start[p] \in Nat /\ file[p].window \in Nat
  <2>1. /\ step \in [Group -> Nat] /\ epoch \in [Group -> Nat] /\ start \in [Group -> Nat]
        /\ plan \in [Group -> [window : Nat, suspended : SUBSET Group]]
    BY DEF IInv, Shape
  <2>. QED
    BY <2>1, OfOne
<1>2. PICK switch \in BOOLEAN, s \in Plans :
        LET d == [seen |-> seen[p], switch |-> switch, suspended |-> s]
        IN  /\ decision.seen = seen[p] => d = decision
            /\ decision' = d
            /\ IF switch
               THEN /\ start' = [start EXCEPT ![p] = step[p]]
                    /\ plan' = [plan EXCEPT ![p] = [window |-> file[p].window,
                                                    suspended |-> s]]
                    /\ pc' = [pc EXCEPT ![p] = "stepping"]
                    /\ UNCHANGED <<step, epoch>>
               ELSE Advance(p) /\ UNCHANGED <<start, plan>>
  BY DEF Decide, Evidence, GoTo
<1>3. /\ decision'.seen = seen[p] /\ decision'.switch = switch
      /\ decision'.suspended = s
      /\ decision.seen = seen[p] => decision' = decision
  BY <1>2
<1>4. /\ Run(p).ran = ran[p] /\ Run(p).epoch = epoch[p] /\ Run(p).step = step[p]
      /\ Run(p).start = start[p] /\ Run(p).plan = plan[p] /\ Run(p).window = file[p].window
  BY DEF Decide, Run, NotBegun, NotProfiled, Starting
<1>5. CASE switch
  <2>1. /\ start' = [start EXCEPT ![p] = step[p]]
        /\ plan' = [plan EXCEPT ![p] = [window |-> file[p].window, suspended |-> s]]
        /\ pc' = [pc EXCEPT ![p] = "stepping"] /\ step' = step /\ epoch' = epoch
    BY <1>2, <1>5
  <2>2. [window |-> file[p].window, suspended |-> s]
           \in [window : Nat, suspended : SUBSET Group]
    BY <1>1, PlansAssumption
  <2>3. /\ start' \in [Group -> Nat]
        /\ plan' \in [Group -> [window : Nat, suspended : SUBSET Group]]
        /\ start'[p] = step[p]
        /\ plan'[p] = [window |-> file[p].window, suspended |-> s]
        /\ \A q \in Group \ {p} : start'[q] = start[q] /\ plan'[q] = plan[q]
    <3>. DEFINE Plan == [window : Nat, suspended : SUBSET Group]
                new == [window |-> file[p].window, suspended |-> s]
    <3>1. plan \in [Group -> Plan] /\ new \in Plan /\ plan' = [plan EXCEPT ![p] = new]
      BY <1>1, <2>1, <2>2
    <3>2. /\ plan' \in [Group -> Plan] /\ plan'[p] = new
          /\ \A q \in Group \ {p} : plan'[q] = plan[q]
      <4>. HIDE DEF Plan, new
      <4>. QED
        BY <3>1
    <3>3. /\ start' \in [Group -> Nat] /\ start'[p] = step[p]
          /\ \A q \in Group \ {p} : start'[q] = start[q]
      BY <1>1, <2>1
    <3>. QED
      BY <3>2, <3>3
  <2>4. [ran |-> ran[p] + 1, cnt |-> 1, epoch |-> epoch'[p], step |-> step'[p],
         start |-> start'[p], plan |-> plan'[p], window |-> file[p].window + 1]
           = DecidedBy(decision', Run(p))
    BY <1>3, <1>4, <1>5, <2>1, <2>3 DEF DecidedBy
  <2>. QED
    BY <1>1, <1>3, <2>1, <2>3, <2>4
<1>6. CASE ~switch
  <2>1. Advance(p) /\ start' = start /\ plan' = plan
    BY <1>2, <1>6
  <2>2. PICK a \in {"stepping", "done"} :
          /\ pc' = [pc EXCEPT ![p] = a]
          /\ step' \in [Group -> Nat] /\ epoch' \in [Group -> Nat]
          /\ \A q \in Group \ {p} : step'[q] = step[q] /\ epoch'[q] = epoch[q]
          /\ a = "stepping" => \A r : r.step = step[p] /\ r.epoch = epoch[p]
                                      /\ r.start = start[p] =>
                                 /\ step'[p] = NextOf(r).step
                                 /\ epoch'[p] = NextOf(r).epoch
    BY <2>1, Advances
  <2>3. ASSUME a = "stepping"
        PROVE  [ran |-> ran[p] + 1, cnt |-> 1, epoch |-> epoch'[p], step |-> step'[p],
                start |-> start'[p], plan |-> plan'[p], window |-> file[p].window + 1]
                  = DecidedBy(decision', Run(p))
    <3>1. step'[p] = NextOf(Run(p)).step /\ epoch'[p] = NextOf(Run(p)).epoch
      BY <2>2, <2>3, <1>4
    <3>. QED
      BY <3>1, <1>3, <1>4, <1>6, <2>1 DEF DecidedBy
  <2>4. /\ start' \in [Group -> Nat]
        /\ plan' \in [Group -> [window : Nat, suspended : SUBSET Group]]
        /\ \A q \in Group \ {p} : start'[q] = start[q] /\ plan'[q] = plan[q]
    BY <1>1, <2>1
  <2>. QED
    BY <1>3, <2>2, <2>3, <2>4
<1>. QED
  BY <1>5, <1>6

LEMMA DecideIInv ==
  ASSUME IInv, NEW p \in Group, Decide(p)
  PROVE  IInv'
<1>. DEFINE f == [window |-> file[p].window + 1, entries |-> 0, eof |-> FALSE]
<1>1. /\ pc[p] = "deciding" /\ at[p] = "outside"
      /\ file' = [file EXCEPT ![p] = f] /\ seen' = [seen EXCEPT ![p] = << >>]
      /\ cnt' = [cnt EXCEPT ![p] = 0] /\ UNCHANGED <<barrierVars, ran>>
  BY DEF Decide, Outside, Truncated, Fresh
<1>2. PICK a \in {"stepping", "done"} :
        /\ pc' = [pc EXCEPT ![p] = a]
        /\ step' \in [Group -> Nat] /\ epoch' \in [Group -> Nat]
        /\ start' \in [Group -> Nat]
        /\ plan' \in [Group -> [window : Nat, suspended : SUBSET Group]]
        /\ \A q \in Group \ {p} : /\ step'[q] = step[q] /\ epoch'[q] = epoch[q]
                                  /\ start'[q] = start[q] /\ plan'[q] = plan[q]
        /\ a = "stepping" =>
             [ran |-> ran[p] + 1, cnt |-> 1, epoch |-> epoch'[p], step |-> step'[p],
              start |-> start'[p], plan |-> plan'[p], window |-> file[p].window + 1]
               = DecidedBy(decision', Run(p))
        /\ decision'.seen = seen[p]
        /\ decision.seen = seen[p] => decision' = decision
  BY Decides
<1>3. f \in [window : Nat, entries : Nat, eof : BOOLEAN] /\ << >> \in Seq(Nat)
  <2>1. file[p].window + 1 \in Nat
    BY OfOne
  <2>. QED
    BY <2>1
<1>. HIDE DEF f
<1>4. /\ pc'[p] = a /\ file'[p] = f /\ cnt'[p] = 0
      /\ \A q \in Group \ {p} : /\ pc'[q] = pc[q] /\ file'[q] = file[q]
                                /\ seen'[q] = seen[q] /\ cnt'[q] = cnt[q]
  BY <1>1, <1>2 DEF IInv, Shape
<1>5. \A q \in Group \ {p} : Run(q)' = Run(q)
  BY <1>1, <1>2, <1>4 DEF Run, NotBegun, NotProfiled
<1>6. a = "stepping" => Run(p)' = DecidedBy(decision', Run(p))
  <2>1. a = "stepping" =>
          Run(p)' = [ran |-> ran[p] + 1, cnt |-> 1, epoch |-> epoch'[p],
                     step |-> step'[p], start |-> start'[p], plan |-> plan'[p],
                     window |-> f.window]
    BY <1>1, <1>4 DEF Run, NotBegun, NotProfiled, Starting
  <2>. QED
    BY <2>1, <1>2 DEF f
<1>7. seen[p] = [i \in 1..N |-> Run(p).window]
  <2>1. ListFits(pc[p], file[p], seen[p])
    BY OfOne
  <2>2. Run(p).window = file[p].window
    BY <1>1 DEF Run, NotProfiled, Starting
  <2>. QED
    BY <2>1, <2>2, <1>1 DEF ListFits
<1>8. ASSUME NEW q \in Group \ {p}, NEW b, Beside(pc[p], Run(p), b, Run(q))
      PROVE  Beside(pc[p], Run(p), b, Run(q))'
  <2>. PICK r, u, v : r = Run(p) /\ u = Run(q) /\ v = Run(p)'
    OBVIOUS
  <2>1. Beside("deciding", r, b, u)
    BY <1>1, <1>8
  <2>2. /\ a = "stepping" => v = DecidedBy(decision', r)
        /\ decision'.seen = [i \in 1..N |-> r.window]
        /\ decision.seen = [i \in 1..N |-> r.window] => decision' = decision
    BY <1>2, <1>6, <1>7
  <2>3. ASSUME Abreast("deciding", r, b, u) PROVE Beside(a, v, b, u)'
    <3>1. b = "deciding" /\ u = r
      BY <2>3 DEF Abreast, Starting, Late
    <3>2. a = "stepping" => Behind(b, u, a, v)'
      BY <3>1, <2>2 DEF Behind, Late, Decided
    <3>3. a = "done" => Over(a, b, u)'
      BY <3>1 DEF Over
    <3>. QED
      BY <3>2, <3>3 DEF Beside
  <2>4. ASSUME Behind("deciding", r, b, u) PROVE Beside(a, v, b, u)'
    <3>1. b \in Late /\ u = DecidedBy(decision', r)
      BY <2>2, <2>4 DEF Behind, Decided
    <3>2. a = "stepping" => Abreast(a, v, b, u)'
      BY <3>1, <2>2 DEF Abreast, Late
    <3>3. a = "done" => Over(a, b, u)'
      BY <3>1 DEF Over
    <3>. QED
      BY <3>2, <3>3 DEF Beside
  <2>5. ASSUME Over(b, "deciding", r) PROVE Beside(a, v, b, u)'
    <3>1. Over(b, a, v)'
      BY <2>5 DEF Over, Late
    <3>. QED
      BY <3>1 DEF Beside
  <2>6. Beside(a, v, b, u)'
    BY <2>1, <2>3, <2>4, <2>5 DEF Beside, Behind, Over, Late
  <2>. QED
    BY <2>6, <1>4, <1>5 DEF Beside, Abreast, Behind, Over
<1>9. ASSUME NEW q \in Group \ {p}, pc[q] = "deciding",
             decision.seen = [i \in 1..N |-> Run(q).window]
      PROVE  decision' = decision
  <2>1. Run(q) = Run(p)
    BY <1>1, <1>9, OneDecision
  <2>. QED
    BY <2>1, <1>2, <1>7, <1>9
<1>10. UNCHANGED barrierVars
  BY <1>1
<1>11. Together'
  BY <1>1, <1>4, <1>5, <1>8, <1>9, <1>10, StepTogether
<1>12. a = "stepping" => FileFits(a, 0, f)
  BY DEF FileFits, NotProfiled, Starting, f
<1>13. \A q \in Group \ {p} : /\ step'[q] = step[q] /\ epoch'[q] = epoch[q]
                              /\ start'[q] = start[q] /\ plan'[q] = plan[q]
  BY <1>2
<1>14. 0 \in Nat /\ UNCHANGED <<barrierVars, ran>>
  BY <1>1
<1>. QED
  BY <1>1, <1>2, <1>3, <1>11, <1>12, <1>13, <1>14, TurnIInv

-----------------------------------------------------------------------------
\* A call of the barrier begins only when everybody has returned from the one before:
\* the caller comes level with those that have called already, and is a call ahead of
\* the others.
LEMMA CallBarrierIInv ==
  ASSUME IInv, NEW p \in Group, CallBarrier(p)
  PROVE  IInv'
<1>. DEFINE a == pc[p]
            b == After[pc[p]]
<1>1. /\ a \in {"profiled", "ran", "logged", "read"} /\ BP!Enter(p)
      /\ pc' = [pc EXCEPT ![p] = b]
      /\ UNCHANGED <<file, seen, cnt, step, epoch, start, plan, ran, decision>>
  BY SameHandler, CallPlaces DEF CallBarrier, GoTo, loopVars
<1>2. /\ entered \in [Group -> Nat] /\ left \in [Group -> Nat] /\ at[p] = "outside"
      /\ entered' = [entered EXCEPT ![p] = @ + 1]
      /\ \A q \in Group \ {p} : at'[q] = at[q]
  BY <1>1, HandlerSteps DEF IInv
<1>3. /\ b \in Places /\ b \in DOMAIN CalledFrom /\ CalledFrom[b] = a
  BY <1>1, CallPlaces DEF Places, Starting
<1>4. /\ pc'[p] = b /\ \A q \in Group \ {p} : pc'[q] = pc[q]
  BY <1>1 DEF IInv, Shape
<1>5. Shape'
  <2>1. pc' \in [Group -> Places]
    BY <1>1, <1>3 DEF IInv, Shape
  <2>. QED
    BY <2>1, <1>1 DEF IInv, Shape
<1>6. Waiting'
  BY <1>2, <1>3, <1>4 DEF IInv, Waiting, CalledFrom
<1>7. Profiles'
  <2>1. ASSUME NEW q \in Group \ {p} PROVE Fits(q)'
    <3>1. Fits(q)
      BY DEF IInv, Profiles
    <3>. QED
      BY <3>1, <1>1, <1>4 DEF Fits
  <2>2. FileFits(a, cnt[p], file[p]) /\ ListFits(a, file[p], seen[p])
    BY OfOne
  <2>3. FileFits(b, cnt[p], file[p])
    BY <2>2, <1>1, CallPlaces DEF FileFits, NotProfiled, Starting
  <2>4. ListFits(b, file[p], seen[p])
    BY <2>2, <1>1, CallPlaces, SizeAssumption DEF ListFits, Late
  <2>5. Fits(p)'
    BY <2>3, <2>4, <1>1, <1>4 DEF Fits
  <2>. QED
    BY <2>1, <2>5 DEF Profiles
<1>8. BP!AnyIInv'
  BY <1>1, HandlerKept DEF IInv
<1>9. \A q \in Group : Run(q)' = Run(q)
  <2>1. ASSUME NEW q \in Group \ {p} PROVE Run(q)' = Run(q)
    BY <1>1, <1>4 DEF Run
  <2>2. (NotBegun(b) <=> NotBegun(a)) /\ (NotProfiled(b) <=> NotProfiled(a))
    BY <1>1, CallPlaces DEF NotBegun, NotProfiled, Starting
  <2>3. Run(p)' = Run(p)
    BY <2>2, <1>1, <1>4 DEF Run
  <2>. QED
    BY <2>1, <2>3
<1>. HIDE DEF a, b
<1>10. \A q \in Group \ {p} : /\ entered'[p] = entered[p] + 1 /\ entered'[q] = entered[q]
                              /\ entered[q] \in {entered[p], entered[p] + 1}
                              /\ entered[q] \in Nat /\ entered[p] \in Nat
  BY <1>2, Rounds DEF IInv
<1>11. Together'
  <2>. SUFFICES ASSUME NEW x \in Group, NEW y \in Group, x # y
                PROVE  /\ entered'[x] = entered'[y] =>
                            Beside(pc[x], Run(x), pc[y], Run(y))'
                       /\ entered'[y] = entered'[x] + 1 =>
                            Beside(pc[x], Run(x), CalledFrom[pc[y]], Run(y))'
    BY DEF Together
  <2>1. /\ entered[x] = entered[y] => Beside(pc[x], Run(x), pc[y], Run(y))
        /\ entered[y] = entered[x] + 1 =>
             Beside(pc[x], Run(x), CalledFrom[pc[y]], Run(y))
        /\ entered[x] = entered[y] + 1 =>
             Beside(pc[y], Run(y), CalledFrom[pc[x]], Run(x))
    BY DEF IInv, Together
  <2>2. ASSUME NEW g, NEW r, NEW h, NEW u, Beside(g, r, h, u)
        PROVE  Beside(g, r, h, u)' /\ Beside(h, u, g, r)'
    <3>1. decision' = decision
      BY <1>1
    <3>. QED
      BY <2>2, <3>1 DEF Beside, Abreast, Behind, Over, Decided
  <2>3. ASSUME NEW q \in Group \ {p}, entered[q] = entered[p] + 1,
               Beside(a, Run(p), CalledFrom[pc[q]], Run(q))
        PROVE  pc[q] = b /\ Run(p) = Run(q)
    <3>1. pc[q] \in DOMAIN CalledFrom
      BY <2>3, Rounds DEF IInv, Waiting
    <3>2. CalledFrom[pc[q]] = a /\ Run(p) = Run(q)
      BY <2>3, <3>1, <1>1, CallPlaces DEF a, Beside, Abreast, Behind, Over, Starting, Late
    <3>. QED
      BY <3>1, <3>2, <1>1, CallPlaces DEF a, b
  <2>4. ASSUME NEW g, NEW r, g \in {"baselines", "stepped", "reading", "deciding"}
        PROVE  Beside(g, r, g, r)'
    <3>1. Abreast(g, r, g, r)'
      BY <2>4 DEF Abreast, Starting
    <3>. QED
      BY <3>1 DEF Beside
  <2>. PICK g, h, r, u : /\ g = pc'[x] /\ h = pc'[y] /\ r = Run(x) /\ u = Run(y)
    OBVIOUS
  <2>5. b \in {"baselines", "stepped", "reading", "deciding"} /\ CalledFrom[b] = a
        /\ a = pc[p]
    BY <1>3, CallPlaces DEF a
  <2>6. CASE x = p
    <3>1. entered'[y] # entered'[x] + 1
      BY <2>6, <1>10
    <3>2. ASSUME entered'[x] = entered'[y] PROVE Beside(g, r, h, u)'
      <4>1. entered[y] = entered[p] + 1
        BY <3>2, <2>6, <1>10
      <4>2. pc[y] = b /\ Run(p) = Run(y)
        BY <4>1, <2>1, <2>3, <2>5, <2>6
      <4>3. g = h /\ r = u /\ g = b
        BY <4>2, <2>6, <1>4
      <4>. QED
        BY <4>3, <2>4, <2>5
    <3>3. entered'[x] = entered'[y] => Beside(pc[x], Run(x), pc[y], Run(y))'
      BY <3>2, <1>9 DEF Beside, Abreast, Behind, Over
    <3>. QED
      BY <3>1, <3>3
  <2>7. CASE y = p
    <3>1. ASSUME entered'[x] = entered'[y] PROVE Beside(g, r, h, u)'
      <4>1. entered[x] = entered[p] + 1
        BY <3>1, <2>7, <1>10
      <4>2. pc[x] = b /\ Run(p) = Run(x)
        BY <4>1, <2>1, <2>3, <2>5, <2>7
      <4>3. g = h /\ r = u /\ g = b
        BY <4>2, <2>7, <1>4
      <4>. QED
        BY <4>3, <2>4, <2>5
    <3>2. entered'[x] = entered'[y] => Beside(pc[x], Run(x), pc[y], Run(y))'
      BY <3>1, <1>9 DEF Beside, Abreast, Behind, Over
    <3>3. ASSUME entered'[y] = entered'[x] + 1
          PROVE  Beside(pc[x], Run(x), CalledFrom[pc[y]], Run(y))'
      <4>1. entered[x] = entered[y]
        BY <3>3, <2>7, <1>10
      <4>. PICK k : k = pc[p]
        OBVIOUS
      <4>2. Beside(g, r, k, u)
        BY <4>1, <2>1, <2>7, <1>4
      <4>3. Beside(g, r, k, u)'
        BY <4>2, <2>2
      <4>4. CalledFrom[pc'[y]] = k
        BY <2>5, <2>7, <1>4
      <4>. QED
        BY <4>3, <4>4, <1>9 DEF Beside, Abreast, Behind, Over, CalledFrom
    <3>. QED
      BY <3>2, <3>3
  <2>8. CASE x # p /\ y # p
    <3>1. /\ entered'[x] = entered[x] /\ entered'[y] = entered[y]
          /\ g = pc[x] /\ h = pc[y]
      BY <2>8, <1>4, <1>10
    <3>2. ASSUME entered'[x] = entered'[y] PROVE Beside(g, r, h, u)'
      BY <2>1, <2>2, <3>1, <3>2
    <3>3. entered'[x] = entered'[y] => Beside(pc[x], Run(x), pc[y], Run(y))'
      BY <3>2, <1>9 DEF Beside, Abreast, Behind, Over
    <3>4. ASSUME entered'[y] = entered'[x] + 1
          PROVE  Beside(pc[x], Run(x), CalledFrom[pc[y]], Run(y))'
      <4>. PICK k : k = CalledFrom[h]
        OBVIOUS
      <4>1. Beside(g, r, k, u)
        BY <3>1, <3>4, <2>1
      <4>2. Beside(g, r, k, u)'
        BY <4>1, <2>2
      <4>. QED
        BY <4>2, <1>9 DEF Beside, Abreast, Behind, Over, CalledFrom
    <3>. QED
      BY <3>3, <3>4
  <2>. QED
    BY <2>6, <2>7, <2>8
<1>. QED
  BY <1>5, <1>6, <1>7, <1>8, <1>11 DEF IInv

\* A step that moves nobody and makes no call.
LEMMA SameTogether ==
  ASSUME IInv, entered' = entered, pc' = pc, decision' = decision,
         \A p \in Group : Run(p)' = Run(p)
  PROVE  Together'
<1>1. ASSUME NEW g, NEW r, NEW h, NEW u, Beside(g, r, h, u)
      PROVE  Beside(g, r, h, u)'
  BY <1>1 DEF Beside, Abreast, Behind, Over, Decided
<1>. SUFFICES ASSUME NEW x \in Group, NEW y \in Group, x # y
              PROVE  /\ entered[x] = entered[y] =>
                          Beside(pc[x], Run(x), pc[y], Run(y))'
                     /\ entered[y] = entered[x] + 1 =>
                          Beside(pc[x], Run(x), CalledFrom[pc[y]], Run(y))'
  BY DEF Together
<1>2. /\ entered[x] = entered[y] => Beside(pc[x], Run(x), pc[y], Run(y))
      /\ entered[y] = entered[x] + 1 =>
           Beside(pc[x], Run(x), CalledFrom[pc[y]], Run(y))
  BY DEF IInv, Together
<1>. PICK g, h, k, r, u : /\ g = pc[x] /\ h = pc[y] /\ k = CalledFrom[h]
                          /\ r = Run(x) /\ u = Run(y)
  OBVIOUS
<1>3. entered[x] = entered[y] => Beside(pc[x], Run(x), pc[y], Run(y))'
  <2>1. entered[x] = entered[y] => Beside(g, r, h, u)'
    BY <1>1, <1>2
  <2>. QED
    BY <2>1 DEF Beside, Abreast, Behind, Over
<1>4. entered[y] = entered[x] + 1 => Beside(pc[x], Run(x), CalledFrom[pc[y]], Run(y))'
  <2>1. entered[y] = entered[x] + 1 => Beside(g, r, k, u)'
    BY <1>1, <1>2
  <2>. QED
    BY <2>1 DEF Beside, Abreast, Behind, Over, CalledFrom
<1>. QED
  BY <1>3, <1>4

LEMMA BarrierThreadIInv ==
  ASSUME IInv, NEW p \in Group, BarrierThread(p)
  PROVE  IInv'
<1>1. /\ BP!ResumeArrived(p) \/ BP!ResumeEnding(p)
      /\ UNCHANGED <<file, pc, seen, cnt, step, epoch, start, plan, ran, decision>>
  BY SameHandler DEF BarrierThread, B!Resume, loopVars
<1>2. /\ entered' = entered /\ at[p] # "outside"
      /\ \A q \in Group \ {p} : at'[q] = at[q]
  BY <1>1, HandlerSteps DEF IInv
<1>3. Shape'
  BY <1>1 DEF IInv, Shape
<1>4. Waiting'
  BY <1>1, <1>2 DEF IInv, Waiting
<1>5. Profiles'
  BY <1>1 DEF IInv, Profiles, Fits
<1>6. Together'
  <2>1. \A q \in Group : Run(q)' = Run(q)
    BY <1>1 DEF Run
  <2>. QED
    BY <1>1, <1>2, <2>1, SameTogether
<1>7. BP!AnyIInv'
  BY <1>1, HandlerKept DEF IInv
<1>. QED
  BY <1>3, <1>4, <1>5, <1>6, <1>7 DEF IInv

LEMMA StutterIInv ==
  ASSUME IInv, UNCHANGED vars
  PROVE  IInv'
<1>1. UNCHANGED <<barrierVars, file, pc, seen, cnt, step, epoch, start, plan, ran, decision>>
  BY DEF vars, loopVars
<1>2. Shape'
  BY <1>1 DEF IInv, Shape
<1>3. Waiting'
  BY <1>1 DEF IInv, Waiting, barrierVars
<1>4. Profiles'
  BY <1>1 DEF IInv, Profiles, Fits
<1>5. Together'
  <2>1. \A q \in Group : Run(q)' = Run(q)
    BY <1>1 DEF Run
  <2>2. entered' = entered
    BY <1>1 DEF barrierVars
  <2>. QED
    BY <1>1, <2>1, <2>2, SameTogether
<1>6. BP!AnyIInv'
  BY <1>1, HandlerKept DEF IInv
<1>. QED
  BY <1>2, <1>3, <1>4, <1>5, <1>6 DEF IInv

LEMMA InitIInv == Init => IInv
<1>. SUFFICES ASSUME Init PROVE IInv
  OBVIOUS
<1>1. PICK s \in Plans :
        /\ file = [p \in Group |-> [window |-> 0, entries |-> 0, eof |-> FALSE]]
        /\ pc = [p \in Group |-> "preprofiling"] /\ seen = [p \in Group |-> << >>]
        /\ cnt = [p \in Group |-> 0] /\ step = [p \in Group |-> 0]
        /\ epoch = [p \in Group |-> 0] /\ start = [p \in Group |-> 0]
        /\ plan = [p \in Group |-> [window |-> 0, suspended |-> s]]
        /\ ran = [p \in Group |-> 0]
  BY DEF Init, Fresh
<1>2. B!BarrierInit /\ BP!BarrierInit
  <2>1. 0 \in Group
    BY SizeAssumption DEF Group
  <2>. QED
    BY <2>1, SameHandler DEF Init
<1>3. at = [p \in Group |-> "outside"] /\ entered = [p \in Group |-> 0]
  BY <1>2 DEF B!BarrierInit
<1>4. Shape
  <2>1. s \in SUBSET Group
    BY PlansAssumption
  <2>2. plan \in [Group -> [window : Nat, suspended : SUBSET Group]]
    BY <1>1, <2>1
  <2>3. file \in [Group -> [window : Nat, entries : Nat, eof : BOOLEAN]]
    BY <1>1
  <2>4. seen \in [Group -> Seq(Nat)]
    BY <1>1
  <2>. QED
    BY <1>1, <2>2, <2>3, <2>4 DEF Shape, Places
<1>5. Waiting
  BY <1>3 DEF Waiting
<1>6. Profiles
  <2>. SUFFICES ASSUME NEW p \in Group PROVE Fits(p)
    BY DEF Profiles
  <2>1. /\ pc[p] = "preprofiling" /\ cnt[p] = 0 /\ seen[p] = << >>
        /\ file[p].window = 0
    BY <1>1
  <2>2. FileFits(pc[p], cnt[p], file[p])
    BY <2>1 DEF FileFits, Starting
  <2>3. ListFits(pc[p], file[p], seen[p])
    BY <2>1 DEF ListFits
  <2>. QED
    BY <2>2, <2>3 DEF Fits
<1>7. Together
  <2>. SUFFICES ASSUME NEW p \in Group, NEW q \in Group
                PROVE  /\ Beside(pc[p], Run(p), pc[q], Run(q))
                       /\ entered[q] # entered[p] + 1
    BY DEF Together
  <2>1. entered[q] # entered[p] + 1
    BY <1>3
  <2>2. Run(p) = Run(q) /\ pc[p] = "preprofiling" /\ pc[q] = "preprofiling"
    BY <1>1 DEF Run, NotProfiled
  <2>. QED
    BY <2>1, <2>2 DEF Beside, Abreast
<1>8. BP!AnyIInv
  BY <1>2, HandlerKept
<1>. QED
  BY <1>4, <1>5, <1>6, <1>7, <1>8 DEF IInv

\* Every step keeps the invariant, from the first state on.
THEOREM Inductive == Spec => []IInv
<1>1. IInv /\ [Next]_vars => IInv'
  <2>. SUFFICES ASSUME IInv, [Next]_vars PROVE IInv'
    OBVIOUS
  <2>1. ASSUME NEW p \in Group, Step(p) PROVE IInv'
    BY <2>1, PreProfileIInv, CallBarrierIInv, BarrierThreadIInv, ReadProfileIInv,
       StutterIInv, StartPlanIInv, BeginRunIInv, EndRunIInv, NextStepIInv,
       EndProfileIInv, DecideIInv DEF Step, Poll
  <2>. QED
    BY <2>1, StutterIInv DEF Next, Finished
<1>. QED
  BY <1>1, InitIInv, PTL DEF Spec

\* RunTogether: processes in graph.run at once run the same step of the same epoch
\* under the same plan, for any number of them, though each has decided alone and
\* the barriers in between are called whenever a process gets there.
THEOREM TogetherInRuns == Spec => []RunTogether
<1>1. IInv => RunTogether
  <2>. SUFFICES ASSUME IInv, NEW p \in Group, NEW q \in Group,
                       pc[p] = "running", pc[q] = "running"
                PROVE  /\ ran[p] = ran[q]
                       /\ <<epoch[p], step[p], plan[p]>> = <<epoch[q], step[q], plan[q]>>
    BY DEF RunTogether
  <2>1. CASE p = q
    BY <2>1
  <2>2. CASE p # q
    <3>1. at[p] = "outside" /\ at[q] = "outside"
      BY NotWaiting, CallPlaces
    <3>2. entered[q] = entered[p]
      BY <3>1, Rounds DEF IInv
    <3>3. Beside("running", Run(p), "running", Run(q))
      BY <2>2, <3>2 DEF IInv, Together
    <3>4. Run(p) = Run(q)
      BY <3>3 DEF Beside, Abreast, Behind, Over
    <3>5. /\ Run(p).ran = ran[p] /\ Run(q).ran = ran[q]
          /\ Run(p).epoch = epoch[p] /\ Run(q).epoch = epoch[q]
          /\ Run(p).step = step[p] /\ Run(q).step = step[q]
          /\ Run(p).plan = plan[p] /\ Run(q).plan = plan[q]
      BY DEF Run, NotBegun, Starting
    <3>. QED
      BY <3>4, <3>5
  <2>. QED
    BY <2>1, <2>2
<1>. QED
  BY <1>1, Inductive, PTL

\* NoShortProfile: no reader meets the end of a profile with another number of
\* entries than its window has, the file of a process that has gone on included.
THEOREM NoHalfProfile == Spec => []NoShortProfile
<1>1. IInv => NoShortProfile
  BY DEF IInv, Shape, Places, Starting, Late, NoShortProfile
<1>. QED
  BY <1>1, Inductive, PTL

-----------------------------------------------------------------------------
(***************************************************************************)
(* The graph.run of a step is a call of CrucialRun, and there, for any     *)
(* number of stages and micro batches: no transfer takes away what is not  *)
(* computed, and no kernel starts before its input is there.               *)
(*                                                                         *)
(* The place of a host in its list of tasks says how many forward and      *)
(* backward tasks it has enqueued, and so how many sends and receives of   *)
(* each channel; the number of a transfer says what it carries, the same   *)
(* at both ends.  A transfer that a kernel waits for is in a group that    *)
(* has ended, and later ones never join it.                                *)
(***************************************************************************)
CONSTANT Jobs
VARIABLES job, task, host, computed, moved, accumulated, finished

P == INSTANCE Pipeline WITH at <- task

Last == job.num_stages - 1

\* What the nth transfer of a channel carries: the shared weight first, then
\* activations or gradients, by micro batch.
Weighs(c) == job.shared /\ Last > 0 /\ c = <<0, Last>>
Nth(c, n) == IF Weighs(c) /\ n = 1 THEN <<"weight", 0>>
             ELSE IF c[2] = c[1] + 1
                  THEN <<"activation", IF Weighs(c) THEN n - 2 ELSE n - 1>>
                  ELSE <<"gradient", n - 1>>

TaskSet == [type : {"forward", "backward"}, micro_batch : Nat]
Ops == [from : Nat, to : Nat, what : {"activation", "gradient", "weight"} \X Nat,
        number : Nat, group : Nat]
Kernels == [task : TaskSet, after : Nat]
Hosts == [continuous : BOOLEAN, ops : Seq(Ops), groups : Seq(Nat),
          kernels : Seq(Kernels), synced : Nat]

OnChannel(h, a, b) == {i \in DOMAIN h.ops : h.ops[i].from = a /\ h.ops[i].to = b}
Count(h, a, b) == Cardinality(OnChannel(h, a, b))
Comes(h, s, what, g) ==
  \E i \in DOMAIN h.ops : h.ops[i].to = s /\ h.ops[i].what = what /\ h.ops[i].group <= g
Enqueued(h, t, n) == \E k \in 1..n : h.kernels[k].task = t

Ordered(h) ==
  /\ h.synced <= Len(h.groups)
  /\ h.continuous => h.synced < Len(h.groups)
  /\ \A g \in DOMAIN h.groups : h.groups[g] <= Len(h.kernels)
  /\ \A i \in DOMAIN h.ops : h.ops[i].group \in DOMAIN h.groups
  /\ \A k \in DOMAIN h.kernels : h.kernels[k].after <= h.synced

Numbered(h) ==
  \A i \in DOMAIN h.ops :
    LET op == h.ops[i]
    IN  /\ op.from \in P!Stages /\ op.to \in P!Stages
        /\ op.what = Nth(<<op.from, op.to>>, op.number)
        /\ op.number \in 1..Count(h, op.from, op.to)
        /\ \A j \in OnChannel(h, op.from, op.to) : h.ops[j].number = op.number => i = j

SentAfter(s, h) ==
  \A i \in DOMAIN h.ops :
    LET op == h.ops[i]
    IN  op.from = s =>
          /\ op.what[1] = "activation" => Enqueued(h, P!Forward(op.what[2]), h.groups[op.group])
          /\ op.what[1] = "gradient" => Enqueued(h, P!Backward(op.what[2]), h.groups[op.group])

FedFirst(s, h) ==
  \A k \in DOMAIN h.kernels :
    LET t == h.kernels[k].task
        fed(what) == Comes(h, s, what, h.kernels[k].after)
    IN  /\ t.type = "forward" =>
             /\ s # 0 => fed(<<"activation", t.micro_batch>>)
             /\ job.shared /\ s = Last /\ s # 0 => fed(<<"weight", 0>>)
        /\ t.type = "backward" =>
             /\ s # Last => fed(<<"gradient", t.micro_batch>>)
             /\ Enqueued(h, P!Forward(t.micro_batch), k - 1)

HostInv(s, h) == h \in Hosts /\ Ordered(h) /\ Numbered(h) /\ SentAfter(s, h) /\ FedFirst(s, h)

\* What the host has enqueued stays, and what it enqueues comes behind it.
Extends(u, v) == Len(u) <= Len(v) /\ \A i \in 1..Len(u) : v[i] = u[i]

Grown(h, g) ==
  /\ Extends(h.ops, g.ops) /\ Extends(h.groups, g.groups) /\ Extends(h.kernels, g.kernels)
  /\ h.synced <= g.synced
  /\ \A i \in DOMAIN g.ops \ DOMAIN h.ops :
       /\ g.ops[i].group > h.synced
       /\ g.ops[i].number > Count(h, g.ops[i].from, g.ops[i].to)
  /\ \A a, b \in Nat : Count(h, a, b) <= Count(g, a, b)

-----------------------------------------------------------------------------
(* What is enqueued *)

\* The parts of what a host has enqueued.
LEMMA Fields ==
  ASSUME NEW h \in Hosts
  PROVE  /\ h.ops \in Seq(Ops) /\ Len(h.ops) \in Nat /\ DOMAIN h.ops = 1..Len(h.ops)
         /\ h.groups \in Seq(Nat) /\ Len(h.groups) \in Nat /\ DOMAIN h.groups = 1..Len(h.groups)
         /\ h.kernels \in Seq(Kernels) /\ Len(h.kernels) \in Nat
         /\ DOMAIN h.kernels = 1..Len(h.kernels)
         /\ h.synced \in Nat /\ h.continuous \in BOOLEAN
BY DEF Hosts

\* A send or receive in it.
LEMMA OpFields ==
  ASSUME NEW h \in Hosts, NEW i \in DOMAIN h.ops
  PROVE  LET op == h.ops[i]
         IN  /\ op \in Ops /\ op.from \in Nat /\ op.to \in Nat /\ op.number \in Nat
             /\ op.group \in Nat /\ op.what \in {"activation", "gradient", "weight"} \X Nat
<1>1. h.ops[i] \in Ops
  BY Fields
<1>2. QED  BY <1>1 DEF Ops

\* A kernel in it.
LEMMA KernelFields ==
  ASSUME NEW h \in Hosts, NEW k \in DOMAIN h.kernels
  PROVE  /\ h.kernels[k].after \in Nat /\ h.kernels[k].task \in TaskSet
         /\ h.kernels[k].task.type \in {"forward", "backward"}
         /\ h.kernels[k].task.micro_batch \in Nat
<1>1. h.kernels[k] \in Kernels
  BY Fields
<1>2. QED  BY <1>1 DEF Kernels, TaskSet

\* The transfers of a channel can be counted.
LEMMA CountTyped ==
  ASSUME NEW h \in Hosts, NEW a, NEW b
  PROVE  /\ Count(h, a, b) \in Nat /\ IsFiniteSet(OnChannel(h, a, b))
         /\ P!Cardinality(OnChannel(h, a, b)) = Count(h, a, b)
<1>1. IsFiniteSet(1..Len(h.ops))
  BY FS_Interval DEF Hosts
<1>2. OnChannel(h, a, b) \subseteq 1..Len(h.ops)
  BY DEF OnChannel, Hosts
<1>3. IsFiniteSet(OnChannel(h, a, b))
  BY <1>1, <1>2, FS_Subset
<1>4. Count(h, a, b) \in Nat
  BY <1>3, FS_CardinalityType DEF Count
<1>5. P!Cardinality(OnChannel(h, a, b)) = Cardinality(OnChannel(h, a, b))
  BY DEF P!Cardinality, Cardinality
<1>6. QED  BY <1>3, <1>4, <1>5 DEF Count

\* What has grown twice has grown.
LEMMA GrownTwice ==
  ASSUME NEW h \in Hosts, NEW g \in Hosts, NEW k \in Hosts, Grown(h, g), Grown(g, k)
  PROVE  Grown(h, k)
<1>1. Extends(h.ops, k.ops)
  <2>1. Extends(h.ops, g.ops) /\ Extends(g.ops, k.ops)
    BY DEF Grown
  <2>2. Len(h.ops) \in Nat /\ Len(g.ops) \in Nat /\ Len(k.ops) \in Nat
    BY Fields
  <2>3. QED  BY <2>1, <2>2 DEF Extends
<1>2. Extends(h.groups, k.groups)
  <2>1. Extends(h.groups, g.groups) /\ Extends(g.groups, k.groups)
    BY DEF Grown
  <2>2. Len(h.groups) \in Nat /\ Len(g.groups) \in Nat /\ Len(k.groups) \in Nat
    BY Fields
  <2>3. QED  BY <2>1, <2>2 DEF Extends
<1>3. Extends(h.kernels, k.kernels)
  <2>1. Extends(h.kernels, g.kernels) /\ Extends(g.kernels, k.kernels)
    BY DEF Grown
  <2>2. Len(h.kernels) \in Nat /\ Len(g.kernels) \in Nat /\ Len(k.kernels) \in Nat
    BY Fields
  <2>3. QED  BY <2>1, <2>2 DEF Extends
<1>4. h.synced \in Nat /\ g.synced \in Nat /\ k.synced \in Nat
  BY Fields
<1>5. h.synced <= g.synced /\ g.synced <= k.synced
  BY DEF Grown
<1>6. \A a, b \in Nat : Count(h, a, b) \in Nat /\ Count(g, a, b) \in Nat /\ Count(k, a, b) \in Nat
  BY CountTyped
<1>7. \A a, b \in Nat : Count(h, a, b) <= Count(g, a, b) /\ Count(g, a, b) <= Count(k, a, b)
  BY DEF Grown
<1>8. ASSUME NEW i \in DOMAIN k.ops \ DOMAIN h.ops
      PROVE  /\ k.ops[i].group > h.synced
             /\ k.ops[i].number > Count(h, k.ops[i].from, k.ops[i].to)
  <2>1. /\ k.ops[i].from \in Nat /\ k.ops[i].to \in Nat /\ k.ops[i].group \in Nat
        /\ k.ops[i].number \in Nat
    BY OpFields
  <2>2. CASE i \in DOMAIN g.ops
    <3>1. g.ops[i] = k.ops[i]
      BY <2>2, Fields DEF Grown, Extends
    <3>2. QED  BY <2>2, <3>1 DEF Grown
  <2>3. CASE i \notin DOMAIN g.ops
    <3>1. /\ k.ops[i].group > g.synced
          /\ k.ops[i].number > Count(g, k.ops[i].from, k.ops[i].to)
      BY <2>3 DEF Grown
    <3>2. /\ Count(h, k.ops[i].from, k.ops[i].to) <= Count(g, k.ops[i].from, k.ops[i].to)
          /\ Count(h, k.ops[i].from, k.ops[i].to) \in Nat
          /\ Count(g, k.ops[i].from, k.ops[i].to) \in Nat
      BY <2>1, <1>6, <1>7
    <3>3. QED  BY <3>1, <3>2, <2>1, <1>4, <1>5
  <2>4. QED  BY <2>2, <2>3
<1>9. h.synced <= k.synced
  BY <1>4, <1>5
<1>10. \A a, b \in Nat : Count(h, a, b) <= Count(k, a, b)
  BY <1>6, <1>7
<1>11. QED  BY <1>1, <1>2, <1>3, <1>8, <1>9, <1>10 DEF Grown

\* What stays the same has grown.
LEMMA GrownNothing ==
  ASSUME NEW h \in Hosts, NEW g \in Hosts, g.ops = h.ops, g.kernels = h.kernels,
         Extends(h.groups, g.groups), h.synced <= g.synced
  PROVE  Grown(h, g)
<1>1. \A a, b : Count(h, a, b) = Count(g, a, b)
  BY DEF Count, OnChannel
<1>2. \A a, b \in Nat : Count(h, a, b) \in Nat
  BY CountTyped
<1>3. Extends(h.ops, g.ops) /\ Extends(h.kernels, g.kernels)
  BY Fields DEF Extends
<1>4. QED  BY <1>1, <1>2, <1>3 DEF Grown

-----------------------------------------------------------------------------
(* Groups and events *)

\* The invariant of what is enqueued does not depend on where groups end.
LEMMA SameOps ==
  ASSUME NEW s, NEW h \in Hosts, NEW g \in Hosts, HostInv(s, h),
         g.ops = h.ops, g.kernels = h.kernels, Extends(h.groups, g.groups), Ordered(g),
         h.synced <= g.synced
  PROVE  HostInv(s, g) /\ Grown(h, g)
<1>1. Grown(h, g)
  BY GrownNothing
<1>2. \A a, b : Count(h, a, b) = Count(g, a, b) /\ OnChannel(h, a, b) = OnChannel(g, a, b)
  BY DEF Count, OnChannel
<1>3. Numbered(g)
  BY <1>2 DEF HostInv, Numbered
<1>4. SentAfter(s, g)
  <2>1. \A t, n : Enqueued(g, t, n) <=> Enqueued(h, t, n)
    BY DEF Enqueued
  <2>2. \A i \in DOMAIN h.ops : g.groups[h.ops[i].group] = h.groups[h.ops[i].group]
    BY Fields DEF HostInv, Ordered, Extends
  <2>3. QED  BY <2>1, <2>2 DEF HostInv, SentAfter
<1>5. FedFirst(s, g)
  <2>1. \A t, n : Enqueued(g, t, n) <=> Enqueued(h, t, n)
    BY DEF Enqueued
  <2>2. \A what, n : Comes(g, s, what, n) <=> Comes(h, s, what, n)
    BY DEF Comes
  <2>3. QED  BY <2>1, <2>2 DEF HostInv, FedFirst
<1>6. QED  BY <1>1, <1>3, <1>4, <1>5 DEF HostInv

\* A group begins behind the kernels enqueued.
LEMMA StartDoes ==
  ASSUME NEW s, NEW h, HostInv(s, h), ~h.continuous
  PROVE  LET g == P!GroupStart(h)
         IN  /\ HostInv(s, g) /\ Grown(h, g) /\ g.continuous
             /\ g.ops = h.ops /\ g.kernels = h.kernels
             /\ g.groups[Len(g.groups)] = Len(h.kernels)
<1>. DEFINE g == P!GroupStart(h)
<1>1. h \in Hosts /\ Ordered(h)
  BY DEF HostInv
<1>2. /\ g.continuous /\ g.ops = h.ops /\ g.kernels = h.kernels /\ g.synced = h.synced
      /\ g.groups = Append(h.groups, Len(h.kernels))
  BY <1>1 DEF P!GroupStart, Hosts
<1>3. g \in Hosts
  <2>1. Len(h.kernels) \in Nat /\ h.groups \in Seq(Nat)
    BY <1>1, Fields
  <2>2. Append(h.groups, Len(h.kernels)) \in Seq(Nat)
    BY <2>1
  <2>3. QED  BY <1>1, <2>2 DEF P!GroupStart, Hosts
<1>4. /\ Len(g.groups) = Len(h.groups) + 1 /\ g.groups[Len(g.groups)] = Len(h.kernels)
      /\ Extends(h.groups, g.groups)
  BY <1>1, <1>2, Fields DEF Extends
<1>5. Ordered(g)
  <2>1. /\ h.synced \in Nat /\ Len(h.groups) \in Nat /\ h.synced <= Len(h.groups)
        /\ Len(h.kernels) \in Nat /\ DOMAIN h.groups = 1..Len(h.groups)
    BY <1>1, Fields DEF Ordered
  <2>2. g.synced < Len(g.groups)
    BY <2>1, <1>2, <1>4
  <2>3. DOMAIN g.groups = 1..(Len(h.groups) + 1)
    BY <1>3, <1>4, Fields
  <2>4. \A i \in DOMAIN g.groups : g.groups[i] <= Len(g.kernels)
    BY <1>1, <1>2, <1>4, <2>1, <2>3 DEF Ordered, Extends
  <2>5. \A i \in DOMAIN g.ops : g.ops[i].group \in DOMAIN g.groups
    BY <1>1, <1>2, <2>1, <2>3 DEF Ordered
  <2>6. \A k \in DOMAIN g.kernels : g.kernels[k].after <= g.synced
    BY <1>1, <1>2 DEF Ordered
  <2>7. g.synced <= Len(g.groups)
    BY <2>1, <1>2, <1>4
  <2>8. QED  BY <2>2, <2>4, <2>5, <2>6, <2>7 DEF Ordered
<1>6. h.synced <= g.synced
  BY <1>1, <1>2, Fields
<1>7. HostInv(s, g) /\ Grown(h, g)
  BY <1>1, <1>2, <1>3, <1>4, <1>5, <1>6, SameOps
<1>8. QED  BY <1>2, <1>4, <1>7

\* A group that ends is waited for by what is computed next.
LEMMA ClosedDoes ==
  ASSUME NEW s, NEW h, HostInv(s, h)
  PROVE  LET g == P!Closed(h)
         IN  /\ HostInv(s, g) /\ Grown(h, g) /\ ~g.continuous
             /\ g.ops = h.ops /\ g.kernels = h.kernels /\ g.groups = h.groups
             /\ h.continuous => g.synced = Len(g.groups)
<1>. DEFINE g == P!Closed(h)
<1>1. h \in Hosts /\ Ordered(h)
  BY DEF HostInv
<1>2. CASE ~h.continuous
  <2>1. g = h
    BY <1>2 DEF P!Closed
  <2>2. Extends(h.groups, h.groups) /\ h.synced <= h.synced
    BY <1>1, Fields DEF Extends
  <2>3. Grown(h, h)
    BY <1>1, <2>2, GrownNothing
  <2>4. QED  BY <1>2, <2>1, <2>3
<1>3. CASE h.continuous
  <2>1. /\ g.continuous = FALSE /\ g.ops = h.ops /\ g.kernels = h.kernels
        /\ g.groups = h.groups /\ g.synced = Len(h.groups)
    BY <1>1, <1>3 DEF P!Closed, P!GroupEnd, Hosts
  <2>2. g \in Hosts
    <3>1. Len(h.groups) \in Nat
      BY <1>1, Fields
    <3>2. QED  BY <1>1, <1>3, <3>1 DEF P!Closed, P!GroupEnd, Hosts
  <2>3. Extends(h.groups, g.groups) /\ h.synced <= g.synced
    BY <1>1, <2>1, Fields DEF Extends, Ordered
  <2>4. Ordered(g)
    <3>1. \A k \in DOMAIN h.kernels : h.kernels[k].after \in Nat
      BY <1>1, KernelFields
    <3>2. h.synced \in Nat /\ Len(h.groups) \in Nat
      BY <1>1, Fields
    <3>3. \A k \in DOMAIN g.kernels : g.kernels[k].after <= g.synced
      BY <1>1, <2>1, <2>3, <3>1, <3>2 DEF Ordered
    <3>4. g.synced <= Len(g.groups)
      BY <2>1, <3>2
    <3>5. \A i \in DOMAIN g.groups : g.groups[i] <= Len(g.kernels)
      BY <1>1, <2>1 DEF Ordered
    <3>6. \A i \in DOMAIN g.ops : g.ops[i].group \in DOMAIN g.groups
      BY <1>1, <2>1 DEF Ordered
    <3>7. QED  BY <2>1, <3>3, <3>4, <3>5, <3>6 DEF Ordered
  <2>5. HostInv(s, g) /\ Grown(h, g)
    BY <1>1, <2>1, <2>2, <2>3, <2>4, SameOps
  <2>6. QED  BY <2>1, <2>5
<1>4. h.continuous \in BOOLEAN
  BY <1>1, Fields
<1>5. QED  BY <1>2, <1>3

\* A Bubble ends a group and begins another.
LEMMA BubbleDoes ==
  ASSUME NEW s, NEW h, HostInv(s, h), h.continuous
  PROVE  LET g == P!BubbleBetween(h)
         IN  HostInv(s, g) /\ Grown(h, g) /\ g.ops = h.ops /\ g.kernels = h.kernels
             /\ Extends(h.groups, g.groups)
<1>. DEFINE g == P!BubbleBetween(h)
<1>1. h \in Hosts /\ Ordered(h)
  BY DEF HostInv
<1>2. /\ g.continuous = h.continuous /\ g.ops = h.ops /\ g.kernels = h.kernels /\ g.synced = h.synced
      /\ g.groups = Append(h.groups, 0)
  BY <1>1 DEF P!BubbleBetween, Hosts
<1>3. g \in Hosts
  <2>1. h.groups \in Seq(Nat)
    BY <1>1, Fields
  <2>2. Append(h.groups, 0) \in Seq(Nat)
    BY <2>1
  <2>3. QED  BY <1>1, <2>2 DEF P!BubbleBetween, Hosts
<1>4. /\ Len(g.groups) = Len(h.groups) + 1 /\ g.groups[Len(g.groups)] = 0
      /\ Extends(h.groups, g.groups)
  BY <1>1, <1>2, Fields DEF Extends
<1>5. Ordered(g)
  <2>1. /\ h.synced \in Nat /\ Len(h.groups) \in Nat /\ h.synced <= Len(h.groups)
        /\ Len(h.kernels) \in Nat /\ DOMAIN h.groups = 1..Len(h.groups)
    BY <1>1, Fields DEF Ordered
  <2>2. g.synced < Len(g.groups)
    BY <2>1, <1>2, <1>4
  <2>3. DOMAIN g.groups = 1..(Len(h.groups) + 1)
    BY <1>3, <1>4, Fields
  <2>4. \A i \in DOMAIN g.groups : g.groups[i] <= Len(g.kernels)
    BY <1>1, <1>2, <1>4, <2>1, <2>3 DEF Ordered, Extends
  <2>5. \A i \in DOMAIN g.ops : g.ops[i].group \in DOMAIN g.groups
    BY <1>1, <1>2, <2>1, <2>3 DEF Ordered
  <2>6. \A k \in DOMAIN g.kernels : g.kernels[k].after <= g.synced
    BY <1>1, <1>2 DEF Ordered
  <2>7. g.synced <= Len(g.groups)
    BY <2>1, <1>2, <1>4
  <2>8. QED  BY <2>2, <2>4, <2>5, <2>6, <2>7 DEF Ordered
<1>6. h.synced <= g.synced
  BY <1>1, <1>2, Fields
<1>7. HostInv(s, g) /\ Grown(h, g)
  BY <1>1, <1>2, <1>3, <1>4, <1>5, <1>6, SameOps
<1>8. QED  BY <1>2, <1>4, <1>7

-----------------------------------------------------------------------------
(* A send or receive *)

\* A transfer joins the group that is open: it is the next of its channel.
LEMMA IssueCounts ==
  ASSUME NEW h \in Hosts, NEW g \in Hosts, NEW op, g.ops = Append(h.ops, op)
  PROVE  \A a, b : /\ a = op.from /\ b = op.to => Count(g, a, b) = Count(h, a, b) + 1
                   /\ ~(a = op.from /\ b = op.to) => Count(g, a, b) = Count(h, a, b)
<1>. TAKE a, b
<1>. DEFINE n == Len(h.ops) + 1
<1>1. /\ Len(g.ops) = n /\ DOMAIN g.ops = 1..n /\ g.ops[n] = op /\ n \in Nat
      /\ \A i \in DOMAIN h.ops : g.ops[i] = h.ops[i] 
      /\ DOMAIN h.ops = 1..(n - 1) /\ n \notin DOMAIN h.ops /\ DOMAIN g.ops = DOMAIN h.ops \cup {n}
  <2>1. h.ops \in Seq(Ops) /\ Len(h.ops) \in Nat /\ DOMAIN h.ops = 1..Len(h.ops)
    BY Fields
  <2>2. Len(g.ops) = n /\ g.ops[n] = op /\ \A i \in DOMAIN h.ops : g.ops[i] = h.ops[i]
    BY <2>1
  <2>3. DOMAIN g.ops = 1..n
    BY <2>2, Fields
  <2>4. QED  BY <2>1, <2>2, <2>3
<1>2. CASE a = op.from /\ b = op.to
  <2>1. OnChannel(g, a, b) = OnChannel(h, a, b) \cup {n}
    BY <1>1, <1>2 DEF OnChannel
  <2>2. n \notin OnChannel(h, a, b)
    BY <1>1 DEF OnChannel
  <2>3. IsFiniteSet(OnChannel(h, a, b))
    BY CountTyped
  <2>4. Count(g, a, b) = Count(h, a, b) + 1
    BY <2>1, <2>2, <2>3, FS_AddElement DEF Count
  <2>5. QED  BY <1>2, <2>4
<1>3. CASE ~(a = op.from /\ b = op.to)
  <2>1. OnChannel(g, a, b) = OnChannel(h, a, b)
    BY <1>1, <1>3 DEF OnChannel
  <2>2. QED  BY <1>3, <2>1 DEF Count
<1>4. QED  BY <1>2, <1>3

\* A send or receive is the next of its channel, in the newest group.
LEMMA IssueDoes ==
  ASSUME NEW s, NEW h, HostInv(s, h), h.continuous, NEW from \in Nat, NEW to \in Nat,
         from \in P!Stages, to \in P!Stages, NEW what,
         what \in {"activation", "gradient", "weight"} \X Nat,
         what = Nth(<<from, to>>, Count(h, from, to) + 1),
         from = s /\ what[1] = "activation" =>
           Enqueued(h, P!Forward(what[2]), h.groups[Len(h.groups)]),
         from = s /\ what[1] = "gradient" =>
           Enqueued(h, P!Backward(what[2]), h.groups[Len(h.groups)])
  PROVE  LET g == P!Issue(h, from, to, what)
         IN  /\ HostInv(s, g) /\ Grown(h, g) /\ g.continuous
             /\ g.kernels = h.kernels /\ g.groups = h.groups
             /\ Comes(g, to, what, Len(g.groups))
             /\ \A a, b : /\ a = from /\ b = to => Count(g, a, b) = Count(h, a, b) + 1
                          /\ ~(a = from /\ b = to) => Count(g, a, b) = Count(h, a, b)
<1>. DEFINE op == [from |-> from, to |-> to, what |-> what,
                   number |-> Count(h, from, to) + 1, group |-> Len(h.groups)]
            n == Len(h.ops) + 1
<1>. DEFINE g == P!Issue(h, from, to, what)
<1>1. h \in Hosts /\ Ordered(h)
  BY DEF HostInv
<1>2. Count(h, from, to) \in Nat /\ Count(h, from, to) = P!Cardinality(OnChannel(h, from, to))
  BY <1>1, CountTyped
<1>3. g = [h EXCEPT !.ops = Append(@, op)]
  BY <1>2 DEF P!Issue, OnChannel
<1>. HIDE DEF g
<1>4. op \in Ops
  BY <1>1, <1>2, Fields DEF Ops
<1>. HIDE DEF op
<1>5. g \in Hosts
  <2>1. Append(h.ops, op) \in Seq(Ops)
    BY <1>1, <1>4, Fields
  <2>2. QED  BY <1>1, <1>3, <2>1 DEF Hosts
<1>6. /\ g.ops = Append(h.ops, op) /\ g.kernels = h.kernels /\ g.groups = h.groups
      /\ g.synced = h.synced /\ g.continuous = h.continuous
  BY <1>1, <1>3 DEF Hosts
<1>7. /\ op.from = from /\ op.to = to /\ op.what = what /\ op.number = Count(h, from, to) + 1
      /\ op.group = Len(h.groups)
  BY DEF op
<1>8. \A a, b : /\ a = from /\ b = to => Count(g, a, b) = Count(h, a, b) + 1
                /\ ~(a = from /\ b = to) => Count(g, a, b) = Count(h, a, b)
  BY <1>1, <1>5, <1>6, <1>7, IssueCounts
<1>9. /\ DOMAIN g.ops = 1..n /\ g.ops[n] = op /\ n \in Nat /\ Len(g.ops) = n
      /\ \A i \in DOMAIN h.ops : g.ops[i] = h.ops[i]
      /\ DOMAIN h.ops = 1..(n - 1) /\ DOMAIN g.ops = DOMAIN h.ops \cup {n} /\ n \notin DOMAIN h.ops
  <2>1. h.ops \in Seq(Ops) /\ Len(h.ops) \in Nat /\ DOMAIN h.ops = 1..Len(h.ops)
    BY <1>1, Fields
  <2>2. Len(g.ops) = n /\ g.ops[n] = op /\ \A i \in DOMAIN h.ops : g.ops[i] = h.ops[i]
    BY <1>6, <2>1
  <2>3. DOMAIN g.ops = 1..n
    BY <1>5, <2>2, Fields
  <2>4. QED  BY <2>1, <2>2, <2>3
<1>10. h.synced \in Nat /\ Len(h.groups) \in Nat /\ h.synced < Len(h.groups)
       /\ Len(h.groups) \in DOMAIN h.groups
  BY <1>1, Fields DEF Ordered
<1>11. Ordered(g)
  <2>1. \A i \in DOMAIN g.ops : g.ops[i].group \in DOMAIN g.groups
    <3>1. TAKE i \in DOMAIN g.ops
    <3>2. CASE i = n
      BY <3>2, <1>6, <1>7, <1>9, <1>10
    <3>3. CASE i \in DOMAIN h.ops
      BY <3>3, <1>1, <1>6, <1>9 DEF Ordered
    <3>4. QED  BY <3>2, <3>3, <1>9
  <2>2. QED  BY <1>1, <1>6, <2>1 DEF Ordered
<1>12. \A a, b \in Nat : Count(h, a, b) \in Nat
  BY <1>1, CountTyped
<1>13. Grown(h, g)
  <2>1. Extends(h.ops, g.ops)
    BY <1>9 DEF Extends
  <2>2. Extends(h.groups, g.groups) /\ Extends(h.kernels, g.kernels)
    BY <1>1, <1>6, Fields DEF Extends
  <2>3. \A i \in DOMAIN g.ops \ DOMAIN h.ops : i = n
    BY <1>9
  <2>4. g.ops[n].group > h.synced /\ g.ops[n].number > Count(h, g.ops[n].from, g.ops[n].to)
    BY <1>2, <1>7, <1>9, <1>10
  <2>5. \A a, b \in Nat : Count(h, a, b) <= Count(g, a, b)
    <3>1. TAKE a, b \in Nat
    <3>2. Count(h, a, b) \in Nat
      BY <1>12
    <3>3. \/ Count(g, a, b) = Count(h, a, b)
          \/ Count(g, a, b) = Count(h, a, b) + 1
      BY <1>8
    <3>4. QED  BY <3>2, <3>3
  <2>6. h.synced <= g.synced
    BY <1>6, <1>10
  <2>7. QED  BY <2>1, <2>2, <2>3, <2>4, <2>5, <2>6 DEF Grown
<1>14. Numbered(g)
  <2>1. \A i \in DOMAIN h.ops : h.ops[i].number \in Nat /\ h.ops[i].from \in Nat /\ h.ops[i].to \in Nat
    BY <1>1, OpFields
  <2>2. ASSUME NEW i \in DOMAIN g.ops
        PROVE  /\ g.ops[i].from \in P!Stages /\ g.ops[i].to \in P!Stages
               /\ g.ops[i].what = Nth(<<g.ops[i].from, g.ops[i].to>>, g.ops[i].number)
               /\ g.ops[i].number \in 1..Count(g, g.ops[i].from, g.ops[i].to)
    <3>1. CASE i = n
      BY <3>1, <1>2, <1>7, <1>8, <1>9
    <3>2. CASE i \in DOMAIN h.ops
      <4>1. g.ops[i] = h.ops[i]
        BY <1>9, <3>2
      <4>2. /\ h.ops[i].from \in P!Stages /\ h.ops[i].to \in P!Stages
            /\ h.ops[i].what = Nth(<<h.ops[i].from, h.ops[i].to>>, h.ops[i].number)
            /\ h.ops[i].number \in 1..Count(h, h.ops[i].from, h.ops[i].to)
        BY <3>2 DEF HostInv, Numbered
      <4>3. /\ Count(h, h.ops[i].from, h.ops[i].to) \in Nat
            /\ \/ Count(g, h.ops[i].from, h.ops[i].to) = Count(h, h.ops[i].from, h.ops[i].to)
               \/ Count(g, h.ops[i].from, h.ops[i].to) = Count(h, h.ops[i].from, h.ops[i].to) + 1
        BY <1>8, <1>12, <2>1, <3>2
      <4>4. h.ops[i].number \in 1..Count(g, h.ops[i].from, h.ops[i].to)
        BY <4>2, <4>3
      <4>5. QED  BY <4>1, <4>2, <4>4
    <3>3. QED  BY <3>1, <3>2, <1>9
  <2>3. ASSUME NEW i \in DOMAIN g.ops, NEW j \in DOMAIN g.ops, g.ops[j].from = g.ops[i].from,
               g.ops[j].to = g.ops[i].to, g.ops[j].number = g.ops[i].number
        PROVE  i = j
    <3>1. CASE i \in DOMAIN h.ops /\ j \in DOMAIN h.ops
      <4>1. j \in OnChannel(h, h.ops[i].from, h.ops[i].to) /\ h.ops[j].number = h.ops[i].number
        BY <3>1, <2>3, <1>9 DEF OnChannel
      <4>2. QED  BY <4>1, <3>1 DEF HostInv, Numbered
    <3>2. ASSUME NEW l \in DOMAIN h.ops, h.ops[l].from = from, h.ops[l].to = to
          PROVE  h.ops[l].number # Count(h, from, to) + 1
      <4>1. h.ops[l].number \in 1..Count(h, h.ops[l].from, h.ops[l].to)
        BY <3>2 DEF HostInv, Numbered
      <4>2. h.ops[l].number \in 1..Count(h, from, to)
        BY <4>1, <3>2
      <4>3. QED  BY <4>2, <1>2
    <3>3. CASE i = n /\ j \in DOMAIN h.ops
      <4>1. h.ops[j].from = from /\ h.ops[j].to = to /\ h.ops[j].number = Count(h, from, to) + 1
        BY <3>3, <2>3, <1>7, <1>9
      <4>2. QED  BY <4>1, <3>2, <3>3
    <3>4. CASE j = n /\ i \in DOMAIN h.ops
      <4>1. h.ops[i].from = from /\ h.ops[i].to = to /\ h.ops[i].number = Count(h, from, to) + 1
        BY <3>4, <2>3, <1>7, <1>9
      <4>2. QED  BY <4>1, <3>2, <3>4
    <3>5. QED  BY <3>1, <3>3, <3>4, <1>9
  <2>4. QED  BY <2>2, <2>3 DEF Numbered, OnChannel
<1>15. \A t, m : Enqueued(g, t, m) <=> Enqueued(h, t, m)
  BY <1>6 DEF Enqueued
<1>16. SentAfter(s, g)
  <2>1. ASSUME NEW i \in DOMAIN g.ops, g.ops[i].from = s
        PROVE  /\ g.ops[i].what[1] = "activation" =>
                    Enqueued(g, P!Forward(g.ops[i].what[2]), g.groups[g.ops[i].group])
               /\ g.ops[i].what[1] = "gradient" =>
                    Enqueued(g, P!Backward(g.ops[i].what[2]), g.groups[g.ops[i].group])
    <3>1. CASE i = n
      BY <2>1, <3>1, <1>6, <1>7, <1>9, <1>15
    <3>2. CASE i \in DOMAIN h.ops
      BY <2>1, <3>2, <1>6, <1>9, <1>15 DEF HostInv, SentAfter
    <3>3. QED  BY <3>1, <3>2, <1>9
  <2>2. QED  BY <2>1 DEF SentAfter
<1>17. \A a, b, m : Comes(h, a, b, m) => Comes(g, a, b, m)
  BY <1>9 DEF Comes
<1>18. FedFirst(s, g)
  BY <1>6, <1>15, <1>17 DEF HostInv, FedFirst
<1>19. Comes(g, to, what, Len(g.groups))
  <2>1. n \in DOMAIN g.ops /\ g.ops[n].to = to /\ g.ops[n].what = what
    BY <1>7, <1>9
  <2>2. g.ops[n].group <= Len(g.groups)
    BY <1>6, <1>7, <1>9, <1>10
  <2>3. QED  BY <2>1, <2>2 DEF Comes
<1>20. HostInv(s, g)
  BY <1>5, <1>11, <1>14, <1>16, <1>18 DEF HostInv
<1>21. QED  BY <1>6, <1>8, <1>13, <1>19, <1>20 DEF g

-----------------------------------------------------------------------------
(* A kernel *)

\* A kernel is enqueued behind the end of the group that is open.
LEMMA KernelDoes ==
  ASSUME NEW s, NEW h, HostInv(s, h), NEW t \in TaskSet,
         t.type = "forward" =>
           /\ s # 0 => h.continuous /\ Comes(h, s, <<"activation", t.micro_batch>>, Len(h.groups))
           /\ job.shared /\ s = Last /\ s # 0 => Comes(h, s, <<"weight", 0>>, Len(h.groups)),
         t.type = "backward" =>
           /\ s # Last => h.continuous /\ Comes(h, s, <<"gradient", t.micro_batch>>, Len(h.groups))
           /\ Enqueued(h, P!Forward(t.micro_batch), Len(h.kernels))
  PROVE  LET g == P!RunKernel(h, t)
         IN  /\ HostInv(s, g) /\ Grown(h, g) /\ ~g.continuous /\ g.ops = h.ops
             /\ Len(g.kernels) = Len(h.kernels) + 1 /\ g.kernels[Len(g.kernels)].task = t
<1>. DEFINE c == P!Closed(h)
            k == [task |-> t, after |-> c.synced]
            n == Len(h.kernels) + 1
            g == P!RunKernel(h, t)
<1>1. /\ HostInv(s, c) /\ Grown(h, c) /\ ~c.continuous
      /\ c.ops = h.ops /\ c.kernels = h.kernels /\ c.groups = h.groups
      /\ h.continuous => c.synced = Len(c.groups)
  BY ClosedDoes
<1>2. g = [c EXCEPT !.kernels = Append(@, k)]
  BY DEF P!RunKernel
<1>. HIDE DEF c, g
<1>3. h \in Hosts /\ c \in Hosts /\ Ordered(c)
  BY <1>1 DEF HostInv
<1>4. k \in Kernels /\ k.task = t /\ k.after = c.synced
  BY <1>3, Fields DEF Kernels
<1>. HIDE DEF k
<1>5. g \in Hosts
  <2>1. Append(c.kernels, k) \in Seq(Kernels)
    BY <1>3, <1>4, Fields
  <2>2. QED  BY <1>3, <1>2, <2>1 DEF Hosts
<1>6. /\ g.kernels = Append(h.kernels, k) /\ g.ops = h.ops /\ g.groups = h.groups
      /\ g.synced = c.synced /\ ~g.continuous
  BY <1>1, <1>2, <1>3 DEF Hosts
<1>7. /\ DOMAIN g.kernels = 1..n /\ g.kernels[n] = k /\ n \in Nat /\ Len(g.kernels) = n
      /\ \A i \in DOMAIN h.kernels : g.kernels[i] = h.kernels[i]
      /\ DOMAIN h.kernels = 1..(n - 1) /\ DOMAIN g.kernels = DOMAIN h.kernels \cup {n}
  <2>1. h.kernels \in Seq(Kernels) /\ Len(h.kernels) \in Nat /\ DOMAIN h.kernels = 1..Len(h.kernels)
    BY <1>3, Fields
  <2>2. /\ Len(g.kernels) = n /\ g.kernels[n] = k
        /\ \A i \in DOMAIN h.kernels : g.kernels[i] = h.kernels[i]
    BY <1>6, <2>1
  <2>3. DOMAIN g.kernels = 1..n
    BY <1>5, <2>2, Fields
  <2>4. QED  BY <2>1, <2>2, <2>3
<1>8. Ordered(g)
  <2>1. \A i \in DOMAIN g.kernels : g.kernels[i].after <= g.synced
    <3>1. TAKE i \in DOMAIN g.kernels
    <3>2. CASE i = n
      BY <3>2, <1>3, <1>4, <1>6, <1>7, Fields
    <3>3. CASE i \in DOMAIN h.kernels
      BY <3>3, <1>1, <1>3, <1>6, <1>7 DEF Ordered
    <3>4. QED  BY <3>2, <3>3, <1>7
  <2>2. \A i \in DOMAIN g.groups : g.groups[i] <= Len(g.kernels)
    <3>1. TAKE i \in DOMAIN g.groups
    <3>2. c.groups[i] \in Nat
      BY <1>1, <1>3, <1>6, Fields
    <3>3. c.groups[i] <= Len(c.kernels)
      BY <1>1, <1>3, <1>6 DEF Ordered
    <3>4. QED  BY <3>2, <3>3, <1>1, <1>6, <1>7
  <2>3. g.synced <= Len(g.groups) /\ \A i \in DOMAIN g.ops : g.ops[i].group \in DOMAIN g.groups
    BY <1>1, <1>3, <1>6 DEF Ordered
  <2>4. QED  BY <1>6, <2>1, <2>2, <2>3 DEF Ordered
<1>9. \A a, b : Count(g, a, b) = Count(h, a, b) /\ OnChannel(g, a, b) = OnChannel(h, a, b)
  BY <1>6 DEF Count, OnChannel
<1>10. Numbered(g)
  <2>1. Numbered(h)
    BY DEF HostInv
  <2>2. g.ops = h.ops
    BY <1>6
  <2>3. ASSUME NEW i \in DOMAIN g.ops
        PROVE  /\ g.ops[i].from \in P!Stages /\ g.ops[i].to \in P!Stages
               /\ g.ops[i].what = Nth(<<g.ops[i].from, g.ops[i].to>>, g.ops[i].number)
               /\ g.ops[i].number \in 1..Count(g, g.ops[i].from, g.ops[i].to)
               /\ \A j \in OnChannel(g, g.ops[i].from, g.ops[i].to) :
                    g.ops[j].number = g.ops[i].number => i = j
    <3>. DEFINE x == h.ops[i].from
                y == h.ops[i].to
    <3>1. i \in DOMAIN h.ops /\ g.ops[i] = h.ops[i]
      BY <2>2
    <3>2. /\ x \in P!Stages /\ y \in P!Stages /\ h.ops[i].what = Nth(<<x, y>>, h.ops[i].number)
          /\ h.ops[i].number \in 1..Count(h, x, y)
          /\ \A j \in OnChannel(h, x, y) : h.ops[j].number = h.ops[i].number => i = j
      BY <2>1, <3>1 DEF Numbered
    <3>3. Count(g, x, y) = Count(h, x, y) /\ OnChannel(g, x, y) = OnChannel(h, x, y)
      BY <1>9
    <3>4. \A j \in OnChannel(g, x, y) : g.ops[j].number = g.ops[i].number => i = j
      BY <3>1, <3>2, <3>3, <2>2
    <3>5. QED  BY <3>1, <3>2, <3>3, <3>4
  <2>4. QED  BY <2>3 DEF Numbered
<1>11. \A x : \A m \in Int : m <= Len(h.kernels) => (Enqueued(h, x, m) <=> Enqueued(g, x, m))
  <2>1. TAKE x
  <2>. TAKE m \in Int
  <2>2. ASSUME m <= Len(h.kernels), NEW i \in 1..m  PROVE  g.kernels[i] = h.kernels[i]
    <3>1. Len(h.kernels) \in Nat
      BY <1>3, Fields
    <3>2. i \in 1..Len(h.kernels)
      BY <2>2, <3>1
    <3>3. QED  BY <3>2, <1>7
  <2>3. QED  BY <2>2 DEF Enqueued
<1>12. SentAfter(s, g)
  <2>1. ASSUME NEW i \in DOMAIN h.ops, h.ops[i].from = s
        PROVE  /\ h.ops[i].what[1] = "activation" =>
                    Enqueued(g, P!Forward(h.ops[i].what[2]), h.groups[h.ops[i].group])
               /\ h.ops[i].what[1] = "gradient" =>
                    Enqueued(g, P!Backward(h.ops[i].what[2]), h.groups[h.ops[i].group])
    <3>1. h.ops[i].group \in DOMAIN h.groups
      BY <1>1, <1>3 DEF Ordered
    <3>2. h.groups[h.ops[i].group] <= Len(h.kernels) /\ h.groups[h.ops[i].group] \in Int
      BY <3>1, <1>1, <1>3, Fields DEF Ordered
    <3>3. QED  BY <2>1, <3>2, <1>11 DEF HostInv, SentAfter
  <2>2. QED  BY <2>1, <1>6 DEF SentAfter
<1>13. FedFirst(s, g)
  <2>1. \A what, m : Comes(h, s, what, m) <=> Comes(g, s, what, m)
    BY <1>6 DEF Comes
  <2>2. ASSUME NEW i \in DOMAIN h.kernels
        PROVE LET x == g.kernels[i].task
                  fed(what) == Comes(g, s, what, g.kernels[i].after)
              IN  /\ x.type = "forward" =>
                       /\ s # 0 => fed(<<"activation", x.micro_batch>>)
                       /\ job.shared /\ s = Last /\ s # 0 => fed(<<"weight", 0>>)
                  /\ x.type = "backward" =>
                       /\ s # Last => fed(<<"gradient", x.micro_batch>>)
                       /\ Enqueued(g, P!Forward(x.micro_batch), i - 1)
    <3>1. g.kernels[i] = h.kernels[i]
      BY <1>7, <2>2
    <3>2. i - 1 <= Len(h.kernels) /\ i - 1 \in Int
      BY <1>7, <2>2, <1>3, Fields
    <3>3. QED  BY <3>1, <3>2, <2>1, <2>2, <1>11 DEF HostInv, FedFirst
  <2>3. \A what : h.continuous /\ Comes(h, s, what, Len(h.groups)) => Comes(g, s, what, k.after)
    BY <1>1, <1>4, <2>1
  <2>4. t.type = "forward" => /\ s # 0 => Comes(g, s, <<"activation", t.micro_batch>>, k.after)
                              /\ job.shared /\ s = Last /\ s # 0 => Comes(g, s, <<"weight", 0>>, k.after)
    BY <2>3
  <2>5. t.type = "backward" => /\ s # Last => Comes(g, s, <<"gradient", t.micro_batch>>, k.after)
                               /\ Enqueued(g, P!Forward(t.micro_batch), n - 1)
    <3>1. n - 1 = Len(h.kernels) /\ Len(h.kernels) \in Int
      BY <1>3, Fields
    <3>2. QED  BY <3>1, <2>3, <1>11
  <2>6. QED  BY <2>2, <2>4, <2>5, <1>4, <1>7 DEF FedFirst
<1>14. HostInv(s, g)
  BY <1>5, <1>8, <1>10, <1>12, <1>13 DEF HostInv
<1>15. Grown(h, g)
  <2>1. Extends(h.ops, g.ops) /\ Extends(h.groups, g.groups) /\ Extends(h.kernels, g.kernels)
    BY <1>3, <1>6, <1>7, Fields DEF Extends
  <2>2. h.synced <= g.synced
    BY <1>1, <1>6 DEF Grown
  <2>3. \A a, b \in Nat : Count(h, a, b) \in Nat
    BY <1>3, CountTyped
  <2>4. QED  BY <2>1, <2>2, <2>3, <1>6, <1>9 DEF Grown
<1>16. QED  BY <1>4, <1>6, <1>7, <1>14, <1>15 DEF g

JobOK == /\ job.num_stages \in Nat \ {0} /\ job.num_micro_batches \in Nat \ {0}
         /\ job.is_inference \in BOOLEAN /\ job.shared \in BOOLEAN

-----------------------------------------------------------------------------
(* The exchanges of a task *)

\* What has been received by a group enqueued stays so,
LEMMA ComesOn ==
  ASSUME NEW h \in Hosts, NEW g \in Hosts, Grown(h, g), NEW s, NEW what,
         Ordered(h), Comes(h, s, what, Len(h.groups))
  PROVE  Comes(g, s, what, Len(g.groups))
<1>1. PICK i \in DOMAIN h.ops : h.ops[i].to = s /\ h.ops[i].what = what
                               /\ h.ops[i].group <= Len(h.groups)
  BY DEF Comes
<1>2. i \in DOMAIN g.ops /\ g.ops[i] = h.ops[i]
  <2>1. Extends(h.ops, g.ops)
    BY DEF Grown
  <2>2. /\ DOMAIN h.ops = 1..Len(h.ops) /\ DOMAIN g.ops = 1..Len(g.ops)
        /\ Len(h.ops) \in Nat /\ Len(g.ops) \in Nat
    BY Fields
  <2>3. QED  BY <2>1, <2>2 DEF Extends
<1>3. h.ops[i].group \in Nat /\ Len(h.groups) \in Nat /\ Len(g.groups) \in Nat
  BY Fields, OpFields
<1>4. Len(h.groups) <= Len(g.groups)
  BY DEF Grown, Extends
<1>5. QED  BY <1>1, <1>2, <1>3, <1>4 DEF Comes

\* and so does a kernel.
LEMMA EnqueuedOn ==
  ASSUME NEW h \in Hosts, NEW g \in Hosts, Grown(h, g), NEW x,
         Enqueued(h, x, Len(h.kernels))
  PROVE  Enqueued(g, x, Len(g.kernels))
<1>1. PICK k \in 1..Len(h.kernels) : h.kernels[k].task = x
  BY DEF Enqueued
<1>2. k \in 1..Len(g.kernels) /\ g.kernels[k] = h.kernels[k]
  BY Fields DEF Grown, Extends
<1>3. QED  BY <1>1, <1>2 DEF Enqueued

\* A receive joins the open group; a send comes behind the kernels enqueued.
LEMMA P2PDoes ==
  ASSUME NEW s, NEW h, HostInv(s, h), NEW from \in Nat, NEW to \in Nat,
         from \in P!Stages, to \in P!Stages, NEW what,
         what \in {"activation", "gradient", "weight"} \X Nat,
         what = Nth(<<from, to>>, Count(h, from, to) + 1),
         from = s =>
           /\ ~h.continuous
           /\ what[1] = "activation" => Enqueued(h, P!Forward(what[2]), Len(h.kernels))
           /\ what[1] = "gradient" => Enqueued(h, P!Backward(what[2]), Len(h.kernels))
  PROVE  LET g == P!P2P(h, from, to, what)
         IN  /\ HostInv(s, g) /\ Grown(h, g) /\ g.continuous /\ g.kernels = h.kernels
             /\ Comes(g, to, what, Len(g.groups))
             /\ \A a, b : /\ a = from /\ b = to => Count(g, a, b) = Count(h, a, b) + 1
                          /\ ~(a = from /\ b = to) => Count(g, a, b) = Count(h, a, b)
<1>. DEFINE k == IF h.continuous THEN h ELSE P!GroupStart(h)
            g == P!Issue(k, from, to, what)
<1>1. h \in Hosts
  BY DEF HostInv
<1>2. /\ HostInv(s, k) /\ Grown(h, k) /\ k.continuous
      /\ k.ops = h.ops /\ k.kernels = h.kernels
      /\ ~h.continuous => k.groups[Len(k.groups)] = Len(h.kernels)
  <2>1. CASE h.continuous
    <3>1. Grown(h, h)
      <4>1. Extends(h.groups, h.groups) /\ h.synced <= h.synced
        BY <1>1, Fields DEF Extends
      <4>2. QED  BY <1>1, <4>1, GrownNothing
    <3>2. QED  BY <2>1, <3>1
  <2>2. CASE ~h.continuous
    BY <2>2, StartDoes
  <2>3. QED  BY <2>1, <2>2
<1>3. g = P!P2P(h, from, to, what)
  BY DEF P!P2P
<1>. HIDE DEF k
<1>4. \A a, b : Count(k, a, b) = Count(h, a, b)
  BY <1>2 DEF Count, OnChannel
<1>5. \A x, n : Enqueued(k, x, n) <=> Enqueued(h, x, n)
  BY <1>2 DEF Enqueued
<1>6. /\ from = s /\ what[1] = "activation" =>
           Enqueued(k, P!Forward(what[2]), k.groups[Len(k.groups)])
      /\ from = s /\ what[1] = "gradient" =>
           Enqueued(k, P!Backward(what[2]), k.groups[Len(k.groups)])
  BY <1>2, <1>5
<1>7. /\ HostInv(s, g) /\ Grown(k, g) /\ g.continuous
      /\ g.kernels = k.kernels
      /\ Comes(g, to, what, Len(g.groups))
      /\ \A a, b : /\ a = from /\ b = to => Count(g, a, b) = Count(k, a, b) + 1
                   /\ ~(a = from /\ b = to) => Count(g, a, b) = Count(k, a, b)
  <2>1. what = Nth(<<from, to>>, Count(k, from, to) + 1)
    BY <1>4
  <2>2. QED  BY <1>2, <1>6, <2>1, IssueDoes
<1>8. Grown(h, g)
  BY <1>1, <1>2, <1>7, GrownTwice DEF HostInv
<1>. HIDE DEF g
<1>9. QED  BY <1>2, <1>3, <1>4, <1>7, <1>8

Weight(a, b, f) == IF Weighs(<<a, b>>) /\ f > 0 THEN 1 ELSE 0

\* What a host has issued after f forward and b backward tasks.
Counted(s, h, f, b) ==
  /\ s # Last => Count(h, s, s + 1) = f + Weight(s, s + 1, f) /\ Count(h, s + 1, s) = b
  /\ s # 0 => Count(h, s - 1, s) = f + Weight(s - 1, s, f) /\ Count(h, s, s - 1) = b
  /\ f = 0 => Count(h, 0, Last) = 0

StageInv(s, h, f, b) ==
  /\ HostInv(s, h) /\ Counted(s, h, f, b)
  /\ \A m \in 0..(f - 1) : Enqueued(h, P!Forward(m), Len(h.kernels))
  /\ f > 0 /\ job.shared /\ s = Last /\ s # 0 => Comes(h, s, <<"weight", 0>>, Len(h.groups))

Carries(s, f) == job.shared /\ Last > 0 /\ s \in {0, Last} /\ f = 0

\* The shared weight goes first, before the task of micro batch 0.
LEMMA SharedDoes ==
  ASSUME JobOK, NEW s \in P!Stages, NEW h, NEW f \in Nat, NEW b \in Nat, StageInv(s, h, f, b)
  PROVE  LET g == P!SharedP2P(h, s, P!Forward(f))
         IN  /\ HostInv(s, g) /\ Grown(h, g) /\ g.kernels = h.kernels
             /\ Carries(s, f) => Comes(g, Last, <<"weight", 0>>, Len(g.groups))
             /\ \A x, y : /\ Carries(s, f) /\ x = 0 /\ y = Last => Count(g, x, y) = Count(h, x, y) + 1
                          /\ ~(Carries(s, f) /\ x = 0 /\ y = Last) => Count(g, x, y) = Count(h, x, y)
<1>. DEFINE g == P!SharedP2P(h, s, P!Forward(f))
            c == P!Closed(h)
            k == P!GroupStart(c)
            i == P!Issue(k, 0, Last, <<"weight", 0>>)
            Result(q) ==
              /\ HostInv(s, q) /\ Grown(h, q) /\ q.kernels = h.kernels
              /\ Carries(s, f) => Comes(q, Last, <<"weight", 0>>, Len(q.groups))
              /\ \A x, y : /\ Carries(s, f) /\ x = 0 /\ y = Last => Count(q, x, y) = Count(h, x, y) + 1
                           /\ ~(Carries(s, f) /\ x = 0 /\ y = Last) => Count(q, x, y) = Count(h, x, y)
<1>1. Carries(s, f) <=> job.shared /\ Last > 0 /\ s \in {0, Last} /\ P!Forward(f) = P!Forward(0)
  BY DEF Carries, P!Forward
<1>2. h \in Hosts /\ Last \in Nat /\ 0 \in P!Stages /\ Last \in P!Stages
  BY DEF StageInv, HostInv, JobOK, Last, P!Stages
<1>3. ASSUME ~Carries(s, f)  PROVE Result(g)
  <2>1. g = h
    BY <1>1, <1>3 DEF P!SharedP2P, Last
  <2>2. Extends(h.groups, h.groups) /\ h.synced <= h.synced
    BY <1>2, Fields DEF Extends
  <2>3. Grown(h, h)
    BY <1>2, <2>2, GrownNothing
  <2>4. HostInv(s, h)
    BY DEF StageInv
  <2>. HIDE DEF g
  <2>5. QED  BY <1>3, <2>1, <2>3, <2>4
<1>4. ASSUME Carries(s, f)  PROVE Result(g)
  <2>1. g = [i EXCEPT !.continuous = FALSE]
    BY <1>1, <1>4 DEF P!SharedP2P, Last
  <2>2. /\ HostInv(s, c) /\ Grown(h, c) /\ ~c.continuous
        /\ c.ops = h.ops /\ c.kernels = h.kernels
    BY ClosedDoes DEF StageInv
  <2>. HIDE DEF c
  <2>3. /\ HostInv(s, k) /\ Grown(c, k) /\ k.continuous
        /\ k.ops = c.ops /\ k.kernels = c.kernels
    BY <2>2, StartDoes
  <2>. HIDE DEF k
  <2>4. \A x, y : Count(k, x, y) = Count(h, x, y)
    BY <2>2, <2>3 DEF Count, OnChannel
  <2>5. <<"weight", 0>> = Nth(<<0, Last>>, Count(k, 0, Last) + 1)
    <3>1. Count(k, 0, Last) = 0
      BY <2>4, <1>4 DEF Carries, StageInv, Counted
    <3>2. QED  BY <3>1, <1>4 DEF Carries, Nth, Weighs
  <2>6. /\ HostInv(s, i) /\ Grown(k, i) /\ i.kernels = k.kernels
        /\ Comes(i, Last, <<"weight", 0>>, Len(i.groups))
        /\ \A x, y : /\ x = 0 /\ y = Last => Count(i, x, y) = Count(k, x, y) + 1
                     /\ ~(x = 0 /\ y = Last) => Count(i, x, y) = Count(k, x, y)
    <3>1. /\ <<"weight", 0>> \in {"activation", "gradient", "weight"} \X Nat
          /\ <<"weight", 0>>[1] # "activation" /\ <<"weight", 0>>[1] # "gradient"
      OBVIOUS
    <3>2. QED  BY <1>2, <2>3, <2>5, <3>1, IssueDoes
  <2>. HIDE DEF i
  <2>7. i \in Hosts /\ Ordered(i)
    BY <2>6 DEF HostInv
  <2>8. /\ g \in Hosts /\ g.ops = i.ops /\ g.kernels = i.kernels /\ g.groups = i.groups
        /\ g.synced = i.synced /\ ~g.continuous
    BY <2>1, <2>7 DEF Hosts
  <2>9. Ordered(g)
    BY <2>7, <2>8 DEF Ordered
  <2>10. Extends(i.groups, g.groups) /\ i.synced <= g.synced
    BY <2>7, <2>8, Fields DEF Extends
  <2>. HIDE DEF g
  <2>11. HostInv(s, g) /\ Grown(i, g)
    BY <2>6, <2>7, <2>8, <2>9, <2>10, SameOps
  <2>12. Grown(h, g)
    <3>1. c \in Hosts /\ k \in Hosts
      BY <2>2, <2>3 DEF HostInv
    <3>2. Grown(h, k)
      BY <3>1, <1>2, <2>2, <2>3, GrownTwice
    <3>3. Grown(h, i)
      BY <3>1, <3>2, <1>2, <2>6, <2>7, GrownTwice
    <3>4. QED  BY <3>3, <1>2, <2>7, <2>8, <2>11, GrownTwice
  <2>13. Comes(g, Last, <<"weight", 0>>, Len(g.groups))
    BY <2>6, <2>8 DEF Comes
  <2>14. \A x, y : Count(g, x, y) = Count(i, x, y)
    BY <2>8 DEF Count, OnChannel
  <2>15. g.kernels = h.kernels
    BY <2>2, <2>3, <2>6, <2>8
  <2>16. QED  BY <1>4, <2>4, <2>6, <2>11, <2>12, <2>13, <2>14, <2>15
<1>5. Result(g)
  BY <1>3, <1>4
<1>6. QED  BY <1>5

Shift(a, b) == IF Weighs(<<a, b>>) THEN 1 ELSE 0

-----------------------------------------------------------------------------
(* A task *)

\* The next of a channel carries what the task at either end makes it carry.
LEMMA NthIs ==
  ASSUME NEW a \in Nat, NEW c \in Nat, c = a + 1, NEW n \in Nat
  PROVE  /\ Nth(<<a, c>>, n + Shift(a, c) + 1) = <<"activation", n>>
         /\ Nth(<<c, a>>, n + 1) = <<"gradient", n>>
<1>1. Nth(<<a, c>>, n + Shift(a, c) + 1) = <<"activation", n>>
  <2>1. CASE Weighs(<<a, c>>)
    BY <2>1 DEF Nth, Shift
  <2>2. CASE ~Weighs(<<a, c>>)
    BY <2>2 DEF Nth, Shift
  <2>3. QED  BY <2>1, <2>2
<1>2. ~Weighs(<<c, a>>)
  BY DEF Weighs
<1>3. Nth(<<c, a>>, n + 1) = <<"gradient", n>>
  BY <1>2 DEF Nth
<1>4. QED  BY <1>1, <1>3

\* What is received at s, and what is sent from it, by a task of either kind.
LEMMA ExchangeIs ==
  ASSUME JobOK, NEW s \in P!Stages, NEW h, NEW m \in Nat
  PROVE  /\ s \in Nat /\ Last \in Nat /\ s <= Last
         /\ s # 0 => s - 1 \in P!Stages
         /\ s # Last => s + 1 \in P!Stages
         /\ P!Forward(m) \in TaskSet /\ P!Backward(m) \in TaskSet
         /\ P!Exchange(h, P!Before(s, P!Forward(m)), s, P!Forward(m)) =
              IF s # 0 THEN P!P2P(h, s - 1, s, <<"activation", m>>) ELSE h
         /\ P!Exchange(h, s, P!Behind(s, P!Forward(m)), P!Forward(m)) =
              IF s # Last THEN P!P2P(h, s, s + 1, <<"activation", m>>) ELSE h
         /\ P!Exchange(h, P!Before(s, P!Backward(m)), s, P!Backward(m)) =
              IF s # Last THEN P!P2P(h, s + 1, s, <<"gradient", m>>) ELSE h
         /\ P!Exchange(h, s, P!Behind(s, P!Backward(m)), P!Backward(m)) =
              IF s # 0 THEN P!P2P(h, s, s - 1, <<"gradient", m>>) ELSE h
<1>1. s \in Nat /\ Last \in Nat /\ s <= Last /\ P!Stages = 0..Last
  BY DEF JobOK, P!Stages, Last
<1>2. /\ P!Forward(m).type = "forward" /\ P!Backward(m).type = "backward"
      /\ P!Forward(m).micro_batch = m /\ P!Backward(m).micro_batch = m
      /\ P!Forward(m) \in TaskSet /\ P!Backward(m) \in TaskSet
  BY DEF P!Forward, P!Backward, TaskSet
<1>3. /\ P!Before(s, P!Forward(m)) = s - 1 /\ P!Behind(s, P!Forward(m)) = s + 1
      /\ P!Before(s, P!Backward(m)) = s + 1 /\ P!Behind(s, P!Backward(m)) = s - 1
  BY <1>2 DEF P!Before, P!Behind
<1>4. P!Data(P!Forward(m)) = <<"activation", m>> /\ P!Data(P!Backward(m)) = <<"gradient", m>>
  BY <1>2 DEF P!Data
<1>5. /\ {s - 1, s} \subseteq P!Stages <=> s # 0
      /\ {s, s - 1} \subseteq P!Stages <=> s # 0
      /\ {s, s + 1} \subseteq P!Stages <=> s # Last
      /\ {s + 1, s} \subseteq P!Stages <=> s # Last
  BY <1>1
<1>6. QED  BY <1>1, <1>2, <1>3, <1>4, <1>5 DEF P!Exchange

\* A forward task leaves one activation more on either side.
LEMMA ForwardKeeps ==
  ASSUME JobOK, NEW s \in P!Stages, NEW h, NEW f \in Nat, NEW b \in Nat, StageInv(s, h, f, b)
  PROVE  LET t == P!Forward(f)
             weighed == P!SharedP2P(h, s, t)
             fed == P!Exchange(weighed, P!Before(s, t), s, t)
             run == P!RunKernel(fed, t)
             g == P!Exchange(run, s, P!Behind(s, t), t)
         IN  StageInv(s, g, f + 1, b) /\ Grown(h, g)
<1>. DEFINE t == P!Forward(f)
            weighed == P!SharedP2P(h, s, t)
            fed == P!Exchange(weighed, P!Before(s, t), s, t)
            run == P!RunKernel(fed, t)
            g == P!Exchange(run, s, P!Behind(s, t), t)
<1>1. /\ s \in Nat /\ Last \in Nat /\ s <= Last /\ t \in TaskSet
      /\ s # 0 => s - 1 \in P!Stages
      /\ s # Last => s + 1 \in P!Stages
      /\ fed = IF s # 0 THEN P!P2P(weighed, s - 1, s, <<"activation", f>>) ELSE weighed
      /\ g = IF s # Last THEN P!P2P(run, s, s + 1, <<"activation", f>>) ELSE run
  BY ExchangeIs
<1>2. t.type = "forward" /\ t.micro_batch = f
  BY DEF P!Forward
<1>3. h \in Hosts
  BY DEF StageInv, HostInv
<1>4. /\ HostInv(s, weighed) /\ Grown(h, weighed) /\ weighed.kernels = h.kernels
      /\ Carries(s, f) => Comes(weighed, Last, <<"weight", 0>>, Len(weighed.groups))
      /\ \A x, y : /\ Carries(s, f) /\ x = 0 /\ y = Last => Count(weighed, x, y) = Count(h, x, y) + 1
                   /\ ~(Carries(s, f) /\ x = 0 /\ y = Last) => Count(weighed, x, y) = Count(h, x, y)
  BY SharedDoes
<1>. HIDE DEF weighed
<1>5. /\ s # 0 => Count(weighed, s - 1, s) = f + Shift(s - 1, s) /\ Count(weighed, s, s - 1) = b
      /\ s # Last => Count(weighed, s, s + 1) = f + Shift(s, s + 1) /\ Count(weighed, s + 1, s) = b
  <2>1. ASSUME s # 0  PROVE Count(weighed, s - 1, s) = f + Shift(s - 1, s)
    <3>1. Count(h, s - 1, s) = f + Weight(s - 1, s, f)
      BY <2>1 DEF StageInv, Counted
    <3>2. CASE Carries(s, f) /\ s - 1 = 0 /\ s = Last
      BY <3>1, <3>2, <1>1, <1>4 DEF Carries, Weight, Weighs, Shift
    <3>3. CASE ~(Carries(s, f) /\ s - 1 = 0 /\ s = Last)
      <4>1. Count(weighed, s - 1, s) = Count(h, s - 1, s)
        BY <3>3, <1>4
      <4>2. Weighs(<<s - 1, s>>) => f > 0
        BY <3>3, <1>1 DEF Carries, Weighs
      <4>3. QED  BY <3>1, <4>1, <4>2 DEF Weight, Shift
    <3>4. QED  BY <3>2, <3>3
  <2>2. ASSUME s # Last  PROVE Count(weighed, s, s + 1) = f + Shift(s, s + 1)
    <3>1. Count(h, s, s + 1) = f + Weight(s, s + 1, f)
      BY <2>2 DEF StageInv, Counted
    <3>2. CASE Carries(s, f) /\ s = 0 /\ s + 1 = Last
      BY <3>1, <3>2, <1>1, <1>4 DEF Carries, Weight, Weighs, Shift
    <3>3. CASE ~(Carries(s, f) /\ s = 0 /\ s + 1 = Last)
      <4>1. Count(weighed, s, s + 1) = Count(h, s, s + 1)
        BY <3>3, <1>4
      <4>2. Weighs(<<s, s + 1>>) => f > 0
        BY <3>3, <1>1 DEF Carries, Weighs
      <4>3. QED  BY <3>1, <4>1, <4>2 DEF Weight, Shift
    <3>4. QED  BY <3>2, <3>3
  <2>3. s # 0 => Count(weighed, s, s - 1) = b
    <3>1. ASSUME s # 0  PROVE Count(weighed, s, s - 1) = Count(h, s, s - 1)
      BY <3>1, <1>4
    <3>2. QED  BY <3>1 DEF StageInv, Counted
  <2>4. s # Last => Count(weighed, s + 1, s) = b
    <3>1. ~(s + 1 = 0)
      BY <1>1
    <3>2. Count(weighed, s + 1, s) = Count(h, s + 1, s)
      BY <3>1, <1>4
    <3>3. QED  BY <3>2 DEF StageInv, Counted
  <2>5. QED  BY <2>1, <2>2, <2>3, <2>4
<1>6. \A m \in Nat : <<"activation", m>> \in {"activation", "gradient", "weight"} \X Nat
  OBVIOUS
<1>7. /\ HostInv(s, fed) /\ Grown(weighed, fed) /\ fed.kernels = h.kernels
      /\ s # 0 => fed.continuous /\ Comes(fed, s, <<"activation", f>>, Len(fed.groups))
      /\ s # 0 => Count(fed, s - 1, s) = f + 1 + Shift(s - 1, s) /\ Count(fed, s, s - 1) = b
      /\ s # Last => Count(fed, s, s + 1) = f + Shift(s, s + 1) /\ Count(fed, s + 1, s) = b
  <2>1. CASE s = 0
    <3>1. fed = weighed
      BY <1>1, <2>1
    <3>2. weighed \in Hosts
      BY <1>4 DEF HostInv
    <3>3. Extends(weighed.groups, weighed.groups) /\ weighed.synced <= weighed.synced
      BY <3>2, Fields DEF Extends
    <3>4. Grown(weighed, weighed)
      BY <3>2, <3>3, GrownNothing
    <3>. HIDE DEF fed
    <3>5. QED  BY <2>1, <3>1, <3>4, <1>4, <1>5
  <2>2. CASE s # 0
    <3>. DEFINE q == P!P2P(weighed, s - 1, s, <<"activation", f>>)
    <3>1. fed = q
      BY <1>1, <2>2
    <3>2. <<"activation", f>> = Nth(<<s - 1, s>>, Count(weighed, s - 1, s) + 1)
      <4>1. s - 1 \in Nat /\ (s - 1) + 1 = s
        BY <1>1, <2>2
      <4>2. Nth(<<s - 1, s>>, f + Shift(s - 1, s) + 1) = <<"activation", f>>
        BY <4>1, <1>1, NthIs
      <4>3. QED  BY <4>2, <1>5, <2>2
    <3>3. /\ HostInv(s, q) /\ Grown(weighed, q) /\ q.continuous /\ q.kernels = weighed.kernels
          /\ Comes(q, s, <<"activation", f>>, Len(q.groups))
          /\ \A x, y : /\ x = s - 1 /\ y = s => Count(q, x, y) = Count(weighed, x, y) + 1
                       /\ ~(x = s - 1 /\ y = s) => Count(q, x, y) = Count(weighed, x, y)
      <4>1. s - 1 \in Nat /\ s - 1 # s /\ s - 1 \in P!Stages
        BY <1>1, <2>2
      <4>2. QED  BY <3>2, <4>1, <1>1, <1>4, <1>6, P2PDoes
    <3>. HIDE DEF q, fed
    <3>4. Count(q, s - 1, s) = f + 1 + Shift(s - 1, s)
      <4>1. Shift(s - 1, s) \in Nat
        BY DEF Shift
      <4>2. Count(q, s - 1, s) = Count(weighed, s - 1, s) + 1
        BY <3>3
      <4>3. Count(weighed, s - 1, s) = f + Shift(s - 1, s)
        BY <1>5, <2>2
      <4>4. QED  BY <4>1, <4>2, <4>3
    <3>5. s # s - 1 /\ s + 1 # s
      BY <1>1
    <3>6. /\ Count(q, s, s - 1) = Count(weighed, s, s - 1)
          /\ Count(q, s, s + 1) = Count(weighed, s, s + 1)
          /\ Count(q, s + 1, s) = Count(weighed, s + 1, s)
      <4>1. Count(q, s, s - 1) = Count(weighed, s, s - 1)
        BY <3>3, <3>5
      <4>2. Count(q, s, s + 1) = Count(weighed, s, s + 1)
        BY <3>3, <3>5
      <4>3. Count(q, s + 1, s) = Count(weighed, s + 1, s)
        <5>1. s + 1 # s - 1
          BY <1>1
        <5>2. QED  BY <3>3, <5>1
      <4>4. QED  BY <4>1, <4>2, <4>3
    <3>7. QED  BY <3>1, <3>3, <3>4, <3>6, <1>4, <1>5, <2>2
  <2>3. QED  BY <2>1, <2>2
<1>. HIDE DEF fed
<1>8. weighed \in Hosts /\ fed \in Hosts /\ Ordered(h) /\ Ordered(weighed) /\ Ordered(fed)
  BY <1>4, <1>7 DEF HostInv, StageInv
<1>9. job.shared /\ s = Last /\ s # 0 => Comes(fed, s, <<"weight", 0>>, Len(fed.groups))
  <2>1. ASSUME job.shared, s = Last, s # 0
        PROVE  Comes(weighed, s, <<"weight", 0>>, Len(weighed.groups))
    <3>1. CASE f = 0
      BY <2>1, <3>1, <1>1, <1>4 DEF Carries
    <3>2. CASE f > 0
      BY <2>1, <3>2, <1>3, <1>4, <1>8, ComesOn DEF StageInv
    <3>3. QED  BY <3>1, <3>2
  <2>2. QED  BY <2>1, <1>7, <1>8, ComesOn
<1>10. /\ HostInv(s, run) /\ Grown(fed, run) /\ ~run.continuous /\ run.ops = fed.ops
       /\ Len(run.kernels) = Len(fed.kernels) + 1 /\ run.kernels[Len(run.kernels)].task = t
  <2>1. t.type = "forward" =>
          /\ s # 0 => fed.continuous /\ Comes(fed, s, <<"activation", t.micro_batch>>, Len(fed.groups))
          /\ job.shared /\ s = Last /\ s # 0 => Comes(fed, s, <<"weight", 0>>, Len(fed.groups))
    BY <1>2, <1>7, <1>9
  <2>2. t.type = "backward" =>
          /\ s # Last => fed.continuous /\ Comes(fed, s, <<"gradient", t.micro_batch>>, Len(fed.groups))
          /\ Enqueued(fed, P!Forward(t.micro_batch), Len(fed.kernels))
    BY <1>2
  <2>3. HostInv(s, fed) /\ t \in TaskSet
    BY <1>1, <1>7
  <2>. HIDE DEF t
  <2>4. QED  BY <2>1, <2>2, <2>3, KernelDoes
<1>. HIDE DEF run
<1>11. run \in Hosts /\ Ordered(run)
  BY <1>10 DEF HostInv
<1>12. \A x, y : Count(run, x, y) = Count(fed, x, y)
  BY <1>10 DEF Count, OnChannel
<1>13. Enqueued(run, t, Len(run.kernels))
  <2>1. Len(run.kernels) \in 1..Len(run.kernels)
    BY <1>10, <1>8, Fields
  <2>2. QED  BY <2>1, <1>10 DEF Enqueued
<1>14. /\ HostInv(s, g) /\ Grown(run, g) /\ g.kernels = run.kernels
       /\ s # 0 => Count(g, s - 1, s) = f + 1 + Shift(s - 1, s) /\ Count(g, s, s - 1) = b
       /\ s # Last => Count(g, s, s + 1) = f + 1 + Shift(s, s + 1) /\ Count(g, s + 1, s) = b
  <2>1. CASE s = Last
    <3>1. g = run
      BY <1>1, <2>1
    <3>2. Extends(run.groups, run.groups) /\ run.synced <= run.synced
      BY <1>11, Fields DEF Extends
    <3>3. Grown(run, run)
      BY <1>11, <3>2, GrownNothing
    <3>. HIDE DEF g
    <3>4. QED  BY <2>1, <3>1, <3>3, <1>7, <1>10, <1>12
  <2>2. CASE s # Last
    <3>. DEFINE q == P!P2P(run, s, s + 1, <<"activation", f>>)
    <3>1. g = q
      BY <1>1, <2>2
    <3>2. <<"activation", f>> = Nth(<<s, s + 1>>, Count(run, s, s + 1) + 1)
      <4>1. Nth(<<s, s + 1>>, f + Shift(s, s + 1) + 1) = <<"activation", f>>
        <5>1. s + 1 \in Nat
          BY <1>1
        <5>2. QED  BY <5>1, <1>1, NthIs
      <4>2. QED  BY <4>1, <1>7, <1>12, <2>2
    <3>3. /\ HostInv(s, q) /\ Grown(run, q) /\ q.kernels = run.kernels
          /\ \A x, y : /\ x = s /\ y = s + 1 => Count(q, x, y) = Count(run, x, y) + 1
                       /\ ~(x = s /\ y = s + 1) => Count(q, x, y) = Count(run, x, y)
      <4>1. /\ <<"activation", f>>[1] # "gradient" /\ <<"activation", f>>[2] = f
            /\ s + 1 \in Nat /\ s + 1 \in P!Stages
        BY <1>1, <2>2
      <4>2. QED  BY <3>2, <4>1, <1>1, <1>6, <1>10, <1>13, P2PDoes
    <3>. HIDE DEF q, g
    <3>4. Count(q, s, s + 1) = f + 1 + Shift(s, s + 1)
      <4>1. Shift(s, s + 1) \in Nat
        BY DEF Shift
      <4>2. Count(q, s, s + 1) = Count(run, s, s + 1) + 1
        BY <3>3
      <4>3. Count(run, s, s + 1) = f + Shift(s, s + 1)
        BY <1>7, <1>12, <2>2
      <4>4. QED  BY <4>1, <4>2, <4>3
    <3>5. s # s - 1 /\ s + 1 # s
      BY <1>1
    <3>6. /\ Count(q, s, s - 1) = Count(fed, s, s - 1)
          /\ Count(q, s - 1, s) = Count(fed, s - 1, s)
          /\ Count(q, s + 1, s) = Count(fed, s + 1, s)
      <4>1. Count(q, s, s - 1) = Count(fed, s, s - 1)
        <5>1. s - 1 # s + 1
          BY <1>1
        <5>2. QED  BY <3>3, <5>1, <1>12
      <4>2. Count(q, s - 1, s) = Count(fed, s - 1, s)
        BY <3>3, <3>5, <1>12
      <4>3. Count(q, s + 1, s) = Count(fed, s + 1, s)
        BY <3>3, <3>5, <1>12
      <4>4. QED  BY <4>1, <4>2, <4>3
    <3>7. QED  BY <3>1, <3>3, <3>4, <3>6, <1>7, <2>2
  <2>3. QED  BY <2>1, <2>2
<1>. HIDE DEF g
<1>15. g \in Hosts
  BY <1>14 DEF HostInv
<1>16. Grown(h, fed)
  BY <1>3, <1>4, <1>7, <1>8, GrownTwice
<1>17. Grown(h, run)
  BY <1>3, <1>8, <1>10, <1>11, <1>16, GrownTwice
<1>18. Grown(h, g)
  BY <1>3, <1>11, <1>14, <1>15, <1>17, GrownTwice
<1>19. Counted(s, g, f + 1, b)
  <2>1. \A x, y : Weight(x, y, f + 1) = Shift(x, y)
    BY DEF Weight, Shift
  <2>2. f + 1 # 0
    OBVIOUS
  <2>3. QED  BY <1>14, <2>1, <2>2 DEF Counted
<1>20. \A m \in 0..(f + 1 - 1) : Enqueued(g, P!Forward(m), Len(g.kernels))
  <2>1. TAKE m \in 0..(f + 1 - 1)
  <2>2. CASE m = f
    BY <2>2, <1>13, <1>14 DEF Enqueued
  <2>3. CASE m # f
    <3>1. m \in 0..(f - 1)
      BY <2>3
    <3>2. Enqueued(h, P!Forward(m), Len(h.kernels))
      BY <3>1 DEF StageInv
    <3>3. QED  BY <3>2, <1>3, <1>15, <1>18, EnqueuedOn
  <2>4. QED  BY <2>2, <2>3
<1>21. job.shared /\ s = Last /\ s # 0 => Comes(g, s, <<"weight", 0>>, Len(g.groups))
  <2>1. Grown(fed, g)
    BY <1>8, <1>10, <1>11, <1>14, <1>15, GrownTwice
  <2>2. QED  BY <2>1, <1>8, <1>9, <1>15, ComesOn
<1>22. StageInv(s, g, f + 1, b)
  BY <1>14, <1>19, <1>20, <1>21 DEF StageInv
<1>23. QED  BY <1>18, <1>22 DEF g, run, fed, weighed

\* Nothing enqueued is nothing lost.
LEMMA GrownSelf ==
  ASSUME NEW h \in Hosts  PROVE Grown(h, h)
<1>1. Extends(h.groups, h.groups) /\ h.synced <= h.synced
  BY Fields DEF Extends
<1>2. QED  BY <1>1, GrownNothing

\* A backward task leaves one gradient more on either side.
LEMMA BackwardKeeps ==
  ASSUME JobOK, NEW s \in P!Stages, NEW h, NEW f \in Nat, NEW b \in Nat, b < f,
         StageInv(s, h, f, b)
  PROVE  LET t == P!Backward(b)
             weighed == P!SharedP2P(h, s, t)
             fed == P!Exchange(weighed, P!Before(s, t), s, t)
             run == P!RunKernel(fed, t)
             g == P!Exchange(run, s, P!Behind(s, t), t)
         IN  StageInv(s, g, f, b + 1) /\ Grown(h, g)
<1>. DEFINE t == P!Backward(b)
            weighed == P!SharedP2P(h, s, t)
            fed == P!Exchange(weighed, P!Before(s, t), s, t)
            run == P!RunKernel(fed, t)
            g == P!Exchange(run, s, P!Behind(s, t), t)
<1>0. weighed = h
  <2>1. t # P!Forward(0)
    BY DEF P!Backward, P!Forward
  <2>2. QED  BY <2>1 DEF P!SharedP2P
<1>1. /\ s \in Nat /\ Last \in Nat /\ s <= Last /\ t \in TaskSet
      /\ s # 0 => s - 1 \in P!Stages
      /\ s # Last => s + 1 \in P!Stages
      /\ fed = IF s # Last THEN P!P2P(h, s + 1, s, <<"gradient", b>>) ELSE h
      /\ g = IF s # 0 THEN P!P2P(run, s, s - 1, <<"gradient", b>>) ELSE run
  <2>. HIDE DEF weighed
  <2>1. /\ s \in Nat /\ Last \in Nat /\ s <= Last /\ t \in TaskSet
        /\ s # 0 => s - 1 \in P!Stages
        /\ s # Last => s + 1 \in P!Stages
        /\ fed = IF s # Last THEN P!P2P(weighed, s + 1, s, <<"gradient", b>>) ELSE weighed
        /\ g = IF s # 0 THEN P!P2P(run, s, s - 1, <<"gradient", b>>) ELSE run
    BY ExchangeIs
  <2>2. QED  BY <2>1, <1>0
<1>. HIDE DEF weighed
<1>2. t.type = "backward" /\ t.micro_batch = b
  BY DEF P!Backward
<1>3. h \in Hosts /\ HostInv(s, h)
  BY DEF StageInv, HostInv
<1>5. /\ s # 0 => Count(h, s - 1, s) = f + Weight(s - 1, s, f) /\ Count(h, s, s - 1) = b
      /\ s # Last => Count(h, s, s + 1) = f + Weight(s, s + 1, f) /\ Count(h, s + 1, s) = b
  BY DEF StageInv, Counted
<1>6. <<"gradient", b>> \in {"activation", "gradient", "weight"} \X Nat
  OBVIOUS
<1>7. /\ HostInv(s, fed) /\ Grown(h, fed) /\ fed.kernels = h.kernels
      /\ s # Last => fed.continuous /\ Comes(fed, s, <<"gradient", b>>, Len(fed.groups))
      /\ s # 0 => Count(fed, s - 1, s) = f + Weight(s - 1, s, f) /\ Count(fed, s, s - 1) = b
      /\ s # Last => Count(fed, s, s + 1) = f + Weight(s, s + 1, f) /\ Count(fed, s + 1, s) = b + 1
      /\ Count(fed, 0, Last) = Count(h, 0, Last)
  <2>1. CASE s = Last
    <3>1. fed = h
      BY <1>1, <2>1
    <3>2. Grown(h, h)
      BY <1>3, GrownSelf
    <3>. HIDE DEF fed
    <3>3. QED  BY <2>1, <3>1, <3>2, <1>3, <1>5
  <2>2. CASE s # Last
    <3>. DEFINE q == P!P2P(h, s + 1, s, <<"gradient", b>>)
    <3>1. fed = q
      BY <1>1, <2>2
    <3>2. <<"gradient", b>> = Nth(<<s + 1, s>>, Count(h, s + 1, s) + 1)
      <4>1. s + 1 \in Nat
        BY <1>1
      <4>2. Nth(<<s + 1, s>>, b + 1) = <<"gradient", b>>
        BY <4>1, <1>1, NthIs
      <4>3. QED  BY <4>2, <1>5, <2>2
    <3>3. /\ HostInv(s, q) /\ Grown(h, q) /\ q.continuous /\ q.kernels = h.kernels
          /\ Comes(q, s, <<"gradient", b>>, Len(q.groups))
          /\ \A x, y : /\ x = s + 1 /\ y = s => Count(q, x, y) = Count(h, x, y) + 1
                       /\ ~(x = s + 1 /\ y = s) => Count(q, x, y) = Count(h, x, y)
      <4>1. s + 1 \in Nat /\ s + 1 # s /\ s + 1 \in P!Stages
        BY <1>1, <2>2
      <4>2. QED  BY <3>2, <4>1, <1>1, <1>3, <1>6, P2PDoes
    <3>. HIDE DEF q, fed
    <3>4. Count(q, s + 1, s) = b + 1
      BY <3>3, <1>5, <2>2
    <3>5. s # s - 1 /\ s + 1 # s /\ s + 1 # s - 1 /\ s + 1 # 0
      BY <1>1
    <3>6. Count(q, s, s - 1) = Count(h, s, s - 1)
      BY <3>3, <3>5
    <3>7. Count(q, s, s + 1) = Count(h, s, s + 1)
      BY <3>3, <3>5
    <3>8. Count(q, s - 1, s) = Count(h, s - 1, s)
      BY <3>3, <3>5
    <3>9. Count(q, 0, Last) = Count(h, 0, Last)
      BY <3>3, <3>5
    <3>10. QED  BY <3>1, <3>3, <3>4, <3>6, <3>7, <3>8, <3>9, <1>5, <2>2
  <2>3. QED  BY <2>1, <2>2
<1>. HIDE DEF fed
<1>8. fed \in Hosts /\ Ordered(h) /\ Ordered(fed)
  BY <1>3, <1>7 DEF HostInv, StageInv
<1>9. Enqueued(fed, P!Forward(b), Len(fed.kernels))
  <2>1. b \in 0..(f - 1)
    OBVIOUS
  <2>2. Enqueued(h, P!Forward(b), Len(h.kernels))
    BY <2>1 DEF StageInv
  <2>3. QED  BY <2>2, <1>3, <1>7, <1>8, EnqueuedOn
<1>10. /\ HostInv(s, run) /\ Grown(fed, run) /\ ~run.continuous /\ run.ops = fed.ops
       /\ Len(run.kernels) = Len(fed.kernels) + 1 /\ run.kernels[Len(run.kernels)].task = t
  <2>1. t.type = "forward" =>
          /\ s # 0 => fed.continuous /\ Comes(fed, s, <<"activation", t.micro_batch>>, Len(fed.groups))
          /\ job.shared /\ s = Last /\ s # 0 => Comes(fed, s, <<"weight", 0>>, Len(fed.groups))
    BY <1>2
  <2>2. t.type = "backward" =>
          /\ s # Last => fed.continuous /\ Comes(fed, s, <<"gradient", t.micro_batch>>, Len(fed.groups))
          /\ Enqueued(fed, P!Forward(t.micro_batch), Len(fed.kernels))
    BY <1>2, <1>7, <1>9
  <2>3. HostInv(s, fed) /\ t \in TaskSet
    BY <1>1, <1>7
  <2>. HIDE DEF t
  <2>4. QED  BY <2>1, <2>2, <2>3, KernelDoes
<1>. HIDE DEF run
<1>11. run \in Hosts /\ Ordered(run)
  BY <1>10 DEF HostInv
<1>12. \A x, y : Count(run, x, y) = Count(fed, x, y)
  BY <1>10 DEF Count, OnChannel
<1>13. Enqueued(run, t, Len(run.kernels))
  <2>1. Len(run.kernels) \in 1..Len(run.kernels)
    BY <1>10, <1>8, Fields
  <2>2. QED  BY <2>1, <1>10 DEF Enqueued
<1>14. /\ HostInv(s, g) /\ Grown(run, g) /\ g.kernels = run.kernels
       /\ s # 0 => Count(g, s - 1, s) = f + Weight(s - 1, s, f) /\ Count(g, s, s - 1) = b + 1
       /\ s # Last => Count(g, s, s + 1) = f + Weight(s, s + 1, f) /\ Count(g, s + 1, s) = b + 1
  <2>1. CASE s = 0
    <3>1. g = run
      BY <1>1, <2>1
    <3>2. Grown(run, run)
      BY <1>11, GrownSelf
    <3>. HIDE DEF g
    <3>4. QED  BY <2>1, <3>1, <3>2, <1>7, <1>10, <1>12
  <2>2. CASE s # 0
    <3>. DEFINE q == P!P2P(run, s, s - 1, <<"gradient", b>>)
    <3>1. g = q
      BY <1>1, <2>2
    <3>2. <<"gradient", b>> = Nth(<<s, s - 1>>, Count(run, s, s - 1) + 1)
      <4>1. s - 1 \in Nat /\ s = (s - 1) + 1
        BY <1>1, <2>2
      <4>2. Nth(<<s, s - 1>>, b + 1) = <<"gradient", b>>
        BY <4>1, <1>1, NthIs
      <4>3. QED  BY <4>2, <1>7, <1>12, <2>2
    <3>3. /\ HostInv(s, q) /\ Grown(run, q) /\ q.kernels = run.kernels
          /\ \A x, y : /\ x = s /\ y = s - 1 => Count(q, x, y) = Count(run, x, y) + 1
                       /\ ~(x = s /\ y = s - 1) => Count(q, x, y) = Count(run, x, y)
      <4>1. /\ <<"gradient", b>>[1] # "activation" /\ <<"gradient", b>>[2] = b
            /\ s - 1 \in Nat /\ s - 1 \in P!Stages
        BY <1>1, <2>2
      <4>2. QED  BY <3>2, <4>1, <1>1, <1>6, <1>10, <1>13, P2PDoes
    <3>. HIDE DEF q, g
    <3>4. Count(q, s, s - 1) = b + 1
      BY <3>3, <1>7, <1>12, <2>2
    <3>5. s # s - 1 /\ s + 1 # s /\ s - 1 # s + 1
      BY <1>1
    <3>6. Count(q, s, s + 1) = Count(fed, s, s + 1)
      BY <3>3, <3>5, <1>12
    <3>7. Count(q, s - 1, s) = Count(fed, s - 1, s)
      BY <3>3, <3>5, <1>12
    <3>8. Count(q, s + 1, s) = Count(fed, s + 1, s)
      BY <3>3, <3>5, <1>12
    <3>9. QED  BY <3>1, <3>3, <3>4, <3>6, <3>7, <3>8, <1>7, <2>2
  <2>3. QED  BY <2>1, <2>2
<1>. HIDE DEF g
<1>15. g \in Hosts
  BY <1>14 DEF HostInv
<1>17. Grown(h, run)
  BY <1>3, <1>7, <1>8, <1>10, <1>11, GrownTwice
<1>18. Grown(h, g)
  BY <1>3, <1>11, <1>14, <1>15, <1>17, GrownTwice
<1>19. Counted(s, g, f, b + 1)
  BY <1>14 DEF Counted
<1>20. \A m \in 0..(f - 1) : Enqueued(g, P!Forward(m), Len(g.kernels))
  BY <1>3, <1>15, <1>18, EnqueuedOn DEF StageInv
<1>21. f > 0 /\ job.shared /\ s = Last /\ s # 0 => Comes(g, s, <<"weight", 0>>, Len(g.groups))
  BY <1>3, <1>8, <1>15, <1>18, ComesOn DEF StageInv
<1>22. StageInv(s, g, f, b + 1)
  BY <1>14, <1>19, <1>20, <1>21 DEF StageInv
<1>23. QED  BY <1>18, <1>22 DEF g, run, fed, weighed

\* What changes no transfer and no kernel.
LEMMA QuietKeeps ==
  ASSUME NEW s, NEW h, NEW g, NEW f \in Nat, NEW b, StageInv(s, h, f, b),
         HostInv(s, g), Grown(h, g), g.ops = h.ops, g.kernels = h.kernels
  PROVE  StageInv(s, g, f, b)
<1>1. h \in Hosts /\ g \in Hosts /\ Ordered(h)
  BY DEF StageInv, HostInv
<1>2. \A x, y : Count(g, x, y) = Count(h, x, y)
  BY DEF Count, OnChannel
<1>3. Counted(s, g, f, b)
  BY <1>2 DEF StageInv, Counted
<1>4. \A m \in 0..(f - 1) : Enqueued(g, P!Forward(m), Len(g.kernels))
  BY <1>1, EnqueuedOn DEF StageInv
<1>5. f > 0 /\ job.shared /\ s = Last /\ s # 0 => Comes(g, s, <<"weight", 0>>, Len(g.groups))
  BY <1>1, ComesOn DEF StageInv
<1>6. QED  BY <1>3, <1>4, <1>5 DEF StageInv

-----------------------------------------------------------------------------
(* GeneratePipedreamFlushSchedule *)

\* The forward and backward tasks before place p of a stage's list.
ForwardBefore(s, p) ==
  LET w == P!Warmup(s) r == P!Remaining(s)
  IN  IF job.is_inference
      THEN IF p <= job.num_micro_batches THEN p - 1 ELSE job.num_micro_batches
      ELSE IF p <= w THEN p - 1
      ELSE IF p <= w + 2 * r THEN w + ((p - w) \div 2) ELSE w + r

BackwardBefore(s, p) ==
  LET w == P!Warmup(s) r == P!Remaining(s) x == IF r = 0 THEN 1 ELSE 0
  IN  IF job.is_inference \/ p <= w THEN 0
      ELSE IF p <= w + 2 * r THEN (p - w - 1) \div 2
      ELSE IF p <= w + 2 * r + x THEN 0
      ELSE IF p <= w + 2 * r + x + w THEN r + p - (w + 2 * r + x) - 1 ELSE r + w

\* The forward tasks before the first backward one, and those after.
LEMMA WarmupIs ==
  ASSUME JobOK, NEW s \in P!Stages
  PROVE  /\ P!Warmup(s) \in Nat /\ P!Remaining(s) \in Nat
         /\ job.num_micro_batches = P!Warmup(s) + P!Remaining(s)
<1>1. s \in Nat /\ job.num_stages - s - 1 \in Nat /\ job.num_micro_batches \in Nat
  BY DEF JobOK, P!Stages
<1>2. \A a, b \in Nat : P!Min({a, b}) \in Nat /\ P!Min({a, b}) <= a
  <2>1. TAKE a, b \in Nat
  <2>2. P!Min({a, b}) = CHOOSE x \in {a, b} : \A y \in {a, b} : x <= y
    BY DEF P!Min
  <2>3. \E x \in {a, b} : \A y \in {a, b} : x <= y
    BY <2>1
  <2>4. P!Min({a, b}) \in {a, b} /\ \A y \in {a, b} : P!Min({a, b}) <= y
    BY <2>2, <2>3
  <2>5. QED  BY <2>4
<1>3. P!Warmup(s) \in Nat /\ P!Warmup(s) <= job.num_micro_batches
  BY <1>1, <1>2 DEF P!Warmup
<1>4. QED  BY <1>1, <1>3 DEF P!Remaining

AnyTask == [type : {"forward", "backward", "bubble"}, micro_batch : Nat]

\* The four parts of the list: warm-up, one forward and one backward each, a
\* bubble if nothing was left for that, and the backward tasks of the warm-up.
LEMMA TasksAre ==
  ASSUME JobOK, NEW s \in P!Stages, ~job.is_inference
  PROVE  LET w == P!Warmup(s) r == P!Remaining(s) x == IF r = 0 THEN 1 ELSE 0
             tasks == P!Tasks(s)
         IN  /\ tasks \in Seq(AnyTask) /\ Len(tasks) = w + 2 * r + x + w
             /\ \A i \in 1..w : tasks[i] = P!Forward(i - 1)
             /\ \A i \in 1..(2 * r) : tasks[w + i] = IF i % 2 = 1 THEN P!Forward(w + (i \div 2))
                                                    ELSE P!Backward((i \div 2) - 1)
             /\ \A i \in 1..x : tasks[w + 2 * r + i] = P!Bubble
             /\ \A i \in 1..w : tasks[w + 2 * r + x + i] = P!Backward(r + i - 1)
<1>. DEFINE w == P!Warmup(s)
            r == P!Remaining(s)
            x == IF r = 0 THEN 1 ELSE 0
            t1 == [i \in 1..w |-> P!Forward(i - 1)]
            t2 == [i \in 1..(2 * r) |-> IF i % 2 = 1 THEN P!Forward(w + (i \div 2))
                                        ELSE P!Backward((i \div 2) - 1)]
            t3 == IF r = 0 THEN <<P!Bubble>> ELSE << >>
            t4 == [i \in 1..w |-> P!Backward(r + i - 1)]
            tasks == P!Tasks(s)
<1>1. w \in Nat /\ r \in Nat
  BY WarmupIs
<1>2. tasks = t1 \o t2 \o t3 \o t4
  BY DEF P!Tasks
<1>. HIDE DEF tasks
<1>3. \A m \in Nat : /\ P!Forward(m) \in AnyTask /\ P!Backward(m) \in AnyTask
                     /\ P!Bubble \in AnyTask
  BY DEF P!Forward, P!Backward, P!Bubble, AnyTask
<1>. HIDE DEF w, r
<1>4. t1 \in Seq(AnyTask) /\ Len(t1) = w
  <2>1. \A i \in 1..w : i - 1 \in Nat
    BY <1>1
  <2>2. \A i \in 1..w : P!Forward(i - 1) \in AnyTask
    BY <2>1, <1>3
  <2>3. QED  BY <2>2, <1>1
<1>5. t2 \in Seq(AnyTask) /\ Len(t2) = 2 * r
  <2>1. ASSUME NEW i \in 1..(2 * r)
        PROVE  (IF i % 2 = 1 THEN P!Forward(w + (i \div 2)) ELSE P!Backward((i \div 2) - 1)) \in AnyTask
    <3>1. w + (i \div 2) \in Nat
      BY <1>1
    <3>2. i % 2 # 1 => (i \div 2) - 1 \in Nat
      BY <1>1
    <3>3. QED  BY <3>1, <3>2, <1>3
  <2>2. 2 * r \in Nat
    BY <1>1
  <2>. DEFINE n == 2 * r
              e(i) == IF i % 2 = 1 THEN P!Forward(w + (i \div 2)) ELSE P!Backward((i \div 2) - 1)
  <2>3. n \in Nat /\ t2 = [i \in 1..n |-> e(i)] /\ \A i \in 1..n : e(i) \in AnyTask
    BY <2>1, <2>2
  <2>. HIDE DEF n, e, t2
  <2>4. t2 \in Seq(AnyTask) /\ Len(t2) = n
    BY <2>3
  <2>5. QED  BY <2>4 DEF n
<1>6. t3 \in Seq(AnyTask) /\ Len(t3) = x /\ \A i \in 1..x : t3[i] = P!Bubble
  BY <1>3
<1>7. t4 \in Seq(AnyTask) /\ Len(t4) = w
  <2>1. \A i \in 1..w : r + i - 1 \in Nat
    BY <1>1
  <2>2. \A i \in 1..w : P!Backward(r + i - 1) \in AnyTask
    BY <2>1, <1>3
  <2>3. QED  BY <2>2, <1>1
<1>8. x \in Nat
  OBVIOUS
<1>9. /\ \A i \in 1..w : t1[i] = P!Forward(i - 1)
      /\ \A i \in 1..(2 * r) : t2[i] = IF i % 2 = 1 THEN P!Forward(w + (i \div 2))
                                      ELSE P!Backward((i \div 2) - 1)
      /\ \A i \in 1..w : t4[i] = P!Backward(r + i - 1)
  OBVIOUS
<1>. HIDE DEF t1, t2, t3, t4, x
<1>. DEFINE n == 2 * r
<1>10. n \in Nat
  BY <1>1
<1>11. Len(t2) = n
  BY <1>5
<1>. HIDE DEF n
<1>12. /\ tasks \in Seq(AnyTask) /\ Len(tasks) = w + n + x + w
       /\ \A i \in 1..w : tasks[i] = t1[i]
       /\ \A i \in 1..n : tasks[w + i] = t2[i]
       /\ \A i \in 1..x : tasks[w + n + i] = t3[i]
       /\ \A i \in 1..w : tasks[w + n + x + i] = t4[i]
  <2>. DEFINE a == t1 \o t2
              c == a \o t3
  <2>1. /\ a \in Seq(AnyTask) /\ Len(a) = w + n
        /\ \A i \in 1..w : a[i] = t1[i]
        /\ \A i \in 1..n : a[w + i] = t2[i]
    <3>2. a \in Seq(AnyTask) /\ Len(a) = w + n
      BY <1>1, <1>4, <1>5, <1>10, <1>11
    <3>3. \A i \in 1..w : a[i] = t1[i]
      BY <1>1, <1>4, <1>5, <1>10, <1>11
    <3>4. \A i \in 1..n : a[w + i] = t2[i]
      BY <1>1, <1>4, <1>5, <1>10, <1>11
    <3>5. QED  BY <3>2, <3>3, <3>4
  <2>2. w + n \in Nat /\ w + n + x \in Nat
    BY <1>1, <1>8, <1>10
  <2>3. tasks = c \o t4
    BY <1>2
  <2>. HIDE DEF a
  <2>4. /\ c \in Seq(AnyTask) /\ Len(c) = w + n + x
        /\ \A i \in 1..(w + n) : c[i] = a[i]
        /\ \A i \in 1..x : c[w + n + i] = t3[i]
    <3>. DEFINE z == w + n
    <3>2. z \in Nat /\ Len(a) = z
      BY <2>1, <2>2
    <3>. HIDE DEF z
    <3>3. c \in Seq(AnyTask) /\ Len(c) = z + x
      BY <3>2, <2>1, <1>6, <1>8
    <3>4. \A i \in 1..z : c[i] = a[i]
      BY <3>2, <2>1, <1>6, <1>8
    <3>5. \A i \in 1..x : c[z + i] = t3[i]
      BY <3>2, <2>1, <1>6, <1>8
    <3>6. QED  BY <3>3, <3>4, <3>5 DEF z
  <2>. HIDE DEF c
  <2>5. /\ tasks \in Seq(AnyTask) /\ Len(tasks) = w + n + x + w
        /\ \A i \in 1..(w + n + x) : tasks[i] = c[i]
        /\ \A i \in 1..w : tasks[w + n + x + i] = t4[i]
    <3>. DEFINE y == w + n + x
    <3>1. y \in Nat /\ Len(c) = y
      BY <2>2, <2>4
    <3>. HIDE DEF y
    <3>. DEFINE d == c \o t4
    <3>2. d \in Seq(AnyTask) /\ Len(d) = y + w
      BY <3>1, <2>4, <1>1, <1>7
    <3>3. \A i \in 1..y : d[i] = c[i]
      BY <3>1, <2>4, <1>1, <1>7
    <3>4. \A i \in 1..w : d[y + i] = t4[i]
      BY <3>1, <2>4, <1>1, <1>7
    <3>. HIDE DEF d
    <3>5. tasks = d
      BY <2>3 DEF d
    <3>6. QED  BY <3>2, <3>3, <3>4, <3>5 DEF y
  <2>10. \A i \in 1..w : tasks[i] = t1[i]
    <3>1. TAKE i \in 1..w
    <3>2. i \in 1..(w + n) /\ i \in 1..(w + n + x)
      BY <1>1, <1>8, <1>10
    <3>3. QED  BY <3>2, <2>1, <2>4, <2>5
  <2>11. \A i \in 1..n : tasks[w + i] = t2[i]
    <3>1. TAKE i \in 1..n
    <3>2. w + i \in 1..(w + n) /\ w + i \in 1..(w + n + x)
      BY <1>1, <1>8, <1>10
    <3>3. QED  BY <3>2, <2>1, <2>4, <2>5
  <2>12. \A i \in 1..x : tasks[w + n + i] = t3[i]
    <3>1. TAKE i \in 1..x
    <3>2. w + n + i \in 1..(w + n + x)
      BY <1>1, <1>8, <1>10
    <3>3. QED  BY <3>2, <2>4, <2>5
  <2>13. QED  BY <2>5, <2>10, <2>11, <2>12
<1>13. QED  BY <1>6, <1>9, <1>12 DEF n, w, r, x, tasks

\* Each task is the next of its kind, and a backward one follows its forward one.
LEMMA Schedule ==
  ASSUME JobOK, NEW s \in P!Stages, NEW p \in 1..Len(P!Tasks(s))
  PROVE  LET t == P!Tasks(s)[p] f == ForwardBefore(s, p) b == BackwardBefore(s, p)
         IN  /\ f \in Nat /\ b \in Nat
             /\ \/ /\ t = P!Forward(f)
                   /\ ForwardBefore(s, p + 1) = f + 1 /\ BackwardBefore(s, p + 1) = b
                \/ /\ t = P!Backward(b) /\ b < f
                   /\ ForwardBefore(s, p + 1) = f /\ BackwardBefore(s, p + 1) = b + 1
                \/ /\ t = P!Bubble
                   /\ ForwardBefore(s, p + 1) = f /\ BackwardBefore(s, p + 1) = b
<1>. DEFINE w == P!Warmup(s)
            r == P!Remaining(s)
            x == IF r = 0 THEN 1 ELSE 0
            M == job.num_micro_batches
            t == P!Tasks(s)[p]
            f == ForwardBefore(s, p)
            b == BackwardBefore(s, p)
<1>1. w \in Nat /\ r \in Nat /\ M = w + r
  BY WarmupIs
<1>2. CASE job.is_inference
  <2>1. P!Tasks(s) = [i \in 1..M |-> P!Forward(i - 1)] /\ M \in Nat
    BY <1>1, <1>2 DEF P!Tasks
  <2>. HIDE DEF M
  <2>2. p \in 1..M
    BY <2>1
  <2>3. f = p - 1 /\ ForwardBefore(s, p + 1) = p
    BY <1>2, <2>1, <2>2 DEF ForwardBefore, M
  <2>4. b = 0 /\ BackwardBefore(s, p + 1) = 0
    BY <1>2 DEF BackwardBefore
  <2>5. t = P!Forward(p - 1)
    BY <2>1, <2>2
  <2>6. QED  BY <2>2, <2>3, <2>4, <2>5
<1>3. CASE ~job.is_inference
  <2>. DEFINE n == 2 * r
  <2>1. /\ Len(P!Tasks(s)) = w + n + x + w
        /\ \A i \in 1..w : P!Tasks(s)[i] = P!Forward(i - 1)
        /\ \A i \in 1..n : P!Tasks(s)[w + i] = IF i % 2 = 1 THEN P!Forward(w + (i \div 2))
                                                ELSE P!Backward((i \div 2) - 1)
        /\ \A i \in 1..x : P!Tasks(s)[w + n + i] = P!Bubble
        /\ \A i \in 1..w : P!Tasks(s)[w + n + x + i] = P!Backward(r + i - 1)
    BY <1>3, TasksAre
  <2>2. \A q \in Int : ForwardBefore(s, q) = IF q <= w THEN q - 1
                                     ELSE IF q <= w + n THEN w + ((q - w) \div 2) ELSE w + r
    BY <1>3 DEF ForwardBefore
  <2>3. \A q \in Int : BackwardBefore(s, q) =
          IF q <= w THEN 0
          ELSE IF q <= w + n THEN (q - w - 1) \div 2
          ELSE IF q <= w + n + x THEN 0
          ELSE IF q <= w + n + x + w THEN r + q - (w + n + x) - 1 ELSE r + w
    BY <1>3 DEF BackwardBefore
  <2>. HIDE DEF w, r
  <2>4. w \in Nat /\ r \in Nat /\ p \in 1..(w + n + x + w) /\ p \in Int
    BY <1>1, <2>1
  <2>5. CASE p <= w
    <3>1. t = P!Forward(p - 1) /\ p \in 1..w
      BY <2>1, <2>4, <2>5
    <3>2. f = p - 1 /\ b = 0
      BY <2>2, <2>3, <2>5
    <3>3. ForwardBefore(s, p + 1) = p
      BY <2>2, <2>4, <2>5
    <3>4. BackwardBefore(s, p + 1) = 0
      BY <2>3, <2>4, <2>5
    <3>5. QED  BY <3>1, <3>2, <3>3, <3>4
  <2>6. CASE p > w /\ p <= w + n
    <3>. DEFINE i == p - w
    <3>1. i \in 1..n /\ p = w + i
      BY <2>4, <2>6
    <3>2. f = w + (i \div 2) /\ b = (i - 1) \div 2
      BY <2>2, <2>3, <2>4, <2>6
    <3>3. t = IF i % 2 = 1 THEN P!Forward(w + (i \div 2)) ELSE P!Backward((i \div 2) - 1)
      BY <2>1, <3>1
    <3>4. CASE i % 2 = 1
      <4>1. ForwardBefore(s, p + 1) = f + 1
        <5>1. i + 1 <= n /\ (i + 1) \div 2 = (i \div 2) + 1 /\ p + 1 - w = i + 1
          BY <2>4, <3>1, <3>4
        <5>2. p + 1 \in Int /\ ~(p + 1 <= w) /\ p + 1 <= w + n
          BY <2>4, <3>1, <5>1
        <5>3. ForwardBefore(s, p + 1) = w + ((p + 1 - w) \div 2)
          BY <2>2, <2>4, <5>2
        <5>4. i \div 2 \in Nat
          BY <3>1, <2>4
        <5>. HIDE DEF f
        <5>5. QED  BY <5>1, <5>3, <5>4, <2>4, <3>2
      <4>2. BackwardBefore(s, p + 1) = b
        BY <2>3, <2>4, <3>1, <3>2, <3>4
      <4>3. f \in Nat /\ b \in Nat
        BY <2>4, <3>1, <3>2
      <4>4. QED  BY <3>2, <3>3, <3>4, <4>1, <4>2, <4>3
    <3>5. CASE i % 2 # 1
      <4>1. ForwardBefore(s, p + 1) = f
        <5>1. p + 1 \in Int /\ ~(p + 1 <= w) /\ (p + 1 - w) \div 2 = i \div 2
          BY <2>4, <3>1, <3>5
        <5>2. ~(p + 1 <= w + n) => i \div 2 = r
          BY <2>4, <3>1
        <5>3. ForwardBefore(s, p + 1) = IF p + 1 <= w + n THEN w + ((p + 1 - w) \div 2) ELSE w + r
          BY <2>2, <2>4, <5>1
        <5>. HIDE DEF f
        <5>4. QED  BY <5>1, <5>2, <5>3, <3>2
      <4>2. BackwardBefore(s, p + 1) = b + 1
        BY <2>3, <2>4, <3>1, <3>2, <3>5
      <4>3. f \in Nat /\ b \in Nat /\ b < f /\ b = (i \div 2) - 1
        BY <2>4, <3>1, <3>2, <3>5
      <4>4. QED  BY <3>2, <3>3, <3>5, <4>1, <4>2, <4>3
    <3>6. QED  BY <3>4, <3>5
  <2>7. CASE p > w + n /\ p <= w + n + x
    <3>1. x = 1 /\ r = 0 /\ p = w + n + 1
      BY <2>4, <2>7
    <3>2. t = P!Bubble
      <4>1. 1 \in 1..x
        BY <3>1
      <4>. HIDE DEF n
      <4>2. P!Tasks(s)[w + n + 1] = P!Bubble
        BY <2>1, <4>1
      <4>3. QED  BY <3>1, <4>2
    <3>3. f = w /\ b = 0
      BY <2>2, <2>3, <2>4, <3>1
    <3>4. ForwardBefore(s, p + 1) = w /\ BackwardBefore(s, p + 1) = 0
      BY <2>2, <2>3, <2>4, <3>1
    <3>5. QED  BY <2>4, <3>2, <3>3, <3>4
  <2>8. CASE p > w + n + x
    <3>. DEFINE i == p - (w + n + x)
    <3>1. i \in 1..w /\ p = w + n + x + i
      BY <2>4, <2>8
    <3>2. t = P!Backward(r + i - 1)
      BY <2>1, <3>1
    <3>3. f = w + r /\ b = r + i - 1
      BY <2>2, <2>3, <2>4, <3>1
    <3>4. ForwardBefore(s, p + 1) = w + r
      BY <2>2, <2>4, <3>1
    <3>5. BackwardBefore(s, p + 1) = r + i
      BY <2>3, <2>4, <3>1
    <3>6. QED  BY <2>4, <3>1, <3>2, <3>3, <3>4, <3>5
  <2>9. QED  BY <2>4, <2>5, <2>6, <2>7, <2>8
<1>4. job.is_inference \in BOOLEAN
  BY DEF JobOK
<1>5. QED  BY <1>2, <1>3

\* Nothing comes before the first place and after the last.
LEMMA ScheduleEnds ==
  ASSUME JobOK, NEW s \in P!Stages
  PROVE  /\ Len(P!Tasks(s)) \in Nat
         /\ ForwardBefore(s, 1) = 0 /\ BackwardBefore(s, 1) = 0
         /\ LET n == Len(P!Tasks(s))
            IN  /\ ForwardBefore(s, n + 2) = ForwardBefore(s, n + 1)
                /\ BackwardBefore(s, n + 2) = BackwardBefore(s, n + 1)
                /\ ForwardBefore(s, n + 1) \in Nat /\ BackwardBefore(s, n + 1) \in Nat
<1>. DEFINE w == P!Warmup(s)
            r == P!Remaining(s)
            x == IF r = 0 THEN 1 ELSE 0
            M == job.num_micro_batches
            n == Len(P!Tasks(s))
<1>1. w \in Nat /\ r \in Nat /\ M = w + r /\ M > 0
  BY WarmupIs DEF JobOK
<1>2. CASE job.is_inference
  <2>1. P!Tasks(s) = [i \in 1..M |-> P!Forward(i - 1)] /\ M \in Nat
    BY <1>1, <1>2 DEF P!Tasks
  <2>2. n = M
    BY <2>1
  <2>. HIDE DEF n
  <2>3. QED  BY <1>1, <1>2, <2>1, <2>2 DEF ForwardBefore, BackwardBefore, n
<1>3. CASE ~job.is_inference
  <2>1. n = w + 2 * r + x + w
    BY <1>3, TasksAre
  <2>2. \A q \in Int : ForwardBefore(s, q) = IF q <= w THEN q - 1
                                     ELSE IF q <= w + 2 * r THEN w + ((q - w) \div 2) ELSE w + r
    BY <1>3 DEF ForwardBefore
  <2>3. \A q \in Int : BackwardBefore(s, q) =
          IF q <= w THEN 0
          ELSE IF q <= w + 2 * r THEN (q - w - 1) \div 2
          ELSE IF q <= w + 2 * r + x THEN 0
          ELSE IF q <= w + 2 * r + x + w THEN r + q - (w + 2 * r + x) - 1 ELSE r + w
    BY <1>3 DEF BackwardBefore
  <2>. HIDE DEF w, r, n
  <2>4. n \in Nat
    BY <1>1, <2>1
  <2>5. ForwardBefore(s, 1) = 0
    BY <1>1, <2>2
  <2>6. BackwardBefore(s, 1) = 0
    BY <1>1, <2>3
  <2>7. ForwardBefore(s, n + 2) = w + r /\ ForwardBefore(s, n + 1) = w + r
    BY <1>1, <2>1, <2>2
  <2>8. BackwardBefore(s, n + 2) = r + w
    BY <1>1, <2>1, <2>3
  <2>9. BackwardBefore(s, n + 1) = r + w
    BY <1>1, <2>1, <2>3
  <2>10. QED  BY <1>1, <2>4, <2>5, <2>6, <2>7, <2>8, <2>9 DEF n
<1>4. job.is_inference \in BOOLEAN
  BY DEF JobOK
<1>5. QED  BY <1>2, <1>3

-----------------------------------------------------------------------------
(* The devices *)

\* What depends on the job alone does not change.
LEMMA SameJob ==
  ASSUME job' = job
  PROVE  /\ JobOK' <=> JobOK
         /\ P!Stages' = P!Stages /\ P!Channels' = P!Channels
         /\ \A s, p : /\ ForwardBefore(s, p)' = ForwardBefore(s, p)
                      /\ BackwardBefore(s, p)' = BackwardBefore(s, p)
         /\ \A s, h, f, b : StageInv(s, h, f, b)' <=> StageInv(s, h, f, b)
<1>1. (JobOK' <=> JobOK) /\ P!Stages' = P!Stages /\ P!Channels' = P!Channels /\ Last' = Last
  BY DEF JobOK, P!Stages, P!Channels, Last
<1>2. \A s : P!Warmup(s)' = P!Warmup(s) /\ P!Remaining(s)' = P!Remaining(s)
  BY DEF P!Warmup, P!Remaining
<1>3. \A s, p : /\ ForwardBefore(s, p)' = ForwardBefore(s, p)
                /\ BackwardBefore(s, p)' = BackwardBefore(s, p)
  BY <1>2 DEF ForwardBefore, BackwardBefore
<1>4. \A c : Weighs(c)' <=> Weighs(c)
  BY <1>1 DEF Weighs
<1>5. \A c, n : Nth(c, n)' = Nth(c, n)
  BY <1>4 DEF Nth
<1>6. \A a, b, f : Weight(a, b, f)' = Weight(a, b, f)
  BY <1>4 DEF Weight
<1>7. \A h : Numbered(h)' <=> Numbered(h)
  BY <1>1, <1>5 DEF Numbered
<1>8. \A s, h : FedFirst(s, h)' <=> FedFirst(s, h)
  BY <1>1 DEF FedFirst
<1>9. \A s, h : HostInv(s, h)' <=> HostInv(s, h)
  BY <1>7, <1>8 DEF HostInv, SentAfter
<1>10. \A s, h, f, b : Counted(s, h, f, b)' <=> Counted(s, h, f, b)
  BY <1>1, <1>6 DEF Counted
<1>11. \A s, h, f, b : StageInv(s, h, f, b)' <=> StageInv(s, h, f, b)
  BY <1>1, <1>9, <1>10 DEF StageInv
<1>12. QED  BY <1>1, <1>3, <1>11

Devices ==
  /\ JobOK
  /\ task \in [P!Stages -> Nat \ {0}] /\ host \in [P!Stages -> Hosts]
  /\ computed \in [P!Stages -> Nat] /\ moved \in [P!Channels -> Nat]

\* What a host has enqueued is that of the tasks before its place.
Enqueues ==
  \A s \in P!Stages :
    /\ StageInv(s, host[s], ForwardBefore(s, task[s]), BackwardBefore(s, task[s]))
    /\ computed[s] <= Len(host[s].kernels)

\* A kernel has run behind the groups it waits for.
WaitedFor ==
  \A s \in P!Stages : \A k \in 1..computed[s], i \in DOMAIN host[s].ops :
    host[s].ops[i].group <= host[s].kernels[k].after => P!Moved(host[s].ops[i])

\* Both ends have a transfer that has been made,
Paired ==
  \A c \in P!Channels : \A n \in 1..moved[c] : \A s \in {c[1], c[2]} :
    \E i \in OnChannel(host[s], c[1], c[2]) : host[s].ops[i].number = n

\* and its sender had run the kernels that its group waits for.
ComputedFirst ==
  \A s \in P!Stages : \A i \in DOMAIN host[s].ops :
    LET op == host[s].ops[i]
    IN  op.from = s /\ P!Moved(op) => host[s].groups[op.group] <= computed[s]

DataInv == Devices /\ Enqueues /\ WaitedFor /\ Paired /\ ComputedFirst

\* The host of one stage enqueues more.
LEMMA HostStep ==
  ASSUME DataInv, NEW s \in P!Stages, NEW g, NEW n, n = task[s] + 1,
         StageInv(s, g, ForwardBefore(s, n), BackwardBefore(s, n)), Grown(host[s], g),
         host' = [host EXCEPT ![s] = g], task' = [task EXCEPT ![s] = @ + 1],
         UNCHANGED <<job, computed, moved>>
  PROVE  DataInv'
<1>1. /\ JobOK' <=> JobOK
      /\ P!Stages' = P!Stages /\ P!Channels' = P!Channels
      /\ \A r, p : /\ ForwardBefore(r, p)' = ForwardBefore(r, p)
                   /\ BackwardBefore(r, p)' = BackwardBefore(r, p)
      /\ \A r, h, f, b : StageInv(r, h, f, b)' <=> StageInv(r, h, f, b)
  BY SameJob
<1>2. /\ host \in [P!Stages -> Hosts] /\ task \in [P!Stages -> Nat \ {0}]
      /\ computed \in [P!Stages -> Nat] /\ moved \in [P!Channels -> Nat] /\ JobOK
  BY DEF DataInv, Devices
<1>3. g \in Hosts /\ host[s] \in Hosts
  BY <1>2 DEF StageInv, HostInv
<1>4. /\ host'[s] = g /\ \A r \in P!Stages \ {s} : host'[r] = host[r]
      /\ task'[s] = n /\ \A r \in P!Stages \ {s} : task'[r] = task[r]
  BY <1>2
<1>5. Devices'
  <2>1. n \in Nat \ {0}
    BY <1>2
  <2>2. task' \in [P!Stages -> Nat \ {0}] /\ host' \in [P!Stages -> Hosts]
    BY <1>2, <1>3, <2>1
  <2>3. QED  BY <1>1, <1>2, <2>2 DEF Devices
<1>6. Extends(host[s].ops, g.ops) /\ Extends(host[s].groups, g.groups) /\ Extends(host[s].kernels, g.kernels)
  BY DEF Grown
<1>7. /\ Len(host[s].ops) \in Nat /\ Len(g.ops) \in Nat
      /\ Len(host[s].kernels) \in Nat /\ Len(g.kernels) \in Nat
      /\ DOMAIN host[s].ops = 1..Len(host[s].ops) /\ DOMAIN g.ops = 1..Len(g.ops)
      /\ DOMAIN host[s].kernels = 1..Len(host[s].kernels)
      /\ DOMAIN host[s].groups = 1..Len(host[s].groups)
      /\ Len(host[s].groups) \in Nat /\ host[s].synced \in Nat
  BY <1>3, Fields
<1>8. /\ \A i \in DOMAIN host[s].ops : i \in DOMAIN g.ops /\ g.ops[i] = host[s].ops[i]
      /\ \A k \in DOMAIN host[s].kernels : g.kernels[k] = host[s].kernels[k]
      /\ \A i \in DOMAIN host[s].groups : g.groups[i] = host[s].groups[i]
      /\ Len(host[s].kernels) <= Len(g.kernels)
  BY <1>6, <1>7 DEF Extends
<1>9. computed[s] \in Nat /\ computed[s] <= Len(host[s].kernels) /\ Ordered(host[s])
      /\ Numbered(host[s])
  BY <1>2 DEF DataInv, Enqueues, StageInv, HostInv
<1>10. Enqueues'
  <2>1. ASSUME NEW r \in P!Stages
        PROVE  /\ StageInv(r, host'[r], ForwardBefore(r, task'[r]), BackwardBefore(r, task'[r]))
               /\ computed[r] <= Len(host'[r].kernels)
    <3>1. CASE r = s
      <4>1. computed[s] <= Len(g.kernels)
        BY <1>7, <1>8, <1>9
      <4>2. QED  BY <3>1, <4>1, <1>4
    <3>2. CASE r # s
      BY <3>2, <1>4 DEF DataInv, Enqueues
    <3>3. QED  BY <3>1, <3>2
  <2>2. QED  BY <2>1, <1>1 DEF Enqueues
<1>11. WaitedFor'
  <2>1. ASSUME NEW r \in P!Stages, NEW k \in 1..computed[r], NEW i \in DOMAIN host'[r].ops,
               host'[r].ops[i].group <= host'[r].kernels[k].after
        PROVE  P!Moved(host'[r].ops[i])
    <3>1. CASE r = s
      <4>1. k \in DOMAIN host[s].kernels /\ g.kernels[k] = host[s].kernels[k]
        BY <3>1, <2>1, <1>7, <1>8, <1>9
      <4>2. i \in DOMAIN g.ops /\ g.ops[i].group <= host[s].kernels[k].after
        BY <4>1, <3>1, <2>1, <1>4
      <4>3. host[s].kernels[k].after <= host[s].synced /\ host[s].kernels[k].after \in Nat
        BY <4>1, <1>3, <1>9, KernelFields DEF Ordered
      <4>4. i \in DOMAIN host[s].ops
        <5>1. i \notin DOMAIN host[s].ops => g.ops[i].group > host[s].synced /\ g.ops[i].group \in Nat
          BY <4>2, <1>3, OpFields DEF Grown
        <5>2. QED  BY <5>1, <4>2, <4>3, <1>7
      <4>5. g.ops[i] = host[s].ops[i]
        BY <4>4, <1>8
      <4>6. P!Moved(host[s].ops[i])
        BY <4>2, <4>4, <4>5, <3>1, <2>1 DEF DataInv, WaitedFor
      <4>7. QED  BY <4>5, <4>6, <3>1, <1>4
    <3>2. CASE r # s
      BY <3>2, <2>1, <1>4 DEF DataInv, WaitedFor
    <3>3. QED  BY <3>1, <3>2
  <2>2. \A op : P!Moved(op)' <=> P!Moved(op)
    BY DEF P!Moved
  <2>3. QED  BY <2>1, <2>2, <1>1 DEF WaitedFor
<1>12. Paired'
  <2>1. ASSUME NEW c \in P!Channels, NEW m \in 1..moved[c], NEW r \in {c[1], c[2]}
        PROVE  \E i \in OnChannel(host'[r], c[1], c[2]) : host'[r].ops[i].number = m
    <3>1. r \in P!Stages
      BY DEF P!Channels
    <3>2. PICK i \in OnChannel(host[r], c[1], c[2]) : host[r].ops[i].number = m
      BY DEF DataInv, Paired
    <3>3. CASE r = s
      <4>1. i \in OnChannel(g, c[1], c[2]) /\ g.ops[i].number = m
        BY <3>2, <3>3, <1>8 DEF OnChannel
      <4>2. QED  BY <4>1, <3>3, <1>4
    <3>4. CASE r # s
      BY <3>1, <3>2, <3>4, <1>4
    <3>5. QED  BY <3>3, <3>4
  <2>2. QED  BY <2>1, <1>1 DEF Paired, OnChannel
<1>13. ComputedFirst'
  <2>1. ASSUME NEW r \in P!Stages, NEW i \in DOMAIN host'[r].ops,
               host'[r].ops[i].from = r, P!Moved(host'[r].ops[i])
        PROVE  host'[r].groups[host'[r].ops[i].group] <= computed[r]
    <3>1. CASE r # s
      BY <3>1, <2>1, <1>4 DEF DataInv, ComputedFirst
    <3>2. CASE r = s /\ i \in DOMAIN host[s].ops
      <4>1. g.ops[i] = host[s].ops[i]
        BY <3>2, <1>8
      <4>2. host[s].groups[host[s].ops[i].group] <= computed[s]
        BY <2>1, <3>2, <4>1, <1>4 DEF DataInv, ComputedFirst
      <4>3. host[s].ops[i].group \in DOMAIN host[s].groups
        BY <3>2, <1>9 DEF Ordered
      <4>4. QED  BY <3>2, <4>1, <4>2, <4>3, <1>4, <1>8
    <3>3. CASE r = s /\ i \notin DOMAIN host[s].ops
      <4>. DEFINE op == g.ops[i]
                  c == <<op.from, op.to>>
      <4>1. i \in DOMAIN g.ops /\ op.from = s /\ op.number <= moved[c]
        BY <2>1, <3>3, <1>4 DEF P!Moved
      <4>2. op.to \in P!Stages /\ op.number \in Nat
        BY <4>1, <1>3, OpFields DEF StageInv, HostInv, Numbered
      <4>3. op.number > Count(host[s], op.from, op.to)
        BY <3>3, <4>1 DEF Grown
      <4>4. c \in P!Channels
        BY <4>1, <4>2 DEF P!Channels
      <4>5. moved[c] \in Nat /\ Count(host[s], op.from, op.to) \in Nat
        BY <4>4, <1>2, <1>3, CountTyped
      <4>6. moved[c] \in 1..moved[c] /\ s \in {c[1], c[2]}
        BY <4>1, <4>2, <4>3, <4>5
      <4>7. PICK j \in OnChannel(host[s], op.from, op.to) : host[s].ops[j].number = moved[c]
        BY <4>4, <4>6 DEF DataInv, Paired
      <4>8. host[s].ops[j].number <= Count(host[s], op.from, op.to)
        BY <4>7, <1>9 DEF Numbered, OnChannel
      <4>9. QED  BY <4>1, <4>2, <4>3, <4>5, <4>7, <4>8
    <3>4. QED  BY <3>1, <3>2, <3>3
  <2>2. \A op : P!Moved(op)' <=> P!Moved(op)
    BY DEF P!Moved
  <2>3. QED  BY <2>1, <2>2, <1>1 DEF ComputedFirst
<1>14. QED  BY <1>5, <1>10, <1>11, <1>12, <1>13 DEF DataInv

-----------------------------------------------------------------------------
(* The steps *)

\* The next task of a stage, its operators one after the other.
LEMMA RunTaskKeeps ==
  ASSUME DataInv, NEW s \in P!Stages, P!RunTask(s)
  PROVE  DataInv'
<1>. DEFINE p == task[s]
            t == P!Tasks(s)[p]
            f == ForwardBefore(s, p)
            b == BackwardBefore(s, p)
            h == host[s]
            weighed == P!SharedP2P(h, s, t)
            fed == P!Exchange(weighed, P!Before(s, t), s, t)
            run == P!RunKernel(fed, t)
            sent == P!Exchange(run, s, P!Behind(s, t), t)
            next == IF t.type = "bubble" THEN P!BubbleBetween(h) ELSE sent
<1>1. /\ JobOK /\ p \in Nat \ {0} /\ StageInv(s, h, f, b)
      /\ host \in [P!Stages -> Hosts]
  BY DEF DataInv, Devices, Enqueues
<1>2. /\ p <= Len(P!Tasks(s)) /\ task' = [task EXCEPT ![s] = @ + 1]
      /\ UNCHANGED <<job, computed, moved>>
  BY DEF P!RunTask
<1>3. host' = [host EXCEPT ![s] = next] /\ (t.type = "bubble" => h.continuous)
  <2>1. CASE t.type = "bubble"
    BY <2>1 DEF P!RunTask
  <2>2. CASE t.type # "bubble"
    <3>1. host' = [host EXCEPT ![s] = sent]
      BY <2>2 DEF P!RunTask
    <3>2. QED  BY <2>2, <3>1
  <2>3. QED  BY <2>1, <2>2
<1>4. Len(P!Tasks(s)) \in Nat
  BY <1>1, ScheduleEnds
<1>5. p \in 1..Len(P!Tasks(s))
  BY <1>1, <1>2, <1>4
<1>6. /\ f \in Nat /\ b \in Nat
      /\ \/ /\ t = P!Forward(f)
            /\ ForwardBefore(s, p + 1) = f + 1 /\ BackwardBefore(s, p + 1) = b
         \/ /\ t = P!Backward(b) /\ b < f
            /\ ForwardBefore(s, p + 1) = f /\ BackwardBefore(s, p + 1) = b + 1
         \/ /\ t = P!Bubble
            /\ ForwardBefore(s, p + 1) = f /\ BackwardBefore(s, p + 1) = b
  BY <1>1, <1>5, Schedule
<1>7. StageInv(s, next, ForwardBefore(s, p + 1), BackwardBefore(s, p + 1)) /\ Grown(h, next)
  <2>1. CASE t = P!Forward(f) /\ ForwardBefore(s, p + 1) = f + 1 /\ BackwardBefore(s, p + 1) = b
    <3>1. t.type = "forward"
      BY <2>1 DEF P!Forward
    <3>2. StageInv(s, sent, f + 1, b) /\ Grown(h, sent)
      <4>. HIDE DEF f, b, h
      <4>1. t = P!Forward(f)
        BY <2>1
      <4>. HIDE DEF t
      <4>2. QED  BY <4>1, <1>1, <1>6, ForwardKeeps
    <3>3. next = sent
      BY <3>1
    <3>. HIDE DEF next, sent, f, b
    <3>4. QED  BY <2>1, <3>2, <3>3
  <2>2. CASE /\ t = P!Backward(b) /\ b < f
             /\ ForwardBefore(s, p + 1) = f /\ BackwardBefore(s, p + 1) = b + 1
    <3>1. t.type = "backward"
      BY <2>2 DEF P!Backward
    <3>2. StageInv(s, sent, f, b + 1) /\ Grown(h, sent)
      <4>. HIDE DEF f, b, h
      <4>1. t = P!Backward(b)
        BY <2>2
      <4>. HIDE DEF t
      <4>2. QED  BY <4>1, <2>2, <1>1, <1>6, BackwardKeeps
    <3>3. next = sent
      BY <3>1
    <3>. HIDE DEF next, sent, f, b
    <3>4. QED  BY <2>2, <3>2, <3>3
  <2>3. CASE t = P!Bubble /\ ForwardBefore(s, p + 1) = f /\ BackwardBefore(s, p + 1) = b
    <3>1. t.type = "bubble"
      BY <2>3 DEF P!Bubble
    <3>. DEFINE g == P!BubbleBetween(h)
    <3>2. next = g /\ h.continuous
      BY <3>1, <1>3
    <3>3. HostInv(s, h)
      BY <1>1 DEF StageInv
    <3>4. HostInv(s, g) /\ Grown(h, g) /\ g.ops = h.ops /\ g.kernels = h.kernels
      BY <3>2, <3>3, BubbleDoes
    <3>. HIDE DEF g, next, f, b, h
    <3>5. StageInv(s, g, f, b)
      BY <3>4, <1>1, <1>6, QuietKeeps
    <3>6. QED  BY <2>3, <3>2, <3>4, <3>5
  <2>4. QED  BY <1>6, <2>1, <2>2, <2>3
<1>. HIDE DEF next, t, f, b
<1>8. QED  BY <1>2, <1>3, <1>7, HostStep

\* The end of the list closes the open group.
LEMMA EndTasksKeeps ==
  ASSUME DataInv, NEW s \in P!Stages, P!EndTasks(s)
  PROVE  DataInv'
<1>. DEFINE p == task[s]
            f == ForwardBefore(s, p)
            b == BackwardBefore(s, p)
            h == host[s]
            g == P!Closed(h)
<1>1. JobOK /\ StageInv(s, h, f, b) /\ host \in [P!Stages -> Hosts]
  BY DEF DataInv, Devices, Enqueues
<1>2. /\ p = Len(P!Tasks(s)) + 1 /\ task' = [task EXCEPT ![s] = @ + 1]
      /\ host' = [host EXCEPT ![s] = g] /\ UNCHANGED <<job, computed, moved>>
  BY DEF P!EndTasks
<1>3. /\ ForwardBefore(s, p + 1) = f /\ BackwardBefore(s, p + 1) = b /\ f \in Nat
  <2>1. p + 1 = Len(P!Tasks(s)) + 2
    BY <1>1, <1>2, ScheduleEnds
  <2>2. QED  BY <2>1, <1>1, <1>2, ScheduleEnds
<1>4. HostInv(s, h)
  BY <1>1 DEF StageInv
<1>5. HostInv(s, g) /\ Grown(h, g) /\ g.ops = h.ops /\ g.kernels = h.kernels
  BY <1>4, ClosedDoes
<1>. HIDE DEF g, f, b, h
<1>6. StageInv(s, g, f, b)
  BY <1>1, <1>3, <1>5, QuietKeeps
<1>7. StageInv(s, g, ForwardBefore(s, p + 1), BackwardBefore(s, p + 1)) /\ Grown(host[s], g)
  BY <1>3, <1>5, <1>6 DEF h
<1>8. QED  BY <1>2, <1>7, HostStep

\* A transfer is made when both ends run its group.
LEMMA TransferKeeps ==
  ASSUME DataInv, NEW c \in P!Channels, P!Transfer(c)
  PROVE  DataInv'
<1>1. /\ JobOK' <=> JobOK
      /\ P!Stages' = P!Stages /\ P!Channels' = P!Channels
      /\ \A r, p : /\ ForwardBefore(r, p)' = ForwardBefore(r, p)
                   /\ BackwardBefore(r, p)' = BackwardBefore(r, p)
      /\ \A r, h, f, b : StageInv(r, h, f, b)' <=> StageInv(r, h, f, b)
  BY SameJob DEF P!Transfer
<1>2. /\ host \in [P!Stages -> Hosts] /\ task \in [P!Stages -> Nat \ {0}]
      /\ computed \in [P!Stages -> Nat] /\ moved \in [P!Channels -> Nat] /\ JobOK
  BY DEF DataInv, Devices
<1>3. /\ moved' = [moved EXCEPT ![c] = @ + 1]
      /\ UNCHANGED <<job, task, host, computed>>
  BY DEF P!Transfer
<1>4. \A d \in P!Channels : /\ moved[d] \in Nat /\ moved[d] <= moved'[d]
                            /\ d # c => moved'[d] = moved[d]
                            /\ d = c => moved'[d] = moved[d] + 1
  BY <1>2, <1>3
<1>5. c = <<c[1], c[2]>> /\ c[1] \in P!Stages /\ c[2] \in P!Stages
  BY DEF P!Channels
<1>6. ASSUME NEW s \in P!Stages, NEW i \in DOMAIN host[s].ops
      PROVE  /\ <<host[s].ops[i].from, host[s].ops[i].to>> \in P!Channels
             /\ host[s].ops[i].number \in Nat
             /\ P!Moved(host[s].ops[i]) => P!Moved(host[s].ops[i])'
  <2>1. Numbered(host[s]) /\ host[s] \in Hosts
    BY <1>2 DEF DataInv, Enqueues, StageInv, HostInv
  <2>2. host[s].ops[i].number \in Nat
    BY <2>1, OpFields
  <2>3. <<host[s].ops[i].from, host[s].ops[i].to>> \in P!Channels
    BY <2>1 DEF Numbered, P!Channels
  <2>4. host' = host
    BY <1>3
  <2>5. QED  BY <2>2, <2>3, <2>4, <1>4 DEF P!Moved
<1>7. Devices'
  <2>1. moved' \in [P!Channels -> Nat]
    BY <1>2, <1>3
  <2>2. QED  BY <2>1, <1>1, <1>2, <1>3 DEF Devices
<1>8. Enqueues'
  BY <1>1, <1>3 DEF DataInv, Enqueues
<1>9. WaitedFor'
  BY <1>1, <1>3, <1>6 DEF DataInv, WaitedFor
<1>10. \A s \in {c[1], c[2]} : \E i \in DOMAIN host[s].ops :
         /\ <<host[s].ops[i].from, host[s].ops[i].to>> = c
         /\ host[s].ops[i].number = moved[c] + 1 /\ P!Running(s, host[s].ops[i].group)
  BY DEF P!Transfer
<1>11. Paired'
  <2>1. ASSUME NEW d \in P!Channels, NEW n \in 1..moved'[d], NEW s \in {d[1], d[2]}
        PROVE  \E i \in OnChannel(host[s], d[1], d[2]) : host[s].ops[i].number = n
    <3>1. CASE n \in 1..moved[d]
      BY <3>1 DEF DataInv, Paired
    <3>2. CASE d = c /\ n = moved[c] + 1
      <4>1. PICK i \in DOMAIN host[s].ops :
              /\ <<host[s].ops[i].from, host[s].ops[i].to>> = c
              /\ host[s].ops[i].number = moved[c] + 1
        BY <3>2, <1>10
      <4>2. host[s].ops[i].from = d[1] /\ host[s].ops[i].to = d[2]
        BY <4>1, <3>2
      <4>3. QED  BY <4>1, <4>2, <3>2 DEF OnChannel
    <3>3. QED  BY <3>1, <3>2, <1>4
  <2>2. QED  BY <2>1, <1>1, <1>3 DEF Paired, OnChannel
<1>12. ComputedFirst'
  <2>1. ASSUME NEW s \in P!Stages, NEW i \in DOMAIN host[s].ops, host[s].ops[i].from = s,
               host[s].ops[i].number <= moved'[<<host[s].ops[i].from, host[s].ops[i].to>>]
        PROVE  host[s].groups[host[s].ops[i].group] <= computed[s]
    <3>. DEFINE op == host[s].ops[i]
    <3>1. CASE P!Moved(op)
      BY <3>1, <2>1 DEF DataInv, ComputedFirst
    <3>2. CASE ~P!Moved(op)
      <4>. DEFINE d == <<op.from, op.to>>
      <4>0. /\ d \in P!Channels /\ op.number \in Nat /\ ~(op.number <= moved[d])
            /\ op.number <= moved'[d]
        BY <3>2, <2>1, <1>6 DEF P!Moved
      <4>1. d = c /\ op.number = moved[c] + 1
        <5>. HIDE DEF d, op
        <5>1. QED  BY <4>0, <1>4
      <4>2. s = c[1]
        BY <4>1, <2>1, <1>5
      <4>3. PICK j \in DOMAIN host[s].ops :
              /\ <<host[s].ops[j].from, host[s].ops[j].to>> = c
              /\ host[s].ops[j].number = moved[c] + 1 /\ P!Running(s, host[s].ops[j].group)
        BY <4>2, <1>10
      <4>4. Numbered(host[s])
        BY DEF DataInv, Enqueues, StageInv, HostInv
      <4>5. j \in OnChannel(host[s], op.from, op.to)
        BY <4>1, <4>3 DEF OnChannel
      <4>6. i = j
        BY <4>1, <4>3, <4>4, <4>5 DEF Numbered
      <4>7. computed[s] >= host[s].groups[op.group]
        BY <4>3, <4>6 DEF P!Running
      <4>8. op.group \in DOMAIN host[s].groups /\ host[s] \in Hosts
        BY <1>2 DEF DataInv, Enqueues, StageInv, HostInv, Ordered
      <4>9. host[s].groups[op.group] \in Nat /\ computed[s] \in Nat
        BY <4>8, <1>2, Fields
      <4>10. QED  BY <4>7, <4>9
    <3>3. QED  BY <3>1, <3>2
  <2>2. QED  BY <2>1, <1>1, <1>3 DEF ComputedFirst, P!Moved
<1>13. QED  BY <1>7, <1>8, <1>9, <1>11, <1>12 DEF DataInv

\* A kernel runs when its groups are done.
LEMMA ComputeKeeps ==
  ASSUME DataInv, NEW s \in P!Stages, P!Compute(s)
  PROVE  DataInv'
<1>1. /\ JobOK' <=> JobOK
      /\ P!Stages' = P!Stages /\ P!Channels' = P!Channels
      /\ \A r, p : /\ ForwardBefore(r, p)' = ForwardBefore(r, p)
                   /\ BackwardBefore(r, p)' = BackwardBefore(r, p)
      /\ \A r, h, f, b : StageInv(r, h, f, b)' <=> StageInv(r, h, f, b)
  BY SameJob DEF P!Compute
<1>2. /\ host \in [P!Stages -> Hosts] /\ task \in [P!Stages -> Nat \ {0}]
      /\ computed \in [P!Stages -> Nat] /\ moved \in [P!Channels -> Nat] /\ JobOK
  BY DEF DataInv, Devices
<1>3. /\ computed' = [computed EXCEPT ![s] = @ + 1]
      /\ UNCHANGED <<job, task, host, moved>>
      /\ computed[s] < Len(host[s].kernels)
      /\ P!GroupsDone(s, host[s].kernels[computed[s] + 1].after)
  BY DEF P!Compute
<1>4. \A r \in P!Stages : /\ computed[r] \in Nat /\ computed[r] <= computed'[r]
                          /\ r # s => computed'[r] = computed[r]
                          /\ r = s => computed'[r] = computed[s] + 1
  BY <1>2, <1>3
<1>5. \A op : P!Moved(op)' <=> P!Moved(op)
  BY <1>3 DEF P!Moved
<1>6. Devices'
  BY <1>1, <1>2, <1>3 DEF Devices
<1>7. Enqueues'
  <2>1. Len(host[s].kernels) \in Nat
    BY <1>2, Fields
  <2>2. \A r \in P!Stages : computed'[r] <= Len(host[r].kernels)
    BY <2>1, <1>3, <1>4 DEF DataInv, Enqueues
  <2>3. QED  BY <2>2, <1>1, <1>3 DEF DataInv, Enqueues
<1>8. WaitedFor'
  <2>1. ASSUME NEW r \in P!Stages, NEW k \in 1..computed'[r], NEW i \in DOMAIN host[r].ops,
               host[r].ops[i].group <= host[r].kernels[k].after
        PROVE  P!Moved(host[r].ops[i])
    <3>1. CASE k \in 1..computed[r]
      BY <3>1, <2>1 DEF DataInv, WaitedFor
    <3>2. CASE r = s /\ k = computed[s] + 1
      BY <3>2, <2>1, <1>3 DEF P!GroupsDone
    <3>3. QED  BY <3>1, <3>2, <1>4
  <2>2. QED  BY <2>1, <1>1, <1>3, <1>5 DEF WaitedFor
<1>9. Paired'
  BY <1>1, <1>3 DEF DataInv, Paired, OnChannel
<1>10. ComputedFirst'
  <2>1. ASSUME NEW r \in P!Stages, NEW i \in DOMAIN host[r].ops, host[r].ops[i].from = r,
               P!Moved(host[r].ops[i])
        PROVE  host[r].groups[host[r].ops[i].group] <= computed'[r]
    <3>1. host[r].groups[host[r].ops[i].group] <= computed[r]
      BY <2>1 DEF DataInv, ComputedFirst
    <3>2. host[r].ops[i].group \in DOMAIN host[r].groups /\ host[r] \in Hosts
      BY <1>2 DEF DataInv, Enqueues, StageInv, HostInv, Ordered
    <3>3. host[r].groups[host[r].ops[i].group] \in Nat
      BY <3>2, Fields
    <3>4. computed'[r] \in Nat
      BY <1>4
    <3>5. QED  BY <3>1, <3>3, <3>4, <1>4
  <2>2. QED  BY <2>1, <1>1, <1>3, <1>5 DEF ComputedFirst
<1>11. QED  BY <1>6, <1>7, <1>8, <1>9, <1>10 DEF DataInv

\* Nothing is enqueued at first.
LEMMA InitKeeps ==
  ASSUME P!JobsAssumption, P!Init
  PROVE  DataInv
<1>1. JobOK
  BY DEF P!JobsAssumption, P!Init, JobOK
<1>2. /\ task = [s \in P!Stages |-> 1] /\ host = [s \in P!Stages |-> P!Empty]
      /\ computed = [s \in P!Stages |-> 0] /\ moved = [c \in P!Channels |-> 0]
  BY DEF P!Init
<1>. DEFINE e == P!Empty
<1>3. /\ e.continuous = FALSE /\ e.ops = << >> /\ e.groups = << >> /\ e.kernels = << >>
      /\ e.synced = 0
  BY DEF P!Empty
<1>4. e \in Hosts
  <2>1. << >> \in Seq(Ops) /\ << >> \in Seq(Nat) /\ << >> \in Seq(Kernels)
    OBVIOUS
  <2>2. QED  BY <2>1 DEF P!Empty, Hosts
<1>. HIDE DEF e
<1>5. DOMAIN e.ops = {} /\ Len(e.groups) = 0 /\ DOMAIN e.kernels = {} /\ DOMAIN e.groups = {}
      /\ Len(e.kernels) = 0
  BY <1>3
<1>6. \A a, b : Count(e, a, b) = 0
  BY <1>5, FS_EmptySet DEF Count, OnChannel
<1>7. ASSUME NEW s \in P!Stages
      PROVE  StageInv(s, e, 0, 0)
  <2>1. Ordered(e)
    BY <1>3, <1>5 DEF Ordered
  <2>2. Numbered(e) /\ SentAfter(s, e) /\ FedFirst(s, e)
    BY <1>5 DEF Numbered, SentAfter, FedFirst
  <2>3. Counted(s, e, 0, 0)
    BY <1>6 DEF Counted, Weight
  <2>4. \A m \in 0..(0 - 1) : Enqueued(e, P!Forward(m), Len(e.kernels))
    OBVIOUS
  <2>5. QED  BY <2>1, <2>2, <2>3, <2>4, <1>4 DEF StageInv, HostInv
<1>8. Devices
  BY <1>1, <1>2, <1>4 DEF Devices, e
<1>9. Enqueues
  <2>1. ASSUME NEW s \in P!Stages
        PROVE  /\ StageInv(s, host[s], ForwardBefore(s, task[s]), BackwardBefore(s, task[s]))
               /\ computed[s] <= Len(host[s].kernels)
    <3>1. host[s] = e /\ task[s] = 1 /\ computed[s] = 0
      BY <1>2 DEF e
    <3>2. ForwardBefore(s, 1) = 0 /\ BackwardBefore(s, 1) = 0
      BY <1>1, ScheduleEnds
    <3>3. QED  BY <3>1, <3>2, <1>5, <1>7
  <2>2. QED  BY <2>1 DEF Enqueues
<1>10. WaitedFor
  BY <1>2 DEF WaitedFor
<1>11. Paired
  BY <1>2 DEF Paired
<1>12. ComputedFirst
  BY <1>2, <1>5 DEF ComputedFirst, e
<1>13. QED  BY <1>8, <1>9, <1>10, <1>11, <1>12 DEF DataInv

\* No step of a host or of a device undoes it.
LEMMA StepKeeps == DataInv /\ [P!Next]_(P!vars) => DataInv'
<1>. SUFFICES ASSUME DataInv, [P!Next]_(P!vars)  PROVE DataInv'
  OBVIOUS
<1>1. CASE UNCHANGED P!vars
  <2>1. UNCHANGED <<job, task, host, computed, moved>>
    BY <1>1 DEF P!vars
  <2>2. /\ JobOK' <=> JobOK
        /\ P!Stages' = P!Stages /\ P!Channels' = P!Channels
        /\ \A r, p : /\ ForwardBefore(r, p)' = ForwardBefore(r, p)
                     /\ BackwardBefore(r, p)' = BackwardBefore(r, p)
        /\ \A r, h, f, b : StageInv(r, h, f, b)' <=> StageInv(r, h, f, b)
    BY <2>1, SameJob
  <2>3. Devices'
    BY <2>1, <2>2 DEF DataInv, Devices
  <2>4. Enqueues'
    BY <2>1, <2>2 DEF DataInv, Enqueues
  <2>5. WaitedFor'
    BY <2>1, <2>2 DEF DataInv, WaitedFor, P!Moved
  <2>6. Paired'
    BY <2>1, <2>2 DEF DataInv, Paired, OnChannel
  <2>7. ComputedFirst'
    BY <2>1, <2>2 DEF DataInv, ComputedFirst, P!Moved
  <2>8. QED  BY <2>3, <2>4, <2>5, <2>6, <2>7 DEF DataInv
<1>2. ASSUME NEW s \in P!Stages, P!Host(s)  PROVE DataInv'
  BY <1>2, RunTaskKeeps, EndTasksKeeps DEF P!Host
<1>3. ASSUME NEW s \in P!Stages, P!Compute(s)  PROVE DataInv'
  BY <1>3, ComputeKeeps
<1>4. ASSUME NEW c \in P!Channels, P!Transfer(c)  PROVE DataInv'
  BY <1>4, TransferKeeps
<1>5. P!Done => UNCHANGED P!vars
  BY DEF P!Done
<1>6. QED  BY <1>1, <1>2, <1>3, <1>4, <1>5 DEF P!Next

\* What has been made is known at both ends, what has run had its input.
LEMMA DataIs == DataInv => P!DataReady
<1>. SUFFICES ASSUME DataInv  PROVE P!DataReady
  OBVIOUS
<1>1. /\ host \in [P!Stages -> Hosts] /\ computed \in [P!Stages -> Nat]
      /\ moved \in [P!Channels -> Nat] /\ JobOK
      /\ \A s \in P!Stages : /\ HostInv(s, host[s]) /\ computed[s] \in Nat /\ host[s] \in Hosts
                             /\ computed[s] <= Len(host[s].kernels)
  BY DEF DataInv, Devices, Enqueues, StageInv
<1>2. ASSUME NEW s \in P!Stages, NEW n \in Nat, n <= computed[s], NEW x, Enqueued(host[s], x, n)
      PROVE  P!Ran(s, x)
  BY <1>1, <1>2 DEF Enqueued, P!Ran
<1>3. ASSUME NEW s \in P!Stages, NEW i \in DOMAIN host[s].ops,
             host[s].ops[i].from = s, P!Moved(host[s].ops[i])
      PROVE  LET op == host[s].ops[i]
             IN  /\ \E j \in DOMAIN host[op.to].ops :
                      /\ host[op.to].ops[j].from = s /\ host[op.to].ops[j].to = op.to
                      /\ host[op.to].ops[j].number = op.number
                      /\ host[op.to].ops[j].what = op.what
                 /\ op.what[1] = "activation" => P!Ran(s, P!Forward(op.what[2]))
                 /\ op.what[1] = "gradient" => P!Ran(s, P!Backward(op.what[2]))
  <2>. DEFINE op == host[s].ops[i]
              c == <<op.from, op.to>>
  <2>1. Numbered(host[s]) /\ SentAfter(s, host[s]) /\ Ordered(host[s]) /\ host[s] \in Hosts
    BY <1>1 DEF HostInv
  <2>2. /\ op.to \in P!Stages /\ op.what = Nth(c, op.number)
        /\ op.number \in 1..Count(host[s], op.from, op.to)
    BY <2>1 DEF Numbered
  <2>3. c \in P!Channels /\ c[1] = s /\ c[2] = op.to
    BY <1>3, <2>2 DEF P!Channels
  <2>4. op.number \in 1..moved[c]
    <3>1. Count(host[s], op.from, op.to) \in Nat
      BY <2>1, CountTyped
    <3>2. moved[c] \in Nat
      BY <1>1, <2>3
    <3>3. op.number <= moved[c]
      BY <1>3 DEF P!Moved
    <3>4. QED  BY <3>1, <3>2, <3>3, <2>2
  <2>5. PICK j \in OnChannel(host[op.to], s, op.to) : host[op.to].ops[j].number = op.number
    BY <2>3, <2>4 DEF DataInv, Paired
  <2>6. /\ j \in DOMAIN host[op.to].ops /\ host[op.to].ops[j].from = s
        /\ host[op.to].ops[j].to = op.to
    BY <2>5 DEF OnChannel
  <2>7. host[op.to].ops[j].what = Nth(<<s, op.to>>, op.number)
    BY <2>2, <2>5, <2>6, <1>1 DEF HostInv, Numbered
  <2>8. host[op.to].ops[j].what = op.what
    BY <2>2, <2>7, <1>3
  <2>9. host[s].groups[op.group] <= computed[s]
    BY <1>3 DEF DataInv, ComputedFirst
  <2>10. host[s].groups[op.group] \in Nat
    BY <2>1, Fields DEF Ordered
  <2>11. /\ op.what[1] = "activation" => P!Ran(s, P!Forward(op.what[2]))
         /\ op.what[1] = "gradient" => P!Ran(s, P!Backward(op.what[2]))
    BY <2>1, <2>9, <2>10, <1>2, <1>3 DEF SentAfter
  <2>12. QED  BY <2>5, <2>6, <2>8, <2>11
<1>4. ASSUME NEW s \in P!Stages, NEW k \in 1..computed[s], NEW what,
             Comes(host[s], s, what, host[s].kernels[k].after)
      PROVE  P!Received(s, what)
  BY <1>4 DEF Comes, DataInv, WaitedFor, P!Received
<1>5. ASSUME NEW s \in P!Stages, NEW m \in P!MicroBatches
      PROVE  /\ P!Ran(s, P!Forward(m)) =>
                  /\ P!IsFirst(s) \/ P!Received(s, <<"activation", m>>)
                  /\ job.shared /\ P!IsLast(s) /\ ~P!IsFirst(s) => P!Received(s, <<"weight", 0>>)
             /\ P!Ran(s, P!Backward(m)) =>
                  /\ P!Ran(s, P!Forward(m))
                  /\ P!IsLast(s) \/ P!Received(s, <<"gradient", m>>)
  <2>1. FedFirst(s, host[s]) /\ host[s] \in Hosts /\ DOMAIN host[s].kernels = 1..Len(host[s].kernels)
        /\ Len(host[s].kernels) \in Nat
    BY <1>1, Fields DEF HostInv
  <2>2. ASSUME P!Ran(s, P!Forward(m))
        PROVE  /\ P!IsFirst(s) \/ P!Received(s, <<"activation", m>>)
               /\ job.shared /\ P!IsLast(s) /\ ~P!IsFirst(s) => P!Received(s, <<"weight", 0>>)
    <3>1. PICK k \in 1..computed[s] : host[s].kernels[k].task = P!Forward(m)
      BY <2>2 DEF P!Ran
    <3>2. k \in DOMAIN host[s].kernels
      BY <2>1, <1>1
    <3>3. host[s].kernels[k].task.type = "forward" /\ host[s].kernels[k].task.micro_batch = m
      BY <3>1 DEF P!Forward
    <3>4. /\ s # 0 => Comes(host[s], s, <<"activation", m>>, host[s].kernels[k].after)
          /\ job.shared /\ s = Last /\ s # 0 =>
               Comes(host[s], s, <<"weight", 0>>, host[s].kernels[k].after)
      BY <2>1, <3>2, <3>3 DEF FedFirst
    <3>5. QED  BY <3>4, <1>4 DEF P!IsFirst, P!IsLast, Last
  <2>3. ASSUME P!Ran(s, P!Backward(m))
        PROVE  /\ P!Ran(s, P!Forward(m))
               /\ P!IsLast(s) \/ P!Received(s, <<"gradient", m>>)
    <3>1. PICK k \in 1..computed[s] : host[s].kernels[k].task = P!Backward(m)
      BY <2>3 DEF P!Ran
    <3>2. k \in DOMAIN host[s].kernels /\ k - 1 \in Nat /\ k - 1 <= computed[s]
      BY <2>1, <1>1
    <3>3. host[s].kernels[k].task.type = "backward" /\ host[s].kernels[k].task.micro_batch = m
      BY <3>1 DEF P!Backward
    <3>4. /\ s # Last => Comes(host[s], s, <<"gradient", m>>, host[s].kernels[k].after)
          /\ Enqueued(host[s], P!Forward(m), k - 1)
      BY <2>1, <3>2, <3>3 DEF FedFirst
    <3>5. P!Ran(s, P!Forward(m))
      BY <3>2, <3>4, <1>2
    <3>6. QED  BY <3>4, <3>5, <1>4 DEF P!IsLast, Last
  <2>4. QED  BY <2>2, <2>3
<1>6. QED  BY <1>3, <1>5 DEF P!DataReady

-----------------------------------------------------------------------------
(* What is proved of a run of the pipeline *)

\* Sends and receives of a channel are numbered alike at both ends, and events order
\* kernels and transfers: what ComputeFunc enqueues, inductively, for any schedule of
\* GeneratePipedreamFlushSchedule.
THEOREM DataInductive == ASSUME P!JobsAssumption PROVE P!Spec => []DataInv
<1>1. P!Init => DataInv
  BY InitKeeps
<1>2. QED  BY <1>1, StepKeeps, PTL DEF P!Spec

\* ComputeFunc takes nothing away before it is computed, brings a receiver nothing
\* but what it has a buffer for, and starts no kernel before its input is there, for
\* any number of stages and micro batches, with and without a shared weight.
THEOREM DataReadyAlways == ASSUME P!JobsAssumption PROVE P!Spec => []P!DataReady
BY DataInductive, DataIs, PTL
=============================================================================
