--------------------------- MODULE CPUPoolProofs ---------------------------
(***************************************************************************)
(* For any blocks, streams and sizes of the queues: memory is not given    *)
(* back under a use, and a block is freed once.  The argument is about     *)
(* places: a use of a block on a stream is followed there by the record of *)
(* an event, and a task that frees it on its own stream follows both.      *)
(***************************************************************************)
EXTENDS CPUPool, FiniteSetTheorems, TLAPS

Users == CpuStreams \cup GpuStreams
Workers == Queues \cup {Main}

Tasks == [kind : {"use"}, data : Data, refers : BOOLEAN]
         \cup [kind : {"record"}, data : Data \cup {Main}]
         \cup [kind : {"freeOnAlloc", "freeOnJoin"}, data : Data]

\* What is at a place: k counts the queue of a stream, and 0 is what its worker
\* is at.
UseAt(s, k, d) ==
  \/ k \in DOMAIN queue[s] /\ queue[s][k].kind = "use" /\ queue[s][k].data = d
  \/ k = 0 /\ s \in Queues /\ doing[s].at = "use" /\ doing[s].data = d

RecordAt(s, k, d) == k \in DOMAIN queue[s] /\ queue[s][k] = [kind |-> "record", data |-> d]

QueuedRelease(s, k, d, kinds) ==
  k \in DOMAIN queue[s] /\ queue[s][k].kind \in kinds /\ queue[s][k].data = d

ReleaseAt(x, k, d) ==
  \/ x \in Queues /\ QueuedRelease(x, k, d, {"freeOnAlloc", "freeOnJoin"})
  \/ /\ k = 0
     /\ doing[x].at \in {"free", "freeOnAlloc", "freeOnJoin", "sync", "forget"}
     /\ doing[x].data = d

OnAllocAt(s, k, d) ==
  \/ QueuedRelease(s, k, d, {"freeOnAlloc"})
  \/ k = 0 /\ doing[s].at = "freeOnAlloc" /\ doing[s].data = d

Marking(d, s) == /\ doing[Main].at = "mark"
                 /\ doing[Main].data = d /\ doing[Main].stream = s

-----------------------------------------------------------------------------
Shape ==
  /\ queue \in [Streams -> Seq(Tasks)]
  /\ DOMAIN doing = Workers
  /\ DOMAIN info \subseteq Data
  /\ \A d \in DOMAIN info : info[d] \in [alloc_stream : Queues \cup {Blocking},
                                         deps : SUBSET Users]

\* Which stream may have which task, and which worker may be at what.
Queued == \A s \in Streams : \A k \in DOMAIN queue[s] :
  /\ queue[s][k].kind = "use" => s \in Users
  /\ queue[s][k].kind \in {"freeOnAlloc", "freeOnJoin"} => s \in Queues
  /\ queue[s][k].kind = "freeOnJoin" => s = Join

Doings == \A x \in Workers :
  /\ doing[x].at \notin {"idle", "exit", "leaving", "done"} => doing[x].data \in Data
  /\ doing[x].at = "mark" => x = Main /\ doing[x].stream \in Users /\ doing[x].data \in held
  /\ doing[x].at = "use" => /\ x \in CpuStreams
                            /\ doing[x].task.kind = "use"
                            /\ doing[x].task.data = doing[x].data
  /\ doing[x].at = "freeOnAlloc" => x \in Queues
  /\ doing[x].at \in {"freeOnJoin", "sync", "forget"} => x = Join

\* A use is followed on its stream by the record of an event that the block
\* knows of, or Main is about to put it there.
Marked == \A d \in Data, s \in Streams, k \in Nat : UseAt(s, k, d) =>
  \/ /\ d \in DOMAIN info /\ s \in info[d].deps
     /\ \E l \in Nat : k < l /\ RecordAt(s, l, d)
  \/ Marking(d, s)

\* A task that frees a block on its own stream follows all its uses.
Behind == \A d \in Data, s \in Queues, k \in Nat : OnAllocAt(s, k, d) =>
  \A t \in Streams, l \in Nat : UseAt(t, l, d) => t = s /\ l < k

\* Memory in use, or that the program refers to, is there; the pool knows it.
Kept ==
  /\ \A d \in Data, s \in Streams, k \in Nat : UseAt(s, k, d) => d \in memory
  /\ held \subseteq memory /\ memory \subseteq DOMAIN info
  /\ doing[Join].at = "forget" => doing[Join].data \notin memory

\* A block that is being freed is known and has no references.
Released == \A d \in Data, x \in Workers, k \in Nat : ReleaseAt(x, k, d) =>
  /\ d \in DOMAIN info /\ d \notin held /\ Referring(d) = {}
  /\ \A y \in Workers, l \in Nat : ReleaseAt(y, l, d) => y = x /\ l = k

IInv == Shape /\ Queued /\ Doings /\ Marked /\ Behind /\ Kept /\ Released
-----------------------------------------------------------------------------
\* What queues and workers hold after a step, place by place.
LEMMA PlaceNumbers ==
  ASSUME Shape, NEW s \in Streams
  PROVE  /\ queue[s] \in Seq(Tasks) /\ Len(queue[s]) \in Nat
         /\ DOMAIN queue[s] = 1..Len(queue[s])
         /\ \A k \in DOMAIN queue[s] : k \in Nat /\ k > 0 /\ queue[s][k] \in Tasks
  BY DEF Shape

LEMMA StreamFacts == Join \in Queues /\ Queues \subseteq Streams /\ Queues \subseteq Workers
                /\ Main \in Workers /\ Main \notin Streams /\ Main \notin Queues
                /\ Join \notin Users /\ Workers \cap GpuStreams = {}
                /\ Users \subseteq Streams /\ Queues \cap GpuStreams = {}
  BY StreamsAssumption DEF Queues, Streams, Workers, Users

LEMMA Pushed ==
  ASSUME Shape, NEW s \in Streams, NEW task \in Tasks, Push(s, task)
  PROVE  /\ queue' \in [Streams -> Seq(Tasks)]
         /\ Len(queue[s]) + 1 \notin DOMAIN queue[s]
         /\ DOMAIN queue'[s] = DOMAIN queue[s] \cup {Len(queue[s]) + 1}
         /\ queue'[s][Len(queue[s]) + 1] = task
         /\ \A k \in DOMAIN queue[s] : k < Len(queue[s]) + 1 /\ queue'[s][k] = queue[s][k]
         /\ \A t \in Streams : t # s => queue'[t] = queue[t]
<1>1. /\ queue[s] \in Seq(Tasks) /\ queue' = [queue EXCEPT ![s] = Append(queue[s], task)]
      /\ queue \in [Streams -> Seq(Tasks)]
  BY DEF Shape, Push
<1>2. /\ Append(queue[s], task) \in Seq(Tasks)
      /\ Len(Append(queue[s], task)) = Len(queue[s]) + 1
      /\ \A k \in 1..Len(queue[s]) : Append(queue[s], task)[k] = queue[s][k]
      /\ Append(queue[s], task)[Len(queue[s]) + 1] = task
  BY <1>1
<1>3. queue'[s] = Append(queue[s], task) /\ queue' \in [Streams -> Seq(Tasks)]
      /\ \A t \in Streams : t # s => queue'[t] = queue[t]
  BY <1>1, <1>2
<1>4. /\ DOMAIN queue'[s] = 1..(Len(queue[s]) + 1) /\ Len(queue[s]) \in Nat
      /\ DOMAIN queue[s] = 1..Len(queue[s])
  BY <1>1, <1>2, <1>3
<1>. QED
  BY <1>2, <1>3, <1>4

LEMMA Popped ==
  ASSUME Shape, NEW s \in Streams, queue[s] # << >>,
         queue' = [queue EXCEPT ![s] = Tail(queue[s])]
  PROVE  /\ queue' \in [Streams -> Seq(Tasks)]
         /\ 1 \in DOMAIN queue[s] /\ Head(queue[s]) = queue[s][1] /\ queue[s][1] \in Tasks
         /\ \A k \in DOMAIN queue'[s] : /\ k \in Nat /\ k > 0 /\ k + 1 \in DOMAIN queue[s]
                                        /\ queue'[s][k] = queue[s][k + 1]
         /\ \A k \in DOMAIN queue[s] : k > 1 => /\ k - 1 \in DOMAIN queue'[s]
                                                /\ queue'[s][k - 1] = queue[s][k]
         /\ \A t \in Streams : t # s => queue'[t] = queue[t]
<1>1. queue[s] \in Seq(Tasks) /\ queue \in [Streams -> Seq(Tasks)]
  BY DEF Shape
<1>2. /\ Tail(queue[s]) \in Seq(Tasks) /\ Len(queue[s]) \in Nat /\ Len(queue[s]) > 0
      /\ Len(Tail(queue[s])) = Len(queue[s]) - 1
      /\ \A k \in 1..(Len(queue[s]) - 1) : Tail(queue[s])[k] = queue[s][k + 1]
      /\ Head(queue[s]) = queue[s][1]
  BY <1>1
<1>3. queue'[s] = Tail(queue[s]) /\ queue' \in [Streams -> Seq(Tasks)]
      /\ \A t \in Streams : t # s => queue'[t] = queue[t]
  BY <1>1, <1>2
<1>4. /\ DOMAIN queue'[s] = 1..(Len(queue[s]) - 1)
      /\ DOMAIN queue[s] = 1..Len(queue[s])
  BY <1>1, <1>2, <1>3
<1>5. \A k \in DOMAIN queue'[s] : /\ k \in Nat /\ k > 0 /\ k + 1 \in DOMAIN queue[s]
                                  /\ queue'[s][k] = queue[s][k + 1]
  BY <1>2, <1>3, <1>4
<1>6. \A k \in DOMAIN queue[s] : k > 1 => /\ k - 1 \in DOMAIN queue'[s]
                                          /\ queue'[s][k - 1] = queue[s][k]
  <2>. SUFFICES ASSUME NEW k \in DOMAIN queue[s], k > 1
                PROVE  k - 1 \in DOMAIN queue'[s] /\ queue'[s][k - 1] = queue[s][k]
    OBVIOUS
  <2>1. k - 1 \in DOMAIN queue'[s] /\ (k - 1) + 1 = k
    BY <1>2, <1>4
  <2>. QED
    BY <2>1, <1>5
<1>7. 1 \in DOMAIN queue[s] /\ queue[s][1] \in Tasks
  BY <1>1, <1>2, <1>4
<1>. QED
  BY <1>2, <1>3, <1>5, <1>6, <1>7

\* A step of x that leaves the queues alone and begins no use.
LEMMA WorkerPlaces ==
  ASSUME Shape, NEW x \in Workers, NEW what, what.at # "use", Goes(x, what),
         UNCHANGED queue
  PROVE  /\ \A s \in Streams, k \in Nat : \A d : UseAt(s, k, d)' => UseAt(s, k, d)
         /\ \A s \in Streams, k \in Nat : \A d : RecordAt(s, k, d)' <=> RecordAt(s, k, d)
         /\ \A y \in Workers, k \in Nat : \A d : ReleaseAt(y, k, d)' =>
              \/ ReleaseAt(y, k, d) /\ (y = x /\ k = 0 =>
                   what.at \in {"free", "freeOnAlloc", "freeOnJoin", "sync", "forget"})
              \/ /\ y = x /\ k = 0 /\ what.data = d
                 /\ what.at \in {"free", "freeOnAlloc", "freeOnJoin", "sync", "forget"}
         /\ \A y \in Queues, k \in Nat : \A d : OnAllocAt(y, k, d)' =>
              OnAllocAt(y, k, d) \/ (y = x /\ k = 0 /\ what.at = "freeOnAlloc")
         /\ \A d : Referring(d)' \subseteq Referring(d)
         /\ DOMAIN doing' = Workers /\ doing'[x] = what
         /\ \A y \in Workers : y # x => doing'[y] = doing[y]
<1>1. /\ DOMAIN doing' = Workers /\ doing'[x] = what
      /\ \A y \in Workers : y # x => doing'[y] = doing[y]
  BY DEF Goes, Shape
<1>2. \A y \in Queues : y \in Workers /\ y \in Streams
  BY StreamFacts
<1>3. \A s \in Streams : 0 \notin DOMAIN queue[s]
  BY PlaceNumbers
<1>4. \A s \in Streams, k \in Nat : \A d : UseAt(s, k, d)' => UseAt(s, k, d)
  BY <1>1, <1>2 DEF UseAt
<1>5. \A s \in Streams, k \in Nat : \A d : RecordAt(s, k, d)' <=> RecordAt(s, k, d)
  BY DEF RecordAt
<1>6. \A y \in Workers, k \in Nat : \A d : ReleaseAt(y, k, d)' =>
        \/ ReleaseAt(y, k, d) /\ (y = x /\ k = 0 =>
             what.at \in {"free", "freeOnAlloc", "freeOnJoin", "sync", "forget"})
        \/ /\ y = x /\ k = 0 /\ what.data = d
           /\ what.at \in {"free", "freeOnAlloc", "freeOnJoin", "sync", "forget"}
  BY <1>1, <1>2, <1>3 DEF ReleaseAt, QueuedRelease
<1>7. \A y \in Queues, k \in Nat : \A d : OnAllocAt(y, k, d)' =>
        OnAllocAt(y, k, d) \/ (y = x /\ k = 0 /\ what.at = "freeOnAlloc")
  BY <1>1, <1>2 DEF OnAllocAt, QueuedRelease
<1>8. \A d : Referring(d)' \subseteq Referring(d)
  BY <1>1, <1>2 DEF Referring, IsReference
<1>. QED
  BY <1>1, <1>4, <1>5, <1>6, <1>7, <1>8
-----------------------------------------------------------------------------
\* Steps that take nothing from a queue and put nothing into one: what they let
\* go of is in no use, and what they start to free was not being freed.
NotUsed(d) == \A s \in Streams, k \in Nat : ~UseAt(s, k, d)
NotReleased(d) == \A y \in Workers, k \in Nat : ~ReleaseAt(y, k, d)

LEMMA WorkerIInv ==
  ASSUME IInv, NEW x \in Workers, NEW what, Goes(x, what), UNCHANGED queue,
         what.at \in {"idle", "exit", "done", "free", "sync", "forget"},
         doing[x].at # "mark",
         what.at \in {"free", "sync", "forget"} => what.data \in Data,
         what.at \in {"sync", "forget"} => x = Join /\ ReleaseAt(x, 0, what.data),
         what.at = "free" => /\ what.data \in DOMAIN info' /\ what.data \notin held'
                             /\ Referring(what.data)' = {} /\ NotReleased(what.data),
         what.at = "forget" => what.data \notin memory',
         held' \subseteq held, held' = held \/ x = Main,
         memory' \subseteq memory,
         \A d \in memory \ memory' : d \notin held' /\ NotUsed(d),
         DOMAIN info' \subseteq DOMAIN info, \A d \in DOMAIN info' : info'[d] = info[d],
         \A d \in DOMAIN info \ DOMAIN info' : d \notin memory' /\ NotReleased(d)'
  PROVE  IInv'
<1>1. /\ \A s \in Streams, k \in Nat : \A d : UseAt(s, k, d)' => UseAt(s, k, d)
      /\ \A s \in Streams, k \in Nat : \A d : RecordAt(s, k, d)' <=> RecordAt(s, k, d)
      /\ \A y \in Workers, k \in Nat : \A d : ReleaseAt(y, k, d)' =>
           \/ ReleaseAt(y, k, d) /\ (y = x /\ k = 0 => what.at \in {"free", "sync", "forget"})
           \/ y = x /\ k = 0 /\ what.data = d /\ what.at \in {"free", "sync", "forget"}
      /\ \A y \in Queues, k \in Nat : \A d : OnAllocAt(y, k, d)' => OnAllocAt(y, k, d)
      /\ \A d : Referring(d)' \subseteq Referring(d)
      /\ DOMAIN doing' = Workers /\ doing'[x] = what
      /\ \A y \in Workers : y # x => doing'[y] = doing[y]
  BY WorkerPlaces DEF IInv
<1>2. Shape'
  BY <1>1 DEF IInv, Shape
<1>3. Queued'
  BY DEF IInv, Queued
<1>4. Doings'
  <2>. SUFFICES ASSUME NEW y \in Workers PROVE
         /\ doing'[y].at \notin {"idle", "exit", "leaving", "done"} => doing'[y].data \in Data
         /\ doing'[y].at = "mark" => /\ y = Main /\ doing'[y].stream \in Users
                                     /\ doing'[y].data \in held'
         /\ doing'[y].at = "use" => /\ y \in CpuStreams
                                    /\ doing'[y].task.kind = "use"
                                    /\ doing'[y].task.data = doing'[y].data
         /\ doing'[y].at = "freeOnAlloc" => y \in Queues
         /\ doing'[y].at \in {"freeOnJoin", "sync", "forget"} => y = Join
    BY DEF Doings
  <2>1. CASE y = x
    BY <2>1, <1>1
  <2>2. CASE y # x
    BY <2>2, <1>1 DEF IInv, Doings
  <2>. QED
    BY <2>1, <2>2
<1>5. \A d \in Data, s \in Streams, k \in Nat : UseAt(s, k, d)' =>
        d \in memory' /\ d \in DOMAIN info'
  BY <1>1 DEF IInv, Kept, NotUsed
<1>6. Marked'
  <2>. SUFFICES ASSUME NEW d \in Data, NEW s \in Streams, NEW k \in Nat, UseAt(s, k, d)'
                PROVE  \/ /\ d \in DOMAIN info' /\ s \in info'[d].deps
                          /\ \E l \in Nat : k < l /\ RecordAt(s, l, d)'
                       \/ Marking(d, s)'
    BY DEF Marked
  <2>1. UseAt(s, k, d) /\ d \in DOMAIN info'
    BY <1>1, <1>5
  <2>2. CASE Marking(d, s)
    BY <2>2, <1>1, StreamFacts DEF Marking
  <2>3. CASE /\ d \in DOMAIN info /\ s \in info[d].deps
             /\ \E l \in Nat : k < l /\ RecordAt(s, l, d)
    BY <2>1, <2>3, <1>1
  <2>. QED
    BY <2>1, <2>2, <2>3 DEF IInv, Marked
<1>7. Behind'
  BY <1>1 DEF IInv, Behind
<1>8. Kept'
  <2>1. doing'[Join].at = "forget" => doing'[Join].data \notin memory'
    BY <1>1, StreamFacts DEF IInv, Kept
  <2>2. held' \subseteq memory' /\ memory' \subseteq DOMAIN info'
    BY DEF IInv, Kept
  <2>. QED
    BY <1>5, <2>1, <2>2 DEF Kept
<1>9. Released'
  <2>. SUFFICES ASSUME NEW d \in Data, NEW y \in Workers, NEW k \in Nat, ReleaseAt(y, k, d)'
                PROVE  /\ d \in DOMAIN info' /\ d \notin held' /\ Referring(d)' = {}
                       /\ \A z \in Workers, l \in Nat :
                            ReleaseAt(z, l, d)' => z = y /\ l = k
    BY DEF Released
  <2>1. CASE ReleaseAt(x, 0, d) \/ ~(what.at \in {"free", "sync", "forget"} /\ what.data = d)
    <3>1. \A z \in Workers, l \in Nat : ReleaseAt(z, l, d)' => ReleaseAt(z, l, d)
      BY <2>1, <1>1
    <3>2. /\ d \in DOMAIN info /\ d \notin held /\ Referring(d) = {}
          /\ \A z \in Workers, l \in Nat : ReleaseAt(z, l, d) => z = y /\ l = k
      BY <3>1 DEF IInv, Released
    <3>3. d \in DOMAIN info'
      BY <3>2 DEF NotReleased
    <3>. QED
      BY <3>1, <3>2, <3>3, <1>1
  <2>2. CASE ~ReleaseAt(x, 0, d) /\ what.at \in {"free", "sync", "forget"} /\ what.data = d
    <3>1. what.at = "free" /\ NotReleased(d)
      BY <2>2
    <3>2. \A z \in Workers, l \in Nat : ReleaseAt(z, l, d)' => z = x /\ l = 0
      BY <3>1, <1>1 DEF NotReleased
    <3>. QED
      BY <2>2, <3>1, <3>2
  <2>. QED
    BY <2>1, <2>2
<1>. QED
  BY <1>2, <1>3, <1>4, <1>6, <1>7, <1>8, <1>9 DEF IInv
\* Whatever is being freed is in no use once its turn has come: on its own
\* stream because its uses are before it, on the join stream because their
\* events are done.
LEMMA AllocTurn ==
  ASSUME IInv, NEW s \in Queues, doing[s].at = "freeOnAlloc"
  PROVE  NotUsed(doing[s].data)
<1>. DEFINE d == doing[s].data
<1>1. d \in Data /\ OnAllocAt(s, 0, d)
  BY StreamFacts DEF IInv, Doings, OnAllocAt
<1>2. SUFFICES ASSUME NEW t \in Streams, NEW k \in Nat, UseAt(t, k, d) PROVE FALSE
  BY DEF NotUsed
<1>3. k < 0
  BY <1>1, <1>2 DEF IInv, Behind
<1>. QED
  BY <1>3

LEMMA JoinTurn ==
  ASSUME IInv, NEW d \in Data, d \notin held,
         d \in DOMAIN info => \A s \in info[d].deps : EventDone(d, s)
  PROVE  NotUsed(d)
<1>1. SUFFICES ASSUME NEW s \in Streams, NEW k \in Nat, UseAt(s, k, d) PROVE FALSE
  BY DEF NotUsed
<1>2. ~Marking(d, s)
  BY StreamFacts DEF IInv, Doings, Marking
<1>3. /\ d \in DOMAIN info /\ s \in info[d].deps
      /\ \E l \in Nat : k < l /\ RecordAt(s, l, d)
  BY <1>1, <1>2 DEF IInv, Marked
<1>. QED
  BY <1>3 DEF EventDone, RecordAt

LEMMA DropIInv ==
  ASSUME IInv, NEW d \in Data, Drop(d)
  PROVE  IInv'
<1>1. /\ doing[Main].at = "idle" /\ d \in held /\ held' = held \ {d}
      /\ Goes(Main, IF Referring(d) = {} THEN [at |-> "free", data |-> d] ELSE Idle)
      /\ UNCHANGED <<info, memory, queue>>
  BY DEF Drop, Idle
<1>2. NotReleased(d) /\ d \in DOMAIN info
  BY <1>1 DEF IInv, Released, NotReleased, Kept
<1>3. CASE Referring(d) = {}
  <2>. DEFINE what == [at |-> "free", data |-> d]
  <2>1. Goes(Main, what) /\ what.at = "free" /\ what.data = d
    BY <1>1, <1>3
  <2>2. Referring(d)' = {}
    <3>. HIDE DEF what
    <3>. QED
      BY <2>1, <1>1, <1>3, WorkerPlaces, StreamFacts DEF IInv
  <2>. HIDE DEF what
  <2>. QED
    BY <1>1, <1>2, <2>1, <2>2, WorkerIInv, StreamFacts
<1>4. CASE Referring(d) # {}
  <2>1. Goes(Main, Idle) /\ Idle.at = "idle"
    BY <1>1, <1>4 DEF Idle
  <2>. QED
    BY <1>1, <2>1, WorkerIInv, StreamFacts
<1>. QED
  BY <1>3, <1>4

LEMMA EndUseIInv ==
  ASSUME IInv, NEW s \in Queues, EndUse(s)
  PROVE  IInv'
<1>1. PICK d \in Data :
        /\ doing[s].at = "use" /\ doing[s].data = d
        /\ doing[s].task.kind = "use" /\ doing[s].task.data = d
        /\ Goes(s, IF doing[s].task.refers /\ LastReference(s, d)
                   THEN [at |-> "free", data |-> d] ELSE Idle)
        /\ UNCHANGED <<info, memory, held, queue>>
  BY StreamFacts DEF EndUse, IInv, Doings
<1>2. CASE doing[s].task.refers /\ LastReference(s, d)
  <2>. DEFINE what == [at |-> "free", data |-> d]
  <2>1. Goes(s, what) /\ what.at = "free" /\ what.data = d
    BY <1>1, <1>2
  <2>. HIDE DEF what
  <2>2. d \in DOMAIN info
    <3>1. UseAt(s, 0, d)
      BY <1>1 DEF UseAt
    <3>. QED
      BY <3>1, <1>1, StreamFacts DEF IInv, Kept
  <2>3. NotReleased(d)
    <3>1. Referring(d) # {}
      BY <1>2 DEF LastReference
    <3>. QED
      BY <3>1, <1>1 DEF IInv, Released, NotReleased
  <2>4. Referring(d)' = {}
    <3>1. Referring(d)' \subseteq {s}
      BY <2>1, <1>1, <1>2, WorkerPlaces, StreamFacts DEF IInv, LastReference
    <3>2. \A k \in DOMAIN queue'[s] : ~IsReference(queue'[s][k], d)
      BY <1>1, <1>2 DEF LastReference
    <3>3. doing'[s].at # "use"
      BY <2>1, <1>1, WorkerPlaces, StreamFacts DEF IInv
    <3>4. s \notin Referring(d)'
      BY <3>2, <3>3 DEF Referring, IsReference
    <3>. QED
      BY <3>1, <3>4
  <2>5. d \notin held
    BY <1>2 DEF LastReference
  <2>. QED
    BY <1>1, <2>1, <2>2, <2>3, <2>4, <2>5, WorkerIInv, StreamFacts
<1>3. CASE ~(doing[s].task.refers /\ LastReference(s, d))
  <2>1. Goes(s, Idle) /\ Idle.at = "idle"
    BY <1>1, <1>3 DEF Idle
  <2>. QED
    BY <1>1, <2>1, WorkerIInv, StreamFacts
<1>. QED
  BY <1>2, <1>3

\* The id is forgotten with the task that frees it.
LEMMA ForgetKeeps ==
  ASSUME IInv, NEW x \in Queues, doing[x].at \in {"freeOnAlloc", "forget"},
         NEW d \in Data, doing[x].data = d,
         Forget(d), Goes(x, Idle), UNCHANGED <<queue, held>>,
         memory' \in {memory, memory \ {d}}, NotUsed(d), d \notin memory'
  PROVE  IInv'
<1>1. ReleaseAt(x, 0, d) /\ x \in Workers
  BY StreamFacts DEF IInv, Doings, ReleaseAt
<1>2. d \in DOMAIN info /\ d \notin held
  BY <1>1 DEF IInv, Released
<1>3. /\ DOMAIN info' = DOMAIN info \ {d}
      /\ \A i \in DOMAIN info' : info'[i] = info[i]
  BY DEF Forget
<1>4. Idle.at = "idle"
  BY DEF Idle
<1>5. NotReleased(d)'
  <2>1. \A y \in Workers, k \in Nat : ReleaseAt(y, k, d)' => ReleaseAt(y, k, d) /\ ~(y = x /\ k = 0)
    BY <1>1, <1>4, WorkerPlaces DEF IInv
  <2>2. \A y \in Workers, k \in Nat : ReleaseAt(y, k, d) => y = x /\ k = 0
    BY <1>1 DEF IInv, Released
  <2>. QED
    BY <2>1, <2>2 DEF NotReleased
<1>6. memory' \subseteq memory /\ \A i \in memory \ memory' : i = d
  OBVIOUS
<1>. QED
  BY <1>1, <1>2, <1>3, <1>4, <1>5, <1>6, WorkerIInv

LEMMA FreeOnAllocStreamIInv ==
  ASSUME IInv, NEW s \in Queues, FreeOnAllocStream(s)
  PROVE  IInv'
<1>1. PICK d \in Data : doing[s].at = "freeOnAlloc" /\ doing[s].data = d
  BY StreamFacts DEF FreeOnAllocStream, IInv, Doings
<1>2. NotUsed(d)
  BY <1>1, AllocTurn
<1>. QED
  BY <1>1, <1>2, ForgetKeeps DEF FreeOnAllocStream, GiveBack

LEMMA JoinIInv ==
  ASSUME IInv, LookUp \/ SyncEvents \/ ForgetJoined
  PROVE  IInv'
<1>1. PICK d \in Data :
        /\ doing[Join].at \in {"freeOnJoin", "sync", "forget"} /\ doing[Join].data = d
        /\ ReleaseAt(Join, 0, d) /\ Join \in Workers
  BY StreamFacts DEF LookUp, SyncEvents, ForgetJoined, IInv, Doings, ReleaseAt
<1>2. d \in DOMAIN info /\ d \notin held
  BY <1>1 DEF IInv, Released
<1>3. CASE LookUp
  <2>. DEFINE what == [at |-> "sync", data |-> d]
  <2>1. Goes(Join, what) /\ what.at = "sync" /\ what.data = d
    BY <1>1, <1>3 DEF LookUp
  <2>2. UNCHANGED <<info, memory, held, queue>>
    BY <1>3 DEF LookUp
  <2>. HIDE DEF what
  <2>. QED
    BY <1>1, <2>1, <2>2, WorkerIInv
<1>4. CASE SyncEvents
  <2>. DEFINE what == [at |-> "forget", data |-> d]
  <2>1. Goes(Join, what) /\ what.at = "forget" /\ what.data = d
    BY <1>1, <1>4 DEF SyncEvents
  <2>2. memory' = memory \ {d} /\ UNCHANGED <<info, held, queue>>
    BY <1>1, <1>4 DEF SyncEvents, GiveBack
  <2>3. NotUsed(d)
    <3>1. \A s \in info[d].deps : EventDone(d, s)
      BY <1>1, <1>4 DEF SyncEvents
    <3>. QED
      BY <3>1, <1>1, <1>2, JoinTurn
  <2>. HIDE DEF what
  <2>. QED
    BY <1>1, <1>2, <2>1, <2>2, <2>3, WorkerIInv
<1>5. CASE ForgetJoined
  <2>1. d \notin memory /\ NotUsed(d)
    BY <1>1, <1>5 DEF ForgetJoined, IInv, Kept, NotUsed
  <2>. QED
    BY <1>1, <1>5, <2>1, StreamFacts, ForgetKeeps DEF ForgetJoined
<1>. QED
  BY <1>3, <1>4, <1>5
-----------------------------------------------------------------------------
\* What a push brings about: task at the new place n of s, x at what, and nothing else.
PushedAt(n, s, task, x, what) ==
  /\ n > 0 /\ \A k \in Nat : \A d : UseAt(s, k, d) => k < n
  /\ \A t \in Streams, k \in Nat : \A d : UseAt(t, k, d)' =>
       \/ UseAt(t, k, d)
       \/ t = s /\ k = n /\ task.kind = "use" /\ task.data = d
  /\ \A t \in Streams, k \in Nat : \A d : RecordAt(t, k, d) => RecordAt(t, k, d)'
  /\ \A d : task = [kind |-> "record", data |-> d] => RecordAt(s, n, d)'
  /\ \A y \in Workers, k \in Nat : \A d : ReleaseAt(y, k, d)' =>
       \/ ReleaseAt(y, k, d) /\ ~(y = x /\ k = 0)
       \/ /\ y = s /\ k = n /\ task.data = d
          /\ task.kind \in {"freeOnAlloc", "freeOnJoin"}
  /\ \A y \in Queues, k \in Nat : \A d : OnAllocAt(y, k, d)' =>
       \/ OnAllocAt(y, k, d)
       \/ y = s /\ k = n /\ task.kind = "freeOnAlloc" /\ task.data = d
  /\ \A d : ~(task.kind = "use" /\ task.data = d) =>
       Referring(d)' \subseteq Referring(d)
  /\ queue' \in [Streams -> Seq(Tasks)]
  /\ DOMAIN doing' = Workers /\ doing'[x] = what
  /\ \A y \in Workers : y # x => doing'[y] = doing[y]
  /\ \A t \in Streams : \A k \in DOMAIN queue'[t] :
       \/ k \in DOMAIN queue[t] /\ queue'[t][k] = queue[t][k]
       \/ t = s /\ queue'[t][k] = task

\* A task is put at the end of a queue, by x that then goes on to something that
\* is no place of a use or a release.
LEMMA PushPlaces ==
  ASSUME IInv, NEW s \in Streams, NEW task \in Tasks, Push(s, task),
         NEW x \in Workers, NEW what, Goes(x, what),
         what.at \in {"idle", "mark", "leaving"}, doing[x].at # "use"
  PROVE  \E n \in Nat : PushedAt(n, s, task, x, what)
<1>. PICK n \in Nat : n = Len(queue[s]) + 1
  BY PlaceNumbers DEF IInv
<1>1. /\ DOMAIN doing' = Workers /\ doing'[x] = what
      /\ \A y \in Workers : y # x => doing'[y] = doing[y]
  BY DEF Goes, IInv, Shape
<1>2. \A y \in Queues : y \in Workers /\ y \in Streams
  BY StreamFacts
<1>3. /\ queue' \in [Streams -> Seq(Tasks)]
      /\ n \notin DOMAIN queue[s] /\ DOMAIN queue'[s] = DOMAIN queue[s] \cup {n}
      /\ queue'[s][n] = task
      /\ \A k \in DOMAIN queue[s] : k < n /\ queue'[s][k] = queue[s][k]
      /\ \A t \in Streams : t # s => queue'[t] = queue[t]
  BY Pushed DEF IInv
<1>4. n \in Nat /\ n > 0 /\ \A t \in Streams : 0 \notin DOMAIN queue[t]
  BY PlaceNumbers DEF IInv
<1>5. \A t \in Streams : \A k \in DOMAIN queue'[t] :
        \/ k \in DOMAIN queue[t] /\ queue'[t][k] = queue[t][k]
        \/ t = s /\ k = n /\ queue'[t][k] = task
  BY <1>3
<1>6. \A k \in Nat : \A d : UseAt(s, k, d) => k < n
  BY <1>3, <1>4 DEF UseAt
<1>7. \A t \in Streams, k \in Nat : \A d : UseAt(t, k, d)' =>
        \/ UseAt(t, k, d)
        \/ t = s /\ k = n /\ task.kind = "use" /\ task.data = d
  BY <1>1, <1>2, <1>5 DEF UseAt
<1>8. \A t \in Streams, k \in Nat : \A d : RecordAt(t, k, d) => RecordAt(t, k, d)'
  BY <1>3 DEF RecordAt
<1>9. \A d : task = [kind |-> "record", data |-> d] => RecordAt(s, n, d)'
  BY <1>3 DEF RecordAt
<1>10. \A y \in Workers, k \in Nat : \A d : ReleaseAt(y, k, d)' =>
         \/ ReleaseAt(y, k, d) /\ ~(y = x /\ k = 0)
         \/ /\ y = s /\ k = n /\ task.data = d
            /\ task.kind \in {"freeOnAlloc", "freeOnJoin"}
  BY <1>1, <1>2, <1>4, <1>5 DEF ReleaseAt, QueuedRelease
<1>11. \A y \in Queues, k \in Nat : \A d : OnAllocAt(y, k, d)' =>
         \/ OnAllocAt(y, k, d)
         \/ y = s /\ k = n /\ task.kind = "freeOnAlloc" /\ task.data = d
  BY <1>1, <1>2, <1>5 DEF OnAllocAt, QueuedRelease
<1>12. \A d : ~(task.kind = "use" /\ task.data = d) => Referring(d)' \subseteq Referring(d)
  <2>. SUFFICES ASSUME NEW d, ~(task.kind = "use" /\ task.data = d), NEW t \in Referring(d)'
                PROVE  t \in Referring(d)
    OBVIOUS
  <2>1. t \in Queues /\ t \in Streams /\ t \in Workers
    BY <1>2 DEF Referring
  <2>2. CASE \E k \in DOMAIN queue'[t] : IsReference(queue'[t][k], d)
    BY <2>1, <2>2, <1>5 DEF Referring, IsReference
  <2>3. CASE doing'[t].at = "use" /\ IsReference(doing'[t].task, d)
    BY <2>1, <2>3, <1>1 DEF Referring
  <2>. QED
    BY <2>2, <2>3 DEF Referring
<1>. QED
  BY <1>1, <1>3, <1>4, <1>5, <1>6, <1>7, <1>8, <1>9, <1>10, <1>11, <1>12
     DEF PushedAt

LEMMA LaunchIInv ==
  ASSUME IInv, NEW d \in Data, NEW s \in CpuStreams \cup GpuStreams, NEW refers \in BOOLEAN,
         Launch(d, s, refers)
  PROVE  IInv'
<1>. DEFINE task == [kind |-> "use", data |-> d, refers |-> refers]
            what == [at |-> "mark", data |-> d, stream |-> s]
<1>1. /\ doing[Main].at = "idle" /\ d \in held /\ Push(s, task) /\ Goes(Main, what)
      /\ UNCHANGED <<info, memory, held>>
  BY DEF Launch, Idle
<1>2. /\ s \in Streams /\ s \in Users /\ task \in Tasks /\ task.kind = "use" /\ task.data = d
      /\ what.at = "mark" /\ what.data = d /\ what.stream = s
  BY StreamFacts DEF Tasks, Users
<1>. HIDE DEF task, what
<1>3. /\ \A t \in Streams, k \in Nat : \A i : UseAt(t, k, i)' => UseAt(t, k, i) \/ (t = s /\ i = d)
      /\ \A t \in Streams, k \in Nat : \A i : RecordAt(t, k, i) => RecordAt(t, k, i)'
      /\ \A y \in Workers, k \in Nat : \A i : ReleaseAt(y, k, i)' => ReleaseAt(y, k, i)
      /\ \A y \in Queues, k \in Nat : \A i : OnAllocAt(y, k, i)' => OnAllocAt(y, k, i)
      /\ \A i : i # d => Referring(i)' \subseteq Referring(i)
      /\ queue' \in [Streams -> Seq(Tasks)]
      /\ DOMAIN doing' = Workers /\ doing'[Main] = what
      /\ \A y \in Workers : y # Main => doing'[y] = doing[y]
      /\ \A t \in Streams : \A k \in DOMAIN queue'[t] :
           \/ k \in DOMAIN queue[t] /\ queue'[t][k] = queue[t][k]
           \/ t = s /\ queue'[t][k] = task
  BY <1>1, <1>2, StreamFacts, PushPlaces DEF PushedAt
<1>4. d \in memory /\ d \in DOMAIN info /\ NotReleased(d)
  BY <1>1 DEF IInv, Kept, Released, NotReleased
<1>5. Shape'
  BY <1>1, <1>3 DEF IInv, Shape
<1>6. Queued'
  BY <1>2, <1>3 DEF IInv, Queued
<1>7. Doings'
  BY <1>1, <1>2, <1>3 DEF IInv, Doings
<1>8. Marked'
  <2>. SUFFICES ASSUME NEW i \in Data, NEW t \in Streams, NEW k \in Nat, UseAt(t, k, i)'
                PROVE  \/ /\ i \in DOMAIN info' /\ t \in info'[i].deps
                          /\ \E l \in Nat : k < l /\ RecordAt(t, l, i)'
                       \/ Marking(i, t)'
    BY DEF Marked
  <2>1. CASE t = s /\ i = d
    BY <2>1, <1>2, <1>3 DEF Marking
  <2>2. CASE UseAt(t, k, i)
    <3>1. ~Marking(i, t)
      BY <1>1 DEF Marking
    <3>2. /\ i \in DOMAIN info /\ t \in info[i].deps
          /\ \E l \in Nat : k < l /\ RecordAt(t, l, i)
      BY <2>2, <3>1 DEF IInv, Marked
    <3>. QED
      BY <3>2, <1>1, <1>3
  <2>. QED
    BY <2>1, <2>2, <1>3
<1>9. Behind'
  <2>. SUFFICES ASSUME NEW i \in Data, NEW y \in Queues, NEW k \in Nat, OnAllocAt(y, k, i)',
                       NEW t \in Streams, NEW l \in Nat, UseAt(t, l, i)'
                PROVE  t = y /\ l < k
    BY DEF Behind
  <2>1. OnAllocAt(y, k, i)
    BY <1>3
  <2>2. i # d
    <3>1. ReleaseAt(y, k, i)
      BY <2>1 DEF OnAllocAt, ReleaseAt, QueuedRelease
    <3>. QED
      BY <3>1, <1>4, StreamFacts DEF NotReleased
  <2>3. UseAt(t, l, i)
    BY <2>2, <1>3
  <2>. QED
    BY <2>1, <2>3 DEF IInv, Behind
<1>10. Kept'
  <2>1. \A i \in Data, t \in Streams, k \in Nat : UseAt(t, k, i)' => i \in memory
    BY <1>3, <1>4 DEF IInv, Kept
  <2>2. doing'[Join] = doing[Join]
    BY <1>3, StreamFacts
  <2>. QED
    BY <1>1, <2>1, <2>2 DEF IInv, Kept
<1>11. Released'
  <2>. SUFFICES ASSUME NEW i \in Data, NEW y \in Workers, NEW k \in Nat, ReleaseAt(y, k, i)'
                PROVE  /\ i \in DOMAIN info' /\ i \notin held' /\ Referring(i)' = {}
                       /\ \A z \in Workers, l \in Nat :
                            ReleaseAt(z, l, i)' => z = y /\ l = k
    BY DEF Released
  <2>1. ReleaseAt(y, k, i) /\ i # d
    BY <1>3, <1>4 DEF NotReleased
  <2>. QED
    BY <2>1, <1>1, <1>3 DEF IInv, Released
<1>. QED
  BY <1>5, <1>6, <1>7, <1>8, <1>9, <1>10, <1>11 DEF IInv

\* The record of an event, by Main: of the block it has just launched with, or
\* its own at exit.
LEMMA RecordIInv ==
  ASSUME IInv, NEW d \in Data \cup {Main}, NEW s \in Streams, NEW what, Goes(Main, what),
         Push(s, [kind |-> "record", data |-> d]),
         what.at \in {"idle", "leaving"}, doing[Main].at \in {"exit", "mark"},
         UNCHANGED <<memory, held>>,
         DOMAIN info' = DOMAIN info,
         \A i \in DOMAIN info : /\ info'[i] \in [alloc_stream : Queues \cup {Blocking},
                                                 deps : SUBSET Users]
                                /\ info[i].deps \subseteq info'[i].deps,
         doing[Main].at = "mark" => /\ doing[Main].data = d /\ doing[Main].stream = s
                                    /\ s \in info'[d].deps
  PROVE  IInv'
<1>. DEFINE task == [kind |-> "record", data |-> d]
<1>1. task \in Tasks /\ task.kind = "record" /\ Main \in Workers /\ Main \notin Queues
  BY StreamFacts DEF Tasks
<1>2. /\ \E n \in Nat : /\ \A k \in Nat : \A i : UseAt(s, k, i) => k < n
                        /\ RecordAt(s, n, d)'
      /\ \A t \in Streams, k \in Nat : \A i : UseAt(t, k, i)' => UseAt(t, k, i)
      /\ \A t \in Streams, k \in Nat : \A i : RecordAt(t, k, i) => RecordAt(t, k, i)'
      /\ \A y \in Workers, k \in Nat : \A i : ReleaseAt(y, k, i)' => ReleaseAt(y, k, i)
      /\ \A y \in Queues, k \in Nat : \A i : OnAllocAt(y, k, i)' => OnAllocAt(y, k, i)
      /\ \A i : Referring(i)' \subseteq Referring(i)
      /\ queue' \in [Streams -> Seq(Tasks)]
      /\ DOMAIN doing' = Workers /\ doing'[Main] = what
      /\ \A y \in Workers : y # Main => doing'[y] = doing[y]
      /\ \A t \in Streams : \A k \in DOMAIN queue'[t] :
           \/ k \in DOMAIN queue[t] /\ queue'[t][k] = queue[t][k]
           \/ t = s /\ queue'[t][k] = task
  <2>. HIDE DEF task
  <2>1. Push(s, task) /\ task = [kind |-> "record", data |-> d]
    BY DEF task
  <2>2. doing[Main].at # "use" /\ what.at \in {"idle", "mark", "leaving"}
    OBVIOUS
  <2>3. PICK n \in Nat : PushedAt(n, s, task, Main, what)
    BY <1>1, <2>1, <2>2, PushPlaces
  <2>4. RecordAt(s, n, d)'
    BY <2>1, <2>3 DEF PushedAt
  <2>. QED
    BY <1>1, <2>3, <2>4 DEF PushedAt
<1>. HIDE DEF task
<1>3. Shape'
  BY <1>2 DEF IInv, Shape
<1>4. Queued'
  BY <1>1, <1>2 DEF IInv, Queued
<1>5. Doings'
  BY <1>2 DEF IInv, Doings
<1>6. Marked'
  <2>. SUFFICES ASSUME NEW i \in Data, NEW t \in Streams, NEW k \in Nat, UseAt(t, k, i)'
                PROVE  /\ i \in DOMAIN info' /\ t \in info'[i].deps
                       /\ \E l \in Nat : k < l /\ RecordAt(t, l, i)'
    BY DEF Marked
  <2>1. UseAt(t, k, i) /\ i \in DOMAIN info
    BY <1>2 DEF IInv, Kept
  <2>2. CASE Marking(i, t)
    <3>1. i = d /\ t = s /\ s \in info'[d].deps
      BY <2>2 DEF Marking
    <3>2. UseAt(s, k, i)
      BY <2>1, <3>1
    <3>3. \E l \in Nat : k < l /\ RecordAt(s, l, d)'
      BY <3>2, <1>2
    <3>. QED
      BY <2>1, <3>1, <3>3
  <2>3. CASE /\ i \in DOMAIN info /\ t \in info[i].deps
             /\ \E l \in Nat : k < l /\ RecordAt(t, l, i)
    BY <2>3, <1>2
  <2>. QED
    BY <2>1, <2>2, <2>3 DEF IInv, Marked
<1>7. Behind'
  BY <1>2 DEF IInv, Behind
<1>8. Kept'
  <2>1. doing'[Join] = doing[Join]
    BY <1>1, <1>2, StreamFacts
  <2>. QED
    BY <1>2, <2>1 DEF IInv, Kept
<1>9. Released'
  <2>. SUFFICES ASSUME NEW i \in Data, NEW y \in Workers, NEW k \in Nat, ReleaseAt(y, k, i)'
                PROVE  /\ i \in DOMAIN info' /\ i \notin held' /\ Referring(i)' = {}
                       /\ \A z \in Workers, l \in Nat :
                            ReleaseAt(z, l, i)' => z = y /\ l = k
    BY DEF Released
  <2>1. ReleaseAt(y, k, i)
    BY <1>2
  <2>. QED
    BY <2>1, <1>2 DEF IInv, Released
<1>. QED
  BY <1>3, <1>4, <1>5, <1>6, <1>7, <1>8, <1>9 DEF IInv
\* Nothing moves, though a block may get to know of one more stream.
LEMMA WaitingIInv ==
  ASSUME IInv, UNCHANGED <<queue, doing, memory, held>>, DOMAIN info' = DOMAIN info,
         \A i \in DOMAIN info : /\ info'[i] \in [alloc_stream : Queues \cup {Blocking},
                                                 deps : SUBSET Users]
                                /\ info[i].deps \subseteq info'[i].deps
  PROVE  IInv'
<1>1. /\ \A s, k, d : UseAt(s, k, d)' <=> UseAt(s, k, d)
      /\ \A s, k, d : RecordAt(s, k, d)' <=> RecordAt(s, k, d)
      /\ \A s, k, d : ReleaseAt(s, k, d)' <=> ReleaseAt(s, k, d)
      /\ \A s, k, d : OnAllocAt(s, k, d)' <=> OnAllocAt(s, k, d)
      /\ \A s, d : Marking(d, s)' <=> Marking(d, s)
      /\ \A d : Referring(d)' = Referring(d)
  BY DEF UseAt, RecordAt, ReleaseAt, OnAllocAt, QueuedRelease, Marking, Referring
<1>2. Shape' /\ Queued' /\ Doings'
  BY DEF IInv, Shape, Queued, Doings
<1>3. Marked'
  BY <1>1 DEF IInv, Marked
<1>4. Behind' /\ Kept' /\ Released'
  BY <1>1 DEF IInv, Behind, Kept, Released
<1>. QED
  BY <1>2, <1>3, <1>4 DEF IInv

LEMMA MarkIInv ==
  ASSUME IInv, MarkDataSpaceUsed
  PROVE  IInv'
<1>1. PICK d \in Data, s \in Users :
        /\ doing[Main].at = "mark" /\ doing[Main].data = d /\ doing[Main].stream = s
        /\ d \in held /\ UNCHANGED <<memory, held>>
        /\ info' = [info EXCEPT ![d].deps = info[d].deps \cup {s}]
        /\ EnqueueLocked(Main, s, [kind |-> "record", data |-> d])
  BY StreamFacts DEF MarkDataSpaceUsed, IInv, Doings
<1>2. d \in DOMAIN info /\ s \in Streams
  BY <1>1, StreamFacts DEF IInv, Kept
<1>3. /\ DOMAIN info' = DOMAIN info /\ s \in info'[d].deps
      /\ \A i \in DOMAIN info : /\ info'[i] \in [alloc_stream : Queues \cup {Blocking},
                                                 deps : SUBSET Users]
                                /\ info[i].deps \subseteq info'[i].deps
  <2>1. info[d] \in [alloc_stream : Queues \cup {Blocking}, deps : SUBSET Users]
    BY <1>2 DEF IInv, Shape
  <2>2. /\ DOMAIN info' = DOMAIN info
        /\ info'[d] = [info[d] EXCEPT !.deps = info[d].deps \cup {s}]
        /\ \A i \in DOMAIN info : i # d => info'[i] = info[i]
    BY <1>1, <1>2
  <2>3. /\ info'[d] \in [alloc_stream : Queues \cup {Blocking}, deps : SUBSET Users]
        /\ info'[d].deps = info[d].deps \cup {s}
    BY <2>1, <2>2
  <2>. QED
    BY <2>2, <2>3 DEF IInv, Shape
<1>4. CASE HasRoom(s)
  <2>1. Push(s, [kind |-> "record", data |-> d]) /\ Goes(Main, Idle) /\ Idle.at = "idle"
    BY <1>1, <1>4 DEF EnqueueLocked, Idle
  <2>. QED
    BY <1>1, <1>2, <1>3, <2>1, RecordIInv
<1>5. CASE ~HasRoom(s)
  BY <1>1, <1>3, <1>5, WaitingIInv DEF EnqueueLocked
<1>. QED
  BY <1>4, <1>5

LEMMA ExitIInv ==
  ASSUME IInv, Exit \/ RecordExit \/ FinishExit
  PROVE  IInv'
<1>1. CASE Exit
  <2>. DEFINE what == [at |-> "exit"]
  <2>1. /\ Goes(Main, what) /\ what.at = "exit" /\ doing[Main].at = "idle"
        /\ UNCHANGED <<info, memory, held, queue>>
    BY <1>1 DEF Exit, Idle
  <2>. HIDE DEF what
  <2>. QED
    BY <2>1, WorkerIInv, StreamFacts
<1>2. CASE RecordExit
  <2>. DEFINE what == [at |-> "leaving"]
  <2>1. /\ Goes(Main, what) /\ what.at = "leaving" /\ doing[Main].at = "exit"
        /\ Push(Join, [kind |-> "record", data |-> Main])
        /\ UNCHANGED <<info, memory, held>> /\ Join \in Streams
    BY <1>2, StreamFacts DEF RecordExit
  <2>2. \A i \in DOMAIN info : /\ info'[i] \in [alloc_stream : Queues \cup {Blocking},
                                                deps : SUBSET Users]
                               /\ info[i].deps \subseteq info'[i].deps
    BY <2>1 DEF IInv, Shape
  <2>. HIDE DEF what
  <2>. QED
    BY <2>1, <2>2, RecordIInv
<1>3. CASE FinishExit
  <2>. DEFINE what == [at |-> "done"]
  <2>1. /\ Goes(Main, what) /\ what.at = "done" /\ doing[Main].at = "leaving"
        /\ UNCHANGED <<info, memory, held, queue>>
    BY <1>3 DEF FinishExit
  <2>. HIDE DEF what
  <2>. QED
    BY <2>1, WorkerIInv, StreamFacts
<1>. QED
  BY <1>1, <1>2, <1>3

\* The task that frees a block goes behind the block's uses: on the stream that
\* allocated it if no other used it.
LEMMA FreeQueuedIInv ==
  ASSUME IInv, NEW x \in Workers, doing[x].at = "free", NEW d \in Data, doing[x].data = d,
         NEW s \in Queues, NEW kind \in {"freeOnAlloc", "freeOnJoin"},
         kind = "freeOnAlloc" => info[d].deps \subseteq {s}, kind = "freeOnJoin" => s = Join,
         Push(s, [kind |-> kind, data |-> d]), Goes(x, Idle), UNCHANGED <<info, memory, held>>
  PROVE  IInv'
<1>. DEFINE task == [kind |-> kind, data |-> d]
<1>1. /\ task \in Tasks /\ task.kind = kind /\ task.data = d /\ Push(s, task)
      /\ s \in Streams /\ s \in Workers /\ Idle.at = "idle" /\ doing[x].at # "use"
  BY StreamFacts DEF Tasks, Idle
<1>. HIDE DEF task
<1>0. PICK n \in Nat : PushedAt(n, s, task, x, Idle)
  BY <1>1, PushPlaces
<1>2. /\ \A k \in Nat : \A i : UseAt(s, k, i) => k < n
      /\ \A t \in Streams, k \in Nat : \A i : UseAt(t, k, i)' =>
           \/ UseAt(t, k, i)
           \/ t = s /\ k = n /\ task.kind = "use" /\ task.data = i
      /\ \A t \in Streams, k \in Nat : \A i : RecordAt(t, k, i) => RecordAt(t, k, i)'
      /\ \A y \in Workers, k \in Nat : \A i : ReleaseAt(y, k, i)' =>
           \/ ReleaseAt(y, k, i) /\ ~(y = x /\ k = 0)
           \/ /\ y = s /\ k = n /\ task.data = i
              /\ task.kind \in {"freeOnAlloc", "freeOnJoin"}
      /\ \A y \in Queues, k \in Nat : \A i : OnAllocAt(y, k, i)' =>
           \/ OnAllocAt(y, k, i)
           \/ y = s /\ k = n /\ task.kind = "freeOnAlloc" /\ task.data = i
      /\ \A i : ~(task.kind = "use" /\ task.data = i) => Referring(i)' \subseteq Referring(i)
      /\ queue' \in [Streams -> Seq(Tasks)]
      /\ DOMAIN doing' = Workers /\ doing'[x] = Idle
      /\ \A y \in Workers : y # x => doing'[y] = doing[y]
      /\ \A t \in Streams : \A k \in DOMAIN queue'[t] :
           \/ k \in DOMAIN queue[t] /\ queue'[t][k] = queue[t][k]
           \/ t = s /\ queue'[t][k] = task
  BY <1>0 DEF PushedAt
<1>3. \A t \in Streams, k \in Nat : \A i : UseAt(t, k, i)' => UseAt(t, k, i)
  BY <1>1, <1>2
<1>4. ReleaseAt(x, 0, d)
  BY DEF ReleaseAt
<1>5. /\ d \in DOMAIN info /\ d \notin held /\ Referring(d) = {}
      /\ \A y \in Workers, k \in Nat : ReleaseAt(y, k, d) => y = x /\ k = 0
  BY <1>4 DEF IInv, Released
<1>6. Shape'
  BY <1>2 DEF IInv, Shape
<1>7. Queued'
  <2>. SUFFICES ASSUME NEW t \in Streams, NEW k \in DOMAIN queue'[t]
                PROVE  /\ queue'[t][k].kind = "use" => t \in Users
                       /\ queue'[t][k].kind \in {"freeOnAlloc", "freeOnJoin"} => t \in Queues
                       /\ queue'[t][k].kind = "freeOnJoin" => t = Join
    BY DEF Queued
  <2>1. CASE k \in DOMAIN queue[t] /\ queue'[t][k] = queue[t][k]
    BY <2>1 DEF IInv, Queued
  <2>2. CASE t = s /\ queue'[t][k] = task
    BY <2>2, <1>1
  <2>. QED
    BY <2>1, <2>2, <1>2
<1>8. Doings'
  BY <1>1, <1>2 DEF IInv, Doings
<1>9. Marked'
  <2>. SUFFICES ASSUME NEW i \in Data, NEW t \in Streams, NEW k \in Nat, UseAt(t, k, i)'
                PROVE  \/ /\ i \in DOMAIN info' /\ t \in info'[i].deps
                          /\ \E l \in Nat : k < l /\ RecordAt(t, l, i)'
                       \/ Marking(i, t)'
    BY DEF Marked
  <2>1. UseAt(t, k, i)
    BY <1>3
  <2>2. CASE Marking(i, t)
    BY <2>2, <1>2, StreamFacts DEF Marking
  <2>3. CASE /\ i \in DOMAIN info /\ t \in info[i].deps
             /\ \E l \in Nat : k < l /\ RecordAt(t, l, i)
    BY <2>3, <1>2
  <2>. QED
    BY <2>1, <2>2, <2>3 DEF IInv, Marked
<1>10. Behind'
  <2>. SUFFICES ASSUME NEW i \in Data, NEW y \in Queues, NEW k \in Nat, OnAllocAt(y, k, i)',
                       NEW t \in Streams, NEW l \in Nat, UseAt(t, l, i)'
                PROVE  t = y /\ l < k
    BY DEF Behind
  <2>1. UseAt(t, l, i)
    BY <1>3
  <2>2. CASE OnAllocAt(y, k, i)
    BY <2>1, <2>2 DEF IInv, Behind
  <2>3. CASE y = s /\ k = n /\ task.kind = "freeOnAlloc" /\ task.data = i
    <3>1. i = d /\ kind = "freeOnAlloc"
      BY <2>3, <1>1
    <3>2. ~Marking(d, t)
      BY <1>5, StreamFacts DEF IInv, Doings, Marking
    <3>3. t \in info[d].deps
      BY <2>1, <3>1, <3>2 DEF IInv, Marked
    <3>4. t = s
      BY <3>1, <3>3
    <3>. QED
      BY <2>1, <2>3, <3>4, <1>2
  <2>. QED
    BY <2>2, <2>3, <1>2
<1>11. Kept'
  <2>1. doing'[Join].at = "forget" => doing'[Join] = doing[Join]
    BY <1>1, <1>2, StreamFacts
  <2>. QED
    BY <1>3, <2>1 DEF IInv, Kept
<1>12. Released'
  <2>. SUFFICES ASSUME NEW i \in Data, NEW y \in Workers, NEW k \in Nat, ReleaseAt(y, k, i)'
                PROVE  /\ i \in DOMAIN info' /\ i \notin held' /\ Referring(i)' = {}
                       /\ \A z \in Workers, l \in Nat :
                            ReleaseAt(z, l, i)' => z = y /\ l = k
    BY DEF Released
  <2>1. Referring(i)' \subseteq Referring(i)
    BY <1>1, <1>2
  <2>2. CASE i = d
    <3>1. \A z \in Workers, l \in Nat : ReleaseAt(z, l, i)' => z = s /\ l = n
      BY <2>2, <1>2, <1>5
    <3>. QED
      BY <2>1, <2>2, <3>1, <1>5
  <2>3. CASE i # d
    <3>1. \A z \in Workers, l \in Nat : ReleaseAt(z, l, i)' => ReleaseAt(z, l, i)
      BY <2>3, <1>1, <1>2
    <3>. QED
      BY <2>1, <3>1 DEF IInv, Released
  <2>. QED
    BY <2>2, <2>3
<1>. QED
  BY <1>6, <1>7, <1>8, <1>9, <1>10, <1>11, <1>12 DEF IInv

LEMMA FreeIInv ==
  ASSUME IInv, NEW x \in Workers, FreeDataSpace(x)
  PROVE  IInv'
<1>1. PICK d \in Data : doing[x].at = "free" /\ doing[x].data = d
  BY DEF FreeDataSpace, IInv, Doings
<1>2. ReleaseAt(x, 0, d) /\ UNCHANGED <<info, memory, held>>
  BY <1>1 DEF ReleaseAt, FreeDataSpace
<1>3. d \in DOMAIN info
  BY <1>2 DEF IInv, Released
<1>4. /\ info[d].alloc_stream \in Queues \cup {Blocking}
      /\ \A i \in DOMAIN info : info[i] \in [alloc_stream : Queues \cup {Blocking},
                                             deps : SUBSET Users]
  BY <1>3 DEF IInv, Shape
<1>5. CASE NothingToDo(info[d])
  <2>1. Goes(x, Idle) /\ UNCHANGED queue /\ Idle.at = "idle"
    BY <1>1, <1>5 DEF FreeDataSpace, Idle
  <2>. QED
    BY <1>1, <1>2, <2>1, WorkerIInv
<1>6. CASE ~NothingToDo(info[d]) /\ OnlyAllocStream(info[d])
  <2>1. info[d].alloc_stream \in Queues /\ info[d].deps \subseteq {info[d].alloc_stream}
    BY <1>4, <1>6 DEF NothingToDo, OnlyAllocStream
  <2>2. EnqueueLocked(x, info[d].alloc_stream, [kind |-> "freeOnAlloc", data |-> d])
    BY <1>1, <1>6 DEF FreeDataSpace
  <2>3. CASE HasRoom(info[d].alloc_stream)
    <3>1. PICK s \in Queues : s = info[d].alloc_stream
      BY <2>1
    <3>2. Push(s, [kind |-> "freeOnAlloc", data |-> d]) /\ Goes(x, Idle)
      BY <2>2, <2>3, <3>1 DEF EnqueueLocked
    <3>. QED
      BY <1>1, <1>2, <2>1, <3>1, <3>2, FreeQueuedIInv
  <2>4. CASE ~HasRoom(info[d].alloc_stream)
    BY <1>2, <1>4, <2>2, <2>4, WaitingIInv DEF EnqueueLocked
  <2>. QED
    BY <2>3, <2>4
<1>7. CASE ~NothingToDo(info[d]) /\ ~OnlyAllocStream(info[d])
  <2>1. EnqueueLocked(x, Join, [kind |-> "freeOnJoin", data |-> d])
    BY <1>1, <1>7 DEF FreeDataSpace
  <2>2. CASE HasRoom(Join)
    <3>1. Push(Join, [kind |-> "freeOnJoin", data |-> d]) /\ Goes(x, Idle)
      BY <2>1, <2>2 DEF EnqueueLocked
    <3>. QED
      BY <1>1, <1>2, <3>1, StreamFacts, FreeQueuedIInv
  <2>3. CASE ~HasRoom(Join)
    BY <1>2, <1>4, <2>1, <2>3, WaitingIInv DEF EnqueueLocked
  <2>. QED
    BY <2>2, <2>3
<1>. QED
  BY <1>5, <1>6, <1>7-----------------------------------------------------------------------------
\* What it brings about that the first task of s goes: on s all are one place nearer.
PoppedAt(s, x, what) ==
  /\ \A t \in Streams \ {s}, k \in Nat : \A d : UseAt(t, k, d)' => UseAt(t, k, d)
  /\ \A k \in Nat : \A d : UseAt(s, k, d)' => UseAt(s, k + 1, d)
  /\ \A t \in Streams \ {s}, k \in Nat : \A d : RecordAt(t, k, d) => RecordAt(t, k, d)'
  /\ \A k \in Nat : \A d : k > 1 /\ RecordAt(s, k, d) => RecordAt(s, k - 1, d)'
  /\ \A y \in Workers \ {s}, k \in Nat : \A d : ReleaseAt(y, k, d)' => ReleaseAt(y, k, d)
  /\ \A k \in Nat : \A d : s \in Workers /\ ReleaseAt(s, k, d)' => ReleaseAt(s, k + 1, d)
  /\ \A y \in Queues \ {s}, k \in Nat : \A d : OnAllocAt(y, k, d)' => OnAllocAt(y, k, d)
  /\ \A k \in Nat : \A d : s \in Queues /\ OnAllocAt(s, k, d)' => OnAllocAt(s, k + 1, d)
  /\ \A d : Referring(d)' \subseteq Referring(d)
  /\ queue' \in [Streams -> Seq(Tasks)]
  /\ DOMAIN doing' = Workers /\ doing'[x] = what
  /\ \A y \in Workers : y # x => doing'[y] = doing[y]
  /\ \A t \in Streams : \A k \in DOMAIN queue'[t] :
       \E l \in DOMAIN queue[t] : queue'[t][k] = queue[t][l]

\* x is the stream's worker, or, of a GPU's stream, any that goes on with what it does.
LEMMA PopPlaces ==
  ASSUME IInv, NEW s \in Streams, queue[s] # << >>,
         queue' = [queue EXCEPT ![s] = Tail(queue[s])],
         NEW x \in Workers, NEW what,
         \/ s \in GpuStreams /\ what = doing[x] /\ UNCHANGED doing
         \/ /\ x = s /\ s \in Queues /\ doing[s] = Idle /\ Goes(x, what)
            /\ \/ what = Idle
               \/ /\ what.at = queue[s][1].kind /\ what.data = queue[s][1].data
                  /\ what.task = queue[s][1]
  PROVE  PoppedAt(s, x, what)
<1>1. /\ DOMAIN doing' = Workers /\ doing'[x] = what
      /\ \A y \in Workers : y # x => doing'[y] = doing[y]
  BY DEF Goes, IInv, Shape
<1>2. /\ \A y \in Queues : y \in Workers /\ y \in Streams
      /\ s \in GpuStreams => s \notin Workers /\ s \notin Queues
  BY StreamFacts
<1>3. /\ queue' \in [Streams -> Seq(Tasks)]
      /\ 1 \in DOMAIN queue[s]
      /\ queue[s][1].kind \in {"use", "record", "freeOnAlloc", "freeOnJoin"}
      /\ \A k \in DOMAIN queue'[s] : /\ k \in Nat /\ k > 0 /\ k + 1 \in DOMAIN queue[s]
                                     /\ queue'[s][k] = queue[s][k + 1]
      /\ \A k \in DOMAIN queue[s] : k > 1 => /\ k - 1 \in DOMAIN queue'[s]
                                             /\ queue'[s][k - 1] = queue[s][k]
      /\ \A t \in Streams : t # s => queue'[t] = queue[t]
  BY Popped DEF IInv, Tasks
<1>4. Idle.at = "idle"
  BY DEF Idle
<1>5. \/ s \in GpuStreams /\ s \notin Queues /\ \A y \in Workers : doing'[y] = doing[y]
      \/ /\ s \in Queues /\ x = s
         /\ \A y \in Workers : y # s => doing'[y] = doing[y]
         /\ \/ doing'[s].at = "idle"
            \/ /\ doing'[s].at = queue[s][1].kind /\ doing'[s].data = queue[s][1].data
               /\ doing'[s].task = queue[s][1]
  BY <1>1, <1>2, <1>4
<1>6. /\ \A t \in Streams \ {s}, k \in Nat : \A d : UseAt(t, k, d)' => UseAt(t, k, d)
      /\ \A k \in Nat : \A d : UseAt(s, k, d)' => UseAt(s, k + 1, d)
  <2>1. \A t \in Streams \ {s}, k \in Nat : \A d : UseAt(t, k, d)' => UseAt(t, k, d)
    BY <1>2, <1>3, <1>5 DEF UseAt
  <2>2. \A k \in Nat : \A d : UseAt(s, k, d)' => UseAt(s, k + 1, d)
    BY <1>2, <1>3, <1>5 DEF UseAt
  <2>. QED
    BY <2>1, <2>2
<1>7. /\ \A t \in Streams \ {s}, k \in Nat : \A d : RecordAt(t, k, d) => RecordAt(t, k, d)'
      /\ \A k \in Nat : \A d : k > 1 /\ RecordAt(s, k, d) => RecordAt(s, k - 1, d)'
  BY <1>3 DEF RecordAt
<1>8. \A y \in Workers \ {s}, k \in Nat : \A d : ReleaseAt(y, k, d)' => ReleaseAt(y, k, d)
  BY <1>2, <1>3, <1>5 DEF ReleaseAt, QueuedRelease
<1>9. \A k \in Nat : \A d : s \in Workers /\ ReleaseAt(s, k, d)' => ReleaseAt(s, k + 1, d)
  <2>. SUFFICES ASSUME NEW k \in Nat, NEW d, s \in Workers, ReleaseAt(s, k, d)'
                PROVE  ReleaseAt(s, k + 1, d)
    OBVIOUS
  <2>1. s \in Queues
    BY <1>2, <1>5
  <2>. QED
    BY <2>1, <1>3, <1>5 DEF ReleaseAt, QueuedRelease
<1>10. /\ \A y \in Queues \ {s}, k \in Nat : \A d : OnAllocAt(y, k, d)' => OnAllocAt(y, k, d)
       /\ \A k \in Nat : \A d : s \in Queues /\ OnAllocAt(s, k, d)' => OnAllocAt(s, k + 1, d)
  BY <1>2, <1>3, <1>5 DEF OnAllocAt, QueuedRelease
<1>11. \A d : Referring(d)' \subseteq Referring(d)
  <2>. SUFFICES ASSUME NEW d, NEW t \in Referring(d)' PROVE t \in Referring(d)
    OBVIOUS
  <2>1. t \in Queues /\ t \in Streams /\ t \in Workers
    BY <1>2 DEF Referring
  <2>2. CASE \E k \in DOMAIN queue'[t] : IsReference(queue'[t][k], d)
    BY <2>1, <2>2, <1>3 DEF Referring
  <2>3. CASE doing'[t].at = "use" /\ IsReference(doing'[t].task, d)
    BY <2>1, <2>3, <1>3, <1>5 DEF Referring
  <2>. QED
    BY <2>2, <2>3 DEF Referring
<1>12. \A t \in Streams : \A k \in DOMAIN queue'[t] :
         \E l \in DOMAIN queue[t] : queue'[t][k] = queue[t][l]
  BY <1>3
<1>. QED
  BY <1>1, <1>3, <1>6, <1>7, <1>8, <1>9, <1>10, <1>11, <1>12 DEF PoppedAt
\* Places on a stream keep their order, and what the worker goes on with was first.
LEMMA PopIInv ==
  ASSUME IInv, NEW s \in Streams, queue[s] # << >>,
         NEW x \in Workers, NEW what, PoppedAt(s, x, what),
         UNCHANGED <<info, memory, held>>,
         \/ what = doing[x]
         \/ /\ x = s /\ doing[s] = Idle
            /\ \/ what = Idle
               \/ /\ what.at = queue[s][1].kind /\ what.data = queue[s][1].data
                  /\ what.task = queue[s][1] /\ what.at # "record"
  PROVE  IInv'
<1>1. /\ \A k \in Nat : k + 1 \in Nat /\ k + 1 > k
      /\ Idle.at = "idle" /\ 1 \in DOMAIN queue[s] /\ queue[s][1] \in Tasks
  <2>1. 1 \in DOMAIN queue[s]
    BY PlaceNumbers DEF IInv
  <2>. QED
    BY <2>1, PlaceNumbers DEF IInv, Idle
<1>2. Shape'
  BY DEF IInv, Shape, PoppedAt
<1>3. Queued'
  BY DEF IInv, Queued, PoppedAt
<1>4. Doings'
  <2>1. \A y \in Workers : y # x => doing'[y] = doing[y]
    BY DEF PoppedAt
  <2>2. doing'[x] = what
    BY DEF PoppedAt
  <2>3. CASE what = doing[x] \/ what = Idle
    BY <1>1, <2>1, <2>2, <2>3 DEF IInv, Doings
  <2>4. CASE /\ x = s /\ what.at = queue[s][1].kind /\ what.data = queue[s][1].data
             /\ what.task = queue[s][1] /\ what.at # "record"
    <3>1. /\ what.at \in {"use", "freeOnAlloc", "freeOnJoin"} /\ what.data \in Data
          /\ what.task.kind = what.at /\ what.task.data = what.data
      BY <1>1, <2>4 DEF Tasks
    <3>2. /\ what.at = "use" => x \in CpuStreams
          /\ what.at \in {"freeOnAlloc", "freeOnJoin"} => x \in Queues
          /\ what.at = "freeOnJoin" => x = Join
      BY <1>1, <2>4, StreamFacts DEF IInv, Queued, Users
    <3>. QED
      BY <2>1, <2>2, <3>1, <3>2 DEF IInv, Doings
  <2>. QED
    BY <2>3, <2>4
<1>5. /\ \A d : Marking(d, s) => Marking(d, s)'
      /\ \A d, t : Marking(d, t) => Marking(d, t)'
  BY <1>1, StreamFacts DEF PoppedAt, Marking
<1>6. Marked'
  <2>. SUFFICES ASSUME NEW d \in Data, NEW t \in Streams, NEW k \in Nat, UseAt(t, k, d)'
                PROVE  \/ /\ d \in DOMAIN info /\ t \in info[d].deps
                          /\ \E l \in Nat : k < l /\ RecordAt(t, l, d)'
                       \/ Marking(d, t)'
    BY DEF Marked
  <2>1. CASE t = s
    <3>1. UseAt(s, k + 1, d)
      BY <2>1 DEF PoppedAt
    <3>2. CASE /\ d \in DOMAIN info /\ s \in info[d].deps
               /\ \E l \in Nat : k + 1 < l /\ RecordAt(s, l, d)
      <4>1. PICK l \in Nat : k + 1 < l /\ RecordAt(s, l, d)
        BY <3>2
      <4>2. l > 1 /\ l - 1 \in Nat /\ k < l - 1
        BY <4>1
      <4>3. RecordAt(s, l - 1, d)'
        BY <4>1, <4>2 DEF PoppedAt
      <4>. QED
        BY <2>1, <3>2, <4>2, <4>3
    <3>. QED
      BY <1>1, <1>5, <2>1, <3>1, <3>2 DEF IInv, Marked
  <2>2. CASE t # s
    <3>1. UseAt(t, k, d) /\ t \in Streams \ {s}
      BY <2>2 DEF PoppedAt
    <3>2. CASE /\ d \in DOMAIN info /\ t \in info[d].deps
               /\ \E l \in Nat : k < l /\ RecordAt(t, l, d)
      BY <3>1, <3>2 DEF PoppedAt
    <3>. QED
      BY <1>5, <3>1, <3>2 DEF IInv, Marked
  <2>. QED
    BY <2>1, <2>2
<1>7. Behind'
  <2>. SUFFICES ASSUME NEW d \in Data, NEW y \in Queues, NEW k \in Nat, OnAllocAt(y, k, d)',
                       NEW t \in Streams, NEW l \in Nat, UseAt(t, l, d)'
                PROVE  t = y /\ l < k
    BY DEF Behind
  <2>1. CASE y = s /\ t = s
    <3>1. OnAllocAt(s, k + 1, d) /\ UseAt(s, l + 1, d)
      BY <2>1 DEF PoppedAt
    <3>2. l + 1 < k + 1
      BY <1>1, <2>1, <3>1 DEF IInv, Behind
    <3>. QED
      BY <2>1, <3>2
  <2>2. CASE y = s /\ t # s
    <3>1. OnAllocAt(s, k + 1, d) /\ UseAt(t, l, d)
      BY <2>2 DEF PoppedAt
    <3>. QED
      BY <1>1, <2>2, <3>1 DEF IInv, Behind
  <2>3. CASE y # s /\ t = s
    <3>1. OnAllocAt(y, k, d) /\ UseAt(s, l + 1, d)
      BY <2>3 DEF PoppedAt
    <3>. QED
      BY <1>1, <2>3, <3>1 DEF IInv, Behind
  <2>4. CASE y # s /\ t # s
    <3>1. OnAllocAt(y, k, d) /\ UseAt(t, l, d)
      BY <2>4 DEF PoppedAt
    <3>. QED
      BY <3>1 DEF IInv, Behind
  <2>. QED
    BY <2>1, <2>2, <2>3, <2>4
<1>8. Kept'
  <2>1. \A d \in Data, t \in Streams, k \in Nat : UseAt(t, k, d)' => d \in memory
    <3>. SUFFICES ASSUME NEW d \in Data, NEW t \in Streams, NEW k \in Nat, UseAt(t, k, d)'
                  PROVE  d \in memory
      OBVIOUS
    <3>1. UseAt(t, k, d) \/ UseAt(t, k + 1, d)
      BY DEF PoppedAt
    <3>. QED
      BY <1>1, <3>1 DEF IInv, Kept
  <2>2. doing'[Join].at = "forget" => doing'[Join] = doing[Join]
    <3>1. CASE x = Join
      <4>1. doing'[Join] = what
        BY <3>1 DEF PoppedAt
      <4>. QED
        BY <1>1, <3>1, <4>1 DEF Tasks
    <3>2. CASE x # Join
      BY <3>2, StreamFacts DEF PoppedAt
    <3>. QED
      BY <3>1, <3>2
  <2>. QED
    BY <2>1, <2>2 DEF IInv, Kept
<1>9. Released'
  <2>. SUFFICES ASSUME NEW d \in Data, NEW y \in Workers, NEW k \in Nat, ReleaseAt(y, k, d)'
                PROVE  /\ d \in DOMAIN info /\ d \notin held /\ Referring(d)' = {}
                       /\ \A z \in Workers, l \in Nat :
                            ReleaseAt(z, l, d)' => z = y /\ l = k
    BY DEF Released
  <2>1. \A z \in Workers, l \in Nat : ReleaseAt(z, l, d)' =>
          \/ z # s /\ ReleaseAt(z, l, d)
          \/ z = s /\ ReleaseAt(z, l + 1, d)
    BY DEF PoppedAt
  <2>2. d \in DOMAIN info /\ d \notin held /\ Referring(d) = {}
    BY <1>1, <2>1 DEF IInv, Released
  <2>3. Referring(d)' = {}
    BY <2>2 DEF PoppedAt
  <2>4. ASSUME NEW z \in Workers, NEW l \in Nat, ReleaseAt(z, l, d)' PROVE z = y /\ l = k
    <3>1. PICK a \in Nat : ReleaseAt(y, a, d) /\ a = IF y = s THEN k + 1 ELSE k
      BY <1>1, <2>1
    <3>2. PICK b \in Nat : ReleaseAt(z, b, d) /\ b = IF z = s THEN l + 1 ELSE l
      BY <1>1, <2>1, <2>4
    <3>3. z = y /\ a = b
      BY <3>1, <3>2 DEF IInv, Released
    <3>. QED
      BY <3>1, <3>2, <3>3
  <2>. QED
    BY <2>2, <2>3, <2>4
<1>. QED
  BY <1>2, <1>3, <1>4, <1>6, <1>7, <1>8, <1>9 DEF IInv

LEMMA RunTaskIInv ==
  ASSUME IInv, NEW s \in Queues, RunTask(s)
  PROVE  IInv'
<1>. PICK what : what = IF Head(queue[s]).kind = "record" THEN Idle
                        ELSE [at |-> Head(queue[s]).kind, data |-> Head(queue[s]).data,
                              task |-> Head(queue[s])]
  OBVIOUS
<1>1. /\ s \in Streams /\ s \in Workers /\ doing[s] = Idle /\ queue[s] # << >>
      /\ queue' = [queue EXCEPT ![s] = Tail(queue[s])]
      /\ Goes(s, what) /\ UNCHANGED <<info, memory, held>>
  BY StreamFacts DEF RunTask
<1>2. Head(queue[s]) = queue[s][1]
  BY <1>1, Popped DEF IInv
<1>3. \/ what = Idle
      \/ /\ what.at = queue[s][1].kind /\ what.data = queue[s][1].data
         /\ what.task = queue[s][1] /\ what.at # "record"
  BY <1>2
<1>4. PoppedAt(s, s, what)
  BY <1>1, <1>3, PopPlaces
<1>. QED
  BY <1>1, <1>3, <1>4, PopIInv

LEMMA CompleteIInv ==
  ASSUME IInv, NEW s \in GpuStreams, Complete(s)
  PROVE  IInv'
<1>1. /\ s \in Streams /\ Main \in Workers /\ queue[s] # << >>
      /\ queue' = [queue EXCEPT ![s] = Tail(queue[s])]
      /\ UNCHANGED <<info, memory, held, doing>>
  BY StreamFacts DEF Complete, Streams
<1>2. PoppedAt(s, Main, doing[Main])
  BY <1>1, PopPlaces
<1>. QED
  BY <1>1, <1>2, PopIInv
\* A block's id is new to the pool, though not new: none of an earlier block's uses
\* and releases is left under way.
LEMMA AllocIInv ==
  ASSUME IInv, NEW d \in Data, NEW s \in Streams \cup {Blocking}, AllocDataSpace(d, s)
  PROVE  IInv'
<1>1. /\ d \notin DOMAIN info /\ UNCHANGED <<queue, doing>> /\ doing[Main].at = "idle"
      /\ DOMAIN info' = DOMAIN info \cup {d}
      /\ info'[d] = [alloc_stream |-> AllocStream(s), deps |-> {}]
      /\ \A i \in DOMAIN info : info'[i] = info[i]
      /\ memory' = memory \cup {d} /\ held' = held \cup {d}
  BY DEF AllocDataSpace, Idle
<1>2. AllocStream(s) \in Queues \cup {Blocking}
  BY StreamFacts DEF AllocStream, Streams
<1>3. NotUsed(d) /\ NotReleased(d)
  BY <1>1 DEF IInv, Kept, Released, NotUsed, NotReleased
<1>4. /\ \A t, k, i : UseAt(t, k, i)' <=> UseAt(t, k, i)
      /\ \A t, k, i : RecordAt(t, k, i)' <=> RecordAt(t, k, i)
      /\ \A t, k, i : ReleaseAt(t, k, i)' <=> ReleaseAt(t, k, i)
      /\ \A t, k, i : OnAllocAt(t, k, i)' <=> OnAllocAt(t, k, i)
      /\ \A t, i : Marking(i, t)' <=> Marking(i, t)
      /\ \A i : Referring(i)' = Referring(i)
  BY <1>1 DEF UseAt, RecordAt, ReleaseAt, OnAllocAt, QueuedRelease, Marking, Referring
<1>5. Shape'
  BY <1>1, <1>2 DEF IInv, Shape
<1>6. Queued' /\ Doings'
  BY <1>1 DEF IInv, Queued, Doings
<1>7. Marked'
  BY <1>1, <1>3, <1>4 DEF IInv, Marked, NotUsed
<1>8. Behind'
  BY <1>4 DEF IInv, Behind
<1>9. Kept'
  <2>1. doing[Join].at = "forget" => doing[Join].data # d
    <3>1. SUFFICES ASSUME doing[Join].at = "forget", doing[Join].data = d PROVE FALSE
      OBVIOUS
    <3>2. ReleaseAt(Join, 0, d) /\ Join \in Workers
      BY <3>1, StreamFacts DEF ReleaseAt
    <3>. QED
      BY <3>2, <1>3 DEF NotReleased
  <2>. QED
    BY <2>1, <1>1, <1>4 DEF IInv, Kept
<1>10. Released'
  BY <1>1, <1>3, <1>4 DEF IInv, Released, NotReleased
<1>. QED
  BY <1>5, <1>6, <1>7, <1>8, <1>9, <1>10 DEF IInv

LEMMA InitIInv == Init => IInv
<1>. SUFFICES ASSUME Init PROVE IInv
  OBVIOUS
<1>1. /\ \A s \in Streams : DOMAIN queue[s] = {} /\ queue[s] = << >>
      /\ \A x \in Workers : doing[x].at = "idle"
  BY DEF Init, Idle, Workers
<1>2. /\ \A s \in Streams, k \in Nat : \A d : ~UseAt(s, k, d)
      /\ \A s \in Queues, k \in Nat : \A d : ~OnAllocAt(s, k, d)
      /\ \A x \in Workers, k \in Nat : \A d : ~ReleaseAt(x, k, d)
  BY <1>1, StreamFacts DEF UseAt, OnAllocAt, ReleaseAt, QueuedRelease
<1>3. Shape
  BY <1>1 DEF Init, Shape, Workers
<1>4. Queued /\ Doings
  BY <1>1 DEF Queued, Doings
<1>5. Marked /\ Behind /\ Released
  BY <1>2 DEF Marked, Behind, Released
<1>6. Kept
  BY <1>1, <1>2, StreamFacts DEF Init, Kept
<1>. QED
  BY <1>3, <1>4, <1>5, <1>6 DEF IInv
-----------------------------------------------------------------------------
\* The places of uses, events and frees are as IInv says in every reachable state:
\* the handlers of CPUMemoryPool keep it, with the task queues of the streams.
THEOREM Inductive == Spec => []IInv
<1>1. IInv /\ [Next]_vars => IInv'
  <2>. SUFFICES ASSUME IInv, [Next]_vars PROVE IInv'
    OBVIOUS
  <2>1. CASE Call
    <3>1. ASSUME NEW d \in Data, NEW s \in Streams, AllocDataSpace(d, s) PROVE IInv'
      BY <3>1, AllocIInv
    <3>2. ASSUME NEW d \in Data, BorrowDataSpace(d) PROVE IInv'
      BY <3>2, AllocIInv DEF BorrowDataSpace
    <3>3. ASSUME NEW d \in Data, NEW s \in CpuStreams \cup GpuStreams, NEW refers \in BOOLEAN,
                 Launch(d, s, refers)
          PROVE IInv'
      BY <3>3, LaunchIInv
    <3>4. ASSUME NEW d \in Data, Drop(d) PROVE IInv'
      BY <3>4, DropIInv
    <3>5. CASE Exit
      BY <3>5, ExitIInv
    <3>. QED
      BY <2>1, <3>1, <3>2, <3>3, <3>4, <3>5 DEF Call
  <2>2. ASSUME NEW x \in Queues \cup {Main}, Proceed(x) PROVE IInv'
    <3>1. CASE FreeDataSpace(x)
      BY <3>1, FreeIInv DEF Workers
    <3>2. CASE MarkDataSpaceUsed \/ RecordExit \/ FinishExit
      BY <3>2, MarkIInv, ExitIInv
    <3>3. CASE x \in Queues /\ RunTask(x)
      BY <3>3, RunTaskIInv
    <3>4. CASE x \in Queues /\ (EndUse(x) \/ FreeOnAllocStream(x))
      BY <3>4, EndUseIInv, FreeOnAllocStreamIInv
    <3>5. CASE LookUp \/ SyncEvents \/ ForgetJoined
      BY <3>5, JoinIInv
    <3>. QED
      BY <2>2, <3>1, <3>2, <3>3, <3>4, <3>5 DEF Proceed
  <2>3. ASSUME NEW s \in GpuStreams, Complete(s) PROVE IInv'
    BY <2>3, CompleteIInv
  <2>4. CASE UNCHANGED vars
    BY <2>4, WaitingIInv DEF vars, IInv, Shape
  <2>. QED
    BY <2>1, <2>2, <2>3, <2>4 DEF Next, Finished
<1>. QED
  BY <1>1, InitIInv, PTL DEF Spec

\* No use of a block, waiting or under way on any stream, meets memory that was
\* given back: FreeDataSpace puts the free behind it in its queue or its event.
THEOREM UsedKept == Spec => []UsedMemoryKept
<1>1. IInv => UsedMemoryKept
  <2>. SUFFICES ASSUME IInv, NEW s \in Streams
                PROVE  /\ \A k \in DOMAIN queue[s] :
                            queue[s][k].kind = "use" => queue[s][k].data \in memory
                       /\ s \in Queues /\ doing[s].at = "use" => doing[s].data \in memory
    BY DEF UsedMemoryKept
  <2>1. ASSUME NEW k \in DOMAIN queue[s], queue[s][k].kind = "use"
        PROVE  queue[s][k].data \in memory
    <3>1. k \in Nat /\ queue[s][k].data \in Data
      BY <2>1, PlaceNumbers DEF IInv, Tasks
    <3>2. UseAt(s, k, queue[s][k].data)
      BY <2>1 DEF UseAt
    <3>. QED
      BY <3>1, <3>2 DEF IInv, Kept
  <2>2. ASSUME s \in Queues, doing[s].at = "use" PROVE doing[s].data \in memory
    <3>1. doing[s].data \in Data /\ UseAt(s, 0, doing[s].data)
      BY <2>2, StreamFacts DEF IInv, Doings, UseAt
    <3>. QED
      BY <3>1 DEF IInv, Kept
  <2>. QED
    BY <2>1, <2>2
<1>. QED
  BY <1>1, Inductive, PTL

\* A block that anybody refers to is not being freed, and no block twice, by the
\* program and the workers together: NDArrays are destroyed once, and FreeDataSpace
\* hands each to one task.
THEOREM FreedOnceOnly == Spec => []FreedOnce
<1>1. IInv => FreedOnce
  <2>. SUFFICES ASSUME IInv, NEW d \in Data
                PROVE  /\ \/ d \in held \/ Referring(d) # {}
                          \/ d \notin DOMAIN info
                          => Releases(d) = {}
                       /\ Cardinality(Releases(d)) <= 1
    BY DEF FreedOnce
  <2>1. \A r \in Releases(d) :
          r = <<r[1], r[2]>> /\ r[1] \in Workers /\ r[2] \in Nat /\ ReleaseAt(r[1], r[2], d)
    BY BoundsAssumption, StreamFacts DEF Releases, ReleaseAt, QueuedRelease, Workers
  <2>2. \A r \in Releases(d) : d \in DOMAIN info /\ d \notin held /\ Referring(d) = {}
    BY <2>1 DEF IInv, Released
  <2>3. \A r, q \in Releases(d) : r = q
    <3>. SUFFICES ASSUME NEW r \in Releases(d), NEW q \in Releases(d) PROVE r = q
      OBVIOUS
    <3>1. r[1] = q[1] /\ r[2] = q[2]
      BY <2>1 DEF IInv, Released
    <3>. QED
      BY <2>1, <3>1
  <2>4. Releases(d) = {} \/ \E r \in Releases(d) : Releases(d) = {r}
    BY <2>3
  <2>5. Cardinality(Releases(d)) \in {0, 1}
    BY <2>4, FS_EmptySet, FS_Singleton
  <2>. QED
    BY <2>2, <2>5
<1>. QED
  BY <1>1, Inductive, PTL
=============================================================================
