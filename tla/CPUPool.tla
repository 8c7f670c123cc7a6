------------------------------ MODULE CPUPool ------------------------------
(***************************************************************************)
(* CPUMemoryPool (hetu/impl/memory/CPUMemoryPool.cc) and the streams it    *)
(* frees on.  A CPU stream is a TaskQueue with one worker                  *)
(* (hetu/impl/stream/CPUStream.cc, hetu/utils/task_queue.h); the streams   *)
(* of a GPU use host memory too, in copies.  To free a block the pool puts *)
(* a task behind the work that uses it: on the stream that allocated it,   *)
(* or, if others used it, on the join stream, where the task waits for     *)
(* their events.                                                           *)
(*                                                                         *)
(* One thread runs the program; tasks that hold the last reference to an   *)
(* array free it on their worker.  Blocks have no size here, and ids are   *)
(* used again.                                                             *)
(***************************************************************************)
EXTENDS Naturals, FiniteSets, SequencesExt

CONSTANTS
  Data,            \* ids of blocks
  CpuStreams,      \* non-blocking CPU streams besides the join stream
  GpuStreams, Join, Blocking,
  MaxPendingTasks, \* of a TaskQueue
  MaxUses,         \* bound: uses in flight on a stream, with their events on a GPU's
  Main, Nobody

Queues == CpuStreams \cup {Join}
Streams == Queues \cup GpuStreams

ASSUME StreamsAssumption ==
  /\ Join \notin CpuStreams /\ Queues \cap GpuStreams = {}
  /\ Blocking \notin Streams /\ Main \notin Streams /\ Nobody \notin Queues \cup {Main}
ASSUME BoundsAssumption == MaxPendingTasks \in Nat \ {0} /\ MaxUses \in Nat \ {0}

VARIABLES
  info,      \* _data_ptr_info: id -> stream that allocated and streams with an event
  memory,    \* ids whose memory is not given back yet
  held,      \* ids the program refers to
  queue,     \* of each stream, work not begun (of a GPU: not finished)
  doing,     \* what the program and each worker are at
  mutex      \* who has the pool's mutex

vars == <<info, memory, held, queue, doing, mutex>>

Idle == [at |-> "idle"]

Init ==
  /\ info = << >> /\ memory = {} /\ held = {}
  /\ queue = [s \in Streams |-> << >>]
  /\ doing = [x \in Queues \cup {Main} |-> Idle]
  /\ mutex = Nobody

Goes(x, what) == doing' = [doing EXCEPT ![x] = what]
Free(x) == mutex \in {Nobody, x}

\* Of TaskQueue: a GPU's own queue takes everything.
HasRoom(s) == s \in GpuStreams \/ Len(queue[s]) < MaxPendingTasks
Push(s, task) == queue' = [queue EXCEPT ![s] = Append(@, task)]

\* A step of x with the mutex that ends with EnqueueTask.  Without room x keeps the
\* mutex and is at the same step until there is some.
EnqueueLocked(x, s, task) ==
  IF HasRoom(s)
  THEN Push(s, task) /\ Goes(x, Idle) /\ mutex' = Nobody
  ELSE mutex' = x /\ UNCHANGED <<queue, doing>>

-----------------------------------------------------------------------------
AllocStream(s) == IF s \in GpuStreams THEN Join ELSE s

AllocDataSpace(d, s) ==
  /\ doing[Main] = Idle /\ Free(Main) /\ d \notin DOMAIN info
  /\ info' = [i \in DOMAIN info \cup {d} |->
                IF i = d THEN [alloc_stream |-> AllocStream(s), deps |-> {}] ELSE info[i]]
  /\ memory' = memory \cup {d}
  /\ held' = held \cup {d}
  /\ UNCHANGED <<queue, doing, mutex>>

\* As an allocation on the blocking stream, but for the deleter that gives it back.
BorrowDataSpace(d) == AllocDataSpace(d, Blocking)

InFlight(s) == IF s \in GpuStreams THEN Len(queue[s])
               ELSE Cardinality({k \in DOMAIN queue[s] : queue[s][k].kind = "use"})

\* A kernel's CPU task refers to its arrays, one of MPI or of a GPU only to memory.
Launch(d, s, refers) ==
  /\ doing[Main] = Idle /\ d \in held
  /\ refers => s \in CpuStreams
  /\ InFlight(s) < MaxUses
  /\ HasRoom(s)
  /\ Push(s, [kind |-> "use", data |-> d, refers |-> refers])
  /\ Goes(Main, [at |-> "mark", data |-> d, stream |-> s])
  /\ UNCHANGED <<info, memory, held, mutex>>

\* MarkDataSpaceUsedByStream, which follows every launch: an event on the stream
\* replaces the one before.
MarkDataSpaceUsed ==
  LET d == doing[Main].data
      s == doing[Main].stream
  IN  /\ doing[Main].at = "mark" /\ Free(Main)
      /\ info' = [info EXCEPT ![d].deps = @ \cup {s}]
      /\ EnqueueLocked(Main, s, [kind |-> "record", data |-> d])
      /\ UNCHANGED <<memory, held>>

\* The event of d on s: what was recorded last is the last in the queue.
EventDone(d, s) ==
  \A k \in DOMAIN queue[s] : queue[s][k] # [kind |-> "record", data |-> d]

\* Tasks begun or not that refer to d.
IsReference(task, d) == task.kind = "use" /\ task.data = d /\ task.refers
Referring(d) ==
  {s \in Queues : \/ \E k \in DOMAIN queue[s] : IsReference(queue[s][k], d)
                  \/ doing[s].at = "use" /\ IsReference(doing[s].task, d)}

Drop(d) ==
  /\ doing[Main] = Idle /\ d \in held
  /\ held' = held \ {d}
  /\ Goes(Main, IF Referring(d) = {} THEN [at |-> "free", data |-> d] ELSE Idle)
  /\ UNCHANGED <<info, memory, queue, mutex>>

\* Mutant: any one stream is taken for the one that allocated.
OneStream(b) == Cardinality(b.deps) <= 1

OnlyAllocStream(b) == b.deps \subseteq {b.alloc_stream}

\* Mutant: borrowed memory is never freed.
OfBlockingStream(b) == b.alloc_stream = Blocking

NothingToDo(b) == OnlyAllocStream(b) /\ b.alloc_stream = Blocking

FreeDataSpace(x) ==
  LET d == doing[x].data
      b == info[d]
  IN  /\ doing[x].at = "free" /\ Free(x)
      /\ IF NothingToDo(b) THEN Goes(x, Idle) /\ UNCHANGED <<queue, mutex>>
         ELSE IF OnlyAllocStream(b)
         THEN EnqueueLocked(x, b.alloc_stream, [kind |-> "freeOnAlloc", data |-> d])
         ELSE EnqueueLocked(x, Join, [kind |-> "freeOnJoin", data |-> d])
      /\ UNCHANGED <<info, memory, held>>

-----------------------------------------------------------------------------
\* The worker of s takes its next task.  A record is done with that.
RunTask(s) ==
  /\ doing[s] = Idle /\ queue[s] # << >>
  /\ queue' = [queue EXCEPT ![s] = Tail(@)]
  /\ Goes(s, LET task == Head(queue[s])
             IN  IF task.kind = "record" THEN Idle
                 ELSE [at |-> task.kind, data |-> task.data, task |-> task])
  /\ UNCHANGED <<info, memory, held, mutex>>

\* Mutant: the task frees its array though others refer to it.
NoneBesides(s, d) == Referring(d) = {s}

LastReference(s, d) ==
  /\ d \notin held /\ Referring(d) = {s}
  /\ \A k \in DOMAIN queue[s] : ~IsReference(queue[s][k], d)

\* The use ends and the task is destroyed, with the array if it is the last to refer
\* to it.
EndUse(s) ==
  LET d == doing[s].data
  IN  /\ doing[s].at = "use"
      /\ Goes(s, IF doing[s].task.refers /\ LastReference(s, d)
                 THEN [at |-> "free", data |-> d] ELSE Idle)
      /\ UNCHANGED <<info, memory, held, queue, mutex>>

GiveBack(d) == memory' = memory \ {d}
Forget(d) == info' = [i \in DOMAIN info \ {d} |-> info[i]]

FreeOnAllocStream(s) ==
  /\ doing[s].at = "freeOnAlloc" /\ Free(s)
  /\ GiveBack(doing[s].data) /\ Forget(doing[s].data)
  /\ Goes(s, Idle)
  /\ UNCHANGED <<held, queue, mutex>>

\* Mutant: the pool stays locked while the task waits for the events.
StayLocked == mutex' = Join

Unlock == mutex' = Nobody

\* _FreeOnJoinStream: looks the block up, waits for its events without the
\* mutex, gives it back, and takes the mutex again to forget it.
LookUp ==
  /\ doing[Join].at = "freeOnJoin" /\ Free(Join)
  /\ Goes(Join, [at |-> "sync", data |-> doing[Join].data])
  /\ Unlock
  /\ UNCHANGED <<info, memory, held, queue>>

SyncEvents ==
  /\ doing[Join].at = "sync"
  /\ \A s \in info[doing[Join].data].deps : EventDone(doing[Join].data, s)
  /\ GiveBack(doing[Join].data)
  /\ Goes(Join, [at |-> "forget", data |-> doing[Join].data])
  /\ UNCHANGED <<info, held, queue, mutex>>

ForgetJoined ==
  /\ doing[Join].at = "forget" /\ Free(Join)
  /\ Forget(doing[Join].data)
  /\ Goes(Join, Idle) /\ mutex' = Nobody
  /\ UNCHANGED <<memory, held, queue>>

\* A GPU finishes what is first in its queue (external).
Complete(s) ==
  /\ queue[s] # << >>
  /\ queue' = [queue EXCEPT ![s] = Tail(@)]
  /\ UNCHANGED <<info, memory, held, doing, mutex>>

\* The destructor, at exit: it takes the mutex, whatever is still to be freed, puts
\* an event on the join stream and waits for it.
Exit ==
  /\ doing[Main] = Idle /\ Free(Main)
  /\ Goes(Main, [at |-> "exit"]) /\ mutex' = Main
  /\ UNCHANGED <<info, memory, held, queue>>

RecordExit ==
  /\ doing[Main].at = "exit" /\ HasRoom(Join)
  /\ Push(Join, [kind |-> "record", data |-> Main])
  /\ Goes(Main, [at |-> "leaving"])
  /\ UNCHANGED <<info, memory, held, mutex>>

FinishExit ==
  /\ doing[Main].at = "leaving" /\ EventDone(Main, Join)
  /\ Goes(Main, [at |-> "done"]) /\ mutex' = Nobody
  /\ UNCHANGED <<info, memory, held, queue>>

-----------------------------------------------------------------------------
Call == \/ \E d \in Data :
             \/ \E s \in Streams : AllocDataSpace(d, s)
             \/ BorrowDataSpace(d)
             \/ \E s \in CpuStreams \cup GpuStreams, refers \in BOOLEAN :
                  Launch(d, s, refers)
             \/ Drop(d)
        \/ Exit

\* What a worker still does then it does to a destroyed pool: not modelled.
Over == doing[Main].at = "done"

\* What x goes on with once it has begun.
Proceed(x) == /\ ~Over
              /\ \/ FreeDataSpace(x)
                 \/ x = Main /\ (MarkDataSpaceUsed \/ RecordExit \/ FinishExit)
                 \/ x \in Queues /\ (RunTask(x) \/ EndUse(x) \/ FreeOnAllocStream(x))
                 \/ x = Join /\ (LookUp \/ SyncEvents \/ ForgetJoined)

Finished == Over /\ UNCHANGED vars

Next == \/ Call \/ Finished
        \/ \E x \in Queues \cup {Main} : Proceed(x)
        \/ \E s \in GpuStreams : ~Over /\ Complete(s)

\* Threads run, and one that asks for the mutex gets it in the end, though others
\* take it in between.
Spec == /\ Init /\ [][Next]_vars
        /\ \A x \in Queues \cup {Main} : SF_vars(Proceed(x))
        /\ \A s \in GpuStreams : WF_vars(~Over /\ Complete(s))

-----------------------------------------------------------------------------
\* Type invariant.
TypeOK ==
  /\ DOMAIN info \subseteq Data
  /\ \A d \in DOMAIN info : /\ info[d].alloc_stream \in Queues \cup {Blocking}
                            /\ info[d].deps \subseteq CpuStreams \cup GpuStreams
  /\ memory \subseteq DOMAIN info /\ held \subseteq memory
  /\ \A s \in Queues : Len(queue[s]) <= MaxPendingTasks
  /\ mutex # Nobody => doing[mutex].at \in {"mark", "free", "exit", "leaving"}

\* Memory is not given back while a task that uses it is still to come or is under
\* way on any stream: neither order on one stream nor the events of several may
\* leave a use behind the free.
UsedMemoryKept ==
  \A s \in Streams :
    /\ \A k \in DOMAIN queue[s] : queue[s][k].kind = "use" => queue[s][k].data \in memory
    /\ s \in Queues /\ doing[s].at = "use" => doing[s].data \in memory

\* The frees of d under way: tasks not begun, and threads that are at one.
Releases(d) ==
  {r \in Queues \X (1..MaxPendingTasks) :
     /\ r[2] \in DOMAIN queue[r[1]]
     /\ LET task == queue[r[1]][r[2]]
        IN  task.data = d /\ task.kind \in {"freeOnAlloc", "freeOnJoin"}}
  \cup {<<x, 0>> : x \in
          {y \in Queues \cup {Main} :
             /\ doing[y].at \in {"free", "freeOnAlloc", "freeOnJoin", "sync", "forget"}
             /\ doing[y].data = d}}

\* A block somebody refers to is not being freed, and one that nobody refers to is
\* freed once: "Cannot find data" is never raised by a second free.  What is only
\* borrowed has nothing under way (see NothingToDo).
FreedOnce ==
  \A d \in Data :
    LET referred == d \in held \/ Referring(d) # {}
    IN  /\ referred \/ d \notin DOMAIN info => Releases(d) = {}
        /\ Cardinality(Releases(d)) <= 1

\* The queue that x, with the mutex, puts its next task into.
Target(x) ==
  IF doing[x].at = "mark" THEN doing[x].stream
  ELSE IF doing[x].at = "free" /\ OnlyAllocStream(info[doing[x].data])
  THEN info[doing[x].data].alloc_stream ELSE Join

\* A worker that takes no other task before it has had the mutex.
NeedsMutex(s) == doing[s].at \in {"free", "freeOnAlloc", "freeOnJoin", "sync", "forget"}

\* The two ways in which the code stops for good.  Enqueue waits for room with the
\* mutex, in the queue of a worker that needs it to go on (itself, perhaps) ...
FullDeadlock ==
  /\ mutex # Nobody /\ doing[mutex].at \in {"mark", "free", "exit"}
  /\ ~HasRoom(Target(mutex)) /\ NeedsMutex(Target(mutex))

\* ... and the destructor waits with the mutex for the frees on the join stream.
ExitDeadlock ==
  /\ doing[Main].at = "leaving"
  /\ \/ NeedsMutex(Join)
     \/ \E k \in DOMAIN queue[Join] : queue[Join][k].kind # "record"

Stopped == Over \/ FullDeadlock \/ ExitDeadlock

\* Every block that nobody refers to is given back, unless it came from the
\* blocking stream and no other used it: FreeDataSpace leaves those.
Unreferred(d) == d \in DOMAIN info /\ d \notin held /\ Referring(d) = {}
BorrowedOnly(d) == info[d].alloc_stream = Blocking /\ info[d].deps = {}
FreedInTheEnd ==
  \A d \in Data : (Unreferred(d) /\ ~BorrowedOnly(d)) ~> d \notin DOMAIN info \/ Stopped

\* Every call of the pool returns and every task ends, though calls wait for events
\* and for room, tasks for calls, and the destructor for the tasks: they stop in
\* the two deadlocks above, and in no other way.
CallsReturn ==
  \A x \in Queues \cup {Main} : doing[x] # Idle ~> doing[x] = Idle \/ Stopped
=============================================================================
