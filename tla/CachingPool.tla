---------------------------- MODULE CachingPool ----------------------------
(***************************************************************************)
(* CUDACachingMemoryPool (hetu/impl/memory/CUDACachingMemoryPool.cu): a    *)
(* pool of GPU memory that caches what is freed.  A free block is in the   *)
(* table of one stream while work of that stream may still touch it, and   *)
(* in the table of all streams once an event says it does not.  Blocks are *)
(* split and merged.                                                       *)
(*                                                                         *)
(* The pool's mutex makes its operations run one after the other, the GPU  *)
(* goes on meanwhile: an operation that begins with WatchEvents is a call, *)
(* one step for each event it handles, and its end.                        *)
(*                                                                         *)
(* Abstracted: the clock (allocated() is read off the status, which it     *)
(* agrees with, and events of a stream are ordered by the work they wait   *)
(* for), alignment, the split_from_id tag, peaks and counts of calls.      *)
(***************************************************************************)
EXTENDS Integers, SequencesExt, FiniteSetsExt

CONSTANTS
  NStreams,                   \* non-blocking streams
  Warm,                       \* those that have allocated before: they have a table
  RequestSizes, BorrowSizes, BufferSizes,
  max_split_size, max_internal_fragment_size, kMinSplitRemaining,
  Capacity,                   \* what cudaMalloc can give
  MaxPending,                 \* bound: kernels in flight on a stream
  Ids, NoId

Streams == 1..NStreams
kBlockingStream == 0
AllStreams == 0               \* the table available to all streams
NoTable == -1

ASSUME SizesAssumption ==
  /\ NStreams \in Nat \ {0} /\ Warm \subseteq Streams
  /\ RequestSizes \cup BorrowSizes \cup BufferSizes \subseteq Nat \ {0}
  /\ kMinSplitRemaining \in Nat \ {0}
  /\ max_split_size \in Nat /\ max_internal_fragment_size \in Nat
  /\ Capacity \in Nat /\ MaxPending \in Nat

\* Ids do not run out (next_id() counts with 64 bits).  Of finitely many, one is used
\* again when its block is gone; every block has a size, so these are enough for the
\* device and for the one block that is borrowed at a time (a bound).
ASSUME IdsAssumption ==
  /\ NoId \notin Ids
  /\ IsFiniteSet(Ids) =>
       Cardinality(Ids) >= Capacity + (IF BorrowSizes = {} THEN 0 ELSE 1)

VARIABLES
  info,            \* _data_ptr_info: id -> block
  table,           \* entries of the tables: AllStreams and each stream's own
  created,         \* streams whose table exists in _available_for_single_stream
  event,           \* _available_event_info: id -> stream and work left before it
  multi,           \* _multi_stream_free_events of each stream
  allocated, reserved,
  op,              \* the operation that holds the mutex, or what stopped the process
  held,            \* ids the program holds and may use
  buffers,         \* memory AllocAfterFreeFromCUDACache gave, not yet lent to the pool
  work             \* per stream, the blocks its unfinished kernels touch

poolVars == <<info, table, created, event, multi, allocated, reserved>>
vars == <<poolVars, op, held, buffers, work>>

Idle == [call |-> "none"]
Aborted(by) == [call |-> "aborted", by |-> by]

Init ==
  /\ info = << >>
  /\ table = [t \in {AllStreams} \cup Streams |-> {}]
  /\ created = Warm
  /\ event = << >>
  /\ multi = [s \in Streams |-> << >>]
  /\ allocated = 0 /\ reserved = 0
  /\ op = Idle
  /\ held = {}
  /\ buffers = {}
  /\ work = [s \in Streams |-> << >>]

-----------------------------------------------------------------------------
\* Maps with one entry more, and with some less.
With(f, i, x) == [j \in DOMAIN f \cup {i} |-> IF j = i THEN x ELSE f[j]]
Without(f, ids) == Restrict(f, DOMAIN f \ ids)

\* Blocks.
Allocated(block) ==
  block.status \in {"OCCUPIED_BY_ALLOC_STREAM", "OCCUPIED_BY_MULTI_STREAMS",
                    "UNAVAILABLE_UNTIL_FREE"}
IsSplit(block) == block.prev # NoId \/ block.next # NoId
Entry(id, block) == [size |-> block.size, ptr |-> block.ptr, id |-> id]

\* Mutant: the entry stays behind in the table.
LeaveEntry(tables, id, block) == tables

LeaveTable(tables, id, block) ==
  [tables EXCEPT ![block.cached_pool] = @ \ {Entry(id, block)}]

Overlap(a, b) == a.ptr < b.ptr + b.size /\ b.ptr < a.ptr + a.size

UsedStreams(s) == IF s = kBlockingStream THEN {} ELSE {s}

NewBlock(ptr, size, s, borrowed) ==
  [ptr |-> ptr, size |-> size, alloc_stream |-> s, used_streams |-> UsedStreams(s),
   status |-> "OCCUPIED_BY_ALLOC_STREAM", cnt |-> 0, cached_pool |-> NoTable,
   prev |-> NoId, next |-> NoId, borrowed |-> borrowed]

NewIdIn(blocks) == CHOOSE i \in Ids : i \notin DOMAIN blocks
NewId == NewIdIn(info)
IdLeft(blocks) == ~(Ids \subseteq DOMAIN blocks)

\* The device (external): whether a new segment fits, and the lowest address where it
\* does, which is that of the device's memory or behind another segment.
Segments == {info[i] : i \in {j \in DOMAIN info : info[j].ptr >= 0}} \cup buffers
SumSizes(blocks) == MapThenSumSet(LAMBDA b : b.size, blocks)
LowestFree(size, taken) ==
  LET free == {a \in {0} \cup {b.ptr + b.size : b \in taken} :
                 \A b \in taken : ~Overlap([ptr |-> a, size |-> size], b)}
  IN  {a \in free : \A c \in free : a <= c}
Fits(size, taken) == SumSizes(taken) + size <= Capacity

\* Memory the pool borrows from elsewhere is at an address below those of the device.
PtrElsewhere(size) == -size

-----------------------------------------------------------------------------
\* TryMerge.  m carries the pool's maps and the table the block is meant for.
TableSelection(src, dst) ==
  IF src = dst \/ dst = AllStreams THEN src
  ELSE IF src = AllStreams THEN dst ELSE NoTable

\* Mutant: the block that grows takes over the event of its neighbour.
NeighboursEvent(m, id, old, target) ==
  IF target = AllStreams THEN m.event
  ELSE With(Without(m.event, {old}), id,
            m.event[IF old \in DOMAIN m.event THEN old ELSE id])

\* handle_available_event: the event that lets the merged block go to all streams.
MergedEvent(m, id, old, target) ==
  LET rest == Without(m.event, {old})
      later == IF m.event[old].left > m.event[id].left THEN m.event[old]
               ELSE m.event[id]
  IN  IF target = AllStreams THEN m.event
      ELSE IF m.tbl = AllStreams THEN With(rest, id, m.event[old])
      ELSE IF m.info[old].status = "AVAILABLE_FOR_ALL_STREAM" THEN m.event
      ELSE With(rest, id, later)

\* The neighbour before or after leaves its table and info, and id takes over
\* its memory and its place in the list.
Absorb(m, id, old, isPrev) ==
  LET b == m.info[id]
      n == m.info[old]
      target == TableSelection(m.tbl, n.cached_pool)
      grown == [b EXCEPT !.size = @ + n.size,
                         !.ptr = IF isPrev THEN n.ptr ELSE @,
                         !.prev = IF isPrev THEN n.prev ELSE @,
                         !.next = IF isPrev THEN @ ELSE n.next]
      far == IF isPrev THEN n.prev ELSE n.next
      relinked(i) == IF i = id THEN grown
                     ELSE IF i # far THEN m.info[i]
                     ELSE IF isPrev THEN [m.info[i] EXCEPT !.next = id]
                     ELSE [m.info[i] EXCEPT !.prev = id]
  IN  [info |-> [i \in DOMAIN m.info \ {old} |-> relinked(i)],
       table |-> LeaveTable(m.table, old, n),
       event |-> MergedEvent(m, id, old, target),
       tbl |-> target]

\* Mutant: neighbours are merged only within one table.
MergeableInTable(m, n) == n # NoId /\ ~Allocated(m.info[n])
                          /\ m.info[n].cached_pool = m.tbl

Mergeable(m, n) == /\ n # NoId
                   /\ ~Allocated(m.info[n])
                   /\ TableSelection(m.tbl, m.info[n].cached_pool) # NoTable

TryMerge(m, id) ==
  LET prev == m.info[id].prev
      m1 == IF Mergeable(m, prev) THEN Absorb(m, id, prev, TRUE) ELSE m
      next == m1.info[id].next
  IN  IF Mergeable(m1, next) THEN Absorb(m1, id, next, FALSE) ELSE m1

\* A block that no stream holds any longer goes to the table m.tbl, or to the
\* one that TryMerge decides on.
Cache(m, id) ==
  LET t == IF IsSplit(m.info[id]) THEN TryMerge(m, id) ELSE m
      block == [t.info[id] EXCEPT
                  !.cached_pool = t.tbl,
                  !.status = IF t.tbl = AllStreams THEN "AVAILABLE_FOR_ALL_STREAM"
                             ELSE "AVAILABLE_FOR_ALLOC_STREAM"]
  IN  /\ info' = [t.info EXCEPT ![id] = block]
      /\ table' = [t.table EXCEPT ![t.tbl] = @ \cup {Entry(id, block)}]
      /\ event' = t.event

\* refresh()
Refreshed(b) == [b EXCEPT !.used_streams = {}, !.cnt = 0, !.cached_pool = NoTable,
                          !.status = "AVAILABLE_FOR_ALL_STREAM"]

-----------------------------------------------------------------------------
\* WatchEvents goes through the streams' single-stream events, then through
\* their multi-stream events; position k is where it has got to.
Positions == 1..(2 * NStreams)
Turn(k) == IF k <= NStreams THEN k ELSE k - NStreams

ReadyIds(k) ==
  IF k <= NStreams
  THEN {i \in DOMAIN event : event[i].stream = Turn(k) /\ event[i].left = 0}
  ELSE IF multi[Turn(k)] # << >> /\ Head(multi[Turn(k)]).left = 0
       THEN {Head(multi[Turn(k)]).id} ELSE {}

Running == op.call \in {"alloc", "buffer", "borrow", "empty"}
Watching == Running /\ op.at <= 2 * NStreams

\* Mutant: the place that WatchEvents has got to is left behind.
AheadOnly == {k \in Positions : k > op.at /\ ReadyIds(k) # {}}

Ahead == {k \in Positions : k >= op.at /\ ReadyIds(k) # {}}
WatchDone == Running /\ (Watching => Ahead = {})

\* MoveAvailable
MoveAvailable(id) ==
  LET m == [info |-> [info EXCEPT ![id] = Refreshed(@)],
            table |-> LeaveTable(table, id, info[id]),
            event |-> Without(event, {id}),
            tbl |-> AllStreams]
  IN  /\ Cache(m, id)
      /\ UNCHANGED <<multi, allocated, reserved>>

\* Mutant: the first of its streams to finish lets a block go.
FirstEvent(b) == TRUE

LastEvent(b) == b.cnt = 1

PopMultiStreamEvent(s, id) ==
  /\ multi' = [multi EXCEPT ![s] = Tail(@)]
  /\ IF ~LastEvent(info[id])
     THEN /\ info' = [info EXCEPT ![id].cnt = @ - 1]
          /\ UNCHANGED <<table, event, allocated, reserved>>
     ELSE /\ allocated' = allocated - info[id].size
          /\ IF info[id].borrowed
             THEN /\ info' = Without(info, {id})
                  /\ reserved' = reserved - info[id].size
                  /\ UNCHANGED <<table, event>>
             ELSE /\ Cache([info |-> [info EXCEPT ![id] = Refreshed(@)],
                            table |-> table, event |-> event,
                            tbl |-> AllStreams], id)
                  /\ UNCHANGED reserved

\* One event of the position that comes first.
WatchEvent ==
  /\ Watching
  /\ \E k \in Ahead :
       /\ \A l \in Ahead : k <= l
       /\ op' = [op EXCEPT !.at = k]
       /\ \E id \in ReadyIds(k) :
            IF k <= NStreams THEN MoveAvailable(id)
            ELSE PopMultiStreamEvent(Turn(k), id)
  /\ UNCHANGED <<created, held, buffers, work>>

-----------------------------------------------------------------------------
\* AllocDataSpace(size, s): the call, up to WatchEvents.
CallAlloc(size, s) ==
  /\ op = Idle
  /\ op' = [call |-> "alloc", size |-> size, stream |-> s, at |-> 1,
            waiting |-> FALSE]
  /\ UNCHANGED <<poolVars, held, buffers, work>>

\* FindAvailable: the smallest entry that is large enough, unless it is too
\* large to split and would waste too much.
FindAvailable(t, size) ==
  LET enough == {e \in table[t] : e.size >= size}
      best == {e \in enough : \A f \in enough :
                 e.size < f.size \/ (e.size = f.size /\ e.ptr <= f.ptr)}
  IN  {e \in best : \/ e.size <= max_split_size
                    \/ e.size - size <= max_internal_fragment_size}

\* The table to take from: the stream's own on a tie; NoTable if neither has it.
ReuseTable(size, s) ==
  LET own == IF s \in created THEN FindAvailable(s, size) ELSE {}
      all == FindAvailable(AllStreams, size)
  IN  IF own # {} /\ \A o \in own, a \in all : o.size <= a.size THEN s
      ELSE IF all # {} THEN AllStreams
      ELSE NoTable

ShouldSplit(have, want) ==
  have <= max_split_size /\ have - want >= kMinSplitRemaining

\* Mutant: the split leaves the neighbour's link alone.
NextNotRelinked(f, next, id) == f

PointBack(f, next, id) ==
  IF next = NoId THEN f ELSE [f EXCEPT ![next].prev = id]

\* Mutant: what is left over of a block of one stream goes without an event.
LeftoverWithoutEvent(id, rest) == Without(event, {id})

LeftoverEvent(id, rest) == With(Without(event, {id}), rest, event[id])

\* Mutant: what was there before the split is counted.
WholeSize(have, want) == have

GivenSize(have, want) == IF ShouldSplit(have, want) THEN want ELSE have

Reuse(t, size, s) ==
  LET e == CHOOSE x \in FindAvailable(t, size) : TRUE
      taken == [info[e.id] EXCEPT
                  !.alloc_stream = s, !.used_streams = UsedStreams(s),
                  !.status = "OCCUPIED_BY_ALLOC_STREAM", !.cached_pool = NoTable]
      rest == NewId
      leftover == [NewBlock(e.ptr + size, e.size - size, s, FALSE) EXCEPT
                     !.status = IF t = AllStreams THEN "AVAILABLE_FOR_ALL_STREAM"
                                ELSE "AVAILABLE_FOR_ALLOC_STREAM",
                     !.cached_pool = t, !.prev = e.id, !.next = taken.next]
  IN  /\ held' = held \cup {e.id}
      /\ IF ShouldSplit(e.size, size)
         THEN /\ IdLeft(info)
              /\ info' = With(With(PointBack(info, taken.next, rest), e.id,
                                   [taken EXCEPT !.size = size, !.next = rest]),
                              rest, leftover)
              /\ table' = [table EXCEPT ![t] = (@ \ {e}) \cup {Entry(rest, leftover)}]
              /\ event' = IF t = AllStreams THEN event ELSE LeftoverEvent(e.id, rest)
         ELSE /\ info' = [info EXCEPT ![e.id] = taken]
              /\ table' = [table EXCEPT ![t] = @ \ {e}]
              /\ event' = IF t = AllStreams THEN event ELSE Without(event, {e.id})
      /\ allocated' = allocated + GivenSize(e.size, size)
      /\ UNCHANGED <<multi, reserved>>

\* A new segment, once the blocks in released are given back to the device.
NewSegment(size, s, released) ==
  LET kept == Without(info, released)
      id == NewIdIn(kept)
      freed == {Entry(i, info[i]) : i \in released}
  IN  /\ table' = [table EXCEPT ![AllStreams] = @ \ freed]
      /\ \E ptr \in LowestFree(size, Segments \ {info[i] : i \in released}) :
           IF op.call = "buffer"
           THEN /\ info' = kept
                /\ buffers' = buffers \cup {[ptr |-> ptr, size |-> size]}
                /\ reserved' = reserved - SumSizes(freed)
                /\ UNCHANGED <<held, allocated>>
           ELSE /\ IdLeft(kept)
                /\ info' = With(kept, id, NewBlock(ptr, size, s, FALSE))
                /\ held' = held \cup {id}
                /\ reserved' = reserved - SumSizes(freed) + size
                /\ allocated' = allocated + size
                /\ UNCHANGED buffers
      /\ UNCHANGED <<event, multi>>

\* AllocDataSpace after WatchEvents: from a table, else from the device, else
\* WaitUntilAlloc, which begins with WatchEvents.
FinishAlloc ==
  /\ op.call = "alloc" /\ ~op.waiting /\ WatchDone
  /\ created' = created \cup UsedStreams(op.stream)
  /\ LET t == ReuseTable(op.size, op.stream)
     IN  IF t # NoTable
         THEN Reuse(t, op.size, op.stream) /\ op' = Idle /\ UNCHANGED buffers
         ELSE IF Fits(op.size, Segments)
         THEN NewSegment(op.size, op.stream, {}) /\ op' = Idle
         ELSE /\ op' = [op EXCEPT !.waiting = TRUE, !.at = 1]
              /\ UNCHANGED <<info, table, event, multi, allocated, reserved, held,
                             buffers>>
  /\ UNCHANGED <<work>>

-----------------------------------------------------------------------------
\* ReleaseAndAlloc gives back one block that is large enough by itself, or else
\* the unsplit blocks from the largest down until the request fits.
Unsplit == {e \in table[AllStreams] : ~IsSplit(info[e.id])}
Larger(e, f) == e.size > f.size \/ (e.size = f.size /\ e.ptr > f.ptr)
Oversize(size) ==
  {e \in table[AllStreams] : e.size >= size /\ e.size >= max_split_size}
IdsOf(entries) == {e.id : e \in entries}

Released(size) ==
  IF Oversize(size) # {}
  THEN {e \in Oversize(size) : \A f \in Oversize(size) : ~Larger(e, f)}
  ELSE LET downTo(e) == {f \in Unsplit : ~Larger(e, f)}
           enough(e) == Fits(size, Segments \ {info[i] : i \in IdsOf(downTo(e))})
       IN  {e \in Unsplit : \A f \in Unsplit : Larger(f, e) => ~enough(f)}

\* Mutant: the wait goes on whether or not there is anything to wait for.
WaitOn == FALSE

NoEventsLeft == event = << >> /\ \A s \in Streams : multi[s] = << >>

\* One round of WaitUntilAlloc: WatchEvents is done; when the request fails for
\* want of events to wait for, an out-of-memory error is raised.
Wait ==
  /\ op.call \in {"alloc", "buffer"} /\ op.waiting /\ WatchDone
  /\ LET released == IdsOf(Released(op.size))
         rest == Segments \ {info[i] : i \in released}
     IN  IF Fits(op.size, rest)
         THEN NewSegment(op.size, op.stream, released) /\ op' = Idle
         ELSE /\ info' = Without(info, released)
              /\ table' = [table EXCEPT ![AllStreams] =
                             @ \ {Entry(i, info[i]) : i \in released}]
              /\ reserved' = reserved - SumSizes({Entry(i, info[i]) : i \in released})
              /\ op' = IF NoEventsLeft THEN Idle ELSE [op EXCEPT !.at = 1]
              /\ UNCHANGED <<event, multi, allocated, held, buffers>>
  /\ UNCHANGED <<created, work>>

\* AllocAfterFreeFromCUDACache, for the buffers of parameters.
CallBuffer(size) ==
  /\ op = Idle /\ buffers = {}
  /\ IF Fits(size, Segments)
     THEN /\ \E ptr \in LowestFree(size, Segments) :
               buffers' = {[ptr |-> ptr, size |-> size]}
          /\ UNCHANGED op
     ELSE /\ op' = [call |-> "buffer", size |-> size, stream |-> kBlockingStream,
                    at |-> 1, waiting |-> TRUE]
          /\ UNCHANGED buffers
  /\ UNCHANGED <<poolVars, held, work>>

\* EmptyCache, called once the device is synchronized: WatchEvents, ReleaseAll.
CallEmptyCache ==
  /\ op = Idle
  /\ \A s \in Streams : work[s] = << >>
  /\ op' = [call |-> "empty", at |-> 1]
  /\ UNCHANGED <<poolVars, held, buffers, work>>

ReleaseAll ==
  /\ op.call = "empty" /\ WatchDone
  /\ info' = Without(info, IdsOf(Unsplit))
  /\ table' = [table EXCEPT ![AllStreams] = @ \ Unsplit]
  /\ reserved' = reserved - SumSizes(Unsplit)
  /\ op' = Idle
  /\ UNCHANGED <<created, event, multi, allocated, held, buffers, work>>

\* BorrowDataSpace: memory from elsewhere, or a buffer (whose deleter, run under
\* the same mutex, is FreeFromCUDACache).  It is never cached.
CallBorrow(size, ptr, s) ==
  /\ op = Idle
  /\ \A i \in DOMAIN info : ~info[i].borrowed
  /\ op' = [call |-> "borrow", size |-> size, ptr |-> ptr, stream |-> s, at |-> 1]
  /\ UNCHANGED <<poolVars, held, buffers, work>>

FinishBorrow ==
  /\ op.call = "borrow" /\ WatchDone
  /\ IdLeft(info)
  /\ info' = With(info, NewId, NewBlock(op.ptr, op.size, op.stream, TRUE))
  /\ held' = held \cup {NewId}
  /\ buffers' = {b \in buffers : b.ptr # op.ptr}
  /\ reserved' = reserved + op.size
  /\ allocated' = allocated + op.size
  /\ op' = Idle
  /\ UNCHANGED <<table, created, event, multi, work>>

-----------------------------------------------------------------------------
\* Mutant: the streams that use a block are not recorded.
MarkIgnored(b, s) == b

\* MarkDataSpaceUsedByStream, by a kernel that is launched on s.
MarkedBy(b, s) ==
  IF s = b.alloc_stream THEN b
  ELSE IF b.alloc_stream = kBlockingStream
  THEN [b EXCEPT !.used_streams = @ \cup {s}, !.alloc_stream = s,
                 !.status = "OCCUPIED_BY_ALLOC_STREAM"]
  ELSE [b EXCEPT !.used_streams = @ \cup {s},
                 !.status = "OCCUPIED_BY_MULTI_STREAMS"]

UseOn(id, s) ==
  /\ op = Idle /\ id \in held
  /\ Len(work[s]) < MaxPending
  /\ info' = [info EXCEPT ![id] = MarkedBy(@, s)]
  /\ work' = [work EXCEPT ![s] = Append(@, [ptr |-> info[id].ptr,
                                            size |-> info[id].size])]
  /\ UNCHANGED <<table, created, event, multi, allocated, reserved, op, held,
                 buffers>>

\* An event is recorded on each stream that used the block; the last one to come
\* lets it go.
FreeWhenAllDone(id) ==
  /\ info' = [info EXCEPT ![id].status = "UNAVAILABLE_UNTIL_FREE",
                          ![id].cnt = @ + Cardinality(info[id].used_streams)]
  /\ multi' = [s \in Streams |->
                 IF s \in info[id].used_streams
                 THEN Append(multi[s], [id |-> id, left |-> Len(work[s])])
                 ELSE multi[s]]
  /\ UNCHANGED <<table, event, allocated, reserved, op>>

FreeBorrowed(id) ==
  IF info[id].used_streams # {} THEN FreeWhenAllDone(id)
  ELSE /\ info' = Without(info, {id})
       /\ allocated' = allocated - info[id].size
       /\ reserved' = reserved - info[id].size
       /\ UNCHANGED <<table, event, multi, op>>

\* A block of one stream goes to that stream's table at once, with an event for
\* the day it may go to all; of the blocking stream, to the table of all streams.
\* operator[] makes an empty pointer of a table that does not exist.
FreeToTable(id) ==
  LET s == info[id].alloc_stream
      m == [info |-> info, table |-> table, tbl |-> s,
            event |-> IF s = kBlockingStream THEN event
                      ELSE With(event, id, [stream |-> s, left |-> Len(work[s])])]
      status == IF s = kBlockingStream THEN "AVAILABLE_FOR_ALL_STREAM"
                ELSE "AVAILABLE_FOR_ALLOC_STREAM"
      noTable == s \in Streams \ created
  IN  /\ allocated' = allocated - info[id].size
      /\ UNCHANGED <<multi, reserved>>
      /\ IF noTable
         THEN /\ op' = Aborted(IF IsSplit(info[id]) THEN "Table shouldn't be nullptr"
                              ELSE "null table dereferenced")
              /\ UNCHANGED <<info, table, event>>
         ELSE /\ Cache([m EXCEPT !.info = [info EXCEPT ![id].status = status]], id)
              /\ UNCHANGED op

FreeDataSpace(id) ==
  /\ op = Idle /\ id \in held
  /\ held' = held \ {id}
  /\ IF info[id].borrowed THEN FreeBorrowed(id)
     ELSE IF info[id].status = "OCCUPIED_BY_ALLOC_STREAM" THEN FreeToTable(id)
     ELSE FreeWhenAllDone(id)
  /\ UNCHANGED <<created, buffers, work>>

\* The GPU finishes the oldest kernel of s.
Advance(n) == IF n = 0 THEN 0 ELSE n - 1
Complete(s) ==
  /\ work[s] # << >>
  /\ work' = [work EXCEPT ![s] = Tail(@)]
  /\ event' = [i \in DOMAIN event |->
                 IF event[i].stream # s THEN event[i]
                 ELSE [event[i] EXCEPT !.left = Advance(@)]]
  /\ multi' = [multi EXCEPT ![s] =
                 [k \in DOMAIN @ |-> [multi[s][k] EXCEPT !.left = Advance(@)]]]
  /\ UNCHANGED <<info, table, created, allocated, reserved, op, held,
                 buffers>>

-----------------------------------------------------------------------------
Call == \/ \E size \in RequestSizes, s \in {kBlockingStream} \cup Streams :
             CallAlloc(size, s)
        \/ \E size \in BorrowSizes, s \in {kBlockingStream} \cup Streams :
             CallBorrow(size, PtrElsewhere(size), s)
        \/ \E size \in BufferSizes : CallBuffer(size)
        \/ \E b \in buffers : CallBorrow(b.size, b.ptr, kBlockingStream)
        \/ CallEmptyCache
        \/ \E id \in held : FreeDataSpace(id) \/ \E s \in Streams : UseOn(id, s)

Proceed == \/ WatchEvent \/ FinishAlloc \/ Wait \/ ReleaseAll \/ FinishBorrow

Next == Call \/ Proceed \/ \E s \in Streams : Complete(s)

\* The thread that holds the mutex runs on and the GPU finishes its work.
Spec == /\ Init /\ [][Next]_vars
        /\ WF_vars(Proceed)
        /\ \A s \in Streams : WF_vars(Complete(s))

-----------------------------------------------------------------------------
Statuses == {"OCCUPIED_BY_ALLOC_STREAM", "OCCUPIED_BY_MULTI_STREAMS",
             "UNAVAILABLE_UNTIL_FREE", "AVAILABLE_FOR_ALLOC_STREAM",
             "AVAILABLE_FOR_ALL_STREAM"}

\* Type invariant.
TypeOK ==
  /\ DOMAIN info \subseteq Ids
  /\ \A i \in DOMAIN info :
       /\ info[i].ptr \in Int /\ info[i].size \in Nat \ {0} /\ info[i].cnt \in Nat
       /\ info[i].alloc_stream \in {kBlockingStream} \cup Streams
       /\ info[i].used_streams \subseteq Streams
       /\ info[i].status \in Statuses
       /\ info[i].cached_pool \in {NoTable, AllStreams} \cup Streams
       /\ {info[i].prev, info[i].next} \subseteq DOMAIN info \cup {NoId}
  /\ created \subseteq Streams
  /\ DOMAIN event \subseteq DOMAIN info
  /\ allocated \in Nat /\ reserved \in Nat
  /\ held \subseteq DOMAIN info
  /\ Running \/ op.call \in {"none", "aborted"}

\* The blocks that come of one segment fill it: neighbours touch, the links of
\* the list agree in both directions through every split and merge, and no two
\* blocks share memory.
BlocksTile ==
  /\ \A i \in DOMAIN info :
       LET b == info[i]
       IN  b.next # NoId => /\ info[b.next].prev = i
                            /\ info[b.next].ptr = b.ptr + b.size
  /\ \A i \in DOMAIN info :
       info[i].prev # NoId => info[info[i].prev].next = i
  /\ \A i, j \in DOMAIN info : i # j => ~Overlap(info[i], info[j])
  /\ \A i \in DOMAIN info, b \in buffers : ~Overlap(info[i], b)

\* A table's keys are copies of a block's size and address: they are the current
\* ones, a block is in a table exactly while it is free, and in the right one.
TablesMatchInfo ==
  /\ \A t \in DOMAIN table :
       table[t] = {Entry(i, info[i]) : i \in {j \in DOMAIN info : info[j].cached_pool = t}}
  /\ \A i \in DOMAIN info :
       LET b == info[i]
       IN  /\ b.cached_pool = NoTable <=> Allocated(b)
           /\ b.cached_pool = AllStreams <=> b.status = "AVAILABLE_FOR_ALL_STREAM"

\* A block is in the table of a stream exactly while it has an event, and one of
\* that stream: otherwise it would never leave, or leave a table it is not in.
EventsMatchTables ==
  \A i \in DOMAIN info :
    IF info[i].cached_pool \in Streams
    THEN i \in DOMAIN event /\ event[i].stream = info[i].cached_pool
    ELSE i \notin DOMAIN event

QueuedOn(i) == {s \in Streams : \E k \in DOMAIN multi[s] : multi[s][k].id = i}

\* A block waits for as many events as there are for it in the queues, one on each
\* stream at most, so that the last one lets it go: not before and not never; and
\* no event is left of a block that is gone.
EventCountsMatch ==
  /\ \A i \in DOMAIN info :
       /\ info[i].cnt = Cardinality(QueuedOn(i))
       /\ info[i].status = "UNAVAILABLE_UNTIL_FREE" <=> info[i].cnt > 0
  /\ \A s \in Streams : \A k, l \in DOMAIN multi[s] :
       /\ multi[s][k].id \in DOMAIN info
       /\ multi[s][k].id = multi[s][l].id => k = l

\* _reserved is what the pool has of the device and has borrowed, _allocated the
\* part that is not cached; what it has of the device fits there.
AccountsMatch ==
  LET all == {Entry(i, info[i]) : i \in DOMAIN info}
      used == {Entry(i, info[i]) : i \in {j \in DOMAIN info : Allocated(info[j])}}
  IN  /\ reserved = SumSizes(all)
      /\ allocated = SumSizes(used)
      /\ SumSizes(Segments) <= Capacity

\* Free neighbours are merged, unless they are cached for two different streams.
NoMergeMissed ==
  \A i \in DOMAIN info :
    LET b == info[i]
    IN  b.next # NoId /\ ~Allocated(b) /\ ~Allocated(info[b.next]) =>
          TableSelection(b.cached_pool, info[b.next].cached_pool) = NoTable

Touched(s, b) == {k \in DOMAIN work[s] : Overlap(work[s][k], b)}

\* No event is over before the kernels that touch the memory behind it, though
\* the memory may be pieces with events of their own.
EventCoversWork ==
  \A i \in DOMAIN info :
    LET b == info[i]
    IN  ~Allocated(b) =>
          \A s \in Streams :
            IF b.cached_pool = s THEN \A k \in Touched(s, b) : k <= event[i].left
            ELSE Touched(s, b) = {}

\* Memory is handed out only when no kernel of another stream still touches it:
\* within the stream that asked, order is kept by the stream.
FreshMemory ==
  [][\A i \in held' \ held :
       \A s \in Streams \ {info'[i].alloc_stream} : Touched(s, info'[i]) = {}]_vars

\* Memory that goes back to the device or to its lender is not touched any more.
ReturnedMemoryIdle ==
  [][\A i \in DOMAIN info :
       (\A j \in DOMAIN info' : ~Overlap(info[i], info'[j])) =>
         \A s \in Streams : Touched(s, info[i]) = {}]_vars

\* "The single stream available table shouldn't have any entry now", nor that of all
\* streams any unsplit one: what ProfileAfterEmptyAllCUDACache asserts of EmptyCache.
EmptiedCache ==
  [][op.call = "empty" /\ op' = Idle =>
       /\ \A s \in Streams : table'[s] = {}
       /\ \A e \in table'[AllStreams] : IsSplit(info'[e.id])]_vars

\* Whoever asks gets an answer, memory or an out-of-memory error, as long as the
\* GPU makes progress: WaitUntilAlloc holds the mutex and cannot wait for more.
CallsReturn == (op # Idle) ~> (op = Idle)

\* "Table shouldn't be nullptr": the assertion at the end of TryMerge.
TableNotNull == op # Aborted("Table shouldn't be nullptr")
=============================================================================
