------------------------- MODULE CachingPoolProofs -------------------------
(***************************************************************************)
(* Proofs about CachingPool.  The invariant is stated of maps f, tab, ev,  *)
(* w that stand for info, table, event and work, so that it can be stated  *)
(* of the maps TryMerge goes through as well.                              *)
(***************************************************************************)
EXTENDS CachingPool, FiniteSetTheorems, SequenceTheorems, TLAPS

Tables == {AllStreams} \cup Streams
AnyStream == {kBlockingStream} \cup Streams
Kernel == [ptr : Int, size : Nat \ {0}]
Event == [stream : Streams, left : Nat]
Block == [ptr : Int, size : Nat \ {0}, alloc_stream : AnyStream,
          used_streams : SUBSET Streams, status : Statuses, cnt : Nat,
          cached_pool : {NoTable} \cup Tables, prev : Ids \cup {NoId},
          next : Ids \cup {NoId}, borrowed : BOOLEAN]

Typed(f) == /\ DOMAIN f \subseteq Ids
            /\ \A i \in DOMAIN f : f[i] \in Block

-----------------------------------------------------------------------------
(* Where blocks are. *)

\* The list of the blocks of a segment.
Linked(f) == \A i \in DOMAIN f :
  /\ f[i].next # NoId => /\ f[i].next \in DOMAIN f
                         /\ f[f[i].next].prev = i
                         /\ f[f[i].next].ptr = f[i].ptr + f[i].size
  /\ f[i].prev # NoId => /\ f[i].prev \in DOMAIN f
                         /\ f[f[i].prev].next = i

Disjoint(f) == \A i, j \in DOMAIN f : i # j => ~Overlap(f[i], f[j])

\* A block from elsewhere is whole and, unless it was a buffer, below the device.
Lent(f) == \A i \in DOMAIN f :
  /\ f[i].borrowed => ~IsSplit(f[i])
  /\ ~f[i].borrowed => f[i].ptr >= 0
  /\ f[i].ptr >= 0 \/ f[i].ptr + f[i].size <= 0

BuffersApart(f, bufs) ==
  /\ bufs \subseteq [ptr : Nat, size : Nat \ {0}]
  /\ \A b, c \in bufs : b # c => ~Overlap(b, c)
  /\ \A i \in DOMAIN f, b \in bufs : ~Overlap(f[i], b)

\* Memory of kernels that have not ended is in blocks.
Holds(b, a) == b.ptr <= a /\ a < b.ptr + b.size
Backed(f, w) ==
  \A s \in Streams : \A k \in DOMAIN w[s] : \A a \in Int :
    Holds(w[s][k], a) => \E i \in DOMAIN f : Holds(f[i], a)

Geometry(f, bufs, w) ==
  Linked(f) /\ Disjoint(f) /\ Lent(f) /\ BuffersApart(f, bufs) /\ Backed(f, w)

\* A segment that is split, from lo[i] to hi[i], was not too large to split.
Extents(f, lo, hi) ==
  /\ lo \in [Ids -> Int] /\ hi \in [Ids -> Int]
  /\ \A i \in DOMAIN f :
       /\ IsSplit(f[i]) => /\ lo[i] <= f[i].ptr /\ f[i].ptr + f[i].size <= hi[i]
                           /\ hi[i] - lo[i] <= max_split_size
       /\ f[i].next # NoId => lo[f[i].next] = lo[i] /\ hi[f[i].next] = hi[i]

-----------------------------------------------------------------------------
(* What is known of a block.  x is the block that is being cached, if any. *)

InTables(f, tab) ==
  /\ DOMAIN tab = Tables
  /\ \A t \in Tables : \A e \in tab[t] : /\ e.id \in DOMAIN f
                                        /\ f[e.id].cached_pool = t
                                        /\ e = Entry(e.id, f[e.id])
  /\ \A i \in DOMAIN f :
       f[i].cached_pool # NoTable => Entry(i, f[i]) \in tab[f[i].cached_pool]

StatusesAgree(f, x) == \A i \in DOMAIN f \ {x} :
  /\ f[i].cached_pool = NoTable <=> Allocated(f[i])
  /\ f[i].cached_pool = AllStreams <=> f[i].status = "AVAILABLE_FOR_ALL_STREAM"
  /\ f[i].borrowed => f[i].cached_pool = NoTable

EventsTyped(f, ev, w) ==
  /\ DOMAIN ev \subseteq DOMAIN f
  /\ \A i \in DOMAIN ev : ev[i] \in Event /\ ev[i].left <= Len(w[ev[i].stream])

EventsAgree(f, ev, x) == \A i \in DOMAIN f \ {x} :
  IF f[i].cached_pool \in Streams
  THEN i \in DOMAIN ev /\ ev[i].stream = f[i].cached_pool
  ELSE i \notin DOMAIN ev

\* Kernels that may still touch a block.
Foreseen(f, ev, w, x) ==
  \A i \in DOMAIN f \ {x} : \A s \in Streams : \A k \in DOMAIN w[s] :
    Overlap(w[s][k], f[i]) =>
      IF Allocated(f[i]) THEN s \in f[i].used_streams
      ELSE s = f[i].cached_pool /\ k <= ev[i].left

Apart(a, b) == TableSelection(a.cached_pool, b.cached_pool) = NoTable

Merged(f, x) == \A i \in DOMAIN f \ {x} :
  f[i].next \notin {NoId, x} /\ ~Allocated(f[i]) /\ ~Allocated(f[f[i].next]) =>
    Apart(f[i], f[f[i].next])

Known(f, tab, ev, w, x) ==
  /\ InTables(f, tab) /\ StatusesAgree(f, x) /\ EventsTyped(f, ev, w)
  /\ EventsAgree(f, ev, x) /\ Foreseen(f, ev, w, x) /\ Merged(f, x)

-----------------------------------------------------------------------------
(* The invariant *)

\* The streams that use a block are recorded, and what the program holds is in use.
Uses(f, h) ==
  /\ \A i \in DOMAIN f :
       LET b == f[i]
       IN  /\ b.status = "OCCUPIED_BY_ALLOC_STREAM" =>
                b.used_streams \subseteq {b.alloc_stream}
           /\ b.status \in {"OCCUPIED_BY_ALLOC_STREAM", "OCCUPIED_BY_MULTI_STREAMS"} =>
                \/ b.alloc_stream \in b.used_streams
                \/ b.alloc_stream = kBlockingStream
                     /\ b.status = "OCCUPIED_BY_ALLOC_STREAM"
  /\ \A i \in h : /\ i \in DOMAIN f
                  /\ f[i].status \in {"OCCUPIED_BY_ALLOC_STREAM",
                                      "OCCUPIED_BY_MULTI_STREAMS"}

\* The events in the queues of the streams, and what they wait for.
On(q, i) == {s \in Streams : \E k \in DOMAIN q[s] : q[s][k].id = i}
Queues(f, q, w) ==
  /\ q \in [Streams -> Seq([id : Ids, left : Nat])]
  /\ \A i \in DOMAIN f :
       /\ f[i].cnt = Cardinality(On(q, i))
       /\ f[i].status = "UNAVAILABLE_UNTIL_FREE" <=> f[i].cnt > 0
  /\ \A s \in Streams : \A k, l \in DOMAIN q[s] :
       /\ q[s][k].id \in DOMAIN f
       /\ q[s][k].id = q[s][l].id => k = l
  /\ \A i \in DOMAIN f, s \in Streams : \A k \in DOMAIN w[s] :
       f[i].status = "UNAVAILABLE_UNTIL_FREE" /\ Overlap(w[s][k], f[i]) =>
         \E l \in DOMAIN q[s] : q[s][l].id = i /\ k <= q[s][l].left

\* The operation in progress.
OpOK(o, f, bufs, w) ==
  \/ o = Idle
  \/ \E by : o = Aborted(by)
  \/ /\ o \in [call : {"alloc", "buffer"}, size : Nat \ {0}, stream : AnyStream,
               at : Nat, waiting : BOOLEAN]
  \/ /\ o \in [call : {"borrow"}, size : Nat \ {0}, ptr : Int, stream : AnyStream,
               at : Nat]
     /\ \A i \in DOMAIN f : ~f[i].borrowed
     /\ o.ptr = -o.size \/ [ptr |-> o.ptr, size |-> o.size] \in bufs
  \/ /\ o \in [call : {"empty"}, at : Nat]
     /\ \A s \in Streams : w[s] = << >>
     /\ \A i \in DOMAIN f : f[i].cached_pool \in Streams => o.at <= f[i].cached_pool

IInv ==
  /\ Typed(info) /\ Geometry(info, buffers, work)
  /\ \E lo, hi : Extents(info, lo, hi)
  /\ Known(info, table, event, work, NoId)
  /\ work \in [Streams -> Seq(Kernel)]
  /\ created \subseteq Streams
  /\ Uses(info, held) /\ Queues(info, multi, work)
  /\ OpOK(op, info, buffers, work)

-----------------------------------------------------------------------------
(* What changes no block's place. *)

\* What the assumptions say of the constants.
LEMMA Constants ==
  /\ NStreams \in Nat \ {0} /\ Streams = 1..NStreams /\ NoId \notin Ids
  /\ kBlockingStream = 0 /\ AllStreams = 0 /\ NoTable = -1
  /\ max_split_size \in Nat /\ kMinSplitRemaining \in Nat \ {0}
BY SizesAssumption, IdsAssumption
   DEF Streams, kBlockingStream, AllStreams, NoTable

Place(b) == <<b.ptr, b.size, b.prev, b.next, b.borrowed>>

\* Where blocks are does not depend on who uses them.
LEMMA PlacesKept ==
  ASSUME NEW f, NEW g, NEW bufs, NEW w, DOMAIN g = DOMAIN f,
         \A i \in DOMAIN f : Place(g[i]) = Place(f[i])
  PROVE  /\ Geometry(f, bufs, w) => Geometry(g, bufs, w)
         /\ \A lo, hi : Extents(f, lo, hi) => Extents(g, lo, hi)
<1>1. \A i \in DOMAIN f :
        /\ g[i].ptr = f[i].ptr /\ g[i].size = f[i].size /\ g[i].prev = f[i].prev
        /\ g[i].next = f[i].next /\ g[i].borrowed = f[i].borrowed
  BY DEF Place
<1>2. Linked(f) => Linked(g)
  BY <1>1 DEF Linked
<1>3. Disjoint(f) => Disjoint(g)
  BY <1>1 DEF Disjoint, Overlap
<1>4. Lent(f) => Lent(g)
  BY <1>1 DEF Lent, IsSplit
<1>5. BuffersApart(f, bufs) => BuffersApart(g, bufs)
  BY <1>1 DEF BuffersApart, Overlap
<1>6. Backed(f, w) => Backed(g, w)
  <2>1. ASSUME Backed(f, w), NEW s \in Streams, NEW k \in DOMAIN w[s], NEW a \in Int,
               Holds(w[s][k], a)
        PROVE  \E i \in DOMAIN g : Holds(g[i], a)
    <3>1. PICK i \in DOMAIN f : Holds(f[i], a)
      BY <2>1 DEF Backed
    <3>2. Holds(g[i], a)
      BY <1>1, <3>1 DEF Holds
    <3>3. QED  BY <3>2
  <2>2. QED  BY <2>1 DEF Backed
<1>7. \A lo, hi : Extents(f, lo, hi) => Extents(g, lo, hi)
  BY <1>1 DEF Extents, IsSplit
<1>8. QED  BY <1>2, <1>3, <1>4, <1>5, <1>6, <1>7 DEF Geometry

-----------------------------------------------------------------------------
(* A block comes or goes. *)

\* Two blocks overlap when they have an address in common.
LEMMA InterOverlap ==
  ASSUME NEW a, NEW b, a.ptr \in Int, b.ptr \in Int, a.size \in Nat \ {0},
         b.size \in Nat \ {0}
  PROVE  Overlap(a, b) <=> \E c \in Int : Holds(a, c) /\ Holds(b, c)
<1>1. ASSUME Overlap(a, b)
      PROVE  \E c \in Int : Holds(a, c) /\ Holds(b, c)
  <2>1. CASE a.ptr <= b.ptr
    <3>1. Holds(a, b.ptr) /\ Holds(b, b.ptr)
      BY <1>1, <2>1 DEF Overlap, Holds
    <3>2. QED  BY <3>1
  <2>2. CASE b.ptr <= a.ptr
    <3>1. Holds(a, a.ptr) /\ Holds(b, a.ptr)
      BY <1>1, <2>2 DEF Overlap, Holds
    <3>2. QED  BY <3>1
  <2>3. QED  BY <2>1, <2>2
<1>2. ASSUME NEW c \in Int, Holds(a, c), Holds(b, c)
      PROVE  Overlap(a, b)
  BY <1>2 DEF Overlap, Holds
<1>3. QED  BY <1>1, <1>2

\* Memory that no block and no kernel has is touched by no kernel.
LEMMA NewMemoryFresh ==
  ASSUME NEW f, NEW bufs, NEW w, Typed(f), Geometry(f, bufs, w),
         w \in [Streams -> Seq(Kernel)],
         NEW b, b.ptr \in Int, b.size \in Nat \ {0},
         \A i \in DOMAIN f : ~Overlap(f[i], b)
  PROVE  \A s \in Streams : \A k \in DOMAIN w[s] : ~Overlap(w[s][k], b)
<1> SUFFICES ASSUME NEW s \in Streams, NEW k \in DOMAIN w[s], Overlap(w[s][k], b)
             PROVE  FALSE
  OBVIOUS
<1>1. w[s][k] \in Kernel
  <2>1. w[s] \in Seq(Kernel)
    OBVIOUS
  <2>2. QED  BY <2>1
<1>2. PICK c \in Int : Holds(w[s][k], c) /\ Holds(b, c)
  BY <1>1, InterOverlap DEF Kernel
<1>3. PICK i \in DOMAIN f : Holds(f[i], c)
  BY <1>2 DEF Geometry, Backed
<1>4. f[i].ptr \in Int /\ f[i].size \in Nat \ {0}
  BY DEF Typed, Block
<1>5. Overlap(f[i], b)
  BY <1>2, <1>3, <1>4, InterOverlap
<1>6. QED  BY <1>5

\* A block may come where none is, and where no buffer is that stays.
LEMMA BlockAdded ==
  ASSUME NEW f, NEW bufs, NEW w, Geometry(f, bufs, w), Typed(f),
         NEW n \in Ids, n \notin DOMAIN f, NEW b \in Block,
         b.prev = NoId, b.next = NoId,
         \A i \in DOMAIN f : ~Overlap(f[i], b),
         NEW rest \in SUBSET bufs, \A c \in rest : ~Overlap(b, c),
         ~b.borrowed => b.ptr >= 0, b.ptr >= 0 \/ b.ptr + b.size <= 0
  PROVE  /\ Geometry(With(f, n, b), rest, w)
         /\ Typed(With(f, n, b))
         /\ \A lo, hi : Extents(f, lo, hi) => Extents(With(f, n, b), lo, hi)
<1> DEFINE g == With(f, n, b)
<1>0. /\ DOMAIN g = DOMAIN f \cup {n} /\ g[n] = b
      /\ \A i \in DOMAIN f : g[i] = f[i] /\ i # n
  BY DEF With
<1> HIDE DEF g
<1>1. Typed(g)
  BY <1>0 DEF Typed
<1>c. NoId \notin Ids
  BY Constants
<1>2. Linked(g)
  BY <1>0, <1>c DEF Geometry, Linked, Typed
<1>3. Disjoint(g)
  <2>1. \A i, j : Overlap(i, j) <=> Overlap(j, i)
    BY DEF Overlap
  <2>2. ~(n \in DOMAIN f)
    OBVIOUS
  <2>3. QED  BY <1>0, <2>1 DEF Geometry, Disjoint
<1>4. Lent(g)
  BY <1>0 DEF Geometry, Lent, IsSplit
<1>5. BuffersApart(g, rest)
  BY <1>0 DEF Geometry, BuffersApart
<1>6. Backed(g, w)
  BY <1>0 DEF Geometry, Backed
<1>7. \A lo, hi : Extents(f, lo, hi) => Extents(g, lo, hi)
  BY <1>0 DEF Extents, IsSplit
<1>8. QED  BY <1>1, <1>2, <1>3, <1>4, <1>5, <1>6, <1>7 DEF Geometry, g

\* Whole blocks that no kernel touches may go.
LEMMA BlocksRemoved ==
  ASSUME NEW f, NEW bufs, NEW w, Geometry(f, bufs, w), Typed(f),
         w \in [Streams -> Seq(Kernel)],
         NEW ids \in SUBSET DOMAIN f,
         \A i \in ids : f[i].prev = NoId /\ f[i].next = NoId,
         \A i \in ids : \A s \in Streams : \A k \in DOMAIN w[s] : ~Overlap(w[s][k], f[i])
  PROVE  /\ Geometry(Without(f, ids), bufs, w)
         /\ Typed(Without(f, ids))
         /\ \A lo, hi : Extents(f, lo, hi) => Extents(Without(f, ids), lo, hi)
<1> DEFINE g == Without(f, ids)
<1>0. /\ DOMAIN g = DOMAIN f \ ids
      /\ \A i \in DOMAIN g : g[i] = f[i]
  BY DEF Without, Restrict
<1> HIDE DEF g
<1>1. Typed(g)
  BY <1>0 DEF Typed
<1>c. NoId \notin Ids
  BY Constants
<1>2. Linked(g)
  BY <1>0, <1>c DEF Geometry, Linked, Typed
<1>3. Disjoint(g)
  BY <1>0 DEF Geometry, Disjoint
<1>4. Lent(g)
  BY <1>0 DEF Geometry, Lent, IsSplit
<1>5. BuffersApart(g, bufs)
  BY <1>0 DEF Geometry, BuffersApart
<1>6. Backed(g, w)
  <2>1. ASSUME NEW s \in Streams, NEW k \in DOMAIN w[s], NEW a \in Int,
               Holds(w[s][k], a)
        PROVE  \E i \in DOMAIN g : Holds(g[i], a)
    <3>1. PICK i \in DOMAIN f : Holds(f[i], a)
      BY <2>1 DEF Geometry, Backed
    <3>2. w[s][k] \in Kernel
      <4>1. w[s] \in Seq(Kernel)
        OBVIOUS
      <4>2. QED  BY <4>1
    <3>3. f[i] \in Block
      BY DEF Typed
    <3>4. Overlap(w[s][k], f[i])
      BY <2>1, <3>1, <3>2, <3>3, InterOverlap DEF Kernel, Block
    <3>5. i \in DOMAIN g
      BY <1>0, <3>4
    <3>6. QED  BY <1>0, <3>1, <3>5
  <2>2. QED  BY <2>1 DEF Backed
<1>7. \A lo, hi : Extents(f, lo, hi) => Extents(g, lo, hi)
  BY <1>0 DEF Extents, IsSplit
<1>8. QED  BY <1>1, <1>2, <1>3, <1>4, <1>5, <1>6, <1>7 DEF Geometry, g

-----------------------------------------------------------------------------
(* Two neighbours become one block, or one block two. *)

\* A block, the one before it and the one after it are three.
LEMMA Neighbours ==
  ASSUME NEW f, Typed(f), Linked(f), NEW p \in DOMAIN f, f[p].next # NoId
  PROVE  /\ f[p].next \in DOMAIN f /\ f[p].next # p
         /\ f[f[p].next].prev = p
         /\ f[f[p].next].ptr = f[p].ptr + f[p].size
         /\ f[p].prev \notin {p, f[p].next}
         /\ f[f[p].next].next \notin {p, f[p].next}
<1> DEFINE q == f[p].next
<1>1. q \in DOMAIN f /\ f[q].prev = p /\ f[q].ptr = f[p].ptr + f[p].size
  BY DEF Linked
<1>2. \A i \in DOMAIN f : f[i].ptr \in Int /\ f[i].size \in Nat \ {0}
  BY DEF Typed, Block
<1>3. q # p
  BY <1>1, <1>2
<1>c. NoId \notin DOMAIN f
  BY Constants DEF Typed
<1>4. ASSUME f[p].prev \in {p, q}
      PROVE  FALSE
  <2>1. CASE f[p].prev = p
    BY <2>1, <1>1, <1>c, <1>3 DEF Linked
  <2>2. CASE f[p].prev = q
    <3>1. f[q].next = p
      BY <2>2, <1>1, <1>c DEF Linked
    <3>2. f[p].ptr = f[q].ptr + f[q].size
      BY <3>1, <1>1, <1>c DEF Linked
    <3>3. QED  BY <3>2, <1>1, <1>2
  <2>3. QED  BY <1>4, <2>1, <2>2
<1>5. ASSUME f[q].next \in {p, q}
      PROVE  FALSE
  <2>1. CASE f[q].next = p
    BY <2>1, <1>1, <1>2, <1>c DEF Linked
  <2>2. CASE f[q].next = q
    <3>1. f[q].ptr = f[q].ptr + f[q].size
      BY <2>2, <1>1, <1>c DEF Linked
    <3>2. QED  BY <3>1, <1>1, <1>2
  <2>3. QED  BY <1>5, <2>1, <2>2
<1>6. QED  BY <1>1, <1>3, <1>4, <1>5

\* The block x of a pair p, q takes the memory and the place of both.
Rest(b) == <<b.alloc_stream, b.used_streams, b.status, b.cnt, b.cached_pool, b.borrowed>>
Joined(f, p, q, x, g) ==
  /\ p \in DOMAIN f /\ f[p].next = q /\ q # NoId /\ x \in {p, q}
  /\ DOMAIN g = (DOMAIN f \ {p, q}) \cup {x}
  /\ g[x].ptr = f[p].ptr /\ g[x].size = f[p].size + f[q].size
  /\ g[x].prev = f[p].prev /\ g[x].next = f[q].next
  /\ \A i \in DOMAIN g : Rest(g[i]) = Rest(f[i])
  /\ \A i \in DOMAIN g \ {x} :
       /\ g[i].ptr = f[i].ptr /\ g[i].size = f[i].size
       /\ g[i].next = (IF i = f[p].prev THEN x ELSE f[i].next)
       /\ g[i].prev = (IF i = f[q].next THEN x ELSE f[i].prev)

\* Two neighbours become one, under the id of either.
LEMMA PairMerged ==
  ASSUME NEW f, NEW bufs, NEW w, Typed(f), Geometry(f, bufs, w),
         NEW p, NEW q, NEW x, NEW g, Joined(f, p, q, x, g)
  PROVE  /\ Geometry(g, bufs, w)
         /\ \A lo, hi : Extents(f, lo, hi) => Extents(g, lo, hi)
<1>j. /\ p \in DOMAIN f /\ f[p].next = q /\ q # NoId /\ x \in {p, q}
      /\ DOMAIN g = (DOMAIN f \ {p, q}) \cup {x}
      /\ g[x].ptr = f[p].ptr /\ g[x].size = f[p].size + f[q].size
      /\ g[x].prev = f[p].prev /\ g[x].next = f[q].next
      /\ g[x].borrowed = f[x].borrowed
      /\ \A i \in DOMAIN g \ {x} :
           /\ g[i].ptr = f[i].ptr /\ g[i].size = f[i].size
           /\ g[i].borrowed = f[i].borrowed
           /\ g[i].next = (IF i = f[p].prev THEN x ELSE f[i].next)
           /\ g[i].prev = (IF i = f[q].next THEN x ELSE f[i].prev)
  <2>1. \A i \in DOMAIN g : g[i].borrowed = f[i].borrowed
    BY DEF Joined, Rest
  <2>2. QED  BY <2>1 DEF Joined
<1> USE <1>j
<1>0. /\ Linked(f) /\ Disjoint(f) /\ Lent(f) /\ BuffersApart(f, bufs) /\ Backed(f, w)
      /\ NoId \notin DOMAIN f
  BY Constants DEF Geometry, Typed
<1>1. /\ q \in DOMAIN f /\ q # p /\ f[q].prev = p /\ f[q].ptr = f[p].ptr + f[p].size
      /\ f[p].prev \notin {p, q} /\ f[q].next \notin {p, q}
  BY <1>0, Neighbours
<1>2. \A i \in DOMAIN f : f[i].ptr \in Int /\ f[i].size \in Nat \ {0}
  BY DEF Typed, Block
<1>3. Linked(g)
  <2> SUFFICES ASSUME NEW i \in DOMAIN g
               PROVE  /\ g[i].next # NoId => /\ g[i].next \in DOMAIN g
                                             /\ g[g[i].next].prev = i
                                             /\ g[g[i].next].ptr = g[i].ptr + g[i].size
                      /\ g[i].prev # NoId => /\ g[i].prev \in DOMAIN g
                                             /\ g[g[i].prev].next = i
    BY DEF Linked
  <2>1. CASE i = x
    <3>1. ASSUME g[x].next # NoId
          PROVE  /\ g[x].next \in DOMAIN g \ {x} /\ g[g[x].next].prev = x
                 /\ g[g[x].next].ptr = g[x].ptr + g[x].size
      <4>1. f[q].next \in DOMAIN f /\ f[f[q].next].ptr = f[q].ptr + f[q].size
        BY <3>1, <1>0, <1>1 DEF Linked
      <4>2. f[q].next \in DOMAIN g \ {x}
        BY <4>1, <1>1
      <4>3. QED  BY <4>1, <4>2, <1>1, <1>2
    <3>2. ASSUME g[x].prev # NoId
          PROVE  g[x].prev \in DOMAIN g \ {x} /\ g[g[x].prev].next = x
      <4>1. f[p].prev \in DOMAIN f
        BY <3>2, <1>0 DEF Linked
      <4>2. QED  BY <4>1, <1>1
    <3>3. QED  BY <2>1, <3>1, <3>2
  <2>2. CASE i # x
    <3>0. i \in DOMAIN f /\ i \notin {p, q}
      BY <2>2
    <3>1. ASSUME g[i].next # NoId
          PROVE  /\ g[i].next \in DOMAIN g /\ g[g[i].next].prev = i
                 /\ g[g[i].next].ptr = g[i].ptr + g[i].size
      <4>1. CASE i = f[p].prev
        <5>1. f[i].next = p
          BY <4>1, <3>0, <1>0 DEF Linked
        <5>2. f[p].ptr = f[i].ptr + f[i].size
          BY <5>1, <3>0, <1>0 DEF Linked
        <5>3. QED  BY <4>1, <5>2, <2>2
      <4>2. CASE i # f[p].prev
        <5>1. g[i].next = f[i].next
          BY <4>2, <2>2
        <5>2. /\ f[i].next \in DOMAIN f /\ f[f[i].next].prev = i
              /\ f[f[i].next].ptr = f[i].ptr + f[i].size
          BY <5>1, <3>1, <3>0, <1>0 DEF Linked
        <5>3. f[i].next \notin {p, q}
          BY <5>2, <4>2, <1>1, <3>0
        <5>4. f[i].next # f[q].next
          <6>1. f[q].next # NoId => f[f[q].next].prev = q
            BY <1>0, <1>1 DEF Linked
          <6>2. QED  BY <6>1, <5>1, <5>2, <3>0, <3>1
        <5>5. QED  BY <5>1, <5>2, <5>3, <5>4, <2>2
      <4>3. QED  BY <4>1, <4>2
    <3>2. ASSUME g[i].prev # NoId
          PROVE  g[i].prev \in DOMAIN g /\ g[g[i].prev].next = i
      <4>1. CASE i = f[q].next
        BY <4>1, <2>2
      <4>2. CASE i # f[q].next
        <5>1. g[i].prev = f[i].prev
          BY <4>2, <2>2
        <5>2. f[i].prev \in DOMAIN f /\ f[f[i].prev].next = i
          BY <5>1, <3>2, <3>0, <1>0 DEF Linked
        <5>3. f[i].prev \notin {p, q}
          BY <5>2, <4>2, <3>0
        <5>4. f[i].prev # f[p].prev
          <6>1. f[p].prev # NoId => f[f[p].prev].next = p
            BY <1>0, <1>1 DEF Linked
          <6>2. QED  BY <6>1, <5>1, <5>2, <3>0, <3>2
        <5>5. QED  BY <5>1, <5>2, <5>3, <5>4, <2>2
      <4>3. QED  BY <4>1, <4>2
    <3>3. QED  BY <3>1, <3>2
  <2>3. QED  BY <2>1, <2>2
<1>4. \A b : Overlap(g[x], b) /\ b.ptr \in Int /\ b.size \in Nat \ {0}
               => Overlap(f[p], b) \/ Overlap(f[q], b)
  BY <1>1, <1>2 DEF Overlap
<1>s. \A a, b : Overlap(a, b) <=> Overlap(b, a)
  BY DEF Overlap
<1>o. \A i \in DOMAIN g \ {x} : i \in DOMAIN f \ {p, q}
  OBVIOUS
<1>5. Disjoint(g)
  <2>1. ASSUME NEW j \in DOMAIN g \ {x}
        PROVE  ~Overlap(g[x], g[j])
    <3>1. /\ g[j].ptr \in Int /\ g[j].size \in Nat \ {0}
          /\ ~Overlap(f[p], f[j]) /\ ~Overlap(f[q], f[j])
      BY <1>0, <1>1, <1>2, <1>o DEF Disjoint
    <3>2. ~Overlap(f[p], g[j]) /\ ~Overlap(f[q], g[j])
      BY <3>1 DEF Overlap
    <3>3. QED  BY <3>1, <3>2, <1>4
  <2>2. ASSUME NEW i \in DOMAIN g \ {x}, NEW j \in DOMAIN g \ {x}, i # j
        PROVE  ~Overlap(g[i], g[j])
    BY <2>2, <1>0, <1>o DEF Disjoint, Overlap
  <2>3. QED  BY <2>1, <2>2, <1>s DEF Disjoint
<1>6. Lent(g)
  <2>1. \A i \in DOMAIN g \ {x} : f[i].borrowed => i # f[p].prev /\ i # f[q].next
    <3>1. f[p].prev # NoId => f[f[p].prev].next = p
      BY <1>0 DEF Linked
    <3>2. f[q].next # NoId => f[f[q].next].prev = q
      BY <1>0, <1>1 DEF Linked
    <3>3. p # NoId /\ q # NoId
      BY <1>0
    <3>4. QED  BY <1>0, <1>o, <3>1, <3>2, <3>3 DEF Lent, IsSplit
  <2>2. \A i \in DOMAIN g \ {x} :
          /\ g[i].borrowed => ~IsSplit(g[i])
          /\ ~g[i].borrowed => g[i].ptr >= 0
          /\ g[i].ptr >= 0 \/ g[i].ptr + g[i].size <= 0
    BY <1>0, <1>o, <2>1 DEF Lent, IsSplit
  <2>3. ~f[p].borrowed /\ ~f[q].borrowed
    BY <1>0, <1>1 DEF Lent, IsSplit
  <2>4. f[p].ptr >= 0
    BY <1>0, <2>3 DEF Lent
  <2>5. ~g[x].borrowed /\ g[x].ptr >= 0
    BY <2>3, <2>4
  <2>6. QED  BY <2>2, <2>5 DEF Lent
<1>7. BuffersApart(g, bufs)
  <2>1. ASSUME NEW b \in bufs
        PROVE  ~Overlap(g[x], b)
    <3>1. /\ b.ptr \in Int /\ b.size \in Nat \ {0}
          /\ ~Overlap(f[p], b) /\ ~Overlap(f[q], b)
      BY <1>0, <1>1 DEF BuffersApart
    <3>2. QED  BY <3>1, <1>4
  <2>2. ASSUME NEW i \in DOMAIN g \ {x}, NEW b \in bufs
        PROVE  ~Overlap(g[i], b)
    BY <1>0, <1>o DEF BuffersApart, Overlap
  <2>3. QED  BY <1>0, <2>1, <2>2 DEF BuffersApart
<1>8. Backed(g, w)
  <2>1. ASSUME NEW i \in DOMAIN f, NEW a \in Int, Holds(f[i], a)
        PROVE  \E j \in DOMAIN g : Holds(g[j], a)
    <3>1. CASE i \in {p, q}
      <4>1. Holds(g[x], a)
        BY <2>1, <3>1, <1>1, <1>2 DEF Holds
      <4>2. QED  BY <4>1
    <3>2. CASE i \notin {p, q}
      <4>1. i \in DOMAIN g \ {x}
        BY <3>2
      <4>2. Holds(g[i], a)
        BY <2>1, <4>1 DEF Holds
      <4>3. QED  BY <4>1, <4>2
    <3>3. QED  BY <3>1, <3>2
  <2>2. QED  BY <1>0, <2>1 DEF Backed
<1>9. ASSUME NEW lo, NEW hi, Extents(f, lo, hi)
      PROVE  Extents(g, lo, hi)
  <2>1. lo[q] = lo[p] /\ hi[q] = hi[p]
    BY <1>9 DEF Extents
  <2>2. f[p].prev # NoId => lo[f[p].prev] = lo[p] /\ hi[f[p].prev] = hi[p]
    <3>1. f[p].prev # NoId => f[p].prev \in DOMAIN f /\ f[f[p].prev].next = p
      BY <1>0 DEF Linked
    <3>2. QED  BY <3>1, <1>9, <1>0 DEF Extents
  <2>3. IsSplit(f[p]) /\ IsSplit(f[q])
    BY <1>0, <1>1 DEF IsSplit
  <2>4. /\ lo[p] <= f[p].ptr /\ f[q].ptr + f[q].size <= hi[p]
        /\ hi[p] - lo[p] <= max_split_size
    BY <1>9, <1>1, <2>1, <2>3 DEF Extents
  <2>5. /\ lo[x] <= g[x].ptr /\ g[x].ptr + g[x].size <= hi[x]
        /\ hi[x] - lo[x] <= max_split_size
    BY <2>4, <2>1, <1>1, <1>2
  <2>6. g[x].next # NoId => lo[g[x].next] = lo[x] /\ hi[g[x].next] = hi[x]
    BY <1>9, <1>1, <2>1 DEF Extents
  <2>7. \A i \in DOMAIN g \ {x} : IsSplit(g[i]) => IsSplit(f[i])
    <3>1. f[p].prev # NoId => f[f[p].prev].next = p
      BY <1>0 DEF Linked
    <3>2. f[q].next # NoId => f[f[q].next].prev = q
      BY <1>0, <1>1 DEF Linked
    <3>3. QED  BY <3>1, <3>2, <1>o, <1>0, <1>1 DEF IsSplit
  <2>8. \A i \in DOMAIN g \ {x} : i = f[p].prev => lo[i] = lo[x] /\ hi[i] = hi[x]
    BY <2>1, <2>2, <1>0, <1>o
  <2>9. QED  BY <1>9, <2>5, <2>6, <2>7, <2>8, <1>o DEF Extents
<1>10. QED  BY <1>3, <1>5, <1>6, <1>7, <1>8, <1>9 DEF Geometry

\* The block e keeps want of its memory, n gets the rest.
LEMMA BlockDivided ==
  ASSUME NEW f, NEW bufs, NEW w, Typed(f), Geometry(f, bufs, w),
         NEW e \in DOMAIN f, NEW n \in Ids, n \notin DOMAIN f,
         ~f[e].borrowed, NEW want \in Nat \ {0}, want < f[e].size, NEW g,
         DOMAIN g = DOMAIN f \cup {n},
         g[e].ptr = f[e].ptr, g[e].size = want, g[e].prev = f[e].prev,
         g[e].next = n, ~g[e].borrowed,
         g[n].ptr = f[e].ptr + want, g[n].size = f[e].size - want, g[n].prev = e,
         g[n].next = f[e].next, ~g[n].borrowed,
         \A i \in DOMAIN f \ {e} :
           /\ g[i].ptr = f[i].ptr /\ g[i].size = f[i].size
           /\ g[i].borrowed = f[i].borrowed /\ g[i].next = f[i].next
           /\ g[i].prev = (IF i = f[e].next THEN n ELSE f[i].prev)
  PROVE  /\ Geometry(g, bufs, w)
         /\ \A lo, hi : Extents(f, lo, hi) /\ f[e].size <= max_split_size =>
              \E lo2, hi2 : Extents(g, lo2, hi2)
<1>0. /\ Linked(f) /\ Disjoint(f) /\ Lent(f) /\ BuffersApart(f, bufs) /\ Backed(f, w)
      /\ NoId \notin DOMAIN f /\ n # NoId /\ e # n
  BY Constants DEF Geometry, Typed
<1>1. \A i \in DOMAIN f : f[i].ptr \in Int /\ f[i].size \in Nat \ {0}
  BY DEF Typed, Block
<1>2. /\ f[e].next # NoId => /\ f[e].next \in DOMAIN f \ {e}
                             /\ f[f[e].next].prev = e
                             /\ f[f[e].next].ptr = f[e].ptr + f[e].size
      /\ f[e].prev # NoId => /\ f[e].prev \in DOMAIN f \ {e}
                             /\ f[f[e].prev].next = e
      /\ f[e].next # NoId => f[e].prev # f[e].next
  <2>1. f[e].next # NoId => /\ f[e].next \in DOMAIN f /\ f[e].next # e
                            /\ f[f[e].next].prev = e
                            /\ f[f[e].next].ptr = f[e].ptr + f[e].size
                            /\ f[e].prev \notin {e, f[e].next}
    BY <1>0, Neighbours
  <2>2. f[e].prev # NoId => f[e].prev \in DOMAIN f /\ f[f[e].prev].next = e
    BY <1>0 DEF Linked
  <2>3. f[e].prev # e
    BY <2>1, <2>2, <1>0
  <2>4. QED  BY <2>1, <2>2, <2>3
<1>3. Linked(g)
  <2> SUFFICES ASSUME NEW i \in DOMAIN g
               PROVE  /\ g[i].next # NoId => /\ g[i].next \in DOMAIN g
                                             /\ g[g[i].next].prev = i
                                             /\ g[g[i].next].ptr = g[i].ptr + g[i].size
                      /\ g[i].prev # NoId => /\ g[i].prev \in DOMAIN g
                                             /\ g[g[i].prev].next = i
    BY DEF Linked
  <2>1. CASE i = e
    <3>1. /\ g[i].next \in DOMAIN g /\ g[g[i].next].prev = i
          /\ g[g[i].next].ptr = g[i].ptr + g[i].size
      BY <2>1, <1>1
    <3>2. g[i].prev # NoId => g[i].prev \in DOMAIN g /\ g[g[i].prev].next = i
      BY <2>1, <1>2
    <3>3. QED  BY <3>1, <3>2
  <2>2. CASE i = n
    <3>1. g[i].next # NoId => /\ g[i].next \in DOMAIN g /\ g[g[i].next].prev = i
                              /\ g[g[i].next].ptr = f[e].ptr + f[e].size
      BY <2>2, <1>2
    <3>2. g[i].ptr + g[i].size = f[e].ptr + f[e].size
      BY <2>2, <1>1
    <3>3. QED  BY <2>2, <3>1, <3>2
  <2>3. CASE i \in DOMAIN f \ {e}
    <3>1. f[i].next # NoId => /\ f[i].next \in DOMAIN f /\ f[f[i].next].prev = i
                              /\ f[f[i].next].ptr = f[i].ptr + f[i].size
      BY <2>3, <1>0 DEF Linked
    <3>2. f[i].prev # NoId => f[i].prev \in DOMAIN f /\ f[f[i].prev].next = i
      BY <2>3, <1>0 DEF Linked
    <3>3. f[i].next # NoId /\ f[i].next # e => f[i].next # f[e].next
      BY <2>3, <1>2, <3>1
    <3>4. g[i].next # NoId => /\ g[i].next \in DOMAIN g /\ g[g[i].next].prev = i
                              /\ g[g[i].next].ptr = g[i].ptr + g[i].size
      BY <2>3, <3>1, <3>3
    <3>5. CASE i = f[e].next
      <4>1. g[i].prev = n /\ g[n].next = i
        BY <2>3, <3>5
      <4>2. QED  BY <4>1, <3>4
    <3>6. CASE i # f[e].next
      <4>1. g[i].prev = f[i].prev /\ f[i].prev # e
        <5>1. f[i].prev = e => f[e].next = i
          BY <3>2, <1>0
        <5>2. QED  BY <5>1, <2>3, <3>6
      <4>2. f[i].prev # NoId => g[f[i].prev].next = i
        BY <4>1, <3>2
      <4>3. QED  BY <4>1, <4>2, <3>2, <3>4
    <3>7. QED  BY <3>5, <3>6
  <2>4. QED  BY <2>1, <2>2, <2>3
<1>4. \A b : b.ptr \in Int /\ b.size \in Nat \ {0} /\ ~Overlap(f[e], b) =>
        ~Overlap(g[e], b) /\ ~Overlap(g[n], b) /\ ~Overlap(b, g[e]) /\ ~Overlap(b, g[n])
  BY <1>1 DEF Overlap
<1>5. Disjoint(g)
  <2>1. ~Overlap(g[e], g[n]) /\ ~Overlap(g[n], g[e])
    BY <1>1 DEF Overlap
  <2>2. ASSUME NEW i \in DOMAIN f \ {e}
        PROVE  /\ ~Overlap(g[e], g[i]) /\ ~Overlap(g[n], g[i])
               /\ ~Overlap(g[i], g[e]) /\ ~Overlap(g[i], g[n])
    <3>1. /\ ~Overlap(f[e], g[i]) /\ g[i].ptr \in Int /\ g[i].size \in Nat \ {0}
      BY <1>0, <1>1 DEF Disjoint, Overlap
    <3>2. QED  BY <3>1, <1>4
  <2>3. \A i, j \in DOMAIN f \ {e} : i # j => ~Overlap(g[i], g[j])
    BY <1>0 DEF Disjoint, Overlap
  <2>4. QED  BY <2>1, <2>2, <2>3 DEF Disjoint
<1>6. Lent(g)
  <2>1. \A i \in DOMAIN f \ {e} : f[i].borrowed => i # f[e].next
    BY <1>0, <1>2 DEF Lent, IsSplit
  <2>2. \A i \in DOMAIN f \ {e} :
          /\ g[i].borrowed => ~IsSplit(g[i])
          /\ ~g[i].borrowed => g[i].ptr >= 0
          /\ g[i].ptr >= 0 \/ g[i].ptr + g[i].size <= 0
    BY <1>0, <2>1 DEF Lent, IsSplit
  <2>3. f[e].ptr >= 0
    BY <1>0 DEF Lent
  <2>4. g[e].ptr >= 0 /\ g[n].ptr >= 0
    BY <2>3, <1>1
  <2>5. QED  BY <2>2, <2>4 DEF Lent
<1>7. BuffersApart(g, bufs)
  <2>1. ASSUME NEW b \in bufs
        PROVE  ~Overlap(g[e], b) /\ ~Overlap(g[n], b)
    BY <1>0, <1>4 DEF BuffersApart
  <2>2. \A i \in DOMAIN f \ {e}, b \in bufs : ~Overlap(g[i], b)
    BY <1>0 DEF BuffersApart, Overlap
  <2>3. QED  BY <1>0, <2>1, <2>2 DEF BuffersApart
<1>8. Backed(g, w)
  <2>1. ASSUME NEW i \in DOMAIN f, NEW a \in Int, Holds(f[i], a)
        PROVE  \E j \in DOMAIN g : Holds(g[j], a)
    <3>1. CASE i = e
      <4>1. Holds(g[e], a) \/ Holds(g[n], a)
        BY <2>1, <3>1, <1>1 DEF Holds
      <4>2. QED  BY <4>1
    <3>2. CASE i # e
      <4>1. Holds(g[i], a)
        BY <2>1, <3>2 DEF Holds
      <4>2. QED  BY <4>1
    <3>3. QED  BY <3>1, <3>2
  <2>2. QED  BY <1>0, <2>1 DEF Backed
<1>9. ASSUME NEW lo, NEW hi, Extents(f, lo, hi), f[e].size <= max_split_size
      PROVE  \E lo2, hi2 : Extents(g, lo2, hi2)
  <2> DEFINE l == IF IsSplit(f[e]) THEN lo[e] ELSE f[e].ptr
             h == IF IsSplit(f[e]) THEN hi[e] ELSE f[e].ptr + f[e].size
             lo2 == [i \in Ids |-> IF i \in {e, n} THEN l ELSE lo[i]]
             hi2 == [i \in Ids |-> IF i \in {e, n} THEN h ELSE hi[i]]
  <2>0. e \in Ids /\ f[e].size \in Nat /\ f[e].ptr \in Int /\ max_split_size \in Int
    BY <1>1, Constants DEF Typed
  <2>1. /\ l \in Int /\ h \in Int
        /\ l <= f[e].ptr /\ f[e].ptr + f[e].size <= h /\ h - l <= max_split_size
    BY <1>9, <2>0 DEF Extents
  <2>2. lo2 \in [Ids -> Int] /\ hi2 \in [Ids -> Int]
    BY <1>9, <2>1 DEF Extents
  <2>3. /\ lo2[e] = l /\ lo2[n] = l /\ hi2[e] = h /\ hi2[n] = h
        /\ \A i \in DOMAIN f \ {e} : lo2[i] = lo[i] /\ hi2[i] = hi[i]
    BY <2>0 DEF Typed
  <2> HIDE DEF l, h, lo2, hi2
  <2>4. f[e].next # NoId => lo2[f[e].next] = l /\ hi2[f[e].next] = h
    <3>1. f[e].next # NoId => l = lo[e] /\ h = hi[e]
      BY DEF l, h, IsSplit
    <3>2. f[e].next # NoId => lo[f[e].next] = lo[e] /\ hi[f[e].next] = hi[e]
      BY <1>9 DEF Extents
    <3>3. QED  BY <1>2, <2>3, <3>1, <3>2
  <2>5. \A i \in DOMAIN f \ {e} : f[i].next = e => lo2[i] = l /\ hi2[i] = h
    <3>1. \A i \in DOMAIN f \ {e} : f[i].next = e => f[e].prev = i
      BY <1>0 DEF Linked
    <3>2. f[e].prev # NoId => l = lo[e] /\ h = hi[e]
      BY DEF l, h, IsSplit
    <3>3. QED  BY <1>0, <1>9, <2>3, <3>1, <3>2 DEF Extents
  <2>6. \A i \in DOMAIN f \ {e} : IsSplit(g[i]) => IsSplit(f[i])
    BY <1>0, <1>2 DEF IsSplit
  <2>7. \A i \in {e, n} : /\ lo2[i] <= g[i].ptr /\ g[i].ptr + g[i].size <= hi2[i]
                          /\ hi2[i] - lo2[i] <= max_split_size
    BY <2>0, <2>1, <2>3
  <2>8. \A i \in {e, n} :
          g[i].next # NoId => lo2[g[i].next] = lo2[i] /\ hi2[g[i].next] = hi2[i]
    BY <2>3, <2>4
  <2>9. \A i \in DOMAIN f \ {e} : IsSplit(g[i]) =>
              /\ lo2[i] <= g[i].ptr /\ g[i].ptr + g[i].size <= hi2[i]
              /\ hi2[i] - lo2[i] <= max_split_size
    BY <1>9, <2>3, <2>6 DEF Extents
  <2>10. \A i \in DOMAIN f \ {e} :
           g[i].next # NoId => lo2[g[i].next] = lo2[i] /\ hi2[g[i].next] = hi2[i]
    <3>1. \A i \in DOMAIN f \ {e} : f[i].next # NoId => f[i].next \in DOMAIN f
      BY <1>0 DEF Linked
    <3>2. QED  BY <1>9, <2>3, <2>5, <3>1 DEF Extents
  <2>11. Extents(g, lo2, hi2)
    BY <2>2, <2>7, <2>8, <2>9, <2>10 DEF Extents
  <2>12. QED  BY <2>11
<1>10. QED  BY <1>3, <1>5, <1>6, <1>7, <1>8, <1>9 DEF Geometry

-----------------------------------------------------------------------------
(* TryMerge *)

\* The event of a block that is to be cached in table t.
EventFor(ev, x, t) == IF t = AllStreams THEN x \notin DOMAIN ev
                      ELSE x \in DOMAIN ev /\ ev[x].stream = t

\* The block x, to be cached in m.tbl, is in no table yet.
Pending(m, x, bufs, w) ==
  /\ w \in [Streams -> Seq(Kernel)]
  /\ Typed(m.info) /\ Geometry(m.info, bufs, w)
  /\ Known(m.info, m.table, m.event, w, x)
  /\ x \in DOMAIN m.info /\ m.info[x].cached_pool = NoTable
  /\ ~Allocated(m.info[x]) /\ ~m.info[x].borrowed
  /\ m.tbl \in Tables
  /\ EventFor(m.event, x, m.tbl)
  /\ \A s \in Streams : \A k \in DOMAIN w[s] :
       Overlap(w[s][k], m.info[x]) => s = m.tbl /\ k <= m.event[x].left

\* What Absorb makes of the blocks: p and q are the pair in the order of memory.
Inside(a, b) == b.ptr <= a.ptr /\ a.ptr + a.size <= b.ptr + b.size

Absorbs(m, x, n, isPrev, r, p, q) ==
  /\ IF isPrev THEN p = n /\ q = x ELSE p = x /\ q = n
  /\ Joined(m.info, p, q, x, r.info) /\ Typed(r.info)
  /\ n # x /\ n \in DOMAIN m.info

\* TryMerge joins the block with the neighbour it looks at.
LEMMA AbsorbBlocks ==
  ASSUME NEW m, Typed(m.info), Linked(m.info),
         NEW x, x \in DOMAIN m.info, NEW isPrev \in BOOLEAN, NEW n, n # NoId,
         n = (IF isPrev THEN m.info[x].prev ELSE m.info[x].next)
  PROVE  \E p, q : Absorbs(m, x, n, isPrev, Absorb(m, x, n, isPrev), p, q)
<1>f. PICK f, g, p, q :
        /\ f = m.info /\ g = Absorb(m, x, n, isPrev).info
        /\ p = (IF isPrev THEN n ELSE x) /\ q = (IF isPrev THEN x ELSE n)
  OBVIOUS
<1>g. Typed(f) /\ Linked(f) /\ x \in DOMAIN f /\ n = (IF isPrev THEN f[x].prev ELSE f[x].next)
  BY <1>f
<1> USE <1>g, <1>f
<1>c. NoId \notin DOMAIN f
  BY Constants DEF Typed
<1>1. p \in DOMAIN f /\ f[p].next = q /\ q # NoId /\ n \in DOMAIN f
  BY <1>c DEF Linked
<1>2. /\ q \in DOMAIN f /\ q # p /\ f[q].prev = p
      /\ f[p].prev \notin {p, q} /\ f[q].next \notin {p, q}
  BY <1>1, Neighbours
<1>3. f[p] \in Block /\ f[q] \in Block /\ f[x] \in Block /\ x \in Ids
  BY <1>1, <1>2 DEF Typed
<1>4. /\ f[p].size + f[q].size \in Nat \ {0} /\ f[p].ptr \in Int
      /\ f[p].prev \in Ids \cup {NoId} /\ f[q].next \in Ids \cup {NoId}
      /\ f[x].size + f[n].size = f[p].size + f[q].size
  BY <1>3 DEF Block
<1> DEFINE grown == [f[x] EXCEPT !.size = f[x].size + f[n].size,
                                 !.ptr = IF isPrev THEN f[n].ptr ELSE f[x].ptr,
                                 !.prev = IF isPrev THEN f[n].prev ELSE f[x].prev,
                                 !.next = IF isPrev THEN f[x].next ELSE f[n].next]
           far == IF isPrev THEN f[n].prev ELSE f[n].next
<1>5. /\ grown \in Block /\ grown.size = f[p].size + f[q].size /\ grown.ptr = f[p].ptr
      /\ grown.prev = f[p].prev /\ grown.next = f[q].next /\ Rest(grown) = Rest(f[x])
  <2>1. grown = [f[x] EXCEPT !.size = f[p].size + f[q].size, !.ptr = f[p].ptr,
                             !.prev = f[p].prev, !.next = f[q].next]
    <3>1. CASE isPrev
      BY ONLY <3>1, <1>4, <1>f
    <3>2. CASE ~isPrev
      BY ONLY <3>2, <1>4, <1>f
    <3>3. QED  BY ONLY <3>1, <3>2
  <2>2. PICK b, size, ptr, prev, next :
          /\ b = f[x] /\ size = f[p].size + f[q].size /\ ptr = f[p].ptr
          /\ prev = f[p].prev /\ next = f[q].next
    OBVIOUS
  <2>3. /\ b \in Block /\ size \in Nat \ {0} /\ ptr \in Int
        /\ prev \in Ids \cup {NoId} /\ next \in Ids \cup {NoId}
    BY ONLY <1>3, <1>4, <2>2
  <2>4. PICK z : z = [b EXCEPT !.size = size, !.ptr = ptr, !.prev = prev, !.next = next]
    OBVIOUS
  <2>5. z \in Block /\ z.size = size /\ z.ptr = ptr /\ z.prev = prev /\ z.next = next
    BY ONLY <2>3, <2>4 DEF Block
  <2>6. Rest(z) = Rest(b)
    BY ONLY <2>3, <2>4 DEF Block, Rest
  <2>7. grown = z
    BY ONLY <2>1, <2>2, <2>4
  <2> HIDE DEF grown
  <2>8. QED  BY ONLY <2>2, <2>5, <2>6, <2>7
<1> HIDE DEF grown
<1>6. g = [i \in DOMAIN f \ {n} |->
             IF i = x THEN grown
             ELSE IF i # far THEN f[i]
             ELSE IF isPrev THEN [f[i] EXCEPT !.next = x] ELSE [f[i] EXCEPT !.prev = x]]
  BY DEF Absorb, grown
<1>7. DOMAIN g = (DOMAIN f \ {p, q}) \cup {x} /\ g[x] = grown
  BY <1>6, <1>1, <1>2
<1>8. ASSUME NEW i \in DOMAIN g \ {x}
      PROVE  /\ g[i] \in Block /\ Rest(g[i]) = Rest(f[i])
             /\ g[i].ptr = f[i].ptr /\ g[i].size = f[i].size
             /\ g[i].next = (IF i = f[p].prev THEN x ELSE f[i].next)
             /\ g[i].prev = (IF i = f[q].next THEN x ELSE f[i].prev)
  <2>1. i \in DOMAIN f /\ f[i] \in Block /\ i \notin {p, q}
    BY <1>7 DEF Typed
  <2>2. i = f[p].prev => f[i].next = p
    BY <2>1, <1>c, <1>1 DEF Linked
  <2>3. i = f[q].next => f[i].prev = q
    BY <2>1, <1>c, <1>2 DEF Linked
  <2>4. CASE i # far
    <3>1. g[i] = f[i]
      BY <2>4, <1>6, <1>7, <2>1
    <3>2. QED  BY <3>1, <2>1, <2>2, <2>3, <2>4
  <2>5. CASE i = far /\ isPrev
    <3>1. g[i] = [f[i] EXCEPT !.next = x]
      BY <2>5, <1>6, <1>7, <2>1
    <3>2. i = f[p].prev
      BY <2>5
    <3>3. i = f[q].next => f[i].prev = x
      BY <2>3, <2>5
    <3>4. /\ g[i] \in Block /\ Rest(g[i]) = Rest(f[i]) /\ g[i].next = x
          /\ g[i].ptr = f[i].ptr /\ g[i].size = f[i].size /\ g[i].prev = f[i].prev
      BY ONLY <3>1, <2>1, <1>3 DEF Block, Rest
    <3>5. QED  BY <3>2, <3>3, <3>4
  <2>6. CASE i = far /\ ~isPrev
    <3>1. g[i] = [f[i] EXCEPT !.prev = x]
      BY <2>6, <1>6, <1>7, <2>1
    <3>2. i = f[q].next
      BY <2>6
    <3>3. i = f[p].prev => f[i].next = x
      BY <2>2, <2>6
    <3>4. /\ g[i] \in Block /\ Rest(g[i]) = Rest(f[i]) /\ g[i].prev = x
          /\ g[i].ptr = f[i].ptr /\ g[i].size = f[i].size /\ g[i].next = f[i].next
      BY ONLY <3>1, <2>1, <1>3 DEF Block, Rest
    <3>5. QED  BY <3>2, <3>3, <3>4
  <2>7. QED  BY <2>4, <2>5, <2>6
<1>9. Typed(g)
  <2>1. \A i \in DOMAIN g : g[i] \in Block
    BY <1>5, <1>7, <1>8
  <2>2. DOMAIN g \subseteq Ids
    BY <1>7 DEF Typed
  <2>3. QED  BY <2>1, <2>2 DEF Typed
<1>10. n # x
  BY <1>2
<1>11. \A i \in DOMAIN g : Rest(g[i]) = Rest(f[i])
  BY <1>5, <1>7, <1>8
<1>12. /\ g[x].ptr = f[p].ptr /\ g[x].size = f[p].size + f[q].size
       /\ g[x].prev = f[p].prev /\ g[x].next = f[q].next
  BY <1>5, <1>7
<1>13. Joined(f, p, q, x, g)
  <2>1. x \in {p, q}
    OBVIOUS
  <2>2. QED  BY ONLY <2>1, <1>1, <1>7, <1>8, <1>11, <1>12 DEF Joined
<1>14. Absorbs(m, x, n, isPrev, Absorb(m, x, n, isPrev), p, q)
  BY <1>1, <1>9, <1>10, <1>13 DEF Absorbs
<1>15. QED  BY <1>14

\* The table TryMerge decides on is a stream's if either is, and none for two.
LEMMA Selection ==
  ASSUME NEW a \in Tables, NEW b \in Tables, NEW c, c = TableSelection(a, b)
  PROVE  /\ c # NoTable => /\ c \in Tables /\ c \in {a, b}
                           /\ (a \in Streams => c = a) /\ (b \in Streams => c = b)
                           /\ (c = AllStreams => a = AllStreams /\ b = AllStreams)
         /\ c = NoTable <=> a \in Streams /\ b \in Streams /\ a # b
BY Constants DEF TableSelection, Tables

\* The event of the merged block is that of its table and not over before the
\* events of both blocks.
EventsJoin(m, w, x, n, target, ev2) ==
  /\ DOMAIN ev2 \subseteq (DOMAIN m.event \ {n}) \cup {x}
  /\ \A i \in DOMAIN m.event \ {x, n} : i \in DOMAIN ev2 /\ ev2[i] = m.event[i]
  /\ target = AllStreams => x \notin DOMAIN ev2
  /\ target # AllStreams =>
       /\ x \in DOMAIN ev2 /\ ev2[x] \in Event /\ ev2[x].stream = target
       /\ ev2[x].left <= Len(w[ev2[x].stream])
       /\ m.tbl = target => m.event[x].left <= ev2[x].left
       /\ m.info[n].cached_pool = target => m.event[n].left <= ev2[x].left

\* The event of the joined block comes no earlier than those of its parts.
LEMMA EventMerged ==
  ASSUME NEW m, NEW w, NEW x, NEW n, x \in DOMAIN m.info, n \in DOMAIN m.info, n # x,
         EventsTyped(m.info, m.event, w), EventsAgree(m.info, m.event, x),
         m.info[n].cached_pool \in Tables, m.tbl \in Tables,
         m.info[n].cached_pool = AllStreams
           <=> m.info[n].status = "AVAILABLE_FOR_ALL_STREAM",
         EventFor(m.event, x, m.tbl),
         NEW target, target = TableSelection(m.tbl, m.info[n].cached_pool),
         target # NoTable
  PROVE  EventsJoin(m, w, x, n, target, MergedEvent(m, x, n, target))
<1>f. PICK f, ev, ev2 : f = m.info /\ ev = m.event /\ ev2 = MergedEvent(m, x, n, target)
  OBVIOUS
<1>g. /\ x \in DOMAIN f /\ n \in DOMAIN f /\ n # x
      /\ EventsTyped(f, ev, w) /\ EventsAgree(f, ev, x)
      /\ f[n].cached_pool \in Tables /\ m.tbl \in Tables
      /\ f[n].cached_pool = AllStreams <=> f[n].status = "AVAILABLE_FOR_ALL_STREAM"
      /\ IF m.tbl = AllStreams THEN x \notin DOMAIN ev
         ELSE x \in DOMAIN ev /\ ev[x].stream = m.tbl
      /\ target = TableSelection(m.tbl, f[n].cached_pool)
  BY <1>f DEF EventFor
<1> SUFFICES
      /\ DOMAIN ev2 \subseteq (DOMAIN ev \ {n}) \cup {x}
      /\ \A i \in DOMAIN ev \ {x, n} : i \in DOMAIN ev2 /\ ev2[i] = ev[i]
      /\ target = AllStreams => x \notin DOMAIN ev2
      /\ target # AllStreams =>
           /\ x \in DOMAIN ev2 /\ ev2[x] \in Event /\ ev2[x].stream = target
           /\ ev2[x].left <= Len(w[ev2[x].stream])
           /\ m.tbl = target => ev[x].left <= ev2[x].left
           /\ f[n].cached_pool = target => ev[n].left <= ev2[x].left
  BY <1>f DEF EventsJoin
<1> USE <1>f, <1>g
<1> DEFINE c == f[n].cached_pool
<1>0. AllStreams \notin Streams /\ Tables = {AllStreams} \cup Streams
  BY Constants DEF Tables
<1>1. IF c \in Streams THEN n \in DOMAIN ev /\ ev[n].stream = c ELSE n \notin DOMAIN ev
  BY DEF EventsAgree
<1>2. \A i \in DOMAIN ev : ev[i] \in Event /\ ev[i].left <= Len(w[ev[i].stream])
                           /\ ev[i].left \in Nat
  BY DEF EventsTyped, Event
<1>s. /\ target \in Tables /\ target \in {m.tbl, c}
      /\ m.tbl \in Streams => target = m.tbl
      /\ c \in Streams => target = c
      /\ target = AllStreams => m.tbl = AllStreams /\ c = AllStreams
  BY Selection
<1>3. CASE target = AllStreams
  <2>1. ev2 = ev /\ n \notin DOMAIN ev /\ x \notin DOMAIN ev
    BY <1>3, <1>0, <1>1, <1>s DEF MergedEvent
  <2>2. QED  BY <2>1, <1>3
<1>4. CASE target # AllStreams /\ m.tbl = AllStreams
  <2>1. c = target /\ c \in Streams /\ n \in DOMAIN ev
    BY <1>4, <1>0, <1>1, <1>s
  <2>2. ev2 = With(Without(ev, {n}), x, ev[n])
    BY <1>4 DEF MergedEvent
  <2>3. /\ DOMAIN ev2 = (DOMAIN ev \ {n}) \cup {x} /\ ev2[x] = ev[n]
        /\ \A i \in DOMAIN ev \ {x, n} : ev2[i] = ev[i]
    BY <2>2 DEF With, Without, Restrict
  <2>4. ev[n] \in Event /\ ev[n].left <= Len(w[ev[n].stream]) /\ ev[n].left <= ev[n].left
    BY ONLY <1>2, <2>1
  <2>5. ev[n].stream = target
    BY <1>1, <2>1
  <2>6. QED  BY <1>0, <1>4, <2>1, <2>3, <2>4, <2>5
<1>5. CASE m.tbl # AllStreams /\ c = AllStreams
  <2>1. ev2 = ev /\ target = m.tbl /\ n \notin DOMAIN ev
    BY <1>5, <1>0, <1>1, <1>s DEF MergedEvent
  <2>2. QED  BY <1>0, <1>2, <1>5, <2>1
<1>6. CASE m.tbl # AllStreams /\ c # AllStreams
  <2> DEFINE later == IF ev[n].left > ev[x].left THEN ev[n] ELSE ev[x]
  <2>1. c = target /\ m.tbl = target /\ n \in DOMAIN ev /\ x \in DOMAIN ev
    BY <1>6, <1>0, <1>1, <1>s
  <2>2. ev2 = With(Without(ev, {n}), x, later)
    BY <1>6, <2>1 DEF MergedEvent
  <2>3. /\ DOMAIN ev2 = (DOMAIN ev \ {n}) \cup {x} /\ ev2[x] = later
        /\ \A i \in DOMAIN ev \ {x, n} : ev2[i] = ev[i]
    BY <2>2 DEF With, Without, Restrict
  <2>4. /\ later \in {ev[n], ev[x]}
        /\ ev[n].left <= later.left /\ ev[x].left <= later.left
    BY <2>1, <1>2
  <2>5. later \in Event /\ later.stream = target /\ later.left <= Len(w[later.stream])
    BY <1>0, <1>1, <1>2, <1>6, <2>1, <2>4
  <2> HIDE DEF later
  <2>6. QED  BY <1>6, <1>s, <2>1, <2>3, <2>4, <2>5
<1>7. QED  BY <1>3, <1>4, <1>5, <1>6

\* What merging does to the blocks: x grows over blocks that are free and cached.
Grown(f, g, x) ==
  /\ DOMAIN g \subseteq DOMAIN f /\ x \in DOMAIN g
  /\ \A i \in DOMAIN g : Rest(g[i]) = Rest(f[i])
  /\ \A i \in DOMAIN g \ {x} : g[i].ptr = f[i].ptr /\ g[i].size = f[i].size
  /\ Inside(f[x], g[x])
  /\ \A i \in DOMAIN f \ DOMAIN g :
       Inside(f[i], g[x]) /\ ~Allocated(f[i]) /\ f[i].cached_pool # NoTable
  /\ \A lo, hi : Extents(f, lo, hi) => Extents(g, lo, hi)

\* Absorbing a neighbour leaves the rest in order.
AbsorbedInto(m, x, bufs, w, n, isPrev, r) ==
  /\ Pending(r, x, bufs, w)
  /\ r.tbl = TableSelection(m.tbl, m.info[n].cached_pool)
  /\ n \in DOMAIN m.info /\ n # x
  /\ DOMAIN r.info = DOMAIN m.info \ {n}
  /\ Grown(m.info, r.info, x)
  /\ isPrev => /\ r.info[x].prev = m.info[n].prev
               /\ r.info[x].next = m.info[x].next
  /\ ~isPrev => /\ r.info[x].next = m.info[n].next
                /\ r.info[x].prev = m.info[x].prev

\* Joined with a neighbour, the block being cached may go on to be cached.
LEMMA AbsorbPending ==
  ASSUME NEW m, NEW x, NEW bufs, NEW w, Pending(m, x, bufs, w),
         NEW isPrev \in BOOLEAN, NEW n,
         n = (IF isPrev THEN m.info[x].prev ELSE m.info[x].next), Mergeable(m, n),
         NEW r, r = Absorb(m, x, n, isPrev)
  PROVE  AbsorbedInto(m, x, bufs, w, n, isPrev, r)
<1>f. PICK f, g, c, ev, ev2 :
        f = m.info /\ g = r.info /\ c = f[n].cached_pool /\ ev = m.event /\ ev2 = r.event
  OBVIOUS
<1>0. /\ Typed(f) /\ Geometry(f, bufs, w) /\ Linked(f) /\ x \in DOMAIN f
      /\ Known(f, m.table, ev, w, x) /\ m.tbl \in Tables
      /\ f[x].cached_pool = NoTable /\ ~Allocated(f[x]) /\ ~f[x].borrowed
      /\ n # NoId /\ ~Allocated(f[n]) /\ TableSelection(m.tbl, c) # NoTable
  BY <1>f DEF Pending, Mergeable, Geometry
<1>a. PICK p, q : Absorbs(m, x, n, isPrev, r, p, q)
  BY <1>0, <1>f, AbsorbBlocks
<1>p. Joined(f, p, q, x, g) /\ x \in {p, q} /\ n \in {p, q}
  BY <1>a, <1>f DEF Absorbs
<1>1. /\ p \in DOMAIN f /\ f[p].next = q /\ q # NoId /\ n # x /\ n \in DOMAIN f
      /\ DOMAIN g = (DOMAIN f \ {p, q}) \cup {x} /\ Typed(g)
      /\ g[x].ptr = f[p].ptr /\ g[x].size = f[p].size + f[q].size
      /\ g[x].prev = f[p].prev /\ g[x].next = f[q].next
      /\ \A i \in DOMAIN g : Rest(g[i]) = Rest(f[i])
      /\ \A i \in DOMAIN g \ {x} :
           /\ g[i].ptr = f[i].ptr /\ g[i].size = f[i].size
           /\ g[i].next = (IF i = f[p].prev THEN x ELSE f[i].next)
           /\ g[i].prev = (IF i = f[q].next THEN x ELSE f[i].prev)
  <2>1. n # x /\ n \in DOMAIN f /\ Typed(g)
    BY <1>f, <1>a DEF Absorbs
  <2>2. QED  BY ONLY <1>p, <2>1 DEF Joined
<1>2. /\ r.table = LeaveTable(m.table, n, f[n]) /\ r.tbl = TableSelection(m.tbl, c)
      /\ ev2 = MergedEvent(m, x, n, TableSelection(m.tbl, c))
  BY <1>f DEF Absorb
<1>3. DOMAIN g = DOMAIN f \ {n} /\ x \in DOMAIN g
  BY ONLY <1>0, <1>p, <1>1
<1>4. \A i \in DOMAIN g :
        /\ g[i].alloc_stream = f[i].alloc_stream /\ g[i].used_streams = f[i].used_streams
        /\ g[i].status = f[i].status /\ g[i].cached_pool = f[i].cached_pool
        /\ g[i].borrowed = f[i].borrowed
        /\ (Allocated(g[i]) <=> Allocated(f[i]))
  BY <1>1 DEF Rest, Allocated
<1>5. Geometry(g, bufs, w) /\ \A lo, hi : Extents(f, lo, hi) => Extents(g, lo, hi)
  BY <1>0, <1>p, PairMerged
<1>6. /\ InTables(f, m.table) /\ StatusesAgree(f, x) /\ EventsTyped(f, ev, w)
      /\ EventsAgree(f, ev, x) /\ Foreseen(f, ev, w, x) /\ Merged(f, x)
  BY <1>0 DEF Known
<1>7. /\ c \in Tables
      /\ c = AllStreams <=> f[n].status = "AVAILABLE_FOR_ALL_STREAM"
  <2>1. c # NoTable /\ (c = AllStreams <=> f[n].status = "AVAILABLE_FOR_ALL_STREAM")
    <3>1. n \in DOMAIN f \ {x} /\ ~Allocated(f[n]) /\ c = f[n].cached_pool
      BY ONLY <1>f, <1>0, <1>1
    <3>2. QED  BY ONLY <3>1, <1>6 DEF StatusesAgree
  <2>2. QED  BY <1>f, <1>0, <1>1, <2>1 DEF Typed, Block
<1>8. /\ DOMAIN ev2 \subseteq (DOMAIN ev \ {n}) \cup {x}
      /\ \A i \in DOMAIN ev \ {x, n} : i \in DOMAIN ev2 /\ ev2[i] = ev[i]
      /\ r.tbl = AllStreams => x \notin DOMAIN ev2
      /\ r.tbl # AllStreams =>
           /\ x \in DOMAIN ev2 /\ ev2[x] \in Event /\ ev2[x].stream = r.tbl
           /\ ev2[x].left <= Len(w[ev2[x].stream])
           /\ m.tbl = r.tbl => ev[x].left <= ev2[x].left
           /\ c = r.tbl => ev[n].left <= ev2[x].left
  <2>1. EventsJoin(m, w, x, n, r.tbl, ev2)
    <3>1. EventFor(m.event, x, m.tbl)
      BY DEF Pending
    <3>2. /\ x \in DOMAIN m.info /\ n \in DOMAIN m.info /\ n # x
          /\ EventsTyped(m.info, m.event, w) /\ EventsAgree(m.info, m.event, x)
          /\ m.info[n].cached_pool \in Tables /\ m.tbl \in Tables
          /\ m.info[n].cached_pool = AllStreams
               <=> m.info[n].status = "AVAILABLE_FOR_ALL_STREAM"
      BY <1>f, <1>0, <1>1, <1>6, <1>7
    <3>3. /\ r.tbl = TableSelection(m.tbl, m.info[n].cached_pool) /\ r.tbl # NoTable
          /\ ev2 = MergedEvent(m, x, n, r.tbl)
      BY <1>f, <1>0, <1>2
    <3>4. QED  BY ONLY <3>1, <3>2, <3>3, EventMerged
  <2>2. QED  BY <1>f, <2>1 DEF EventsJoin
<1>s. /\ r.tbl \in Tables /\ (m.tbl \in Streams => r.tbl = m.tbl)
      /\ (c \in Streams => r.tbl = c)
  BY <1>0, <1>2, <1>7, Selection
<1>n. AllStreams \notin Streams /\ NoTable \notin Tables
  BY Constants DEF Tables
<1>9. InTables(g, r.table)
  <2>1. /\ DOMAIN r.table = Tables
        /\ \A t \in Tables : r.table[t] = IF t = c THEN m.table[t] \ {Entry(n, f[n])}
                                         ELSE m.table[t]
    <3>1. r.table = [m.table EXCEPT ![c] = @ \ {Entry(n, f[n])}]
      BY <1>f, <1>2 DEF LeaveTable
    <3>2. DOMAIN m.table = Tables /\ c \in Tables
      BY <1>6, <1>7 DEF InTables
    <3>3. QED  BY <3>1, <3>2
  <2>2. ASSUME NEW t \in Tables, NEW e \in r.table[t]
        PROVE  e.id \in DOMAIN g /\ g[e.id].cached_pool = t /\ e = Entry(e.id, g[e.id])
    <3>1. /\ e \in m.table[t] /\ e.id \in DOMAIN f /\ f[e.id].cached_pool = t
          /\ e = Entry(e.id, f[e.id])
      BY <2>1, <2>2, <1>6 DEF InTables
    <3>2. e.id # n
      <4>1. e.id = n => t = c /\ e = Entry(n, f[n])
        BY <3>1, <1>f
      <4>2. t = c => e # Entry(n, f[n])
        BY <2>1, <2>2
      <4>3. QED  BY <4>1, <4>2
    <3>3. e.id # x
      BY <3>1, <1>0, <1>n
    <3>4. e.id \in DOMAIN g \ {x}
      BY <1>3, <3>1, <3>2, <3>3
    <3>5. QED  BY <3>1, <3>4, <1>1, <1>4 DEF Entry
  <2>3. ASSUME NEW i \in DOMAIN g, g[i].cached_pool # NoTable
        PROVE  Entry(i, g[i]) \in r.table[g[i].cached_pool]
    <3>1. i # x /\ i # n /\ i \in DOMAIN f /\ f[i].cached_pool = g[i].cached_pool
      BY <2>3, <1>0, <1>3, <1>4
    <3>2. Entry(i, f[i]) \in m.table[f[i].cached_pool] /\ f[i].cached_pool \in Tables
      BY <2>3, <3>1, <1>0, <1>6 DEF InTables, Typed, Block
    <3>3. Entry(i, g[i]) = Entry(i, f[i])
      BY <3>1, <1>1 DEF Entry
    <3>4. Entry(i, f[i]) # Entry(n, f[n])
      BY <3>1 DEF Entry
    <3>5. PICK t : t = f[i].cached_pool
      OBVIOUS
    <3>6. Entry(i, f[i]) \in r.table[t]
      BY ONLY <2>1, <3>2, <3>4, <3>5
    <3>7. QED  BY ONLY <3>1, <3>3, <3>5, <3>6
  <2>4. QED  BY <2>1, <2>2, <2>3 DEF InTables
<1>10. StatusesAgree(g, x)
  BY <1>3, <1>4, <1>6 DEF StatusesAgree
<1>11. EventsTyped(g, ev2, w)
  <2>1. DOMAIN ev2 \subseteq DOMAIN g
    BY <1>3, <1>6, <1>8 DEF EventsTyped
  <2>2. ASSUME NEW i \in DOMAIN ev2
        PROVE  ev2[i] \in Event /\ ev2[i].left <= Len(w[ev2[i].stream])
    <3>1. CASE i = x
      BY <3>1, <1>8, <2>2
    <3>2. CASE i # x
      BY <3>2, <1>6, <1>8, <2>2 DEF EventsTyped
    <3>3. QED  BY <3>1, <3>2
  <2>3. QED  BY <2>1, <2>2 DEF EventsTyped
<1>12. EventsAgree(g, ev2, x)
  <2> SUFFICES ASSUME NEW i \in DOMAIN g \ {x}
               PROVE  IF g[i].cached_pool \in Streams
                      THEN i \in DOMAIN ev2 /\ ev2[i].stream = g[i].cached_pool
                      ELSE i \notin DOMAIN ev2
    BY DEF EventsAgree
  <2>1. i \in DOMAIN f \ {x} /\ i # n /\ g[i].cached_pool = f[i].cached_pool
    BY <1>3, <1>4
  <2>2. IF f[i].cached_pool \in Streams
        THEN i \in DOMAIN ev /\ ev[i].stream = f[i].cached_pool ELSE i \notin DOMAIN ev
    BY <2>1, <1>6 DEF EventsAgree
  <2>3. QED  BY <2>1, <2>2, <1>8
<1>13. Foreseen(g, ev2, w, x)
  <2> SUFFICES ASSUME NEW i \in DOMAIN g \ {x}, NEW s \in Streams, NEW k \in DOMAIN w[s],
                      Overlap(w[s][k], g[i])
               PROVE  IF Allocated(g[i]) THEN s \in g[i].used_streams
                      ELSE s = g[i].cached_pool /\ k <= ev2[i].left
    BY DEF Foreseen
  <2>1. i \in DOMAIN f \ {x} /\ i # n /\ Overlap(w[s][k], f[i])
    BY <1>1, <1>3 DEF Overlap
  <2>2. IF Allocated(f[i]) THEN s \in f[i].used_streams
        ELSE s = f[i].cached_pool /\ k <= ev[i].left
    BY <2>1, <1>6 DEF Foreseen
  <2>3. s = f[i].cached_pool => ev2[i] = ev[i]
    BY <2>1, <1>6, <1>8 DEF EventsAgree
  <2>4. QED  BY <2>2, <2>3, <1>4
<1>14. Merged(g, x)
  <2> SUFFICES ASSUME NEW i \in DOMAIN g \ {x}, g[i].next \notin {NoId, x},
                      ~Allocated(g[i]), ~Allocated(g[g[i].next])
               PROVE  Apart(g[i], g[g[i].next])
    BY DEF Merged
  <2>1. i \in DOMAIN f \ {x} /\ g[i].next = f[i].next
    BY <1>1, <1>3
  <2>2. f[i].next \in DOMAIN g
    BY <2>1, <1>3, <1>5 DEF Geometry, Linked
  <2>3. Apart(f[i], f[f[i].next])
    BY <2>1, <2>2, <1>4, <1>6 DEF Merged
  <2>4. QED  BY <2>1, <2>2, <2>3, <1>4 DEF Apart
<1>15. \A s \in Streams : \A k \in DOMAIN w[s] :
         Overlap(w[s][k], g[x]) => Overlap(w[s][k], f[x]) \/ Overlap(w[s][k], f[n])
  <2> SUFFICES ASSUME NEW s \in Streams, NEW k \in DOMAIN w[s], Overlap(w[s][k], g[x])
               PROVE  Overlap(w[s][k], f[p]) \/ Overlap(w[s][k], f[q])
    BY <1>a DEF Absorbs
  <2>1. w[s][k].ptr \in Int /\ w[s][k].size \in Nat \ {0}
    <3>1. w[s] \in Seq(Kernel)
      BY DEF Pending
    <3>2. w[s][k] \in Kernel
      BY <3>1
    <3>3. QED  BY <3>2 DEF Kernel
  <2>2. q \in DOMAIN f /\ f[q].ptr = f[p].ptr + f[p].size
    BY <1>0, <1>1 DEF Linked
  <2>3. /\ f[p].ptr \in Int /\ f[p].size \in Nat \ {0} /\ f[q].size \in Nat \ {0}
    BY <1>0, <1>1, <2>2 DEF Typed, Block
  <2>4. QED  BY <1>1, <2>1, <2>2, <2>3 DEF Overlap
<1>16. Known(g, r.table, ev2, w, x)
  BY <1>9, <1>10, <1>11, <1>12, <1>13, <1>14 DEF Known
<1>17. ASSUME NEW s \in Streams, NEW k \in DOMAIN w[s], Overlap(w[s][k], g[x])
       PROVE  s = r.tbl /\ k <= ev2[x].left
  <2>k. k \in Nat /\ r.tbl # NoTable
    <3>1. w[s] \in Seq(Kernel)
      BY DEF Pending
    <3>2. QED  BY <3>1, <1>s, <1>n
  <2>1. CASE Overlap(w[s][k], f[x])
    <3>1. s = m.tbl /\ k <= ev[x].left /\ EventFor(ev, x, m.tbl)
      BY <2>1, <1>f DEF Pending
    <3>2. r.tbl = s /\ r.tbl # AllStreams
      BY <3>1, <1>s, <1>n
    <3>3. ev[x] \in Event /\ ev2[x] \in Event /\ ev[x].left <= ev2[x].left
      <4>1. x \in DOMAIN ev
        BY <3>1, <1>n DEF EventFor
      <4>2. QED  BY <4>1, <3>1, <3>2, <1>6, <1>8 DEF EventsTyped
    <3>4. QED  BY <3>1, <3>2, <3>3, <2>k DEF Event
  <2>2. CASE Overlap(w[s][k], f[n])
    <3>1. s = c /\ k <= ev[n].left
      <4>1. n \in DOMAIN f \ {x} /\ ~Allocated(f[n])
        BY <1>0, <1>1
      <4>2. s = f[n].cached_pool /\ k <= ev[n].left
        BY <4>1, <2>2, <1>6 DEF Foreseen
      <4>3. QED  BY <4>2, <1>f
    <3>2. r.tbl = s /\ r.tbl # AllStreams
      BY <3>1, <1>s, <1>n
    <3>3. ev[n] \in Event /\ ev2[x] \in Event /\ ev[n].left <= ev2[x].left
      <4>1. n \in DOMAIN ev
        BY <3>1, <1>f, <1>1, <1>6 DEF EventsAgree
      <4>2. QED  BY <4>1, <3>1, <3>2, <1>6, <1>8 DEF EventsTyped
    <3>4. QED  BY <3>1, <3>2, <3>3, <2>k DEF Event
  <2>3. QED  BY <1>15, <1>17, <2>1, <2>2
<1>18. /\ x \in DOMAIN g /\ g[x].cached_pool = NoTable
       /\ ~Allocated(g[x]) /\ ~g[x].borrowed
  BY <1>0, <1>3, <1>4
<1>19. EventFor(ev2, x, r.tbl)
  BY <1>8 DEF EventFor
<1>20. w \in [Streams -> Seq(Kernel)]
  BY DEF Pending
<1>21. Pending(r, x, bufs, w)
  BY <1>f, <1>1, <1>5, <1>16, <1>17, <1>18, <1>19, <1>20, <1>s DEF Pending
<1>22. Inside(f[n], g[x]) /\ Inside(f[x], g[x])
  <2>1. q \in DOMAIN f /\ f[q].ptr = f[p].ptr + f[p].size
    BY <1>0, <1>1 DEF Linked
  <2>2. /\ f[p].ptr \in Int /\ f[p].size \in Nat \ {0} /\ f[q].size \in Nat \ {0}
    BY <1>0, <1>1, <2>1 DEF Typed, Block
  <2>3. Inside(f[p], g[x]) /\ Inside(f[q], g[x])
    BY <1>1, <2>1, <2>2 DEF Inside
  <2>4. QED  BY <2>3, <1>a DEF Absorbs
<1>24. /\ isPrev => g[x].prev = f[n].prev /\ g[x].next = f[x].next
       /\ ~isPrev => g[x].next = f[n].next /\ g[x].prev = f[x].prev
  BY <1>1, <1>a DEF Absorbs
<1>25. \A i \in DOMAIN g : Rest(g[i]) = Rest(f[i])
  BY <1>1
<1>26. n \in DOMAIN f /\ n # x /\ DOMAIN g = DOMAIN f \ {n}
  BY <1>1, <1>3
<1>27. \A i \in DOMAIN g \ {x} : g[i].ptr = f[i].ptr /\ g[i].size = f[i].size
  BY <1>1
<1>28. ~Allocated(f[n]) /\ f[n].cached_pool # NoTable
  BY <1>f, <1>0, <1>7, <1>n
<1>29. Grown(f, g, x)
  BY ONLY <1>3, <1>5, <1>22, <1>25, <1>26, <1>27, <1>28 DEF Grown
<1>30. QED  BY ONLY <1>f, <1>2, <1>21, <1>24, <1>26, <1>29 DEF AbsorbedInto

\* Neither neighbour of the block that grows could still be merged with it.
LEMMA AbsorbBlocked ==
  ASSUME NEW m, NEW x, NEW bufs, NEW w, Pending(m, x, bufs, w),
         NEW isPrev \in BOOLEAN, NEW n,
         n = (IF isPrev THEN m.info[x].prev ELSE m.info[x].next), Mergeable(m, n),
         NEW r, r = Absorb(m, x, n, isPrev)
  PROVE  /\ ~Mergeable(r, IF isPrev THEN m.info[n].prev ELSE m.info[n].next)
         /\ \A y : ~Mergeable(m, y) /\ y \in DOMAIN r.info \cup {NoId}
                     => ~Mergeable(r, y)
<1>f. PICK f, g, c : f = m.info /\ g = r.info /\ c = f[n].cached_pool
  OBVIOUS
<1>0. /\ Pending(r, x, bufs, w) /\ r.tbl = TableSelection(m.tbl, c)
      /\ n \in DOMAIN f /\ n # x /\ DOMAIN g = DOMAIN f \ {n}
      /\ Grown(f, g, x) /\ n # NoId /\ ~Allocated(f[n])
  <2>1. AbsorbedInto(m, x, bufs, w, n, isPrev, r)
    BY AbsorbPending
  <2>2. QED  BY <1>f, <2>1 DEF Mergeable, AbsorbedInto
<1>1. /\ Typed(f) /\ Linked(f) /\ StatusesAgree(f, x) /\ Merged(f, x)
      /\ x \in DOMAIN f /\ m.tbl \in Tables /\ r.tbl \in Tables /\ ~Allocated(f[x])
      /\ f[x].cached_pool = NoTable
  BY <1>0, <1>f DEF Pending, Known, Geometry
<1>2. NoId \notin DOMAIN f /\ NoTable \notin Tables /\ AllStreams \notin Streams
  BY <1>1, Constants DEF Typed, Tables
<1>3. \A i \in DOMAIN g : /\ g[i].cached_pool = f[i].cached_pool
                          /\ (Allocated(g[i]) <=> Allocated(f[i]))
  BY <1>0 DEF Grown, Rest, Allocated
<1>4. \A i \in DOMAIN f \ {x} : ~Allocated(f[i]) => f[i].cached_pool \in Tables
  <2>1. \A i \in DOMAIN f : f[i].cached_pool \in {NoTable} \cup Tables
    BY <1>1 DEF Typed, Block
  <2>2. QED  BY <1>1, <2>1 DEF StatusesAgree
<1>5. c \in Tables /\ r.tbl # NoTable
  BY <1>0, <1>1, <1>2, <1>4, <1>f
<1>6. /\ m.tbl \in Streams => r.tbl = m.tbl
      /\ c \in Streams => r.tbl = c
  BY <1>0, <1>1, <1>5, Selection
<1>7. ASSUME NEW y, ~Mergeable(m, y), y \in DOMAIN g \cup {NoId}
      PROVE  ~Mergeable(r, y)
  <2>1. CASE y = NoId
    BY <2>1 DEF Mergeable
  <2>2. CASE y # NoId /\ Allocated(f[y])
    BY <2>2, <1>7, <1>3, <1>f DEF Mergeable
  <2>3. CASE y # NoId /\ ~Allocated(f[y])
    <3>1. TableSelection(m.tbl, f[y].cached_pool) = NoTable /\ y \in DOMAIN g
      BY <2>3, <1>7, <1>f DEF Mergeable
    <3>2. CASE m.tbl \in Streams
      BY <3>1, <3>2, <1>3, <1>6, <1>f DEF Mergeable
    <3>3. CASE m.tbl = AllStreams
      <4>1. f[y].cached_pool \in {NoTable} \cup Tables
        BY <3>1, <1>0, <1>1 DEF Typed, Block
      <4>2. f[y].cached_pool = NoTable
        BY <3>1, <3>3, <4>1, Selection, <1>1, <1>2
      <4>3. TableSelection(r.tbl, NoTable) = NoTable
        BY <1>1, Constants DEF TableSelection, Tables
      <4>4. TableSelection(r.tbl, r.info[y].cached_pool) = NoTable
        BY ONLY <3>1, <4>2, <4>3, <1>3, <1>f
      <4>5. QED  BY ONLY <4>4 DEF Mergeable
    <3>4. QED  BY <3>2, <3>3, <1>1 DEF Tables
  <2>4. QED  BY <2>1, <2>2, <2>3
<1>8. ASSUME NEW y, y = (IF isPrev THEN f[n].prev ELSE f[n].next)
      PROVE  ~Mergeable(r, y)
  <2> SUFFICES ASSUME y # NoId, ~Allocated(g[y])
               PROVE  TableSelection(r.tbl, g[y].cached_pool) = NoTable
    BY <1>f DEF Mergeable
  <2>1. y \in DOMAIN g \ {x}
    <3>1. CASE isPrev
      <4>1. f[x].prev = n /\ f[n].next = x /\ y = f[n].prev
        BY <3>1, <1>0, <1>1, <1>8, <1>f DEF Linked
      <4>2. y \notin {n, x}
        <5>1. n \in DOMAIN f /\ f[n].next # NoId /\ Typed(f) /\ Linked(f)
          BY <4>1, <1>0, <1>1, <1>2
        <5>2. f[n].prev \notin {n, f[n].next}
          BY ONLY <5>1, Neighbours
        <5>3. QED  BY ONLY <4>1, <5>2
      <4>3. QED  BY <4>1, <4>2, <1>0, <1>1 DEF Linked
    <3>2. CASE ~isPrev
      <4>1. f[x].next = n /\ y = f[n].next
        BY <3>2, <1>8, <1>f
      <4>2. y \notin {n, x}
        <5>1. x \in DOMAIN f /\ f[x].next # NoId /\ Typed(f) /\ Linked(f)
          BY <4>1, <1>0, <1>1
        <5>2. f[f[x].next].next \notin {x, f[x].next}
          BY ONLY <5>1, Neighbours
        <5>3. QED  BY ONLY <4>1, <5>2
      <4>3. QED  BY <4>1, <4>2, <1>0, <1>1 DEF Linked
    <3>3. QED  BY <3>1, <3>2
  <2>2. ~Allocated(f[y]) /\ g[y].cached_pool = f[y].cached_pool /\ f[y].cached_pool \in Tables
    BY <2>1, <1>0, <1>3, <1>4
  <2>3. Apart(f[y], f[n]) \/ Apart(f[n], f[y])
    <3>1. CASE isPrev
      <4>1. f[y].next = n
        BY <3>1, <2>1, <1>0, <1>1, <1>8 DEF Linked
      <4>2. QED  BY <4>1, <2>1, <2>2, <1>0, <1>1 DEF Merged
    <3>2. CASE ~isPrev
      <4>1. f[n].next = y
        BY <3>2, <1>8
      <4>2. QED  BY <4>1, <2>1, <2>2, <1>0, <1>1 DEF Merged
    <3>3. QED  BY <3>1, <3>2
  <2>4. c \in Streams /\ f[y].cached_pool \in Streams /\ c # f[y].cached_pool
    BY <2>2, <2>3, <1>5, <1>f, Selection DEF Apart
  <2>5. r.tbl = c
    BY <2>4, <1>6
  <2>6. QED  BY <2>2, <2>4, <2>5, <1>5, Selection
<1>9. QED  BY <1>7, <1>8, <1>f

\* It may absorb a second neighbour,
LEMMA GrownTwice ==
  ASSUME NEW f, NEW g, NEW h, NEW x, Typed(f), Typed(g), Typed(h), x \in DOMAIN f,
         Grown(f, g, x), Grown(g, h, x)
  PROVE  Grown(f, h, x)
<1>1. ASSUME NEW a, NEW b, NEW c, a.ptr \in Int, b.ptr \in Int, c.ptr \in Int,
             a.size \in Nat, b.size \in Nat, c.size \in Nat, Inside(a, b), Inside(b, c)
      PROVE  Inside(a, c)
  BY <1>1 DEF Inside
<1>2. /\ \A i \in DOMAIN f : f[i].ptr \in Int /\ f[i].size \in Nat
      /\ \A i \in DOMAIN g : g[i].ptr \in Int /\ g[i].size \in Nat
      /\ \A i \in DOMAIN h : h[i].ptr \in Int /\ h[i].size \in Nat
  BY DEF Typed, Block
<1>3. /\ DOMAIN h \subseteq DOMAIN f /\ DOMAIN g \subseteq DOMAIN f
      /\ DOMAIN h \subseteq DOMAIN g /\ x \in DOMAIN g /\ x \in DOMAIN h
      /\ Inside(f[x], g[x]) /\ Inside(g[x], h[x])
  BY DEF Grown
<1>4. Inside(f[x], h[x])
  BY <1>1, <1>2, <1>3
<1>5. \A i \in DOMAIN h : Rest(h[i]) = Rest(f[i])
  BY <1>3 DEF Grown
<1>6. \A i \in DOMAIN h \ {x} : h[i].ptr = f[i].ptr /\ h[i].size = f[i].size
  BY <1>3 DEF Grown
<1>7. ASSUME NEW i \in DOMAIN f \ DOMAIN h
      PROVE  Inside(f[i], h[x]) /\ ~Allocated(f[i]) /\ f[i].cached_pool # NoTable
  <2>1. CASE i \in DOMAIN g
    <3>1. /\ Inside(g[i], h[x]) /\ ~Allocated(g[i]) /\ g[i].cached_pool # NoTable
          /\ Rest(g[i]) = Rest(f[i]) /\ i # x
      BY <2>1, <1>3, <1>7 DEF Grown
    <3>2. g[i].ptr = f[i].ptr /\ g[i].size = f[i].size
      BY <2>1, <3>1 DEF Grown
    <3>3. g[i].status = f[i].status /\ g[i].cached_pool = f[i].cached_pool
      BY <3>1 DEF Rest
    <3>4. QED  BY <3>1, <3>2, <3>3 DEF Inside, Allocated
  <2>2. CASE i \notin DOMAIN g
    <3>1. Inside(f[i], g[x]) /\ ~Allocated(f[i]) /\ f[i].cached_pool # NoTable
      BY <2>2, <1>7 DEF Grown
    <3>2. Inside(f[i], h[x])
      BY <3>1, <1>1, <1>2, <1>3, <1>7
    <3>3. QED  BY <3>1, <3>2
  <2>3. QED  BY <2>1, <2>2
<1>8. \A lo, hi : Extents(f, lo, hi) => Extents(h, lo, hi)
  BY DEF Grown
<1>9. QED  BY <1>3, <1>4, <1>5, <1>6, <1>7, <1>8 DEF Grown

\* What TryMerge returns can be merged no further.
TableFrom(f, x, src, dst) ==
  dst = src \/ \E i \in DOMAIN f \ {x} : f[i].cached_pool = dst
MergedWith(m, x, bufs, w, r) ==
  /\ Pending(r, x, bufs, w) /\ Grown(m.info, r.info, x)
  /\ TableFrom(m.info, x, m.tbl, r.tbl)
  /\ ~Mergeable(r, r.info[x].prev) /\ ~Mergeable(r, r.info[x].next)

\* or none.
LEMMA GrownNot ==
  ASSUME NEW f, NEW x, x \in DOMAIN f, Typed(f)
  PROVE  Grown(f, f, x)
BY DEF Grown, Inside, Typed, Block

\* It goes to its own table or to that of one stream.
LEMMA AbsorbedTable ==
  ASSUME NEW m, NEW x, NEW bufs, NEW w, NEW n, NEW isPrev, NEW r,
         AbsorbedInto(m, x, bufs, w, n, isPrev, r)
  PROVE  TableFrom(m.info, x, m.tbl, r.tbl)
BY Constants DEF AbsorbedInto, TableFrom, Pending, TableSelection, Tables

\* TryMerge leaves no neighbour that it would merge, and the rest in order.
LEMMA TryMergePending ==
  ASSUME NEW m, NEW x, NEW bufs, NEW w, Pending(m, x, bufs, w)
  PROVE  MergedWith(m, x, bufs, w, TryMerge(m, x))
<1>f. PICK prev, m1, next, m2 :
        /\ prev = m.info[x].prev
        /\ m1 = (IF Mergeable(m, prev) THEN Absorb(m, x, prev, TRUE) ELSE m)
        /\ next = m1.info[x].next
        /\ m2 = (IF Mergeable(m1, next) THEN Absorb(m1, x, next, FALSE) ELSE m1)
  OBVIOUS
<1>0. TryMerge(m, x) = m2
  BY <1>f DEF TryMerge
<1>1. /\ Pending(m1, x, bufs, w) /\ Grown(m.info, m1.info, x)
      /\ ~Mergeable(m1, m1.info[x].prev) /\ TableFrom(m.info, x, m.tbl, m1.tbl)
  <2>1. CASE Mergeable(m, prev)
    <3>1. /\ m1 = Absorb(m, x, prev, TRUE)
          /\ prev = (IF TRUE THEN m.info[x].prev ELSE m.info[x].next)
      BY <2>1, <1>f
    <3>2. /\ Pending(m1, x, bufs, w) /\ Grown(m.info, m1.info, x)
          /\ m1.info[x].prev = m.info[prev].prev /\ TableFrom(m.info, x, m.tbl, m1.tbl)
      <4>1. AbsorbedInto(m, x, bufs, w, prev, TRUE, m1)
        BY ONLY <2>1, <3>1, Pending(m, x, bufs, w), AbsorbPending
      <4>2. TableFrom(m.info, x, m.tbl, m1.tbl)
        BY ONLY <4>1, AbsorbedTable
      <4>3. QED  BY ONLY <4>1, <4>2 DEF AbsorbedInto
    <3>3. ~Mergeable(m1, m.info[prev].prev)
      BY ONLY <2>1, <3>1, Pending(m, x, bufs, w), AbsorbBlocked
    <3>4. QED  BY <3>2, <3>3
  <2>2. CASE ~Mergeable(m, prev)
    <3>1. m1 = m
      BY <2>2, <1>f
    <3>2. Grown(m.info, m.info, x)
      BY GrownNot DEF Pending
    <3>3. QED  BY <3>1, <3>2, <2>2, <1>f DEF TableFrom
  <2>3. QED  BY <2>1, <2>2
<1>2. MergedWith(m1, x, bufs, w, m2)
  <2>1. CASE Mergeable(m1, next)
    <3>1. /\ m2 = Absorb(m1, x, next, FALSE)
          /\ next = (IF FALSE THEN m1.info[x].prev ELSE m1.info[x].next)
      BY <2>1, <1>f
    <3>2. /\ Pending(m2, x, bufs, w) /\ Grown(m1.info, m2.info, x)
          /\ m2.info[x].next = m1.info[next].next /\ m2.info[x].prev = m1.info[x].prev
          /\ DOMAIN m2.info = DOMAIN m1.info \ {next}
          /\ TableFrom(m1.info, x, m1.tbl, m2.tbl)
      <4>1. AbsorbedInto(m1, x, bufs, w, next, FALSE, m2)
        BY ONLY <1>1, <2>1, <3>1, AbsorbPending
      <4>2. TableFrom(m1.info, x, m1.tbl, m2.tbl)
        BY ONLY <4>1, AbsorbedTable
      <4>3. QED  BY ONLY <4>1, <4>2 DEF AbsorbedInto
    <3>3. /\ ~Mergeable(m2, m1.info[next].next)
          /\ \A y : ~Mergeable(m1, y) /\ y \in DOMAIN m2.info \cup {NoId}
                      => ~Mergeable(m2, y)
      BY ONLY <1>1, <2>1, <3>1, AbsorbBlocked
    <3>4. m1.info[x].prev \in DOMAIN m2.info \cup {NoId}
      <4>1. Typed(m1.info) /\ Linked(m1.info) /\ x \in DOMAIN m1.info /\ next # NoId
        BY <1>1, <2>1 DEF Pending, Geometry, Mergeable
      <4>2. m1.info[x].prev # next
        <5>1. next = m1.info[x].next
          BY <1>f
        <5>2. QED  BY ONLY <4>1, <5>1, Neighbours
      <4>3. m1.info[x].prev \in DOMAIN m1.info \cup {NoId}
        BY <4>1 DEF Linked
      <4>4. QED  BY <4>2, <4>3, <3>2
    <3>5. ~Mergeable(m2, m2.info[x].prev) /\ ~Mergeable(m2, m2.info[x].next)
      BY <1>1, <3>2, <3>3, <3>4
    <3>6. QED  BY <3>2, <3>5 DEF MergedWith
  <2>2. CASE ~Mergeable(m1, next)
    <3>1. m2 = m1
      BY <2>2, <1>f
    <3>2. Grown(m1.info, m1.info, x)
      BY <1>1, GrownNot DEF Pending
    <3>3. QED  BY <3>1, <3>2, <2>2, <1>1, <1>f DEF MergedWith, TableFrom
  <2>3. QED  BY <2>1, <2>2
<1>3. Grown(m.info, m2.info, x)
  <2>1. /\ Typed(m.info) /\ Typed(m1.info) /\ Typed(m2.info) /\ x \in DOMAIN m.info
        /\ Grown(m.info, m1.info, x) /\ Grown(m1.info, m2.info, x)
    BY <1>1, <1>2 DEF Pending, MergedWith
  <2>2. QED  BY ONLY <2>1, GrownTwice
<1>t. TableFrom(m.info, x, m.tbl, m2.tbl)
  <2>1. /\ DOMAIN m1.info \subseteq DOMAIN m.info
        /\ \A i \in DOMAIN m1.info : m1.info[i].cached_pool = m.info[i].cached_pool
    BY <1>1 DEF Grown, Rest
  <2>2. TableFrom(m1.info, x, m1.tbl, m2.tbl) /\ TableFrom(m.info, x, m.tbl, m1.tbl)
    BY <1>1, <1>2 DEF MergedWith
  <2>3. QED  BY <2>1, <2>2 DEF TableFrom
<1>4. MergedWith(m, x, bufs, w, m2)
  BY <1>2, <1>3, <1>t DEF MergedWith
<1>5. QED  BY <1>0, <1>4

-----------------------------------------------------------------------------
(* Cache *)

\* The block is in its table, all is known again.
Settled(f, src, g, tab, ev, x) ==
  /\ Typed(g) /\ Geometry(g, buffers, work) /\ Known(g, tab, ev, work, NoId)
  /\ DOMAIN g \subseteq DOMAIN f /\ x \in DOMAIN g /\ ~Allocated(g[x])
  /\ g[x].used_streams = f[x].used_streams /\ g[x].cnt = f[x].cnt
  /\ g[x].alloc_stream = f[x].alloc_stream
  /\ TableFrom(f, x, src, g[x].cached_pool)
  /\ \A i \in DOMAIN g \ {x} :
       Rest(g[i]) = Rest(f[i]) /\ g[i].ptr = f[i].ptr /\ g[i].size = f[i].size
  /\ Inside(f[x], g[x])
  /\ \A i \in DOMAIN f \ DOMAIN g :
       Inside(f[i], g[x]) /\ ~Allocated(f[i]) /\ f[i].cached_pool # NoTable
  /\ \A lo, hi : Extents(f, lo, hi) => Extents(g, lo, hi)

\* Once in a table, the block is like every other free block.
LEMMA CacheSettles ==
  ASSUME NEW m, NEW x, Pending(m, x, buffers, work), Cache(m, x)
  PROVE  Settled(m.info, m.tbl, info', table', event', x)
<1>f. PICK r, block, f, g :
        /\ r = (IF IsSplit(m.info[x]) THEN TryMerge(m, x) ELSE m)
        /\ f = r.info
        /\ block = [f[x] EXCEPT !.cached_pool = r.tbl,
                      !.status = IF r.tbl = AllStreams THEN "AVAILABLE_FOR_ALL_STREAM"
                                 ELSE "AVAILABLE_FOR_ALLOC_STREAM"]
        /\ g = [f EXCEPT ![x] = block]
  OBVIOUS
<1>0. /\ info' = g /\ event' = r.event
      /\ table' = [r.table EXCEPT ![r.tbl] = @ \cup {Entry(x, block)}]
  BY <1>f DEF Cache
<1>1. MergedWith(m, x, buffers, work, r)
  <2>1. CASE IsSplit(m.info[x])
    BY <2>1, <1>f, TryMergePending
  <2>2. CASE ~IsSplit(m.info[x])
    <3>1. r = m /\ m.info[x].prev = NoId /\ m.info[x].next = NoId
      BY <2>2, <1>f DEF IsSplit
    <3>2. Grown(m.info, m.info, x)
      BY GrownNot DEF Pending
    <3>3. QED  BY <3>1, <3>2 DEF MergedWith, Mergeable, TableFrom
  <2>3. QED  BY <2>1, <2>2
<1>2. /\ Typed(f) /\ Geometry(f, buffers, work) /\ x \in DOMAIN f /\ r.tbl \in Tables
      /\ f[x].cached_pool = NoTable /\ ~f[x].borrowed /\ EventFor(r.event, x, r.tbl)
      /\ InTables(f, r.table) /\ StatusesAgree(f, x) /\ EventsTyped(f, r.event, work)
      /\ EventsAgree(f, r.event, x) /\ Foreseen(f, r.event, work, x) /\ Merged(f, x)
      /\ Grown(m.info, f, x)
      /\ ~Mergeable(r, f[x].prev) /\ ~Mergeable(r, f[x].next)
      /\ \A s \in Streams : \A k \in DOMAIN work[s] :
           Overlap(work[s][k], f[x]) => s = r.tbl /\ k <= r.event[x].left
      /\ work \in [Streams -> Seq(Kernel)]
  BY <1>1, <1>f DEF MergedWith, Pending, Known
<1>c. /\ NoId \notin DOMAIN f /\ NoTable \notin Tables /\ AllStreams \notin Streams
      /\ Tables = {AllStreams} \cup Streams
  BY <1>2, Constants DEF Typed, Tables
<1>3. /\ DOMAIN g = DOMAIN f /\ g[x] = block
      /\ \A i \in DOMAIN f \ {x} : g[i] = f[i]
  BY <1>f, <1>2
<1>4. /\ block \in Block /\ Place(block) = Place(f[x]) /\ block.cached_pool = r.tbl
      /\ block.alloc_stream = f[x].alloc_stream /\ block.cnt = f[x].cnt
      /\ block.used_streams = f[x].used_streams /\ block.borrowed = f[x].borrowed
      /\ block.status \in {"AVAILABLE_FOR_ALL_STREAM", "AVAILABLE_FOR_ALLOC_STREAM"}
      /\ r.tbl = AllStreams <=> block.status = "AVAILABLE_FOR_ALL_STREAM"
      /\ block.ptr = f[x].ptr /\ block.size = f[x].size
      /\ block.prev = f[x].prev /\ block.next = f[x].next
  <2>1. f[x] \in Block
    BY <1>2 DEF Typed
  <2>2. PICK status : /\ status = (IF r.tbl = AllStreams THEN "AVAILABLE_FOR_ALL_STREAM"
                                   ELSE "AVAILABLE_FOR_ALLOC_STREAM")
                      /\ block = [f[x] EXCEPT !.cached_pool = r.tbl, !.status = status]
    BY <1>f
  <2>3. status \in Statuses /\ r.tbl \in {NoTable} \cup Tables
    BY <1>2, <2>2 DEF Statuses
  <2>4. /\ block \in Block /\ Place(block) = Place(f[x]) /\ block.cached_pool = r.tbl
        /\ block.alloc_stream = f[x].alloc_stream /\ block.cnt = f[x].cnt
        /\ block.used_streams = f[x].used_streams /\ block.borrowed = f[x].borrowed
        /\ block.status = status
        /\ block.ptr = f[x].ptr /\ block.size = f[x].size
        /\ block.prev = f[x].prev /\ block.next = f[x].next
    BY ONLY <2>1, <2>2, <2>3 DEF Block, Place
  <2>5. QED  BY <2>2, <2>4
<1>5. Typed(g)
  BY <1>2, <1>3, <1>4 DEF Typed
<1>6. /\ Geometry(g, buffers, work)
      /\ \A lo, hi : Extents(f, lo, hi) => Extents(g, lo, hi)
  <2>1. \A i \in DOMAIN f : Place(g[i]) = Place(f[i])
    BY <1>3, <1>4
  <2>2. QED  BY <2>1, <1>2, <1>3, PlacesKept
<1>a. ~Allocated(block)
  BY <1>4 DEF Allocated
<1>7. InTables(g, table')
  <2>1. /\ DOMAIN table' = Tables
        /\ \A t \in Tables : table'[t] = IF t = r.tbl THEN r.table[t] \cup {Entry(x, block)}
                                         ELSE r.table[t]
    BY <1>0, <1>2 DEF InTables
  <2>2. ASSUME NEW t \in Tables, NEW e \in table'[t]
        PROVE  e.id \in DOMAIN g /\ g[e.id].cached_pool = t /\ e = Entry(e.id, g[e.id])
    <3>1. CASE e = Entry(x, block) /\ t = r.tbl
      <4>1. e.id = x
        BY <3>1 DEF Entry
      <4>2. QED  BY <3>1, <4>1, <1>2, <1>3, <1>4
    <3>2. CASE e \in r.table[t]
      <4>1. e.id \in DOMAIN f /\ f[e.id].cached_pool = t /\ e = Entry(e.id, f[e.id])
        BY <3>2, <1>2 DEF InTables
      <4>2. e.id # x
        BY <4>1, <1>2, <1>c
      <4>3. QED  BY <4>1, <4>2, <1>3
    <3>3. QED  BY <2>1, <2>2, <3>1, <3>2
  <2>3. ASSUME NEW i \in DOMAIN g, g[i].cached_pool # NoTable
        PROVE  Entry(i, g[i]) \in table'[g[i].cached_pool]
    <3>1. CASE i = x
      BY <3>1, <2>1, <1>2, <1>3, <1>4
    <3>2. CASE i # x
      <4>1. i \in DOMAIN f /\ g[i] = f[i] /\ f[i].cached_pool \in Tables
        BY <3>2, <2>3, <1>2, <1>3 DEF Typed, Block
      <4>2. Entry(i, f[i]) \in r.table[f[i].cached_pool]
        BY <4>1, <2>3, <1>2 DEF InTables
      <4>3. QED  BY <4>1, <4>2, <2>1
    <3>3. QED  BY <3>1, <3>2
  <2>4. QED  BY <2>1, <2>2, <2>3 DEF InTables
<1>8. StatusesAgree(g, NoId)
  BY <1>2, <1>3, <1>4, <1>a, <1>c DEF StatusesAgree
<1>9. EventsTyped(g, event', work)
  BY <1>0, <1>2, <1>3 DEF EventsTyped
<1>10. EventsAgree(g, event', NoId)
  <2>1. \A i \in DOMAIN f \ {x} : IF g[i].cached_pool \in Streams
          THEN i \in DOMAIN event' /\ event'[i].stream = g[i].cached_pool
          ELSE i \notin DOMAIN event'
    BY <1>0, <1>2, <1>3 DEF EventsAgree
  <2>2. IF g[x].cached_pool \in Streams
        THEN x \in DOMAIN event' /\ event'[x].stream = g[x].cached_pool
        ELSE x \notin DOMAIN event'
    BY <1>0, <1>2, <1>3, <1>4, <1>c DEF EventFor
  <2>3. QED  BY <2>1, <2>2, <1>3 DEF EventsAgree
<1>11. Foreseen(g, event', work, NoId)
  <2> SUFFICES ASSUME NEW i \in DOMAIN g, NEW s \in Streams, NEW k \in DOMAIN work[s],
                      Overlap(work[s][k], g[i])
               PROVE  IF Allocated(g[i]) THEN s \in g[i].used_streams
                      ELSE s = g[i].cached_pool /\ k <= event'[i].left
    BY DEF Foreseen
  <2>1. CASE i = x
    <3>1. Overlap(work[s][k], f[x])
      BY <2>1, <1>3, <1>4 DEF Overlap
    <3>2. s = r.tbl /\ k <= event'[x].left
      BY <3>1, <1>0, <1>2
    <3>3. QED  BY <2>1, <3>2, <1>3, <1>4, <1>a
  <2>2. CASE i # x
    <3>1. i \in DOMAIN f \ {x} /\ g[i] = f[i]
      BY <2>2, <1>3
    <3>2. QED  BY <3>1, <1>0, <1>2 DEF Foreseen
  <2>3. QED  BY <2>1, <2>2
<1>12. Merged(g, NoId)
  <2> SUFFICES ASSUME NEW i \in DOMAIN g, g[i].next # NoId, ~Allocated(g[i]),
                      ~Allocated(g[g[i].next])
               PROVE  Apart(g[i], g[g[i].next])
    BY DEF Merged
  <2>0. Linked(f) /\ Linked(g)
    BY <1>2, <1>6 DEF Geometry
  <2>1. CASE i = x
    <3>1. f[x].next \in DOMAIN f /\ f[x].next # x /\ g[x].next = f[x].next
      BY <2>0, <2>1, <1>2, <1>3, <1>4, Neighbours
    <3>2. ~Allocated(f[f[x].next])
      BY <2>1, <3>1, <1>3
    <3>3. TableSelection(r.tbl, f[f[x].next].cached_pool) = NoTable
      BY <2>1, <3>1, <3>2, <1>2, <1>f DEF Mergeable
    <3>4. QED  BY <2>1, <3>1, <3>3, <1>3, <1>4 DEF Apart
  <2>2. CASE i # x /\ f[i].next = x
    <3>1. i \in DOMAIN f /\ f[x].prev = i /\ i # NoId /\ ~Allocated(f[i])
          /\ g[i] = f[i]
      BY <2>0, <2>2, <1>2, <1>3, <1>c DEF Linked
    <3>2. TableSelection(r.tbl, f[i].cached_pool) = NoTable
      BY <3>1, <1>2, <1>f DEF Mergeable
    <3>3. f[i].cached_pool \in Tables
      <4>1. f[i].cached_pool # NoTable
        BY <2>2, <3>1, <1>2 DEF StatusesAgree
      <4>2. QED  BY <3>1, <4>1, <1>2 DEF Typed, Block
    <3>4. TableSelection(f[i].cached_pool, r.tbl) = NoTable
      BY <3>2, <3>3, <1>2, Selection
    <3>5. QED  BY <2>2, <3>1, <3>4, <1>3, <1>4 DEF Apart
  <2>3. CASE i # x /\ f[i].next # x
    <3>1. i \in DOMAIN f \ {x} /\ g[i] = f[i] /\ f[i].next \in DOMAIN f \ {x}
      BY <2>0, <2>3, <1>3 DEF Linked
    <3>2. Apart(f[i], f[f[i].next])
      BY <3>1, <1>2, <1>3 DEF Merged
    <3>3. QED  BY <3>1, <3>2, <1>3
  <2>4. QED  BY <2>1, <2>2, <2>3
<1>13. Known(g, table', event', work, NoId)
  BY <1>7, <1>8, <1>9, <1>10, <1>11, <1>12 DEF Known
<1>14. /\ DOMAIN f \subseteq DOMAIN m.info
       /\ \A i \in DOMAIN f : Rest(f[i]) = Rest(m.info[i])
       /\ \A i \in DOMAIN f \ {x} : f[i].ptr = m.info[i].ptr /\ f[i].size = m.info[i].size
       /\ Inside(m.info[x], f[x])
       /\ \A i \in DOMAIN m.info \ DOMAIN f :
            Inside(m.info[i], f[x]) /\ ~Allocated(m.info[i])
              /\ m.info[i].cached_pool # NoTable
       /\ \A lo, hi : Extents(m.info, lo, hi) => Extents(f, lo, hi)
  BY <1>2 DEF Grown
<1>15. \A b : Inside(b, f[x]) => Inside(b, g[x])
  BY <1>3, <1>4 DEF Inside
<1>16. /\ g[x].used_streams = m.info[x].used_streams /\ g[x].cnt = m.info[x].cnt
       /\ g[x].alloc_stream = m.info[x].alloc_stream
  BY <1>2, <1>3, <1>4, <1>14 DEF Rest
<1>17. Settled(m.info, m.tbl, g, table', event', x)
  <2>1. x \in DOMAIN g /\ ~Allocated(g[x]) /\ DOMAIN g \subseteq DOMAIN m.info
    BY <1>2, <1>3, <1>14, <1>a
  <2>2. \A i \in DOMAIN g \ {x} : /\ Rest(g[i]) = Rest(m.info[i])
                                  /\ g[i].ptr = m.info[i].ptr /\ g[i].size = m.info[i].size
    BY <1>3, <1>14
  <2>3. /\ Inside(m.info[x], g[x])
        /\ \A i \in DOMAIN m.info \ DOMAIN g :
             Inside(m.info[i], g[x]) /\ ~Allocated(m.info[i])
               /\ m.info[i].cached_pool # NoTable
    BY <1>3, <1>14, <1>15
  <2>4. \A lo, hi : Extents(m.info, lo, hi) => Extents(g, lo, hi)
    BY <1>6, <1>14
  <2>5. TableFrom(m.info, x, m.tbl, g[x].cached_pool)
    BY <1>1, <1>3, <1>4 DEF MergedWith
  <2>6. QED  BY ONLY <1>5, <1>6, <1>13, <1>16, <2>1, <2>2, <2>3, <2>4, <2>5 DEF Settled
<1>18. QED  BY <1>0, <1>17

-----------------------------------------------------------------------------
(* The queues of events *)

\* The streams that have an event of a block can be counted.
LEMMA OnFinite ==
  ASSUME NEW q, NEW i
  PROVE  /\ IsFiniteSet(On(q, i)) /\ Cardinality(On(q, i)) \in Nat
         /\ Cardinality(On(q, i)) = 0 <=> On(q, i) = {}
<1>1. IsFiniteSet(Streams)
  BY Constants, FS_Interval
<1>2. IsFiniteSet(On(q, i))
  BY <1>1, FS_Subset DEF On
<1>3. QED  BY <1>2, FS_CardinalityType, FS_EmptySet

Waits(b) == b.status = "UNAVAILABLE_UNTIL_FREE"

\* Blocks that wait for no event may come, go and change.
SameWaits(f, g) ==
  /\ \A i \in DOMAIN g :
       IF i \in DOMAIN f
       THEN /\ g[i].cnt = f[i].cnt /\ (Waits(g[i]) <=> Waits(f[i]))
            /\ Waits(f[i]) => g[i].ptr = f[i].ptr /\ g[i].size = f[i].size
       ELSE g[i].cnt = 0 /\ ~Waits(g[i])
  /\ \A i \in DOMAIN f \ DOMAIN g : ~Waits(f[i])

\* The queues depend only on which blocks wait and where those are.
LEMMA QueuesKept ==
  ASSUME NEW f, NEW g, NEW q, NEW w, Queues(f, q, w), Typed(f), SameWaits(f, g)
  PROVE  Queues(g, q, w)
<1>1. \A i : Cardinality(On(q, i)) \in Nat /\ (Cardinality(On(q, i)) = 0 <=> On(q, i) = {})
  BY OnFinite
<1>2. \A s \in Streams : \A k \in DOMAIN q[s] : q[s][k].id \in DOMAIN f
  BY DEF Queues
<1>3. \A s \in Streams : \A k \in DOMAIN q[s] : q[s][k].id \in DOMAIN g
  <2> SUFFICES ASSUME NEW s \in Streams, NEW k \in DOMAIN q[s], q[s][k].id \notin DOMAIN g
               PROVE  FALSE
    OBVIOUS
  <2>1. q[s][k].id \in DOMAIN f /\ ~Waits(f[q[s][k].id])
    BY <1>2 DEF SameWaits
  <2>2. ~(f[q[s][k].id].cnt > 0) /\ f[q[s][k].id].cnt = Cardinality(On(q, q[s][k].id))
    BY <2>1 DEF Queues, Waits
  <2>3. On(q, q[s][k].id) = {}
    BY <2>2, <1>1
  <2>4. s \in On(q, q[s][k].id)
    BY DEF On
  <2>5. QED  BY <2>3, <2>4
<1>4. ASSUME NEW i \in DOMAIN g
      PROVE  g[i].cnt = Cardinality(On(q, i)) /\ (Waits(g[i]) <=> g[i].cnt > 0)
  <2>1. CASE i \in DOMAIN f
    BY <2>1, <1>4 DEF Queues, SameWaits, Waits
  <2>2. CASE i \notin DOMAIN f
    <3>1. On(q, i) = {}
      BY <2>2, <1>2 DEF On
    <3>2. g[i].cnt = 0 /\ ~Waits(g[i])
      BY <2>2, <1>4 DEF SameWaits
    <3>3. QED  BY <3>1, <3>2, <1>1
  <2>3. QED  BY <2>1, <2>2
<1>5. ASSUME NEW i \in DOMAIN g, NEW s \in Streams, NEW k \in DOMAIN w[s],
             Waits(g[i]), Overlap(w[s][k], g[i])
      PROVE  \E l \in DOMAIN q[s] : q[s][l].id = i /\ k <= q[s][l].left
  <2>1. i \in DOMAIN f /\ Waits(f[i]) /\ g[i].ptr = f[i].ptr /\ g[i].size = f[i].size
    BY <1>5 DEF SameWaits
  <2>2. Overlap(w[s][k], f[i])
    BY <1>5, <2>1 DEF Overlap
  <2>3. QED  BY <2>1, <2>2 DEF Queues, Waits
<1>6. /\ q \in [Streams -> Seq([id : Ids, left : Nat])]
      /\ \A s \in Streams : \A k, l \in DOMAIN q[s] : q[s][k].id = q[s][l].id => k = l
  BY DEF Queues
<1>7. \A i \in DOMAIN g : /\ g[i].cnt = Cardinality(On(q, i))
                          /\ g[i].status = "UNAVAILABLE_UNTIL_FREE" <=> g[i].cnt > 0
  BY <1>4 DEF Waits
<1>8. \A i \in DOMAIN g, s \in Streams : \A k \in DOMAIN w[s] :
        g[i].status = "UNAVAILABLE_UNTIL_FREE" /\ Overlap(w[s][k], g[i]) =>
          \E l \in DOMAIN q[s] : q[s][l].id = i /\ k <= q[s][l].left
  BY <1>5 DEF Waits
<1>9. QED  BY <1>3, <1>6, <1>7, <1>8 DEF Queues

-----------------------------------------------------------------------------
(* A block is cached: at the end of its events, or when it is freed. *)

\* x is ready to be cached: it is in no table and has the event for m.tbl.
Starts(m, x) ==
  /\ x \in DOMAIN info /\ ~info[x].borrowed
  /\ DOMAIN m.info = DOMAIN info /\ \A i \in DOMAIN info \ {x} : m.info[i] = info[i]
  /\ m.info[x] \in Block /\ Place(m.info[x]) = Place(info[x])
  /\ m.info[x].cached_pool = NoTable /\ ~Allocated(m.info[x])
  /\ DOMAIN m.table = Tables
  /\ \A t \in Tables : m.table[t] = table[t] \ {Entry(x, info[x])}
  /\ DOMAIN m.event \ {x} = DOMAIN event \ {x}
  /\ \A i \in DOMAIN event \ {x} : m.event[i] = event[i]
  /\ m.tbl \in Tables /\ EventFor(m.event, x, m.tbl)
  /\ x \in DOMAIN m.event => /\ m.event[x] \in Event
                             /\ m.event[x].left <= Len(work[m.event[x].stream])
  /\ \A s \in Streams : \A k \in DOMAIN work[s] :
       Overlap(work[s][k], info[x]) => s = m.tbl /\ k <= m.event[x].left

\* A block may be cached when no kernel outside the table's stream touches it.
LEMMA StartsPending ==
  ASSUME IInv, NEW m, NEW x, Starts(m, x)
  PROVE  Pending(m, x, buffers, work)
<1>f. PICK f : f = m.info
  OBVIOUS
<1>0. /\ x \in DOMAIN info /\ DOMAIN f = DOMAIN info
      /\ \A i \in DOMAIN info \ {x} : f[i] = info[i]
      /\ f[x] \in Block /\ f[x].cached_pool = NoTable /\ ~Allocated(f[x])
      /\ Place(f[x]) = Place(info[x])
  BY <1>f DEF Starts
<1>1. /\ Typed(info) /\ Geometry(info, buffers, work) /\ InTables(info, table)
      /\ StatusesAgree(info, NoId) /\ EventsTyped(info, event, work)
      /\ EventsAgree(info, event, NoId) /\ Foreseen(info, event, work, NoId)
      /\ Merged(info, NoId) /\ work \in [Streams -> Seq(Kernel)]
  BY DEF IInv, Known
<1>c. NoId \notin DOMAIN info /\ NoTable \notin Tables
  BY <1>1, Constants DEF Typed, Tables
<1>2. Typed(f)
  BY <1>0, <1>1 DEF Typed
<1>3. Geometry(f, buffers, work)
  <2>1. \A i \in DOMAIN info : Place(f[i]) = Place(info[i])
    BY <1>0
  <2>2. QED  BY <2>1, <1>0, <1>1, PlacesKept
<1>p. /\ f[x].ptr = info[x].ptr /\ f[x].size = info[x].size /\ f[x].next = info[x].next
      /\ f[x].borrowed = info[x].borrowed
  BY <1>0 DEF Place
<1>4. InTables(f, m.table)
  <2>1. /\ DOMAIN m.table = Tables
        /\ \A t \in Tables : m.table[t] = table[t] \ {Entry(x, info[x])}
    BY DEF Starts
  <2>2. ASSUME NEW t \in Tables, NEW e \in m.table[t]
        PROVE  e.id \in DOMAIN f /\ f[e.id].cached_pool = t /\ e = Entry(e.id, f[e.id])
    <3>1. /\ e \in table[t] /\ e # Entry(x, info[x]) /\ e.id \in DOMAIN info
          /\ info[e.id].cached_pool = t /\ e = Entry(e.id, info[e.id])
      BY <2>1, <2>2, <1>1 DEF InTables
    <3>2. e.id # x
      BY <3>1
    <3>3. QED  BY <3>1, <3>2, <1>0
  <2>3. ASSUME NEW i \in DOMAIN f, f[i].cached_pool # NoTable
        PROVE  Entry(i, f[i]) \in m.table[f[i].cached_pool]
    <3>1. i \in DOMAIN info /\ i # x /\ f[i] = info[i] /\ f[i].cached_pool \in Tables
      BY <2>3, <1>0, <1>2 DEF Typed, Block
    <3>2. Entry(i, info[i]) \in table[info[i].cached_pool]
      BY <2>3, <3>1, <1>1 DEF InTables
    <3>3. Entry(i, info[i]) # Entry(x, info[x])
      BY <3>1 DEF Entry
    <3>4. QED  BY <2>1, <3>1, <3>2, <3>3
  <2>4. QED  BY <2>1, <2>2, <2>3 DEF InTables
<1>5. StatusesAgree(f, x)
  BY <1>0, <1>1, <1>c DEF StatusesAgree
<1>6. EventsTyped(f, m.event, work)
  <2>1. DOMAIN m.event \subseteq DOMAIN f
    BY <1>0, <1>1 DEF Starts, EventsTyped
  <2>2. ASSUME NEW i \in DOMAIN m.event
        PROVE  m.event[i] \in Event /\ m.event[i].left <= Len(work[m.event[i].stream])
    <3>1. CASE i = x
      BY <3>1, <2>2 DEF Starts
    <3>2. CASE i # x
      <4>1. i \in DOMAIN event /\ m.event[i] = event[i]
        BY <3>2, <2>2 DEF Starts
      <4>2. QED  BY <4>1, <1>1 DEF EventsTyped
    <3>3. QED  BY <3>1, <3>2
  <2>3. QED  BY <2>1, <2>2 DEF EventsTyped
<1>7. \A i \in DOMAIN info \ {x} : /\ i \in DOMAIN m.event <=> i \in DOMAIN event
                                   /\ i \in DOMAIN event => m.event[i] = event[i]
  BY DEF Starts
<1>8. EventsAgree(f, m.event, x)
  BY <1>0, <1>1, <1>7, <1>c DEF EventsAgree
<1>9. Foreseen(f, m.event, work, x)
  <2> SUFFICES ASSUME NEW i \in DOMAIN f \ {x}, NEW s \in Streams, NEW k \in DOMAIN work[s],
                      Overlap(work[s][k], f[i])
               PROVE  IF Allocated(f[i]) THEN s \in f[i].used_streams
                      ELSE s = f[i].cached_pool /\ k <= m.event[i].left
    BY DEF Foreseen
  <2>1. i \in DOMAIN info \ {x, NoId} /\ f[i] = info[i]
    BY <1>0, <1>c
  <2>2. IF Allocated(info[i]) THEN s \in info[i].used_streams
        ELSE s = info[i].cached_pool /\ k <= event[i].left
    BY <2>1, <1>1 DEF Foreseen
  <2>3. s = info[i].cached_pool => m.event[i] = event[i]
    BY <2>1, <1>1, <1>7 DEF EventsAgree
  <2>4. QED  BY <2>1, <2>2, <2>3
<1>10. Merged(f, x)
  <2> SUFFICES ASSUME NEW i \in DOMAIN f \ {x}, f[i].next \notin {NoId, x},
                      ~Allocated(f[i]), ~Allocated(f[f[i].next])
               PROVE  Apart(f[i], f[f[i].next])
    BY DEF Merged
  <2>1. i \in DOMAIN info \ {NoId} /\ f[i] = info[i] /\ f[i].next \in DOMAIN info \ {x}
    BY <1>0, <1>3, <1>c DEF Geometry, Linked
  <2>2. f[f[i].next] = info[f[i].next]
    BY <2>1, <1>0
  <2>3. QED  BY <2>1, <2>2, <1>1 DEF Merged
<1>11. Known(f, m.table, m.event, work, x)
  BY <1>4, <1>5, <1>6, <1>8, <1>9, <1>10 DEF Known
<1>12. \A s \in Streams : \A k \in DOMAIN work[s] :
         Overlap(work[s][k], f[x]) => s = m.tbl /\ k <= m.event[x].left
  BY <1>p DEF Overlap, Starts
<1>13. ~f[x].borrowed /\ m.tbl \in Tables /\ EventFor(m.event, x, m.tbl)
  BY <1>p DEF Starts
<1>14. QED  BY <1>f, <1>0, <1>1, <1>2, <1>3, <1>11, <1>12, <1>13 DEF Pending

\* What a step does that takes no memory from a block, or gives it to another.
NothingGone == \A i \in DOMAIN info : \E j \in DOMAIN info' : Overlap(info[i], info'[j])

CacheKept(x, tbl, h, q) ==
  /\ Typed(info') /\ Geometry(info', buffers, work)
  /\ \E lo, hi : Extents(info', lo, hi)
  /\ Known(info', table', event', work, NoId)
  /\ Uses(info', h) /\ Queues(info', q, work)
  /\ \A o : OpOK(o, info, buffers, work) /\ (tbl = AllStreams \/ o = Idle) =>
       OpOK(o, info', buffers, work)
  /\ NothingGone

\* Caching such a block keeps the invariant.
LEMMA Caching ==
  ASSUME IInv, NEW m, NEW x, Starts(m, x), Cache(m, x), NEW q,
         Queues(m.info, q, work), NEW h \in SUBSET held, x \notin h
  PROVE  CacheKept(x, m.tbl, h, q)
<1>f. PICK f, g : f = m.info /\ g = info'
  OBVIOUS
<1>0. Pending(m, x, buffers, work)
  BY StartsPending
<1>s. Settled(f, m.tbl, g, table', event', x)
  BY <1>0, <1>f, CacheSettles
<1>1. /\ Typed(g) /\ Geometry(g, buffers, work) /\ Known(g, table', event', work, NoId)
      /\ DOMAIN g \subseteq DOMAIN f /\ x \in DOMAIN g /\ ~Allocated(g[x])
      /\ g[x].cnt = f[x].cnt /\ Inside(f[x], g[x])
      /\ TableFrom(f, x, m.tbl, g[x].cached_pool)
      /\ \A i \in DOMAIN g \ {x} :
           Rest(g[i]) = Rest(f[i]) /\ g[i].ptr = f[i].ptr /\ g[i].size = f[i].size
      /\ \A i \in DOMAIN f \ DOMAIN g : Inside(f[i], g[x]) /\ ~Allocated(f[i])
      /\ \A lo, hi : Extents(f, lo, hi) => Extents(g, lo, hi)
  BY <1>s DEF Settled
<1>2. /\ x \in DOMAIN info /\ DOMAIN f = DOMAIN info
      /\ \A i \in DOMAIN info \ {x} : f[i] = info[i]
      /\ ~Allocated(f[x]) /\ f[x].ptr = info[x].ptr /\ f[x].size = info[x].size
      /\ Typed(f) /\ Typed(info)
  BY <1>0, <1>f DEF Starts, Place, IInv, Pending
<1>3. \E lo, hi : Extents(g, lo, hi)
  <2>1. PICK lo, hi : Extents(info, lo, hi)
    BY DEF IInv
  <2>2. \A i \in DOMAIN info : Place(f[i]) = Place(info[i])
    BY <1>f, <1>2 DEF Starts
  <2>3. Extents(f, lo, hi)
    BY <2>1, <2>2, <1>2, PlacesKept
  <2>4. QED  BY <2>3, <1>1
<1>4. \A i \in DOMAIN g \ {x} :
        /\ i \in DOMAIN info /\ g[i].status = info[i].status
        /\ g[i].alloc_stream = info[i].alloc_stream
        /\ g[i].used_streams = info[i].used_streams /\ g[i].cnt = f[i].cnt
        /\ g[i].cached_pool = info[i].cached_pool /\ g[i].borrowed = info[i].borrowed
  BY <1>1, <1>2 DEF Rest
<1>5. Uses(g, h)
  <2>1. \A i \in h : i \in DOMAIN g \ {x}
    <3>1. \A i \in h : i \in DOMAIN info \ {x} /\ Allocated(info[i])
      BY DEF IInv, Uses, Allocated
    <3>2. \A i \in DOMAIN info \ {x} : f[i] = info[i]
      BY <1>2
    <3>3. QED  BY <3>1, <3>2, <1>1, <1>2
  <2>2. g[x].status \notin {"OCCUPIED_BY_ALLOC_STREAM", "OCCUPIED_BY_MULTI_STREAMS"}
    BY <1>1 DEF Allocated
  <2>3. Uses(info, held)
    BY DEF IInv
  <2>4. QED  BY <2>1, <2>2, <2>3, <1>4 DEF Uses
<1>6. Queues(g, q, work)
  <2>1. SameWaits(f, g)
    <3>1. \A i \in DOMAIN g \ {x} : /\ g[i].cnt = f[i].cnt /\ g[i].status = f[i].status
                                    /\ g[i].ptr = f[i].ptr /\ g[i].size = f[i].size
      BY <1>1 DEF Rest
    <3>2. ~Waits(g[x]) /\ ~Waits(f[x]) /\ \A i \in DOMAIN f \ DOMAIN g : ~Waits(f[i])
      BY <1>1, <1>2 DEF Allocated, Waits
    <3>3. QED  BY <3>1, <3>2, <1>1 DEF SameWaits, Waits
  <2>2. QED  BY <2>1, <1>2, <1>f, QueuesKept
<1>7. ASSUME NEW o, OpOK(o, info, buffers, work), m.tbl = AllStreams \/ o = Idle
      PROVE  OpOK(o, g, buffers, work)
  <2>1. CASE o = Idle
    BY <2>1 DEF OpOK
  <2>2. CASE m.tbl = AllStreams
    <3>1. ~g[x].borrowed
      <4>1. StatusesAgree(g, NoId) /\ x # NoId
        BY <1>1, <1>2, Constants DEF Known, Typed
      <4>2. QED  BY <4>1, <1>1 DEF StatusesAgree
    <3>2. (\A i \in DOMAIN info : ~info[i].borrowed) => \A i \in DOMAIN g : ~g[i].borrowed
      BY <3>1, <1>4
    <3>3. ASSUME NEW at, \A i \in DOMAIN info :
                            info[i].cached_pool \in Streams => at <= info[i].cached_pool
          PROVE  \A i \in DOMAIN g : g[i].cached_pool \in Streams => at <= g[i].cached_pool
      <4>1. g[x].cached_pool \in Streams => at <= g[x].cached_pool
        <5>1. CASE g[x].cached_pool = m.tbl
          BY <5>1, <2>2, Constants
        <5>2. CASE \E i \in DOMAIN f \ {x} : f[i].cached_pool = g[x].cached_pool
          BY <5>2, <3>3, <1>2
        <5>3. QED  BY <5>1, <5>2, <1>1 DEF TableFrom
      <4>2. QED  BY <4>1, <3>3, <1>4
    <3>4. QED  BY <3>2, <3>3, <1>7 DEF OpOK
  <2>3. QED  BY <1>7, <2>1, <2>2
<1>8. NothingGone
  <2> SUFFICES ASSUME NEW i \in DOMAIN info
               PROVE  \E j \in DOMAIN g : Overlap(info[i], g[j])
    BY <1>f DEF NothingGone
  <2>1. /\ info[i].ptr \in Int /\ info[i].size \in Nat \ {0}
        /\ g[x].ptr \in Int /\ g[x].size \in Nat \ {0}
        /\ f[i].ptr = info[i].ptr /\ f[i].size = info[i].size
    BY <1>1, <1>2 DEF Typed, Block
  <2>2. CASE i \in DOMAIN g \ {x}
    <3>1. Overlap(info[i], g[i])
      BY <2>1, <2>2, <1>1 DEF Overlap
    <3>2. QED  BY <2>2, <3>1
  <2>3. CASE i \notin DOMAIN g \ {x}
    <3>1. Inside(f[i], g[x])
      BY <2>3, <1>1, <1>2
    <3>2. Overlap(info[i], g[x])
      BY <2>1, <3>1 DEF Overlap, Inside
    <3>3. QED  BY <3>2, <1>1
  <2>4. QED  BY <2>2, <2>3
<1>9. QED  BY <1>f, <1>1, <1>3, <1>5, <1>6, <1>7, <1>8 DEF CacheKept

-----------------------------------------------------------------------------
(* WatchEvents *)

\* What the action properties say of a step.
FreshStep == \A i \in held' \ held : \A s \in Streams \ {info'[i].alloc_stream} :
               Touched(s, info'[i]) = {}
IdleStep == \A i \in DOMAIN info :
  (\A j \in DOMAIN info' : ~Overlap(info[i], info'[j])) =>
    \A s \in Streams : Touched(s, info[i]) = {}

\* What IInv says of the kernels that touch a free block.
LEMMA FreeTouched ==
  ASSUME IInv, NEW i \in DOMAIN info, ~Allocated(info[i]), NEW s \in Streams,
         NEW k \in DOMAIN work[s], Overlap(work[s][k], info[i])
  PROVE  s = info[i].cached_pool /\ i \in DOMAIN event /\ k <= event[i].left
<1>1. i # NoId
  BY Constants DEF IInv, Typed
<1>2. s = info[i].cached_pool /\ k <= event[i].left
  BY <1>1 DEF IInv, Known, Foreseen
<1>3. i \in DOMAIN event
  BY <1>1, <1>2 DEF IInv, Known, EventsAgree
<1>4. QED  BY <1>2, <1>3

\* What refresh() does to a block.
LEMMA RefreshedBlock ==
  ASSUME NEW b \in Block
  PROVE  /\ Refreshed(b) \in Block /\ Place(Refreshed(b)) = Place(b)
         /\ Refreshed(b).cached_pool = NoTable /\ Refreshed(b).cnt = 0
         /\ Refreshed(b).status = "AVAILABLE_FOR_ALL_STREAM"
         /\ ~Allocated(Refreshed(b))
<1>1. PICK status, none : status = "AVAILABLE_FOR_ALL_STREAM" /\ none = NoTable
  OBVIOUS
<1>2. Refreshed(b) = [b EXCEPT !.used_streams = {}, !.cnt = 0, !.cached_pool = none,
                               !.status = status]
  BY <1>1 DEF Refreshed
<1>3. status \in Statuses /\ none \in {NoTable} \cup Tables
  BY <1>1 DEF Statuses
<1>4. b \in Block
  OBVIOUS
<1>5. {} \in SUBSET Streams /\ 0 \in Nat
  OBVIOUS
<1>6. Refreshed(b) \in Block
  BY ONLY <1>2, <1>3, <1>4, <1>5 DEF Block
<1>7. /\ Place(Refreshed(b)) = Place(b)
      /\ Refreshed(b).cached_pool = none /\ Refreshed(b).cnt = 0
      /\ Refreshed(b).status = status
  BY ONLY <1>2, <1>4 DEF Block, Place
<1>8. QED  BY <1>1, <1>6, <1>7 DEF Allocated

\* WatchEvents may go on; in EmptyCache, past streams whose tables are empty.
LEMMA OpAt ==
  ASSUME IInv, Running, NEW k \in Nat,
         op.call = "empty" =>
           \A i \in DOMAIN info :
             info[i].cached_pool \in Streams => k <= info[i].cached_pool
  PROVE  OpOK([op EXCEPT !.at = k], info, buffers, work)
<1>1. OpOK(op, info, buffers, work) /\ op # Idle /\ \A by : op # Aborted(by)
  BY DEF IInv, Running, Idle, Aborted
<1>2. CASE op \in [call : {"alloc", "buffer"}, size : Nat \ {0}, stream : AnyStream,
                   at : Nat, waiting : BOOLEAN]
  <2>1. [op EXCEPT !.at = k] \in [call : {"alloc", "buffer"}, size : Nat \ {0},
                                  stream : AnyStream, at : Nat, waiting : BOOLEAN]
    BY <1>2
  <2>2. QED  BY <2>1 DEF OpOK
<1>3. CASE /\ op \in [call : {"borrow"}, size : Nat \ {0}, ptr : Int,
                      stream : AnyStream, at : Nat]
           /\ \A i \in DOMAIN info : ~info[i].borrowed
           /\ op.ptr = -op.size \/ [ptr |-> op.ptr, size |-> op.size] \in buffers
  <2>1. /\ [op EXCEPT !.at = k] \in [call : {"borrow"}, size : Nat \ {0}, ptr : Int,
                                     stream : AnyStream, at : Nat]
        /\ [op EXCEPT !.at = k].ptr = op.ptr /\ [op EXCEPT !.at = k].size = op.size
    BY <1>3
  <2>2. QED  BY <1>3, <2>1 DEF OpOK
<1>4. CASE /\ op \in [call : {"empty"}, at : Nat] /\ \A s \in Streams : work[s] = << >>
  <2>1. /\ [op EXCEPT !.at = k] \in [call : {"empty"}, at : Nat] /\ op.call = "empty"
        /\ [op EXCEPT !.at = k].at = k
    BY <1>4
  <2>2. QED  BY <1>4, <2>1 DEF OpOK
<1>5. QED  BY <1>1, <1>2, <1>3, <1>4 DEF OpOK

\* An event that is over lets its block go to the table of all streams.
LEMMA MoveStarts ==
  ASSUME IInv, NEW id \in DOMAIN event, event[id].left = 0, MoveAvailable(id)
  PROVE  CacheKept(id, AllStreams, held, multi)
<1>f. PICK m : m = [info |-> [info EXCEPT ![id] = Refreshed(@)],
                    table |-> LeaveTable(table, id, info[id]),
                    event |-> Without(event, {id}), tbl |-> AllStreams]
  OBVIOUS
<1>0. /\ m.info = [info EXCEPT ![id] = Refreshed(info[id])]
      /\ m.table = [table EXCEPT ![info[id].cached_pool] = @ \ {Entry(id, info[id])}]
      /\ m.event = Without(event, {id}) /\ m.tbl = AllStreams
  BY <1>f DEF LeaveTable
<1>1. Cache(m, id)
  BY <1>f DEF MoveAvailable
<1>2. /\ Typed(info) /\ InTables(info, table) /\ StatusesAgree(info, NoId)
      /\ EventsTyped(info, event, work) /\ EventsAgree(info, event, NoId)
  BY DEF IInv, Known
<1>3. id \in DOMAIN info /\ id # NoId /\ info[id] \in Block
  BY <1>2, Constants DEF EventsTyped, Typed
<1>4. /\ info[id].cached_pool \in Streams /\ ~Allocated(info[id]) /\ ~info[id].borrowed
      /\ event[id].stream = info[id].cached_pool
  <2>1. info[id].cached_pool \in Streams /\ event[id].stream = info[id].cached_pool
    BY <1>2, <1>3 DEF EventsAgree
  <2>2. info[id].cached_pool # NoTable
    BY <2>1, Constants
  <2>3. QED  BY <2>1, <2>2, <1>2, <1>3 DEF StatusesAgree
<1>5. Starts(m, id)
  <2>1. /\ m.info[id] = Refreshed(info[id]) /\ DOMAIN m.info = DOMAIN info
        /\ \A i \in DOMAIN info \ {id} : m.info[i] = info[i]
    BY <1>0, <1>3
  <2>2. /\ m.info[id] \in Block /\ Place(m.info[id]) = Place(info[id])
        /\ m.info[id].cached_pool = NoTable /\ ~Allocated(m.info[id])
    BY <1>3, <2>1, RefreshedBlock
  <2>3. /\ DOMAIN m.table = Tables
        /\ \A t \in Tables : m.table[t] = table[t] \ {Entry(id, info[id])}
    <3>1. DOMAIN table = Tables /\ info[id].cached_pool \in Tables
      BY <1>2, <1>4 DEF InTables, Tables
    <3>2. ASSUME NEW t \in Tables, t # info[id].cached_pool
          PROVE  Entry(id, info[id]) \notin table[t]
      BY <3>2, <1>2, <1>3 DEF InTables, Entry
    <3>3. QED  BY <1>0, <3>1, <3>2
  <2>4. /\ DOMAIN m.event = DOMAIN event \ {id}
        /\ \A i \in DOMAIN event \ {id} : m.event[i] = event[i]
    BY <1>0 DEF Without, Restrict
  <2>5. m.tbl \in Tables /\ EventFor(m.event, id, m.tbl)
    BY <1>0, <2>4 DEF Tables, EventFor
  <2>6. ASSUME NEW s \in Streams, NEW k \in DOMAIN work[s], Overlap(work[s][k], info[id])
        PROVE  FALSE
    <3>1. k <= event[id].left
      BY <1>3, <1>4, <2>6, FreeTouched
    <3>2. k \in 1..Len(work[s])
      <4>1. work[s] \in Seq(Kernel)
        BY DEF IInv
      <4>2. QED  BY <4>1
    <3>3. QED  BY <3>1, <3>2
  <2>7. QED  BY <1>3, <1>4, <2>1, <2>2, <2>3, <2>4, <2>5, <2>6 DEF Starts
<1>6. Queues(m.info, multi, work)
  <2>1. Queues(info, multi, work)
    BY DEF IInv
  <2>2. ~Waits(info[id]) /\ info[id].cnt = 0
    <3>1. ~Waits(info[id])
      BY <1>4 DEF Waits, Allocated
    <3>2. info[id].cnt \in Nat
      BY <1>3 DEF Block
    <3>3. QED  BY <3>1, <3>2, <2>1, <1>3 DEF Queues, Waits
  <2>3. m.info[id].cnt = 0 /\ ~Waits(m.info[id])
    <3>1. m.info[id] = Refreshed(info[id])
      BY <1>0, <1>3
    <3>2. QED  BY <3>1, <1>3, RefreshedBlock DEF Waits
  <2>4. SameWaits(info, m.info)
    BY <1>0, <1>3, <2>2, <2>3 DEF SameWaits
  <2>5. QED  BY <2>1, <2>4, <1>2, QueuesKept
<1>7. \A i \in held : i # id
  BY <1>4 DEF IInv, Uses, Allocated
<1>8. QED  BY <1>0, <1>1, <1>5, <1>6, <1>7, Caching

\* The queue of s loses its first event.
Popped(f, id, g) ==
  /\ DOMAIN g \cup {id} = DOMAIN f /\ \A i \in DOMAIN g \ {id} : g[i] = f[i]
  /\ f[id].cnt = 1 => (id \in DOMAIN g => g[id].cnt = 0 /\ ~Waits(g[id]))
  /\ f[id].cnt # 1 => /\ id \in DOMAIN g /\ g[id].cnt = f[id].cnt - 1 /\ Waits(g[id])
                      /\ g[id].ptr = f[id].ptr /\ g[id].size = f[id].size

\* The last event of a block comes after all its kernels.
LEMMA QueuePopped ==
  ASSUME IInv, NEW s \in Streams, multi[s] # << >>, Head(multi[s]).left = 0,
         NEW id, id = Head(multi[s]).id,
         NEW q, q = [multi EXCEPT ![s] = Tail(@)]
  PROVE  /\ id \in DOMAIN info /\ Waits(info[id])
         /\ LastEvent(info[id]) =>
              \A t \in Streams : \A k \in DOMAIN work[t] : ~Overlap(work[t][k], info[id])
         /\ \A g : Popped(info, id, g) => Queues(g, q, work)
<1>1. /\ multi \in [Streams -> Seq([id : Ids, left : Nat])]
      /\ \A i \in DOMAIN info : /\ info[i].cnt = Cardinality(On(multi, i))
                                /\ Waits(info[i]) <=> info[i].cnt > 0
                                /\ info[i].cnt \in Nat
      /\ \A t \in Streams : \A k, l \in DOMAIN multi[t] :
           /\ multi[t][k].id \in DOMAIN info
           /\ multi[t][k].id = multi[t][l].id => k = l
      /\ \A i \in DOMAIN info, t \in Streams : \A k \in DOMAIN work[t] :
           Waits(info[i]) /\ Overlap(work[t][k], info[i]) =>
             \E l \in DOMAIN multi[t] : multi[t][l].id = i /\ k <= multi[t][l].left
  BY DEF IInv, Queues, Waits, Typed, Block
<1>2. multi[s] \in Seq([id : Ids, left : Nat])
  BY <1>1
<1>3. 1 \in DOMAIN multi[s] /\ multi[s][1].id = id /\ multi[s][1].left = 0
  BY <1>2
<1>4. /\ q \in [Streams -> Seq([id : Ids, left : Nat])]
      /\ \A t \in Streams \ {s} : q[t] = multi[t]
      /\ q[s] = Tail(multi[s])
  <2>1. Tail(multi[s]) \in Seq([id : Ids, left : Nat])
    BY <1>2
  <2>2. QED  BY <1>1, <2>1
<1>5. /\ \A k \in DOMAIN q[s] : /\ k + 1 \in DOMAIN multi[s]
                                /\ q[s][k] = multi[s][k + 1] /\ k + 1 # 1
      /\ \A k \in DOMAIN multi[s] : k # 1 => k - 1 \in DOMAIN q[s] /\ (k - 1) + 1 = k
  BY <1>2, <1>4
<1>6. id \in DOMAIN info /\ s \in On(multi, id)
  BY <1>1, <1>3 DEF On
<1>7. Waits(info[id])
  <2>1. On(multi, id) # {} /\ info[id].cnt = Cardinality(On(multi, id))
    BY <1>1, <1>6
  <2>2. info[id].cnt > 0
    BY <2>1, OnFinite
  <2>3. QED  BY <2>2, <1>1, <1>6
<1>8. On(q, id) = On(multi, id) \ {s}
  <2>1. s \notin On(q, id)
    <3>1. \A k \in DOMAIN q[s] : q[s][k].id # id
      BY <1>1, <1>3, <1>5
    <3>2. QED  BY <3>1 DEF On
  <2>2. \A t \in Streams \ {s} : t \in On(q, id) <=> t \in On(multi, id)
    BY <1>4 DEF On
  <2>3. QED  BY <2>1, <2>2 DEF On
<1>9. ASSUME NEW i, i # id
      PROVE  On(q, i) = On(multi, i)
  <2>1. s \in On(q, i) => s \in On(multi, i)
    BY <1>5 DEF On
  <2>2. s \in On(multi, i) => s \in On(q, i)
    <3>1. ASSUME NEW k \in DOMAIN multi[s], multi[s][k].id = i
          PROVE  \E l \in DOMAIN q[s] : q[s][l].id = i
      <4>1. k # 1
        BY <3>1, <1>3, <1>9
      <4>2. k - 1 \in DOMAIN q[s] /\ q[s][k - 1] = multi[s][k]
        BY <4>1, <1>5
      <4>3. QED  BY <4>2, <3>1
    <3>2. QED  BY <3>1 DEF On
  <2>3. \A t \in Streams \ {s} : t \in On(q, i) <=> t \in On(multi, i)
    BY <1>4 DEF On
  <2>4. QED  BY <2>1, <2>2, <2>3 DEF On
<1>10. Cardinality(On(q, id)) = info[id].cnt - 1
  <2>1. IsFiniteSet(On(multi, id))
    BY OnFinite
  <2>2. Cardinality(On(multi, id) \ {s}) = Cardinality(On(multi, id)) - 1
    BY <2>1, <1>6, FS_RemoveElement
  <2>3. QED  BY <2>2, <1>1, <1>6, <1>8
<1>11. ASSUME NEW i \in DOMAIN info, NEW t \in Streams, NEW k \in DOMAIN work[t],
              Waits(info[i]), Overlap(work[t][k], info[i])
       PROVE  \E l \in DOMAIN q[t] : q[t][l].id = i /\ k <= q[t][l].left
  <2>1. PICK l \in DOMAIN multi[t] : multi[t][l].id = i /\ k <= multi[t][l].left
    BY <1>1, <1>11
  <2>2. CASE t # s
    BY <2>1, <2>2, <1>4
  <2>3. CASE t = s
    <3>1. k \in Nat \ {0}
      <4>1. work[t] \in Seq(Kernel)
        BY DEF IInv
      <4>2. QED  BY <4>1
    <3>2. l # 1
      BY <2>1, <2>3, <3>1, <1>3
    <3>3. l - 1 \in DOMAIN q[s] /\ q[s][l - 1] = multi[s][l]
      BY <2>1, <2>3, <3>2, <1>5
    <3>4. QED  BY <2>1, <2>3, <3>3
  <2>4. QED  BY <2>2, <2>3
<1>12. ASSUME LastEvent(info[id]), NEW t \in Streams, NEW k \in DOMAIN work[t],
              Overlap(work[t][k], info[id])
       PROVE  FALSE
  <2>1. t \in On(q, id)
    BY <1>6, <1>7, <1>11, <1>12 DEF On
  <2>2. On(q, id) = {}
    BY <1>10, <1>12, OnFinite DEF LastEvent
  <2>3. QED  BY <2>1, <2>2
<1>13. ASSUME NEW g, Popped(info, id, g)
       PROVE  Queues(g, q, work)
  <2>1. ASSUME NEW t \in Streams, NEW k \in DOMAIN q[t], NEW l \in DOMAIN q[t]
        PROVE  /\ q[t][k].id \in DOMAIN g
               /\ q[t][k].id = q[t][l].id => k = l
    <3>1. q[t][k].id \in DOMAIN info
      BY <1>1, <1>4, <1>5
    <3>2. q[t][k].id = id => Cardinality(On(q, id)) # 0
      <4>1. q[t][k].id = id => t \in On(q, id)
        BY DEF On
      <4>2. QED  BY <4>1, OnFinite
    <3>3. q[t][k].id = id => info[id].cnt # 1
      BY <3>2, <1>10
    <3>4. q[t][k].id \in DOMAIN g
      BY <3>1, <3>3, <1>13 DEF Popped
    <3>5. ASSUME q[t][k].id = q[t][l].id
          PROVE  k = l
      <4>1. CASE t = s
        <5>1. /\ k + 1 \in DOMAIN multi[s] /\ l + 1 \in DOMAIN multi[s]
              /\ q[s][k] = multi[s][k + 1] /\ q[s][l] = multi[s][l + 1]
          BY <4>1, <1>5
        <5>2. k + 1 = l + 1
          BY <5>1, <3>5, <4>1, <1>1
        <5>3. k \in Int /\ l \in Int
          <6>1. q[s] \in Seq([id : Ids, left : Nat])
            BY <1>4
          <6>2. QED  BY <6>1, <4>1
        <5>4. QED  BY <5>2, <5>3
      <4>2. CASE t # s
        BY <4>2, <3>5, <1>1, <1>4
      <4>3. QED  BY <4>1, <4>2
    <3>6. QED  BY <3>4, <3>5
  <2>2. ASSUME NEW i \in DOMAIN g
        PROVE  /\ g[i].cnt = Cardinality(On(q, i))
               /\ Waits(g[i]) <=> g[i].cnt > 0
    <3>1. CASE i # id
      BY <3>1, <1>1, <1>9, <1>13, <2>2 DEF Popped
    <3>2. CASE i = id /\ info[id].cnt = 1
      BY <3>2, <1>10, <1>13, <2>2 DEF Popped
    <3>3. CASE i = id /\ info[id].cnt # 1
      <4>1. g[id].cnt = info[id].cnt - 1 /\ Waits(g[id])
        BY <3>3, <1>13 DEF Popped
      <4>2. info[id].cnt > 0 /\ info[id].cnt \in Nat
        BY <1>1, <1>6, <1>7
      <4>3. QED  BY <3>3, <4>1, <4>2, <1>10
    <3>4. QED  BY <3>1, <3>2, <3>3
  <2>3. ASSUME NEW i \in DOMAIN g, NEW t \in Streams, NEW k \in DOMAIN work[t],
               Waits(g[i]), Overlap(work[t][k], g[i])
        PROVE  \E l \in DOMAIN q[t] : q[t][l].id = i /\ k <= q[t][l].left
    <3>1. i \in DOMAIN info /\ Waits(info[i]) /\ g[i].ptr = info[i].ptr
          /\ g[i].size = info[i].size
      BY <2>3, <1>6, <1>7, <1>13 DEF Popped
    <3>2. Overlap(work[t][k], info[i])
      BY <3>1, <2>3 DEF Overlap
    <3>3. QED  BY <3>1, <3>2, <1>11
  <2>4. \A i \in DOMAIN g : /\ g[i].cnt = Cardinality(On(q, i))
                            /\ g[i].status = "UNAVAILABLE_UNTIL_FREE" <=> g[i].cnt > 0
    BY <2>2 DEF Waits
  <2>5. \A i \in DOMAIN g, t \in Streams : \A k \in DOMAIN work[t] :
          g[i].status = "UNAVAILABLE_UNTIL_FREE" /\ Overlap(work[t][k], g[i]) =>
            \E l \in DOMAIN q[t] : q[t][l].id = i /\ k <= q[t][l].left
    BY <2>3 DEF Waits
  <2>6. \A t \in Streams : \A k, l \in DOMAIN q[t] :
          q[t][k].id \in DOMAIN g /\ (q[t][k].id = q[t][l].id => k = l)
    BY ONLY <2>1
  <2>7. q \in [Streams -> Seq([id : Ids, left : Nat])]
    BY <1>4
  <2>8. QED  BY ONLY <2>4, <2>5, <2>6, <2>7 DEF Queues
<1>14. QED  BY <1>6, <1>7, <1>12, <1>13

\* A block in use changes, but not its place.
ChangedInUse(id, b, g) ==
  /\ id \in DOMAIN info /\ Allocated(info[id]) /\ g = [info EXCEPT ![id] = b]
  /\ b \in Block /\ Place(b) = Place(info[id]) /\ b.cached_pool = NoTable /\ Allocated(b)
  /\ info[id].used_streams \subseteq b.used_streams

InPlace(g) ==
  /\ Typed(g) /\ Geometry(g, buffers, work) /\ \E lo, hi : Extents(g, lo, hi)
  /\ Known(g, table, event, work, NoId)
  /\ \A o : OpOK(o, info, buffers, work) => OpOK(o, g, buffers, work)
  /\ \A i \in DOMAIN info : i \in DOMAIN g /\ Overlap(info[i], g[i])

\* What changes of a block in use leaves the tables alone.
LEMMA InUseChanged ==
  ASSUME IInv, NEW id, NEW b, NEW g, ChangedInUse(id, b, g)
  PROVE  InPlace(g)
<1>1. /\ id \in DOMAIN info /\ Allocated(info[id]) /\ DOMAIN g = DOMAIN info /\ g[id] = b
      /\ \A i \in DOMAIN info \ {id} : g[i] = info[i]
      /\ b \in Block /\ Place(b) = Place(info[id]) /\ b.cached_pool = NoTable
      /\ Allocated(b) /\ info[id].used_streams \subseteq b.used_streams
  BY DEF ChangedInUse
<1>2. /\ Typed(info) /\ Geometry(info, buffers, work) /\ InTables(info, table)
      /\ StatusesAgree(info, NoId) /\ EventsTyped(info, event, work)
      /\ EventsAgree(info, event, NoId) /\ Foreseen(info, event, work, NoId)
      /\ Merged(info, NoId)
  BY DEF IInv, Known
<1>c. /\ NoId \notin DOMAIN info /\ NoTable \notin Tables /\ NoTable \notin Streams
      /\ NoTable # AllStreams
  BY <1>2, Constants DEF Typed, Tables
<1>3. Typed(g)
  BY <1>1, <1>2 DEF Typed
<1>p. /\ b.ptr = info[id].ptr /\ b.size = info[id].size /\ b.next = info[id].next
      /\ b.borrowed = info[id].borrowed
  BY <1>1 DEF Place
<1>q. info[id].cached_pool = NoTable
  BY <1>1, <1>2, <1>c DEF StatusesAgree
<1>4. Geometry(g, buffers, work) /\ \E lo, hi : Extents(g, lo, hi)
  <2>1. \A i \in DOMAIN info : Place(g[i]) = Place(info[i])
    BY <1>1
  <2>2. PICK lo, hi : Extents(info, lo, hi)
    BY DEF IInv
  <2>3. QED  BY <2>1, <2>2, <1>1, <1>2, PlacesKept
<1>5. InTables(g, table)
  <2>1. \A i \in DOMAIN info : /\ g[i].cached_pool = info[i].cached_pool
                               /\ Entry(i, g[i]) = Entry(i, info[i])
    BY <1>1, <1>p, <1>q DEF Entry
  <2>2. QED  BY <2>1, <1>1, <1>2 DEF InTables
<1>6. StatusesAgree(g, NoId)
  <2>1. b.status # "AVAILABLE_FOR_ALL_STREAM"
    BY <1>1 DEF Allocated
  <2>2. QED  BY <2>1, <1>1, <1>2, <1>c DEF StatusesAgree
<1>7. EventsTyped(g, event, work)
  BY <1>1, <1>2 DEF EventsTyped
<1>8. EventsAgree(g, event, NoId)
  BY <1>1, <1>2, <1>q DEF EventsAgree
<1>9. Foreseen(g, event, work, NoId)
  <2> SUFFICES ASSUME NEW i \in DOMAIN g, NEW s \in Streams, NEW k \in DOMAIN work[s],
                      Overlap(work[s][k], g[i])
               PROVE  IF Allocated(g[i]) THEN s \in g[i].used_streams
                      ELSE s = g[i].cached_pool /\ k <= event[i].left
    BY DEF Foreseen
  <2>1. CASE i # id
    <3>1. i \in DOMAIN info \ {NoId} /\ g[i] = info[i]
      BY <2>1, <1>1, <1>c
    <3>2. QED  BY <3>1, <1>2 DEF Foreseen
  <2>2. CASE i = id
    <3>1. Overlap(work[s][k], info[id])
      BY <2>2, <1>1, <1>p DEF Overlap
    <3>2. s \in info[id].used_streams
      BY <3>1, <1>1, <1>2, <1>c DEF Foreseen
    <3>3. QED  BY <2>2, <3>2, <1>1
  <2>3. QED  BY <2>1, <2>2
<1>10. Merged(g, NoId)
  <2>1. Linked(info)
    BY <1>2 DEF Geometry
  <2>2. \A i \in DOMAIN g : g[i].next = info[i].next /\ (Allocated(g[i]) <=> Allocated(info[i]))
    BY <1>1, <1>p
  <2>3. \A i \in DOMAIN info : info[i].next # NoId => info[i].next \in DOMAIN info
    BY <2>1 DEF Linked
  <2>4. \A i \in DOMAIN info : g[i].cached_pool = info[i].cached_pool
    BY <1>1, <1>q
  <2>5. QED  BY <2>2, <2>3, <2>4, <1>1, <1>2, <1>c DEF Merged, Apart
<1>11. \A o : OpOK(o, info, buffers, work) => OpOK(o, g, buffers, work)
  <2>1. /\ (\A i \in DOMAIN info : ~info[i].borrowed) => \A i \in DOMAIN g : ~g[i].borrowed
        /\ \A at : (\A i \in DOMAIN info :
                       info[i].cached_pool \in Streams => at <= info[i].cached_pool) =>
                   \A i \in DOMAIN g : g[i].cached_pool \in Streams => at <= g[i].cached_pool
    BY <1>1, <1>p, <1>q
  <2>2. QED  BY <2>1 DEF OpOK
<1>12. \A i \in DOMAIN info : i \in DOMAIN g /\ Overlap(info[i], g[i])
  <2>1. \A i \in DOMAIN info : /\ info[i].ptr \in Int /\ info[i].size \in Nat \ {0}
                               /\ g[i].ptr = info[i].ptr /\ g[i].size = info[i].size
    BY <1>1, <1>2, <1>p DEF Typed, Block
  <2>2. QED  BY <2>1, <1>1 DEF Overlap
<1>13. Known(g, table, event, work, NoId)
  BY <1>5, <1>6, <1>7, <1>8, <1>9, <1>10 DEF Known
<1>14. QED  BY <1>3, <1>4, <1>11, <1>12, <1>13 DEF InPlace

\* Whole blocks go that no kernel touches and no event waits for.
Unused(ids, tab) ==
  /\ ids \subseteq DOMAIN info
  /\ \A i \in ids : /\ ~IsSplit(info[i]) /\ i \notin DOMAIN event
                    /\ \A s \in Streams : \A k \in DOMAIN work[s] :
                         ~Overlap(work[s][k], info[i])
  /\ DOMAIN tab = Tables
  /\ \A t \in Tables : tab[t] = table[t] \ {Entry(i, info[i]) : i \in ids}

GoneFrom(g, ids, tab) ==
  /\ DOMAIN g = DOMAIN info \ ids /\ \A i \in DOMAIN g : g[i] = info[i]
  /\ Typed(g) /\ Geometry(g, buffers, work) /\ \E lo, hi : Extents(g, lo, hi)
  /\ Known(g, tab, event, work, NoId)
  /\ \A h : h \subseteq held \ ids => Uses(g, h)
  /\ (\A i \in ids : ~Waits(info[i])) => Queues(g, multi, work)
  /\ \A o : OpOK(o, info, buffers, work) => OpOK(o, g, buffers, work)

\* Blocks that go leave nothing behind.
LEMMA BlocksGone ==
  ASSUME IInv, NEW ids, NEW tab, Unused(ids, tab)
  PROVE  GoneFrom(Without(info, ids), ids, tab)
<1>f. PICK g : g = Without(info, ids)
  OBVIOUS
<1>1. DOMAIN g = DOMAIN info \ ids /\ \A i \in DOMAIN g : g[i] = info[i]
  BY <1>f DEF Without, Restrict
<1>2. /\ Typed(info) /\ Geometry(info, buffers, work) /\ InTables(info, table)
      /\ StatusesAgree(info, NoId) /\ EventsTyped(info, event, work)
      /\ EventsAgree(info, event, NoId) /\ Foreseen(info, event, work, NoId)
      /\ Merged(info, NoId) /\ work \in [Streams -> Seq(Kernel)]
      /\ Uses(info, held) /\ Queues(info, multi, work)
  BY DEF IInv, Known
<1>c. NoId \notin DOMAIN info
  BY <1>2, Constants DEF Typed, Tables
<1>3. /\ Typed(g) /\ Geometry(g, buffers, work) /\ \E lo, hi : Extents(g, lo, hi)
  <2>1. PICK lo, hi : Extents(info, lo, hi)
    BY DEF IInv
  <2>2. ids \in SUBSET DOMAIN info /\ \A i \in ids : info[i].prev = NoId /\ info[i].next = NoId
    BY DEF Unused, IsSplit
  <2>3. \A i \in ids : \A s \in Streams : \A k \in DOMAIN work[s] :
          ~Overlap(work[s][k], info[i])
    BY DEF Unused
  <2>4. QED  BY <1>f, <1>2, <2>1, <2>2, <2>3, BlocksRemoved
<1>5. InTables(g, tab)
  <2>1. DOMAIN tab = Tables /\ \A t \in Tables :
          tab[t] = table[t] \ {Entry(i, info[i]) : i \in ids}
    BY DEF Unused
  <2>2. ASSUME NEW t \in Tables, NEW e \in tab[t]
        PROVE  e.id \in DOMAIN g /\ g[e.id].cached_pool = t /\ e = Entry(e.id, g[e.id])
    <3>1. /\ e \in table[t] /\ e \notin {Entry(i, info[i]) : i \in ids}
          /\ e.id \in DOMAIN info
          /\ info[e.id].cached_pool = t /\ e = Entry(e.id, info[e.id])
      BY <2>1, <2>2, <1>2 DEF InTables
    <3>2. e.id \notin ids
      BY <3>1
    <3>3. QED  BY <3>1, <3>2, <1>1
  <2>3. ASSUME NEW i \in DOMAIN g, g[i].cached_pool # NoTable
        PROVE  Entry(i, g[i]) \in tab[g[i].cached_pool]
    <3>1. i \in DOMAIN info /\ i \notin ids /\ g[i] = info[i] /\ g[i].cached_pool \in Tables
      BY <2>3, <1>1, <1>3 DEF Typed, Block
    <3>2. Entry(i, info[i]) \in table[info[i].cached_pool]
      BY <2>3, <3>1, <1>2 DEF InTables
    <3>3. \A j \in ids : Entry(i, info[i]) # Entry(j, info[j])
      BY <3>1 DEF Entry
    <3>4. QED  BY <2>1, <3>1, <3>2, <3>3
  <2>4. QED  BY <2>1, <2>2, <2>3 DEF InTables
<1>6. StatusesAgree(g, NoId)
  BY <1>1, <1>2 DEF StatusesAgree
<1>7. EventsTyped(g, event, work)
  BY <1>1, <1>2 DEF EventsTyped, Unused
<1>8. EventsAgree(g, event, NoId)
  BY <1>1, <1>2 DEF EventsAgree
<1>9. Foreseen(g, event, work, NoId)
  BY <1>1, <1>2 DEF Foreseen
<1>10. Merged(g, NoId)
  <2>1. \A i \in DOMAIN g : g[i].next # NoId => g[i].next \in DOMAIN g
    BY <1>3 DEF Geometry, Linked
  <2>2. QED  BY <2>1, <1>1, <1>2 DEF Merged
<1>11. \A h : h \subseteq held \ ids => Uses(g, h)
  BY <1>1, <1>2 DEF Uses
<1>12. (\A i \in ids : ~Waits(info[i])) => Queues(g, multi, work)
  <2>1. (\A i \in ids : ~Waits(info[i])) => SameWaits(info, g)
    BY <1>1 DEF SameWaits
  <2>2. QED  BY <2>1, <1>2, QueuesKept
<1>13. \A o : OpOK(o, info, buffers, work) => OpOK(o, g, buffers, work)
  <2>1. /\ (\A i \in DOMAIN info : ~info[i].borrowed) => \A i \in DOMAIN g : ~g[i].borrowed
        /\ \A at : (\A i \in DOMAIN info :
                       info[i].cached_pool \in Streams => at <= info[i].cached_pool) =>
                   \A i \in DOMAIN g : g[i].cached_pool \in Streams => at <= g[i].cached_pool
    BY <1>1
  <2>2. QED  BY <2>1 DEF OpOK
<1>14. Known(g, tab, event, work, NoId)
  BY <1>5, <1>6, <1>7, <1>8, <1>9, <1>10 DEF Known
<1>15. GoneFrom(g, ids, tab)
  BY <1>1, <1>3, <1>11, <1>12, <1>13, <1>14 DEF GoneFrom
<1>16. QED  BY <1>f, <1>15

\* A block in use is in no table and has no event.
LEMMA InUse ==
  ASSUME IInv, NEW id \in DOMAIN info, Allocated(info[id])
  PROVE  /\ info[id] \in Block /\ id # NoId /\ info[id].cached_pool = NoTable
         /\ id \notin DOMAIN event
         /\ \A t \in Tables : Entry(id, info[id]) \notin table[t]
         /\ \A i \in DOMAIN info : i \in DOMAIN info /\ Overlap(info[i], info[i])
<1>1. /\ Typed(info) /\ InTables(info, table) /\ StatusesAgree(info, NoId)
      /\ EventsAgree(info, event, NoId)
  BY DEF IInv, Known
<1>2. info[id] \in Block /\ id # NoId /\ NoTable \notin Tables /\ NoTable \notin Streams
  BY <1>1, Constants DEF Typed, Tables
<1>3. info[id].cached_pool = NoTable
  BY <1>1, <1>2 DEF StatusesAgree
<1>4. id \notin DOMAIN event
  BY <1>1, <1>2, <1>3 DEF EventsAgree
<1>5. ASSUME NEW t \in Tables, Entry(id, info[id]) \in table[t]
      PROVE  FALSE
  <2>1. Entry(id, info[id]).id = id
    BY DEF Entry
  <2>2. info[id].cached_pool = t
    BY <1>1, <1>5, <2>1 DEF InTables
  <2>3. QED  BY <2>2, <1>2, <1>3
<1>6. \A i \in DOMAIN info : Overlap(info[i], info[i])
  BY <1>1 DEF Typed, Block, Overlap
<1>7. QED  BY <1>2, <1>3, <1>4, <1>5, <1>6

\* What is left of IInv after a step of WatchEvents.
Kept(h, q) ==
  /\ Typed(info') /\ Geometry(info', buffers, work)
  /\ \E lo, hi : Extents(info', lo, hi)
  /\ Known(info', table', event', work, NoId)
  /\ Uses(info', h) /\ Queues(info', q, work)
  /\ \A o : OpOK(o, info, buffers, work) => OpOK(o, info', buffers, work)
  /\ IdleStep

\* The two ways in which an event is handled keep the invariant.
LEMMA CacheKeeps ==
  ASSUME NEW x, NEW h, NEW q, CacheKept(x, AllStreams, h, q)
  PROVE  Kept(h, q)
<1>1. NothingGone => IdleStep
  BY DEF NothingGone, IdleStep
<1>2. QED  BY <1>1 DEF CacheKept, Kept

\* An event of several streams: one less to wait for, or the block is let go.
LEMMA PopKeeps ==
  ASSUME IInv, NEW s \in Streams, multi[s] # << >>, Head(multi[s]).left = 0,
         NEW id, id = Head(multi[s]).id, PopMultiStreamEvent(s, id)
  PROVE  Kept(held, multi')
<1>0. multi' = [multi EXCEPT ![s] = Tail(@)]
  BY DEF PopMultiStreamEvent
<1>1. /\ id \in DOMAIN info /\ Waits(info[id])
      /\ LastEvent(info[id]) =>
           \A t \in Streams : \A k \in DOMAIN work[t] : ~Overlap(work[t][k], info[id])
      /\ \A g : Popped(info, id, g) => Queues(g, multi', work)
  BY <1>0, QueuePopped
<1>2. Allocated(info[id]) /\ id \notin held
  BY <1>1 DEF Waits, Allocated, IInv, Uses
<1>3. /\ info[id] \in Block /\ id # NoId /\ info[id].cached_pool = NoTable
      /\ id \notin DOMAIN event /\ \A t \in Tables : Entry(id, info[id]) \notin table[t]
      /\ \A i \in DOMAIN info : Overlap(info[i], info[i])
  BY <1>1, <1>2, InUse
<1>4. /\ Uses(info, held) /\ Queues(info, multi, work) /\ DOMAIN table = Tables
      /\ Lent(info) /\ info[id].cnt \in Nat /\ info[id].cnt > 0
  BY <1>1, <1>3 DEF IInv, Known, InTables, Geometry, Block, Queues, Waits
<1>5. CASE ~LastEvent(info[id])
  <2>1. info' = [info EXCEPT ![id].cnt = @ - 1] /\ UNCHANGED <<table, event>>
    BY <1>5 DEF PopMultiStreamEvent
  <2>2. PICK b : b = [info[id] EXCEPT !.cnt = info[id].cnt - 1]
    OBVIOUS
  <2>3. /\ b \in Block /\ Place(b) = Place(info[id]) /\ b.cached_pool = NoTable
        /\ b.status = info[id].status /\ b.used_streams = info[id].used_streams
        /\ b.alloc_stream = info[id].alloc_stream /\ b.cnt = info[id].cnt - 1
        /\ b.ptr = info[id].ptr /\ b.size = info[id].size
    <3>1. info[id].cnt - 1 \in Nat
      BY <1>4
    <3>2. QED  BY ONLY <2>2, <3>1, <1>3 DEF Block, Place
  <2>4. info' = [info EXCEPT ![id] = b]
    BY <2>1, <2>2
  <2>5. ChangedInUse(id, b, info')
    BY <1>1, <1>2, <2>3, <2>4 DEF ChangedInUse, Allocated
  <2>6. InPlace(info')
    BY <2>5, InUseChanged
  <2>7. /\ DOMAIN info' = DOMAIN info /\ info'[id] = b
        /\ \A i \in DOMAIN info \ {id} : info'[i] = info[i]
    BY <2>4, <1>1
  <2>8. Uses(info', held)
    BY <2>3, <2>7, <1>4 DEF Uses
  <2>9. Queues(info', multi', work)
    <3>1. Popped(info, id, info')
      BY <1>1, <1>5, <2>3, <2>7 DEF Popped, Waits, LastEvent
    <3>2. QED  BY <3>1, <1>1
  <2>10. IdleStep
    BY <2>6 DEF InPlace, IdleStep
  <2>11. Known(info', table', event', work, NoId)
    BY <2>1, <2>6 DEF InPlace
  <2>12. QED  BY <2>6, <2>8, <2>9, <2>10, <2>11 DEF InPlace, Kept
<1>6. CASE LastEvent(info[id]) /\ info[id].borrowed
  <2>1. info' = Without(info, {id}) /\ UNCHANGED <<table, event>>
    BY <1>6 DEF PopMultiStreamEvent
  <2>2. Unused({id}, table)
    <3>1. ~IsSplit(info[id])
      BY <1>1, <1>4, <1>6 DEF Lent
    <3>2. \A t \in Tables : table[t] = table[t] \ {Entry(i, info[i]) : i \in {id}}
      BY <1>3
    <3>3. QED  BY <1>1, <1>3, <1>4, <1>6, <3>1, <3>2 DEF Unused
  <2>3. GoneFrom(info', {id}, table)
    BY <2>1, <2>2, BlocksGone
  <2>4. DOMAIN info' = DOMAIN info \ {id} /\ \A i \in DOMAIN info' : info'[i] = info[i]
    BY <2>3 DEF GoneFrom
  <2>5. Queues(info', multi', work)
    <3>1. Popped(info, id, info')
      BY <1>1, <1>6, <2>4 DEF Popped, LastEvent
    <3>2. QED  BY <3>1, <1>1
  <2>6. IdleStep
    BY <1>1, <1>3, <1>6, <2>4 DEF IdleStep, Touched
  <2>7. Uses(info', held)
    BY <2>3, <1>2 DEF GoneFrom
  <2>8. Known(info', table', event', work, NoId)
    BY <2>1, <2>3 DEF GoneFrom
  <2>9. QED  BY <2>3, <2>5, <2>6, <2>7, <2>8 DEF GoneFrom, Kept
<1>7. CASE LastEvent(info[id]) /\ ~info[id].borrowed
  <2>f. PICK m : m = [info |-> [info EXCEPT ![id] = Refreshed(@)],
                      table |-> table, event |-> event, tbl |-> AllStreams]
    OBVIOUS
  <2>0. /\ m.info = [info EXCEPT ![id] = Refreshed(info[id])]
        /\ m.table = table /\ m.event = event /\ m.tbl = AllStreams
    BY <2>f
  <2>1. Cache(m, id)
    BY <1>7, <2>f DEF PopMultiStreamEvent
  <2>2. /\ m.info[id] = Refreshed(info[id]) /\ DOMAIN m.info = DOMAIN info
        /\ \A i \in DOMAIN info \ {id} : m.info[i] = info[i]
    BY <2>0, <1>1
  <2>3. /\ m.info[id] \in Block /\ Place(m.info[id]) = Place(info[id])
        /\ m.info[id].cached_pool = NoTable /\ ~Allocated(m.info[id])
        /\ m.info[id].cnt = 0 /\ ~Waits(m.info[id])
    BY <1>3, <2>2, RefreshedBlock DEF Waits
  <2>4. Starts(m, id)
    <3>1. \A t \in Tables : m.table[t] = table[t] \ {Entry(id, info[id])}
      BY <2>0, <1>3
    <3>2. m.tbl \in Tables /\ EventFor(m.event, id, m.tbl)
      BY <2>0, <1>3 DEF Tables, EventFor
    <3>3. \A t \in Streams : \A k \in DOMAIN work[t] : ~Overlap(work[t][k], info[id])
      BY <1>1, <1>7
    <3>4. QED  BY <1>1, <1>3, <1>4, <1>7, <2>0, <2>2, <2>3, <3>1, <3>2, <3>3 DEF Starts
  <2>5. Queues(m.info, multi', work)
    <3>1. Popped(info, id, m.info)
      BY <1>1, <1>7, <2>2, <2>3 DEF Popped, LastEvent
    <3>2. QED  BY <3>1, <1>1
  <2>6. CacheKept(id, AllStreams, held, multi')
    BY <2>0, <2>1, <2>4, <2>5, <1>2, Caching
  <2>7. QED  BY <2>6, CacheKeeps
<1>8. QED  BY <1>5, <1>6, <1>7

\* WatchEvent keeps the invariant.
LEMMA WatchKeeps ==
  ASSUME IInv, WatchEvent
  PROVE  IInv' /\ FreshStep /\ IdleStep
<1>1. PICK k \in Ahead :
        /\ \A l \in Ahead : k <= l
        /\ op' = [op EXCEPT !.at = k]
        /\ \E id \in ReadyIds(k) : IF k <= NStreams THEN MoveAvailable(id)
                                   ELSE PopMultiStreamEvent(Turn(k), id)
  BY DEF WatchEvent
<1>2. PICK id \in ReadyIds(k) : IF k <= NStreams THEN MoveAvailable(id)
                                ELSE PopMultiStreamEvent(Turn(k), id)
  BY <1>1
<1>3. Running /\ UNCHANGED <<created, held, buffers, work>>
  BY DEF WatchEvent, Watching
<1>4. k \in 1..(2 * NStreams) /\ NStreams \in Nat \ {0} /\ Streams = 1..NStreams
  BY Constants DEF Ahead, Positions
<1>5. OpOK(op', info, buffers, work)
  <2>1. ASSUME op.call = "empty", NEW i \in DOMAIN info, info[i].cached_pool \in Streams
        PROVE  k <= info[i].cached_pool
    <3>1. /\ op.at \in Nat /\ op.at <= info[i].cached_pool
          /\ \A s \in Streams : work[s] = << >>
      BY <2>1 DEF IInv, OpOK, Idle, Aborted
    <3>2. i \in DOMAIN event /\ event[i].stream = info[i].cached_pool
      BY <2>1, Constants DEF IInv, Known, EventsAgree, Typed
    <3>3. event[i].left = 0
      <4>1. event[i] \in Event /\ event[i].left <= Len(work[event[i].stream])
        BY <3>2 DEF IInv, Known, EventsTyped
      <4>2. Len(work[event[i].stream]) = 0
        BY <3>1, <3>2, <2>1
      <4>3. QED  BY <4>1, <4>2 DEF Event
    <3>4. info[i].cached_pool \in Ahead
      <4>1. i \in ReadyIds(info[i].cached_pool)
        BY <3>2, <3>3, <2>1, <1>4 DEF ReadyIds, Turn
      <4>2. info[i].cached_pool \in Positions
        BY <2>1, <1>4 DEF Positions
      <4>3. QED  BY <4>1, <4>2, <3>1, <1>4, <2>1 DEF Ahead
    <3>5. QED  BY <3>4, <1>1
  <2>2. k \in Nat
    BY <1>4
  <2>3. QED  BY <1>1, <1>3, <2>1, <2>2, OpAt
<1>6. Kept(held, multi')
  <2>1. CASE k <= NStreams
    <3>1. id \in DOMAIN event /\ event[id].left = 0 /\ MoveAvailable(id)
      BY <2>1, <1>2 DEF ReadyIds
    <3>2. multi' = multi
      BY <3>1 DEF MoveAvailable
    <3>3. CacheKept(id, AllStreams, held, multi)
      BY <3>1, MoveStarts
    <3>4. QED  BY <3>2, <3>3, CacheKeeps
  <2>2. CASE ~(k <= NStreams)
    <3>1. PICK s : s = Turn(k)
      OBVIOUS
    <3>2. s \in Streams
      BY <2>2, <3>1, <1>4 DEF Turn
    <3>3. /\ multi[s] # << >> /\ Head(multi[s]).left = 0 /\ id = Head(multi[s]).id
          /\ PopMultiStreamEvent(s, id)
      BY <2>2, <3>1, <1>2 DEF ReadyIds
    <3>4. QED  BY <3>2, <3>3, PopKeeps
  <2>3. QED  BY <2>1, <2>2
<1>7. /\ Typed(info') /\ Geometry(info', buffers', work')
      /\ \E lo, hi : Extents(info', lo, hi)
      /\ Known(info', table', event', work', NoId)
      /\ Uses(info', held') /\ Queues(info', multi', work')
      /\ OpOK(op', info', buffers', work') /\ IdleStep
  BY <1>3, <1>5, <1>6 DEF Kept
<1>8. (work \in [Streams -> Seq(Kernel)])' /\ (created \subseteq Streams)'
  BY <1>3 DEF IInv
<1>9. IInv'
  BY <1>7, <1>8 DEF IInv
<1>10. FreshStep
  BY <1>3 DEF FreshStep
<1>11. QED  BY <1>7, <1>9, <1>10

-----------------------------------------------------------------------------
(* Calls *)

\* A step after which every block is where it was gives back no memory.
LEMMA IdleAnyway ==
  ASSUME IInv, \A i \in DOMAIN info : i \in DOMAIN info' /\ info'[i].ptr = info[i].ptr
                                     /\ info'[i].size = info[i].size
  PROVE  IdleStep
<1>1. \A i \in DOMAIN info : Overlap(info[i], info'[i])
  BY DEF IInv, Typed, Block, Overlap
<1>2. QED  BY <1>1 DEF IdleStep

\* A step that only begins or ends an operation.
LEMMA Called ==
  ASSUME IInv, UNCHANGED <<poolVars, held, buffers, work>>,
         OpOK(op', info, buffers, work)
  PROVE  IInv' /\ FreshStep /\ IdleStep
<1>1. /\ info' = info /\ table' = table /\ created' = created /\ event' = event
      /\ multi' = multi /\ held' = held /\ buffers' = buffers /\ work' = work
  BY DEF poolVars
<1>2. IInv'
  BY <1>1 DEF IInv
<1>3. FreshStep
  BY <1>1 DEF FreshStep
<1>4. IdleStep
  BY <1>1, IdleAnyway
<1>5. QED  BY <1>2, <1>3, <1>4

\* The calls.
LEMMA CallAllocKeeps ==
  ASSUME IInv, NEW size \in RequestSizes, NEW s \in {kBlockingStream} \cup Streams,
         CallAlloc(size, s)
  PROVE  IInv' /\ FreshStep /\ IdleStep
<1>1. size \in Nat \ {0}
  BY SizesAssumption
<1>2. op' \in [call : {"alloc", "buffer"}, size : Nat \ {0}, stream : AnyStream,
               at : Nat, waiting : BOOLEAN]
  BY <1>1 DEF CallAlloc, AnyStream
<1>3. OpOK(op', info, buffers, work)
  BY <1>2 DEF OpOK
<1>4. QED  BY <1>3, Called DEF CallAlloc

LEMMA CallBorrowKeeps ==
  ASSUME IInv, NEW size \in Nat \ {0}, NEW ptr \in Int, NEW s \in AnyStream,
         ptr = -size \/ [ptr |-> ptr, size |-> size] \in buffers,
         CallBorrow(size, ptr, s)
  PROVE  IInv' /\ FreshStep /\ IdleStep
<1>1. /\ op' \in [call : {"borrow"}, size : Nat \ {0}, ptr : Int, stream : AnyStream,
                  at : Nat]
      /\ op'.ptr = ptr /\ op'.size = size
  BY DEF CallBorrow
<1>2. OpOK(op', info, buffers, work)
  BY <1>1 DEF OpOK, CallBorrow
<1>3. QED  BY <1>2, Called DEF CallBorrow

LEMMA CallEmptyKeeps ==
  ASSUME IInv, CallEmptyCache
  PROVE  IInv' /\ FreshStep /\ IdleStep
<1>1. /\ op' \in [call : {"empty"}, at : Nat] /\ op'.at = 1
      /\ \A s \in Streams : work[s] = << >>
  BY DEF CallEmptyCache
<1>2. \A i \in DOMAIN info : info[i].cached_pool \in Streams => 1 <= info[i].cached_pool
  BY Constants
<1>3. OpOK(op', info, buffers, work)
  BY <1>1, <1>2 DEF OpOK
<1>4. QED  BY <1>3, Called DEF CallEmptyCache

\* The address the device gives is behind its start and clear of what stays there.
LEMMA FreePlace ==
  ASSUME IInv, NEW ids \in SUBSET DOMAIN info, NEW size \in Nat \ {0},
         NEW ptr \in LowestFree(size, Segments \ {info[i] : i \in ids}),
         NEW b, b.ptr = ptr, b.size = size
  PROVE  /\ ptr \in Nat
         /\ \A i \in DOMAIN info \ ids : ~Overlap(info[i], b)
         /\ \A c \in buffers : ~Overlap(c, b) /\ ~Overlap(b, c)
<1>1. /\ Typed(info) /\ Disjoint(info) /\ Lent(info) /\ BuffersApart(info, buffers)
  BY DEF IInv, Geometry
<1>2. \A i \in DOMAIN info : info[i].ptr \in Int /\ info[i].size \in Nat \ {0}
  BY <1>1 DEF Typed, Block
<1>3. \A c \in buffers : c.ptr \in Nat /\ c.size \in Nat \ {0}
  BY <1>1 DEF BuffersApart
<1>4. PICK taken : taken = Segments \ {info[i] : i \in ids}
  OBVIOUS
<1>5. \A c \in taken : c.ptr \in Nat /\ c.size \in Nat \ {0}
  BY <1>2, <1>3, <1>4 DEF Segments
<1>6. /\ ptr \in {0} \cup {c.ptr + c.size : c \in taken}
      /\ \A c \in taken : ~Overlap([ptr |-> ptr, size |-> size], c)
  BY <1>4 DEF LowestFree
<1>7. ptr \in Nat
  BY <1>5, <1>6
<1>8. \A c \in taken : ~Overlap(c, b) /\ ~Overlap(b, c)
  BY <1>6 DEF Overlap
<1>9. ASSUME NEW i \in DOMAIN info \ ids
      PROVE  ~Overlap(info[i], b)
  <2>1. CASE info[i].ptr >= 0
    <3>1. \A j \in ids : info[i] # info[j]
      <4>1. \A j \in ids : ~Overlap(info[i], info[j])
        BY <1>1 DEF Disjoint
      <4>2. Overlap(info[i], info[i])
        BY <1>2 DEF Overlap
      <4>3. QED  BY <4>1, <4>2
    <3>2. info[i] \in taken
      BY <2>1, <3>1, <1>4 DEF Segments
    <3>3. QED  BY <3>2, <1>8
  <2>2. CASE ~(info[i].ptr >= 0)
    BY <2>2, <1>1, <1>2, <1>7 DEF Lent, Overlap
  <2>3. QED  BY <2>1, <2>2
<1>10. ASSUME NEW c \in buffers
       PROVE  c \in taken
  <2>1. Overlap(c, c)
    BY <1>3 DEF Overlap
  <2>2. \A j \in ids : info[j] # c
    BY <2>1, <1>1 DEF BuffersApart
  <2>3. QED  BY <2>2, <1>4 DEF Segments
<1>11. QED  BY <1>7, <1>8, <1>9, <1>10

\* A buffer may be made where nothing is.
LEMMA BufferAdded ==
  ASSUME NEW f, NEW w, Geometry(f, buffers, w), NEW ptr \in Nat, NEW size \in Nat \ {0},
         NEW b, b = [ptr |-> ptr, size |-> size], \A i \in DOMAIN f : ~Overlap(f[i], b),
         \A c \in buffers : ~Overlap(c, b) /\ ~Overlap(b, c)
  PROVE  Geometry(f, buffers \cup {b}, w)
BY DEF Geometry, BuffersApart

LEMMA CallBufferKeeps ==
  ASSUME IInv, NEW size \in BufferSizes, CallBuffer(size)
  PROVE  IInv' /\ FreshStep /\ IdleStep
<1>1. size \in Nat \ {0} /\ UNCHANGED <<poolVars, held, work>> /\ op = Idle
  BY SizesAssumption DEF CallBuffer
<1>2. CASE ~Fits(size, Segments)
  <2>1. op' \in [call : {"alloc", "buffer"}, size : Nat \ {0}, stream : AnyStream,
                 at : Nat, waiting : BOOLEAN]
    <3>1. op' = [call |-> "buffer", size |-> size, stream |-> kBlockingStream,
                 at |-> 1, waiting |-> TRUE]
      BY <1>2 DEF CallBuffer
    <3>2. kBlockingStream \in AnyStream
      BY DEF AnyStream
    <3>3. QED  BY <3>1, <3>2, <1>1
  <2>2. OpOK(op', info, buffers, work) /\ UNCHANGED buffers
    BY <1>2, <2>1 DEF OpOK, CallBuffer
  <2>3. QED  BY <1>1, <2>2, Called
<1>3. CASE Fits(size, Segments)
  <2>1. PICK ptr \in LowestFree(size, Segments) :
          buffers' = {[ptr |-> ptr, size |-> size]} /\ buffers = {} /\ op' = op
    BY <1>3 DEF CallBuffer
  <2>2. Segments \ {info[i] : i \in {}} = Segments
    OBVIOUS
  <2>3. PICK b : b = [ptr |-> ptr, size |-> size]
    OBVIOUS
  <2>4. /\ ptr \in Nat /\ \A i \in DOMAIN info : ~Overlap(info[i], b)
        /\ \A c \in buffers : ~Overlap(c, b) /\ ~Overlap(b, c)
    <3>1. {} \in SUBSET DOMAIN info /\ b.ptr = ptr /\ b.size = size
      BY <2>3
    <3>2. ptr \in LowestFree(size, Segments \ {info[i] : i \in {}})
      BY <2>1, <2>2
    <3>3. QED  BY <3>1, <3>2, <1>1, FreePlace
  <2>5. Geometry(info, buffers', work)
    <3>1. buffers' = buffers \cup {b}
      BY <2>1, <2>3
    <3>2. Geometry(info, buffers, work)
      BY DEF IInv
    <3>3. QED  BY <3>1, <3>2, <2>3, <2>4, <1>1, BufferAdded
  <2>6. OpOK(op', info, buffers', work)
    BY <1>1, <2>1 DEF OpOK
  <2>7. /\ info' = info /\ table' = table /\ created' = created /\ event' = event
        /\ multi' = multi /\ held' = held /\ work' = work
    BY <1>1 DEF poolVars
  <2>8. IInv'
    BY <2>5, <2>6, <2>7 DEF IInv
  <2>9. FreshStep /\ IdleStep
    BY <2>7, IdleAnyway DEF FreshStep
  <2>10. QED  BY <2>8, <2>9
<1>4. QED  BY <1>2, <1>3

\* What MarkDataSpaceUsedByStream does to a block in use.
LEMMA MarkedBlock ==
  ASSUME NEW b \in Block, NEW s \in Streams,
         b.status \in {"OCCUPIED_BY_ALLOC_STREAM", "OCCUPIED_BY_MULTI_STREAMS"},
         b.status = "OCCUPIED_BY_ALLOC_STREAM" => b.used_streams \subseteq {b.alloc_stream},
         \/ b.alloc_stream \in b.used_streams
         \/ b.alloc_stream = kBlockingStream /\ b.status = "OCCUPIED_BY_ALLOC_STREAM",
         NEW c, c = MarkedBy(b, s)
  PROVE  /\ c \in Block /\ Place(c) = Place(b) /\ c.cached_pool = b.cached_pool
         /\ c.cnt = b.cnt /\ b.used_streams \subseteq c.used_streams /\ s \in c.used_streams
         /\ c.status \in {"OCCUPIED_BY_ALLOC_STREAM", "OCCUPIED_BY_MULTI_STREAMS"}
         /\ c.status = "OCCUPIED_BY_ALLOC_STREAM" => c.used_streams \subseteq {c.alloc_stream}
         /\ c.alloc_stream \in c.used_streams
<1>0. kBlockingStream \notin Streams /\ b.used_streams \subseteq Streams
      /\ b.alloc_stream \in AnyStream
  BY Constants DEF Block
<1>1. CASE s = b.alloc_stream
  <2>1. c = b
    BY <1>1 DEF MarkedBy
  <2>2. QED  BY <1>0, <1>1, <2>1
<1>2. CASE s # b.alloc_stream /\ b.alloc_stream = kBlockingStream
  <2>1. b.used_streams = {}
    BY <1>0, <1>2
  <2>2. PICK status, used : status = "OCCUPIED_BY_ALLOC_STREAM"
                            /\ used = b.used_streams \cup {s}
    OBVIOUS
  <2>3. c = [b EXCEPT !.used_streams = used, !.alloc_stream = s, !.status = status]
    BY <1>2, <2>2 DEF MarkedBy
  <2>4. used \in SUBSET Streams /\ s \in AnyStream /\ status \in Statuses
    BY <1>0, <2>2 DEF Statuses, AnyStream
  <2>5. b \in Block
    OBVIOUS
  <2>6. /\ c \in Block /\ Place(c) = Place(b) /\ c.cached_pool = b.cached_pool
        /\ c.cnt = b.cnt /\ c.used_streams = used /\ c.alloc_stream = s
        /\ c.status = status
    BY ONLY <2>3, <2>4, <2>5 DEF Block, Place
  <2>7. QED  BY <2>1, <2>2, <2>6
<1>3. CASE s # b.alloc_stream /\ b.alloc_stream # kBlockingStream
  <2>2. PICK status, used : status = "OCCUPIED_BY_MULTI_STREAMS"
                            /\ used = b.used_streams \cup {s}
    OBVIOUS
  <2>3. c = [b EXCEPT !.used_streams = used, !.status = status]
    BY <1>3, <2>2 DEF MarkedBy
  <2>4. used \in SUBSET Streams /\ status \in Statuses
    BY <1>0, <2>2 DEF Statuses
  <2>5. b \in Block
    OBVIOUS
  <2>6. /\ c \in Block /\ Place(c) = Place(b) /\ c.cached_pool = b.cached_pool
        /\ c.cnt = b.cnt /\ c.used_streams = used /\ c.alloc_stream = b.alloc_stream
        /\ c.status = status
    BY ONLY <2>3, <2>4, <2>5 DEF Block, Place
  <2>7. QED  BY <1>3, <2>2, <2>6
<1>4. QED  BY <1>1, <1>2, <1>3

\* UseOn keeps the invariant: the kernel's stream is recorded before it runs.
LEMMA UseOnKeeps ==
  ASSUME IInv, NEW id, NEW s \in Streams, UseOn(id, s)
  PROVE  IInv' /\ FreshStep /\ IdleStep
<1>f. PICK b, kern : /\ b = MarkedBy(info[id], s)
                     /\ kern = [ptr |-> info[id].ptr, size |-> info[id].size]
  OBVIOUS
<1>0. /\ op = Idle /\ id \in held /\ info' = [info EXCEPT ![id] = b]
      /\ work' = [work EXCEPT ![s] = Append(work[s], kern)]
      /\ table' = table /\ created' = created /\ event' = event /\ multi' = multi
      /\ op' = op /\ held' = held /\ buffers' = buffers
  BY <1>f DEF UseOn
<1>1. /\ Uses(info, held) /\ Queues(info, multi, work) /\ Typed(info)
      /\ work \in [Streams -> Seq(Kernel)]
  BY DEF IInv
<1>2. /\ id \in DOMAIN info /\ info[id] \in Block
      /\ info[id].status \in {"OCCUPIED_BY_ALLOC_STREAM", "OCCUPIED_BY_MULTI_STREAMS"}
  BY <1>0, <1>1 DEF Uses, Typed
<1>3. /\ b \in Block /\ Place(b) = Place(info[id]) /\ b.cached_pool = info[id].cached_pool
      /\ b.cnt = info[id].cnt /\ info[id].used_streams \subseteq b.used_streams
      /\ s \in b.used_streams
      /\ b.status \in {"OCCUPIED_BY_ALLOC_STREAM", "OCCUPIED_BY_MULTI_STREAMS"}
      /\ b.status = "OCCUPIED_BY_ALLOC_STREAM" => b.used_streams \subseteq {b.alloc_stream}
      /\ b.alloc_stream \in b.used_streams
  <2>1. /\ info[id].status = "OCCUPIED_BY_ALLOC_STREAM" =>
             info[id].used_streams \subseteq {info[id].alloc_stream}
        /\ \/ info[id].alloc_stream \in info[id].used_streams
           \/ /\ info[id].alloc_stream = kBlockingStream
              /\ info[id].status = "OCCUPIED_BY_ALLOC_STREAM"
    BY <1>1, <1>2 DEF Uses
  <2>2. QED  BY <1>f, <1>2, <2>1, MarkedBlock
<1>4. Allocated(info[id]) /\ Allocated(b) /\ ~Waits(info[id]) /\ ~Waits(b)
  BY <1>2, <1>3 DEF Allocated, Waits
<1>5. InPlace(info')
  <2>1. info[id].cached_pool = NoTable
    BY <1>2, <1>4, InUse
  <2>2. ChangedInUse(id, b, info')
    BY <1>0, <1>2, <1>3, <1>4, <2>1 DEF ChangedInUse
  <2>3. QED  BY <2>2, InUseChanged
<1>6. /\ DOMAIN info' = DOMAIN info /\ info'[id] = b
      /\ \A i \in DOMAIN info \ {id} : info'[i] = info[i]
      /\ b.ptr = info[id].ptr /\ b.size = info[id].size
  BY <1>0, <1>2, <1>3 DEF Place
<1>7. /\ kern \in Kernel /\ kern.ptr = b.ptr /\ kern.size = b.size
  BY <1>f, <1>2, <1>6 DEF Kernel, Block
<1>8. /\ work' \in [Streams -> Seq(Kernel)]
      /\ \A t \in Streams \ {s} : work'[t] = work[t]
      /\ work'[s] = Append(work[s], kern) /\ work[s] \in Seq(Kernel)
  BY <1>0, <1>1, <1>7
<1>9. /\ \A t \in Streams : Len(work[t]) <= Len(work'[t])
      /\ \A t \in Streams : \A k \in DOMAIN work'[t] :
           \/ k \in DOMAIN work[t] /\ work'[t][k] = work[t][k]
           \/ t = s /\ work'[t][k] = kern
  <2>1. \A t \in Streams : work[t] \in Seq(Kernel)
    BY <1>1
  <2>2. /\ Len(work'[s]) = Len(work[s]) + 1
        /\ \A k \in DOMAIN work'[s] : \/ k \in DOMAIN work[s] /\ work'[s][k] = work[s][k]
                                      \/ work'[s][k] = kern
    BY <1>7, <1>8
  <2>3. /\ Len(work[s]) \in Nat
        /\ \A t \in Streams \ {s} : Len(work[t]) \in Nat /\ work'[t] = work[t]
    BY <1>8, <2>1
  <2>4. \A t \in Streams : Len(work[t]) <= Len(work'[t])
    BY ONLY <2>2, <2>3
  <2>5. QED  BY ONLY <2>2, <2>3, <2>4
<1>10. \A i \in DOMAIN info' : Overlap(kern, info'[i]) => i = id
  <2>1. \A i \in DOMAIN info' : i # id => ~Overlap(info'[id], info'[i])
    BY <1>2, <1>5, <1>6 DEF InPlace, Geometry, Disjoint
  <2>2. QED  BY <2>1, <1>6, <1>7 DEF Overlap
<1>11. Geometry(info', buffers', work')
  <2>1. Geometry(info', buffers, work)
    BY <1>5 DEF InPlace
  <2>2. Backed(info', work')
    <3>1. ASSUME NEW t \in Streams, NEW k \in DOMAIN work'[t], NEW a \in Int,
                 Holds(work'[t][k], a)
          PROVE  \E i \in DOMAIN info' : Holds(info'[i], a)
      <4>1. CASE k \in DOMAIN work[t] /\ work'[t][k] = work[t][k]
        BY <2>1, <3>1, <4>1 DEF Geometry, Backed
      <4>2. CASE work'[t][k] = kern
        <5>1. Holds(info'[id], a)
          BY <3>1, <4>2, <1>6, <1>7 DEF Holds
        <5>2. QED  BY <5>1, <1>2, <1>6
      <4>3. QED  BY <4>1, <4>2, <1>9
    <3>2. QED  BY <3>1 DEF Backed
  <2>3. QED  BY <2>1, <2>2, <1>0 DEF Geometry
<1>12. Known(info', table', event', work', NoId)
  <2>1. Known(info', table, event, work, NoId)
    BY <1>5 DEF InPlace
  <2>2. EventsTyped(info', event, work')
    <3>1. EventsTyped(info', event, work)
      BY <2>1 DEF Known
    <3>2. \A t \in Streams : Len(work[t]) \in Nat /\ Len(work'[t]) \in Nat
      <4>1. \A t \in Streams : work[t] \in Seq(Kernel) /\ work'[t] \in Seq(Kernel)
        BY <1>1, <1>8
      <4>2. QED  BY <4>1
    <3>3. QED  BY <3>1, <3>2, <1>9 DEF EventsTyped, Event
  <2>3. Foreseen(info', event, work', NoId)
    <3> SUFFICES ASSUME NEW i \in DOMAIN info' \ {NoId}, NEW t \in Streams,
                        NEW k \in DOMAIN work'[t], Overlap(work'[t][k], info'[i])
                 PROVE  IF Allocated(info'[i]) THEN t \in info'[i].used_streams
                        ELSE t = info'[i].cached_pool /\ k <= event[i].left
      BY DEF Foreseen
    <3>1. CASE k \in DOMAIN work[t] /\ work'[t][k] = work[t][k]
      BY <2>1, <3>1 DEF Known, Foreseen
    <3>2. CASE t = s /\ work'[t][k] = kern
      <4>1. i = id
        BY <3>2, <1>10
      <4>2. QED  BY <3>2, <4>1, <1>3, <1>4, <1>6
    <3>3. QED  BY <3>1, <3>2, <1>9
  <2>4. QED  BY <2>1, <2>2, <2>3, <1>0 DEF Known
<1>13. Queues(info', multi, work')
  <2>1. Queues(info', multi, work)
    <3>1. SameWaits(info, info')
      BY <1>3, <1>4, <1>6 DEF SameWaits, Waits
    <3>2. QED  BY <3>1, <1>1, QueuesKept
  <2>2. ASSUME NEW i \in DOMAIN info', NEW t \in Streams, NEW k \in DOMAIN work'[t],
               Waits(info'[i]), Overlap(work'[t][k], info'[i])
        PROVE  \E l \in DOMAIN multi[t] : multi[t][l].id = i /\ k <= multi[t][l].left
    <3>1. CASE k \in DOMAIN work[t] /\ work'[t][k] = work[t][k]
      BY <2>1, <2>2, <3>1 DEF Queues, Waits
    <3>2. CASE work'[t][k] = kern
      <4>1. i = id
        BY <2>2, <3>2, <1>10
      <4>2. QED  BY <2>2, <4>1, <1>4, <1>6
    <3>3. QED  BY <3>1, <3>2, <1>9
  <2>3. \A i \in DOMAIN info', t \in Streams : \A k \in DOMAIN work'[t] :
          info'[i].status = "UNAVAILABLE_UNTIL_FREE" /\ Overlap(work'[t][k], info'[i]) =>
            \E l \in DOMAIN multi[t] : multi[t][l].id = i /\ k <= multi[t][l].left
    BY <2>2 DEF Waits
  <2>4. QED  BY <2>1, <2>3 DEF Queues
<1>14. Uses(info', held)
  BY <1>0, <1>1, <1>3, <1>6 DEF Uses
<1>15. OpOK(op', info', buffers', work')
  BY <1>0 DEF OpOK
<1>16. Typed(info') /\ \E lo, hi : Extents(info', lo, hi)
  BY <1>5 DEF InPlace
<1>17. IInv'
  <2>1. (created \subseteq Streams)'
    BY <1>0 DEF IInv
  <2>2. QED  BY <2>1, <1>0, <1>8, <1>11, <1>12, <1>13, <1>14, <1>15, <1>16 DEF IInv
<1>18. FreshStep /\ IdleStep
  <2>1. IdleStep
    BY <1>6, IdleAnyway
  <2>2. QED  BY <2>1, <1>0 DEF FreshStep
<1>19. QED  BY <1>17, <1>18

-----------------------------------------------------------------------------
(* FreeDataSpace *)

\* An event for id on each stream of used.
QueuedFor(id, used) ==
  [s \in Streams |-> IF s \in used THEN Append(multi[s], [id |-> id, left |-> Len(work[s])])
                     ELSE multi[s]]

\* One event on each stream that used the block covers its kernels.
LEMMA QueueLonger ==
  ASSUME IInv, NEW id \in DOMAIN info, ~Waits(info[id]),
         NEW used \in SUBSET Streams, used # {},
         NEW q, q = QueuedFor(id, used), NEW g, DOMAIN g = DOMAIN info,
         \A i \in DOMAIN info \ {id} : g[i] = info[i],
         Waits(g[id]), g[id].cnt = Cardinality(used),
         g[id].ptr = info[id].ptr, g[id].size = info[id].size,
         \A s \in Streams : \A k \in DOMAIN work[s] :
           Overlap(work[s][k], info[id]) => s \in used
  PROVE  Queues(g, q, work)
<1>1. /\ multi \in [Streams -> Seq([id : Ids, left : Nat])]
      /\ \A i \in DOMAIN info : /\ info[i].cnt = Cardinality(On(multi, i))
                                /\ Waits(info[i]) <=> info[i].cnt > 0
                                /\ info[i].cnt \in Nat
      /\ \A t \in Streams : \A k, l \in DOMAIN multi[t] :
           /\ multi[t][k].id \in DOMAIN info
           /\ multi[t][k].id = multi[t][l].id => k = l
      /\ \A i \in DOMAIN info, t \in Streams : \A k \in DOMAIN work[t] :
           Waits(info[i]) /\ Overlap(work[t][k], info[i]) =>
             \E l \in DOMAIN multi[t] : multi[t][l].id = i /\ k <= multi[t][l].left
      /\ DOMAIN info \subseteq Ids /\ work \in [Streams -> Seq(Kernel)]
  BY DEF IInv, Queues, Waits, Typed, Block
<1>2. On(multi, id) = {}
  BY <1>1, OnFinite
<1>3. \A s \in Streams : multi[s] \in Seq([id : Ids, left : Nat])
                         /\ Len(work[s]) \in Nat /\ DOMAIN work[s] = 1..Len(work[s])
  <2> SUFFICES ASSUME NEW s \in Streams
               PROVE  multi[s] \in Seq([id : Ids, left : Nat])
                      /\ Len(work[s]) \in Nat /\ DOMAIN work[s] = 1..Len(work[s])
    OBVIOUS
  <2>1. work[s] \in Seq(Kernel) /\ multi[s] \in Seq([id : Ids, left : Nat])
    BY <1>1
  <2>2. QED  BY <2>1
<1>4. \A s \in Streams : q[s] = IF s \in used
                                THEN Append(multi[s], [id |-> id, left |-> Len(work[s])])
                                ELSE multi[s]
  BY DEF QueuedFor
<1>5. q \in [Streams -> Seq([id : Ids, left : Nat])]
  <2>1. \A s \in Streams : q[s] \in Seq([id : Ids, left : Nat])
    <3> SUFFICES ASSUME NEW s \in Streams
                 PROVE  q[s] \in Seq([id : Ids, left : Nat])
      OBVIOUS
    <3>1. [id |-> id, left |-> Len(work[s])] \in [id : Ids, left : Nat]
      BY <1>1, <1>3
    <3>2. Append(multi[s], [id |-> id, left |-> Len(work[s])]) \in Seq([id : Ids, left : Nat])
      <4>1. multi[s] \in Seq([id : Ids, left : Nat])
        BY <1>3
      <4>2. QED  BY ONLY <3>1, <4>1
    <3>3. QED  BY <1>3, <1>4, <3>2
  <2>2. QED  BY <2>1 DEF QueuedFor
<1>6. ASSUME NEW s \in Streams
      PROVE  /\ \A k \in DOMAIN multi[s] : k \in DOMAIN q[s] /\ q[s][k] = multi[s][k]
             /\ s \in used => \E k \in DOMAIN q[s] : q[s][k].id = id /\ q[s][k].left = Len(work[s])
             /\ \A k \in DOMAIN q[s] :
                  \/ k \in DOMAIN multi[s] /\ q[s][k] = multi[s][k]
                  \/ s \in used /\ k = Len(multi[s]) + 1 /\ q[s][k].id = id
  <2>1. CASE s \in used
    <3>1. PICK e : e = [id |-> id, left |-> Len(work[s])]
      OBVIOUS
    <3>2. q[s] = Append(multi[s], e) /\ multi[s] \in Seq([id : Ids, left : Nat])
      BY <1>3, <1>4, <2>1, <3>1
    <3>3. /\ \A k \in DOMAIN multi[s] : k \in DOMAIN q[s] /\ q[s][k] = multi[s][k]
          /\ Len(multi[s]) + 1 \in DOMAIN q[s] /\ q[s][Len(multi[s]) + 1] = e
          /\ \A k \in DOMAIN q[s] : \/ k \in DOMAIN multi[s] /\ q[s][k] = multi[s][k]
                                    \/ k = Len(multi[s]) + 1
      BY <3>2
    <3>4. QED  BY <2>1, <3>1, <3>3
  <2>2. CASE s \notin used
    BY <1>4, <2>2
  <2>3. QED  BY <2>1, <2>2
<1>7. On(q, id) = used
  <2>1. \A s \in Streams : \A k \in DOMAIN multi[s] : multi[s][k].id # id
    BY <1>2 DEF On
  <2>2. \A s \in Streams : s \in On(q, id) <=> s \in used
    BY <1>6, <2>1 DEF On
  <2>3. On(q, id) \subseteq Streams
    BY DEF On
  <2>4. QED  BY <2>2, <2>3
<1>8. \A i : i # id => On(q, i) = On(multi, i)
  <2> SUFFICES ASSUME NEW i, i # id, NEW s \in Streams
               PROVE  (\E k \in DOMAIN q[s] : q[s][k].id = i) <=>
                      \E k \in DOMAIN multi[s] : multi[s][k].id = i
    BY DEF On
  <2>1. QED  BY <1>6
<1>9. ASSUME NEW i \in DOMAIN g
      PROVE  g[i].cnt = Cardinality(On(q, i)) /\ (Waits(g[i]) <=> g[i].cnt > 0)
  <2>1. CASE i = id
    <3>1. Cardinality(used) > 0
      BY <1>7, OnFinite
    <3>2. QED  BY <2>1, <3>1, <1>7
  <2>2. CASE i # id
    BY <2>2, <1>1, <1>8
  <2>3. QED  BY <2>1, <2>2
<1>10. ASSUME NEW s \in Streams, NEW k \in DOMAIN q[s], NEW l \in DOMAIN q[s]
       PROVE  q[s][k].id \in DOMAIN g /\ (q[s][k].id = q[s][l].id => k = l)
  <2>1. \A j \in DOMAIN multi[s] : multi[s][j].id # id
    BY <1>2 DEF On
  <2>2. CASE k \in DOMAIN multi[s] /\ q[s][k] = multi[s][k]
    <3>1. CASE l \in DOMAIN multi[s] /\ q[s][l] = multi[s][l]
      BY <2>2, <3>1, <1>1
    <3>2. CASE q[s][l].id = id
      BY <2>1, <2>2, <3>2, <1>1
    <3>3. QED  BY <3>1, <3>2, <1>6
  <2>3. CASE k = Len(multi[s]) + 1 /\ q[s][k].id = id
    <3>1. CASE l \in DOMAIN multi[s] /\ q[s][l] = multi[s][l]
      BY <2>1, <2>3, <3>1, <1>1
    <3>2. CASE l = Len(multi[s]) + 1
      BY <2>3, <3>2, <1>1
    <3>3. QED  BY <3>1, <3>2, <1>6
  <2>4. QED  BY <2>2, <2>3, <1>6
<1>11. ASSUME NEW i \in DOMAIN g, NEW s \in Streams, NEW k \in DOMAIN work[s],
              Waits(g[i]), Overlap(work[s][k], g[i])
       PROVE  \E l \in DOMAIN q[s] : q[s][l].id = i /\ k <= q[s][l].left
  <2>1. CASE i = id
    <3>1. s \in used
      BY <2>1, <1>11 DEF Overlap
    <3>2. PICK l \in DOMAIN q[s] : q[s][l].id = id /\ q[s][l].left = Len(work[s])
      BY <3>1, <1>6
    <3>3. k <= Len(work[s])
      BY <1>3
    <3>4. QED  BY <2>1, <3>2, <3>3
  <2>2. CASE i # id
    <3>1. PICK l \in DOMAIN multi[s] : multi[s][l].id = i /\ k <= multi[s][l].left
      BY <2>2, <1>1, <1>11
    <3>2. l \in DOMAIN q[s] /\ q[s][l] = multi[s][l]
      BY <1>6
    <3>3. QED  BY <3>1, <3>2
  <2>3. QED  BY <2>1, <2>2
<1>12. /\ \A i \in DOMAIN g : /\ g[i].cnt = Cardinality(On(q, i))
                              /\ g[i].status = "UNAVAILABLE_UNTIL_FREE" <=> g[i].cnt > 0
       /\ \A i \in DOMAIN g, s \in Streams : \A k \in DOMAIN work[s] :
            g[i].status = "UNAVAILABLE_UNTIL_FREE" /\ Overlap(work[s][k], g[i]) =>
              \E l \in DOMAIN q[s] : q[s][l].id = i /\ k <= q[s][l].left
  BY <1>9, <1>11 DEF Waits
<1>13. \A s \in Streams : \A k, l \in DOMAIN q[s] :
         q[s][k].id \in DOMAIN g /\ (q[s][k].id = q[s][l].id => k = l)
  BY ONLY <1>10
<1>14. QED  BY ONLY <1>5, <1>12, <1>13 DEF Queues

\* A block the program holds is in use, by the streams that are recorded.
LEMMA Held ==
  ASSUME IInv, NEW id \in held
  PROVE  /\ id \in DOMAIN info /\ Allocated(info[id]) /\ ~Waits(info[id])
         /\ info[id].cnt = 0 /\ info[id].used_streams \subseteq Streams
         /\ info[id].status # "OCCUPIED_BY_ALLOC_STREAM" => info[id].used_streams # {}
         /\ \A s \in Streams : \A k \in DOMAIN work[s] :
              Overlap(work[s][k], info[id]) => s \in info[id].used_streams
<1>1. /\ Typed(info) /\ Uses(info, held) /\ Queues(info, multi, work)
      /\ Foreseen(info, event, work, NoId)
  BY DEF IInv, Known
<1>2. /\ id \in DOMAIN info
      /\ info[id].status \in {"OCCUPIED_BY_ALLOC_STREAM", "OCCUPIED_BY_MULTI_STREAMS"}
      /\ info[id] \in Block /\ id # NoId
  BY <1>1, Constants DEF Uses, Typed
<1>3. Allocated(info[id]) /\ ~Waits(info[id])
  BY <1>2 DEF Allocated, Waits
<1>4. info[id].cnt = 0
  BY <1>1, <1>2, <1>3 DEF Queues, Waits, Block
<1>5. info[id].status # "OCCUPIED_BY_ALLOC_STREAM" => info[id].used_streams # {}
  BY <1>1, <1>2 DEF Uses
<1>6. info[id].used_streams \subseteq Streams
  BY <1>2 DEF Block
<1>7. QED  BY <1>1, <1>2, <1>3, <1>4, <1>5, <1>6 DEF Foreseen

\* FreeDataSpace of a block of several streams, or a borrowed one in use.
LEMMA FreeLaterKeeps ==
  ASSUME IInv, NEW id \in held, info[id].used_streams # {}, FreeWhenAllDone(id)
  PROVE  Kept(held \ {id}, multi')
<1>1. /\ id \in DOMAIN info /\ Allocated(info[id]) /\ ~Waits(info[id])
      /\ info[id].cnt = 0 /\ info[id].used_streams \subseteq Streams
      /\ \A s \in Streams : \A k \in DOMAIN work[s] :
           Overlap(work[s][k], info[id]) => s \in info[id].used_streams
  BY Held
<1>2. info[id] \in Block /\ info[id].cached_pool = NoTable
      /\ \A i \in DOMAIN info : Overlap(info[i], info[i])
  BY <1>1, InUse
<1>3. PICK status, cnt, used : /\ status = "UNAVAILABLE_UNTIL_FREE"
                               /\ used = info[id].used_streams
                               /\ cnt = Cardinality(used)
  OBVIOUS
<1>4. cnt \in Nat /\ status \in Statuses
  <2>1. IsFiniteSet(used)
    <3>1. IsFiniteSet(Streams)
      BY Constants, FS_Interval
    <3>2. QED  BY <1>1, <1>3, <3>1, FS_Subset
  <2>2. QED  BY <2>1, <1>3, FS_CardinalityType DEF Statuses
<1>5. PICK b : b = [info[id] EXCEPT !.status = status, !.cnt = cnt]
  OBVIOUS
<1>6. /\ b \in Block /\ Place(b) = Place(info[id]) /\ b.cached_pool = info[id].cached_pool
      /\ b.status = status /\ b.cnt = cnt /\ b.used_streams = info[id].used_streams
      /\ b.ptr = info[id].ptr /\ b.size = info[id].size
  BY ONLY <1>2, <1>4, <1>5 DEF Block, Place
<1>7. info' = [info EXCEPT ![id] = b]
  <2>1. info' = [info EXCEPT ![id].status = status, ![id].cnt = @ + cnt]
    BY <1>3 DEF FreeWhenAllDone
  <2>2. info[id].cnt + cnt = cnt
    BY <1>1, <1>4
  <2>3. QED  BY <2>1, <2>2, <1>1, <1>2, <1>5 DEF Block
<1>8. InPlace(info')
  <2>1. ChangedInUse(id, b, info')
    BY <1>1, <1>2, <1>3, <1>6, <1>7 DEF ChangedInUse, Allocated
  <2>2. QED  BY <2>1, InUseChanged
<1>9. DOMAIN info' = DOMAIN info /\ info'[id] = b
      /\ \A i \in DOMAIN info \ {id} : info'[i] = info[i]
  BY <1>1, <1>7
<1>10. multi' = QueuedFor(id, used) /\ UNCHANGED <<table, event>>
  BY <1>3 DEF FreeWhenAllDone, QueuedFor
<1>11. Queues(info', multi', work)
  <2>1. Waits(info'[id]) /\ info'[id].cnt = Cardinality(used)
        /\ info'[id].ptr = info[id].ptr /\ info'[id].size = info[id].size
    BY <1>3, <1>6, <1>9 DEF Waits
  <2>2. used \in SUBSET Streams /\ used # {}
    BY <1>1, <1>3
  <2>3. QED  BY <2>1, <2>2, <1>1, <1>3, <1>9, <1>10, QueueLonger
<1>12. Uses(info', held \ {id})
  <2>1. Uses(info, held) /\ info'[id].status = "UNAVAILABLE_UNTIL_FREE"
    BY <1>3, <1>6, <1>9 DEF IInv
  <2>2. QED  BY <2>1, <1>9 DEF Uses
<1>13. IdleStep
  BY <1>8 DEF InPlace, IdleStep
<1>14. Known(info', table', event', work, NoId)
  BY <1>8, <1>10 DEF InPlace
<1>15. QED  BY <1>8, <1>11, <1>12, <1>13, <1>14 DEF InPlace, Kept

\* What is left of IInv when id is freed.
FreeKept(id) ==
  /\ Typed(info') /\ Geometry(info', buffers, work)
  /\ \E lo, hi : Extents(info', lo, hi)
  /\ Known(info', table', event', work, NoId)
  /\ Uses(info', held \ {id}) /\ Queues(info', multi', work)
  /\ op' = op \/ \E by : op' = Aborted(by)
  /\ IdleStep

\* FreeDataSpace of a block of one stream.
LEMMA FreeNowKeeps ==
  ASSUME IInv, NEW id \in held, ~info[id].borrowed,
         info[id].status = "OCCUPIED_BY_ALLOC_STREAM",
         info[id].alloc_stream \notin Streams \ created, FreeToTable(id)
  PROVE  FreeKept(id)
<1>f. PICK s, status, ev, f :
        /\ s = info[id].alloc_stream
        /\ status = (IF s = kBlockingStream THEN "AVAILABLE_FOR_ALL_STREAM"
                     ELSE "AVAILABLE_FOR_ALLOC_STREAM")
        /\ ev = (IF s = kBlockingStream THEN event
                 ELSE With(event, id, [stream |-> s, left |-> Len(work[s])]))
        /\ f = [info EXCEPT ![id].status = status]
  OBVIOUS
<1>m. PICK m : m = [info |-> f, table |-> table, tbl |-> s, event |-> ev]
  OBVIOUS
<1>0. m.info = f /\ m.table = table /\ m.tbl = s /\ m.event = ev
  BY <1>m
<1>1. Cache(m, id) /\ multi' = multi /\ op' = op
  <2>1. m = [[info |-> info, table |-> table, tbl |-> s, event |-> ev] EXCEPT
               !.info = [info EXCEPT ![id].status = status]]
    BY <1>f, <1>m
  <2>2. QED  BY <2>1, <1>f DEF FreeToTable
<1>2. /\ id \in DOMAIN info /\ Allocated(info[id]) /\ ~Waits(info[id])
      /\ info[id].cnt = 0
      /\ \A t \in Streams : \A k \in DOMAIN work[t] :
           Overlap(work[t][k], info[id]) => t \in info[id].used_streams
  BY Held
<1>3. /\ info[id] \in Block /\ info[id].cached_pool = NoTable /\ id \notin DOMAIN event
      /\ \A t \in Tables : Entry(id, info[id]) \notin table[t]
  BY <1>2, InUse
<1>4. /\ DOMAIN table = Tables /\ Uses(info, held) /\ Queues(info, multi, work)
      /\ Typed(info) /\ work \in [Streams -> Seq(Kernel)]
  BY DEF IInv, Known, InTables
<1>5. s \in Tables /\ status \in Statuses /\ info[id].used_streams \subseteq {s}
      /\ info[id].used_streams \subseteq Streams
  BY <1>f, <1>2, <1>3, <1>4
     DEF Block, AnyStream, Tables, AllStreams, kBlockingStream, Statuses, Uses
<1>6. PICK b : b = [info[id] EXCEPT !.status = status]
  OBVIOUS
<1>7. /\ b \in Block /\ Place(b) = Place(info[id]) /\ b.cached_pool = info[id].cached_pool
      /\ b.status = status /\ b.cnt = info[id].cnt
      /\ b.ptr = info[id].ptr /\ b.size = info[id].size
  BY ONLY <1>3, <1>5, <1>6 DEF Block, Place
<1>8. f[id] = b /\ DOMAIN f = DOMAIN info /\ \A i \in DOMAIN info \ {id} : f[i] = info[i]
  BY <1>f, <1>2, <1>6
<1>9. ~Allocated(f[id]) /\ ~Waits(f[id])
  BY <1>f, <1>7, <1>8 DEF Allocated, Waits
<1>10. Starts(m, id)
  <2>1. /\ DOMAIN m.event \ {id} = DOMAIN event \ {id}
        /\ \A i \in DOMAIN event \ {id} : m.event[i] = event[i]
        /\ EventFor(m.event, id, m.tbl)
        /\ id \in DOMAIN m.event => /\ s \in Streams
                                    /\ m.event[id] = [stream |-> s, left |-> Len(work[s])]
        /\ s \in Streams => id \in DOMAIN m.event
    <3>1. CASE s = kBlockingStream
      <4>1. m.event = event /\ m.tbl = AllStreams /\ s \notin Streams
        <5>1. m.event = event
          BY <3>1, <1>0, <1>f
        <5>2. s = 0 /\ AllStreams = 0 /\ s \notin 1..NStreams
          BY <3>1, Constants
        <5>3. QED  BY <5>1, <5>2, <1>0, Constants
      <4>2. QED  BY <4>1, <1>3 DEF EventFor
    <3>2. CASE s # kBlockingStream
      <4>1. ev = With(event, id, [stream |-> s, left |-> Len(work[s])])
        BY <3>2, <1>f
      <4>2. /\ DOMAIN ev = DOMAIN event \cup {id}
            /\ ev[id] = [stream |-> s, left |-> Len(work[s])]
            /\ \A i \in DOMAIN event : i # id => ev[i] = event[i]
        BY <4>1 DEF With
      <4>3. s \in Streams /\ s # AllStreams
        BY <3>2, <1>5, Constants DEF Tables
      <4>4. QED  BY <4>2, <4>3, <1>0 DEF EventFor
    <3>3. QED  BY <3>1, <3>2
  <2>2. ASSUME id \in DOMAIN m.event
        PROVE  /\ m.event[id] \in Event
               /\ m.event[id].left <= Len(work[m.event[id].stream])
    <3>1. s \in Streams /\ m.event[id] = [stream |-> s, left |-> Len(work[s])]
      BY <2>1, <2>2
    <3>2. work[s] \in Seq(Kernel)
      BY <3>1, <1>4
    <3>3. Len(work[s]) \in Nat
      BY <3>2
    <3>4. QED  BY <3>1, <3>3 DEF Event
  <2>3. ASSUME NEW t \in Streams, NEW k \in DOMAIN work[t], Overlap(work[t][k], info[id])
        PROVE  t = m.tbl /\ k <= m.event[id].left
    <3>1. t = s
      BY <1>2, <1>5, <2>3
    <3>2. m.event[id].left = Len(work[s])
      BY <2>1, <3>1
    <3>3. work[s] \in Seq(Kernel)
      BY <3>1, <1>4
    <3>4. k <= Len(work[s])
      BY <3>1, <3>3, <2>3
    <3>5. QED  BY <3>1, <3>2, <3>4, <1>0
  <2>4. \A t \in Tables : m.table[t] = table[t] \ {Entry(id, info[id])}
    BY <1>0, <1>3
  <2>5. QED  BY <1>0, <1>2, <1>3, <1>4, <1>5, <1>7, <1>8, <1>9, <2>1, <2>2, <2>3, <2>4
             DEF Starts
<1>11. Queues(m.info, multi, work)
  <2>1. SameWaits(info, f)
    BY <1>2, <1>7, <1>8, <1>9 DEF SameWaits
  <2>2. QED  BY <2>1, <1>0, <1>4, QueuesKept
<1>12. CacheKept(id, s, held \ {id}, multi)
  <2>1. held \ {id} \in SUBSET held /\ id \notin held \ {id}
    OBVIOUS
  <2>2. QED  BY <2>1, <1>0, <1>1, <1>10, <1>11, Caching
<1>13. QED  BY <1>1, <1>12 DEF CacheKept, FreeKept, NothingGone, IdleStep

\* FreeDataSpace of a borrowed block that nobody used.
LEMMA FreeReturnsKeeps ==
  ASSUME IInv, NEW id \in held, info[id].borrowed, info[id].used_streams = {},
         FreeBorrowed(id)
  PROVE  FreeKept(id)
<1>1. info' = Without(info, {id}) /\ UNCHANGED <<table, event, multi, op>>
  BY DEF FreeBorrowed
<1>2. /\ id \in DOMAIN info /\ Allocated(info[id]) /\ ~Waits(info[id])
      /\ \A s \in Streams : \A k \in DOMAIN work[s] : ~Overlap(work[s][k], info[id])
  BY Held
<1>3. /\ info[id] \in Block /\ id \notin DOMAIN event
      /\ \A t \in Tables : Entry(id, info[id]) \notin table[t]
      /\ \A i \in DOMAIN info : Overlap(info[i], info[i])
  BY <1>2, InUse
<1>4. DOMAIN table = Tables /\ Lent(info)
  BY DEF IInv, Known, InTables, Geometry
<1>5. Unused({id}, table)
  <2>1. ~IsSplit(info[id])
    BY <1>2, <1>4 DEF Lent
  <2>2. \A t \in Tables : table[t] = table[t] \ {Entry(i, info[i]) : i \in {id}}
    BY <1>3
  <2>3. QED  BY <1>2, <1>3, <1>4, <2>1, <2>2 DEF Unused
<1>6. GoneFrom(info', {id}, table)
  BY <1>1, <1>5, BlocksGone
<1>7. DOMAIN info' = DOMAIN info \ {id} /\ \A i \in DOMAIN info' : info'[i] = info[i]
  BY <1>6 DEF GoneFrom
<1>8. IdleStep
  BY <1>2, <1>3, <1>7 DEF IdleStep, Touched
<1>9. Queues(info', multi', work) /\ Uses(info', held \ {id})
      /\ Known(info', table', event', work, NoId)
  BY <1>1, <1>2, <1>6 DEF GoneFrom
<1>10. QED  BY <1>1, <1>6, <1>8, <1>9 DEF GoneFrom, FreeKept

\* FreeDataSpace keeps the invariant.
LEMMA FreeKeeps ==
  ASSUME IInv, NEW id, FreeDataSpace(id)
  PROVE  IInv' /\ FreshStep /\ IdleStep
<1>1. /\ op = Idle /\ id \in held /\ held' = held \ {id}
      /\ created' = created /\ buffers' = buffers /\ work' = work
  BY DEF FreeDataSpace
<1>2. IF info[id].borrowed THEN FreeBorrowed(id)
      ELSE IF info[id].status = "OCCUPIED_BY_ALLOC_STREAM" THEN FreeToTable(id)
      ELSE FreeWhenAllDone(id)
  BY DEF FreeDataSpace
<1>3. FreeKept(id)
  <2>1. CASE info[id].used_streams # {} /\ FreeWhenAllDone(id)
    <3>1. Kept(held \ {id}, multi') /\ op' = op
      BY <1>1, <2>1, FreeLaterKeeps DEF FreeWhenAllDone
    <3>2. QED  BY <3>1 DEF Kept, FreeKept
  <2>2. CASE info[id].borrowed /\ info[id].used_streams = {}
    BY <1>1, <1>2, <2>2, FreeReturnsKeeps
  <2>3. CASE ~info[id].borrowed /\ info[id].status = "OCCUPIED_BY_ALLOC_STREAM"
    <3>1. FreeToTable(id)
      BY <1>2, <2>3
    <3>2. CASE info[id].alloc_stream \notin Streams \ created
      BY <1>1, <2>3, <3>1, <3>2, FreeNowKeeps
    <3>3. CASE info[id].alloc_stream \in Streams \ created
      <4>1. /\ \E by : op' = Aborted(by)
            /\ info' = info /\ table' = table /\ event' = event /\ multi' = multi
        BY <3>1, <3>3 DEF FreeToTable
      <4>2. Uses(info, held \ {id})
        BY DEF IInv, Uses
      <4>3. QED  BY <4>1, <4>2, IdleAnyway DEF IInv, FreeKept
    <3>4. QED  BY <3>2, <3>3
  <2>4. CASE ~info[id].borrowed /\ info[id].status # "OCCUPIED_BY_ALLOC_STREAM"
    <3>1. info[id].used_streams # {}
      BY <1>1, <2>4, Held
    <3>2. QED  BY <1>2, <2>1, <2>4, <3>1
  <2>5. QED  BY <1>2, <2>1, <2>2, <2>3, <2>4 DEF FreeBorrowed
<1>4. OpOK(op', info', buffers', work')
  BY <1>1, <1>3 DEF FreeKept, OpOK
<1>5. IInv'
  <2>1. (work \in [Streams -> Seq(Kernel)])' /\ (created \subseteq Streams)'
    BY <1>1 DEF IInv
  <2>2. QED  BY <1>1, <1>3, <1>4, <2>1 DEF FreeKept, IInv
<1>6. FreshStep /\ IdleStep
  BY <1>1, <1>3 DEF FreeKept, FreshStep
<1>7. QED  BY <1>5, <1>6

-----------------------------------------------------------------------------
(* The GPU *)

\* Complete keeps the invariant: kernels and events of a stream move up together.
LEMMA CompleteKeeps ==
  ASSUME IInv, NEW s \in Streams, Complete(s)
  PROVE  IInv' /\ FreshStep /\ IdleStep
<1>0. /\ work[s] # << >> /\ work' = [work EXCEPT ![s] = Tail(work[s])]
      /\ event' = [i \in DOMAIN event |->
                     IF event[i].stream # s THEN event[i]
                     ELSE [event[i] EXCEPT !.left = Advance(event[i].left)]]
      /\ multi' = [multi EXCEPT ![s] =
                     [k \in DOMAIN multi[s] |->
                        [multi[s][k] EXCEPT !.left = Advance(multi[s][k].left)]]]
      /\ info' = info /\ table' = table /\ created' = created /\ op' = op
      /\ held' = held /\ buffers' = buffers
  <2>1. /\ work[s] # << >> /\ work' = [work EXCEPT ![s] = Tail(work[s])]
        /\ event' = [i \in DOMAIN event |->
                       IF event[i].stream # s THEN event[i]
                       ELSE [event[i] EXCEPT !.left = Advance(event[i].left)]]
    BY DEF Complete
  <2>2. multi' = [multi EXCEPT ![s] =
                    [k \in DOMAIN multi[s] |->
                       [multi[s][k] EXCEPT !.left = Advance(multi[s][k].left)]]]
    BY DEF Complete
  <2>3. /\ info' = info /\ table' = table /\ created' = created /\ op' = op
        /\ held' = held /\ buffers' = buffers
    BY DEF Complete
  <2>4. QED  BY ONLY <2>1, <2>2, <2>3
<1>1. /\ Typed(info) /\ Geometry(info, buffers, work) /\ InTables(info, table)
      /\ StatusesAgree(info, NoId) /\ EventsTyped(info, event, work)
      /\ EventsAgree(info, event, NoId) /\ Foreseen(info, event, work, NoId)
      /\ Merged(info, NoId) /\ work \in [Streams -> Seq(Kernel)]
      /\ Uses(info, held) /\ Queues(info, multi, work)
      /\ OpOK(op, info, buffers, work)
  BY DEF IInv, Known
<1>a. \A n \in Nat : Advance(n) \in Nat /\ Advance(n) <= n
                     /\ \A k \in Nat : k + 1 <= n => k <= Advance(n)
                     /\ \A l \in Nat : l > 0 /\ n <= l => Advance(n) <= l - 1
  BY DEF Advance
\* Kernels move up by one.
<1>2. /\ work' \in [Streams -> Seq(Kernel)]
      /\ Len(work[s]) \in Nat /\ Len(work[s]) > 0 /\ Len(work'[s]) = Len(work[s]) - 1
      /\ \A t \in Streams \ {s} : work'[t] = work[t]
      /\ \A k \in DOMAIN work'[s] : /\ k \in Nat /\ k + 1 \in DOMAIN work[s]
                                    /\ work'[s][k] = work[s][k + 1]
  <2>1. work[s] \in Seq(Kernel) /\ work[s] # << >>
    BY <1>0, <1>1
  <2>2. PICK w : w = Tail(work[s])
    OBVIOUS
  <2>3. /\ w \in Seq(Kernel) /\ Len(work[s]) \in Nat /\ Len(work[s]) > 0
        /\ Len(w) = Len(work[s]) - 1
        /\ \A k \in DOMAIN w : /\ k \in Nat /\ k + 1 \in DOMAIN work[s]
                               /\ w[k] = work[s][k + 1]
    BY ONLY <2>1, <2>2
  <2>4. QED  BY <2>2, <2>3, <1>0, <1>1
\* Events wait for one kernel less.
<1>3. /\ DOMAIN event' = DOMAIN event
      /\ \A i \in DOMAIN event :
           /\ event'[i] \in Event /\ event'[i].stream = event[i].stream
           /\ event[i].stream # s => event'[i] = event[i]
           /\ event[i].stream = s => event'[i].left = Advance(event[i].left)
  <2>1. DOMAIN event' = DOMAIN event
    BY <1>0
  <2>2. ASSUME NEW i \in DOMAIN event
        PROVE  /\ event'[i] \in Event /\ event'[i].stream = event[i].stream
               /\ event[i].stream # s => event'[i] = event[i]
               /\ event[i].stream = s => event'[i].left = Advance(event[i].left)
    <3>1. event[i] \in Event
      BY <1>1 DEF EventsTyped
    <3>2. event'[i] = IF event[i].stream # s THEN event[i]
                      ELSE [event[i] EXCEPT !.left = Advance(event[i].left)]
      BY <1>0
    <3>3. Advance(event[i].left) \in Nat
      BY <1>a, <3>1 DEF Event
    <3>4. QED  BY ONLY <3>1, <3>2, <3>3 DEF Event
  <2>3. QED  BY <2>1, <2>2
<1>4. /\ multi' \in [Streams -> Seq([id : Ids, left : Nat])]
      /\ \A t \in Streams \ {s} : multi'[t] = multi[t]
      /\ DOMAIN multi'[s] = DOMAIN multi[s]
      /\ \A k \in DOMAIN multi[s] : /\ multi[s][k].left \in Nat
                                    /\ multi'[s][k].id = multi[s][k].id
                                    /\ multi'[s][k].left = Advance(multi[s][k].left)
  <2>1. multi \in [Streams -> Seq([id : Ids, left : Nat])]
    BY <1>1 DEF Queues
  <2>2. multi[s] \in Seq([id : Ids, left : Nat])
    BY <2>1
  <2>3. PICK n, q : /\ n = Len(multi[s])
                    /\ q = [k \in DOMAIN multi[s] |->
                              [multi[s][k] EXCEPT !.left = Advance(multi[s][k].left)]]
    OBVIOUS
  <2>4. n \in Nat /\ DOMAIN multi[s] = 1..n
    BY <2>2, <2>3
  <2>5. ASSUME NEW k \in 1..n
        PROVE  /\ q[k] \in [id : Ids, left : Nat] /\ multi[s][k].left \in Nat
               /\ q[k].id = multi[s][k].id /\ q[k].left = Advance(multi[s][k].left)
    <3>1. multi[s][k] \in [id : Ids, left : Nat]
      <4>1. PICK R : R = [id : Ids, left : Nat]
        OBVIOUS
      <4>2. multi[s] \in Seq(R) /\ k \in 1..Len(multi[s])
        BY <4>1, <2>2, <2>3
      <4>4. multi[s][k] \in R
        BY ONLY <4>2
      <4>5. QED  BY <4>1, <4>4
    <3>2. q[k] = [multi[s][k] EXCEPT !.left = Advance(multi[s][k].left)]
      BY <2>3, <2>4
    <3>3. Advance(multi[s][k].left) \in Nat
      BY <1>a, <3>1
    <3>4. QED  BY ONLY <3>1, <3>2, <3>3
  <2>6. q \in [1..n -> [id : Ids, left : Nat]]
    BY <2>3, <2>4, <2>5
  <2>7. q \in Seq([id : Ids, left : Nat])
    <3>1. PICK R : R = [id : Ids, left : Nat]
      OBVIOUS
    <3>2. q \in [1..n -> R]
      BY <2>6, <3>1
    <3>4. q \in Seq(R)
      BY ONLY <2>4, <3>2, SeqDef
    <3>5. QED  BY <3>1, <3>4
  <2>8. multi' = [multi EXCEPT ![s] = q]
    BY <1>0, <2>3
  <2>9. QED  BY <2>1, <2>3, <2>4, <2>5, <2>7, <2>8
<1>5. Geometry(info, buffers, work')
  <2>1. ASSUME NEW t \in Streams, NEW k \in DOMAIN work'[t], NEW a \in Int,
               Holds(work'[t][k], a)
        PROVE  \E i \in DOMAIN info : Holds(info[i], a)
    <3>1. PICK l \in DOMAIN work[t] : work'[t][k] = work[t][l]
      BY <1>2
    <3>2. QED  BY <3>1, <2>1, <1>1 DEF Geometry, Backed
  <2>2. QED  BY <2>1, <1>1 DEF Geometry, Backed
<1>6. EventsTyped(info, event', work')
  <2>1. ASSUME NEW i \in DOMAIN event
        PROVE  event'[i].left <= Len(work'[event'[i].stream])
    <3>1. event[i].left <= Len(work[event[i].stream]) /\ event[i] \in Event
      BY <1>1 DEF EventsTyped
    <3>2. event[i].left \in Nat /\ event[i].stream \in Streams
      BY <3>1 DEF Event
    <3>3. CASE event[i].stream = s
      <4>1. /\ event'[i].left = Advance(event[i].left) /\ event'[i].stream = s
            /\ event[i].left <= Len(work[s])
        BY <3>1, <3>3, <1>3
      <4>2. Advance(event[i].left) <= Len(work[s]) - 1
        <5>1. /\ event[i].left \in Nat /\ Len(work[s]) \in Nat /\ Len(work[s]) > 0
              /\ event[i].left <= Len(work[s])
          BY <4>1, <3>2, <1>2
        <5>2. PICK a, b : a = event[i].left /\ b = Len(work[s])
          OBVIOUS
        <5>3. a \in Nat /\ b \in Nat /\ b > 0 /\ a <= b
          BY ONLY <5>1, <5>2
        <5>4. Advance(a) <= b - 1
          BY ONLY <5>3 DEF Advance
        <5>5. QED  BY ONLY <5>2, <5>4
      <4>3. QED  BY <4>1, <4>2, <1>2
    <3>4. CASE event[i].stream # s
      BY <3>1, <3>2, <3>4, <1>2, <1>3
    <3>5. QED  BY <3>3, <3>4
  <2>2. QED  BY <2>1, <1>1, <1>3 DEF EventsTyped
<1>7. EventsAgree(info, event', NoId)
  BY <1>1, <1>3 DEF EventsAgree
<1>8. Foreseen(info, event', work', NoId)
  <2> SUFFICES ASSUME NEW i \in DOMAIN info \ {NoId}, NEW t \in Streams,
                      NEW k \in DOMAIN work'[t], Overlap(work'[t][k], info[i])
               PROVE  IF Allocated(info[i]) THEN t \in info[i].used_streams
                      ELSE t = info[i].cached_pool /\ k <= event'[i].left
    BY DEF Foreseen
  <2>1. CASE t = s
    <3>1. k + 1 \in DOMAIN work[s] /\ Overlap(work[s][k + 1], info[i]) /\ k \in Nat
      BY <2>1, <1>2
    <3>2. IF Allocated(info[i]) THEN s \in info[i].used_streams
          ELSE s = info[i].cached_pool /\ k + 1 <= event[i].left
      BY <3>1, <1>1 DEF Foreseen
    <3>3. ASSUME ~Allocated(info[i])
          PROVE  k <= event'[i].left
      <4>1. i \in DOMAIN event /\ event[i].stream = s
        BY <3>2, <3>3, <1>1 DEF EventsAgree
      <4>2. event[i].left \in Nat
        BY <4>1, <1>1 DEF EventsTyped, Event
      <4>3. QED  BY <3>1, <3>2, <3>3, <4>1, <4>2, <1>a, <1>3
    <3>4. QED  BY <2>1, <3>2, <3>3
  <2>2. CASE t # s
    <3>1. k \in DOMAIN work[t] /\ Overlap(work[t][k], info[i])
      BY <2>2, <1>2
    <3>2. IF Allocated(info[i]) THEN t \in info[i].used_streams
          ELSE t = info[i].cached_pool /\ k <= event[i].left
      BY <3>1, <1>1 DEF Foreseen
    <3>3. ASSUME ~Allocated(info[i])
          PROVE  event'[i] = event[i]
      <4>1. i \in DOMAIN event /\ event[i].stream = t
        BY <3>2, <3>3, <1>1 DEF EventsAgree
      <4>2. QED  BY <2>2, <4>1, <1>3
    <3>4. QED  BY <3>2, <3>3
  <2>3. QED  BY <2>1, <2>2
<1>9. Queues(info, multi', work')
  <2>1. \A i : On(multi', i) = On(multi, i)
    <3> SUFFICES ASSUME NEW i, NEW t \in Streams
                 PROVE  (\E k \in DOMAIN multi'[t] : multi'[t][k].id = i) <=>
                        \E k \in DOMAIN multi[t] : multi[t][k].id = i
      BY DEF On
    <3>1. QED  BY <1>4
  <2>2. \A i \in DOMAIN info : /\ info[i].cnt = Cardinality(On(multi', i))
                               /\ info[i].status = "UNAVAILABLE_UNTIL_FREE" <=> info[i].cnt > 0
    BY <1>1, <2>1 DEF Queues
  <2>3. \A t \in Streams : \A k, l \in DOMAIN multi'[t] :
          /\ multi'[t][k].id \in DOMAIN info
          /\ multi'[t][k].id = multi'[t][l].id => k = l
    <3> SUFFICES ASSUME NEW t \in Streams, NEW k \in DOMAIN multi'[t],
                        NEW l \in DOMAIN multi'[t]
                 PROVE  /\ multi'[t][k].id \in DOMAIN info
                        /\ multi'[t][k].id = multi'[t][l].id => k = l
      OBVIOUS
    <3>1. /\ k \in DOMAIN multi[t] /\ multi'[t][k].id = multi[t][k].id
          /\ l \in DOMAIN multi[t] /\ multi'[t][l].id = multi[t][l].id
      BY <1>4
    <3>2. QED  BY <3>1, <1>1 DEF Queues
  <2>4. ASSUME NEW i \in DOMAIN info, NEW t \in Streams, NEW k \in DOMAIN work'[t],
               info[i].status = "UNAVAILABLE_UNTIL_FREE", Overlap(work'[t][k], info[i])
        PROVE  \E l \in DOMAIN multi'[t] : multi'[t][l].id = i /\ k <= multi'[t][l].left
    <3>1. CASE t = s
      <4>1. k + 1 \in DOMAIN work[s] /\ Overlap(work[s][k + 1], info[i]) /\ k \in Nat
        BY <2>4, <3>1, <1>2
      <4>2. PICK l \in DOMAIN multi[s] : multi[s][l].id = i /\ k + 1 <= multi[s][l].left
        BY <2>4, <4>1, <1>1 DEF Queues
      <4>3. k <= multi'[s][l].left /\ multi'[s][l].id = i
        BY <4>1, <4>2, <1>a, <1>4
      <4>4. QED  BY <3>1, <4>3, <1>4
    <3>2. CASE t # s
      <4>1. k \in DOMAIN work[t] /\ Overlap(work[t][k], info[i])
        BY <2>4, <3>2, <1>2
      <4>2. PICK l \in DOMAIN multi[t] : multi[t][l].id = i /\ k <= multi[t][l].left
        BY <2>4, <4>1, <1>1 DEF Queues
      <4>3. multi'[t] = multi[t]
        BY <3>2, <1>4
      <4>4. QED  BY <4>2, <4>3
    <3>3. QED  BY <3>1, <3>2
  <2>5. QED  BY <1>4, <2>2, <2>3, <2>4 DEF Queues
<1>10. OpOK(op, info, buffers, work')
  BY <1>0, <1>1 DEF OpOK
<1>11. IInv'
  <2>1. (created \subseteq Streams)' /\ (\E lo, hi : Extents(info, lo, hi))'
    BY <1>0 DEF IInv
  <2>2. QED  BY <2>1, <1>0, <1>1, <1>2, <1>5, <1>6, <1>7, <1>8, <1>9, <1>10 DEF IInv, Known
<1>12. FreshStep /\ IdleStep
  BY <1>0, IdleAnyway DEF FreshStep
<1>13. QED  BY <1>11, <1>12

-----------------------------------------------------------------------------
(* Memory goes back to the device *)

\* Whole blocks that are in the table of all streams.
Releasable(ids) ==
  /\ ids \subseteq DOMAIN info
  /\ \A i \in ids : info[i].cached_pool = AllStreams /\ ~IsSplit(info[i])

Freed(ids) == [table EXCEPT ![AllStreams] = @ \ {Entry(i, info[i]) : i \in ids}]

\* Unsplit entries of the table of all streams are blocks that may be given back.
LEMMA EntriesOf ==
  ASSUME IInv, NEW E \in SUBSET table[AllStreams],
         \A e \in E : ~IsSplit(info[e.id])
  PROVE  Releasable(IdsOf(E)) /\ E = {Entry(i, info[i]) : i \in IdsOf(E)}
<1>1. \A e \in E : /\ e.id \in DOMAIN info /\ info[e.id].cached_pool = AllStreams
                   /\ e = Entry(e.id, info[e.id])
  <2>1. InTables(info, table) /\ AllStreams \in Tables
    BY DEF IInv, Known, Tables
  <2>2. QED  BY <2>1 DEF InTables
<1>2. \A i \in IdsOf(E) : \E e \in E : i = e.id
  BY DEF IdsOf
<1>3. Releasable(IdsOf(E))
  BY <1>1, <1>2 DEF Releasable
<1>4. \A e \in E : e.id \in IdsOf(E)
  BY DEF IdsOf
<1>5. \A i \in IdsOf(E) : Entry(i, info[i]) \in E
  BY <1>1, <1>2
<1>6. QED  BY <1>1, <1>3, <1>4, <1>5

\* Giving them back disturbs nothing else.
LEMMA ReleasedGone ==
  ASSUME IInv, NEW ids, Releasable(ids)
  PROVE  /\ GoneFrom(Without(info, ids), ids, Freed(ids))
         /\ \A i \in ids : /\ ~Waits(info[i]) /\ i \notin held
                           /\ \A s \in Streams : Touched(s, info[i]) = {}
         /\ \A i \in DOMAIN info : Overlap(info[i], info[i])
<1>1. /\ Typed(info) /\ InTables(info, table) /\ StatusesAgree(info, NoId)
      /\ EventsAgree(info, event, NoId) /\ Uses(info, held)
  BY DEF IInv, Known
<1>2. /\ AllStreams \notin Streams /\ AllStreams # NoTable /\ AllStreams \in Tables
      /\ NoId \notin DOMAIN info
  BY <1>1, Constants DEF Tables, Typed
<1>3. ASSUME NEW i \in ids
      PROVE  /\ i \in DOMAIN info \ {NoId} /\ ~Allocated(info[i]) /\ i \notin DOMAIN event
             /\ ~Waits(info[i]) /\ i \notin held /\ ~IsSplit(info[i])
             /\ \A s \in Streams : \A k \in DOMAIN work[s] : ~Overlap(work[s][k], info[i])
  <2>1. i \in DOMAIN info \ {NoId} /\ info[i].cached_pool = AllStreams /\ ~IsSplit(info[i])
    BY <1>2 DEF Releasable
  <2>2. ~Allocated(info[i]) /\ i \notin DOMAIN event
    BY <2>1, <1>1, <1>2 DEF StatusesAgree, EventsAgree
  <2>3. ~Waits(info[i]) /\ i \notin held
    BY <2>2, <1>1 DEF Waits, Allocated, Uses
  <2>4. \A s \in Streams : \A k \in DOMAIN work[s] : ~Overlap(work[s][k], info[i])
    BY <2>1, <2>2, <1>2, FreeTouched
  <2>5. QED  BY <2>1, <2>2, <2>3, <2>4
<1>4. Unused(ids, Freed(ids))
  <2>1. DOMAIN table = Tables
    BY <1>1 DEF InTables
  <2>2. DOMAIN Freed(ids) = Tables
    BY <2>1 DEF Freed
  <2>3. \A t \in Tables : Freed(ids)[t] = table[t] \ {Entry(i, info[i]) : i \in ids}
    <3> SUFFICES ASSUME NEW t \in Tables
                 PROVE  Freed(ids)[t] = table[t] \ {Entry(i, info[i]) : i \in ids}
      OBVIOUS
    <3>1. CASE t = AllStreams
      BY <2>1, <3>1 DEF Freed
    <3>2. CASE t # AllStreams
      <4>1. Freed(ids)[t] = table[t]
        BY <2>1, <3>2 DEF Freed
      <4>2. \A i \in ids : Entry(i, info[i]).id = i
        BY DEF Entry
      <4>3. \A i \in ids : Entry(i, info[i]) \notin table[t]
        BY <3>2, <4>2, <1>1 DEF InTables, Releasable
      <4>4. QED  BY <4>1, <4>3
    <3>3. QED  BY <3>1, <3>2
  <2>4. QED  BY <2>2, <2>3, <1>3 DEF Unused, Releasable
<1>5. \A i \in ids : \A s \in Streams : Touched(s, info[i]) = {}
  BY <1>3 DEF Touched
<1>6. \A i \in DOMAIN info : Overlap(info[i], info[i])
  BY <1>1 DEF Typed, Block, Overlap
<1>7. QED  BY <1>3, <1>4, <1>5, <1>6, BlocksGone

\* Nothing but Releasable blocks goes.
LEMMA ReturnedIdle ==
  ASSUME IInv, NEW ids, Releasable(ids),
         \A i \in DOMAIN info \ ids : i \in DOMAIN info' /\ info'[i] = info[i]
  PROVE  IdleStep
BY ReleasedGone DEF IdleStep

EmptyStep ==
  op.call = "empty" /\ op' = Idle =>
    /\ \A s \in Streams : table'[s] = {}
    /\ \A e \in table'[AllStreams] : IsSplit(info'[e.id])

\* ReleaseAll keeps the invariant, and empties the cache.
LEMMA ReleaseAllKeeps ==
  ASSUME IInv, ReleaseAll
  PROVE  IInv' /\ FreshStep /\ IdleStep /\ EmptyStep
<1>0. /\ op.call = "empty" /\ WatchDone /\ op' = Idle
      /\ info' = Without(info, IdsOf(Unsplit))
      /\ table' = [table EXCEPT ![AllStreams] = @ \ Unsplit]
      /\ created' = created /\ event' = event /\ multi' = multi /\ held' = held
      /\ buffers' = buffers /\ work' = work
  BY DEF ReleaseAll
<1>f. PICK ids : ids = IdsOf(Unsplit)
  OBVIOUS
<1>1. Releasable(ids) /\ Unsplit = {Entry(i, info[i]) : i \in ids}
  <2>1. Unsplit \in SUBSET table[AllStreams] /\ \A e \in Unsplit : ~IsSplit(info[e.id])
    BY DEF Unsplit
  <2>2. QED  BY <1>f, <2>1, EntriesOf
<1>2. table' = Freed(ids)
  BY <1>0, <1>1 DEF Freed
<1>3. GoneFrom(info', ids, table')
  BY <1>0, <1>1, <1>2, <1>f, ReleasedGone
<1>4. /\ \A i \in ids : ~Waits(info[i]) /\ i \notin held
      /\ DOMAIN info' = DOMAIN info \ ids /\ \A i \in DOMAIN info' : info'[i] = info[i]
  BY <1>1, <1>3, ReleasedGone DEF GoneFrom
<1>5. Uses(info', held) /\ Queues(info', multi, work) /\ OpOK(op', info', buffers, work)
  <2>1. held \subseteq held \ ids
    BY <1>4
  <2>2. QED  BY <2>1, <1>0, <1>3, <1>4 DEF GoneFrom, OpOK
<1>6. IInv'
  <2>1. (work \in [Streams -> Seq(Kernel)])' /\ (created \subseteq Streams)'
    BY <1>0 DEF IInv
  <2>2. QED  BY <2>1, <1>0, <1>3, <1>5 DEF GoneFrom, IInv
<1>7. FreshStep /\ IdleStep
  BY <1>0, <1>1, <1>4, ReturnedIdle DEF FreshStep
<1>8. EmptyStep
  <2>1. /\ InTables(info, table) /\ EventsTyped(info, event, work)
        /\ EventsAgree(info, event, NoId) /\ NoId \notin DOMAIN info
        /\ OpOK(op, info, buffers, work) /\ work \in [Streams -> Seq(Kernel)]
    BY Constants DEF IInv, Known, Typed
  <2>2. /\ op.at \in Nat /\ \A s \in Streams : work[s] = << >>
        /\ \A i \in DOMAIN info : info[i].cached_pool \in Streams =>
             op.at <= info[i].cached_pool
    BY <1>0, <2>1 DEF OpOK, Idle, Aborted
  <2>3. \A i \in DOMAIN info : info[i].cached_pool \notin Streams
    <3> SUFFICES ASSUME NEW i \in DOMAIN info, info[i].cached_pool \in Streams
                 PROVE  FALSE
      OBVIOUS
    <3>1. i \in DOMAIN event /\ event[i].stream = info[i].cached_pool
      BY <2>1 DEF EventsAgree
    <3>2. event[i].left = 0
      <4>1. event[i] \in Event /\ event[i].left <= Len(work[event[i].stream])
        BY <3>1, <2>1 DEF EventsTyped
      <4>2. Len(work[event[i].stream]) = 0
        BY <2>2, <3>1
      <4>3. QED  BY <4>1, <4>2 DEF Event
    <3>3. /\ NStreams \in Nat \ {0} /\ info[i].cached_pool \in 1..NStreams
          /\ op.at <= info[i].cached_pool
      BY Constants, <2>2
    <3>4. i \in ReadyIds(info[i].cached_pool)
      BY <3>1, <3>2, <3>3 DEF ReadyIds, Turn
    <3>5. info[i].cached_pool \in Ahead
      BY <2>2, <3>3, <3>4 DEF Ahead, Positions
    <3>6. Watching
      BY <1>0, <2>2, <3>3 DEF Watching, WatchDone
    <3>7. QED  BY <1>0, <3>5, <3>6 DEF WatchDone
  <2>4. Streams \subseteq Tables /\ AllStreams \in Tables /\ AllStreams \notin Streams
        /\ DOMAIN table = Tables
    BY <2>1, Constants DEF Tables, InTables
  <2>5. ASSUME NEW s \in Streams
        PROVE  table'[s] = {}
    <3>1. table[s] = {}
      BY <2>1, <2>3, <2>4 DEF InTables
    <3>2. QED  BY <1>0, <2>4, <3>1
  <2>6. ASSUME NEW e \in table'[AllStreams]
        PROVE  IsSplit(info'[e.id])
    <3>1. e \in table[AllStreams] /\ e \notin Unsplit
      BY <1>0, <2>4, <2>6
    <3>2. IsSplit(info[e.id]) /\ e.id \in DOMAIN info
      BY <3>1, <2>1, <2>4 DEF Unsplit, InTables
    <3>3. e.id \notin ids
      BY <3>2, <1>1 DEF Releasable
    <3>4. QED  BY <3>2, <3>3, <1>4
  <2>7. QED  BY <2>5, <2>6 DEF EmptyStep
<1>9. QED  BY <1>6, <1>7, <1>8

\* A block that is as large as max_split_size is whole: a part is smaller than that.
LEMMA PartsSmaller ==
  ASSUME IInv, NEW i \in DOMAIN info, info[i].size >= max_split_size
  PROVE  ~IsSplit(info[i])
<1> SUFFICES ASSUME IsSplit(info[i])
             PROVE  FALSE
  OBVIOUS
<1>1. PICK lo, hi : Extents(info, lo, hi)
  BY DEF IInv
<1>2. Typed(info) /\ Linked(info)
  BY DEF IInv, Geometry
<1>3. \A j \in DOMAIN info : /\ info[j].ptr \in Int /\ info[j].size \in Nat \ {0}
                             /\ lo[j] \in Int /\ hi[j] \in Int /\ j # NoId
  BY <1>1, <1>2, Constants DEF Typed, Block, Extents
<1>4. \A j \in DOMAIN info : IsSplit(info[j]) =>
        /\ lo[j] <= info[j].ptr /\ info[j].ptr + info[j].size <= hi[j]
        /\ hi[j] - lo[j] <= max_split_size
  BY <1>1 DEF Extents
<1>5. max_split_size \in Nat
  BY Constants
<1>6. info[i].ptr = lo[i] /\ info[i].ptr + info[i].size = hi[i]
  BY <1>3, <1>4, <1>5
<1>7. CASE info[i].next # NoId
  <2>1. PICK n : n = info[i].next
    OBVIOUS
  <2>2. /\ n \in DOMAIN info /\ info[n].prev = i
        /\ info[n].ptr = info[i].ptr + info[i].size /\ lo[n] = lo[i] /\ hi[n] = hi[i]
    BY <1>1, <1>2, <1>7, <2>1 DEF Linked, Extents
  <2>3. IsSplit(info[n])
    BY <2>2, <1>3 DEF IsSplit
  <2>4. info[n].ptr + info[n].size <= hi[n]
    BY <2>2, <2>3, <1>4
  <2>5. QED  BY <2>2, <2>4, <1>3, <1>6
<1>8. CASE info[i].prev # NoId
  <2>1. PICK n : n = info[i].prev
    OBVIOUS
  <2>2. n \in DOMAIN info /\ info[n].next = i /\ i # NoId
    BY <1>2, <1>3, <1>8, <2>1 DEF Linked
  <2>3. /\ info[i].ptr = info[n].ptr + info[n].size /\ lo[n] = lo[i]
    BY <2>2, <1>1, <1>2 DEF Linked, Extents
  <2>4. IsSplit(info[n])
    BY <2>2 DEF IsSplit
  <2>5. lo[n] <= info[n].ptr
    BY <2>2, <2>4, <1>4
  <2>6. QED  BY <2>2, <2>3, <2>5, <1>3, <1>6
<1>9. QED  BY <1>7, <1>8 DEF IsSplit

\* ReleaseAndAlloc gives back whole blocks only.
LEMMA ReleasedWhole ==
  ASSUME IInv, NEW size
  PROVE  Releasable(IdsOf(Released(size)))
<1>1. Released(size) \in SUBSET table[AllStreams]
  BY DEF Released, Oversize, Unsplit
<1>2. \A e \in Released(size) : ~IsSplit(info[e.id])
  <2> SUFFICES ASSUME NEW e \in Released(size)
               PROVE  ~IsSplit(info[e.id])
    OBVIOUS
  <2>1. CASE e \in Unsplit
    BY <2>1 DEF Unsplit
  <2>2. CASE e \in Oversize(size)
    <3>1. e \in table[AllStreams] /\ e.size >= max_split_size
      BY <2>2 DEF Oversize
    <3>2. e.id \in DOMAIN info /\ e = Entry(e.id, info[e.id])
      BY <3>1 DEF IInv, Known, InTables, Tables
    <3>3. e.size = info[e.id].size
      BY <3>2 DEF Entry
    <3>4. QED  BY <3>1, <3>2, <3>3, PartsSmaller
  <2>3. QED  BY <2>1, <2>2 DEF Released
<1>3. QED  BY <1>1, <1>2, EntriesOf

-----------------------------------------------------------------------------
(* Memory comes from the device or from elsewhere *)

\* The block n, which no kernel touches, is handed out.
LEMMA UseAdded ==
  ASSUME NEW f, NEW tab, NEW ev, NEW w, NEW h, NEW q, NEW bufs,
         Typed(f), Geometry(f, bufs, w), Known(f, tab, ev, w, NoId), Uses(f, h),
         Queues(f, q, w), NEW n \in Ids, n \notin DOMAIN f,
         NEW ptr, NEW size, NEW s \in AnyStream, NEW lent,
         \A t \in Streams : \A k \in DOMAIN w[t] :
           ~Overlap(w[t][k], NewBlock(ptr, size, s, lent)),
         NEW g, g = With(f, n, NewBlock(ptr, size, s, lent))
  PROVE  /\ Known(g, tab, ev, w, NoId) /\ Uses(g, h \cup {n}) /\ Queues(g, q, w)
<1>f. PICK b : b = NewBlock(ptr, size, s, lent)
  OBVIOUS
<1>0. /\ b.used_streams = UsedStreams(s) /\ b.alloc_stream = s
      /\ b.status = "OCCUPIED_BY_ALLOC_STREAM" /\ b.cnt = 0 /\ b.cached_pool = NoTable
      /\ b.next = NoId
  BY <1>f DEF NewBlock
<1>1. Allocated(b) /\ ~Waits(b)
  BY <1>0 DEF Allocated, Waits
<1>2. /\ DOMAIN g = DOMAIN f \cup {n} /\ g[n] = b
      /\ \A i \in DOMAIN f : g[i] = f[i] /\ i # n
  BY <1>f DEF With
<1>3. /\ InTables(f, tab) /\ StatusesAgree(f, NoId) /\ EventsTyped(f, ev, w)
      /\ EventsAgree(f, ev, NoId) /\ Foreseen(f, ev, w, NoId) /\ Merged(f, NoId)
      /\ Linked(f)
  BY DEF Known, Geometry
<1>c. NoTable \notin Tables /\ NoTable \notin Streams /\ NoTable # AllStreams
      /\ NoId \notin DOMAIN f
  BY Constants DEF Tables, Typed
<1>4. InTables(g, tab)
  BY <1>0, <1>2, <1>3 DEF InTables
<1>5. StatusesAgree(g, NoId)
  BY <1>0, <1>1, <1>2, <1>3, <1>c DEF StatusesAgree
<1>6. EventsTyped(g, ev, w)
  BY <1>2, <1>3 DEF EventsTyped
<1>7. EventsAgree(g, ev, NoId)
  <2>1. n \notin DOMAIN ev
    BY <1>3 DEF EventsTyped
  <2>2. QED  BY <2>1, <1>0, <1>2, <1>3, <1>c DEF EventsAgree
<1>8. Foreseen(g, ev, w, NoId)
  <2> SUFFICES ASSUME NEW i \in DOMAIN g \ {NoId}, NEW t \in Streams,
                      NEW k \in DOMAIN w[t], Overlap(w[t][k], g[i])
               PROVE  IF Allocated(g[i]) THEN t \in g[i].used_streams
                      ELSE t = g[i].cached_pool /\ k <= ev[i].left
    BY DEF Foreseen
  <2>1. i # n
    BY <1>2, <1>f
  <2>2. QED  BY <2>1, <1>2, <1>3 DEF Foreseen
<1>9. Merged(g, NoId)
  <2>1. \A i \in DOMAIN f : f[i].next # NoId => f[i].next \in DOMAIN f
    BY <1>3 DEF Linked
  <2>2. QED  BY <2>1, <1>0, <1>2, <1>3 DEF Merged
<1>10. Uses(g, h \cup {n})
  <2>1. /\ b.used_streams \subseteq {b.alloc_stream}
        /\ b.alloc_stream \in b.used_streams \/ b.alloc_stream = kBlockingStream
    BY <1>0 DEF UsedStreams
  <2>2. QED  BY <2>1, <1>0, <1>2 DEF Uses
<1>11. Queues(g, q, w)
  <2>1. SameWaits(f, g)
    BY <1>0, <1>1, <1>2 DEF SameWaits
  <2>2. QED  BY <2>1, QueuesKept
<1>12. QED  BY <1>4, <1>5, <1>6, <1>7, <1>8, <1>9, <1>10, <1>11 DEF Known

\* A new block.
LEMMA NewBlockTyped ==
  ASSUME NEW ptr \in Int, NEW size \in Nat \ {0}, NEW s \in AnyStream, NEW lent \in BOOLEAN,
         NEW b, b = NewBlock(ptr, size, s, lent)
  PROVE  /\ b \in Block /\ b.ptr = ptr /\ b.size = size /\ b.prev = NoId /\ b.next = NoId
         /\ b.borrowed = lent /\ b.alloc_stream = s
<1>1. PICK status, none, used : /\ status = "OCCUPIED_BY_ALLOC_STREAM" /\ none = NoTable
                                /\ used = UsedStreams(s)
  OBVIOUS
<1>2. b = [ptr |-> ptr, size |-> size, alloc_stream |-> s, used_streams |-> used,
           status |-> status, cnt |-> 0, cached_pool |-> none,
           prev |-> NoId, next |-> NoId, borrowed |-> lent]
  BY <1>1 DEF NewBlock
<1>3. status \in Statuses /\ none \in {NoTable} \cup Tables /\ used \in SUBSET Streams
  BY <1>1 DEF Statuses, UsedStreams, AnyStream
<1>4. QED  BY ONLY <1>2, <1>3, ptr \in Int, size \in Nat \ {0}, s \in AnyStream,
                   lent \in BOOLEAN DEF Block

\* next_id() is new as long as ids are left.
LEMMA NewIdFree ==
  ASSUME NEW f, IdLeft(f)
  PROVE  NewIdIn(f) \in Ids /\ NewIdIn(f) \notin DOMAIN f
BY DEF IdLeft, NewIdIn

\* NewSegment keeps the invariant.
LEMMA SegmentKeeps ==
  ASSUME IInv, NEW ids, Releasable(ids), NEW size \in Nat \ {0}, NEW s \in AnyStream,
         NewSegment(size, s, ids), op' = Idle, created' \in SUBSET Streams, work' = work
  PROVE  IInv' /\ FreshStep /\ IdleStep
<1>f. PICK kept, n : kept = Without(info, ids) /\ n = NewIdIn(kept)
  OBVIOUS
<1>0. /\ table' = Freed(ids) /\ event' = event /\ multi' = multi
  BY DEF NewSegment, Freed
<1>1. PICK ptr \in LowestFree(size, Segments \ {info[i] : i \in ids}) :
        IF op.call = "buffer"
        THEN /\ info' = kept
             /\ buffers' = buffers \cup {[ptr |-> ptr, size |-> size]}
             /\ held' = held
        ELSE /\ IdLeft(kept)
             /\ info' = With(kept, n, NewBlock(ptr, size, s, FALSE))
             /\ held' = held \cup {n}
             /\ buffers' = buffers
  BY <1>f DEF NewSegment
<1>2. GoneFrom(kept, ids, table')
  BY <1>0, <1>f, ReleasedGone
<1>3. /\ ids \in SUBSET DOMAIN info
      /\ \A i \in ids : ~Waits(info[i]) /\ i \notin held
  BY ReleasedGone DEF Releasable
<1>4. /\ DOMAIN kept = DOMAIN info \ ids /\ \A i \in DOMAIN kept : kept[i] = info[i]
      /\ Typed(kept) /\ Geometry(kept, buffers, work) /\ \E lo, hi : Extents(kept, lo, hi)
      /\ Known(kept, table', event, work, NoId) /\ Uses(kept, held)
      /\ Queues(kept, multi, work)
  <2>1. held \subseteq held \ ids
    BY <1>3
  <2>2. QED  BY <2>1, <1>2, <1>3 DEF GoneFrom
<1>5. OpOK(op', info', buffers', work')
  BY DEF OpOK
<1>6. work \in [Streams -> Seq(Kernel)]
  BY DEF IInv
<1>7. PICK c : c = [ptr |-> ptr, size |-> size]
  OBVIOUS
<1>8. /\ ptr \in Nat /\ \A i \in DOMAIN kept : ~Overlap(kept[i], c)
      /\ \A d \in buffers : ~Overlap(d, c) /\ ~Overlap(c, d)
  <2>1. c.ptr = ptr /\ c.size = size
    BY <1>7
  <2>2. /\ ptr \in Nat /\ \A i \in DOMAIN info \ ids : ~Overlap(info[i], c)
        /\ \A d \in buffers : ~Overlap(d, c) /\ ~Overlap(c, d)
    BY <2>1, <1>1, <1>3, FreePlace
  <2>3. QED  BY <2>2, <1>4
<1>9. CASE op.call = "buffer"
  <2>1. info' = kept /\ held' = held /\ buffers' = buffers \cup {c}
    BY <1>1, <1>7, <1>9
  <2>2. Geometry(kept, buffers', work)
    BY <2>1, <1>4, <1>7, <1>8, BufferAdded
  <2>3. IInv'
    BY <2>1, <2>2, <1>0, <1>4, <1>5, <1>6 DEF IInv
  <2>4. FreshStep
    BY <2>1 DEF FreshStep
  <2>5. IdleStep
    BY <2>1, <1>4, ReturnedIdle
  <2>6. QED  BY <2>3, <2>4, <2>5
<1>10. CASE op.call # "buffer"
  <2>0. PICK lent \in BOOLEAN : ~lent
    OBVIOUS
  <2>1. /\ IdLeft(kept) /\ info' = With(kept, n, NewBlock(ptr, size, s, lent))
        /\ held' = held \cup {n} /\ buffers' = buffers
    <3>1. lent = FALSE
      BY <2>0
    <3>2. QED  BY <3>1, <1>1, <1>10
  <2>2. n \in Ids /\ n \notin DOMAIN kept
    BY <2>1, <1>f, NewIdFree
  <2>3. PICK b : b = NewBlock(ptr, size, s, lent)
    OBVIOUS
  <2>4. /\ b \in Block /\ b.ptr = ptr /\ b.size = size /\ b.prev = NoId /\ b.next = NoId
        /\ ~b.borrowed
    <3>1. ptr \in Int /\ lent \in BOOLEAN
      BY <1>8
    <3>2. /\ b \in Block /\ b.ptr = ptr /\ b.size = size /\ b.prev = NoId
          /\ b.next = NoId /\ b.borrowed = lent
      BY <3>1, <2>3, NewBlockTyped
    <3>3. QED  BY <3>2, <2>0
  <2>5. /\ \A i \in DOMAIN kept : ~Overlap(kept[i], b)
        /\ \A d \in buffers : ~Overlap(b, d)
    BY <1>7, <1>8, <2>4 DEF Overlap
  <2>6. \A t \in Streams : \A k \in DOMAIN work[t] : ~Overlap(work[t][k], b)
    BY <2>4, <2>5, <1>4, <1>6, NewMemoryFresh DEF Block
  <2>7. /\ Geometry(info', buffers, work) /\ Typed(info')
        /\ \E lo, hi : Extents(info', lo, hi)
    <3>1. b.ptr >= 0
      BY <1>8, <2>4
    <3>2. /\ Geometry(With(kept, n, b), buffers, work) /\ Typed(With(kept, n, b))
          /\ \A lo, hi : Extents(kept, lo, hi) => Extents(With(kept, n, b), lo, hi)
      BY <3>1, <2>2, <2>4, <2>5, <1>4, BlockAdded
    <3>3. QED  BY <3>2, <2>1, <2>3, <1>4
  <2>8. Known(info', table', event, work, NoId) /\ Uses(info', held \cup {n})
        /\ Queues(info', multi, work)
    <3>2. \A t \in Streams : \A k \in DOMAIN work[t] :
            ~Overlap(work[t][k], NewBlock(ptr, size, s, lent))
      BY <2>3, <2>6
    <3>3. QED  BY <3>2, <2>1, <2>2, <1>4, UseAdded
  <2>9. IInv'
    BY <2>1, <2>7, <2>8, <1>0, <1>5, <1>6 DEF IInv
  <2>10. info'[n] = b /\ \A i \in DOMAIN kept : i \in DOMAIN info' /\ info'[i] = kept[i]
    BY <2>1, <2>2, <2>3 DEF With
  <2>11. FreshStep
    BY <2>1, <2>6, <2>10 DEF FreshStep, Touched
  <2>12. IdleStep
    <3>1. \A i \in DOMAIN info \ ids : i \in DOMAIN info' /\ info'[i] = info[i]
      BY <2>10, <1>4
    <3>2. QED  BY <3>1, ReturnedIdle
  <2>13. QED  BY <2>9, <2>11, <2>12
<1>11. QED  BY <1>9, <1>10

\* Wait keeps the invariant.
LEMMA WaitKeeps ==
  ASSUME IInv, Wait
  PROVE  IInv' /\ FreshStep /\ IdleStep
<1>f. PICK ids : ids = IdsOf(Released(op.size))
  OBVIOUS
<1>0. /\ op.call \in {"alloc", "buffer"} /\ created' = created /\ work' = work
  BY DEF Wait
<1>1. Releasable(ids)
  BY <1>f, ReleasedWhole
<1>2. op.size \in Nat \ {0} /\ op.stream \in AnyStream
  BY <1>0 DEF IInv, OpOK, Idle, Aborted
<1>3. CASE Fits(op.size, Segments \ {info[i] : i \in ids})
  <2>1. NewSegment(op.size, op.stream, ids) /\ op' = Idle
    BY <1>3, <1>f DEF Wait
  <2>2. created' \in SUBSET Streams
    BY <1>0 DEF IInv
  <2>3. QED  BY <2>1, <2>2, <1>0, <1>1, <1>2, SegmentKeeps
<1>4. CASE ~Fits(op.size, Segments \ {info[i] : i \in ids})
  <2>1. /\ info' = Without(info, ids) /\ table' = Freed(ids)
        /\ op' = (IF NoEventsLeft THEN Idle ELSE [op EXCEPT !.at = 1])
        /\ event' = event /\ multi' = multi /\ held' = held /\ buffers' = buffers
    BY <1>4, <1>f DEF Wait, Freed
  <2>2. GoneFrom(info', ids, table')
    BY <2>1, <1>1, ReleasedGone
  <2>3. /\ \A i \in ids : ~Waits(info[i]) /\ i \notin held
        /\ DOMAIN info' = DOMAIN info \ ids /\ \A i \in DOMAIN info' : info'[i] = info[i]
    BY <2>2, <1>1, ReleasedGone DEF GoneFrom
  <2>4. OpOK(op', info, buffers, work)
    <3>1. CASE NoEventsLeft
      BY <3>1, <2>1 DEF OpOK
    <3>2. CASE ~NoEventsLeft
      <4>1. Running /\ op.call # "empty" /\ 1 \in Nat
        BY <1>0 DEF Running
      <4>2. OpOK([op EXCEPT !.at = 1], info, buffers, work)
        BY <4>1, OpAt
      <4>3. QED  BY <3>2, <4>2, <2>1
    <3>3. QED  BY <3>1, <3>2
  <2>5. Uses(info', held) /\ Queues(info', multi, work) /\ OpOK(op', info', buffers, work)
    <3>1. held \subseteq held \ ids
      BY <2>3
    <3>2. QED  BY <3>1, <2>2, <2>3, <2>4 DEF GoneFrom
  <2>6. IInv'
    <3>1. (work \in [Streams -> Seq(Kernel)])' /\ (created \subseteq Streams)'
      BY <1>0 DEF IInv
    <3>2. QED  BY <3>1, <1>0, <2>1, <2>2, <2>5 DEF GoneFrom, IInv
  <2>7. FreshStep /\ IdleStep
    BY <1>1, <2>1, <2>3, ReturnedIdle DEF FreshStep
  <2>8. QED  BY <2>6, <2>7
<1>5. QED  BY <1>3, <1>4

\* FinishBorrow keeps the invariant.
LEMMA BorrowKeeps ==
  ASSUME IInv, FinishBorrow
  PROVE  IInv' /\ FreshStep /\ IdleStep
<1>l. PICK lent \in BOOLEAN : lent
  OBVIOUS
<1>f. PICK n, b, rest : /\ n = NewIdIn(info)
                        /\ b = NewBlock(op.ptr, op.size, op.stream, lent)
                        /\ rest = {c \in buffers : c.ptr # op.ptr}
  OBVIOUS
<1>0. /\ op.call = "borrow" /\ IdLeft(info) /\ info' = With(info, n, b)
      /\ held' = held \cup {n} /\ buffers' = rest /\ op' = Idle
      /\ table' = table /\ created' = created /\ event' = event /\ multi' = multi
      /\ work' = work
  <2>1. lent = TRUE
    BY <1>l
  <2>2. QED  BY <2>1, <1>f DEF FinishBorrow, NewId
<1>1. /\ op.size \in Nat \ {0} /\ op.ptr \in Int /\ op.stream \in AnyStream
      /\ \A i \in DOMAIN info : ~info[i].borrowed
      /\ op.ptr = -op.size \/ [ptr |-> op.ptr, size |-> op.size] \in buffers
  BY <1>0 DEF IInv, OpOK, Idle, Aborted
<1>2. n \in Ids /\ n \notin DOMAIN info
  BY <1>0, <1>f, NewIdFree
<1>3. /\ b \in Block /\ b.ptr = op.ptr /\ b.size = op.size /\ b.prev = NoId
      /\ b.next = NoId /\ b.borrowed
  <2>2. /\ b \in Block /\ b.ptr = op.ptr /\ b.size = op.size /\ b.prev = NoId
        /\ b.next = NoId /\ b.borrowed = lent
    BY <1>1, <1>f, NewBlockTyped
  <2>3. QED  BY <2>2, <1>l
<1>4. /\ Typed(info) /\ Geometry(info, buffers, work) /\ Lent(info)
      /\ BuffersApart(info, buffers) /\ work \in [Streams -> Seq(Kernel)]
      /\ Known(info, table, event, work, NoId) /\ Uses(info, held)
      /\ Queues(info, multi, work)
  BY DEF IInv, Geometry
<1>5. \A c \in buffers : c.ptr \in Nat /\ c.size \in Nat \ {0}
  BY <1>4 DEF BuffersApart
<1>6. \A i \in DOMAIN info : info[i].ptr \in Nat /\ info[i].size \in Nat \ {0}
  BY <1>1, <1>4 DEF Lent, Typed, Block
<1>7. /\ \A i \in DOMAIN info : ~Overlap(info[i], b)
      /\ \A c \in rest : ~Overlap(b, c)
      /\ b.ptr >= 0 \/ b.ptr + b.size <= 0
  <2>1. CASE op.ptr = -op.size
    <3>1. b.ptr + b.size = 0
      BY <2>1, <1>1, <1>3
    <3>2. QED  BY <3>1, <1>1, <1>3, <1>5, <1>6, <1>f DEF Overlap
  <2>2. CASE [ptr |-> op.ptr, size |-> op.size] \in buffers
    <3>1. PICK d \in buffers : d = [ptr |-> op.ptr, size |-> op.size]
      BY <2>2
    <3>2. d.ptr = b.ptr /\ d.size = b.size
      BY <3>1, <1>3
    <3>3. \A i \in DOMAIN info : ~Overlap(info[i], d)
      BY <1>4 DEF BuffersApart
    <3>4. \A c \in rest : ~Overlap(d, c)
      <4>1. \A c \in rest : c \in buffers /\ c # d
        BY <3>1, <1>f
      <4>2. QED  BY <4>1, <1>4 DEF BuffersApart
    <3>5. b.ptr >= 0
      BY <3>2, <1>5
    <3>6. QED  BY <3>2, <3>3, <3>4, <3>5 DEF Overlap
  <2>3. QED  BY <2>1, <2>2, <1>1
<1>8. \A t \in Streams : \A k \in DOMAIN work[t] : ~Overlap(work[t][k], b)
  BY <1>3, <1>4, <1>7, NewMemoryFresh DEF Block
<1>9. /\ Geometry(info', rest, work) /\ Typed(info')
      /\ \E lo, hi : Extents(info', lo, hi)
  <2>1. rest \in SUBSET buffers
    BY <1>f
  <2>2. /\ Geometry(With(info, n, b), rest, work) /\ Typed(With(info, n, b))
        /\ \A lo, hi : Extents(info, lo, hi) => Extents(With(info, n, b), lo, hi)
    BY <2>1, <1>2, <1>3, <1>4, <1>7, BlockAdded
  <2>3. QED  BY <2>2, <1>0 DEF IInv
<1>10. /\ Known(info', table, event, work, NoId) /\ Uses(info', held \cup {n})
       /\ Queues(info', multi, work)
  BY <1>0, <1>1, <1>2, <1>4, <1>8, <1>f, UseAdded
<1>11. IInv'
  <2>1. (created \subseteq Streams)' /\ OpOK(op', info', buffers', work')
    BY <1>0 DEF IInv, OpOK
  <2>2. QED  BY <2>1, <1>0, <1>4, <1>9, <1>10 DEF IInv
<1>12. /\ info'[n] = b /\ \A i \in DOMAIN info : i \in DOMAIN info' /\ info'[i] = info[i]
  BY <1>0, <1>2 DEF With
<1>13. FreshStep
  BY <1>0, <1>8, <1>12 DEF FreshStep, Touched
<1>14. QED  BY <1>11, <1>12, <1>13, IdleAnyway

-----------------------------------------------------------------------------
(* Memory comes from a table *)

\* What IInv says of an entry of a table.
LEMMA Available ==
  ASSUME IInv, NEW t \in Tables, NEW e \in table[t], NEW id, id = e.id
  PROVE  /\ id \in DOMAIN info /\ id # NoId /\ info[id] \in Block
         /\ e = Entry(id, info[id]) /\ e.size = info[id].size /\ e.ptr = info[id].ptr
         /\ info[id].cached_pool = t /\ ~Allocated(info[id]) /\ ~info[id].borrowed
         /\ ~Waits(info[id]) /\ info[id].cnt = 0 /\ id \notin held
         /\ IF t = AllStreams THEN id \notin DOMAIN event
            ELSE id \in DOMAIN event /\ event[id].stream = t
         /\ \A u \in Streams : \A k \in DOMAIN work[u] :
              Overlap(work[u][k], info[id]) => u = t /\ k <= event[id].left
<1>1. /\ Typed(info) /\ InTables(info, table) /\ StatusesAgree(info, NoId)
      /\ EventsAgree(info, event, NoId) /\ Uses(info, held) /\ Queues(info, multi, work)
  BY DEF IInv, Known
<1>2. /\ id \in DOMAIN info /\ info[id].cached_pool = t /\ e = Entry(id, info[id])
  BY <1>1 DEF InTables
<1>3. e.size = info[id].size /\ e.ptr = info[id].ptr
  BY <1>2 DEF Entry
<1>4. id # NoId /\ info[id] \in Block /\ t # NoTable
      /\ (t # AllStreams => t \in Streams) /\ AllStreams \notin Streams
  BY <1>1, <1>2, Constants DEF Typed, Tables
<1>5. ~Allocated(info[id]) /\ ~info[id].borrowed
  BY <1>1, <1>2, <1>4 DEF StatusesAgree
<1>6. ~Waits(info[id]) /\ id \notin held
  BY <1>1, <1>5 DEF Waits, Allocated, Uses
<1>7. info[id].cnt = 0
  BY <1>1, <1>2, <1>4, <1>6 DEF Queues, Waits, Block
<1>8. IF t = AllStreams THEN id \notin DOMAIN event
      ELSE id \in DOMAIN event /\ event[id].stream = t
  BY <1>1, <1>2, <1>4 DEF EventsAgree
<1>9. \A u \in Streams : \A k \in DOMAIN work[u] :
        Overlap(work[u][k], info[id]) => u = t /\ k <= event[id].left
  BY <1>2, <1>5, FreeTouched
<1>10. QED  BY <1>2, <1>3, <1>4, <1>5, <1>6, <1>7, <1>8, <1>9

Taken(b, s) == [b EXCEPT !.alloc_stream = s, !.used_streams = UsedStreams(s),
                         !.status = "OCCUPIED_BY_ALLOC_STREAM", !.cached_pool = NoTable]

\* b may be handed out to s.
Given(b, s) ==
  /\ b.alloc_stream = s /\ b.used_streams = UsedStreams(s)
  /\ b.status = "OCCUPIED_BY_ALLOC_STREAM" /\ b.cached_pool = NoTable

\* What AllocDataSpace does to a block that it takes from a table.
LEMMA TakenBlock ==
  ASSUME NEW b \in Block, NEW s \in AnyStream, NEW c, c = Taken(b, s)
  PROVE  /\ c \in Block /\ Place(c) = Place(b) /\ c.cnt = b.cnt /\ Given(c, s)
<1>1. PICK status, none, used : /\ status = "OCCUPIED_BY_ALLOC_STREAM" /\ none = NoTable
                                /\ used = UsedStreams(s)
  OBVIOUS
<1>2. c = [b EXCEPT !.alloc_stream = s, !.used_streams = used, !.status = status,
                    !.cached_pool = none]
  BY <1>1 DEF Taken
<1>3. status \in Statuses /\ none \in {NoTable} \cup Tables /\ used \in SUBSET Streams
      /\ b \in Block /\ s \in AnyStream
  BY <1>1 DEF Statuses, UsedStreams, AnyStream
<1>4. /\ c \in Block /\ Place(c) = Place(b) /\ c.cnt = b.cnt /\ c.alloc_stream = s
      /\ c.used_streams = used /\ c.status = status /\ c.cached_pool = none
  BY ONLY <1>2, <1>3 DEF Block, Place
<1>5. QED  BY <1>1, <1>4 DEF Given

\* A block that is handed out is touched by no other stream, as it was free before.
HandedOut(id, s) ==
  \A u \in Streams : \A k \in DOMAIN work[u] :
    Overlap(work[u][k], info'[id]) => u \in UsedStreams(s)

\* What is handed out is free of other streams' kernels.
LEMMA GivenFresh ==
  ASSUME NEW id, NEW s, held' = held \cup {id}, Given(info'[id], s), HandedOut(id, s)
  PROVE  FreshStep
<1>1. \A u \in UsedStreams(s) : u = s
  BY DEF UsedStreams
<1>2. QED  BY <1>1 DEF Given, HandedOut, FreshStep, Touched

\* A block that is taken whole.
LEMMA ReuseWhole ==
  ASSUME IInv, NEW t \in Tables, NEW e \in table[t], NEW id, id = e.id,
         NEW s \in AnyStream, t \in {s, AllStreams},
         info' = [info EXCEPT ![id] = Taken(info[id], s)],
         table' = [table EXCEPT ![t] = @ \ {e}],
         event' = (IF t = AllStreams THEN event ELSE Without(event, {id})),
         held' = held \cup {id}, multi' = multi, buffers' = buffers, work' = work,
         op' = Idle, created' \in SUBSET Streams
  PROVE  IInv' /\ FreshStep /\ IdleStep
<1>f. PICK b : b = Taken(info[id], s)
  OBVIOUS
<1>1. /\ id \in DOMAIN info /\ id # NoId /\ info[id] \in Block
      /\ e = Entry(id, info[id]) /\ e.size = info[id].size /\ e.ptr = info[id].ptr
      /\ info[id].cached_pool = t /\ ~Allocated(info[id]) /\ ~info[id].borrowed
      /\ ~Waits(info[id]) /\ info[id].cnt = 0 /\ id \notin held
      /\ IF t = AllStreams THEN id \notin DOMAIN event
         ELSE id \in DOMAIN event /\ event[id].stream = t
      /\ \A u \in Streams : \A k \in DOMAIN work[u] :
           Overlap(work[u][k], info[id]) => u = t /\ k <= event[id].left
  BY Available
<1>2. b \in Block /\ Place(b) = Place(info[id]) /\ b.cnt = 0 /\ Given(b, s)
  BY <1>f, <1>1, TakenBlock
<1>3. /\ DOMAIN info' = DOMAIN info /\ info'[id] = b
      /\ \A i \in DOMAIN info \ {id} : info'[i] = info[i]
      /\ b.ptr = info[id].ptr /\ b.size = info[id].size /\ b.next = info[id].next
  BY <1>f, <1>1, <1>2 DEF Place
<1>4. Allocated(b) /\ ~Waits(b) /\ b.cached_pool = NoTable
  BY <1>2 DEF Given, Allocated, Waits
<1>5. /\ Typed(info) /\ Geometry(info, buffers, work) /\ InTables(info, table)
      /\ StatusesAgree(info, NoId) /\ EventsTyped(info, event, work)
      /\ EventsAgree(info, event, NoId) /\ Foreseen(info, event, work, NoId)
      /\ Merged(info, NoId) /\ work \in [Streams -> Seq(Kernel)]
      /\ Uses(info, held) /\ Queues(info, multi, work)
  BY DEF IInv, Known
<1>c. /\ NoId \notin DOMAIN info /\ NoTable \notin Tables /\ NoTable \notin Streams
      /\ NoTable # AllStreams /\ AllStreams \notin Streams
      /\ (s \in Streams => UsedStreams(s) = {s})
  BY <1>5, Constants DEF Typed, Tables, UsedStreams
<1>6. /\ DOMAIN event' = DOMAIN event \ {id}
      /\ \A i \in DOMAIN event \ {id} : event'[i] = event[i]
  BY <1>1 DEF Without, Restrict
<1>7. Typed(info')
  BY <1>2, <1>3, <1>5 DEF Typed
<1>8. Geometry(info', buffers, work) /\ \E lo, hi : Extents(info', lo, hi)
  <2>1. \A i \in DOMAIN info : Place(info'[i]) = Place(info[i])
    BY <1>2, <1>3
  <2>2. PICK lo, hi : Extents(info, lo, hi)
    BY DEF IInv
  <2>3. PICK g : g = info'
    OBVIOUS
  <2>4. DOMAIN g = DOMAIN info /\ \A i \in DOMAIN info : Place(g[i]) = Place(info[i])
    BY <2>1, <2>3, <1>3
  <2>5. Geometry(g, buffers, work) /\ Extents(g, lo, hi)
    BY <2>2, <2>4, <1>5, PlacesKept
  <2>6. QED  BY <2>3, <2>5
<1>9. InTables(info', table')
  <2>1. DOMAIN table' = Tables /\ DOMAIN table = Tables
    BY <1>5 DEF InTables
  <2>2. \A u \in Tables : table'[u] = IF u = t THEN table[u] \ {e} ELSE table[u]
    BY <2>1
  <2>3. ASSUME NEW u \in Tables, NEW d \in table'[u]
        PROVE  /\ d.id \in DOMAIN info' /\ info'[d.id].cached_pool = u
               /\ d = Entry(d.id, info'[d.id])
    <3>1. /\ d \in table[u] /\ d.id \in DOMAIN info /\ info[d.id].cached_pool = u
          /\ d = Entry(d.id, info[d.id])
      BY <2>2, <2>3, <1>5 DEF InTables
    <3>2. d.id # id
      BY <2>2, <2>3, <3>1, <1>1
    <3>3. QED  BY <3>1, <3>2, <1>3
  <2>4. ASSUME NEW i \in DOMAIN info', info'[i].cached_pool # NoTable
        PROVE  Entry(i, info'[i]) \in table'[info'[i].cached_pool]
    <3>1. i \in DOMAIN info \ {id} /\ info'[i] = info[i] /\ info[i].cached_pool \in Tables
      BY <2>4, <1>3, <1>4, <1>7 DEF Typed, Block
    <3>2. Entry(i, info[i]) \in table[info[i].cached_pool]
      BY <2>4, <3>1, <1>5 DEF InTables
    <3>3. Entry(i, info[i]) # e
      BY <3>1, <1>1 DEF Entry
    <3>4. QED  BY <2>2, <3>1, <3>2, <3>3
  <2>5. QED  BY <2>1, <2>3, <2>4 DEF InTables
<1>10. StatusesAgree(info', NoId)
  <2>1. b.status # "AVAILABLE_FOR_ALL_STREAM"
    BY <1>2 DEF Given
  <2>2. QED  BY <2>1, <1>3, <1>4, <1>5, <1>c DEF StatusesAgree
<1>11. EventsTyped(info', event', work)
  BY <1>3, <1>5, <1>6 DEF EventsTyped
<1>12. EventsAgree(info', event', NoId)
  <2> SUFFICES ASSUME NEW i \in DOMAIN info' \ {NoId}
               PROVE  IF info'[i].cached_pool \in Streams
                      THEN i \in DOMAIN event' /\ event'[i].stream = info'[i].cached_pool
                      ELSE i \notin DOMAIN event'
    BY DEF EventsAgree
  <2>1. CASE i = id
    BY <2>1, <1>3, <1>4, <1>6, <1>c
  <2>2. CASE i # id
    <3>1. i \in DOMAIN info \ {NoId} /\ info'[i] = info[i]
      BY <2>2, <1>3
    <3>2. IF info[i].cached_pool \in Streams
          THEN i \in DOMAIN event /\ event[i].stream = info[i].cached_pool
          ELSE i \notin DOMAIN event
      BY <3>1, <1>5 DEF EventsAgree
    <3>3. QED  BY <2>2, <3>1, <3>2, <1>6
  <2>3. QED  BY <2>1, <2>2
<1>13. HandedOut(id, s)
  <2> SUFFICES ASSUME NEW u \in Streams, NEW k \in DOMAIN work[u],
                      Overlap(work[u][k], info'[id])
               PROVE  u \in UsedStreams(s)
    BY DEF HandedOut
  <2>1. u = t
    BY <1>1, <1>3 DEF Overlap
  <2>2. QED  BY <2>1, <1>c
<1>14. Foreseen(info', event', work, NoId)
  <2> SUFFICES ASSUME NEW i \in DOMAIN info' \ {NoId}, NEW u \in Streams,
                      NEW k \in DOMAIN work[u], Overlap(work[u][k], info'[i])
               PROVE  IF Allocated(info'[i]) THEN u \in info'[i].used_streams
                      ELSE u = info'[i].cached_pool /\ k <= event'[i].left
    BY DEF Foreseen
  <2>1. CASE i = id
    BY <2>1, <1>2, <1>3, <1>4, <1>13 DEF HandedOut, Given
  <2>2. CASE i # id
    <3>1. i \in DOMAIN info \ {NoId} /\ info'[i] = info[i]
      BY <2>2, <1>3
    <3>2. IF Allocated(info[i]) THEN u \in info[i].used_streams
          ELSE u = info[i].cached_pool /\ k <= event[i].left
      BY <3>1, <1>5 DEF Foreseen
    <3>3. u = info[i].cached_pool => event'[i] = event[i]
      BY <2>2, <3>1, <1>5, <1>6 DEF EventsAgree
    <3>4. QED  BY <3>1, <3>2, <3>3
  <2>3. QED  BY <2>1, <2>2
<1>15. Merged(info', NoId)
  <2>1. \A i \in DOMAIN info : info[i].next # NoId => info[i].next \in DOMAIN info
    BY <1>5 DEF Geometry, Linked
  <2>2. QED  BY <2>1, <1>3, <1>4, <1>5 DEF Merged
<1>16. Uses(info', held')
  <2>1. /\ b.used_streams \subseteq {b.alloc_stream}
        /\ b.alloc_stream \in b.used_streams \/ b.alloc_stream = kBlockingStream
        /\ b.status = "OCCUPIED_BY_ALLOC_STREAM"
    BY <1>2 DEF Given, UsedStreams
  <2>2. PICK g : g = info'
    OBVIOUS
  <2>3. /\ DOMAIN g = DOMAIN info /\ g[id] = b
        /\ \A i \in DOMAIN info \ {id} : g[i] = info[i]
    BY <2>2, <1>3
  <2>4. Uses(g, held)
    <3>1. id \notin held
      BY <1>1
    <3>2. QED  BY <2>1, <2>3, <3>1, <1>5 DEF Uses
  <2>5. g[id].status = "OCCUPIED_BY_ALLOC_STREAM" /\ id \in DOMAIN g
    BY <2>1, <2>3, <1>1
  <2>6. Uses(g, held \cup {id})
    BY <2>4, <2>5 DEF Uses
  <2>7. QED  BY <2>2, <2>6
<1>17. Queues(info', multi, work)
  <2>1. SameWaits(info, info')
    BY <1>1, <1>2, <1>3, <1>4 DEF SameWaits
  <2>2. QED  BY <2>1, <1>5, QueuesKept
<1>18. Known(info', table', event', work, NoId)
  BY <1>9, <1>10, <1>11, <1>12, <1>14, <1>15 DEF Known
<1>19. IInv'
  <2>1. OpOK(op', info', buffers', work') /\ created' \subseteq Streams
    BY DEF OpOK
  <2>2. QED  BY <2>1, <1>5, <1>7, <1>8, <1>16, <1>17, <1>18 DEF IInv
<1>20. FreshStep
  BY <1>2, <1>3, <1>13, GivenFresh
<1>21. IdleStep
  BY <1>3, IdleAnyway
<1>22. QED  BY <1>19, <1>20, <1>21

\* What differs in a block is at most the link to the one before.
BehindAnother(a, b) ==
  /\ a \in Block /\ a.ptr = b.ptr /\ a.size = b.size /\ a.next = b.next
  /\ a.borrowed = b.borrowed /\ a.status = b.status /\ a.cnt = b.cnt
  /\ a.cached_pool = b.cached_pool /\ a.used_streams = b.used_streams
  /\ a.alloc_stream = b.alloc_stream

\* The block id is divided: want of it is given to s, the rest stays in the table t.
Divided(g, id, rest, want, s, t) ==
  /\ rest \in Ids /\ rest \notin DOMAIN info /\ DOMAIN g = DOMAIN info \cup {rest}
  /\ g[id] \in Block /\ Given(g[id], s) /\ g[id].cnt = 0 /\ ~g[id].borrowed
  /\ g[id].ptr = info[id].ptr /\ g[id].size = want /\ g[id].prev = info[id].prev
  /\ g[id].next = rest
  /\ g[rest] \in Block /\ g[rest].cnt = 0 /\ ~g[rest].borrowed
  /\ g[rest].cached_pool = t
  /\ g[rest].status = (IF t = AllStreams THEN "AVAILABLE_FOR_ALL_STREAM"
                       ELSE "AVAILABLE_FOR_ALLOC_STREAM")
  /\ g[rest].ptr = info[id].ptr + want /\ g[rest].size = info[id].size - want
  /\ g[rest].prev = id /\ g[rest].next = info[id].next
  /\ \A i \in DOMAIN info \ {id} :
       /\ BehindAnother(g[i], info[i])
       /\ g[i].prev = (IF i = info[id].next THEN rest ELSE info[i].prev)

Leftover(b, id, want, s, t) ==
  [NewBlock(b.ptr + want, b.size - want, s, FALSE) EXCEPT
     !.status = IF t = AllStreams THEN "AVAILABLE_FOR_ALL_STREAM"
                ELSE "AVAILABLE_FOR_ALLOC_STREAM",
     !.cached_pool = t, !.prev = id, !.next = b.next]

\* What is left over of a block that is split.
LEMMA LeftoverBlock ==
  ASSUME NEW b \in Block, NEW id \in Ids, NEW s \in AnyStream, NEW t \in Tables,
         NEW want \in Nat \ {0}, want < b.size, NEW c, c = Leftover(b, id, want, s, t)
  PROVE  /\ c \in Block /\ c.cnt = 0 /\ ~c.borrowed /\ c.cached_pool = t
         /\ c.status = (IF t = AllStreams THEN "AVAILABLE_FOR_ALL_STREAM"
                        ELSE "AVAILABLE_FOR_ALLOC_STREAM")
         /\ c.ptr = b.ptr + want /\ c.size = b.size - want
         /\ c.prev = id /\ c.next = b.next
<1>1. PICK status, next : /\ status = (IF t = AllStreams THEN "AVAILABLE_FOR_ALL_STREAM"
                                       ELSE "AVAILABLE_FOR_ALLOC_STREAM")
                          /\ next = b.next
  OBVIOUS
<1>2. PICK ptr, size : ptr = b.ptr + want /\ size = b.size - want
  OBVIOUS
<1>3. PICK lent \in BOOLEAN : ~lent
  OBVIOUS
<1>4. PICK d : d = NewBlock(ptr, size, s, lent)
  OBVIOUS
<1>5. ptr \in Int /\ size \in Nat \ {0} /\ next \in Ids \cup {NoId}
  BY <1>1, <1>2 DEF Block
<1>6. d \in Block /\ d.ptr = ptr /\ d.size = size /\ d.borrowed = lent
  BY <1>4, <1>5, NewBlockTyped
<1>7. d.cnt = 0
  BY <1>4 DEF NewBlock
<1>8. c = [d EXCEPT !.status = status, !.cached_pool = t, !.prev = id, !.next = next]
  <2>1. lent = FALSE
    BY <1>3
  <2>2. QED  BY <2>1, <1>1, <1>2, <1>4 DEF Leftover
<1>9. status \in Statuses /\ t \in {NoTable} \cup Tables /\ id \in Ids \cup {NoId}
  BY <1>1 DEF Statuses
<1>10. /\ c \in Block /\ c.cnt = d.cnt /\ c.borrowed = d.borrowed /\ c.cached_pool = t
       /\ c.status = status /\ c.ptr = d.ptr /\ c.size = d.size /\ c.prev = id
       /\ c.next = next
  BY ONLY <1>5, <1>6, <1>8, <1>9 DEF Block
<1>11. QED  BY <1>1, <1>2, <1>3, <1>6, <1>7, <1>10

\* The split keeps the list of the segment.
LEMMA BlockIsDivided ==
  ASSUME IInv, NEW t \in Tables, NEW id \in DOMAIN info, ~info[id].borrowed,
         info[id].cnt = 0, NEW s \in AnyStream, NEW want \in Nat \ {0},
         want < info[id].size, NEW rest \in Ids, rest \notin DOMAIN info,
         NEW taken, taken = Taken(info[id], s),
         NEW g, g = With(With(PointBack(info, taken.next, rest), id,
                              [taken EXCEPT !.size = want, !.next = rest]),
                         rest, Leftover(info[id], id, want, s, t))
  PROVE  Divided(g, id, rest, want, s, t)
<1>1. /\ Typed(info) /\ Linked(info) /\ id # rest /\ id # NoId /\ NoId \notin DOMAIN info
      /\ info[id] \in Block /\ id \in Ids
  BY Constants DEF IInv, Geometry, Typed
<1>2. /\ taken \in Block /\ Place(taken) = Place(info[id]) /\ taken.cnt = 0 /\ Given(taken, s)
  BY <1>1, TakenBlock
<1>3. /\ taken.ptr = info[id].ptr /\ taken.size = info[id].size
      /\ taken.prev = info[id].prev /\ taken.next = info[id].next /\ ~taken.borrowed
  BY <1>2 DEF Place
<1>4. PICK part, left : /\ part = [taken EXCEPT !.size = want, !.next = rest]
                        /\ left = Leftover(info[id], id, want, s, t)
  OBVIOUS
<1>5. /\ part \in Block /\ part.ptr = taken.ptr /\ part.size = want
      /\ part.prev = taken.prev /\ part.next = rest /\ part.borrowed = taken.borrowed
      /\ part.cnt = taken.cnt /\ part.alloc_stream = taken.alloc_stream
      /\ part.used_streams = taken.used_streams /\ part.status = taken.status
      /\ part.cached_pool = taken.cached_pool
  <2>1. want \in Nat \ {0} /\ rest \in Ids \cup {NoId} /\ taken \in Block
        /\ part = [taken EXCEPT !.size = want, !.next = rest]
    BY <1>2, <1>4
  <2>2. QED  BY ONLY <2>1 DEF Block
<1>6. Given(part, s) /\ part.cnt = 0 /\ ~part.borrowed
  BY <1>2, <1>3, <1>5 DEF Given
<1>7. /\ left \in Block /\ left.cnt = 0 /\ ~left.borrowed /\ left.cached_pool = t
      /\ left.status = (IF t = AllStreams THEN "AVAILABLE_FOR_ALL_STREAM"
                        ELSE "AVAILABLE_FOR_ALLOC_STREAM")
      /\ left.ptr = info[id].ptr + want /\ left.size = info[id].size - want
      /\ left.prev = id /\ left.next = info[id].next
  BY <1>1, <1>4, LeftoverBlock
<1>8. PICK p : p = PointBack(info, info[id].next, rest)
  OBVIOUS
<1>9. /\ DOMAIN p = DOMAIN info
      /\ \A i \in DOMAIN info : /\ i # info[id].next => p[i] = info[i]
                                /\ i = info[id].next => p[i] = [info[i] EXCEPT !.prev = rest]
  BY <1>1, <1>8 DEF PointBack, Linked
<1>10. ASSUME NEW i \in DOMAIN info
       PROVE  /\ BehindAnother(p[i], info[i])
              /\ p[i].prev = (IF i = info[id].next THEN rest ELSE info[i].prev)
  <2>1. info[i] \in Block
    BY <1>1 DEF Typed
  <2>2. CASE i = info[id].next
    <3>1. p[i] = [info[i] EXCEPT !.prev = rest] /\ rest \in Ids \cup {NoId}
      BY <2>2, <1>9
    <3>2. QED  BY ONLY <3>1, <2>1, <2>2 DEF Block, BehindAnother
  <2>3. CASE i # info[id].next
    BY <2>1, <2>3, <1>9 DEF BehindAnother
  <2>4. QED  BY <2>2, <2>3
<1>11. g = With(With(p, id, part), rest, left)
  BY <1>3, <1>4, <1>8
<1>12. /\ DOMAIN g = DOMAIN info \cup {rest} /\ g[id] = part /\ g[rest] = left
       /\ \A i \in DOMAIN info \ {id} : g[i] = p[i]
  BY <1>1, <1>9, <1>11 DEF With
<1>13. QED  BY <1>3, <1>5, <1>6, <1>7, <1>10, <1>12 DEF Divided

\* A block of which a part is taken; the rest stays in the table.
LEMMA ReuseSplit ==
  ASSUME IInv, NEW t \in Tables, NEW e \in table[t], NEW id, id = e.id,
         NEW s \in AnyStream, t \in {s, AllStreams},
         NEW want \in Nat \ {0}, want < e.size, e.size <= max_split_size, NEW rest,
         Divided(info', id, rest, want, s, t),
         table' = [table EXCEPT ![t] = (@ \ {e}) \cup {Entry(rest, info'[rest])}],
         event' = (IF t = AllStreams THEN event ELSE LeftoverEvent(id, rest)),
         held' = held \cup {id}, multi' = multi, buffers' = buffers, work' = work,
         op' = Idle, created' \in SUBSET Streams
  PROVE  IInv' /\ FreshStep /\ IdleStep
<1>f. PICK g : g = info'
  OBVIOUS
<1>1. /\ id \in DOMAIN info /\ id # NoId /\ info[id] \in Block
      /\ e = Entry(id, info[id]) /\ e.size = info[id].size /\ e.ptr = info[id].ptr
      /\ info[id].cached_pool = t /\ ~Allocated(info[id]) /\ ~info[id].borrowed
      /\ ~Waits(info[id]) /\ info[id].cnt = 0 /\ id \notin held
      /\ IF t = AllStreams THEN id \notin DOMAIN event
         ELSE id \in DOMAIN event /\ event[id].stream = t
      /\ \A u \in Streams : \A k \in DOMAIN work[u] :
           Overlap(work[u][k], info[id]) => u = t /\ k <= event[id].left
  BY Available
<1>2. /\ rest \in Ids /\ rest \notin DOMAIN info /\ DOMAIN g = DOMAIN info \cup {rest}
      /\ g[id] \in Block /\ Given(g[id], s) /\ g[id].cnt = 0 /\ ~g[id].borrowed
      /\ g[id].ptr = info[id].ptr /\ g[id].size = want /\ g[id].prev = info[id].prev
      /\ g[id].next = rest
      /\ g[rest] \in Block /\ g[rest].cnt = 0 /\ ~g[rest].borrowed
      /\ g[rest].cached_pool = t
      /\ g[rest].status = (IF t = AllStreams THEN "AVAILABLE_FOR_ALL_STREAM"
                           ELSE "AVAILABLE_FOR_ALLOC_STREAM")
      /\ g[rest].ptr = info[id].ptr + want /\ g[rest].size = info[id].size - want
      /\ g[rest].prev = id /\ g[rest].next = info[id].next
  BY <1>f DEF Divided
<1>3. ASSUME NEW i \in DOMAIN info \ {id}
      PROVE  /\ g[i] \in Block /\ g[i].ptr = info[i].ptr /\ g[i].size = info[i].size
             /\ g[i].next = info[i].next /\ g[i].borrowed = info[i].borrowed
             /\ g[i].status = info[i].status /\ g[i].cnt = info[i].cnt
             /\ g[i].cached_pool = info[i].cached_pool
             /\ g[i].used_streams = info[i].used_streams
             /\ g[i].alloc_stream = info[i].alloc_stream
             /\ g[i].prev = (IF i = info[id].next THEN rest ELSE info[i].prev)
  BY <1>f DEF Divided, BehindAnother
<1>4. /\ Allocated(g[id]) /\ ~Waits(g[id]) /\ g[id].cached_pool = NoTable
      /\ ~Allocated(g[rest]) /\ ~Waits(g[rest])
  BY <1>2 DEF Given, Allocated, Waits
<1>5. /\ Typed(info) /\ Geometry(info, buffers, work) /\ InTables(info, table)
      /\ StatusesAgree(info, NoId) /\ EventsTyped(info, event, work)
      /\ EventsAgree(info, event, NoId) /\ Foreseen(info, event, work, NoId)
      /\ Merged(info, NoId) /\ work \in [Streams -> Seq(Kernel)]
      /\ Uses(info, held) /\ Queues(info, multi, work)
  BY DEF IInv, Known
<1>c. /\ NoId \notin DOMAIN info /\ NoTable \notin Tables /\ NoTable \notin Streams
      /\ NoTable # AllStreams /\ AllStreams \notin Streams /\ rest # NoId /\ rest # id
      /\ (s \in Streams => UsedStreams(s) = {s})
      /\ (t # AllStreams => t \in Streams) /\ t # NoTable
  <2>1. /\ id \in DOMAIN info /\ rest \in Ids /\ rest \notin DOMAIN info
        /\ DOMAIN info \subseteq Ids
    BY <1>1, <1>2, <1>5 DEF Typed
  <2>2. NoId \notin DOMAIN info /\ rest # NoId /\ rest # id
    BY ONLY <2>1, Constants
  <2>3. /\ NoTable \notin Tables /\ NoTable \notin Streams
        /\ NoTable # AllStreams /\ AllStreams \notin Streams
        /\ (t # AllStreams => t \in Streams)
    BY Constants DEF Tables
  <2>4. s \in Streams => UsedStreams(s) = {s}
    BY Constants DEF UsedStreams
  <2>5. QED  BY <2>2, <2>3, <2>4
<1>6. /\ DOMAIN event' = (IF t = AllStreams THEN DOMAIN event
                          ELSE (DOMAIN event \ {id}) \cup {rest})
      /\ \A i \in DOMAIN event \ {id} : event'[i] = event[i]
      /\ t # AllStreams => event'[rest] = event[id]
      /\ rest \notin DOMAIN event
  <2>1. rest \notin DOMAIN event
    BY <1>2, <1>5 DEF EventsTyped
  <2>2. CASE t = AllStreams
    BY <2>1, <2>2
  <2>3. CASE t # AllStreams
    <3>1. event' = With(Without(event, {id}), rest, event[id])
      BY <2>3 DEF LeftoverEvent
    <3>2. QED  BY <2>1, <2>3, <3>1 DEF With, Without, Restrict
  <2>4. QED  BY <2>2, <2>3
<1>7. Typed(g)
  BY <1>2, <1>3, <1>5 DEF Typed
<1>8. Geometry(g, buffers, work) /\ \E lo, hi : Extents(g, lo, hi)
  <2>1. want < info[id].size /\ info[id].size <= max_split_size
    BY <1>1
  <2>2. PICK lo, hi : Extents(info, lo, hi)
    BY DEF IInv
  <2>3. \A i \in DOMAIN info \ {id} :
          /\ g[i].ptr = info[i].ptr /\ g[i].size = info[i].size
          /\ g[i].borrowed = info[i].borrowed /\ g[i].next = info[i].next
          /\ g[i].prev = (IF i = info[id].next THEN rest ELSE info[i].prev)
    BY <1>3
  <2>4. /\ Geometry(g, buffers, work)
        /\ \A l, h : Extents(info, l, h) /\ info[id].size <= max_split_size =>
             \E lo2, hi2 : Extents(g, lo2, hi2)
    <3>1. /\ Typed(info) /\ Geometry(info, buffers, work) /\ id \in DOMAIN info
          /\ rest \in Ids /\ rest \notin DOMAIN info /\ ~info[id].borrowed
          /\ want \in Nat \ {0} /\ want < info[id].size
          /\ DOMAIN g = DOMAIN info \cup {rest}
      BY <2>1, <1>1, <1>2, <1>5
    <3>2. /\ g[id].ptr = info[id].ptr /\ g[id].size = want
          /\ g[id].prev = info[id].prev /\ g[id].next = rest /\ ~g[id].borrowed
      BY <1>2
    <3>3. /\ g[rest].ptr = info[id].ptr + want /\ g[rest].size = info[id].size - want
          /\ g[rest].prev = id /\ g[rest].next = info[id].next /\ ~g[rest].borrowed
      BY <1>2
    <3>4. QED  BY ONLY <3>1, <3>2, <3>3, <2>3, BlockDivided
  <2>5. QED  BY <2>1, <2>2, <2>4
<1>9. InTables(g, table')
  <2>0. PICK d : d = Entry(rest, g[rest])
    OBVIOUS
  <2>1. DOMAIN table' = Tables /\ DOMAIN table = Tables
    BY <1>5 DEF InTables
  <2>2. /\ table'[t] = (table[t] \ {e}) \cup {d}
        /\ \A u \in Tables : u # t => table'[u] = table[u]
    BY <2>0, <2>1, <1>f
  <2>3. \A i \in DOMAIN info \ {id} : Entry(i, g[i]) = Entry(i, info[i])
    BY <1>3 DEF Entry
  <2>4. ASSUME NEW u \in Tables, NEW c \in table'[u]
        PROVE  /\ c.id \in DOMAIN g /\ g[c.id].cached_pool = u
               /\ c = Entry(c.id, g[c.id])
    <3>1. CASE u = t /\ c = d
      <4>1. c.id = rest
        BY <3>1, <2>0 DEF Entry
      <4>2. QED  BY <3>1, <4>1, <2>0, <1>2
    <3>2. CASE ~(u = t /\ c = d)
      <4>1. /\ c \in table[u] /\ c.id \in DOMAIN info /\ info[c.id].cached_pool = u
            /\ c = Entry(c.id, info[c.id]) /\ (u = t => c # e)
        <5>1. c \in table[u] /\ (u = t => c # e)
          BY <3>2, <2>2, <2>4
        <5>2. QED  BY <5>1, <1>5 DEF InTables
      <4>2. c.id # id
        BY <4>1, <1>1
      <4>3. QED  BY <4>1, <4>2, <2>3, <1>2, <1>3
    <3>3. QED  BY <3>1, <3>2
  <2>5. ASSUME NEW i \in DOMAIN g, g[i].cached_pool # NoTable
        PROVE  Entry(i, g[i]) \in table'[g[i].cached_pool]
    <3>1. CASE i = rest
      <4>1. Entry(i, g[i]) = d /\ g[i].cached_pool = t
        BY <3>1, <2>0, <1>2
      <4>2. d \in table'[t]
        BY <2>2
      <4>3. QED  BY <4>1, <4>2
    <3>2. CASE i # rest
      <4>1. /\ i \in DOMAIN info \ {id} /\ g[i].cached_pool = info[i].cached_pool
            /\ info[i].cached_pool # NoTable /\ info[i].cached_pool \in Tables
            /\ Entry(i, g[i]) = Entry(i, info[i])
        BY <2>3, <2>5, <3>2, <1>2, <1>3, <1>4, <1>5 DEF Typed, Block
      <4>2. Entry(i, info[i]) \in table[info[i].cached_pool]
        BY <4>1, <1>5 DEF InTables
      <4>3. Entry(i, info[i]) # e
        BY <4>1, <1>1 DEF Entry
      <4>4. QED  BY <2>2, <4>1, <4>2, <4>3
    <3>3. QED  BY <3>1, <3>2
  <2>6. QED  BY <2>1, <2>4, <2>5 DEF InTables
<1>10. StatusesAgree(g, NoId)
  <2> SUFFICES ASSUME NEW i \in DOMAIN g \ {NoId}
               PROVE  /\ g[i].cached_pool = NoTable <=> Allocated(g[i])
                      /\ g[i].cached_pool = AllStreams <=>
                           g[i].status = "AVAILABLE_FOR_ALL_STREAM"
                      /\ g[i].borrowed => g[i].cached_pool = NoTable
    BY DEF StatusesAgree
  <2>1. CASE i = id
    <3>1. g[id].status # "AVAILABLE_FOR_ALL_STREAM"
      BY <1>2 DEF Given
    <3>2. QED  BY <2>1, <3>1, <1>2, <1>4, <1>c
  <2>2. CASE i = rest
    BY <2>2, <1>2, <1>4, <1>c
  <2>3. CASE i \notin {id, rest}
    <3>1. i \in DOMAIN info \ {NoId} /\ (Allocated(g[i]) <=> Allocated(info[i]))
      BY <2>3, <1>2, <1>3 DEF Allocated
    <3>2. QED  BY <2>3, <3>1, <1>3, <1>5 DEF StatusesAgree
  <2>4. QED  BY <2>1, <2>2, <2>3
<1>11. EventsTyped(g, event', work)
  <2>1. DOMAIN event \subseteq DOMAIN info
        /\ \A i \in DOMAIN event : event[i] \in Event /\ event[i].left <= Len(work[event[i].stream])
    BY <1>5 DEF EventsTyped
  <2>2. DOMAIN event' \subseteq DOMAIN g
    BY <2>1, <1>2, <1>6
  <2>3. \A i \in DOMAIN event' :
          event'[i] \in Event /\ event'[i].left <= Len(work[event'[i].stream])
    <3>1. ASSUME NEW i \in DOMAIN event'
          PROVE  \E j \in DOMAIN event : event'[i] = event[j]
      <4>1. CASE i = rest /\ t # AllStreams
        <5>1. id \in DOMAIN event /\ event'[i] = event[id]
          BY <1>1, <1>6, <4>1
        <5>2. QED  BY ONLY <5>1
      <4>2. CASE i # rest
        <5>1. i \in DOMAIN event \ {id} \/ (i \in DOMAIN event /\ t = AllStreams)
          BY <1>6, <4>2
        <5>2. i # id
          BY <5>1, <1>1
        <5>3. i \in DOMAIN event /\ event'[i] = event[i]
          BY ONLY <5>1, <5>2, <1>6
        <5>4. QED  BY ONLY <5>3
      <4>3. CASE i = rest /\ t = AllStreams
        BY ONLY <4>3, <3>1, <1>6
      <4>4. QED  BY ONLY <4>1, <4>2, <4>3
    <3>2. QED  BY ONLY <2>1, <3>1
  <2>4. QED  BY <2>2, <2>3 DEF EventsTyped
<1>12. EventsAgree(g, event', NoId)
  <2> SUFFICES ASSUME NEW i \in DOMAIN g \ {NoId}
               PROVE  IF g[i].cached_pool \in Streams
                      THEN i \in DOMAIN event' /\ event'[i].stream = g[i].cached_pool
                      ELSE i \notin DOMAIN event'
    BY DEF EventsAgree
  <2>1. CASE i = id
    BY <2>1, <1>1, <1>4, <1>6, <1>c
  <2>2. CASE i = rest
    <3>1. g[i].cached_pool = t
      BY <2>2, <1>2
    <3>2. CASE t = AllStreams
      BY <2>2, <3>1, <3>2, <1>6, <1>c
    <3>3. CASE t # AllStreams
      <4>1. rest \in DOMAIN event' /\ event'[rest] = event[id] /\ event[id].stream = t
        BY <3>3, <1>1, <1>6
      <4>2. QED  BY <2>2, <3>1, <3>3, <4>1, <1>c
    <3>4. QED  BY <3>2, <3>3
  <2>3. CASE i \notin {id, rest}
    <3>1. i \in DOMAIN info \ {id, NoId} /\ g[i].cached_pool = info[i].cached_pool
      BY <2>3, <1>2, <1>3
    <3>2. IF info[i].cached_pool \in Streams
          THEN i \in DOMAIN event /\ event[i].stream = info[i].cached_pool
          ELSE i \notin DOMAIN event
      BY <3>1, <1>5 DEF EventsAgree
    <3>3. (i \in DOMAIN event' <=> i \in DOMAIN event)
          /\ (i \in DOMAIN event => event'[i] = event[i])
      BY <2>3, <1>6
    <3>4. QED  BY <3>1, <3>2, <3>3
  <2>4. QED  BY <2>1, <2>2, <2>3
\* Both parts are inside what was one block.
<1>13. \A u \in Streams : \A k \in DOMAIN work[u] :
         Overlap(work[u][k], g[id]) \/ Overlap(work[u][k], g[rest]) =>
           u = t /\ k <= event[id].left
  <2> SUFFICES ASSUME NEW u \in Streams, NEW k \in DOMAIN work[u],
                      Overlap(work[u][k], g[id]) \/ Overlap(work[u][k], g[rest])
               PROVE  Overlap(work[u][k], info[id])
    BY <1>1
  <2>1. work[u][k] \in Kernel
    <3>1. work[u] \in Seq(Kernel)
      BY <1>5
    <3>2. QED  BY <3>1
  <2>2. /\ work[u][k].ptr \in Int /\ work[u][k].size \in Nat
        /\ info[id].ptr \in Int /\ info[id].size \in Nat /\ want \in Nat
        /\ want < info[id].size
    BY <2>1, <1>1 DEF Kernel, Block
  <2>3. QED  BY <2>2, <1>2 DEF Overlap
<1>14. HandedOut(id, s)
  BY <1>13, <1>c, <1>f DEF HandedOut
<1>15. Foreseen(g, event', work, NoId)
  <2> SUFFICES ASSUME NEW i \in DOMAIN g \ {NoId}, NEW u \in Streams,
                      NEW k \in DOMAIN work[u], Overlap(work[u][k], g[i])
               PROVE  IF Allocated(g[i]) THEN u \in g[i].used_streams
                      ELSE u = g[i].cached_pool /\ k <= event'[i].left
    BY DEF Foreseen
  <2>1. CASE i = id
    BY <2>1, <1>2, <1>4, <1>14, <1>f DEF HandedOut, Given
  <2>2. CASE i = rest
    <3>1. u = t /\ k <= event[id].left
      BY <2>2, <1>13
    <3>2. event'[rest] = event[id]
      BY <3>1, <1>6, <1>c
    <3>3. QED  BY <2>2, <3>1, <3>2, <1>2, <1>4
  <2>3. CASE i \notin {id, rest}
    <3>1. /\ i \in DOMAIN info \ {id, NoId} /\ g[i].cached_pool = info[i].cached_pool
          /\ g[i].used_streams = info[i].used_streams
          /\ (Allocated(g[i]) <=> Allocated(info[i]))
          /\ Overlap(work[u][k], info[i])
      BY <2>3, <1>2, <1>3 DEF Allocated, Overlap
    <3>2. IF Allocated(info[i]) THEN u \in info[i].used_streams
          ELSE u = info[i].cached_pool /\ k <= event[i].left
      BY <3>1, <1>5 DEF Foreseen
    <3>3. u = info[i].cached_pool => event'[i] = event[i]
      BY <3>1, <1>5, <1>6 DEF EventsAgree
    <3>4. QED  BY <3>1, <3>2, <3>3
  <2>4. QED  BY <2>1, <2>2, <2>3
<1>16. Merged(g, NoId)
  <2> SUFFICES ASSUME NEW i \in DOMAIN g \ {NoId}, g[i].next # NoId,
                      ~Allocated(g[i]), ~Allocated(g[g[i].next])
               PROVE  Apart(g[i], g[g[i].next])
    BY DEF Merged
  <2>0. PICK n : n = g[i].next
    OBVIOUS
  <2>1. i # id /\ n # id /\ n # NoId
    BY <2>0, <1>4
  <2>2. PICK j \in DOMAIN info \ {NoId} :
          /\ info[j].next = n /\ ~Allocated(info[j])
          /\ info[j].cached_pool = g[i].cached_pool
    <3>1. CASE i = rest
      <4>1. /\ info[id].next = n /\ ~Allocated(info[id])
            /\ info[id].cached_pool = g[i].cached_pool /\ id \in DOMAIN info \ {NoId}
        <5>1. g[rest].next = info[id].next /\ g[rest].cached_pool = t
          BY ONLY <1>2
        <5>2. /\ id \in DOMAIN info /\ id # NoId /\ ~Allocated(info[id])
              /\ info[id].cached_pool = t
          BY ONLY <1>1
        <5>3. QED  BY ONLY <2>0, <3>1, <5>1, <5>2
      <4>2. QED  BY ONLY <4>1
    <3>2. CASE i # rest
      <4>1. i \in DOMAIN info \ {id, NoId}
        BY <2>1, <3>2, <1>2
      <4>2. /\ info[i].next = n /\ ~Allocated(info[i])
            /\ info[i].cached_pool = g[i].cached_pool
        BY <2>0, <4>1, <1>3 DEF Allocated
      <4>3. QED  BY <4>1, <4>2
    <3>3. QED  BY <3>1, <3>2
  <2>3. n \in DOMAIN info \ {id}
    BY <2>1, <2>2, <1>5 DEF Geometry, Linked
  <2>4. ~Allocated(info[n]) /\ g[n].cached_pool = info[n].cached_pool
    BY <2>0, <2>3, <1>3 DEF Allocated
  <2>5. Apart(info[j], info[n])
    BY <2>1, <2>2, <2>4, <1>5 DEF Merged
  <2>6. QED  BY <2>0, <2>2, <2>4, <2>5 DEF Apart
<1>17. Uses(g, held \cup {id})
  <2>1. /\ g[id].used_streams \subseteq {g[id].alloc_stream}
        /\ g[id].alloc_stream \in g[id].used_streams \/ g[id].alloc_stream = kBlockingStream
        /\ g[id].status = "OCCUPIED_BY_ALLOC_STREAM"
    BY <1>2 DEF Given, UsedStreams
  <2>2. Uses(g, held)
    <3>1. g[rest].status \notin {"OCCUPIED_BY_ALLOC_STREAM", "OCCUPIED_BY_MULTI_STREAMS"}
      BY <1>2
    <3>2. ASSUME NEW i \in DOMAIN g
          PROVE  /\ g[i].status = "OCCUPIED_BY_ALLOC_STREAM" =>
                      g[i].used_streams \subseteq {g[i].alloc_stream}
                 /\ g[i].status \in {"OCCUPIED_BY_ALLOC_STREAM",
                                     "OCCUPIED_BY_MULTI_STREAMS"} =>
                      \/ g[i].alloc_stream \in g[i].used_streams
                      \/ g[i].alloc_stream = kBlockingStream
                           /\ g[i].status = "OCCUPIED_BY_ALLOC_STREAM"
      <4>1. CASE i \in {id, rest}
        BY <2>1, <3>1, <4>1
      <4>2. CASE i \notin {id, rest}
        <5>1. i \in DOMAIN info \ {id}
          BY <4>2, <1>2
        <5>2. QED  BY <5>1, <1>3, <1>5 DEF Uses
      <4>3. QED  BY <4>1, <4>2
    <3>3. ASSUME NEW i \in held
          PROVE  /\ i \in DOMAIN g
                 /\ g[i].status \in {"OCCUPIED_BY_ALLOC_STREAM", "OCCUPIED_BY_MULTI_STREAMS"}
      <4>1. i \in DOMAIN info \ {id}
            /\ info[i].status \in {"OCCUPIED_BY_ALLOC_STREAM", "OCCUPIED_BY_MULTI_STREAMS"}
        BY <3>3, <1>1, <1>5 DEF Uses
      <4>2. QED  BY <4>1, <1>2, <1>3
    <3>4. QED  BY <3>2, <3>3 DEF Uses
  <2>3. QED  BY <2>1, <2>2, <1>1, <1>2 DEF Uses
<1>18. Queues(g, multi, work)
  <2>1. SameWaits(info, g)
    <3> SUFFICES ASSUME NEW i \in DOMAIN g
                 PROVE  IF i \in DOMAIN info
                        THEN /\ g[i].cnt = info[i].cnt /\ (Waits(g[i]) <=> Waits(info[i]))
                             /\ Waits(info[i]) => g[i].ptr = info[i].ptr
                                                  /\ g[i].size = info[i].size
                        ELSE g[i].cnt = 0 /\ ~Waits(g[i])
      BY <1>2 DEF SameWaits
    <3>1. CASE i = id
      BY <3>1, <1>1, <1>2, <1>4
    <3>2. CASE i = rest
      BY <3>2, <1>2, <1>4
    <3>3. CASE i \notin {id, rest}
      <4>1. i \in DOMAIN info \ {id}
        BY <3>3, <1>2
      <4>2. QED  BY <4>1, <1>3 DEF Waits
    <3>4. QED  BY <3>1, <3>2, <3>3
  <2>2. QED  BY <2>1, <1>5, QueuesKept
<1>19. Known(g, table', event', work, NoId)
  BY <1>9, <1>10, <1>11, <1>12, <1>15, <1>16 DEF Known
<1>20. IInv'
  <2>1. OpOK(op', info', buffers', work') /\ created' \subseteq Streams
    BY DEF OpOK
  <2>2. QED  BY <2>1, <1>f, <1>5, <1>7, <1>8, <1>17, <1>18, <1>19 DEF IInv
<1>21. FreshStep
  BY <1>f, <1>2, <1>14, GivenFresh
<1>22. IdleStep
  <2>1. \A i \in DOMAIN info : i \in DOMAIN info' /\ Overlap(info[i], info'[i])
    <3> SUFFICES ASSUME NEW i \in DOMAIN info
                 PROVE  i \in DOMAIN g /\ Overlap(info[i], g[i])
      BY <1>f
    <3>1. info[i].ptr \in Int /\ info[i].size \in Nat \ {0}
      BY <1>5 DEF Typed, Block
    <3>2. CASE i = id
      BY <3>1, <3>2, <1>2 DEF Overlap
    <3>3. CASE i # id
      BY <3>1, <3>3, <1>2, <1>3 DEF Overlap
    <3>4. QED  BY <3>2, <3>3
  <2>2. QED  BY <2>1 DEF IdleStep
<1>23. QED  BY <1>20, <1>21, <1>22

\* FinishAlloc keeps the invariant.
LEMMA FinishAllocKeeps ==
  ASSUME IInv, FinishAlloc
  PROVE  IInv' /\ FreshStep /\ IdleStep
<1>f. PICK size, s, t : size = op.size /\ s = op.stream /\ t = ReuseTable(op.size, op.stream)
  OBVIOUS
<1>0. /\ op.call = "alloc" /\ created' = created \cup UsedStreams(s) /\ work' = work
      /\ IF t # NoTable
         THEN Reuse(t, size, s) /\ op' = Idle /\ UNCHANGED buffers
         ELSE IF Fits(size, Segments)
         THEN NewSegment(size, s, {}) /\ op' = Idle
         ELSE /\ op' = [op EXCEPT !.waiting = TRUE, !.at = 1]
              /\ UNCHANGED <<info, table, event, multi, allocated, reserved, held, buffers>>
  BY <1>f DEF FinishAlloc
<1>1. /\ size \in Nat \ {0} /\ s \in AnyStream
      /\ op \in [call : {"alloc", "buffer"}, size : Nat \ {0}, stream : AnyStream,
                 at : Nat, waiting : BOOLEAN]
  BY <1>0, <1>f DEF IInv, OpOK, Idle, Aborted
<1>2. created' \in SUBSET Streams /\ created \subseteq Streams
  BY <1>0, <1>1 DEF IInv, UsedStreams, AnyStream
<1>3. CASE t # NoTable
  <2>1. t \in Tables /\ t \in {s, AllStreams} /\ FindAvailable(t, size) # {}
    BY <1>2, <1>3, <1>f DEF ReuseTable, Tables
  <2>2. PICK e, id, rest : /\ e = (CHOOSE x \in FindAvailable(t, size) : TRUE)
                           /\ id = e.id /\ rest = NewIdIn(info)
    OBVIOUS
  <2>3. e \in table[t] /\ e.size >= size
    BY <2>1, <2>2 DEF FindAvailable
  <2>4. /\ id \in DOMAIN info /\ info[id] \in Block /\ ~info[id].borrowed
        /\ info[id].cnt = 0 /\ e.size = info[id].size /\ e.ptr = info[id].ptr
    BY <2>1, <2>2, <2>3, Available
  <2>5. PICK taken : taken = Taken(info[id], s)
    OBVIOUS
  <2>6. taken.next = info[id].next
    BY <2>4, <2>5, <1>1, TakenBlock DEF Place
  <2>7. /\ held' = held \cup {id} /\ multi' = multi /\ op' = Idle /\ buffers' = buffers
        /\ IF ShouldSplit(e.size, size)
           THEN /\ IdLeft(info)
                /\ info' = With(With(PointBack(info, taken.next, rest), id,
                                     [taken EXCEPT !.size = size, !.next = rest]),
                                rest, Leftover(info[id], id, size, s, t))
                /\ table' = [table EXCEPT ![t] =
                               (@ \ {e}) \cup {Entry(rest, Leftover(info[id], id, size, s, t))}]
                /\ event' = IF t = AllStreams THEN event ELSE LeftoverEvent(id, rest)
           ELSE /\ info' = [info EXCEPT ![id] = taken]
                /\ table' = [table EXCEPT ![t] = @ \ {e}]
                /\ event' = IF t = AllStreams THEN event ELSE Without(event, {id})
    BY <1>0, <1>3, <2>2, <2>4, <2>5, <2>6 DEF Reuse, Taken, Leftover, NewId
  <2>8. CASE ShouldSplit(e.size, size)
    <3>1. size < e.size /\ e.size <= max_split_size
      BY <2>4, <2>8, <1>1, Constants DEF ShouldSplit, Block
    <3>2. rest \in Ids /\ rest \notin DOMAIN info
      BY <2>2, <2>7, <2>8, NewIdFree
    <3>3. Divided(info', id, rest, size, s, t)
      BY <2>1, <2>4, <2>5, <2>7, <2>8, <3>1, <3>2, <1>1, BlockIsDivided
    <3>4. info'[rest] = Leftover(info[id], id, size, s, t)
      BY <2>7, <2>8 DEF With
    <3>5. table' = [table EXCEPT ![t] = (@ \ {e}) \cup {Entry(rest, info'[rest])}]
          /\ event' = (IF t = AllStreams THEN event ELSE LeftoverEvent(id, rest))
      BY <2>7, <2>8, <3>4
    <3>6. /\ held' = held \cup {id} /\ multi' = multi /\ buffers' = buffers
          /\ work' = work /\ op' = Idle /\ id = e.id /\ e \in table[t]
      BY <1>0, <2>2, <2>3, <2>7
    <3>7. QED  BY <3>1, <3>3, <3>5, <3>6, <1>1, <1>2, <2>1, ReuseSplit
  <2>9. CASE ~ShouldSplit(e.size, size)
    BY <1>0, <1>1, <1>2, <2>1, <2>2, <2>3, <2>5, <2>7, <2>9, ReuseWhole
  <2>10. QED  BY <2>8, <2>9
<1>4. CASE t = NoTable /\ Fits(size, Segments)
  <2>1. Releasable({})
    BY DEF Releasable
  <2>2. NewSegment(size, s, {}) /\ op' = Idle
    BY <1>0, <1>4
  <2>3. QED  BY <1>0, <1>1, <1>2, <2>1, <2>2, SegmentKeeps
<1>5. CASE t = NoTable /\ ~Fits(size, Segments)
  <2>1. /\ op' = [op EXCEPT !.waiting = TRUE, !.at = 1]
        /\ info' = info /\ table' = table /\ event' = event /\ multi' = multi
        /\ held' = held /\ buffers' = buffers
    BY <1>0, <1>5
  <2>2. op' \in [call : {"alloc", "buffer"}, size : Nat \ {0}, stream : AnyStream,
                 at : Nat, waiting : BOOLEAN]
    BY <1>1, <2>1
  <2>3. OpOK(op', info', buffers', work')
    BY <2>2 DEF OpOK
  <2>4. IInv'
    BY <1>0, <1>2, <2>1, <2>3 DEF IInv
  <2>5. FreshStep /\ IdleStep
    BY <2>1, IdleAnyway DEF FreshStep
  <2>6. QED  BY <2>4, <2>5
<1>6. QED  BY <1>3, <1>4, <1>5

-----------------------------------------------------------------------------
(* Every step *)

\* The invariant holds at first,
LEMMA InitHolds ==
  ASSUME Init
  PROVE  IInv
<1>1. /\ DOMAIN info = {} /\ DOMAIN event = {} /\ held = {} /\ buffers = {}
      /\ DOMAIN table = Tables /\ \A t \in Tables : table[t] = {}
      /\ \A s \in Streams : multi[s] = << >> /\ work[s] = << >>
      /\ work \in [Streams -> Seq(Kernel)]
      /\ multi \in [Streams -> Seq([id : Ids, left : Nat])]
      /\ op = Idle
  BY DEF Init, Tables
<1>2. Typed(info)
  BY <1>1 DEF Typed
<1>3. Geometry(info, buffers, work)
  BY <1>1 DEF Geometry, Linked, Disjoint, Lent, BuffersApart, Backed
<1>4. \E lo, hi : Extents(info, lo, hi)
  <2>1. PICK lo : lo = [i \in Ids |-> 0]
    OBVIOUS
  <2>2. Extents(info, lo, lo)
    BY <1>1, <2>1 DEF Extents
  <2>3. QED  BY <2>2
<1>5. Known(info, table, event, work, NoId)
  BY <1>1 DEF Known, InTables, StatusesAgree, EventsTyped, EventsAgree, Foreseen, Merged
<1>6. created \subseteq Streams
  BY SizesAssumption DEF Init
<1>7. Uses(info, held) /\ Queues(info, multi, work)
  BY <1>1 DEF Uses, Queues
<1>8. OpOK(op, info, buffers, work)
  BY <1>1 DEF OpOK
<1>9. QED  BY <1>1, <1>2, <1>3, <1>4, <1>5, <1>6, <1>7, <1>8 DEF IInv

\* and every step keeps it.
LEMMA StepKeeps ==
  ASSUME IInv, [Next]_vars
  PROVE  IInv' /\ FreshStep /\ IdleStep
<1>1. ASSUME NEW size \in RequestSizes, NEW s \in {kBlockingStream} \cup Streams,
             CallAlloc(size, s)
      PROVE  IInv' /\ FreshStep /\ IdleStep
  BY <1>1, CallAllocKeeps
<1>2. ASSUME NEW size \in BorrowSizes, NEW s \in {kBlockingStream} \cup Streams,
             CallBorrow(size, PtrElsewhere(size), s)
      PROVE  IInv' /\ FreshStep /\ IdleStep
  <2>1. size \in Nat \ {0} /\ s \in AnyStream
    BY SizesAssumption DEF AnyStream
  <2>2. PtrElsewhere(size) = -size /\ PtrElsewhere(size) \in Int
    BY <2>1 DEF PtrElsewhere
  <2>3. QED  BY <1>2, <2>1, <2>2, CallBorrowKeeps
<1>3. ASSUME NEW size \in BufferSizes, CallBuffer(size)
      PROVE  IInv' /\ FreshStep /\ IdleStep
  BY <1>3, CallBufferKeeps
<1>4. ASSUME NEW b \in buffers, CallBorrow(b.size, b.ptr, kBlockingStream)
      PROVE  IInv' /\ FreshStep /\ IdleStep
  <2>1. /\ b \in [ptr : Nat, size : Nat \ {0}]
    BY DEF IInv, Geometry, BuffersApart
  <2>2. /\ b.size \in Nat \ {0} /\ b.ptr \in Int /\ kBlockingStream \in AnyStream
        /\ [ptr |-> b.ptr, size |-> b.size] \in buffers
    BY <2>1 DEF AnyStream
  <2>3. QED  BY <1>4, <2>2, CallBorrowKeeps
<1>5. ASSUME CallEmptyCache
      PROVE  IInv' /\ FreshStep /\ IdleStep
  BY <1>5, CallEmptyKeeps
<1>6. ASSUME NEW id \in held, FreeDataSpace(id)
      PROVE  IInv' /\ FreshStep /\ IdleStep
  BY <1>6, FreeKeeps
<1>7. ASSUME NEW id \in held, NEW s \in Streams, UseOn(id, s)
      PROVE  IInv' /\ FreshStep /\ IdleStep
  BY <1>7, UseOnKeeps
<1>8. CASE Proceed
  BY <1>8, WatchKeeps, FinishAllocKeeps, WaitKeeps, ReleaseAllKeeps, BorrowKeeps DEF Proceed
<1>9. ASSUME NEW s \in Streams, Complete(s)
      PROVE  IInv' /\ FreshStep /\ IdleStep
  BY <1>9, CompleteKeeps
<1>10. CASE UNCHANGED vars
  <2>1. /\ UNCHANGED <<poolVars, held, buffers, work>> /\ op' = op
    BY <1>10 DEF vars
  <2>2. OpOK(op', info, buffers, work)
    BY <2>1 DEF IInv
  <2>3. QED  BY <2>1, <2>2, Called
<1>11. CASE Call
  BY <1>1, <1>2, <1>3, <1>4, <1>5, <1>6, <1>7, <1>11 DEF Call
<1>12. QED  BY <1>8, <1>9, <1>10, <1>11 DEF Next

\* EmptyCache ends with ReleaseAll and with nothing else.
LEMMA StepEmpties ==
  ASSUME IInv, [Next]_vars
  PROVE  EmptyStep
<1> SUFFICES ASSUME op.call = "empty", op' = Idle
             PROVE  EmptyStep
  BY DEF EmptyStep
<1>1. op # Idle /\ op' # op
  BY DEF Idle
<1>2. ~Call
  BY <1>1 DEF Call, CallAlloc, CallBorrow, CallBuffer, CallEmptyCache, FreeDataSpace, UseOn
<1>3. \A s \in Streams : ~Complete(s)
  BY <1>1 DEF Complete
<1>4. ~WatchEvent
  <2>1. OpOK(op, info, buffers, work)
    BY DEF IInv
  <2>2. op \in [call : {"empty"}, at : Nat]
    BY <2>1 DEF OpOK, Idle, Aborted
  <2>3. \A k : [op EXCEPT !.at = k].call = "empty"
    BY <2>2
  <2>4. QED  BY <2>3 DEF WatchEvent, Idle
<1>5. ~FinishAlloc /\ ~Wait /\ ~FinishBorrow
  BY DEF FinishAlloc, Wait, FinishBorrow
<1>6. ReleaseAll
  BY <1>1, <1>2, <1>3, <1>4, <1>5 DEF Next, Proceed, vars
<1>7. QED  BY <1>6, ReleaseAllKeeps

-----------------------------------------------------------------------------
(* What IInv says *)

\* The properties follow from the invariant.
LEMMA Tiled ==
  ASSUME IInv
  PROVE  BlocksTile
BY DEF IInv, Geometry, Linked, Disjoint, BuffersApart, BlocksTile

LEMMA TablesAgree ==
  ASSUME IInv
  PROVE  TablesMatchInfo
<1>1. InTables(info, table) /\ StatusesAgree(info, NoId) /\ NoId \notin DOMAIN info
      /\ NoTable \notin Tables
  BY Constants DEF IInv, Known, Typed, Tables
<1>2. ASSUME NEW t \in Tables
      PROVE  table[t] = {Entry(i, info[i]) : i \in {j \in DOMAIN info :
                                                     info[j].cached_pool = t}}
  <2>1. ASSUME NEW e \in table[t]
        PROVE  \E i \in {j \in DOMAIN info : info[j].cached_pool = t} :
                 e = Entry(i, info[i])
    BY <2>1, <1>1 DEF InTables
  <2>2. ASSUME NEW i \in DOMAIN info, info[i].cached_pool = t
        PROVE  Entry(i, info[i]) \in table[t]
    BY <2>2, <1>1 DEF InTables
  <2>3. QED  BY <2>1, <2>2
<1>3. \A i \in DOMAIN info :
        /\ info[i].cached_pool = NoTable <=> Allocated(info[i])
        /\ info[i].cached_pool = AllStreams <=> info[i].status = "AVAILABLE_FOR_ALL_STREAM"
  BY <1>1 DEF StatusesAgree
<1>4. DOMAIN table = Tables
  BY <1>1 DEF InTables
<1>5. QED  BY <1>2, <1>3, <1>4 DEF TablesMatchInfo

LEMMA EventsMatch ==
  ASSUME IInv
  PROVE  EventsMatchTables /\ EventCountsMatch /\ NoMergeMissed
<1>1. /\ EventsAgree(info, event, NoId) /\ Merged(info, NoId) /\ Queues(info, multi, work)
      /\ NoId \notin DOMAIN info
  BY Constants DEF IInv, Known, Typed
<1>2. EventsMatchTables
  BY <1>1 DEF EventsAgree, EventsMatchTables
<1>3. EventCountsMatch
  <2>1. \A i : QueuedOn(i) = On(multi, i)
    BY DEF QueuedOn, On
  <2>2. QED  BY <2>1, <1>1 DEF Queues, EventCountsMatch
<1>4. NoMergeMissed
  BY <1>1 DEF Merged, Apart, NoMergeMissed
<1>5. QED  BY <1>2, <1>3, <1>4

LEMMA Covered ==
  ASSUME IInv
  PROVE  EventCoversWork
BY FreeTouched DEF EventCoversWork, Touched

-----------------------------------------------------------------------------
(* Sums of sizes.  A sum over a set is that of its parts, in whatever order   *)
(* CHOOSE takes them: of sets for which it were not, take a least one.        *)

\* Of the sets of a collection within a finite set, one contains no other.
LEMMA LeastSet ==
  ASSUME NEW U, IsFiniteSet(U), NEW T, T \subseteq SUBSET U, T # {}
  PROVE  \E s \in T : \A t \in T : t \subseteq s => t = s
<1>1. T \subseteq FiniteSubsetsOf(U)
  BY FS_Subset DEF FiniteSubsetsOf
<1>2. IsWellFoundedOn(StrictSubsetOrdering(U), FiniteSubsetsOf(U))
  BY FS_StrictSubsetOrderingWellFounded
<1>3. PICK s \in T : \A t \in T : <<t, s>> \notin StrictSubsetOrdering(U)
  BY <1>1, <1>2, WFMin
<1>4. \A t \in T : t \subseteq s => t = s
  BY <1>3 DEF StrictSubsetOrdering
<1>5. QED  BY <1>4

One(s) == CHOOSE x \in s : TRUE
IsSum(U, g) ==
  g = [s \in SUBSET U |-> IF s = {} THEN 0 ELSE One(s).size + g[s \ {One(s)}]]

\* MapThenSumSet is such a function, chosen for the whole set.
LEMMA SumIs ==
  ASSUME NEW S
  PROVE  SumSizes(S) = (CHOOSE g : IsSum(S, g))[S]
<1>1. SumSizes(S) =
        (CHOOSE g : g = [s \in SUBSET S |->
                           IF s = {} THEN 0
                           ELSE LET x == CHOOSE y \in s : TRUE
                                IN  x.size + g[s \ {x}]])[S]
  BY ZenonT(20) DEF SumSizes, MapThenSumSet, MapThenFoldSet
<1>2. QED  BY <1>1, Zenon DEF IsSum, One

\* Such a function takes one size at a time.
LEMMA SumAt ==
  ASSUME NEW U, NEW g, IsSum(U, g)
  PROVE  /\ g[{}] = 0
         /\ \A s \in SUBSET U : s # {} => /\ One(s) \in s
                                         /\ g[s] = One(s).size + g[s \ {One(s)}]
<1>1. PICK G : G = [s \in SUBSET U |-> IF s = {} THEN 0 ELSE One(s).size + g[s \ {One(s)}]]
  OBVIOUS
<1>2. g = G
  BY <1>1 DEF IsSum
<1>3. \A s \in SUBSET U : g[s] = IF s = {} THEN 0 ELSE One(s).size + g[s \ {One(s)}]
  BY <1>1, <1>2
<1>4. \A s : s # {} => One(s) \in s
  BY DEF One
<1>5. QED  BY <1>3, <1>4

\* Such functions agree where both are defined,
LEMMA SumUnique ==
  ASSUME NEW U, IsFiniteSet(U), NEW W \in SUBSET U, NEW g, NEW h,
         IsSum(U, g), IsSum(W, h), NEW s \in SUBSET W
  PROVE  g[s] = h[s]
<1> DEFINE T == {t \in SUBSET W : g[t] # h[t]}
<1> SUFFICES ASSUME T # {} PROVE FALSE
  OBVIOUS
<1>1. PICK t \in T : \A u \in T : u \subseteq t => u = t
  <2>1. IsFiniteSet(W) /\ T \subseteq SUBSET W
    BY FS_Subset
  <2> HIDE DEF T
  <2>2. QED  BY <2>1, LeastSet
<1>2. t \in SUBSET W /\ t \in SUBSET U /\ g[t] # h[t]
  OBVIOUS
<1>3. t # {}
  BY <1>2, SumAt
<1>4. /\ One(t) \in t /\ g[t] = One(t).size + g[t \ {One(t)}]
      /\ h[t] = One(t).size + h[t \ {One(t)}]
  BY <1>2, <1>3, SumAt
<1>5. t \ {One(t)} \notin T
  <2>1. t \ {One(t)} \subseteq t /\ t \ {One(t)} # t
    BY <1>4
  <2> HIDE DEF T
  <2>2. QED  BY <2>1, <1>1
<1>6. g[t \ {One(t)}] = h[t \ {One(t)}]
  BY <1>2, <1>5
<1>7. QED  BY <1>2, <1>4, <1>6

\* and there is one for every finite set.
LEMMA SumExists ==
  ASSUME NEW U, IsFiniteSet(U)
  PROVE  \E g : IsSum(U, g)
<1> DEFINE T == {V \in SUBSET U : ~\E g : IsSum(V, g)}
<1> SUFFICES ASSUME T # {} PROVE FALSE
  OBVIOUS
<1>1. PICK V \in T : \A u \in T : u \subseteq V => u = V
  <2>1. T \subseteq SUBSET U
    OBVIOUS
  <2> HIDE DEF T
  <2>2. QED  BY <2>1, LeastSet
<1>2. V \in SUBSET U /\ ~\E g : IsSum(V, g)
  OBVIOUS
<1> DEFINE h(W) == CHOOSE g : IsSum(W, g)
<1>3. ASSUME NEW W \in SUBSET V, W # V
      PROVE  IsSum(W, h(W)) /\ IsFiniteSet(W)
  <2>1. W \notin T /\ W \in SUBSET U
    <3> HIDE DEF T
    <3>1. QED  BY <1>1, <1>2, <1>3
  <2>2. \E g : IsSum(W, g)
    BY <2>1
  <2>3. QED  BY <2>1, <2>2, FS_Subset
<1> HIDE DEF T, h
<1>4. PICK g : g = [s \in SUBSET V |-> IF s = {} THEN 0
                                      ELSE One(s).size + h(s \ {One(s)})[s \ {One(s)}]]
  OBVIOUS
<1>5. ASSUME NEW s \in SUBSET V, s # V
      PROVE  g[s] = h(s)[s]
  <2>0. IsSum(s, h(s)) /\ IsFiniteSet(s) /\ s \in SUBSET s
    BY <1>3, <1>5
  <2>1. CASE s = {}
    BY <2>0, <2>1, <1>4, SumAt
  <2>2. CASE s # {}
    <3>1. PICK r : r = s \ {One(s)}
      OBVIOUS
    <3>2. One(s) \in s /\ h(s)[s] = One(s).size + h(s)[r]
      BY <2>0, <2>2, <3>1, SumAt
    <3>3. r \in SUBSET V /\ r # V /\ r \in SUBSET s /\ r \in SUBSET r
      BY <3>1, <3>2
    <3>4. IsSum(r, h(r))
      BY <3>3, <1>3
    <3>5. h(s)[r] = h(r)[r]
      BY <2>0, <3>3, <3>4, SumUnique
    <3>6. g[s] = One(s).size + h(r)[r]
      BY <1>4, <2>2, <3>1
    <3>7. QED  BY <3>2, <3>5, <3>6
  <2>3. QED  BY <2>1, <2>2
<1>6. \A s \in SUBSET V : s # {} => h(s \ {One(s)})[s \ {One(s)}] = g[s \ {One(s)}]
  <2> SUFFICES ASSUME NEW s \in SUBSET V, s # {}
               PROVE  h(s \ {One(s)})[s \ {One(s)}] = g[s \ {One(s)}]
    OBVIOUS
  <2>1. One(s) \in s
    BY DEF One
  <2>2. s \ {One(s)} \in SUBSET V /\ s \ {One(s)} # V
    BY <2>1
  <2>3. QED  BY <2>2, <1>5
<1>7. g = [s \in SUBSET V |-> IF s = {} THEN 0 ELSE One(s).size + g[s \ {One(s)}]]
  BY <1>4, <1>6
<1>8. QED  BY <1>2, <1>7 DEF IsSum

\* What the fold computes.
LEMMA SumStep ==
  ASSUME NEW S, IsFiniteSet(S)
  PROVE  /\ S = {} => SumSizes(S) = 0
         /\ S # {} => /\ One(S) \in S
                      /\ SumSizes(S) = One(S).size + SumSizes(S \ {One(S)})
<1>1. PICK g : IsSum(S, g) /\ SumSizes(S) = g[S]
  <2>1. IsSum(S, CHOOSE g : IsSum(S, g))
    BY SumExists
  <2>2. QED  BY <2>1, SumIs
<1>2. CASE S = {}
  BY <1>1, <1>2, SumAt
<1>3. CASE S # {}
  <2>1. One(S) \in S /\ g[S] = One(S).size + g[S \ {One(S)}] /\ S \in SUBSET S
    BY <1>1, <1>3, SumAt
  <2>2. PICK r : r = S \ {One(S)}
    OBVIOUS
  <2>3. r \in SUBSET S /\ IsFiniteSet(r)
    BY <2>2, FS_Subset
  <2>4. PICK h : IsSum(r, h) /\ SumSizes(r) = h[r]
    <3>1. IsSum(r, CHOOSE k : IsSum(r, k))
      BY <2>3, SumExists
    <3>2. QED  BY <3>1, SumIs
  <2>5. g[r] = h[r]
    BY <1>1, <2>3, <2>4, SumUnique
  <2>6. QED  BY <1>1, <1>3, <2>1, <2>2, <2>4, <2>5
<1>4. QED  BY <1>2, <1>3

Sized(S) == \A x \in S : x.size \in Nat

\* A sum of sizes is a size.
LEMMA SumTyped ==
  ASSUME NEW S, IsFiniteSet(S), Sized(S)
  PROVE  SumSizes(S) \in Nat
<1> DEFINE T == {s \in SUBSET S : SumSizes(s) \notin Nat}
<1> SUFFICES ASSUME T # {} PROVE FALSE
  OBVIOUS
<1>1. PICK s \in T : \A t \in T : t \subseteq s => t = s
  <2>1. T \subseteq SUBSET S
    OBVIOUS
  <2> HIDE DEF T
  <2>2. QED  BY <2>1, LeastSet
<1>2. s \in SUBSET S /\ SumSizes(s) \notin Nat /\ IsFiniteSet(s)
  BY FS_Subset
<1>3. PICK o, r : o = One(s) /\ r = s \ {One(s)}
  OBVIOUS
<1>4. o \in s /\ SumSizes(s) = o.size + SumSizes(r)
  BY <1>2, <1>3, SumStep
<1>5. r \in SUBSET S /\ r \subseteq s /\ r # s
  BY <1>2, <1>3, <1>4
<1>6. SumSizes(r) \in Nat
  <2>1. r \notin T
    <3> HIDE DEF T
    <3>1. QED  BY <1>1, <1>5
  <2>2. QED  BY <2>1, <1>5
<1>7. o.size \in Nat
  BY <1>2, <1>4 DEF Sized
<1>8. QED  BY <1>2, <1>4, <1>6, <1>7

\* Any member may be taken first,
LEMMA SumTake ==
  ASSUME NEW S, IsFiniteSet(S), Sized(S), NEW x \in S
  PROVE  SumSizes(S) = x.size + SumSizes(S \ {x})
<1> DEFINE T == {s \in SUBSET S : \E y \in s : SumSizes(s) # y.size + SumSizes(s \ {y})}
<1> SUFFICES ASSUME T # {} PROVE FALSE
  <2>1. S \notin T
    OBVIOUS
  <2>2. QED  BY <2>1
<1>1. PICK s \in T : \A t \in T : t \subseteq s => t = s
  <2>1. T \subseteq SUBSET S
    OBVIOUS
  <2> HIDE DEF T
  <2>2. QED  BY <2>1, LeastSet
<1>2. s \in SUBSET S /\ IsFiniteSet(s)
  BY FS_Subset
<1>3. PICK y \in s : SumSizes(s) # y.size + SumSizes(s \ {y})
  OBVIOUS
<1>4. PICK o : o = One(s)
  OBVIOUS
<1>5. o \in s /\ SumSizes(s) = o.size + SumSizes(s \ {o})
  BY <1>2, <1>3, <1>4, SumStep
<1>6. ASSUME NEW t \in SUBSET s, t # s, NEW z \in t
      PROVE  SumSizes(t) = z.size + SumSizes(t \ {z})
  <2>1. t \notin T /\ t \in SUBSET S
    <3> HIDE DEF T
    <3>1. QED  BY <1>1, <1>2, <1>6
  <2>2. QED  BY <2>1, <1>6
<1> HIDE DEF T
<1>7. y # o
  BY <1>3, <1>5
<1>8. PICK a, b, c : a = s \ {o} /\ b = s \ {y} /\ c = s \ {o, y}
  OBVIOUS
<1>9. /\ a \in SUBSET s /\ a # s /\ y \in a /\ a \ {y} = c
      /\ b \in SUBSET s /\ b # s /\ o \in b /\ b \ {o} = c
  BY <1>3, <1>5, <1>7, <1>8
<1>10. SumSizes(a) = y.size + SumSizes(c) /\ SumSizes(b) = o.size + SumSizes(c)
  BY <1>6, <1>9
<1>11. SumSizes(c) \in Nat /\ y.size \in Nat /\ o.size \in Nat
  <2>1. c \in SUBSET S
    BY <1>2, <1>8
  <2>2. IsFiniteSet(c) /\ Sized(c)
    BY <2>1, FS_Subset DEF Sized
  <2>3. QED  BY <2>2, <1>2, <1>3, <1>5, SumTyped DEF Sized
<1>12. QED  BY <1>3, <1>5, <1>8, <1>10, <1>11

\* and any part of the set.
LEMMA SumLess ==
  ASSUME NEW S, IsFiniteSet(S), Sized(S), NEW R \in SUBSET S
  PROVE  SumSizes(S \ R) = SumSizes(S) - SumSizes(R)
<1> DEFINE T == {r \in SUBSET S : SumSizes(S \ r) # SumSizes(S) - SumSizes(r)}
<1> SUFFICES ASSUME T # {} PROVE FALSE
  OBVIOUS
<1>1. PICK r \in T : \A t \in T : t \subseteq r => t = r
  <2>1. T \subseteq SUBSET S
    OBVIOUS
  <2> HIDE DEF T
  <2>2. QED  BY <2>1, LeastSet
<1>2. r \in SUBSET S /\ SumSizes(S \ r) # SumSizes(S) - SumSizes(r)
  OBVIOUS
<1>3. \A s \in SUBSET S : IsFiniteSet(s) /\ Sized(s) /\ SumSizes(s) \in Nat
  <2> SUFFICES ASSUME NEW s \in SUBSET S
               PROVE  IsFiniteSet(s) /\ Sized(s) /\ SumSizes(s) \in Nat
    OBVIOUS
  <2>1. IsFiniteSet(s) /\ Sized(s)
    BY FS_Subset DEF Sized
  <2>2. QED  BY <2>1, SumTyped
<1>4. r # {}
  <2>1. SumSizes({}) = 0 /\ S \ {} = S /\ SumSizes(S) \in Nat
    BY <1>3, FS_EmptySet, SumStep
  <2>2. QED  BY <2>1, <1>2
<1>5. PICK x, q : x \in r /\ q = r \ {x}
  BY <1>4
<1>6. q \in SUBSET S /\ q \subseteq r /\ q # r /\ x \in S
  BY <1>2, <1>5
<1>7. SumSizes(S \ q) = SumSizes(S) - SumSizes(q)
  <2>1. q \notin T
    <3> HIDE DEF T
    <3>1. QED  BY <1>1, <1>6
  <2>2. QED  BY <2>1, <1>6
<1> HIDE DEF T
<1>8. SumSizes(r) = x.size + SumSizes(q)
  BY <1>2, <1>3, <1>5, SumTake
<1>9. PICK a, b : a = S \ q /\ b = S \ r
  OBVIOUS
<1>10. a \in SUBSET S /\ b \in SUBSET S /\ x \in a /\ a \ {x} = b
  BY <1>2, <1>5, <1>6, <1>9
<1>11. SumSizes(a) = x.size + SumSizes(b)
  <2>1. IsFiniteSet(a) /\ Sized(a)
    BY <1>3, <1>10
  <2>2. SumSizes(a) = x.size + SumSizes(a \ {x})
    BY <2>1, <1>10, SumTake
  <2>3. QED  BY <2>2, <1>10
<1>12. /\ SumSizes(a) \in Nat /\ SumSizes(b) \in Nat /\ SumSizes(S) \in Nat
       /\ SumSizes(r) \in Nat /\ SumSizes(q) \in Nat /\ x.size \in Nat
  BY <1>2, <1>3, <1>6, <1>10 DEF Sized
<1>13. QED  BY <1>2, <1>7, <1>8, <1>9, <1>11, <1>12

\* As many as the members of a finite set are finitely many.
LEMMA ImageFinite ==
  ASSUME NEW D, IsFiniteSet(D), NEW e
  PROVE  IsFiniteSet({e[i] : i \in D})
<1>1. PICK k, R : k = [i \in D |-> e[i]] /\ R = {e[i] : i \in D}
  OBVIOUS
<1>2. k \in Surjection(D, R)
  BY <1>1 DEF Surjection
<1>3. QED  BY <1>1, <1>2, FS_Surjection

\* Sums of two families with the same sizes, neither of which repeats a member.
LEMMA SumSame ==
  ASSUME NEW D, IsFiniteSet(D), NEW e, NEW h,
         \A i, j \in D : i # j => e[i] # e[j] /\ h[i] # h[j],
         \A i \in D : e[i].size = h[i].size /\ h[i].size \in Nat
  PROVE  SumSizes({e[i] : i \in D}) = SumSizes({h[i] : i \in D})
<1> DEFINE Of(k, s) == {k[i] : i \in s}
           T == {s \in SUBSET D : SumSizes(Of(e, s)) # SumSizes(Of(h, s))}
<1> SUFFICES ASSUME T # {} PROVE FALSE
  OBVIOUS
<1>1. PICK s \in T : \A t \in T : t \subseteq s => t = s
  <2>1. T \subseteq SUBSET D
    OBVIOUS
  <2> HIDE DEF T
  <2>2. QED  BY <2>1, LeastSet
<1>2. s \in SUBSET D /\ SumSizes(Of(e, s)) # SumSizes(Of(h, s))
  OBVIOUS
<1>3. IsFiniteSet(Of(e, s)) /\ IsFiniteSet(Of(h, s))
  <2>1. IsFiniteSet(s)
    BY <1>2, FS_Subset
  <2>2. IsFiniteSet(Of(e, s))
    BY <2>1, ImageFinite
  <2>3. IsFiniteSet(Of(h, s))
    BY <2>1, ImageFinite
  <2>4. QED  BY <2>2, <2>3
<1>4. Sized(Of(e, s)) /\ Sized(Of(h, s))
  BY <1>2 DEF Sized
<1>5. s # {}
  BY <1>2
<1>6. PICK x, r : x \in s /\ r = s \ {x}
  BY <1>5
<1>7. SumSizes(Of(e, r)) = SumSizes(Of(h, r))
  <2>1. r \subseteq s /\ r # s /\ r \in SUBSET D
    BY <1>2, <1>6
  <2>2. r \notin T
    <3> HIDE DEF T
    <3>1. QED  BY <2>1, <1>1
  <2>3. QED  BY <2>1, <2>2
<1>8. /\ e[x] \in Of(e, s) /\ Of(e, s) \ {e[x]} = Of(e, r)
      /\ h[x] \in Of(h, s) /\ Of(h, s) \ {h[x]} = Of(h, r)
  BY <1>2, <1>6
<1>9. e[x].size = h[x].size
  BY <1>2, <1>6
<1> HIDE DEF Of, T
<1>10. /\ SumSizes(Of(e, s)) = e[x].size + SumSizes(Of(e, r))
       /\ SumSizes(Of(h, s)) = h[x].size + SumSizes(Of(h, r))
  BY <1>3, <1>4, <1>8, SumTake
<1>11. QED  BY <1>2, <1>7, <1>9, <1>10

-----------------------------------------------------------------------------
(* The memory of blocks. *)

Entries(f, D) == {Entry(i, f[i]) : i \in D}
Total(f, D) == SumSizes(Entries(f, D))
Measured(f, D) == IsFiniteSet(D) /\ \A i \in D : f[i].size \in Nat

\* The entries of blocks are as many as these, and as large.
LEMMA EntriesMeasured ==
  ASSUME NEW f, NEW D, Measured(f, D)
  PROVE  IsFiniteSet(Entries(f, D)) /\ Sized(Entries(f, D))
<1>1. PICK e : e = [i \in D |-> Entry(i, f[i])]
  OBVIOUS
<1>2. IsFiniteSet({e[i] : i \in D})
  BY ImageFinite DEF Measured
<1>3. {e[i] : i \in D} = Entries(f, D)
  BY <1>1 DEF Entries
<1>4. QED  BY <1>2, <1>3 DEF Measured, Sized, Entries, Entry

\* The memory of finitely many blocks is a number.
LEMMA TotalTyped ==
  ASSUME NEW f, NEW D, Measured(f, D)
  PROVE  Total(f, D) \in Nat
BY EntriesMeasured, SumTyped DEF Total

\* All blocks but some,
LEMMA TotalLess ==
  ASSUME NEW f, NEW D, Measured(f, D), NEW R \in SUBSET D
  PROVE  /\ Total(f, D \ R) = Total(f, D) - Total(f, R)
         /\ Total(f, D) \in Nat /\ Total(f, R) \in Nat
<1>1. Entries(f, R) \in SUBSET Entries(f, D)
  BY DEF Entries
<1>2. Entries(f, D \ R) = Entries(f, D) \ Entries(f, R)
  BY DEF Entries, Entry
<1>3. Measured(f, R)
  BY FS_Subset DEF Measured
<1>4. QED  BY <1>1, <1>2, <1>3, EntriesMeasured, SumLess, TotalTyped DEF Total

\* and one block by itself.
LEMMA TotalOne ==
  ASSUME NEW f, NEW x, f[x].size \in Nat
  PROVE  Total(f, {x}) = f[x].size /\ Measured(f, {x}) /\ Total(f, {}) = 0
<1>1. Measured(f, {x}) /\ Measured(f, {})
  BY FS_Singleton, FS_EmptySet DEF Measured
<1>2. PICK e : e = Entry(x, f[x])
  OBVIOUS
<1>3. Entries(f, {x}) = {e} /\ Entries(f, {}) = {} /\ e.size = f[x].size
  BY <1>2 DEF Entries, Entry
<1>4. SumSizes({}) = 0
  BY FS_EmptySet, SumStep
<1>5. SumSizes({e}) = e.size + SumSizes({e} \ {e})
  <2>1. IsFiniteSet({e}) /\ Sized({e})
    BY <1>1, <1>3, EntriesMeasured
  <2>2. QED  BY <2>1, SumTake
<1>6. {e} \ {e} = {}
  OBVIOUS
<1>7. SumSizes({e}) = f[x].size
  <2>1. SumSizes({e}) = f[x].size + SumSizes({})
    BY <1>3, <1>5, <1>6
  <2>2. QED  BY <2>1, <1>4
<1>8. Total(f, {x}) = SumSizes({e}) /\ Total(f, {}) = SumSizes({})
  BY <1>3 DEF Total
<1>9. QED  BY <1>1, <1>4, <1>7, <1>8

\* The total depends on the sizes alone.
LEMMA TotalSame ==
  ASSUME NEW f, NEW g, NEW D, Measured(f, D), \A i \in D : g[i].size = f[i].size
  PROVE  Total(g, D) = Total(f, D) /\ Measured(g, D)
<1>1. PICK e, h : /\ e = [i \in D |-> Entry(i, g[i])]
                  /\ h = [i \in D |-> Entry(i, f[i])]
  OBVIOUS
<1>2. \A i \in D : e[i].size = g[i].size /\ e[i].id = i /\ h[i].size = f[i].size /\ h[i].id = i
  BY <1>1 DEF Entry
<1>3. SumSizes({e[i] : i \in D}) = SumSizes({h[i] : i \in D})
  <2>1. \A i, j \in D : i # j => e[i] # e[j] /\ h[i] # h[j]
    BY <1>2
  <2>2. \A i \in D : e[i].size = h[i].size /\ h[i].size \in Nat
    BY <1>2 DEF Measured
  <2>3. IsFiniteSet(D)
    BY DEF Measured
  <2>4. QED  BY <2>1, <2>2, <2>3, SumSame
<1>4. {e[i] : i \in D} = Entries(g, D) /\ {h[i] : i \in D} = Entries(f, D)
  BY <1>1 DEF Entries
<1>5. QED  BY <1>3, <1>4 DEF Total, Measured

\* One block more.
LEMMA TotalMore ==
  ASSUME NEW f, NEW g, NEW D, Measured(f, D), \A i \in D : g[i].size = f[i].size,
         NEW n, n \notin D, g[n].size \in Nat
  PROVE  Total(g, D \cup {n}) = Total(f, D) + g[n].size /\ Measured(g, D \cup {n})
<1>1. Measured(g, D \cup {n})
  BY FS_AddElement DEF Measured
<1>2. PICK E : E = D \cup {n}
  OBVIOUS
<1>3. {n} \in SUBSET E /\ E \ {n} = D /\ Measured(g, E)
  BY <1>1, <1>2
<1>4. Total(g, D) = Total(g, E) - Total(g, {n}) /\ Total(g, E) \in Nat
  BY <1>3, TotalLess
<1>5. Total(g, {n}) = g[n].size
  BY TotalOne
<1>6. Total(g, D) = Total(f, D)
  BY TotalSame
<1>7. QED  BY <1>1, <1>2, <1>4, <1>5, <1>6

Used(f) == {i \in DOMAIN f : Allocated(f[i])}
OnDevice(f) == {i \in DOMAIN f : f[i].ptr >= 0}

\* The memory of all blocks is changed by all, of those in use by used, of those on the
\* device by dev.
Changed(f, g, all, used, dev) ==
  /\ IsFiniteSet(DOMAIN g)
  /\ Total(g, DOMAIN g) = Total(f, DOMAIN f) + all
  /\ Total(g, Used(g)) = Total(f, Used(f)) + used
  /\ Total(g, OnDevice(g)) = Total(f, OnDevice(f)) + dev

\* Every part of the blocks can be measured.
LEMMA PartsMeasured ==
  ASSUME NEW f, Typed(f), IsFiniteSet(DOMAIN f)
  PROVE  /\ \A D \in SUBSET DOMAIN f : Measured(f, D) /\ Total(f, D) \in Nat
         /\ Used(f) \in SUBSET DOMAIN f /\ OnDevice(f) \in SUBSET DOMAIN f
<1>1. ASSUME NEW D \in SUBSET DOMAIN f
      PROVE  Measured(f, D)
  BY FS_Subset DEF Typed, Block, Measured
<1>2. QED  BY <1>1, TotalTyped DEF Used, OnDevice

\* Two changes, one after the other.
LEMMA ChangedTwice ==
  ASSUME NEW f, NEW g, NEW h, Typed(f), Typed(g), IsFiniteSet(DOMAIN f),
         NEW a \in Int, NEW u \in Int, NEW d \in Int,
         NEW b \in Int, NEW v \in Int, NEW e \in Int,
         Changed(f, g, a, u, d), Changed(g, h, b, v, e)
  PROVE  Changed(f, h, a + b, u + v, d + e)
<1>1. /\ Total(f, DOMAIN f) \in Nat /\ Total(f, Used(f)) \in Nat
      /\ Total(f, OnDevice(f)) \in Nat
  BY PartsMeasured
<1>2. QED  BY <1>1 DEF Changed

\* Blocks that keep their memory, some of which are no longer in use.
LEMMA TotalsKept ==
  ASSUME NEW f, NEW g, Typed(f), IsFiniteSet(DOMAIN f), DOMAIN g = DOMAIN f,
         \A i \in DOMAIN f : g[i].size = f[i].size /\ g[i].ptr = f[i].ptr,
         NEW R \in SUBSET Used(f), Used(g) = Used(f) \ R
  PROVE  Changed(f, g, 0, -Total(f, R), 0)
<1>1. \A D \in SUBSET DOMAIN f : Measured(f, D) /\ Total(f, D) \in Nat
  BY PartsMeasured
<1>2. \A D \in SUBSET DOMAIN f : Total(g, D) = Total(f, D)
  <2> SUFFICES ASSUME NEW D \in SUBSET DOMAIN f PROVE Total(g, D) = Total(f, D)
    OBVIOUS
  <2>1. Measured(f, D) /\ \A i \in D : g[i].size = f[i].size
    BY <1>1
  <2>2. QED  BY <2>1, TotalSame
<1>3. Used(f) \in SUBSET DOMAIN f /\ Used(f) \ R \in SUBSET DOMAIN f /\ R \in SUBSET DOMAIN f
      /\ OnDevice(f) \in SUBSET DOMAIN f
  BY DEF Used, OnDevice
<1>4. Total(f, Used(f) \ R) = Total(f, Used(f)) - Total(f, R)
  <2>1. Measured(f, Used(f))
    BY <1>1, <1>3
  <2>2. QED  BY <2>1, TotalLess
<1>5. OnDevice(g) = OnDevice(f)
  BY DEF OnDevice
<1>6. /\ Total(g, DOMAIN g) = Total(f, DOMAIN f)
      /\ Total(g, Used(g)) = Total(f, Used(f)) - Total(f, R)
      /\ Total(g, OnDevice(g)) = Total(f, OnDevice(f))
  BY <1>2, <1>3, <1>4, <1>5
<1>7. /\ Total(f, DOMAIN f) \in Nat /\ Total(f, Used(f)) \in Nat
      /\ Total(f, OnDevice(f)) \in Nat /\ Total(f, R) \in Nat
  BY <1>1, <1>3
<1>8. QED  BY <1>6, <1>7 DEF Changed

\* Blocks that go.
LEMMA TotalsLess ==
  ASSUME NEW f, NEW g, Typed(f), IsFiniteSet(DOMAIN f), NEW ids \in SUBSET DOMAIN f,
         DOMAIN g = DOMAIN f \ ids, \A i \in DOMAIN g : g[i] = f[i]
  PROVE  Changed(f, g, -Total(f, ids), -Total(f, Used(f) \cap ids),
                 -Total(f, OnDevice(f) \cap ids))
<1>1. \A D \in SUBSET DOMAIN f : Measured(f, D) /\ Total(f, D) \in Nat
  BY PartsMeasured
<1>2. ASSUME NEW D \in SUBSET DOMAIN f
      PROVE  /\ Total(g, D \ ids) = Total(f, D) - Total(f, D \cap ids)
             /\ Total(f, D) \in Nat /\ Total(f, D \cap ids) \in Nat
  <2>1. PICK E, R : E = D \ ids /\ R = D \cap ids
    OBVIOUS
  <2>2. R \in SUBSET D /\ E = D \ R /\ E \in SUBSET DOMAIN f /\ Measured(f, D)
        /\ Measured(f, E) /\ \A i \in E : g[i].size = f[i].size
    BY <2>1, <1>1
  <2>3. Total(g, E) = Total(f, E)
    BY <2>2, TotalSame
  <2>4. /\ Total(f, D \ R) = Total(f, D) - Total(f, R)
        /\ Total(f, D) \in Nat /\ Total(f, R) \in Nat
    BY <2>2, TotalLess
  <2>5. QED  BY <2>1, <2>2, <2>3, <2>4
<1>3. Used(f) \in SUBSET DOMAIN f /\ OnDevice(f) \in SUBSET DOMAIN f
  BY DEF Used, OnDevice
<1>4. Used(g) = Used(f) \ ids /\ OnDevice(g) = OnDevice(f) \ ids
      /\ DOMAIN f \cap ids = ids
  BY DEF Used, OnDevice
<1>5. IsFiniteSet(DOMAIN g)
  BY FS_Subset
<1>6. /\ Total(g, DOMAIN g) = Total(f, DOMAIN f) - Total(f, ids)
      /\ Total(f, DOMAIN f) \in Nat /\ Total(f, ids) \in Nat
  <2>1. /\ Total(g, DOMAIN f \ ids) = Total(f, DOMAIN f) - Total(f, DOMAIN f \cap ids)
        /\ Total(f, DOMAIN f) \in Nat /\ Total(f, DOMAIN f \cap ids) \in Nat
    BY <1>2
  <2>2. QED  BY <2>1, <1>4
<1>7. /\ Total(g, Used(g)) = Total(f, Used(f)) - Total(f, Used(f) \cap ids)
      /\ Total(f, Used(f)) \in Nat /\ Total(f, Used(f) \cap ids) \in Nat
  BY <1>2, <1>3, <1>4
<1>8. /\ Total(g, OnDevice(g)) = Total(f, OnDevice(f)) - Total(f, OnDevice(f) \cap ids)
      /\ Total(f, OnDevice(f)) \in Nat /\ Total(f, OnDevice(f) \cap ids) \in Nat
  BY <1>2, <1>3, <1>4
<1>9. QED  BY <1>5, <1>6, <1>7, <1>8 DEF Changed

\* A block that comes.
LEMMA TotalsMore ==
  ASSUME NEW f, NEW g, Typed(f), IsFiniteSet(DOMAIN f), NEW n, n \notin DOMAIN f,
         DOMAIN g = DOMAIN f \cup {n}, \A i \in DOMAIN f : g[i] = f[i],
         g[n] \in Block, Allocated(g[n])
  PROVE  Changed(f, g, g[n].size, g[n].size, IF g[n].ptr >= 0 THEN g[n].size ELSE 0)
<1>1. \A D \in SUBSET DOMAIN f : Measured(f, D) /\ Total(f, D) \in Nat
  BY PartsMeasured
<1>2. ASSUME NEW D \in SUBSET DOMAIN f
      PROVE  /\ Total(g, D) = Total(f, D)
             /\ Total(g, D \cup {n}) = Total(f, D) + g[n].size
  <2>1. /\ Measured(f, D) /\ n \notin D /\ g[n].size \in Nat
        /\ \A i \in D : g[i].size = f[i].size
    BY <1>1 DEF Block
  <2>2. QED  BY <2>1, TotalSame, TotalMore
<1>3. Used(f) \in SUBSET DOMAIN f /\ OnDevice(f) \in SUBSET DOMAIN f
  BY DEF Used, OnDevice
<1>4. /\ Used(g) = Used(f) \cup {n}
      /\ g[n].ptr >= 0 => OnDevice(g) = OnDevice(f) \cup {n}
      /\ ~(g[n].ptr >= 0) => OnDevice(g) = OnDevice(f)
  BY DEF Used, OnDevice
<1>5. IsFiniteSet(DOMAIN g)
  BY FS_AddElement
<1>6. Total(g, DOMAIN g) = Total(f, DOMAIN f) + g[n].size
  BY <1>2
<1>7. Total(g, Used(g)) = Total(f, Used(f)) + g[n].size
  BY <1>2, <1>3, <1>4
<1>8. Total(g, OnDevice(g)) = Total(f, OnDevice(f)) +
                                (IF g[n].ptr >= 0 THEN g[n].size ELSE 0)
  <2>1. CASE g[n].ptr >= 0
    BY <2>1, <1>2, <1>3, <1>4
  <2>2. CASE ~(g[n].ptr >= 0)
    <3>1. Total(g, OnDevice(g)) = Total(f, OnDevice(f)) /\ Total(f, OnDevice(f)) \in Nat
      BY <2>2, <1>1, <1>2, <1>3, <1>4
    <3>2. QED  BY <2>2, <3>1
  <2>3. QED  BY <2>1, <2>2
<1>9. QED  BY <1>5, <1>6, <1>7, <1>8 DEF Changed

\* A block of a list is not lent: it lies on the device.
LEMMA LinkedOnDevice ==
  ASSUME NEW f, Typed(f), Linked(f), Lent(f), NEW i \in DOMAIN f, IsSplit(f[i])
  PROVE  f[i].ptr >= 0 /\ ~f[i].borrowed
BY DEF Typed, Block, Lent

\* Two blocks that become one.
LEMMA TotalsJoined ==
  ASSUME NEW f, Typed(f), Linked(f), Lent(f), IsFiniteSet(DOMAIN f),
         NEW p, NEW q, NEW x, NEW g, Joined(f, p, q, x, g),
         ~Allocated(f[p]), ~Allocated(f[q])
  PROVE  Changed(f, g, 0, 0, 0)
<1>0. /\ p \in DOMAIN f /\ f[p].next = q /\ q # NoId /\ x \in {p, q}
      /\ DOMAIN g = (DOMAIN f \ {p, q}) \cup {x}
      /\ g[x].ptr = f[p].ptr /\ g[x].size = f[p].size + f[q].size
      /\ \A i \in DOMAIN g : g[i].status = f[i].status
      /\ \A i \in DOMAIN g \ {x} : g[i].ptr = f[i].ptr /\ g[i].size = f[i].size
  BY DEF Joined, Rest
<1>1. q \in DOMAIN f /\ q # p /\ f[q].prev = p
  BY <1>0, Neighbours
<1>2. p # NoId
  BY <1>0, Constants DEF Typed
<1>3. IsSplit(f[p]) /\ IsSplit(f[q])
  BY <1>0, <1>1, <1>2 DEF IsSplit
<1>4. f[p].ptr >= 0 /\ f[q].ptr >= 0
  BY <1>0, <1>1, <1>3, LinkedOnDevice
<1>5. /\ f[p].size \in Nat /\ f[q].size \in Nat
  BY <1>0, <1>1 DEF Typed, Block
<1>6. \A D \in SUBSET DOMAIN f : Measured(f, D) /\ Total(f, D) \in Nat
  BY PartsMeasured
<1>7. ASSUME NEW D \in SUBSET DOMAIN f, p \in D, q \in D
      PROVE  Total(g, (D \ {p, q}) \cup {x}) = Total(f, D)
  <2>1. PICK E, F : E = D \ {p, q} /\ F = D \ {q}
    OBVIOUS
  <2>2. /\ E \in SUBSET DOMAIN f /\ F \in SUBSET DOMAIN f /\ p \notin E /\ q \notin F
        /\ F = E \cup {p} /\ D = F \cup {q} /\ x \notin E
        /\ Measured(f, E) /\ Measured(f, F) /\ Measured(f, D)
        /\ \A i \in E : i \in DOMAIN g \ {x}
    BY <2>1, <1>0, <1>1, <1>6, <1>7
  <2>3. Total(f, D) = Total(f, F) + f[q].size
    <3>1. Measured(f, F) /\ q \notin F
      BY <2>2
    <3>2. Total(f, F \cup {q}) = Total(f, F) + f[q].size
      BY <3>1, <1>5, TotalMore
    <3>3. QED  BY <3>2, <2>2
  <2>4. Total(f, F) = Total(f, E) + f[p].size
    <3>1. Measured(f, E) /\ p \notin E
      BY <2>2
    <3>2. Total(f, E \cup {p}) = Total(f, E) + f[p].size
      BY <3>1, <1>5, TotalMore
    <3>3. QED  BY <3>2, <2>2
  <2>5. Total(g, E \cup {x}) = Total(f, E) + g[x].size
    <3>1. \A i \in E : g[i].size = f[i].size
      BY <2>2, <1>0
    <3>2. g[x].size \in Nat
      BY <1>0, <1>5
    <3>3. QED  BY <2>2, <3>1, <3>2, TotalMore
  <2>6. Total(f, E) \in Nat
    BY <2>2, <1>6
  <2>7. QED  BY <2>1, <2>3, <2>4, <2>5, <2>6, <1>0, <1>5
<1>8. /\ DOMAIN g = (DOMAIN f \ {p, q}) \cup {x}
      /\ OnDevice(g) = (OnDevice(f) \ {p, q}) \cup {x}
      /\ p \in OnDevice(f) /\ q \in OnDevice(f) /\ OnDevice(f) \in SUBSET DOMAIN f
  BY <1>0, <1>1, <1>4 DEF OnDevice
<1>9. Used(g) = Used(f) /\ Used(f) \in SUBSET DOMAIN f /\ p \notin Used(f) /\ q \notin Used(f)
  BY <1>0, <1>1 DEF Used, Allocated
<1>10. Total(g, Used(g)) = Total(f, Used(f))
  <2>1. Measured(f, Used(f))
    BY <1>6, <1>9
  <2>2. \A i \in Used(f) : g[i].size = f[i].size
    BY <1>0, <1>9
  <2>3. QED  BY <2>1, <2>2, <1>9, TotalSame
<1>11. /\ Total(g, DOMAIN g) = Total(f, DOMAIN f)
       /\ Total(g, OnDevice(g)) = Total(f, OnDevice(f))
  BY <1>0, <1>1, <1>7, <1>8
<1>12. IsFiniteSet(DOMAIN g)
  <2>1. DOMAIN g \subseteq DOMAIN f
    BY <1>0, <1>1
  <2>2. QED  BY <2>1, FS_Subset
<1>13. /\ Total(f, DOMAIN f) \in Nat /\ Total(f, Used(f)) \in Nat
       /\ Total(f, OnDevice(f)) \in Nat
  BY <1>6, <1>8, <1>9
<1>14. QED  BY <1>10, <1>11, <1>12, <1>13 DEF Changed

\* What Cache needs of the blocks, for their memory to stay the same.
Mergeables(m, x, w) ==
  /\ Typed(m.info) /\ Geometry(m.info, buffers, w) /\ IsFiniteSet(DOMAIN m.info)
  /\ x \in DOMAIN m.info /\ ~Allocated(m.info[x])

\* Absorb changes nothing of it.
LEMMA AbsorbTotals ==
  ASSUME NEW m, NEW x, NEW w, Mergeables(m, x, w), NEW isPrev \in BOOLEAN, NEW n,
         n = (IF isPrev THEN m.info[x].prev ELSE m.info[x].next), Mergeable(m, n)
  PROVE  /\ Mergeables(Absorb(m, x, n, isPrev), x, w)
         /\ Changed(m.info, Absorb(m, x, n, isPrev).info, 0, 0, 0)
<1>1. PICK r : r = Absorb(m, x, n, isPrev)
  OBVIOUS
<1>2. n # NoId /\ ~Allocated(m.info[n])
  BY DEF Mergeable
<1>3. PICK p, q : Absorbs(m, x, n, isPrev, r, p, q)
  BY <1>1, <1>2, AbsorbBlocks DEF Mergeables, Geometry
<1>4. /\ {p, q} = {x, n} /\ Joined(m.info, p, q, x, r.info) /\ Typed(r.info)
  BY <1>3 DEF Absorbs
<1>5. ~Allocated(m.info[p]) /\ ~Allocated(m.info[q])
  BY <1>2, <1>4 DEF Mergeables
<1>6. Changed(m.info, r.info, 0, 0, 0)
  BY <1>4, <1>5, TotalsJoined DEF Mergeables, Geometry
<1>7. Geometry(r.info, buffers, w)
  BY <1>4, PairMerged DEF Mergeables
<1>8. x \in DOMAIN r.info /\ Rest(r.info[x]) = Rest(m.info[x])
  BY <1>4 DEF Joined
<1>9. ~Allocated(r.info[x])
  BY <1>8 DEF Mergeables, Rest, Allocated
<1>10. QED  BY <1>1, <1>4, <1>6, <1>7, <1>8, <1>9 DEF Mergeables, Changed

\* A map that stays the same changes nothing.
LEMMA NothingChanged ==
  ASSUME NEW f, Typed(f), IsFiniteSet(DOMAIN f)
  PROVE  Changed(f, f, 0, 0, 0)
<1>1. /\ Total(f, DOMAIN f) \in Nat /\ Total(f, Used(f)) \in Nat
      /\ Total(f, OnDevice(f)) \in Nat
  BY PartsMeasured
<1>2. QED  BY <1>1 DEF Changed

\* Nor does TryMerge.
LEMMA MergeTotals ==
  ASSUME NEW m, NEW x, NEW w, Mergeables(m, x, w)
  PROVE  Mergeables(TryMerge(m, x), x, w) /\ Changed(m.info, TryMerge(m, x).info, 0, 0, 0)
<1>1. PICK m1 : m1 = (IF Mergeable(m, m.info[x].prev)
                      THEN Absorb(m, x, m.info[x].prev, TRUE) ELSE m)
  OBVIOUS
<1>2. TryMerge(m, x) = IF Mergeable(m1, m1.info[x].next)
                       THEN Absorb(m1, x, m1.info[x].next, FALSE) ELSE m1
  BY <1>1 DEF TryMerge
<1>3. Mergeables(m1, x, w) /\ Changed(m.info, m1.info, 0, 0, 0)
  <2>1. CASE Mergeable(m, m.info[x].prev)
    BY <2>1, <1>1, AbsorbTotals
  <2>2. CASE ~Mergeable(m, m.info[x].prev)
    BY <2>2, <1>1, NothingChanged DEF Mergeables
  <2>3. QED  BY <2>1, <2>2
<1>4. CASE Mergeable(m1, m1.info[x].next)
  <2>1. PICK r : r = Absorb(m1, x, m1.info[x].next, FALSE)
    OBVIOUS
  <2>2. Mergeables(r, x, w) /\ Changed(m1.info, r.info, 0, 0, 0)
    BY <2>1, <1>3, <1>4, AbsorbTotals
  <2>3. Changed(m.info, r.info, 0 + 0, 0 + 0, 0 + 0)
    BY <2>2, <1>3, ChangedTwice DEF Mergeables
  <2>4. 0 + 0 = 0
    OBVIOUS
  <2>5. Changed(m.info, r.info, 0, 0, 0)
    BY <2>3, <2>4, Zenon
  <2>6. TryMerge(m, x) = r
    BY <2>1, <1>2, <1>4
  <2>7. QED  BY <2>2, <2>5, <2>6
<1>5. CASE ~Mergeable(m1, m1.info[x].next)
  BY <1>2, <1>3, <1>5
<1>6. QED  BY <1>4, <1>5

\* Free memory stays free memory, whatever is merged.
LEMMA CacheTotals ==
  ASSUME NEW m, NEW x, NEW w, Mergeables(m, x, w), Cache(m, x)
  PROVE  Changed(m.info, info', 0, 0, 0)
<1>1. PICK t, f, block :
        /\ t = (IF IsSplit(m.info[x]) THEN TryMerge(m, x) ELSE m)
        /\ f = t.info
        /\ block = [f[x] EXCEPT !.cached_pool = t.tbl,
                      !.status = IF t.tbl = AllStreams THEN "AVAILABLE_FOR_ALL_STREAM"
                                 ELSE "AVAILABLE_FOR_ALLOC_STREAM"]
  OBVIOUS
<1>2. info' = [f EXCEPT ![x] = block]
  BY <1>1 DEF Cache
<1>3. Mergeables(t, x, w) /\ Changed(m.info, f, 0, 0, 0)
  <2>1. CASE IsSplit(m.info[x])
    BY <2>1, <1>1, MergeTotals
  <2>2. CASE ~IsSplit(m.info[x])
    BY <2>2, <1>1, NothingChanged DEF Mergeables
  <2>3. QED  BY <2>1, <2>2
<1>4. Typed(f) /\ IsFiniteSet(DOMAIN f) /\ x \in DOMAIN f /\ ~Allocated(f[x])
  BY <1>1, <1>3 DEF Mergeables
<1>5. block.size = f[x].size /\ block.ptr = f[x].ptr /\ ~Allocated(block)
  <2>1. f[x] \in Block
    BY <1>4 DEF Typed
  <2>2. PICK st : /\ st \in {"AVAILABLE_FOR_ALL_STREAM", "AVAILABLE_FOR_ALLOC_STREAM"}
                  /\ block = [f[x] EXCEPT !.cached_pool = t.tbl, !.status = st]
    BY <1>1
  <2>3. block.size = f[x].size /\ block.ptr = f[x].ptr /\ block.status = st
    BY ONLY <2>1, <2>2 DEF Block
  <2>4. QED  BY <2>2, <2>3 DEF Allocated
<1>6. Changed(f, info', 0, -Total(f, {}), 0)
  <2>1. /\ DOMAIN info' = DOMAIN f
        /\ \A i \in DOMAIN f : info'[i].size = f[i].size /\ info'[i].ptr = f[i].ptr
    BY <1>2, <1>4, <1>5
  <2>2. Used(info') = Used(f) \ {} /\ {} \in SUBSET Used(f)
    BY <1>2, <1>4, <1>5 DEF Used
  <2>3. QED  BY <2>1, <2>2, <1>4, TotalsKept
<1>7. Total(f, {}) = 0
  BY <1>4, TotalOne DEF Typed, Block
<1>8. Changed(f, info', 0, 0, 0)
  BY <1>6, <1>7
<1>9. /\ Total(m.info, DOMAIN m.info) \in Nat /\ Total(m.info, Used(m.info)) \in Nat
      /\ Total(m.info, OnDevice(m.info)) \in Nat
  BY PartsMeasured DEF Mergeables
<1>10. QED  BY <1>3, <1>8, <1>9 DEF Changed

\* A block that is divided.
LEMMA TotalsDivided ==
  ASSUME Typed(info), Lent(info), IsFiniteSet(DOMAIN info), NEW id \in DOMAIN info,
         ~Allocated(info[id]), ~info[id].borrowed, NEW rest, NEW want \in Nat \ {0},
         want < info[id].size, NEW s, NEW t, NEW g, Divided(g, id, rest, want, s, t)
  PROVE  Changed(info, g, 0, want, 0)
<1>0. /\ rest \notin DOMAIN info /\ DOMAIN g = DOMAIN info \cup {rest} /\ rest # id
      /\ g[id].size = want /\ g[rest].size = info[id].size - want
      /\ g[id].status = "OCCUPIED_BY_ALLOC_STREAM"
      /\ g[rest].status \in {"AVAILABLE_FOR_ALL_STREAM", "AVAILABLE_FOR_ALLOC_STREAM"}
      /\ g[id].ptr = info[id].ptr /\ g[rest].ptr = info[id].ptr + want
      /\ \A i \in DOMAIN info \ {id} : /\ g[i].size = info[i].size /\ g[i].ptr = info[i].ptr
                                       /\ g[i].status = info[i].status
  BY DEF Divided, Given, BehindAnother
<1>1. /\ info[id].ptr \in Int /\ info[id].ptr >= 0 /\ info[id].size \in Nat
      /\ g[id].size \in Nat /\ g[rest].size \in Nat
  BY <1>0 DEF Typed, Block, Lent
<1>2. \A D \in SUBSET DOMAIN info : Measured(info, D) /\ Total(info, D) \in Nat
  BY PartsMeasured
<1>3. ASSUME NEW D \in SUBSET DOMAIN info, id \in D
      PROVE  /\ Total(g, D \cup {rest}) = Total(info, D)
             /\ IsFiniteSet(D \cup {rest})
  <2>1. PICK E : E = D \ {id}
    OBVIOUS
  <2>2. /\ E \in SUBSET DOMAIN info /\ id \notin E /\ E \cup {id} = D /\ rest \notin D
        /\ \A i \in E : g[i].size = info[i].size
    BY <2>1, <1>0, <1>3
  <2>3. Measured(info, E) /\ Total(info, E) \in Nat
    BY <2>2, <1>2
  <2>4. Total(info, E \cup {id}) = Total(info, E) + info[id].size
    BY <2>2, <2>3, <1>1, TotalMore
  <2>5. Total(g, E \cup {id}) = Total(info, E) + want /\ Measured(g, E \cup {id})
    <3>1. /\ Total(g, E \cup {id}) = Total(info, E) + g[id].size
          /\ Measured(g, E \cup {id})
      BY <2>2, <2>3, <1>1, TotalMore
    <3>2. QED  BY <3>1, <1>0
  <2>6. /\ Total(g, D \cup {rest}) = Total(g, D) + g[rest].size
        /\ Measured(g, D \cup {rest})
    <3>1. Measured(g, D) /\ rest \notin D
      BY <2>2, <2>5
    <3>2. QED  BY <3>1, <1>1, TotalMore
  <2>7. Total(g, D) = Total(info, E) + want /\ Total(info, D) = Total(info, E) + info[id].size
    BY <2>2, <2>4, <2>5
  <2>8. QED  BY <2>3, <2>6, <2>7, <1>0, <1>1 DEF Measured
<1>4. /\ id \in OnDevice(info) /\ OnDevice(info) \in SUBSET DOMAIN info
      /\ OnDevice(g) = OnDevice(info) \cup {rest}
  BY <1>0, <1>1 DEF OnDevice
<1>5. /\ Used(g) = Used(info) \cup {id} /\ id \notin Used(info)
      /\ Used(info) \in SUBSET DOMAIN info
  BY <1>0 DEF Used, Allocated
<1>6. Total(g, Used(g)) = Total(info, Used(info)) + want
  <2>1. /\ Measured(info, Used(info)) /\ \A i \in Used(info) : g[i].size = info[i].size
    BY <1>0, <1>2, <1>5
  <2>2. Total(g, Used(info) \cup {id}) = Total(info, Used(info)) + g[id].size
    BY <2>1, <1>1, <1>5, TotalMore
  <2>3. QED  BY <2>2, <1>0, <1>5
<1>7. /\ Total(info, DOMAIN info) \in Nat /\ Total(info, Used(info)) \in Nat
      /\ Total(info, OnDevice(info)) \in Nat
  BY <1>2, <1>4, <1>5
<1>8. /\ Total(g, DOMAIN g) = Total(info, DOMAIN info) /\ IsFiniteSet(DOMAIN g)
      /\ Total(g, OnDevice(g)) = Total(info, OnDevice(info))
  BY <1>0, <1>3, <1>4
<1>9. QED  BY <1>6, <1>7, <1>8 DEF Changed

\* Segments of the device and their blocks.
LEMMA SegmentsTotal ==
  ASSUME NEW f, Typed(f), Disjoint(f), NEW bufs, BuffersApart(f, bufs),
         IsFiniteSet(DOMAIN f), IsFiniteSet(bufs), NEW D \in SUBSET DOMAIN f
  PROVE  /\ SumSizes({f[i] : i \in D} \cup bufs) = Total(f, D) + SumSizes(bufs)
         /\ SumSizes(bufs) \in Nat /\ Sized(bufs)
<1>1. Measured(f, D) /\ Total(f, D) \in Nat /\ IsFiniteSet(D)
  BY PartsMeasured, FS_Subset
<1>2. PICK B, all : B = {f[i] : i \in D} /\ all = B \cup bufs
  OBVIOUS
<1>3. IsFiniteSet(B) /\ IsFiniteSet(all)
  <2>1. IsFiniteSet(B)
    BY <1>1, <1>2, ImageFinite
  <2>2. QED  BY <2>1, <1>2, FS_Union
<1>4. Sized(all) /\ Sized(bufs)
  BY <1>2 DEF Sized, Typed, Block, BuffersApart
<1>5. \A i \in DOMAIN f : Overlap(f[i], f[i])
  BY DEF Typed, Block, Overlap
<1>6. SumSizes(B) = Total(f, D)
  <2>1. PICK e, h : e = [i \in D |-> f[i]] /\ h = [i \in D |-> Entry(i, f[i])]
    OBVIOUS
  <2>2. \A i \in D : e[i] = f[i] /\ h[i].id = i /\ h[i].size = f[i].size /\ f[i].size \in Nat
    BY <2>1, <1>1 DEF Entry, Measured
  <2>3. \A i, j \in D : i # j => f[i] # f[j]
    BY <1>5 DEF Disjoint
  <2>4. \A i, j \in D : i # j => e[i] # e[j] /\ h[i] # h[j]
    BY <2>2, <2>3
  <2>5. \A i \in D : e[i].size = h[i].size /\ h[i].size \in Nat
    BY <2>2
  <2>6. SumSizes({e[i] : i \in D}) = SumSizes({h[i] : i \in D})
    BY <2>4, <2>5, <1>1, SumSame
  <2>7. {e[i] : i \in D} = B /\ {h[i] : i \in D} = Entries(f, D)
    BY <2>1, <1>2 DEF Entries
  <2>8. QED  BY <2>6, <2>7 DEF Total
<1>7. bufs \in SUBSET all /\ all \ bufs = B
  BY <1>2, <1>5 DEF BuffersApart
<1>8. SumSizes(B) = SumSizes(all) - SumSizes(bufs)
  BY <1>3, <1>4, <1>7, SumLess
<1>9. SumSizes(all) \in Nat /\ SumSizes(bufs) \in Nat
  BY <1>3, <1>4, SumTyped
<1>10. QED  BY <1>1, <1>2, <1>4, <1>6, <1>8, <1>9

\* One buffer more.
LEMMA BufferMore ==
  ASSUME NEW bufs, IsFiniteSet(bufs), Sized(bufs), NEW b, b \notin bufs, b.size \in Nat
  PROVE  /\ SumSizes(bufs \cup {b}) = SumSizes(bufs) + b.size
         /\ IsFiniteSet(bufs \cup {b})
<1>1. PICK S : S = bufs \cup {b}
  OBVIOUS
<1>2. IsFiniteSet(S) /\ Sized(S) /\ b \in S /\ S \ {b} = bufs
  BY <1>1, FS_AddElement DEF Sized
<1>3. SumSizes(S) = b.size + SumSizes(S \ {b})
  BY <1>2, SumTake
<1>4. SumSizes(bufs) \in Nat
  BY SumTyped
<1>5. SumSizes(S) = b.size + SumSizes(bufs)
  BY <1>2, <1>3
<1>6. SumSizes(S) = SumSizes(bufs) + b.size
  BY <1>4, <1>5
<1>7. QED  BY <1>1, <1>2, <1>6

-----------------------------------------------------------------------------
(* What the pool keeps account of. *)

Accounted(f, bufs, a, r) ==
  /\ IsFiniteSet(DOMAIN f) /\ IsFiniteSet(bufs)
  /\ r = Total(f, DOMAIN f) /\ a = Total(f, Used(f))
  /\ Total(f, OnDevice(f)) + SumSizes(bufs) <= Capacity

AccountsOK == Accounted(info, buffers, allocated, reserved)

\* What the accounts say, with the types of all that they relate.
LEMMA Accounts ==
  ASSUME IInv, AccountsOK
  PROVE  /\ Typed(info) /\ Geometry(info, buffers, work) /\ NoId \notin DOMAIN info
         /\ IsFiniteSet(DOMAIN info) /\ IsFiniteSet(buffers)
         /\ reserved \in Nat /\ allocated \in Nat
         /\ reserved = Total(info, DOMAIN info) /\ allocated = Total(info, Used(info))
         /\ Total(info, OnDevice(info)) \in Nat
         /\ SumSizes(buffers) \in Nat /\ Sized(buffers)
         /\ Total(info, OnDevice(info)) + SumSizes(buffers) <= Capacity
<1>1. /\ Typed(info) /\ Geometry(info, buffers, work)
      /\ IsFiniteSet(DOMAIN info) /\ IsFiniteSet(buffers)
  BY DEF IInv, AccountsOK, Accounted
<1>2. /\ \A D \in SUBSET DOMAIN info : Total(info, D) \in Nat
      /\ Used(info) \in SUBSET DOMAIN info /\ OnDevice(info) \in SUBSET DOMAIN info
  BY <1>1, PartsMeasured
<1>3. SumSizes(buffers) \in Nat /\ Sized(buffers)
  BY <1>1, SegmentsTotal DEF Geometry
<1>4. NoId \notin DOMAIN info
  BY <1>1, Constants DEF Typed
<1>5. /\ reserved = Total(info, DOMAIN info) /\ allocated = Total(info, Used(info))
      /\ Total(info, OnDevice(info)) + SumSizes(buffers) <= Capacity
  BY DEF AccountsOK, Accounted
<1>6. QED  BY <1>1, <1>2, <1>3, <1>4, <1>5

\* The accounts follow the blocks.
LEMMA AccountsFollow ==
  ASSUME IInv, AccountsOK, NEW all \in Int, NEW used \in Int, NEW dev \in Int,
         Changed(info, info', all, used, dev),
         reserved' = reserved + all, allocated' = allocated + used,
         dev <= 0, buffers' = buffers
  PROVE  AccountsOK'
<1>1. /\ Total(info', DOMAIN info') = reserved + all
      /\ Total(info', Used(info')) = allocated + used
      /\ Total(info', OnDevice(info')) = Total(info, OnDevice(info)) + dev
      /\ IsFiniteSet(DOMAIN info') /\ IsFiniteSet(buffers)
  BY Accounts DEF Changed
<1>2. Total(info', OnDevice(info')) + SumSizes(buffers) <= Capacity
  <2>1. /\ Total(info, OnDevice(info)) \in Nat /\ SumSizes(buffers) \in Nat
        /\ Total(info, OnDevice(info)) + SumSizes(buffers) <= Capacity
    BY Accounts
  <2>2. QED  BY <2>1, <1>1, SizesAssumption
<1>3. Accounted(info', buffers, allocated', reserved')
  BY <1>1, <1>2 DEF Accounted
<1>4. QED  BY <1>3 DEF AccountsOK

\* A block that is changed where it is.
LEMMA TotalsStay ==
  ASSUME IInv, AccountsOK, NEW id \in DOMAIN info, NEW b, NEW g,
         g = [info EXCEPT ![id] = b], Place(b) = Place(info[id]),
         Allocated(b) <=> Allocated(info[id])
  PROVE  Changed(info, g, 0, 0, 0)
<1>1. Typed(info) /\ IsFiniteSet(DOMAIN info)
  BY Accounts
<1>2. /\ DOMAIN g = DOMAIN info
      /\ \A i \in DOMAIN info : g[i].size = info[i].size /\ g[i].ptr = info[i].ptr
  BY DEF Place
<1>3. Used(g) = Used(info) \ {} /\ {} \in SUBSET Used(info)
  BY DEF Used
<1>4. Changed(info, g, 0, -Total(info, {}), 0)
  BY <1>1, <1>2, <1>3, TotalsKept
<1>5. Total(info, {}) = 0
  BY <1>1, TotalOne DEF Typed, Block
<1>6. QED  BY <1>4, <1>5

\* A block that is cached, after it was in use or not.
LEMMA CachedTotals ==
  ASSUME IInv, AccountsOK, NEW id \in DOMAIN info, NEW b \in Block, NEW m,
         m.info = [info EXCEPT ![id] = b], Place(b) = Place(info[id]), ~Allocated(b),
         Cache(m, id)
  PROVE  Changed(info, info', 0, IF Allocated(info[id]) THEN -info[id].size ELSE 0, 0)
<1>1. /\ Typed(info) /\ IsFiniteSet(DOMAIN info) /\ Geometry(info, buffers, work)
      /\ info[id].size \in Nat
  BY Accounts DEF Typed, Block
<1>2. PICK f : f = m.info
  OBVIOUS
<1>3. /\ DOMAIN f = DOMAIN info /\ f[id] = b /\ Typed(f)
      /\ \A i \in DOMAIN info : Place(f[i]) = Place(info[i])
  BY <1>1, <1>2 DEF Typed
<1>4. \A i \in DOMAIN info : f[i].size = info[i].size /\ f[i].ptr = info[i].ptr
  BY <1>3 DEF Place
<1>5. Geometry(f, buffers, work)
  BY <1>1, <1>3, PlacesKept
<1>6. Mergeables(m, id, work)
  BY <1>1, <1>2, <1>3, <1>5 DEF Mergeables
<1>7. Changed(f, info', 0, 0, 0)
  BY <1>2, <1>6, CacheTotals
<1>8. PICK R, u : /\ R = IF Allocated(info[id]) THEN {id} ELSE {}
                  /\ u = IF Allocated(info[id]) THEN -info[id].size ELSE 0
  OBVIOUS
<1>9. -Total(info, R) = u /\ u \in Int
  BY <1>1, <1>8, TotalOne
<1>10. R \in SUBSET Used(info) /\ Used(f) = Used(info) \ R
  BY <1>2, <1>3, <1>8 DEF Used
<1>11. Changed(info, f, 0, u, 0)
  <2>1. Changed(info, f, 0, -Total(info, R), 0)
    BY <1>1, <1>3, <1>4, <1>10, TotalsKept
  <2>2. QED  BY <2>1, <1>9
<1>12. Changed(info, info', 0, u, 0)
  <2>1. /\ Total(info, DOMAIN info) \in Nat /\ Total(info, Used(info)) \in Nat
        /\ Total(info, OnDevice(info)) \in Nat
    BY <1>1, PartsMeasured
  <2>2. QED  BY <2>1, <1>7, <1>9, <1>11 DEF Changed
<1>13. QED  BY <1>8, <1>12

\* One block that goes.
LEMMA OneLess ==
  ASSUME IInv, AccountsOK, NEW id \in DOMAIN info, Allocated(info[id]), info[id].borrowed
  PROVE  \E dev \in Int : /\ dev <= 0
           /\ Changed(info, Without(info, {id}), -info[id].size, -info[id].size, dev)
<1>1. /\ Typed(info) /\ IsFiniteSet(DOMAIN info) /\ info[id].size \in Nat
  BY Accounts DEF Typed, Block
<1>2. PICK g, D : g = Without(info, {id}) /\ D = OnDevice(info) \cap {id}
  OBVIOUS
<1>3. DOMAIN g = DOMAIN info \ {id} /\ \A i \in DOMAIN g : g[i] = info[i]
  BY <1>2 DEF Without, Restrict
<1>4. Used(info) \cap {id} = {id}
  BY DEF Used
<1>5. Total(info, {id}) = info[id].size /\ Total(info, D) \in Nat
  BY <1>1, <1>2, TotalOne, PartsMeasured
<1>6. Changed(info, g, -Total(info, {id}), -Total(info, Used(info) \cap {id}), -Total(info, D))
  BY <1>1, <1>2, <1>3, TotalsLess
<1>7. Changed(info, g, -info[id].size, -info[id].size, -Total(info, D))
  BY <1>4, <1>5, <1>6
<1>8. -Total(info, D) \in Int /\ -Total(info, D) <= 0
  BY <1>5
<1>9. QED  BY <1>2, <1>7, <1>8

-----------------------------------------------------------------------------
(* The accounts, step by step *)

\* A buffer is taken when it fits on the device.
LEMMA CallBufferAccounts ==
  ASSUME IInv, AccountsOK, NEW size \in BufferSizes, CallBuffer(size)
  PROVE  AccountsOK'
<1>1. /\ buffers = {} /\ info' = info /\ allocated' = allocated /\ reserved' = reserved
      /\ size \in Nat
  BY SizesAssumption DEF CallBuffer, poolVars
<1>2. CASE ~Fits(size, Segments)
  <2>1. buffers' = buffers
    BY <1>2 DEF CallBuffer
  <2>2. QED  BY <2>1, <1>1 DEF AccountsOK
<1>3. CASE Fits(size, Segments)
  <2>1. PICK b : buffers' = {b} /\ b.size = size
    <3>1. PICK ptr : buffers' = {[ptr |-> ptr, size |-> size]}
      BY <1>3 DEF CallBuffer
    <3>2. [ptr |-> ptr, size |-> size].size = size
      OBVIOUS
    <3>3. QED  BY <3>1, <3>2
  <2>2. /\ SumSizes({} \cup {b}) = SumSizes({}) + b.size /\ IsFiniteSet({} \cup {b})
    <3>1. IsFiniteSet({}) /\ Sized({}) /\ b \notin {}
      BY FS_EmptySet DEF Sized
    <3>2. QED  BY <3>1, <2>1, <1>1, BufferMore
  <2>3. SumSizes({}) = 0 /\ {} \cup {b} = {b}
    BY FS_EmptySet, SumStep
  <2>4. SumSizes({b}) = size /\ IsFiniteSet({b})
    BY <2>1, <2>2, <2>3, <1>1
  <2>5. SumSizes(Segments) = Total(info, OnDevice(info))
    <3>1. SumSizes({info[i] : i \in OnDevice(info)} \cup buffers)
            = Total(info, OnDevice(info)) + SumSizes(buffers)
      <4>1. OnDevice(info) \in SUBSET DOMAIN info
        BY DEF OnDevice
      <4>2. QED  BY <4>1, Accounts, SegmentsTotal DEF Geometry
    <3>2. Segments = {info[i] : i \in OnDevice(info)} \cup buffers
      BY DEF Segments, OnDevice
    <3>3. Total(info, OnDevice(info)) \in Nat
      BY Accounts
    <3>4. QED  BY <3>1, <3>2, <3>3, <2>3, <1>1
  <2>6. Total(info, OnDevice(info)) + SumSizes({b}) <= Capacity
    BY <2>4, <2>5, <1>3 DEF Fits
  <2>7. Accounted(info, {b}, allocated, reserved)
    BY <2>4, <2>6, Accounts DEF Accounted
  <2>8. QED  BY <2>1, <2>7, <1>1 DEF AccountsOK
<1>4. QED  BY <1>2, <1>3

\* Accounts and memory that stay the same agree as before.
LEMMA SameAccounts ==
  ASSUME IInv, AccountsOK, Changed(info, info', 0, 0, 0), buffers' = buffers,
         allocated' = allocated, reserved' = reserved
  PROVE  AccountsOK'
<1>1. reserved' = reserved + 0 /\ allocated' = allocated + 0
  BY Accounts
<1>2. QED  BY <1>1, AccountsFollow

\* A block that is used by a stream more keeps its memory.
LEMMA UseOnAccounts ==
  ASSUME IInv, AccountsOK, NEW id, NEW s \in Streams, UseOn(id, s)
  PROVE  AccountsOK'
<1>1. /\ id \in held /\ info' = [info EXCEPT ![id] = MarkedBy(info[id], s)]
      /\ allocated' = allocated /\ reserved' = reserved /\ buffers' = buffers
  BY DEF UseOn
<1>2. id \in DOMAIN info /\ Allocated(info[id])
  BY <1>1, Held
<1>3. PICK b : b = MarkedBy(info[id], s)
  OBVIOUS
<1>4. Place(b) = Place(info[id]) /\ Allocated(b)
  <2>1. info[id] \in Block
    BY <1>2, InUse
  <2>2. b.status \in {"OCCUPIED_BY_ALLOC_STREAM", "OCCUPIED_BY_MULTI_STREAMS"}
        /\ Place(b) = Place(info[id])
    <3>1. /\ info[id].status \in {"OCCUPIED_BY_ALLOC_STREAM", "OCCUPIED_BY_MULTI_STREAMS"}
          /\ info[id].status = "OCCUPIED_BY_ALLOC_STREAM" =>
               info[id].used_streams \subseteq {info[id].alloc_stream}
          /\ \/ info[id].alloc_stream \in info[id].used_streams
             \/ /\ info[id].alloc_stream = kBlockingStream
                /\ info[id].status = "OCCUPIED_BY_ALLOC_STREAM"
      BY <1>1, <1>2 DEF IInv, Uses
    <3>2. QED  BY <2>1, <3>1, <1>3, MarkedBlock
  <2>3. QED  BY <2>2 DEF Allocated
<1>5. Changed(info, info', 0, 0, 0)
  BY <1>1, <1>2, <1>3, <1>4, TotalsStay
<1>6. QED  BY <1>1, <1>5, SameAccounts

\* A block that waits for its events is still in use.
LEMMA FreeLaterAccounts ==
  ASSUME IInv, AccountsOK, NEW id \in held, FreeWhenAllDone(id), buffers' = buffers
  PROVE  AccountsOK'
<1>1. id \in DOMAIN info /\ Allocated(info[id]) /\ info[id] \in Block
  BY Held, InUse
<1>2. PICK b : b = [info[id] EXCEPT !.status = "UNAVAILABLE_UNTIL_FREE",
                                    !.cnt = @ + Cardinality(info[id].used_streams)]
  OBVIOUS
<1>3. info' = [info EXCEPT ![id] = b] /\ allocated' = allocated /\ reserved' = reserved
  BY <1>1, <1>2 DEF FreeWhenAllDone
<1>4. Place(b) = Place(info[id]) /\ Allocated(b)
  BY <1>1, <1>2 DEF Block, Place, Allocated
<1>5. Changed(info, info', 0, 0, 0)
  BY <1>1, <1>3, <1>4, TotalsStay
<1>6. QED  BY <1>3, <1>5, SameAccounts

\* A block of one stream is not in use once it is cached.
LEMMA FreeNowAccounts ==
  ASSUME IInv, AccountsOK, NEW id \in held, ~info[id].borrowed,
         info[id].alloc_stream \notin Streams \ created, FreeToTable(id), buffers' = buffers
  PROVE  AccountsOK'
<1>1. id \in DOMAIN info /\ Allocated(info[id]) /\ info[id] \in Block
  BY Held, InUse
<1>2. PICK b, st : /\ b = [info[id] EXCEPT !.status = st]
                   /\ st = IF info[id].alloc_stream = kBlockingStream
                           THEN "AVAILABLE_FOR_ALL_STREAM" ELSE "AVAILABLE_FOR_ALLOC_STREAM"
  OBVIOUS
<1>3. st \in Statuses /\ st \in {"AVAILABLE_FOR_ALL_STREAM", "AVAILABLE_FOR_ALLOC_STREAM"}
  BY <1>2 DEF Statuses
<1>4. b \in Block /\ Place(b) = Place(info[id]) /\ b.status = st
  BY ONLY <1>1, <1>2, <1>3 DEF Block, Place
<1>5. ~Allocated(b)
  BY <1>3, <1>4 DEF Allocated
<1>6. PICK m : Cache(m, id) /\ m.info = [info EXCEPT ![id] = b]
  <2>1. PICK m0 : /\ Cache([m0 EXCEPT !.info = [info EXCEPT ![id].status = st]], id)
                  /\ m0 = [info |-> info, table |-> table, tbl |-> info[id].alloc_stream,
                           event |-> IF info[id].alloc_stream = kBlockingStream THEN event
                                     ELSE With(event, id,
                                               [stream |-> info[id].alloc_stream,
                                                left |-> Len(work[info[id].alloc_stream])])]
    BY <1>2 DEF FreeToTable
  <2>2. [m0 EXCEPT !.info = [info EXCEPT ![id].status = st]].info
          = [info EXCEPT ![id].status = st]
    BY <2>1
  <2>3. [info EXCEPT ![id].status = st] = [info EXCEPT ![id] = b]
    BY <1>2
  <2>4. QED  BY <2>1, <2>2, <2>3
<1>7. Changed(info, info', 0, -info[id].size, 0)
  BY <1>1, <1>4, <1>5, <1>6, CachedTotals
<1>8. allocated' = allocated - info[id].size /\ reserved' = reserved
  BY DEF FreeToTable
<1>9. /\ allocated' = allocated + -info[id].size /\ reserved' = reserved + 0
      /\ -info[id].size \in Int
  BY <1>1, <1>8, Accounts DEF Block
<1>10. QED  BY <1>7, <1>9, AccountsFollow

\* A block that goes back to its lender leaves both accounts.
LEMMA ReturnAccounts ==
  ASSUME IInv, AccountsOK, NEW id \in DOMAIN info, Allocated(info[id]), info[id].borrowed,
         info' = Without(info, {id}), allocated' = allocated - info[id].size,
         reserved' = reserved - info[id].size, buffers' = buffers
  PROVE  AccountsOK'
<1>1. PICK dev \in Int : /\ dev <= 0
                         /\ Changed(info, info', -info[id].size, -info[id].size, dev)
  BY OneLess
<1>2. /\ allocated' = allocated + -info[id].size /\ reserved' = reserved + -info[id].size
      /\ -info[id].size \in Int
  BY Accounts DEF Typed, Block
<1>3. QED  BY <1>1, <1>2, AccountsFollow

\* FreeDataSpace, unless it stops the process.
LEMMA FreeAccounts ==
  ASSUME IInv, AccountsOK, NEW id, FreeDataSpace(id)
  PROVE  op'.call # "aborted" => AccountsOK'
<1> SUFFICES ASSUME op'.call # "aborted" PROVE AccountsOK'
  OBVIOUS
<1>1. id \in held /\ buffers' = buffers
  BY DEF FreeDataSpace
<1>2. id \in DOMAIN info /\ Allocated(info[id])
  BY <1>1, Held
<1>3. CASE info[id].borrowed
  <2>1. FreeBorrowed(id)
    BY <1>3 DEF FreeDataSpace
  <2>2. CASE info[id].used_streams # {}
    BY <2>1, <2>2, <1>1, FreeLaterAccounts DEF FreeBorrowed
  <2>3. CASE info[id].used_streams = {}
    BY <2>1, <2>3, <1>1, <1>2, <1>3, ReturnAccounts DEF FreeBorrowed
  <2>4. QED  BY <2>2, <2>3
<1>4. CASE ~info[id].borrowed /\ info[id].status = "OCCUPIED_BY_ALLOC_STREAM"
  <2>1. FreeToTable(id)
    BY <1>4 DEF FreeDataSpace
  <2>2. info[id].alloc_stream \notin Streams \ created
    <3> SUFFICES ASSUME info[id].alloc_stream \in Streams \ created PROVE FALSE
      OBVIOUS
    <3>1. \E by : op' = Aborted(by)
      BY <2>1 DEF FreeToTable
    <3>2. QED  BY <3>1 DEF Aborted
  <2>3. QED  BY <2>1, <2>2, <1>1, <1>4, FreeNowAccounts
<1>5. CASE ~info[id].borrowed /\ info[id].status # "OCCUPIED_BY_ALLOC_STREAM"
  <2>1. FreeWhenAllDone(id)
    BY <1>5 DEF FreeDataSpace
  <2>2. QED  BY <2>1, <1>1, FreeLaterAccounts
<1>6. QED  BY <1>3, <1>4, <1>5

\* MoveAvailable moves memory that is free already.
LEMMA MoveAccounts ==
  ASSUME IInv, AccountsOK, NEW id \in DOMAIN event, MoveAvailable(id), buffers' = buffers
  PROVE  AccountsOK'
<1>1. /\ id \in DOMAIN info /\ info[id] \in Block /\ ~Allocated(info[id])
  <2>1. /\ id \in DOMAIN info /\ info[id] \in Block /\ id # NoId
    BY Constants DEF IInv, Known, EventsTyped, Typed
  <2>2. info[id].cached_pool \in Streams
    BY <2>1 DEF IInv, Known, EventsAgree
  <2>3. info[id].cached_pool # NoTable
    BY <2>2, Constants
  <2>4. QED  BY <2>1, <2>3 DEF IInv, Known, StatusesAgree
<1>2. PICK b : b = Refreshed(info[id])
  OBVIOUS
<1>3. b \in Block /\ Place(b) = Place(info[id]) /\ ~Allocated(b)
  BY <1>1, <1>2, RefreshedBlock
<1>4. PICK m : m = [info |-> [info EXCEPT ![id] = Refreshed(@)],
                    table |-> LeaveTable(table, id, info[id]),
                    event |-> Without(event, {id}), tbl |-> AllStreams]
  OBVIOUS
<1>5. Cache(m, id) /\ allocated' = allocated /\ reserved' = reserved
  BY <1>4 DEF MoveAvailable
<1>6. m.info = [info EXCEPT ![id] = b]
  BY <1>2, <1>4
<1>7. Changed(info, info', 0, 0, 0)
  BY <1>1, <1>3, <1>5, <1>6, CachedTotals
<1>8. QED  BY <1>5, <1>7, SameAccounts

\* The last event of a block frees its memory, the others do not.
LEMMA PopAccounts ==
  ASSUME IInv, AccountsOK, NEW s \in Streams, NEW id \in DOMAIN info, Waits(info[id]),
         PopMultiStreamEvent(s, id), buffers' = buffers
  PROVE  AccountsOK'
<1>1. info[id] \in Block /\ Allocated(info[id]) /\ info[id].size \in Nat
  BY Accounts DEF Typed, Block, Waits, Allocated
<1>2. CASE ~LastEvent(info[id])
  <2>1. PICK b : b = [info[id] EXCEPT !.cnt = @ - 1]
    OBVIOUS
  <2>2. info' = [info EXCEPT ![id] = b] /\ allocated' = allocated /\ reserved' = reserved
    BY <1>2, <2>1 DEF PopMultiStreamEvent
  <2>3. Place(b) = Place(info[id]) /\ b.status = info[id].status
    BY <1>1, <2>1 DEF Place, Block
  <2>4. Changed(info, info', 0, 0, 0)
    BY <1>1, <2>2, <2>3, TotalsStay DEF Allocated
  <2>5. QED  BY <2>2, <2>4, SameAccounts
<1>3. CASE LastEvent(info[id]) /\ info[id].borrowed
  BY <1>1, <1>3, ReturnAccounts DEF PopMultiStreamEvent
<1>4. CASE LastEvent(info[id]) /\ ~info[id].borrowed
  <2>1. PICK b : b = Refreshed(info[id])
    OBVIOUS
  <2>2. b \in Block /\ Place(b) = Place(info[id]) /\ ~Allocated(b)
    BY <1>1, <2>1, RefreshedBlock
  <2>3. PICK m : m = [info |-> [info EXCEPT ![id] = Refreshed(@)],
                      table |-> table, event |-> event, tbl |-> AllStreams]
    OBVIOUS
  <2>4. /\ Cache(m, id) /\ allocated' = allocated - info[id].size /\ reserved' = reserved
    BY <1>4, <2>3 DEF PopMultiStreamEvent
  <2>5. m.info = [info EXCEPT ![id] = b]
    BY <2>1, <2>3
  <2>6. Changed(info, info', 0, -info[id].size, 0)
    BY <1>1, <2>2, <2>4, <2>5, CachedTotals
  <2>7. /\ allocated' = allocated + -info[id].size /\ reserved' = reserved + 0
        /\ -info[id].size \in Int
    BY <1>1, <2>4, Accounts
  <2>8. QED  BY <2>6, <2>7, AccountsFollow
<1>5. QED  BY <1>2, <1>3, <1>4

\* WatchEvents takes one or the other event.
LEMMA WatchAccounts ==
  ASSUME IInv, AccountsOK, WatchEvent
  PROVE  AccountsOK'
<1>k. PICK k \in Ahead : \E id \in ReadyIds(k) :
        IF k <= NStreams THEN MoveAvailable(id) ELSE PopMultiStreamEvent(Turn(k), id)
  BY DEF WatchEvent
<1>1. PICK id \in ReadyIds(k) :
        IF k <= NStreams THEN MoveAvailable(id) ELSE PopMultiStreamEvent(Turn(k), id)
  BY <1>k
<1>2. buffers' = buffers
  BY DEF WatchEvent
<1>3. k \in 1..(2 * NStreams) /\ NStreams \in Nat \ {0} /\ Streams = 1..NStreams
  BY Constants DEF Ahead, Positions
<1>4. CASE k <= NStreams
  <2>1. id \in DOMAIN event /\ MoveAvailable(id)
    BY <1>1, <1>4 DEF ReadyIds
  <2>2. QED  BY <2>1, <1>2, MoveAccounts
<1>5. CASE ~(k <= NStreams)
  <2>1. PICK s : s = Turn(k)
    OBVIOUS
  <2>2. s \in Streams
    BY <2>1, <1>3, <1>5 DEF Turn
  <2>3. /\ multi[s] # << >> /\ Head(multi[s]).left = 0 /\ id = Head(multi[s]).id
        /\ PopMultiStreamEvent(s, id)
    BY <2>1, <1>1, <1>5 DEF ReadyIds
  <2>4. id \in DOMAIN info /\ Waits(info[id])
    BY <2>2, <2>3, QueuePopped
  <2>5. QED  BY <2>2, <2>3, <2>4, <1>2, PopAccounts
<1>6. QED  BY <1>4, <1>5

\* Segments that are given back.
LEMMA ReleasedTotals ==
  ASSUME IInv, AccountsOK, NEW ids, Releasable(ids), NEW kept, kept = Without(info, ids),
         NEW R, R = Total(info, ids)
  PROVE  /\ R \in Nat /\ Changed(info, kept, -R, 0, -R)
         /\ SumSizes({Entry(i, info[i]) : i \in ids}) = R
         /\ SumSizes(Segments \ {info[i] : i \in ids})
              = Total(kept, OnDevice(kept)) + SumSizes(buffers)
<1>1. /\ Typed(info) /\ IsFiniteSet(DOMAIN info) /\ IsFiniteSet(buffers)
      /\ Disjoint(info) /\ Lent(info) /\ BuffersApart(info, buffers)
      /\ NoId \notin DOMAIN info /\ StatusesAgree(info, NoId)
      /\ SumSizes(buffers) \in Nat
  BY Accounts DEF Geometry, IInv, Known
<1>2. /\ ids \in SUBSET DOMAIN info
      /\ \A i \in ids : ~Allocated(info[i]) /\ info[i].ptr >= 0
  <2>1. \A i \in ids : i \in DOMAIN info \ {NoId} /\ info[i].cached_pool # NoTable
    BY <1>1, Constants DEF Releasable
  <2>2. \A i \in ids : ~Allocated(info[i]) /\ ~info[i].borrowed
    BY <2>1, <1>1 DEF StatusesAgree
  <2>3. QED  BY <2>1, <2>2, <1>1 DEF Lent
<1>3. DOMAIN kept = DOMAIN info \ ids /\ \A i \in DOMAIN kept : kept[i] = info[i]
  BY DEF Without, Restrict
<1>4. Used(info) \cap ids = {} /\ OnDevice(info) \cap ids = ids
  BY <1>2 DEF Used, OnDevice
<1>5. R \in Nat
  BY <1>1, <1>2, PartsMeasured
<1>6. Total(info, {}) = 0
  <2>1. Entries(info, {}) = {}
    BY DEF Entries
  <2>2. SumSizes({}) = 0
    BY FS_EmptySet, SumStep
  <2>3. QED  BY <2>1, <2>2 DEF Total
<1>7. Changed(info, kept, -R, 0, -R)
  <2>1. Changed(info, kept, -Total(info, ids), -Total(info, Used(info) \cap ids),
                -Total(info, OnDevice(info) \cap ids))
    BY <1>1, <1>2, <1>3, TotalsLess
  <2>2. -Total(info, Used(info) \cap ids) = 0
    BY <1>4, <1>6
  <2>3. Changed(info, kept, -R, -Total(info, Used(info) \cap ids), -R)
    BY <2>1, <1>4
  <2>4. QED  BY <2>2, <2>3
<1>8. SumSizes({Entry(i, info[i]) : i \in ids}) = R
  BY DEF Total, Entries
<1>9. \A i \in DOMAIN info : Overlap(info[i], info[i])
  BY <1>1 DEF Typed, Block, Overlap
<1>10. Segments \ {info[i] : i \in ids} = {info[i] : i \in OnDevice(kept)} \cup buffers
  <2>1. OnDevice(kept) = OnDevice(info) \ ids
    BY <1>3 DEF OnDevice
  <2>2. Segments = {info[i] : i \in OnDevice(info)} \cup buffers
    BY DEF Segments, OnDevice
  <2>3. \A i \in ids : info[i] \notin buffers
    BY <1>1, <1>2, <1>9 DEF BuffersApart
  <2>4. \A i \in ids, j \in OnDevice(info) : info[i] = info[j] => i = j
    BY <1>1, <1>2, <1>9 DEF Disjoint, OnDevice
  <2>5. QED  BY <2>1, <2>2, <2>3, <2>4
<1>11. OnDevice(kept) \in SUBSET DOMAIN info /\ \A i \in OnDevice(kept) : kept[i] = info[i]
  BY <1>3 DEF OnDevice
<1>12. SumSizes({info[i] : i \in OnDevice(kept)} \cup buffers)
         = Total(info, OnDevice(kept)) + SumSizes(buffers)
  BY <1>1, <1>11, SegmentsTotal
<1>13. Total(kept, OnDevice(kept)) = Total(info, OnDevice(kept))
  <2>1. /\ Measured(info, OnDevice(kept))
        /\ \A i \in OnDevice(kept) : kept[i].size = info[i].size
    BY <1>1, <1>11, PartsMeasured
  <2>2. QED  BY <2>1, TotalSame
<1>14. QED  BY <1>5, <1>7, <1>8, <1>10, <1>12, <1>13

\* What they were leaves the reserved memory.
LEMMA ReleaseAccounts ==
  ASSUME IInv, AccountsOK, NEW ids, Releasable(ids), info' = Without(info, ids),
         reserved' = reserved - SumSizes({Entry(i, info[i]) : i \in ids}),
         allocated' = allocated, buffers' = buffers
  PROVE  AccountsOK'
<1>1. PICK R : R = Total(info, ids)
  OBVIOUS
<1>2. /\ R \in Nat /\ Changed(info, info', -R, 0, -R)
      /\ SumSizes({Entry(i, info[i]) : i \in ids}) = R
  BY <1>1, ReleasedTotals
<1>3. /\ reserved' = reserved + -R /\ allocated' = allocated + 0
      /\ -R \in Int /\ -R <= 0
  BY <1>2, Accounts
<1>4. QED  BY <1>2, <1>3, AccountsFollow

\* A new segment.
LEMMA SegmentAccounts ==
  ASSUME IInv, AccountsOK, NEW ids, Releasable(ids), NEW size \in Nat \ {0},
         NEW s \in AnyStream, NewSegment(size, s, ids),
         Fits(size, Segments \ {info[i] : i \in ids})
  PROVE  AccountsOK'
<1>f. PICK kept, n, R : /\ kept = Without(info, ids) /\ n = NewIdIn(kept)
                        /\ R = Total(info, ids)
  OBVIOUS
<1>1. /\ R \in Nat /\ Changed(info, kept, -R, 0, -R)
      /\ SumSizes({Entry(i, info[i]) : i \in ids}) = R
      /\ SumSizes(Segments \ {info[i] : i \in ids})
           = Total(kept, OnDevice(kept)) + SumSizes(buffers)
  BY <1>f, ReleasedTotals
<1>2. PICK ptr \in LowestFree(size, Segments \ {info[i] : i \in ids}) :
        IF op.call = "buffer"
        THEN /\ info' = kept
             /\ buffers' = buffers \cup {[ptr |-> ptr, size |-> size]}
             /\ reserved' = reserved - R /\ allocated' = allocated
        ELSE /\ IdLeft(kept)
             /\ info' = With(kept, n, NewBlock(ptr, size, s, FALSE))
             /\ reserved' = reserved - R + size /\ allocated' = allocated + size
             /\ buffers' = buffers
  BY <1>f, <1>1 DEF NewSegment
<1>3. /\ IsFiniteSet(DOMAIN kept)
      /\ Total(kept, DOMAIN kept) = reserved - R
      /\ Total(kept, Used(kept)) = allocated
      /\ Total(kept, OnDevice(kept)) = Total(info, OnDevice(info)) - R
      /\ reserved \in Nat /\ allocated \in Nat /\ IsFiniteSet(buffers) /\ Sized(buffers)
      /\ Total(info, OnDevice(info)) \in Nat /\ SumSizes(buffers) \in Nat
  <2>1. /\ Total(kept, DOMAIN kept) = reserved + -R
        /\ Total(kept, Used(kept)) = allocated + 0
        /\ Total(kept, OnDevice(kept)) = Total(info, OnDevice(info)) + -R
        /\ IsFiniteSet(DOMAIN kept)
    BY <1>1, Accounts DEF Changed
  <2>2. QED  BY <2>1, <1>1, Accounts
<1>4. Total(kept, OnDevice(kept)) + SumSizes(buffers) + size <= Capacity
  BY <1>1 DEF Fits
<1>5. CASE op.call = "buffer"
  <2>1. PICK b : b = [ptr |-> ptr, size |-> size]
    OBVIOUS
  <2>2. b.ptr = ptr /\ b.size = size /\ b.size \in Nat
    BY <2>1
  <2>3. b \notin buffers
    <3>1. /\ ptr \in Nat /\ \A c \in buffers : ~Overlap(c, b)
      BY <1>2, <2>2, FreePlace DEF Releasable
    <3>2. Overlap(b, b)
      BY <2>2, <3>1 DEF Overlap
    <3>3. QED  BY <3>1, <3>2
  <2>4. SumSizes(buffers \cup {b}) = SumSizes(buffers) + size /\ IsFiniteSet(buffers \cup {b})
    <3>1. /\ SumSizes(buffers \cup {b}) = SumSizes(buffers) + b.size
          /\ IsFiniteSet(buffers \cup {b})
      BY <1>3, <2>2, <2>3, BufferMore
    <3>2. QED  BY <3>1, <2>2
  <2>5. Total(kept, OnDevice(kept)) + SumSizes(buffers \cup {b}) <= Capacity
    BY <1>1, <1>3, <1>4, <2>4
  <2>6. Accounted(kept, buffers \cup {b}, allocated, reserved - R)
    BY <1>3, <2>4, <2>5 DEF Accounted
  <2>7. /\ info' = kept /\ buffers' = buffers \cup {b} /\ allocated' = allocated
        /\ reserved' = reserved - R
    BY <1>2, <1>5, <2>1
  <2>8. QED  BY <2>6, <2>7 DEF AccountsOK
<1>6. CASE op.call # "buffer"
  <2>0. PICK lent \in BOOLEAN : ~lent
    OBVIOUS
  <2>1. PICK b : b = NewBlock(ptr, size, s, lent)
    OBVIOUS
  <2>2. /\ IdLeft(kept) /\ info' = With(kept, n, b) /\ buffers' = buffers
        /\ reserved' = reserved - R + size /\ allocated' = allocated + size
    <3>1. lent = FALSE
      BY <2>0
    <3>2. QED  BY <3>1, <2>1, <1>2, <1>6
  <2>3. ptr \in Nat
    <3>1. PICK c : c = [ptr |-> ptr, size |-> size]
      OBVIOUS
    <3>2. c.ptr = ptr /\ c.size = size
      BY <3>1
    <3>3. QED  BY <3>2, <1>2, FreePlace DEF Releasable
  <2>4. b \in Block /\ b.ptr = ptr /\ b.size = size
    BY <2>1, <2>3, NewBlockTyped
  <2>5. Allocated(b)
    BY <2>1 DEF NewBlock, Allocated
  <2>6. n \notin DOMAIN kept
    BY <2>2, <1>f, NewIdFree
  <2>7. /\ DOMAIN info' = DOMAIN kept \cup {n} /\ info'[n] = b
        /\ \A i \in DOMAIN kept : info'[i] = kept[i]
    BY <2>2, <2>6 DEF With
  <2>8. Typed(kept)
    BY <1>f, Accounts DEF Typed, Without, Restrict
  <2>9. Changed(kept, info', b.size, b.size, IF b.ptr >= 0 THEN b.size ELSE 0)
    BY <1>3, <2>4, <2>5, <2>6, <2>7, <2>8, TotalsMore
  <2>10. /\ Total(info', DOMAIN info') = reserved - R + size
         /\ Total(info', Used(info')) = allocated + size
         /\ Total(info', OnDevice(info')) = Total(kept, OnDevice(kept)) + size
         /\ IsFiniteSet(DOMAIN info')
    BY <1>3, <2>3, <2>4, <2>9 DEF Changed
  <2>11. Total(info', OnDevice(info')) + SumSizes(buffers) <= Capacity
    BY <1>1, <1>3, <1>4, <2>10
  <2>12. Accounted(info', buffers, allocated + size, reserved - R + size)
    BY <1>3, <2>10, <2>11 DEF Accounted
  <2>13. QED  BY <2>2, <2>12 DEF AccountsOK
<1>7. QED  BY <1>5, <1>6

\* A round of WaitUntilAlloc gives back and may get a segment.
LEMMA WaitAccounts ==
  ASSUME IInv, AccountsOK, Wait
  PROVE  AccountsOK'
<1>1. PICK ids : ids = IdsOf(Released(op.size))
  OBVIOUS
<1>2. Releasable(ids)
  BY <1>1, ReleasedWhole
<1>3. op.size \in Nat \ {0} /\ op.stream \in AnyStream
  BY DEF Wait, IInv, OpOK, Idle, Aborted
<1>4. CASE Fits(op.size, Segments \ {info[i] : i \in ids})
  <2>1. NewSegment(op.size, op.stream, ids)
    BY <1>1, <1>4 DEF Wait
  <2>2. QED  BY <2>1, <1>2, <1>3, <1>4, SegmentAccounts
<1>5. CASE ~Fits(op.size, Segments \ {info[i] : i \in ids})
  <2>1. /\ info' = Without(info, ids)
        /\ reserved' = reserved - SumSizes({Entry(i, info[i]) : i \in ids})
        /\ allocated' = allocated /\ buffers' = buffers
    BY <1>1, <1>5 DEF Wait
  <2>2. QED  BY <2>1, <1>2, ReleaseAccounts
<1>6. QED  BY <1>4, <1>5

\* EmptyCache gives back what is not split.
LEMMA ReleaseAllAccounts ==
  ASSUME IInv, AccountsOK, ReleaseAll
  PROVE  AccountsOK'
<1>1. PICK ids : ids = IdsOf(Unsplit)
  OBVIOUS
<1>2. Releasable(ids) /\ Unsplit = {Entry(i, info[i]) : i \in ids}
  <2>1. Unsplit \in SUBSET table[AllStreams] /\ \A e \in Unsplit : ~IsSplit(info[e.id])
    BY DEF Unsplit
  <2>2. QED  BY <1>1, <2>1, EntriesOf
<1>3. /\ info' = Without(info, ids) /\ reserved' = reserved - SumSizes(Unsplit)
      /\ allocated' = allocated /\ buffers' = buffers
  BY <1>1 DEF ReleaseAll
<1>4. QED  BY <1>2, <1>3, ReleaseAccounts

\* A block that is borrowed enters both accounts; a buffer becomes one.
LEMMA BorrowAccounts ==
  ASSUME IInv, AccountsOK, FinishBorrow
  PROVE  AccountsOK'
<1>l. PICK lent \in BOOLEAN : lent
  OBVIOUS
<1>f. PICK n, b : n = NewIdIn(info) /\ b = NewBlock(op.ptr, op.size, op.stream, lent)
  OBVIOUS
<1>0. /\ op.call = "borrow" /\ IdLeft(info) /\ info' = With(info, n, b)
      /\ buffers' = {c \in buffers : c.ptr # op.ptr}
      /\ reserved' = reserved + op.size /\ allocated' = allocated + op.size
  <2>1. lent = TRUE
    BY <1>l
  <2>2. QED  BY <2>1, <1>f DEF FinishBorrow, NewId
<1>1. /\ op.size \in Nat \ {0} /\ op.ptr \in Int /\ op.stream \in AnyStream
      /\ op.ptr = -op.size \/ [ptr |-> op.ptr, size |-> op.size] \in buffers
  BY <1>0 DEF IInv, OpOK, Idle, Aborted
<1>2. b \in Block /\ b.ptr = op.ptr /\ b.size = op.size /\ Allocated(b)
  <2>1. b \in Block /\ b.ptr = op.ptr /\ b.size = op.size
    BY <1>1, <1>f, NewBlockTyped
  <2>2. Allocated(b)
    BY <1>f DEF NewBlock, Allocated
  <2>3. QED  BY <2>1, <2>2
<1>3. n \notin DOMAIN info
  BY <1>0, <1>f, NewIdFree
<1>4. /\ DOMAIN info' = DOMAIN info \cup {n} /\ info'[n] = b
      /\ \A i \in DOMAIN info : info'[i] = info[i]
  BY <1>0, <1>3 DEF With
<1>5. Changed(info, info', b.size, b.size, IF b.ptr >= 0 THEN b.size ELSE 0)
  BY <1>2, <1>3, <1>4, Accounts, TotalsMore
<1>6. BuffersApart(info, buffers)
  BY DEF IInv, Geometry
<1>7. CASE op.ptr = -op.size
  <2>1. ~(b.ptr >= 0)
    BY <1>1, <1>2, <1>7
  <2>2. Changed(info, info', op.size, op.size, 0)
    BY <2>1, <1>2, <1>5
  <2>3. buffers' = buffers
    BY <1>0, <1>1, <1>6, <1>7 DEF BuffersApart
  <2>4. QED  BY <2>2, <2>3, <1>0, <1>1, AccountsFollow
<1>8. CASE [ptr |-> op.ptr, size |-> op.size] \in buffers
  <2>1. PICK d \in buffers : d = [ptr |-> op.ptr, size |-> op.size]
    BY <1>8
  <2>2. d.ptr = op.ptr /\ d.size = op.size /\ op.ptr \in Nat
    BY <2>1, <1>6 DEF BuffersApart
  <2>3. buffers' = buffers \ {d}
    <3>1. \A c \in buffers : c # d => c.ptr # op.ptr
      <4>1. \A c \in buffers : c.ptr = op.ptr => Overlap(c, d)
        BY <2>2, <1>1, <1>6 DEF BuffersApart, Overlap
      <4>2. QED  BY <4>1, <1>6 DEF BuffersApart
    <3>2. QED  BY <3>1, <2>2, <1>0
  <2>4. SumSizes(buffers) = op.size + SumSizes(buffers \ {d}) /\ IsFiniteSet(buffers \ {d})
    <3>1. IsFiniteSet(buffers) /\ Sized(buffers)
      BY Accounts
    <3>2. SumSizes(buffers) = d.size + SumSizes(buffers \ {d})
      BY <3>1, SumTake
    <3>3. QED  BY <3>1, <3>2, <2>2, FS_Subset
  <2>5. SumSizes(buffers \ {d}) \in Nat
    <3>1. IsFiniteSet(buffers \ {d}) /\ Sized(buffers \ {d})
      BY <2>4, Accounts DEF Sized
    <3>2. QED  BY <3>1, SumTyped
  <2>6. /\ Total(info', DOMAIN info') = reserved + op.size
        /\ Total(info', Used(info')) = allocated + op.size
        /\ Total(info', OnDevice(info')) = Total(info, OnDevice(info)) + op.size
        /\ IsFiniteSet(DOMAIN info')
    <3>1. b.ptr >= 0 /\ b.size = op.size
      BY <2>2, <1>2
    <3>2. Changed(info, info', op.size, op.size, op.size)
      BY <3>1, <1>5
    <3>3. QED  BY <3>2, Accounts DEF Changed
  <2>7. Total(info', OnDevice(info')) + SumSizes(buffers \ {d}) <= Capacity
    <3>1. /\ Total(info, OnDevice(info)) \in Nat
          /\ Total(info, OnDevice(info)) + SumSizes(buffers) <= Capacity
      BY Accounts
    <3>2. QED  BY <3>1, <2>4, <2>5, <2>6, <1>1
  <2>8. Accounted(info', buffers \ {d}, allocated + op.size, reserved + op.size)
    BY <2>4, <2>6, <2>7 DEF Accounted
  <2>9. QED  BY <2>3, <2>8, <1>0 DEF AccountsOK
<1>9. QED  BY <1>1, <1>7, <1>8

\* AllocDataSpace counts what it gives: the part of a block that is split, or the whole.
LEMMA FinishAllocAccounts ==
  ASSUME IInv, AccountsOK, FinishAlloc
  PROVE  AccountsOK'
<1>f. PICK size, s, t : size = op.size /\ s = op.stream /\ t = ReuseTable(op.size, op.stream)
  OBVIOUS
<1>0. /\ op.call = "alloc"
      /\ IF t # NoTable
         THEN Reuse(t, size, s) /\ UNCHANGED buffers
         ELSE IF Fits(size, Segments) THEN NewSegment(size, s, {})
         ELSE UNCHANGED <<info, allocated, reserved, buffers>>
  BY <1>f DEF FinishAlloc
<1>1. /\ size \in Nat \ {0} /\ s \in AnyStream
  BY <1>0, <1>f DEF IInv, OpOK, Idle, Aborted
<1>2. created \subseteq Streams
  BY DEF IInv
<1>3. CASE t # NoTable
  <2>1. t \in Tables /\ t \in {s, AllStreams} /\ FindAvailable(t, size) # {}
    BY <1>2, <1>3, <1>f DEF ReuseTable, Tables
  <2>2. PICK e, id, rest : /\ e = (CHOOSE x \in FindAvailable(t, size) : TRUE)
                           /\ id = e.id /\ rest = NewIdIn(info)
    OBVIOUS
  <2>3. e \in table[t] /\ e.size >= size
    BY <2>1, <2>2 DEF FindAvailable
  <2>4. /\ id \in DOMAIN info /\ info[id] \in Block /\ ~info[id].borrowed
        /\ info[id].cnt = 0 /\ e.size = info[id].size /\ e.ptr = info[id].ptr
        /\ ~Allocated(info[id])
    BY <2>1, <2>2, <2>3, Available
  <2>5. PICK taken : taken = Taken(info[id], s)
    OBVIOUS
  <2>6. /\ taken.next = info[id].next /\ Place(taken) = Place(info[id]) /\ Given(taken, s)
        /\ taken \in Block
    BY <2>4, <2>5, <1>1, TakenBlock DEF Place
  <2>7. /\ buffers' = buffers /\ reserved' = reserved
        /\ allocated' = allocated + GivenSize(e.size, size)
        /\ IF ShouldSplit(e.size, size)
           THEN /\ IdLeft(info)
                /\ info' = With(With(PointBack(info, taken.next, rest), id,
                                     [taken EXCEPT !.size = size, !.next = rest]),
                                rest, Leftover(info[id], id, size, s, t))
           ELSE info' = [info EXCEPT ![id] = taken]
    BY <1>0, <1>3, <2>2, <2>4, <2>5, <2>6 DEF Reuse, Taken, Leftover, NewId
  <2>8. Typed(info) /\ Lent(info) /\ IsFiniteSet(DOMAIN info)
    BY Accounts DEF Geometry
  <2>9. CASE ShouldSplit(e.size, size)
    <3>1. size < e.size
      BY <2>4, <2>9, <1>1, Constants DEF ShouldSplit, Block
    <3>2. rest \in Ids /\ rest \notin DOMAIN info
      BY <2>2, <2>7, <2>9, NewIdFree
    <3>3. Divided(info', id, rest, size, s, t)
      BY <2>1, <2>4, <2>5, <2>7, <2>9, <3>1, <3>2, <1>1, BlockIsDivided
    <3>4. Changed(info, info', 0, size, 0)
      BY <2>4, <2>8, <3>1, <3>3, <1>1, TotalsDivided
    <3>5. allocated' = allocated + size /\ reserved' = reserved + 0
      BY <2>7, <2>9, Accounts DEF GivenSize
    <3>6. QED  BY <3>4, <3>5, <2>7, <1>1, AccountsFollow
  <2>10. CASE ~ShouldSplit(e.size, size)
    <3>1. info' = [info EXCEPT ![id] = taken]
      BY <2>7, <2>10
    <3>2. /\ taken.size = info[id].size /\ taken.ptr = info[id].ptr /\ Allocated(taken)
      BY <2>6 DEF Place, Given, Allocated
    <3>3. /\ DOMAIN info' = DOMAIN info /\ Typed(info') /\ info'[id] = taken
          /\ \A i \in DOMAIN info : info'[i].size = info[i].size /\ info'[i].ptr = info[i].ptr
      BY <2>4, <2>6, <2>8, <3>1, <3>2 DEF Typed
    <3>4. {id} \in SUBSET Used(info') /\ Used(info) = Used(info') \ {id}
      BY <2>4, <3>1, <3>2, <3>3 DEF Used
    <3>5. Changed(info', info, 0, -Total(info', {id}), 0)
      BY <2>8, <3>3, <3>4, TotalsKept
    <3>6. Total(info', {id}) = e.size /\ e.size \in Nat
      BY <2>4, <3>2, <3>3, TotalOne DEF Block
    <3>7. /\ Total(info', DOMAIN info') \in Nat /\ Total(info', Used(info')) \in Nat
          /\ Total(info', OnDevice(info')) \in Nat
      BY <2>8, <3>3, PartsMeasured
    <3>8. Changed(info, info', 0, e.size, 0)
      BY <2>8, <3>3, <3>5, <3>6, <3>7 DEF Changed
    <3>9. allocated' = allocated + e.size /\ reserved' = reserved + 0
      BY <2>7, <2>10, Accounts DEF GivenSize
    <3>10. QED  BY <3>6, <3>8, <3>9, <2>7, AccountsFollow
  <2>11. QED  BY <2>9, <2>10
<1>4. CASE t = NoTable /\ Fits(size, Segments)
  <2>1. NewSegment(size, s, {})
    BY <1>0, <1>4
  <2>2. PICK none : none = {}
    OBVIOUS
  <2>3. Releasable(none) /\ Segments \ {info[i] : i \in none} = Segments
    BY <2>2 DEF Releasable
  <2>4. NewSegment(size, s, none) /\ Fits(size, Segments \ {info[i] : i \in none})
    BY <2>1, <2>2, <2>3, <1>4
  <2>5. QED  BY <2>3, <2>4, <1>1, SegmentAccounts
<1>5. CASE t = NoTable /\ ~Fits(size, Segments)
  <2>1. info' = info /\ allocated' = allocated /\ reserved' = reserved /\ buffers' = buffers
    BY <1>0, <1>5
  <2>2. QED  BY <2>1 DEF AccountsOK
<1>6. QED  BY <1>3, <1>4, <1>5

\* An abort in mid-operation is the end of the process: until then, the accounts agree.
AccountsUntilAbort == op.call # "aborted" => AccountsOK

\* The accounts agree at first,
LEMMA InitAccounts ==
  ASSUME Init
  PROVE  AccountsOK
<1>1. /\ DOMAIN info = {} /\ buffers = {} /\ allocated = 0 /\ reserved = 0
  BY DEF Init
<1>2. SumSizes({}) = 0 /\ IsFiniteSet({})
  BY FS_EmptySet, SumStep
<1>3. Used(info) = {} /\ OnDevice(info) = {} /\ Entries(info, {}) = {}
  BY <1>1 DEF Used, OnDevice, Entries
<1>4. Total(info, {}) = 0
  BY <1>2, <1>3 DEF Total
<1>5. 0 + 0 <= Capacity
  BY SizesAssumption
<1>6. Accounted(info, {}, 0, 0)
  BY <1>1, <1>2, <1>3, <1>4, <1>5 DEF Accounted
<1>7. QED  BY <1>1, <1>6 DEF AccountsOK

\* and through every step up to the last before an abort.
LEMMA StepAccounts ==
  ASSUME IInv, AccountsUntilAbort, [Next]_vars
  PROVE  AccountsUntilAbort'
<1> SUFFICES ASSUME op'.call # "aborted" PROVE AccountsOK'
  BY DEF AccountsUntilAbort
<1>1. ASSUME UNCHANGED <<info, buffers, allocated, reserved>>, op.call # "aborted"
      PROVE  AccountsOK'
  BY <1>1 DEF AccountsUntilAbort, AccountsOK
<1>2. Idle.call # "aborted"
  BY DEF Idle
<1>3. CASE Call
  <2>1. op.call # "aborted" /\ AccountsOK
    <3>1. op = Idle
      BY <1>3 DEF Call, CallAlloc, CallBorrow, CallBuffer, CallEmptyCache, FreeDataSpace, UseOn
    <3>2. QED  BY <3>1, <1>2 DEF AccountsUntilAbort
  <2>2. ASSUME NEW size, NEW s, CallAlloc(size, s) PROVE AccountsOK'
    BY <2>1, <2>2, <1>1 DEF CallAlloc, poolVars
  <2>3. ASSUME NEW size, NEW ptr, NEW s, CallBorrow(size, ptr, s) PROVE AccountsOK'
    BY <2>1, <2>3, <1>1 DEF CallBorrow, poolVars
  <2>4. CASE CallEmptyCache
    BY <2>1, <2>4, <1>1 DEF CallEmptyCache, poolVars
  <2>5. ASSUME NEW size \in BufferSizes, CallBuffer(size) PROVE AccountsOK'
    BY <2>1, <2>5, CallBufferAccounts
  <2>6. ASSUME NEW id, FreeDataSpace(id) PROVE AccountsOK'
    BY <2>1, <2>6, FreeAccounts
  <2>7. ASSUME NEW id, NEW s \in Streams, UseOn(id, s) PROVE AccountsOK'
    BY <2>1, <2>7, UseOnAccounts
  <2>8. QED  BY <1>3, <2>2, <2>3, <2>4, <2>5, <2>6, <2>7 DEF Call
<1>4. CASE Proceed
  <2>1. op.call # "aborted" /\ AccountsOK
    <3>1. op.call # "aborted"
      BY <1>4 DEF Proceed, WatchEvent, Watching, Running, FinishAlloc, Wait, ReleaseAll,
                  FinishBorrow
    <3>2. QED  BY <3>1 DEF AccountsUntilAbort
  <2>2. QED  BY <2>1, <1>4, WatchAccounts, FinishAllocAccounts, WaitAccounts,
                ReleaseAllAccounts, BorrowAccounts DEF Proceed
<1>5. ASSUME NEW s \in Streams, Complete(s) PROVE AccountsOK'
  BY <1>5, <1>1 DEF Complete
<1>6. CASE UNCHANGED vars
  BY <1>6, <1>1 DEF vars, poolVars
<1>7. QED  BY <1>3, <1>4, <1>5, <1>6 DEF Next

\* They are what AccountsMatch states.
LEMMA AccountsAgree ==
  ASSUME IInv, AccountsOK
  PROVE  AccountsMatch
<1>1. Segments = {info[i] : i \in OnDevice(info)} \cup buffers
  BY DEF Segments, OnDevice
<1>2. SumSizes(Segments) = Total(info, OnDevice(info)) + SumSizes(buffers)
  <2>1. OnDevice(info) \in SUBSET DOMAIN info
    BY DEF OnDevice
  <2>2. SumSizes({info[i] : i \in OnDevice(info)} \cup buffers)
          = Total(info, OnDevice(info)) + SumSizes(buffers)
    BY <2>1, Accounts, SegmentsTotal DEF Geometry
  <2>3. QED  BY <2>2, <1>1
<1>3. /\ reserved = SumSizes(Entries(info, DOMAIN info))
      /\ allocated = SumSizes(Entries(info, Used(info)))
      /\ SumSizes(Segments) <= Capacity
  BY <1>2, Accounts DEF Total
<1>4. QED  BY <1>3 DEF AccountsMatch, Entries, Used

\* With a table for every stream there is nothing to abort.
Tabled == created = Streams /\ op.call # "aborted"

\* No step removes a table, and without a missing one none aborts.
LEMMA StepTabled ==
  ASSUME IInv, Tabled, [Next]_vars
  PROVE  Tabled'
<1>1. created \subseteq Streams /\ OpOK(op, info, buffers, work)
  BY DEF IInv
<1>2. Idle.call # "aborted"
  BY DEF Idle
<1>3. ASSUME created' = created, op' = op \/ op'.call # "aborted"
      PROVE  Tabled'
  BY <1>3 DEF Tabled
<1>4. ASSUME Running, NEW k
      PROVE  [op EXCEPT !.at = k].call # "aborted"
  <2>1. \/ op \in [call : {"alloc", "buffer"}, size : Nat \ {0}, stream : AnyStream,
                   at : Nat, waiting : BOOLEAN]
        \/ op \in [call : {"borrow"}, size : Nat \ {0}, ptr : Int, stream : AnyStream,
                   at : Nat]
        \/ op \in [call : {"empty"}, at : Nat]
    BY <1>1, <1>4 DEF OpOK, Running, Idle, Aborted
  <2>2. [op EXCEPT !.at = k].call = op.call
    BY <2>1
  <2>3. QED  BY <2>2, <1>4 DEF Running
<1>5. CASE Call
  <2>1. ASSUME NEW size, NEW s, CallAlloc(size, s) PROVE Tabled'
    BY <2>1, <1>3 DEF CallAlloc, poolVars
  <2>2. ASSUME NEW size, NEW ptr, NEW s, CallBorrow(size, ptr, s) PROVE Tabled'
    BY <2>2, <1>3 DEF CallBorrow, poolVars
  <2>3. CASE CallEmptyCache
    BY <2>3, <1>3 DEF CallEmptyCache, poolVars
  <2>4. ASSUME NEW size, CallBuffer(size) PROVE Tabled'
    BY <2>4, <1>3 DEF CallBuffer, poolVars
  <2>5. ASSUME NEW id, FreeDataSpace(id) PROVE Tabled'
    <3>1. created' = created
      BY <2>5 DEF FreeDataSpace
    <3>2. op' = op
      BY <2>5 DEF FreeDataSpace, FreeBorrowed, FreeWhenAllDone, FreeToTable, Tabled
    <3>3. QED  BY <3>1, <3>2, <1>3
  <2>6. ASSUME NEW id, NEW s, UseOn(id, s) PROVE Tabled'
    BY <2>6, <1>3 DEF UseOn
  <2>7. QED  BY <1>5, <2>1, <2>2, <2>3, <2>4, <2>5, <2>6 DEF Call
<1>6. CASE WatchEvent
  <2>1. PICK k : op' = [op EXCEPT !.at = k]
    BY <1>6 DEF WatchEvent
  <2>2. Running /\ created' = created
    BY <1>6 DEF WatchEvent, Watching
  <2>3. QED  BY <2>1, <2>2, <1>3, <1>4
<1>7. CASE FinishAlloc
  <2>1. op.call = "alloc" /\ created' = created \cup UsedStreams(op.stream)
    BY <1>7 DEF FinishAlloc
  <2>2. /\ op.stream \in AnyStream
        /\ op \in [call : {"alloc", "buffer"}, size : Nat \ {0}, stream : AnyStream,
                   at : Nat, waiting : BOOLEAN]
    BY <2>1, <1>1 DEF OpOK, Idle, Aborted
  <2>3. created' = created
    BY <2>1, <2>2 DEF Tabled, UsedStreams, AnyStream
  <2>4. op' = Idle \/ op' = [op EXCEPT !.waiting = TRUE, !.at = 1]
    BY <1>7 DEF FinishAlloc
  <2>5. op' = [op EXCEPT !.waiting = TRUE, !.at = 1] => op'.call = "alloc"
    BY <2>1, <2>2
  <2>6. QED  BY <2>3, <2>4, <2>5, <1>2, <1>3
<1>8. CASE Wait
  <2>1. created' = created /\ Running
    BY <1>8 DEF Wait, Running
  <2>2. op' = Idle \/ op' = [op EXCEPT !.at = 1]
    BY <1>8 DEF Wait
  <2>3. QED  BY <2>1, <2>2, <1>2, <1>3, <1>4
<1>9. CASE ReleaseAll \/ FinishBorrow
  BY <1>9, <1>2, <1>3 DEF ReleaseAll, FinishBorrow
<1>10. ASSUME NEW s, Complete(s) PROVE Tabled'
  BY <1>10, <1>3 DEF Complete
<1>11. CASE UNCHANGED vars
  BY <1>11, <1>3 DEF vars, poolVars
<1>12. QED  BY <1>5, <1>6, <1>7, <1>8, <1>9, <1>10, <1>11 DEF Next, Proceed

-----------------------------------------------------------------------------
(* The theorems *)

\* Through every call, split, merge, event and completion the pool's maps agree: with
\* each other, with the queues of events and with the kernels in flight.
THEOREM Inductive == Spec => []IInv
<1>1. Init => IInv
  BY InitHolds
<1>2. IInv /\ [Next]_vars => IInv'
  BY StepKeeps
<1>3. QED  BY <1>1, <1>2, PTL DEF Spec

\* Blocks neither overlap nor lose each other in a segment's list, whatever is split
\* and merged.
THEOREM BlocksTileAlways == Spec => []BlocksTile
<1>1. IInv => BlocksTile
  BY Tiled
<1>2. QED  BY <1>1, Inductive, PTL

\* The tables hold the free blocks and nothing else, each where its status says.
THEOREM TablesMatchAlways == Spec => []TablesMatchInfo
<1>1. IInv => TablesMatchInfo
  BY TablesAgree
<1>2. QED  BY <1>1, Inductive, PTL

\* A block is in the table of a stream exactly while it has an event of that stream,
\* though TryMerge drops, hands on and chooses between events.
THEOREM EventsMatchAlways == Spec => []EventsMatchTables
<1>1. IInv => EventsMatchTables
  BY EventsMatch
<1>2. QED  BY <1>1, Inductive, PTL

\* A block that several streams use waits for as many events as are queued for it.
THEOREM CountsMatchAlways == Spec => []EventCountsMatch
<1>1. IInv => EventCountsMatch
  BY EventsMatch
<1>2. QED  BY <1>1, Inductive, PTL

\* No two free neighbours are left apart that TryMerge would merge.
THEOREM MergedAlways == Spec => []NoMergeMissed
<1>1. IInv => NoMergeMissed
  BY EventsMatch
<1>2. QED  BY <1>1, Inductive, PTL

\* A free block that a kernel may still touch is in that kernel's stream's table and
\* its event comes no earlier than the kernel ends.
THEOREM WorkCovered == Spec => []EventCoversWork
<1>1. IInv => EventCoversWork
  BY Covered
<1>2. QED  BY <1>1, Inductive, PTL

\* AllocDataSpace and BorrowDataSpace hand out no memory that a kernel of another
\* stream still touches.
THEOREM MemoryFresh == Spec => FreshMemory
<1>1. IInv /\ [Next]_vars =>
        [\A i \in held' \ held : \A s \in Streams \ {info'[i].alloc_stream} :
           Touched(s, info'[i]) = {}]_vars
  BY StepKeeps DEF FreshStep
<1>2. QED  BY <1>1, Inductive, PTL DEF Spec, FreshMemory

\* No memory goes back to the device or to its lender that a kernel still touches.
THEOREM ReturnedIdleAlways == Spec => ReturnedMemoryIdle
<1>1. IInv /\ [Next]_vars =>
        [\A i \in DOMAIN info :
           (\A j \in DOMAIN info' : ~Overlap(info[i], info'[j])) =>
             \A s \in Streams : Touched(s, info[i]) = {}]_vars
  BY StepKeeps DEF IdleStep
<1>2. QED  BY <1>1, Inductive, PTL DEF Spec, ReturnedMemoryIdle

\* EmptyCache leaves no stream's table an entry, and the table of all streams only
\* parts of split blocks: what ProfileAfterEmptyAllCUDACache asserts.
THEOREM CacheEmptied == Spec => EmptiedCache
<1>1. IInv /\ [Next]_vars =>
        [op.call = "empty" /\ op' = Idle =>
           /\ \A s \in Streams : table'[s] = {}
           /\ \A e \in table'[AllStreams] : IsSplit(info'[e.id])]_vars
  BY StepEmpties DEF EmptyStep
<1>2. QED  BY <1>1, Inductive, PTL DEF Spec, EmptiedCache

\* The pool's counters are the memory of its blocks and of those in use, and its
\* segments fit on the device, until a stream's missing table stops the process.
THEOREM AccountsKept == Spec => [](op.call # "aborted" => AccountsMatch)
<1>1. Init => AccountsUntilAbort
  BY InitAccounts DEF AccountsUntilAbort
<1>2. IInv /\ AccountsUntilAbort /\ [Next]_vars => AccountsUntilAbort'
  BY StepAccounts
<1>3. IInv /\ AccountsUntilAbort => (op.call # "aborted" => AccountsMatch)
  BY AccountsAgree DEF AccountsUntilAbort
<1>4. QED  BY <1>1, <1>2, <1>3, Inductive, PTL DEF Spec

\* It only stops for a stream that has allocated nothing yet, when FreeDataSpace meets
\* the table that operator[] makes empty.
THEOREM AbortsOnlyUntabled ==
  ASSUME Warm = Streams
  PROVE  Spec => [](op.call # "aborted")
<1>1. Init => Tabled
  BY DEF Init, Tabled, Idle
<1>2. IInv /\ Tabled /\ [Next]_vars => Tabled'
  BY StepTabled
<1>3. Tabled => op.call # "aborted"
  BY DEF Tabled
<1>4. QED  BY <1>1, <1>2, <1>3, Inductive, PTL DEF Spec

\* When every stream has allocated before, the counters and the memory agree always.
THEOREM AccountsMatchAlways ==
  ASSUME Warm = Streams
  PROVE  Spec => []AccountsMatch
BY AccountsKept, AbortsOnlyUntabled, PTL

=============================================================================
