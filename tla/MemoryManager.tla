--------------------------- MODULE MemoryManager ---------------------------
(***************************************************************************)
(* MemoryManager (hetu/impl/memory/memory_manager.{h,cc}): the first-fit   *)
(* allocator that CUDACachingMemoryPool uses in place of cudaMalloc and    *)
(* cudaFree when HETU_PRE_ALLOCATE_SIZE_MB is set.                         *)
(*                                                                         *)
(* The manager keeps its memory as a doubly linked list of blocks.  Blocks *)
(* differ in address at any time, so here the list is a function of the    *)
(* address, and a link is the address of a neighbour.  The address of the  *)
(* stretch is 0.  The pool calls it under its mutex: calls do not overlap. *)
(***************************************************************************)
EXTENDS Integers

CONSTANTS Total,      \* _total_size
          Sizes       \* sizes the pool asks for: aligned, never 0

ASSUME TotalAssumption == Total \in Nat \ {0}
ASSUME SizesAssumption == Sizes \subseteq Nat \ {0}

VARIABLES block,      \* address -> size, whether allocated, links
          reply       \* the address Malloc gave last, Null when it refused

vars == <<block, reply>>

Null == -1
Blocks == DOMAIN block

Init ==
  /\ block = [p \in {0} |-> [size |-> Total, allocated |-> FALSE,
                             prev |-> Null, next |-> Null]]
  /\ reply = Null

-----------------------------------------------------------------------------
Suitable(p, size) == ~block[p].allocated /\ block[p].size >= size

\* The walk along next meets blocks in the order of their addresses (Tiles), and
\* stops at the first that is suitable.
FirstFit(p, size) ==
  /\ Suitable(p, size)
  /\ \A q \in Blocks : q < p => ~Suitable(q, size)

Larger(p, size) == block[p].size > size

\* Mutant: the link back of the block after is left alone.
LinkKept(b, rest) == b

LinkBack(b, rest) == [size |-> b.size, allocated |-> b.allocated, prev |-> rest,
                      next |-> b.next]

\* Block p is taken as it is.
Whole(p) ==
  LET cur == block[p]
  IN  [block EXCEPT ![p] = [size |-> cur.size, allocated |-> TRUE,
                            prev |-> cur.prev, next |-> cur.next]]

\* The rest of p becomes a block of its own, between p and p's successor.
Split(p, size) ==
  LET cur == block[p]
      rest == p + size
  IN  [q \in Blocks \cup {rest} |->
         IF q = p THEN [size |-> size, allocated |-> TRUE, prev |-> cur.prev,
                        next |-> rest]
         ELSE IF q = rest THEN [size |-> cur.size - size, allocated |-> FALSE,
                                prev |-> p, next |-> cur.next]
         ELSE IF q = cur.next THEN LinkBack(block[q], rest)
         ELSE block[q]]

Malloc(size) ==
  \E p \in Blocks :
    /\ FirstFit(p, size)
    /\ block' = IF Larger(p, size) THEN Split(p, size)
                ELSE Whole(p)
    /\ reply' = p

Refuse(size) ==
  /\ \A p \in Blocks : ~Suitable(p, size)
  /\ reply' = Null
  /\ UNCHANGED block

-----------------------------------------------------------------------------
IsFree(p) == p # Null /\ ~block[p].allocated

\* Mutant: the neighbour on this side is not looked at.
NotMerged(p) == FALSE

MergesPrev(p) == IsFree(block[p].prev)
MergesNext(p) == IsFree(block[p].next)

\* The block that p becomes part of, the one that will be behind it, its size, and
\* the blocks that are no more.
Start(p) == IF MergesPrev(p) THEN block[p].prev ELSE p
End(p) == IF MergesNext(p) THEN block[block[p].next].next ELSE block[p].next
SizeMerged(p) ==
  block[p].size + (IF MergesPrev(p) THEN block[block[p].prev].size ELSE 0)
                + (IF MergesNext(p) THEN block[block[p].next].size ELSE 0)
Gone(p) == (IF MergesPrev(p) THEN {p} ELSE {})
             \cup (IF MergesNext(p) THEN {block[p].next} ELSE {})

Free(p) ==
  /\ block[p].allocated
  /\ block' = [q \in Blocks \ Gone(p) |->
                 IF q = Start(p)
                 THEN [size |-> SizeMerged(p), allocated |-> FALSE,
                       prev |-> block[Start(p)].prev, next |-> End(p)]
                 ELSE IF q = End(p) THEN LinkBack(block[q], Start(p))
                 ELSE block[q]]
  /\ UNCHANGED reply

Next == \/ \E size \in Sizes : Malloc(size) \/ Refuse(size)
        \/ \E p \in Blocks : Free(p)

Spec == Init /\ [][Next]_vars

-----------------------------------------------------------------------------
\* Type invariant.
TypeOK ==
  /\ 0 \in Blocks /\ Blocks \subseteq 0..(Total - 1)
  /\ block \in [Blocks -> [size : 1..Total, allocated : BOOLEAN,
                           prev : Blocks \cup {Null}, next : Blocks \cup {Null}]]
  /\ reply \in 0..(Total - 1) \cup {Null}

\* The links of p agree with the addresses and with the links of its neighbours.
LinksAgree(p) ==
  /\ p + block[p].size <= Total
  /\ block[p].next = IF p + block[p].size = Total THEN Null ELSE p + block[p].size
  /\ block[p].prev = Null <=> p = 0
  /\ block[p].prev # Null => block[p].prev \in Blocks /\ block[block[p].prev].next = p

\* The blocks fill the stretch from end to end, in the order of their links, so
\* that the walk from the head meets every block and every byte once.
Tiles ==
  /\ \A p \in Blocks : LinksAgree(p)
  /\ \A p, q \in Blocks : p < q => p + block[p].size <= q

\* No two neighbours are both free: a free stretch of memory is one block, and a
\* request is never refused for the seams in it.
Coalesced ==
  \A p \in Blocks : IsFree(p) => ~IsFree(block[p].next)

\* The memory in use.
Held == {[ptr |-> p, size |-> block[p].size] : p \in {q \in Blocks : block[q].allocated}}

\* MemoryManager keeps the promises of Arena: what Malloc returns has exactly the
\* size that was asked for and overlaps nothing in use, Free gives back that piece
\* and no other, and Malloc returns false only when nothing fits.
A == INSTANCE Arena WITH held <- Held
ImplementsArena == A!Spec
=============================================================================
