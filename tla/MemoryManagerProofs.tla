------------------------ MODULE MemoryManagerProofs ------------------------
(***************************************************************************)
(* For every length of the memory and all sizes of requests: the blocks    *)
(* fill it, free neighbours are one block, and MemoryManager implements    *)
(* Arena.                                                                  *)
(*                                                                         *)
(* The inductive invariant is the three invariants of MemoryManager.  That *)
(* a refusal is justified needs more than any of them says by itself:      *)
(* every address belongs to a block (Covered), so that unused memory is    *)
(* made of free blocks, which Coalesced says do not touch.                 *)
(***************************************************************************)
EXTENDS MemoryManager, TLAPS

Covered ==
  \A a \in 0..(Total - 1) : \E p \in Blocks : p <= a /\ a < p + block[p].size

IInv == TypeOK /\ Tiles /\ Coalesced /\ Covered

-----------------------------------------------------------------------------
\* What the invariant says of one block, in the form the proofs use.
Extent(p) ==
  /\ p \in Nat /\ p < Total
  /\ block[p].size \in Nat /\ block[p].size > 0
  /\ p + block[p].size <= Total

\* The type of a block and its neighbours.
Record(p) == block[p] \in [size : 1..Total, allocated : BOOLEAN,
                           prev : Blocks \cup {Null}, next : Blocks \cup {Null}]

\* p's successor.
Successor(p) ==
  LET n == block[p].next
  IN  IF p + block[p].size = Total THEN n = Null
      ELSE n \in Blocks /\ n = p + block[p].size

\* p's predecessor.
Predecessor(p) ==
  LET b == block[p].prev
  IN  IF p = 0 THEN b = Null
      ELSE /\ b \in Blocks
           /\ b + block[b].size = p
           /\ block[b].next = p

\* No block begins inside another.
Ordered == \A p, q \in Blocks : p < q => p + block[p].size <= q

LEMMA BlockFacts ==
  ASSUME TypeOK, Tiles
  PROVE  /\ \A p \in Blocks : Record(p) /\ Extent(p) /\ Successor(p) /\ Predecessor(p)
         /\ Ordered
         /\ 0 \in Blocks
  <1>1. Ordered
    BY DEF Tiles, Ordered
  <1>2. ASSUME NEW p \in Blocks
        PROVE  Record(p) /\ Extent(p)
    <2>1. Record(p)
      BY DEF TypeOK, Record
    <2>2. block[p].size \in 1..Total
      BY <2>1 DEF Record
    <2>3. p \in 0..(Total - 1)
      BY DEF TypeOK
    <2>4. p + block[p].size <= Total
      BY DEF Tiles, LinksAgree
    <2> QED
      BY <2>1, <2>2, <2>3, <2>4, TotalAssumption DEF Extent
  <1>3. ASSUME NEW p \in Blocks
        PROVE  Successor(p)
    <2>1. block[p].next \in Blocks \cup {Null}
      BY <1>2 DEF Record
    <2>2. Extent(p) /\ LinksAgree(p)
      BY <1>2 DEF Tiles
    <2> QED
      BY <2>1, <2>2, TotalAssumption DEF Successor, LinksAgree, Extent, Null
  <1>4. ASSUME NEW p \in Blocks
        PROVE  Predecessor(p)
    <2>1. block[p].prev \in Blocks \cup {Null}
      BY <1>2 DEF Record
    <2>2. Extent(p) /\ LinksAgree(p)
      BY <1>2 DEF Tiles
    <2>3. CASE p = 0
      BY <2>2, <2>3 DEF Predecessor, LinksAgree
    <2>4. CASE p # 0
      <3> DEFINE b == block[p].prev
      <3>1. b \in Blocks /\ block[b].next = p
        BY <2>1, <2>2, <2>4 DEF LinksAgree
      <3>2. Successor(b)
        BY <3>1, <1>3
      <3>3. b + block[b].size = p
        BY <3>1, <3>2, <2>2 DEF Successor, Extent, Null
      <3> QED
        BY <3>1, <3>3, <2>4 DEF Predecessor
    <2> QED
      BY <2>3, <2>4
  <1>5. 0 \in Blocks
    BY DEF TypeOK
  <1> QED
    BY <1>1, <1>2, <1>3, <1>4, <1>5

\* And back: the same facts make TypeOK and Tiles.
Layout ==
  /\ block = [p \in Blocks |-> block[p]]
  /\ \A p \in Blocks : Record(p) /\ Extent(p) /\ Successor(p) /\ Predecessor(p)
  /\ Ordered
  /\ 0 \in Blocks
  /\ reply \in 0..(Total - 1) \cup {Null}

LEMMA LayoutMakes == Layout => TypeOK /\ Tiles
  <1> SUFFICES ASSUME Layout PROVE TypeOK /\ Tiles
    OBVIOUS
  <1>1. Blocks \subseteq 0..(Total - 1)
    BY TotalAssumption DEF Layout, Extent
  <1>2. block \in [Blocks -> [size : 1..Total, allocated : BOOLEAN,
                              prev : Blocks \cup {Null}, next : Blocks \cup {Null}]]
    BY DEF Layout, Record
  <1>3. TypeOK
    BY <1>1, <1>2 DEF Layout, TypeOK
  <1>4. ASSUME NEW p \in Blocks
        PROVE  LinksAgree(p)
    <2>1. Extent(p) /\ Successor(p) /\ Predecessor(p)
      BY DEF Layout
    <2>2. CASE p = 0
      BY <2>1, <2>2, TotalAssumption DEF Extent, Successor, Predecessor, LinksAgree
    <2>3. CASE p # 0
      <3>1. block[p].prev \in Blocks
        BY <2>1, <2>3 DEF Predecessor
      <3>2. block[p].prev # Null
        BY <3>1 DEF Layout, Extent, Null
      <3> QED
        BY <2>1, <2>3, <3>2, TotalAssumption
        DEF Extent, Successor, Predecessor, LinksAgree
    <2> QED
      BY <2>2, <2>3
  <1> QED
    BY <1>3, <1>4 DEF Layout, Tiles, Ordered

\* The memory is one free block at first.
LEMMA InitIInv == Init => IInv
  <1> SUFFICES ASSUME Init PROVE IInv
    OBVIOUS
  <1>1. /\ Blocks = {0}
        /\ block[0] = [size |-> Total, allocated |-> FALSE, prev |-> Null, next |-> Null]
    BY DEF Init, Blocks
  <1>2. Record(0) /\ Extent(0) /\ Successor(0) /\ Predecessor(0)
    BY <1>1, TotalAssumption DEF Record, Extent, Successor, Predecessor
  <1>3. TypeOK /\ Tiles
    <2>1. Ordered
      BY <1>1 DEF Ordered
    <2>2. block = [p \in Blocks |-> block[p]]
      BY DEF Init, Blocks
    <2> QED
      BY <1>1, <1>2, <2>1, <2>2, LayoutMakes DEF Layout, Init
  <1>4. Coalesced
    BY <1>1 DEF Coalesced, IsFree
  <1>5. Covered
    BY <1>1, TotalAssumption DEF Covered
  <1> QED
    BY <1>3, <1>4, <1>5 DEF IInv

-----------------------------------------------------------------------------
\* Handing out a block whole changes no address, size or link.
LEMMA WholeIInv ==
  ASSUME IInv, NEW p \in Blocks, block' = Whole(p), reply' = p
  PROVE  IInv'
  <1>1. /\ Blocks' = Blocks
        /\ block' = [q \in Blocks' |-> block'[q]]
        /\ \A q \in Blocks :
             block'[q] = IF q = p
                         THEN [size |-> block[p].size, allocated |-> TRUE,
                               prev |-> block[p].prev, next |-> block[p].next]
                         ELSE block[q]
    BY DEF IInv, TypeOK, Whole, Blocks
  <1>2. \A q \in Blocks : /\ block'[q].size = block[q].size
                          /\ block'[q].prev = block[q].prev
                          /\ block'[q].next = block[q].next
                          /\ block[q].allocated => block'[q].allocated
    BY <1>1
  <1>3. /\ \A q \in Blocks : Record(q) /\ Extent(q) /\ Successor(q) /\ Predecessor(q)
        /\ Ordered
        /\ 0 \in Blocks
    BY BlockFacts DEF IInv
  <1>4. ASSUME NEW q \in Blocks'
        PROVE  Record(q)' /\ Extent(q)' /\ Successor(q)' /\ Predecessor(q)'
    <2>1. Record(q)'
      <3>1. CASE q = p
        <4>1. /\ block[p].size \in 1..Total
              /\ block[p].prev \in Blocks \cup {Null}
              /\ block[p].next \in Blocks \cup {Null}
          BY <1>3 DEF Record
        <4>2. block'[q] = [size |-> block[p].size, allocated |-> TRUE,
                           prev |-> block[p].prev, next |-> block[p].next]
          BY <1>1, <3>1
        <4>3. Blocks' = Blocks /\ Null' = Null
          BY <1>1 DEF Null
        <4> QED
          BY <4>1, <4>2, <4>3 DEF Record
      <3>2. CASE q # p
        BY <1>1, <1>3, <3>2 DEF Record
      <3> QED
        BY <3>1, <3>2
    <2>2. Extent(q)' /\ Successor(q)'
      BY <1>1, <1>2, <1>3 DEF Extent, Successor
    <2>3. Predecessor(q)'
      BY <1>1, <1>2, <1>3 DEF Predecessor
    <2> QED
      BY <2>1, <2>2, <2>3
  <1>5. TypeOK' /\ Tiles'
    <2>1. Ordered'
      BY <1>1, <1>2, <1>3 DEF Ordered
    <2>2. Layout'
      <3>1. reply' \in 0..(Total - 1) \cup {Null}'
        BY <1>3, TotalAssumption DEF Extent
      <3> QED
        BY <1>1, <1>3, <1>4, <2>1, <3>1 DEF Layout
    <2> QED
      BY <2>2, LayoutMakes, PTL
  <1>6. Coalesced'
    BY <1>1, <1>2, <1>3 DEF IInv, Coalesced, IsFree, Successor
  <1>7. Covered'
    BY <1>1, <1>2 DEF IInv, Covered
  <1> QED
    BY <1>5, <1>6, <1>7 DEF IInv

\* A block's rest takes the place behind it, between it and its successor.
LEMMA SplitIInv ==
  ASSUME IInv, NEW size \in Sizes, NEW p \in Blocks,
         ~block[p].allocated, Larger(p, size), block' = Split(p, size), reply' = p
  PROVE  IInv'
  <1> DEFINE rest == p + size
             after == block[p].next
  <1>1. /\ \A q \in Blocks : Record(q) /\ Extent(q) /\ Successor(q) /\ Predecessor(q)
        /\ Ordered
        /\ 0 \in Blocks
    BY BlockFacts DEF IInv
  <1>2. /\ size \in Nat /\ size > 0
        /\ rest \in Nat /\ p < rest /\ rest < p + block[p].size /\ rest < Total
    BY <1>1, SizesAssumption, TotalAssumption DEF Larger, Extent
  <1>3. rest \notin Blocks
    BY <1>1, <1>2 DEF Ordered, Extent
  <1>4. /\ Blocks' = Blocks \cup {rest}
        /\ block' = [q \in Blocks' |-> block'[q]]
        /\ block'[p] = [size |-> size, allocated |-> TRUE, prev |-> block[p].prev,
                        next |-> rest]
        /\ block'[rest] = [size |-> block[p].size - size, allocated |-> FALSE,
                           prev |-> p, next |-> after]
        /\ \A q \in Blocks \ {p} :
             block'[q] = IF q = after THEN LinkBack(block[q], rest) ELSE block[q]
    BY <1>2, <1>3 DEF Split, Blocks
  <1>5. \A q \in Blocks \ {p} :
          /\ block'[q].size = block[q].size
          /\ block'[q].allocated = block[q].allocated
          /\ block'[q].next = block[q].next
          /\ block'[q].prev = IF q = after THEN rest ELSE block[q].prev
    BY <1>4 DEF LinkBack
  <1>6. Null' = Null /\ Null \notin Blocks'
    BY <1>1, <1>2, <1>4 DEF Null, Extent
  <1>7. ASSUME NEW q \in Blocks'
        PROVE  Record(q)'
    <2>1. /\ block[p].size \in 1..Total
          /\ block[p].prev \in Blocks \cup {Null}
          /\ after \in Blocks \cup {Null}
      BY <1>1 DEF Record
    <2>2. CASE q = p
      <3>1. size \in 1..Total
        BY <2>1, <1>2, TotalAssumption DEF Larger
      <3> QED
        BY <3>1, <2>1, <2>2, <1>4, <1>6 DEF Record
    <2>3. CASE q = rest
      <3>1. block[p].size - size \in 1..Total
        BY <2>1, <1>2, TotalAssumption DEF Larger
      <3> QED
        BY <3>1, <2>1, <2>3, <1>4, <1>6 DEF Record
    <2>4. CASE q \in Blocks \ {p} /\ q = after
      <3>1. block'[q] = LinkBack(block[q], rest)
        BY <1>4, <2>4
      <3>2. /\ block[q].size \in 1..Total
            /\ block[q].allocated \in BOOLEAN
            /\ block[q].next \in Blocks \cup {Null}
        BY <1>1, <2>4 DEF Record
      <3> QED
        BY <3>1, <3>2, <1>4, <1>6 DEF Record, LinkBack
    <2>5. CASE q \in Blocks \ {p} /\ q # after
      <3>1. block'[q] = block[q]
        BY <1>4, <2>5
      <3>2. Record(q)
        BY <1>1, <2>5
      <3> QED
        BY <3>1, <3>2, <1>4, <1>6 DEF Record
    <2> QED
      BY <2>2, <2>3, <2>4, <2>5, <1>4
  <1>8. ASSUME NEW q \in Blocks'
        PROVE  Extent(q)' /\ Successor(q)' /\ Predecessor(q)'
    <2>1. Extent(p) /\ Successor(p) /\ Predecessor(p)
      BY <1>1
    <2>2. CASE q = p
      <3>1. Extent(q)' /\ Successor(q)'
        BY <2>1, <2>2, <1>2, <1>4, TotalAssumption DEF Extent, Successor
      <3>2. Predecessor(q)'
        <4>1. CASE p = 0
          BY <4>1, <2>1, <2>2, <1>4, <1>6 DEF Predecessor
        <4>2. CASE p # 0
          <5> DEFINE b == block[p].prev
          <5>1. b \in Blocks /\ b + block[b].size = p /\ block[b].next = p
            BY <2>1, <4>2 DEF Predecessor
          <5>2. b # p
            BY <5>1, <1>1 DEF Extent
          <5> QED
            BY <5>1, <5>2, <4>2, <2>2, <1>4, <1>5 DEF Predecessor
        <4> QED
          BY <4>1, <4>2
      <3> QED
        BY <3>1, <3>2
    <2>3. CASE q = rest
      BY <2>1, <2>3, <1>2, <1>4, <1>6, TotalAssumption
      DEF Extent, Successor, Predecessor
    <2>4. CASE q \in Blocks \ {p}
      <3>1. Extent(q) /\ Successor(q) /\ Predecessor(q)
        BY <1>1, <2>4
      <3>2. Extent(q)' /\ Successor(q)'
        BY <3>1, <2>4, <1>4, <1>5, <1>6 DEF Extent, Successor
      <3>3. Predecessor(q)'
        <4>1. CASE q = after
          <5>1. q = p + block[p].size
            BY <4>1, <2>1, <2>4, <1>6, <1>4 DEF Successor
          <5> QED
            BY <5>1, <4>1, <3>1, <2>1, <2>4, <1>2, <1>4, <1>5
            DEF Predecessor, Extent
        <4>2. CASE q # after /\ q = 0
          BY <4>2, <3>1, <2>4, <1>5, <1>6 DEF Predecessor
        <4>3. CASE q # after /\ q # 0
          <5> DEFINE b == block[q].prev
          <5>1. b \in Blocks /\ b + block[b].size = q /\ block[b].next = q
            BY <3>1, <4>3 DEF Predecessor
          <5>2. b # p
            BY <5>1, <4>3
          <5> QED
            BY <5>1, <5>2, <4>3, <2>4, <1>4, <1>5 DEF Predecessor
        <4> QED
          BY <4>1, <4>2, <4>3
      <3> QED
        BY <3>2, <3>3
    <2> QED
      BY <2>2, <2>3, <2>4, <1>4
  <1>9. Ordered'
    <2> SUFFICES ASSUME NEW q \in Blocks', NEW r \in Blocks', q < r
                 PROVE  q + block'[q].size <= r
      BY DEF Ordered
    <2>1. CASE q \in {p, rest}
      <3>1. CASE r \in Blocks
        BY <2>1, <3>1, <1>1, <1>2, <1>4 DEF Ordered, Extent
      <3>2. CASE r = rest
        BY <2>1, <3>2, <1>1, <1>2, <1>4 DEF Extent
      <3> QED
        BY <3>1, <3>2, <1>4
    <2>2. CASE q \in Blocks \ {p}
      <3>1. CASE r \in Blocks
        BY <2>2, <3>1, <1>1, <1>5 DEF Ordered
      <3>2. CASE r = rest
        BY <2>2, <3>2, <1>1, <1>2, <1>5 DEF Ordered, Extent
      <3> QED
        BY <3>1, <3>2, <1>4
    <2> QED
      BY <2>1, <2>2, <1>4
  <1>10. TypeOK' /\ Tiles'
    <2>1. reply' \in 0..(Total - 1) \cup {Null}'
      BY <1>1, TotalAssumption DEF Extent
    <2>2. Layout'
      BY <2>1, <1>1, <1>4, <1>7, <1>8, <1>9 DEF Layout
    <2> QED
      BY <2>2, LayoutMakes, PTL
  <1>11. Coalesced'
    <2> SUFFICES ASSUME NEW q \in Blocks', IsFree(q)', IsFree(block[q].next)'
                 PROVE  FALSE
      BY DEF Coalesced
    <2>1. q # p /\ block'[q].next # p
      BY <1>4 DEF IsFree
    <2>2. Successor(p) /\ IsFree(p)
      BY <1>1, <1>6, <1>4 DEF IsFree
    <2>3. CASE q = rest
      BY <2>2, <2>3, <1>1, <1>4, <1>5, <1>6 DEF IInv, Coalesced, IsFree, Successor, Extent
    <2>4. CASE q \in Blocks \ {p}
      <3>1. Successor(q)
        BY <1>1, <2>4
      <3>2. block'[q].next \in Blocks \ {p}
        BY <3>1, <2>1, <2>4, <1>5, <1>6 DEF IsFree, Successor
      <3> QED
        BY <3>2, <2>4, <1>5, <1>6 DEF IInv, Coalesced, IsFree
    <2> QED
      BY <2>1, <2>3, <2>4, <1>4
  <1>12. Covered'
    <2> SUFFICES ASSUME NEW a \in 0..(Total - 1)
                 PROVE  \E q \in Blocks' : q <= a /\ a < q + block'[q].size
      BY DEF Covered
    <2>1. PICK q \in Blocks : q <= a /\ a < q + block[q].size
      BY DEF IInv, Covered
    <2>2. CASE q # p
      BY <2>1, <2>2, <1>4, <1>5
    <2>3. CASE q = p /\ a < rest
      BY <2>1, <2>3, <1>4
    <2>4. CASE q = p /\ rest <= a
      BY <2>1, <2>4, <1>1, <1>2, <1>4 DEF Extent
    <2> QED
      BY <2>2, <2>3, <2>4, <1>2
  <1> QED
    BY <1>10, <1>11, <1>12 DEF IInv

\* Free makes one free block of neighbours s to last, whose memory has length n.
Join(s, last, n) ==
  LET end == block[last].next
  IN  [q \in {b \in Blocks : b <= s \/ s + n <= b} |->
         IF q = s THEN [size |-> n, allocated |-> FALSE, prev |-> block[s].prev,
                        next |-> end]
         ELSE IF q = end THEN LinkBack(block[q], s)
         ELSE block[q]]

\* It keeps the invariant when the blocks on either side are not free.
LEMMA JoinIInv ==
  ASSUME IInv, NEW s \in Blocks, NEW last \in Blocks, NEW n \in Nat,
         s <= last, last + block[last].size = s + n,
         ~IsFree(block[s].prev), ~IsFree(block[last].next),
         block' = Join(s, last, n), reply' = reply
  PROVE  IInv'
  <1> DEFINE end == block[last].next
  <1>1. /\ \A q \in Blocks : Record(q) /\ Extent(q) /\ Successor(q) /\ Predecessor(q)
        /\ Ordered
        /\ 0 \in Blocks
    BY BlockFacts DEF IInv
  <1>2. /\ n > 0 /\ s + n <= Total /\ n <= Total
        /\ end = Null <=> s + n = Total
        /\ end # Null => end \in Blocks /\ end = s + n
        /\ Null \notin Blocks
    BY <1>1, TotalAssumption DEF Extent, Successor, Null
  <1>3. /\ Blocks' = {b \in Blocks : b <= s \/ s + n <= b}
        /\ block' = [q \in Blocks' |-> block'[q]]
        /\ s \in Blocks'
        /\ block'[s] = [size |-> n, allocated |-> FALSE, prev |-> block[s].prev,
                        next |-> end]
        /\ \A q \in Blocks' \ {s} :
             block'[q] = IF q = end THEN LinkBack(block[q], s) ELSE block[q]
    BY <1>1 DEF Join, Blocks, Extent
  <1>4. \A q \in Blocks' \ {s} :
          /\ block'[q].size = block[q].size
          /\ block'[q].allocated = block[q].allocated
          /\ block'[q].next = block[q].next
          /\ block'[q].prev = IF q = end THEN s ELSE block[q].prev
    <2> TAKE q \in Blocks' \ {s}
    <2>1. CASE q = end
      <3>1. block'[q] = LinkBack(block[q], s)
        BY <1>3, <2>1
      <3> QED
        BY <3>1, <2>1 DEF LinkBack
    <2>2. CASE q # end
      <3>1. block'[q] = block[q]
        BY <1>3, <2>2
      <3> QED
        BY <3>1, <2>2
    <2> QED
      BY <2>1, <2>2
  <1>5. Null' = Null /\ Blocks' \subseteq Blocks
    BY <1>3 DEF Null
  \* A block that stays, and is not s, is as a whole on one side of the new block,
  \* and so are its neighbours.
  <1>6. ASSUME NEW q \in Blocks', q # s
        PROVE  /\ q + block[q].size <= s \/ s + n <= q
               /\ block[q].next \in Blocks' \cup {Null}
               /\ q # end => block[q].prev \in Blocks' \cup {Null}
               /\ q # end => block[q].prev # s
    <2>1. Extent(q) /\ Successor(q) /\ Predecessor(q) /\ q \in Blocks
      BY <1>1, <1>5
    <2>2. q < s \/ s + n <= q
      <3>1. Extent(s)
        BY <1>1
      <3>2. q <= s \/ s + n <= q
        BY <1>3
      <3> QED
        BY <3>1, <3>2, <1>6, <2>1 DEF Extent
    <2>3. q + block[q].size <= s \/ s + n <= q
      BY <2>1, <2>2, <1>1 DEF Ordered
    <2>4. block[q].next \in Blocks' \cup {Null}
      BY <2>1, <2>3, <1>3, <1>1 DEF Successor, Extent
    <2>5. ASSUME q # end, q # 0
          PROVE  block[q].prev \in Blocks' /\ block[q].prev # s
      <3> DEFINE b == block[q].prev
      <3>1. b \in Blocks /\ b + block[b].size = q /\ block[b].next = q
        BY <2>1, <2>5 DEF Predecessor
      <3>2. b # last
        BY <3>1, <2>5
      <3>3. Extent(b) /\ Extent(last) /\ Extent(s)
        BY <3>1, <1>1
      <3>4. CASE q + block[q].size <= s
        BY <3>1, <3>3, <3>4, <2>1, <1>3 DEF Extent
      <3>5. CASE s + n <= q
        <4>1. last < b
          BY <3>1, <3>2, <3>3, <3>5, <1>1 DEF Ordered, Extent
        <4>2. s + n <= b
          BY <4>1, <3>1, <1>1 DEF Ordered
        <4> QED
          BY <4>2, <3>1, <3>3, <1>2, <1>3 DEF Extent
      <3> QED
        BY <3>4, <3>5, <2>3
    <2>6. q = 0 => block[q].prev = Null
      BY <2>1 DEF Predecessor
    <2> QED
      BY <2>3, <2>4, <2>5, <2>6, <1>2
  <1>7. block[s].prev \in Blocks' \cup {Null}
    BY <1>1, <1>3 DEF Predecessor, Extent
  <1>8. end \in Blocks' \cup {Null}
    BY <1>2, <1>3, <1>1 DEF Extent
  <1>9. ASSUME NEW q \in Blocks'
        PROVE  Record(q)'
    <2>1. CASE q = s
      <3>1. n \in 1..Total
        BY <1>2, TotalAssumption
      <3> QED
        BY <3>1, <2>1, <1>3, <1>5, <1>7, <1>8 DEF Record
    <2>2. CASE q # s
      <3>1. /\ block[q].size \in 1..Total
            /\ block[q].allocated \in BOOLEAN
            /\ block[q] = [size |-> block[q].size, allocated |-> block[q].allocated,
                           prev |-> block[q].prev, next |-> block[q].next]
        BY <1>1, <1>5 DEF Record
      <3>2. block[q].next \in Blocks' \cup {Null}
        BY <1>6, <2>2
      <3>3. CASE q = end
        <4>1. block'[q] = [size |-> block[q].size, allocated |-> block[q].allocated,
                           prev |-> s, next |-> block[q].next]
          BY <3>3, <2>2, <1>3 DEF LinkBack
        <4> QED
          BY <4>1, <3>1, <3>2, <1>3, <1>5 DEF Record
      <3>4. CASE q # end
        <4>1. block[q].prev \in Blocks' \cup {Null}
          BY <1>6, <2>2, <3>4
        <4>2. block'[q] = block[q]
          BY <1>3, <2>2, <3>4
        <4> QED
          BY <4>1, <4>2, <3>1, <3>2, <1>5 DEF Record
      <3> QED
        BY <3>3, <3>4
    <2> QED
      BY <2>1, <2>2
  <1>10. ASSUME NEW q \in Blocks'
         PROVE  Extent(q)' /\ Successor(q)' /\ Predecessor(q)'
    <2>1. Extent(s) /\ Successor(s) /\ Predecessor(s)
      BY <1>1
    <2>2. CASE q = s
      <3>1. Extent(q)' /\ Successor(q)'
        BY <2>1, <2>2, <1>2, <1>3, <1>5, <1>8 DEF Extent, Successor
      <3>2. Predecessor(q)'
        <4>1. CASE s = 0
          BY <4>1, <2>1, <2>2, <1>3, <1>5 DEF Predecessor
        <4>2. CASE s # 0
          <5> DEFINE b == block[s].prev
          <5>1. b \in Blocks /\ b + block[b].size = s /\ block[b].next = s
            BY <2>1, <4>2 DEF Predecessor
          <5>2. b < s /\ b \in Blocks'
            BY <5>1, <1>1, <1>3 DEF Extent
          <5>3. b # s
            BY <5>1, <1>1 DEF Extent
          <5> QED
            BY <5>1, <5>2, <5>3, <4>2, <2>2, <1>3, <1>4 DEF Predecessor
        <4> QED
          BY <4>1, <4>2
      <3> QED
        BY <3>1, <3>2
    <2>3. CASE q # s
      <3>1. Extent(q) /\ Successor(q) /\ Predecessor(q)
        BY <1>1, <1>5
      <3>2. Extent(q)' /\ Successor(q)'
        BY <3>1, <2>3, <1>2, <1>4, <1>5, <1>6 DEF Extent, Successor
      <3>3. Predecessor(q)'
        <4>1. CASE q = end
          BY <4>1, <3>1, <2>1, <2>3, <1>2, <1>3, <1>4, <1>5 DEF Predecessor, Extent
        <4>2. CASE q # end /\ q = 0
          BY <4>2, <3>1, <2>3, <1>4, <1>5 DEF Predecessor
        <4>3. CASE q # end /\ q # 0
          <5> DEFINE b == block[q].prev
          <5>1. b \in Blocks /\ b + block[b].size = q /\ block[b].next = q
            BY <3>1, <4>3 DEF Predecessor
          <5>2. b \in Blocks' /\ b # s
            BY <5>1, <4>3, <2>3, <1>2, <1>6
          <5> QED
            BY <5>1, <5>2, <4>3, <2>3, <1>4 DEF Predecessor
        <4> QED
          BY <4>1, <4>2, <4>3
      <3> QED
        BY <3>2, <3>3
    <2> QED
      BY <2>2, <2>3
  <1>11. Ordered'
    <2> SUFFICES ASSUME NEW q \in Blocks', NEW r \in Blocks', q < r
                 PROVE  q + block'[q].size <= r
      BY DEF Ordered
    <2>1. CASE q = s
      <3>1. Extent(r) /\ Extent(s) /\ r \in Blocks
        BY <1>1, <1>5
      <3>2. r <= s \/ s + n <= r
        BY <1>3
      <3>3. block'[s].size = n
        BY <1>3
      <3> QED
        BY <3>1, <3>2, <3>3, <2>1 DEF Extent
    <2>2. CASE q # s
      BY <2>2, <1>1, <1>4, <1>5 DEF Ordered
    <2> QED
      BY <2>1, <2>2
  <1>12. TypeOK' /\ Tiles'
    <2>1. reply' \in 0..(Total - 1) \cup {Null}'
      BY DEF IInv, TypeOK, Null
    <2>2. 0 \in Blocks'
      BY <1>1, <1>3 DEF Extent
    <2>3. Layout'
      BY <2>1, <2>2, <1>3, <1>9, <1>10, <1>11 DEF Layout
    <2> QED
      BY <2>3, LayoutMakes, PTL
  <1>13. Coalesced'
    <2> SUFFICES ASSUME NEW q \in Blocks', IsFree(q)', IsFree(block[q].next)'
                 PROVE  FALSE
      BY DEF Coalesced
    <2>1. CASE q = s
      <3>1. block'[q].next = end
        BY <2>1, <1>3
      <3>2. end # Null /\ end \in Blocks' /\ ~block'[end].allocated
        BY <3>1, <1>5, <1>8 DEF IsFree
      <3>3. end # s
        BY <3>2, <1>1, <1>2 DEF Extent
      <3> QED
        BY <3>2, <3>3, <1>4 DEF IsFree
    <2>2. CASE q # s /\ block[q].next = s
      <3>1. q = block[s].prev
        <4>1. Successor(q) /\ Extent(q) /\ Predecessor(s) /\ Extent(s) /\ q \in Blocks
          BY <1>1, <1>5
        <4>2. q + block[q].size = s
          BY <4>1, <2>2, <1>2 DEF Successor
        <4>3. s # 0
          BY <4>1, <4>2 DEF Extent
        <4> DEFINE b == block[s].prev
        <4>4. b \in Blocks /\ b + block[b].size = s
          BY <4>1, <4>3 DEF Predecessor
        <4>5. Extent(b)
          BY <4>4, <1>1
        <4> QED
          BY <4>1, <4>2, <4>4, <4>5, <1>1 DEF Ordered, Extent
      <3> QED
        BY <3>1, <2>2, <1>4, <1>5 DEF IsFree
    <2>3. CASE q # s /\ block[q].next # s
      <3>1. block[q].next \in Blocks' \cup {Null}
        BY <2>3, <1>6
      <3>2. block'[q].next = block[q].next
        BY <2>3, <1>4
      <3> QED
        BY <3>1, <3>2, <2>3, <1>4, <1>5 DEF IInv, Coalesced, IsFree
    <2> QED
      BY <2>1, <2>2, <2>3
  <1>14. Covered'
    <2> SUFFICES ASSUME NEW a \in 0..(Total - 1)
                 PROVE  \E q \in Blocks' : q <= a /\ a < q + block'[q].size
      BY DEF Covered
    <2>1. PICK q \in Blocks : q <= a /\ a < q + block[q].size
      BY DEF IInv, Covered
    <2>2. CASE q \in Blocks' \ {s}
      BY <2>1, <2>2, <1>4
    <2>3. CASE q \notin Blocks' \ {s}
      <3>1. s <= q /\ q < s + n
        BY <2>3, <1>1, <1>2, <1>3 DEF Extent
      <3>2. q + block[q].size <= s + n
        BY <3>1, <1>1 DEF Ordered, Extent
      <3>3. s <= a /\ a < s + n
        BY <3>1, <3>2, <2>1, <1>1 DEF Extent
      <3> QED
        BY <3>3, <1>3
    <2> QED
      BY <2>2, <2>3
  <1> QED
    BY <1>12, <1>13, <1>14 DEF IInv

\* In each of its four cases Free makes one block of neighbours.
LEMMA FreeIInv ==
  ASSUME IInv, NEW p \in Blocks, Free(p)
  PROVE  IInv'
  <1> DEFINE before == block[p].prev
             after == block[p].next
  <1>1. /\ \A q \in Blocks : Record(q) /\ Extent(q) /\ Successor(q) /\ Predecessor(q)
        /\ Ordered
        /\ 0 \in Blocks
    BY BlockFacts DEF IInv
  <1>2. block[p].allocated /\ reply' = reply /\ p # Null
    BY <1>1 DEF Free, Extent, Null
  <1>3. Extent(p) /\ Successor(p) /\ Predecessor(p)
    BY <1>1
  <1>4. MergesPrev(p) =>
          /\ before \in Blocks
          /\ before + block[before].size = p
          /\ block[before].next = p
          /\ Extent(before)
          /\ ~IsFree(block[before].prev)
    <2> SUFFICES ASSUME MergesPrev(p)
                 PROVE  /\ before \in Blocks
                        /\ before + block[before].size = p
                        /\ block[before].next = p
                        /\ Extent(before)
                        /\ ~IsFree(block[before].prev)
      OBVIOUS
    <2>1. before \in Blocks /\ before + block[before].size = p /\ block[before].next = p
      BY <1>3 DEF MergesPrev, IsFree, Predecessor
    <2>2. Predecessor(before) /\ Extent(before)
      BY <2>1, <1>1
    <2>3. ~IsFree(block[before].prev)
      BY <2>1, <2>2 DEF MergesPrev, IInv, Coalesced, IsFree, Predecessor
    <2> QED
      BY <2>1, <2>2, <2>3
  <1>5. MergesNext(p) =>
          /\ after \in Blocks
          /\ p + block[p].size = after
          /\ Extent(after)
          /\ ~IsFree(block[after].next)
    BY <1>1, <1>3 DEF MergesNext, IsFree, Successor, IInv, Coalesced
  \* What the cases share: the part of Free that does not depend on them.
  <1>6. ASSUME NEW s \in Blocks, NEW last \in Blocks, NEW n,
               Start(p) = s, End(p) = block[last].next, SizeMerged(p) = n,
               n \in Nat, s <= last, last + block[last].size = s + n,
               \A b \in Blocks : b \in Gone(p) <=> s < b /\ b < s + n,
               ~IsFree(block[s].prev), ~IsFree(block[last].next)
        PROVE  IInv'
    <2>1. \A b \in Blocks : b \in Gone(p) <=> ~(b <= s \/ s + n <= b)
      BY <1>1, <1>6 DEF Extent
    <2>2. {b \in Blocks : b <= s \/ s + n <= b} = Blocks \ Gone(p)
      BY <2>1
    <2>3. block' = Join(s, last, n)
      BY <2>2, <1>6 DEF Free, Join
    <2> QED
      BY <2>3, <1>2, <1>6, JoinIInv
  <1>7. CASE ~MergesPrev(p) /\ ~MergesNext(p)
    <2>1. /\ Start(p) = p /\ End(p) = after /\ Gone(p) = {}
          /\ SizeMerged(p) = block[p].size
      BY <1>3, <1>7 DEF Start, End, Gone, SizeMerged, Extent
    <2>2. ASSUME NEW b \in Blocks
          PROVE  ~(p < b /\ b < p + block[p].size)
      <3>1. Extent(b) /\ (p < b => p + block[p].size <= b)
        BY <1>1 DEF Ordered
      <3> QED
        BY <3>1, <1>3 DEF Extent
    <2> QED
      BY <2>1, <2>2, <1>3, <1>6, <1>7 DEF Extent, MergesPrev, MergesNext
  <1>8. CASE MergesPrev(p) /\ ~MergesNext(p)
    <2> DEFINE n == block[p].size + block[before].size
    <2>1. /\ Start(p) = before /\ End(p) = after /\ Gone(p) = {p}
          /\ SizeMerged(p) = n
      BY <1>3, <1>4, <1>8 DEF Start, End, Gone, SizeMerged, Extent
    <2>2. ASSUME NEW b \in Blocks
          PROVE  b = p <=> before < b /\ b < before + n
      <3>1. Extent(b) /\ (b < p => b + block[b].size <= p)
            /\ (p < b => p + block[p].size <= b)
            /\ (before < b => before + block[before].size <= b)
        BY <1>1, <1>4, <1>8 DEF Ordered
      <3> QED
        BY <3>1, <1>3, <1>4, <1>8 DEF Extent
    <2>3. before <= p /\ n \in Nat /\ p + block[p].size = before + n
      BY <1>3, <1>4, <1>8 DEF Extent
    <2> QED
      BY <2>1, <2>2, <2>3, <1>4, <1>6, <1>8 DEF MergesNext
  <1>9. CASE ~MergesPrev(p) /\ MergesNext(p)
    <2> DEFINE n == block[p].size + block[after].size
    <2>1. /\ Start(p) = p /\ End(p) = block[after].next /\ Gone(p) = {after}
          /\ SizeMerged(p) = n
      BY <1>3, <1>5, <1>9 DEF Start, End, Gone, SizeMerged, Extent
    <2>2. ASSUME NEW b \in Blocks
          PROVE  b = after <=> p < b /\ b < p + n
      <3>1. Extent(b) /\ (p < b => p + block[p].size <= b)
            /\ (after < b => after + block[after].size <= b)
        BY <1>1, <1>5, <1>9 DEF Ordered
      <3> QED
        BY <3>1, <1>3, <1>5, <1>9 DEF Extent
    <2>3. p <= after /\ n \in Nat /\ after + block[after].size = p + n
      BY <1>3, <1>5, <1>9 DEF Extent
    <2> QED
      BY <2>1, <2>2, <2>3, <1>5, <1>6, <1>9 DEF MergesPrev
  <1>10. CASE MergesPrev(p) /\ MergesNext(p)
    <2> DEFINE n == block[p].size + block[before].size + block[after].size
    <2>1. /\ Start(p) = before /\ End(p) = block[after].next /\ Gone(p) = {p, after}
          /\ SizeMerged(p) = n
      BY <1>3, <1>4, <1>5, <1>10 DEF Start, End, Gone, SizeMerged, Extent
    <2>2. ASSUME NEW b \in Blocks
          PROVE  b \in {p, after} <=> before < b /\ b < before + n
      <3>1. Extent(b) /\ (p < b => p + block[p].size <= b)
            /\ (before < b => before + block[before].size <= b)
            /\ (after < b => after + block[after].size <= b)
        BY <1>1, <1>4, <1>5, <1>10 DEF Ordered
      <3> QED
        BY <3>1, <1>3, <1>4, <1>5, <1>10 DEF Extent
    <2>3. before <= after /\ n \in Nat /\ after + block[after].size = before + n
      BY <1>3, <1>4, <1>5, <1>10 DEF Extent
    <2> QED
      BY <2>1, <2>2, <2>3, <1>4, <1>5, <1>6, <1>10
  <1> QED
    BY <1>7, <1>8, <1>9, <1>10

\* Every step keeps the invariant.
LEMMA NextIInv == IInv /\ [Next]_vars => IInv'
  <1> SUFFICES ASSUME IInv, [Next]_vars PROVE IInv'
    OBVIOUS
  <1>1. ASSUME NEW size \in Sizes, Malloc(size)
        PROVE  IInv'
    <2>1. PICK p \in Blocks :
            /\ FirstFit(p, size)
            /\ block' = IF Larger(p, size) THEN Split(p, size) ELSE Whole(p)
            /\ reply' = p
      BY <1>1 DEF Malloc
    <2>2. ~block[p].allocated
      BY <2>1 DEF FirstFit, Suitable
    <2> QED
      BY <2>1, <2>2, SplitIInv, WholeIInv
  <1>2. ASSUME NEW size \in Sizes, Refuse(size)
        PROVE  IInv'
    BY <1>2 DEF Refuse, IInv, TypeOK, Tiles, LinksAgree, Coalesced, IsFree, Covered, Blocks,
                Null
  <1>3. ASSUME NEW p \in Blocks, Free(p)
        PROVE  IInv'
    BY <1>3, FreeIInv
  <1>4. CASE UNCHANGED vars
    BY <1>4 DEF vars, IInv, TypeOK, Tiles, LinksAgree, Coalesced, IsFree, Covered, Blocks,
                Null
  <1> QED
    BY <1>1, <1>2, <1>3, <1>4 DEF Next

-----------------------------------------------------------------------------
\* The invariant holds in every state of MemoryManager::Malloc and Free.
THEOREM Inductive == Spec => []IInv
  BY InitIInv, NextIInv, PTL DEF Spec

\* Sizes and links of the block list keep their types, and no address is twice
\* in the list.
THEOREM TypeCorrect == Spec => []TypeOK
  BY Inductive, PTL DEF IInv

\* After any sequence of Malloc and Free the blocks fill the memory without a gap
\* or an overlap and the links in both directions agree with the addresses.
THEOREM BlocksTile == Spec => []Tiles
  BY Inductive, PTL DEF IInv

\* Free leaves no two neighbours free (memory_manager.cc:42-57).
THEOREM NoSeams == Spec => []Coalesced
  BY Inductive, PTL DEF IInv

-----------------------------------------------------------------------------
\* Malloc returns memory of the size asked for, where nothing is in use.
LEMMA MallocMaps ==
  ASSUME IInv, NEW size \in Sizes, Malloc(size)
  PROVE  A!Malloc(size)
  <1>1. PICK p \in Blocks :
          /\ FirstFit(p, size)
          /\ block' = IF Larger(p, size) THEN Split(p, size) ELSE Whole(p)
          /\ reply' = p
    BY DEF Malloc
  <1>2. /\ \A q \in Blocks : Extent(q)
        /\ Ordered
    BY BlockFacts DEF IInv
  <1>3. size \in Nat /\ size > 0 /\ ~block[p].allocated /\ size <= block[p].size
    BY <1>1, <1>2, SizesAssumption DEF FirstFit, Suitable, Extent
  <1>4. p \in 0..(Total - size)
    BY <1>2, <1>3, TotalAssumption DEF Extent
  <1>5. ASSUME NEW h \in Held
        PROVE  A!Apart(p, size, h)
    <2>1. PICK q \in Blocks : block[q].allocated /\ h = [ptr |-> q, size |-> block[q].size]
      BY DEF Held
    <2>2. h.ptr = q /\ h.size = block[q].size /\ q # p
      BY <2>1, <1>3
    <2>3. Extent(p) /\ Extent(q)
      BY <1>2
    <2>4. (p < q => p + block[p].size <= q) /\ (q < p => q + block[q].size <= p)
      BY <1>2 DEF Ordered
    <2> QED
      BY <2>2, <2>3, <2>4, <1>3 DEF A!Apart, Extent
  <1>6. p \in A!Windows(size)
    BY <1>4, <1>5 DEF A!Windows
  <1>7. /\ p \in Blocks' /\ block'[p].allocated /\ block'[p].size = size
        /\ \A q \in Blocks : q # p => /\ q \in Blocks'
                                     /\ block'[q].allocated = block[q].allocated
                                     /\ block'[q].size = block[q].size
        /\ \A q \in Blocks' \ Blocks : ~block'[q].allocated
    <2>1. CASE Larger(p, size)
      <3> DEFINE rest == p + size
      <3>1. block' = Split(p, size)
        BY <1>1, <2>1
      <3>2. rest \notin Blocks /\ rest # p
        <4>1. p < rest /\ rest < p + block[p].size /\ rest \in Nat
          BY <1>2, <1>3, <2>1 DEF Larger, Extent
        <4> QED
          BY <4>1, <1>2 DEF Ordered, Extent
      <3>3. Blocks' = Blocks \cup {rest}
        BY <3>1 DEF Split, Blocks
      <3>4. /\ block'[p].allocated /\ block'[p].size = size
            /\ ~block'[rest].allocated
        BY <3>1, <3>2 DEF Split, Blocks
      <3>5. ASSUME NEW q \in Blocks, q # p
            PROVE  /\ block'[q].allocated = block[q].allocated
                   /\ block'[q].size = block[q].size
        <4>1. block'[q] = IF q = block[p].next THEN LinkBack(block[q], rest) ELSE block[q]
          BY <3>1, <3>2, <3>5 DEF Split, Blocks
        <4>2. CASE q = block[p].next
          <5>1. block'[q] = LinkBack(block[q], rest)
            BY <4>1, <4>2
          <5> QED
            BY <5>1 DEF LinkBack
        <4>3. CASE q # block[p].next
          BY <4>1, <4>3
        <4> QED
          BY <4>2, <4>3
      <3> QED
        BY <3>3, <3>4, <3>5
    <2>2. CASE ~Larger(p, size)
      <3>1. block' = Whole(p) /\ block[p].size = size
        BY <1>1, <1>2, <1>3, <2>2 DEF Larger, Extent
      <3>2. /\ Blocks' = Blocks
            /\ block'[p] = [size |-> block[p].size, allocated |-> TRUE,
                            prev |-> block[p].prev, next |-> block[p].next]
            /\ \A q \in Blocks : q # p => block'[q] = block[q]
        BY <3>1 DEF Whole, Blocks, IInv, TypeOK
      <3> QED
        BY <3>1, <3>2
    <2> QED
      BY <2>1, <2>2
  <1>8. Held' = Held \cup {[ptr |-> p, size |-> size]}
    <2>1. ASSUME NEW h \in Held'
          PROVE  h \in Held \cup {[ptr |-> p, size |-> size]}
      <3>1. PICK q \in Blocks' :
              block'[q].allocated /\ h = [ptr |-> q, size |-> block'[q].size]
        BY DEF Held
      <3>2. CASE q = p
        BY <3>1, <3>2, <1>7
      <3>3. CASE q # p
        <4>1. q \in Blocks /\ block[q].allocated /\ h = [ptr |-> q, size |-> block[q].size]
          BY <3>1, <3>3, <1>7
        <4> QED
          BY <4>1 DEF Held
      <3> QED
        BY <3>2, <3>3
    <2>2. ASSUME NEW h \in Held
          PROVE  h \in Held'
      <3>1. PICK q \in Blocks : block[q].allocated /\ h = [ptr |-> q, size |-> block[q].size]
        BY DEF Held
      <3>2. q \in Blocks' /\ block'[q].allocated /\ h = [ptr |-> q, size |-> block'[q].size]
        BY <3>1, <1>3, <1>7
      <3> QED
        BY <3>2 DEF Held
    <2>3. [ptr |-> p, size |-> size] \in Held'
      BY <1>7 DEF Held
    <2> QED
      BY <2>1, <2>2, <2>3
  <1> QED
    BY <1>1, <1>6, <1>8 DEF A!Malloc

\* When no block is large enough and free, nowhere is that much unused: the block
\* that covers an address of such a piece is free and too small, so that the block
\* behind it, which is in use, begins inside the piece.
LEMMA RefuseMaps ==
  ASSUME IInv, NEW size \in Sizes, Refuse(size)
  PROVE  A!Refuse(size)
  <1>1. /\ \A q \in Blocks : Extent(q) /\ Successor(q)
        /\ \A q \in Blocks : ~Suitable(q, size)
    BY BlockFacts DEF IInv, Refuse
  <1>2. size \in Nat /\ size > 0
    BY SizesAssumption
  <1>3. \A q \in Blocks : block[q].allocated => [ptr |-> q, size |-> block[q].size] \in Held
    BY DEF Held
  <1>4. ASSUME NEW a \in A!Windows(size)
        PROVE  FALSE
    <2>1. a \in 0..(Total - size) /\ \A h \in Held : A!Apart(a, size, h)
      BY <1>4 DEF A!Windows
    <2>2. a \in 0..(Total - 1) /\ a \in Nat /\ a + size <= Total
      BY <2>1, <1>2, TotalAssumption
    <2>3. PICK q \in Blocks : q <= a /\ a < q + block[q].size
      BY <2>2 DEF IInv, Covered
    <2>4. \A r \in Blocks : block[r].allocated => a + size <= r \/ r + block[r].size <= a
      <3> SUFFICES ASSUME NEW r \in Blocks, block[r].allocated
                   PROVE  a + size <= r \/ r + block[r].size <= a
        OBVIOUS
      <3>1. A!Apart(a, size, [ptr |-> r, size |-> block[r].size])
        BY <1>3, <2>1
      <3> QED
        BY <3>1 DEF A!Apart
    <2>5. ~block[q].allocated
      BY <2>2, <2>3, <2>4, <1>1, <1>2 DEF Extent
    <2>6. block[q].size < size
      BY <2>5, <1>1, <1>2 DEF Suitable, Extent
    <2> DEFINE c == block[q].next
    <2>7. c \in Blocks /\ c = q + block[q].size
      <3>1. Extent(q) /\ Successor(q)
        BY <1>1
      <3>2. q + block[q].size # Total
        BY <3>1, <2>2, <2>3, <2>6, <1>2 DEF Extent
      <3> QED
        BY <3>1, <3>2 DEF Successor
    <2>8. block[c].allocated
      <3>1. IsFree(q) /\ c # Null
        BY <2>5, <2>7, <1>1 DEF IsFree, Null, Extent
      <3> QED
        BY <3>1 DEF IInv, Coalesced, IsFree
    <2>9. Extent(c) /\ Extent(q) /\ (a + size <= c \/ c + block[c].size <= a)
      BY <2>4, <2>7, <2>8, <1>1
    <2> QED
      BY <2>2, <2>3, <2>6, <2>7, <2>9, <1>2 DEF Extent
  <1>5. Held' = Held /\ reply' = A!Null
    BY DEF Refuse, Held, Blocks, Null, A!Null
  <1> QED
    BY <1>4, <1>5 DEF A!Refuse

\* Free gives back the piece at p and leaves every other piece as it is.
LEMMA FreeMaps ==
  ASSUME IInv, NEW p \in Blocks, Free(p)
  PROVE  \E h \in Held : A!Free(h)
  <1> DEFINE piece == [ptr |-> p, size |-> block[p].size]
  <1>1. /\ \A q \in Blocks : Extent(q) /\ Successor(q) /\ Predecessor(q)
        /\ block[p].allocated
    BY BlockFacts DEF IInv, Free
  <1>2. piece \in Held
    BY <1>1 DEF Held
  <1>3. /\ Start(p) \in Blocks
        /\ Start(p) # p => ~block[Start(p)].allocated
        /\ Gone(p) \subseteq {p} \cup {q \in Blocks : ~block[q].allocated}
        /\ Start(p) = p \/ p \in Gone(p)
    BY <1>1 DEF Start, Gone, MergesPrev, MergesNext, IsFree, Successor, Predecessor
  <1>4. \A q \in Blocks \ Gone(p) : q # Start(p) =>
          /\ block'[q].allocated = block[q].allocated
          /\ block'[q].size = block[q].size
    <2> SUFFICES ASSUME NEW q \in Blocks \ Gone(p), q # Start(p)
                 PROVE  /\ block'[q].allocated = block[q].allocated
                        /\ block'[q].size = block[q].size
      OBVIOUS
    <2>1. block'[q] = IF q = End(p) THEN LinkBack(block[q], Start(p)) ELSE block[q]
      BY DEF Free
    <2>2. CASE q = End(p)
      <3>1. block'[q] = LinkBack(block[q], Start(p))
        BY <2>1, <2>2
      <3> QED
        BY <3>1 DEF LinkBack
    <2>3. CASE q # End(p)
      BY <2>1, <2>3
    <2> QED
      BY <2>2, <2>3
  <1>5. Blocks' = Blocks \ Gone(p)
    BY DEF Free, Blocks
  <1>6. Start(p) \in Blocks' => ~block'[Start(p)].allocated
    BY <1>5 DEF Free, Blocks
  <1>7. Held' = Held \ {piece}
    <2>1. ASSUME NEW h \in Held'
          PROVE  h \in Held \ {piece}
      <3>1. PICK q \in Blocks' :
              block'[q].allocated /\ h = [ptr |-> q, size |-> block'[q].size]
        BY DEF Held
      <3>2. q # Start(p) /\ q # p
        BY <3>1, <1>3, <1>5, <1>6
      <3>3. q \in Blocks /\ block[q].allocated /\ h = [ptr |-> q, size |-> block[q].size]
        BY <3>1, <3>2, <1>4, <1>5
      <3>4. h # piece
        BY <3>2, <3>3
      <3> QED
        BY <3>3, <3>4 DEF Held
    <2>2. ASSUME NEW h \in Held \ {piece}
          PROVE  h \in Held'
      <3>1. PICK q \in Blocks : block[q].allocated /\ h = [ptr |-> q, size |-> block[q].size]
        BY DEF Held
      <3>2. q # p
        BY <3>1, <2>2
      <3>3. q # Start(p) /\ q \in Blocks \ Gone(p)
        BY <3>1, <3>2, <1>3
      <3>4. q \in Blocks' /\ block'[q].allocated /\ h = [ptr |-> q, size |-> block'[q].size]
        BY <3>1, <3>3, <1>4, <1>5
      <3> QED
        BY <3>4 DEF Held
    <2> QED
      BY <2>1, <2>2
  <1> QED
    BY <1>2, <1>7 DEF Free, A!Free

\* MemoryManager implements Arena: no piece of memory is given out twice, Free gives
\* back exactly what Malloc gave, and Malloc returns false (memory_manager.cc:33)
\* only when nothing fits.
THEOREM Refinement == Spec => ImplementsArena
  <1>1. Init => A!Init
    <2> SUFFICES ASSUME Init PROVE A!Init
      OBVIOUS
    <2>1. Held = {}
      BY DEF Init, Held, Blocks
    <2> QED
      BY <2>1 DEF Init, A!Init, Null, A!Null
  <1>2. IInv /\ [Next]_vars => [A!Next]_(A!vars)
    <2> SUFFICES ASSUME IInv, [Next]_vars PROVE [A!Next]_(A!vars)
      OBVIOUS
    <2>1. ASSUME NEW size \in Sizes, Malloc(size)
          PROVE  A!Next
      BY <2>1, MallocMaps DEF A!Next
    <2>2. ASSUME NEW size \in Sizes, Refuse(size)
          PROVE  A!Next
      BY <2>2, RefuseMaps DEF A!Next
    <2>3. ASSUME NEW p \in Blocks, Free(p)
          PROVE  A!Next
      BY <2>3, FreeMaps DEF A!Next
    <2>4. CASE UNCHANGED vars
      BY <2>4 DEF vars, A!vars, Held, Blocks
    <2> QED
      BY <2>1, <2>2, <2>3, <2>4 DEF Next
  <1> QED
    BY <1>1, <1>2, Inductive, PTL DEF Spec, A!Spec, ImplementsArena

=============================================================================
