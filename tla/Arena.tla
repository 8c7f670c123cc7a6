------------------------------- MODULE Arena -------------------------------
(***************************************************************************)
(* What a manager of one stretch of memory promises (MemoryManager in      *)
(* hetu/impl/memory/memory_manager.h): memory it hands out is inside the   *)
(* stretch and nobody else's, and it refuses a request only when nowhere   *)
(* in the stretch there is that much unused memory in one piece.           *)
(***************************************************************************)
EXTENDS Integers

CONSTANTS Total,      \* length of the stretch
          Sizes       \* sizes that are asked for

VARIABLES held,       \* the memory in use: pieces with an address and a size
          reply       \* the address Malloc gave last, Null when it refused

vars == <<held, reply>>

Null == -1

Apart(a, size, h) == a + size <= h.ptr \/ h.ptr + h.size <= a

\* Where a piece of this size is unused.
Windows(size) == {a \in 0..(Total - size) : \A h \in held : Apart(a, size, h)}

Init == held = {} /\ reply = Null

Malloc(size) ==
  \E a \in Windows(size) :
    /\ held' = held \cup {[ptr |-> a, size |-> size]}
    /\ reply' = a

Refuse(size) ==
  /\ Windows(size) = {}
  /\ reply' = Null
  /\ UNCHANGED held

Free(h) ==
  /\ held' = held \ {h}
  /\ UNCHANGED reply

Next == \/ \E size \in Sizes : Malloc(size) \/ Refuse(size)
        \/ \E h \in held : Free(h)

Spec == Init /\ [][Next]_vars
=============================================================================
