--------------------------- MODULE BlockAllocator ---------------------------
(***************************************************************************)
(* What a memory allocator promises: blocks of 2^order units, aligned to   *)
(* their size, none of which overlaps another or the reserved ones, until  *)
(* they are given back.                                                    *)
(***************************************************************************)
EXTENDS Integers

CONSTANTS
  NUnits,      \* size of the memory
  MaxOrder,    \* largest order that can be allocated
  Reserved     \* blocks that are never handed out

VARIABLES
  held,        \* the blocks handed out
  ret          \* the last answer

vars == <<held, ret>>

Block(a, o) == [addr |-> a, order |-> o]
Units(b) == b.addr .. b.addr + 2^b.order - 1
Disjoint(b, c) == Units(b) \cap Units(c) = {}
Aligned(b) == b.addr % 2^b.order = 0 /\ Units(b) \subseteq 0 .. NUnits - 1
Unused(b) == Aligned(b) /\ \A c \in held \cup Reserved : Disjoint(b, c)

\* Answers to requests: to allocate, to give back a block that is held, or memory that
\* is not ("STRAY"), and to requests that no allocator can serve.
Answer(op, ok) == [op |-> op, ok |-> ok]
BadRequests == {"BAD_ALLOC", "BAD_FREE"}
NoAnswer == Answer("NONE", FALSE)

Init == held = {} /\ ret = NoAnswer

\* Only a block that nobody holds is handed out.
Alloc ==
  /\ \E b \in held' \ held :
       b.order \in 0 .. MaxOrder /\ Unused(b) /\ held' = held \cup {b}
  /\ ret' = Answer("ALLOC", TRUE)

\* A block that is held can be given back, and memory that nobody holds cannot.
Free ==
  \/ /\ \E b \in held \ held' : held' = held \ {b}
     /\ ret' = Answer("FREE", TRUE)
  \/ ret' = Answer("STRAY", FALSE) /\ UNCHANGED held

Refuse ==
  /\ \E op \in BadRequests : ret' = Answer(op, FALSE)
  /\ UNCHANGED held

Next == Alloc \/ Free \/ Refuse

Spec == Init /\ [][Next]_vars
=============================================================================
