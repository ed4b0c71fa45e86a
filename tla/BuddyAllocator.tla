--------------------------- MODULE BuddyAllocator ---------------------------
(***************************************************************************)
(* The buddy allocator of alloc/buddy: a tree of bitmap lines kept in DRAM *)
(* with a small cache of lines for every level. Addresses are relative to  *)
(* buddy_managed_base and count units of the smallest size, 2^BUDDY_MIN_   *)
(* SHIFT bytes. Nothing runs beside the allocator, so a request is handled *)
(* by a sequence of steps: one for the search and each turn of the loading *)
(* loop of alloc(), one for free(), whose loops treat their levels apart.  *)
(***************************************************************************)
EXTENDS Integers, FiniteSets

CONSTANTS
  LevelBits,   \* address bits per level; 3 in the code, hence lines of 8 bits
  OrderMax,    \* ORDER_MAX, log 2 of the number of units
  SetSize,     \* BUDDY_SET_SIZE, cache lines per level
  MetaOrder,   \* order of the block that holds the lines themselves
  MaxHeld      \* bound on the blocks that users hold

Fan == 2^LevelBits
LevelMax == (OrderMax + LevelBits - 1) \div LevelBits
Pad == LevelMax * LevelBits - OrderMax
Levels == 0 .. LevelMax - 1
Bits == 0 .. Fan - 1
NUnits == 2^OrderMax

ASSUME BuddyAssumption ==
  /\ LevelBits \in Nat \ {0} /\ OrderMax \in Nat \ {0, 1} /\ SetSize \in Nat \ {0}
  /\ MetaOrder \in 0 .. OrderMax - 2 /\ MaxHeld \in Nat

-----------------------------------------------------------------------------
(* Orders, addresses, tags                                                 *)

order_to_level(o) == (OrderMax - 1 - o) \div LevelBits
order_to_width(o) == 2^(LevelBits - 1 - ((OrderMax - 1 - o) % LevelBits))

\* The first level * LevelBits bits of an address, and the LevelBits after them.
addr_to_tag(addr, l) == addr - (addr % 2^(OrderMax - LevelBits * l))
addr_to_idx(addr, l) ==
  ((addr * 2^Pad) \div 2^(LevelBits * (LevelMax - 1 - l))) % Fan
parenttag_idx_to_tag(parent, l, idx) ==
  parent + ((idx * 2^(OrderMax - LevelBits)) \div 2^(LevelBits * l))

tag_level_to_drambuddy(t, l) ==
  ((t * 2^Pad) \div 2^(LevelBits * (LevelMax - l))) + (Fan^l \div (Fan - 1))

NDramLines == Fan^LevelMax \div (Fan - 1)

Mask(width, idx) == { b \in Bits : b \in idx .. idx + width - 1 }

\* get_free_1bit, get_free_2bit, get_free_4bit: the first free group of bits, or
\* the last group when none is free.
get_free(children, width) ==
  LET free == { g \in 0 .. Fan \div width - 1 : Mask(width, g * width) \cap children = {} }
  IN  IF free = {} THEN Fan - width
      ELSE width * (CHOOSE g \in free : \A h \in free : g <= h)

-----------------------------------------------------------------------------
VARIABLES
  lines,   \* lines[l][n]: buddy_set[l].lines[n]
  count,   \* count[l]: buddy_set[l].rand_counter
  dram,    \* the lines in DRAM
  pc,      \* "IDLE"; "LOAD", in the loop of alloc(); "WRAPPED", its search ran past level 0
  order,   \* order of the request in alloc()
  lvl,     \* i, next level to load
  tag,     \* tag of the line to load there
  held,    \* blocks the users hold
  ret      \* the last answer

vars == <<lines, count, dram, pc, order, lvl, tag, held, ret>>

EmptyLine == [valid |-> FALSE, tag |-> 0, children |-> {}]
size(l) == IF Fan^l < SetSize THEN Fan^l ELSE SetSize

Meta == [addr |-> 0, order |-> MetaOrder]
B == INSTANCE BlockAllocator WITH MaxOrder <- OrderMax - 2, Reserved <- {Meta}

Init ==
  /\ lines = [l \in Levels |-> [n \in 0 .. size(l) - 1 |->
       IF n = 0 /\ l <= order_to_level(MetaOrder)
       THEN [valid |-> TRUE, tag |-> 0,
             children |-> Mask(IF l = order_to_level(MetaOrder)
                               THEN order_to_width(MetaOrder) ELSE 1, 0)]
       ELSE EmptyLine]]
  /\ count = [l \in Levels |-> 0]
  /\ dram = [a \in 0 .. NDramLines - 1 |-> {}]
  /\ pc = "IDLE" /\ order = 0 /\ lvl = 0 /\ tag = 0
  /\ held = {} /\ ret = B!NoAnswer

(* alloc                                                                   *)

Width(o, l) == IF l = order_to_level(o) THEN order_to_width(o) ELSE 1

\* get_valid_free_line
Fits(line, width) ==
  line.valid /\ Mask(width, get_free(line.children, width)) \cap line.children = {}

\* A line that has become full is flushed.
FlushFull(c) == c = Bits

\* Seeded fault: a line is thrown out of the cache without being written back.
Discard(d, line, l) == d

\* flush_line: what it does to DRAM. The line itself becomes an EmptyLine.
Flush(d, line, l) == [d EXCEPT ![tag_level_to_drambuddy(line.tag, l)] = line.children]

\* Line n of level l becomes line with a group of bits taken from it for a request of
\* order o; d is DRAM so far. The variables of a request are 0 once it is answered.
TakeFrom(o, l, n, line, d) ==
  LET idx  == get_free(line.children, Width(o, l))
      c    == line.children \cup Mask(Width(o, l), idx)
      next == parenttag_idx_to_tag(line.tag, l, idx)
  IN
  /\ IF FlushFull(c)
     THEN /\ lines' = [lines EXCEPT ![l][n] = EmptyLine]
          /\ dram' = Flush(d, [line EXCEPT !.children = c], l)
     ELSE /\ lines' = [lines EXCEPT ![l][n] = [line EXCEPT !.children = c]]
          /\ dram' = d
  /\ IF l = order_to_level(o)
     THEN /\ pc' = "IDLE" /\ order' = 0 /\ lvl' = 0 /\ tag' = 0
          /\ held' = held \cup {B!Block(next, o)}
          /\ ret' = B!Answer("ALLOC", TRUE)
     ELSE /\ pc' = "LOAD" /\ order' = o /\ lvl' = l + 1 /\ tag' = next
          /\ UNCHANGED <<held, ret>>

\* The levels are searched from the one of the order up to the root. The level
\* counter is unsigned, so the loop's own condition never ends it: when no line fits,
\* it leaves buddy_set behind, "WRAPPED", and what follows is undefined. The model
\* stops there, so the properties below speak of the time before.
Alloc(o) ==
  LET fit == { p \in Levels \X (0 .. SetSize - 1) :
                 /\ p[1] <= order_to_level(o) /\ p[2] < size(p[1])
                 /\ Fits(lines[p[1]][p[2]], Width(o, p[1])) }
  IN
  /\ pc = "IDLE" /\ Cardinality(held) < MaxHeld
  /\ o < OrderMax - 1
  /\ UNCHANGED count
  /\ IF fit = {}
     THEN pc' = "WRAPPED" /\ UNCHANGED <<lines, dram, order, lvl, tag, held, ret>>
     ELSE LET p == CHOOSE p \in fit :
                     \A q \in fit : q[1] < p[1] \/ (q[1] = p[1] /\ p[2] <= q[2])
          IN  TakeFrom(o, p[1], p[2], lines[p[1]][p[2]], dram)

\* An order that is too large. The opcode has one bit, so there is no third kind.
BadRequest(op) ==
  /\ pc = "IDLE"
  /\ ret' = B!Answer(op, FALSE)
  /\ UNCHANGED <<lines, count, dram, pc, order, lvl, tag, held>>

Count(l) == (count[l] + 1) % size(l)

\* One turn of ALLOC_CACHE_LOAD: choose_line, flush_line, dram_read.
Load ==
  LET empty == { n \in 0 .. size(lvl) - 1 : ~lines[lvl][n].valid }
      n     == IF empty # {} THEN CHOOSE n \in empty : \A m \in empty : n <= m
               ELSE count[lvl]
      d     == IF empty # {} THEN dram ELSE Flush(dram, lines[lvl][n], lvl)
  IN
  /\ pc = "LOAD"
  /\ count' = IF empty # {} THEN count ELSE [count EXCEPT ![lvl] = Count(lvl)]
  /\ TakeFrom(order, lvl, n, [valid |-> TRUE, tag |-> tag,
                       children |-> d[tag_level_to_drambuddy(tag, lvl)]], d)

(* free                                                                    *)

\* The line of level l on the path of addr: where it is cached, its bits.
InCache(addr, l) == { n \in 0 .. size(l) - 1 :
                        lines[l][n].valid /\ lines[l][n].tag = addr_to_tag(addr, l) }
Children(addr, l) ==
  IF InCache(addr, l) = {} THEN dram[tag_level_to_drambuddy(addr_to_tag(addr, l), l)]
  ELSE lines[l][CHOOSE n \in InCache(addr, l) : TRUE].children

PathMask(b, l) == Mask(Width(b.order, l), addr_to_idx(b.addr, l))

\* Seeded fault: only the root is tested.
ValidAtRoot(b) == PathMask(b, 0) \cap Children(b.addr, 0) # {}

\* test_valid_bits on every level, one bit of the group being enough.
ValidRequest(b) ==
  \A l \in 0 .. order_to_level(b.order) : PathMask(b, l) \cap Children(b.addr, l) # {}

\* Level l is cleared when the lines of all levels below it have become empty.
Cleared(b, l) ==
  /\ l <= order_to_level(b.order)
  /\ \A k \in l + 1 .. order_to_level(b.order) : Children(b.addr, k) \subseteq PathMask(b, k)

Free(b, op) ==
  LET rest(l) == Children(b.addr, l) \ PathMask(b, l) IN
  /\ pc = "IDLE"
  /\ ret' = B!Answer(op, ValidRequest(b))
  /\ IF ValidRequest(b)
     THEN /\ lines' = [l \in Levels |-> [n \in 0 .. size(l) - 1 |->
               IF Cleared(b, l) /\ n \in InCache(b.addr, l)
               THEN IF rest(l) = {} /\ l > 0 THEN EmptyLine
                    ELSE [lines[l][n] EXCEPT !.children = rest(l)]
               ELSE lines[l][n]]]
          /\ dram' = [a \in DOMAIN dram |->
               LET at == { l \in Levels :
                             /\ Cleared(b, l)
                             /\ InCache(b.addr, l) = {} \/ (rest(l) = {} /\ l > 0)
                             /\ a = tag_level_to_drambuddy(addr_to_tag(b.addr, l), l) }
               IN  IF at = {} THEN dram[a] ELSE rest(CHOOSE l \in at : TRUE)]
          /\ held' = held \ {b}
     ELSE UNCHANGED <<lines, dram, held>>
  /\ UNCHANGED <<count, pc, order, lvl, tag>>

\* No request is answered after the search has run past level 0.
Wrapped == pc = "WRAPPED" /\ UNCHANGED vars

\* Users give back what they hold, or memory that nobody holds; parts of blocks
\* they may not free (axis_buddy.h).
Blocks == { b \in [addr : 0 .. NUnits - 1, order : 0 .. OrderMax - 2] : B!Aligned(b) }

Next ==
  \/ \E o \in 0 .. OrderMax - 2 : Alloc(o)
  \/ \E op \in {"BAD_ALLOC", "BAD_FREE"} : BadRequest(op)
  \/ Load
  \/ \E b \in held : Free(b, "FREE")
  \/ \E b \in Blocks : B!Unused(b) /\ Free(b, "STRAY")
  \/ Wrapped

Spec == Init /\ [][Next]_vars

-----------------------------------------------------------------------------
(* Properties                                                              *)

Lines == [valid : BOOLEAN, tag : 0 .. NUnits - 1, children : SUBSET Bits]

\* The variables hold what their declarations in the code allow.
TypeOK ==
  /\ DOMAIN lines = Levels
  /\ \A l \in Levels : lines[l] \in [0 .. size(l) - 1 -> Lines]
  /\ \A l \in Levels : count[l] \in 0 .. size(l) - 1
  /\ dram \in [0 .. NDramLines - 1 -> SUBSET Bits]
  /\ pc \in {"IDLE", "LOAD", "WRAPPED"}
  /\ order \in 0 .. OrderMax - 2 /\ lvl \in Levels /\ tag \in 0 .. NUnits - 1
  /\ held \subseteq Blocks

\* The bits a block has set in the line (l, t): its group on its own level, the bit
\* on its path above.
BitsOf(b, l, t) ==
  IF l <= order_to_level(b.order) /\ addr_to_tag(b.addr, l) = t THEN PathMask(b, l) ELSE {}

\* Between requests the tree, read through the cache as free() reads it, has set
\* exactly the bits of the blocks in use: nothing is lost when lines move between
\* cache and DRAM, and nothing is left behind by free().
TreeExact ==
  pc = "IDLE" =>
    \A l \in Levels : \A t \in { addr_to_tag(a, l) : a \in 0 .. NUnits - 1 } :
      Children(t, l) = UNION { BitsOf(b, l, t) : b \in held \cup {Meta} }

\* Between requests no line is cached twice, and below the root every cached line has
\* some bits set and some free: alloc() never finds a cached line that belongs to a
\* block in use as a whole, and a line it loads is not in the cache already.
CacheUseful ==
  pc = "IDLE" =>
    \A l \in Levels : \A m, n \in 0 .. size(l) - 1 :
      lines[l][n].valid =>
        /\ lines[l][m].valid /\ lines[l][m].tag = lines[l][n].tag => m = n
        /\ lines[l][n].children # Bits
        /\ l > 0 => lines[l][n].children # {}

\* The above together: what the cache and DRAM hold together is the tree of the blocks in
\* use, and the cache holds the part of it that alloc() may search (buddy.cpp:129-307).
TreeSound == TypeOK /\ TreeExact /\ CacheUseful

\* The allocator keeps the promises of BlockAllocator: aligned, disjoint blocks, and
\* exactly the memory that is held can be given back.
Implements == B!Spec

\* After everything has been given back, an allocation finds memory. The code's own
\* test allocates everything, frees it and expects the second round to succeed.
EmptyMemoryServes == held = {} => pc # "WRAPPED"
=============================================================================
