--------------------------- MODULE MCHashMapping ---------------------------
(* Instances of HashMapping for TLC.                                       *)
EXTENDS HashMappingRefinement

Rd(op, k, v) == [ch |-> "rd", op |-> op, key |-> k, val |-> v]
Wr(k) == [ch |-> "wr", op |-> "WRITE", key |-> k, val |-> 0]

\* The table starts at address 16; the chained bucket lies below it.
OneBucket == <<12>>
NoBucket == << >>

\* Keys 1 and 5 share a bucket of both tables, key 3 shares only the BRAM bucket with them
\* and key 2 has buckets of its own.
TwoBuckets == {Rd("SET_R", 1, 1), Rd("SET_RW", 5, 2), Rd("SET_RW", 2, 1),
               Rd("READ", 1, 0), Wr(5), Rd("OTHER", 3, 0)}

\* A read-only and a writable key in one bucket, and the uses of the former.
ReadOnlyKey == {Rd("SET_R", 1, 1), Rd("SET_RW", 3, 2), Rd("READ", 1, 0), Wr(1)}

\* Lookups only: enough for the order of the stages and the reservations.
Lookups == [ch : {"rd"}, op : {"READ"}, key : Keys, val : {0}]
=============================================================================
