------------------------------ MODULE Streams ------------------------------
(***************************************************************************)
(* The FIFOs between the functions of an HLS dataflow region. A function   *)
(* is called in every cycle; a call that finds its input empty, or that    *)
(* blocks on a full output, changes nothing and is no step. Data travel as *)
(* words of eight bytes: word k of packet p has n valid bytes (the keep    *)
(* mask) and may be the last one.                                          *)
(***************************************************************************)
EXTENDS Integers, Sequences, FiniteSets, SequencesExt

\* The keep mask always covers the first n bytes.
Word(p, k, n, last) == [p |-> p, k |-> k, n |-> n, last |-> last]
Least(a, b) == IF a <= b THEN a ELSE b

\* The words of packet p when it has that many bytes.
WordsOf(p, bytes) ==
  [i \in 1 .. (bytes + 7) \div 8 |-> Word(p, i - 1, Least(8, bytes - 8 * (i - 1)), 8 * i >= bytes)]

\* What a call writes: a record with a sequence for each FIFO it writes to.
Nothing == [f \in {} |-> <<>>]
Writes(p, f) == IF f \in DOMAIN p THEN p[f] ELSE <<>>
Both(a, b) == [f \in DOMAIN a \cup DOMAIN b |-> Writes(a, f) \o Writes(b, f)]
Only(c, p) == IF c THEN p ELSE Nothing

\* FIFOs q after one word was taken from each of ins and p was written.
Passed(q, ins, p) == [f \in DOMAIN q |-> (IF f \in ins THEN Tail(q[f]) ELSE q[f]) \o Writes(p, f)]

\* depth gives the bounded FIFOs their depth; the others lead out of the model.
Possible(q, depth, ins, p) ==
  /\ \A f \in ins : q[f] # <<>>
  /\ \A f \in DOMAIN p \cap DOMAIN depth : Len(q[f]) + Len(p[f]) <= depth[f]

Concatenated(s) == FoldLeft(LAMBDA a, b : a \o b, <<>>, s)
=============================================================================
