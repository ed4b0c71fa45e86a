--------------------------- MODULE TranslationMap ---------------------------
(***************************************************************************)
(* What the mapping IP promises its users: a table from keys to values     *)
(* with an access right, whose requests take effect one at a time, in the  *)
(* order in which they were taken in, and are answered in that order.      *)
(***************************************************************************)
EXTENDS Integers, Sequences

CONSTANTS
  Keys, Vals,
  Requests,      \* the requests users may issue
  CheckRights    \* a read-only key is never translated for a write

VARIABLES
  map,       \* map[k]: the entry of key k, or Absent
  residue,   \* residue[k]: the entry a failed SET of k left behind, or Absent
  todo,      \* requests taken in, not executed yet
  done       \* answers not delivered yet

vars == <<map, residue, todo, done>>

Absent == [val |-> 0, rw |-> FALSE, present |-> FALSE]
Entry(v, w) == [val |-> v, rw |-> w, present |-> TRUE]
Entries == { Entry(v, w) : v \in Vals, w \in BOOLEAN }

Init ==
  /\ map = [k \in Keys |-> Absent]
  /\ residue = [k \in Keys |-> Absent]
  /\ todo = << >> /\ done = << >>

Accept ==
  /\ Len(todo') = Len(todo) + 1
  /\ \E r \in Requests : todo' = Append(todo, r)
  /\ UNCHANGED <<done, map, residue>>

Answer(r, ok, v) == [ch |-> r.ch, op |-> r.op, key |-> r.key, ok |-> ok, val |-> v]

\* The request at the head is executed and answered with a.
Finish(a) == done' = Append(done, a)

\* Any residue of f may be dropped.
Fade(f) == residue' \in { [k \in Keys |-> IF k \in kept THEN f[k] ELSE Absent] :
                          kept \in SUBSET { k \in Keys : f[k] # Absent } }

IsSet(r) == r.op \in {"SET_R", "SET_RW"}
NewEntry(r) == Entry(r.val, r.op = "SET_RW")

\* A successful SET; the address field of the answer means nothing.
SetOk(r) ==
  /\ IsSet(r)
  /\ Finish(Answer(r, TRUE, 0))
  /\ map' = [map EXCEPT ![r.key] = NewEntry(r)]
  /\ Fade([residue EXCEPT ![r.key] = Absent])

\* A SET for which no bucket could be allocated.
SetFailed(r) ==
  /\ IsSet(r)
  /\ Finish(Answer(r, FALSE, 0))
  /\ ~map[r.key].present
  /\ Fade([residue EXCEPT ![r.key] = NewEntry(r)])
  /\ UNCHANGED map

\* The entry e answers the request r.
Grants(e, r) == e.present /\ (CheckRights /\ r.op = "WRITE" => e.rw)

Translated(r) ==
  /\ ~IsSet(r)
  /\ \E e \in {map[r.key], residue[r.key]} :
        Grants(e, r) /\ Finish(Answer(r, TRUE, e.val))
  /\ Fade(residue)
  /\ UNCHANGED map

\* A translation may fail only for a key that is not mapped or not writable.
Refused(r) ==
  /\ ~IsSet(r)
  /\ Finish(Answer(r, FALSE, 0))
  /\ map[r.key].present => r.op = "WRITE" /\ ~map[r.key].rw
  /\ Fade(residue)
  /\ UNCHANGED map

Execute ==
  /\ todo # << >> /\ todo' = Tail(todo)
  /\ LET r == Head(todo) IN SetOk(r) \/ SetFailed(r) \/ Translated(r) \/ Refused(r)

Reply ==
  /\ done # << >>
  /\ done' = Tail(done)
  /\ UNCHANGED <<todo, map, residue>>

\* A residue is lost when its place in the cache is taken over.
Forget ==
  /\ UNCHANGED <<todo, done, map>>
  /\ Fade(residue)

Next == Accept \/ Execute \/ Reply \/ Forget

Spec == Init /\ [][Next]_vars
=============================================================================
