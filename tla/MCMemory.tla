------------------------------ MODULE MCMemory ------------------------------
(***************************************************************************)
(* Instances of BuddyAllocator, PagingLibrary, ChunkSegment and            *)
(* IcapController for TLC. The paging library takes the buddy allocator at *)
(* its promise, the chunk allocator is an alternative to both, and the     *)
(* controller shares nothing with them: in a behaviour one of the four     *)
(* takes steps and the others stay in their initial states.                *)
(***************************************************************************)
EXTENDS BuddyAllocator, PagingLibrary, ChunkSegment, IcapController

VARIABLE system   \* "buddy", "paging", "chunks" or "icap"; never changes

MCInit ==
  /\ Init /\ InitPaging /\ InitChunks /\ InitIcap
  /\ system \in {"buddy", "paging", "chunks", "icap"}

MCNext ==
  /\ \/ system = "buddy" /\ Next /\ UNCHANGED <<pagingVars, chunkVars, icapVars>>
     \/ system = "paging" /\ NextPaging /\ UNCHANGED <<vars, chunkVars, icapVars>>
     \/ system = "chunks" /\ NextChunks /\ UNCHANGED <<vars, pagingVars, icapVars>>
     \/ system = "icap" /\ NextIcap /\ UNCHANGED <<vars, pagingVars, chunkVars>>
  /\ UNCHANGED system

\* The fair steps of a system that stays in its initial state are disabled.
MCFairSpec ==
  /\ MCInit /\ [][MCNext]_<<vars, pagingVars, chunkVars, icapVars, system>>
  /\ FairPaging /\ FairChunks /\ FairIcap

\* Whichever system is on the board answers everything: the paging library's commands, the
\* chunk allocator's and the segment unit's requests, the controller's commands (see
\* CommandsAnswered, RequestsAnswered and CommandsEnd of the three modules).
MemoryAnswers == CommandsAnswered /\ RequestsAnswered /\ CommandsEnd
=============================================================================
