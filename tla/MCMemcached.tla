---------------------------- MODULE MCMemcached ----------------------------
(***************************************************************************)
(* Instances of the memcached pipeline and of the host's address manager   *)
(* for TLC. The parts only meet in FIFOs that the modules model on both    *)
(* sides: in a behaviour one part takes steps, on all inputs that its      *)
(* neighbours may give it, and the others stay in their initial states.    *)
(***************************************************************************)
EXTENDS MemcachedTable, MemcachedStore, MemcachedProtocol, AddressManager

CONSTANT Parts

VARIABLE part   \* which part takes steps; never changes

\* Two keys of one length in one bucket.
TwoKeys == <<8, 8>>
OneBucket == <<0, 0>>
AllRequests ==
  { [op |-> "SET", key |-> k, vlen |-> 9] : k \in {1, 2} } \cup
  { [op |-> o, key |-> 1, vlen |-> 0] : o \in {"GET", "DELETE", "FLUSH"} }
BothBuilds == [filters : BOOLEAN, alloc : {"dram", "buddy"}]

\* A memory that delivers a value without a pause, with and without the filters.
Steady == [filters : BOOLEAN, gaps : {FALSE}]

\* Keys shorter than a word, of one word, and with a remainder; values that end in the word of
\* the key, in the next one, and behind it.
Sizes ==
  [op : {"SET"}, klen : {3, 8, 12}, vlen : {1, 5, 13}] \cup [op : {"GET"}, klen : {3, 8, 12}, vlen : {0}] \cup
  {[op |-> "DELETE", klen |-> 12, vlen |-> 0], [op |-> "FLUSH", klen |-> 0, vlen |-> 0]}

\* Pools far smaller than 8 k and 32 k lines; the second starts beyond the first.
PerPool(a, b) == [w \in {"0", "1"} |-> IF w = "0" THEN a ELSE b]
Starts == PerPool(4, 100)
FewAddresses == PerPool(3, 1)
Granularities == PerPool(1, 8)

MCInit ==
  /\ part \in Parts
  /\ Init /\ InitStore /\ InitProtocol /\ InitHost
  /\ part # "table" => build = CHOOSE b \in Builds : TRUE
  /\ part # "store" => sbuild = CHOOSE b \in StoreBuilds : TRUE

MCNext ==
  /\ \/ part = "table" /\ Next /\ UNCHANGED <<svars, pvars, hvars>>
     \/ part = "store" /\ NextStore /\ UNCHANGED <<vars, pvars, hvars>>
     \/ part = "protocol" /\ NextProtocol /\ UNCHANGED <<vars, svars, hvars>>
     \/ part = "host" /\ NextHost /\ UNCHANGED <<vars, svars, pvars>>
  /\ UNCHANGED part

MCSpec == MCInit /\ [][MCNext]_<<vars, svars, pvars, hvars, part>>

\* The fairness of each part, for the behaviours in which it takes steps.
MCFairSpec ==
  /\ MCSpec
  /\ WF_vars(part = "table" /\ ConcurrencyControl)
  /\ WF_vars(part = "table" /\ HtCompare)
  /\ WF_vars(part = "table" /\ MemWrite)
  /\ FairStore
  /\ FairProtocol
  /\ WF_hvars(part = "host" /\ (Refill \/ FlushTable))
  /\ \A t \in Threads : WF_hvars(part = "host" /\ (copy_from_user(t) \/ readl(t) \/ writel(t) \/ Return(t)))
  /\ WF_hvars(part = "host" /\ ManagerCalls)

\* Nothing waits for ever: the table, the value store and the protocol stages answer
\* what they were sent (memWrite.cpp, valueStore.cpp, requestParser.cpp and
\* binResponse.cpp), but for the two states of Stuck; and a flush that the board asks
\* for is carried out with the host (memManager.cpp:374-402), once the statistics
\* thread rests and unless a second flush hides the end of the first.
AllAnswered == RequestsAnswered /\ StoreAnswers /\ PacketsAnswered /\ HostSettled
=============================================================================
