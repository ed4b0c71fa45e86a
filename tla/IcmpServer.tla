----------------------------- MODULE IcmpServer -----------------------------
(***************************************************************************)
(* icmp_server.cpp: echo requests are answered, and datagrams to closed    *)
(* ports and packets whose time to live is over are returned to the        *)
(* sender. The two kinds of answers are made by separate functions and     *)
(* merged by insertChecksum; the checksum of each, known only behind its   *)
(* last word, goes into its third word. An echo waits in packageBuffer1    *)
(* until its own checksum has been judged. Packet p is a record of its     *)
(* source, its length in bytes and, for an echo, whether it is valid.      *)
(***************************************************************************)
EXTENDS Streams

CONSTANTS
  IcmpPackets,   \* packets that may arrive
  MaxIcmp,       \* bound on how many do
  IcmpDepth,     \* depth of each bounded FIFO
  FlagLayouts    \* outcomes of the write behind the end of stream_empty

ASSUME IcmpAssumption == MaxIcmp \in Nat /\ FlagLayouts \subseteq {"separate", "shared"}

VARIABLES
  icpk,     \* the packets that arrived so far
  icq,      \* the FIFOs
  echo,     \* statics of check_icmp_checksum
  ret,      \* statics of udpPortUnreachable
  aip,      \* statics of udpAddIpHeader
  drp,      \* statics of dropper
  ic,       \* statics of insertChecksum
  layout,   \* stream_empty has one element; whether the second one is a cell of its own
  icOrder   \* history: the answers in the order in which they went out

icvars == <<icpk, icq, echo, ret, aip, drp, ic, layout, icOrder>>

IcmpSources == {"echo", "udp", "ttl"}
IcmpFifos == IcmpSources \cup {"package", "valid", "data", "header", "stream0", "stream1", "sums0", "sums1", "out"}
Idle0 == Word(0, 0, 0, FALSE)

InitIcmp ==
  /\ icpk = <<>> /\ icq = [f \in IcmpFifos |-> <<>>] /\ icOrder = <<>>
  /\ echo = [count |-> 0, prev |-> Idle0, left |-> FALSE, phase |-> 0]
  /\ ret = [st |-> "IDLE", count |-> 0, source |-> "udp", sum |-> {}]
  /\ aip = [st |-> "IDLE", word |-> Idle0] /\ drp = [first |-> TRUE, drop |-> FALSE]
  /\ ic = [count |-> 0, source |-> 0] /\ layout \in FlagLayouts

IcmpArrive(g) ==
  /\ Len(icpk) < MaxIcmp
  /\ icpk' = Append(icpk, g)
  /\ icq' = [icq EXCEPT ![g.source] = @ \o WordsOf(Len(icpk) + 1, g.bytes)]
  /\ UNCHANGED <<echo, ret, aip, drp, ic, layout, icOrder>>

IcmpCalls(ins, p) == Possible(icq, IcmpDepth, ins, p) /\ icq' = Passed(icq, ins, p) /\ UNCHANGED <<icpk, layout>>

\* Words leave one call late; four calls behind the last one judge the packet.
check_icmp_checksum ==
  /\ \/ /\ echo.left /\ IcmpCalls({}, [package |-> <<echo.prev>>])
        /\ echo' = [echo EXCEPT !.left = FALSE]
     \/ /\ ~echo.left /\ echo.phase > 0
        /\ LET good == icpk[echo.prev.p].good
           IN IcmpCalls({}, Only(echo.phase = 4, Both([valid |-> <<good>>], Only(good, [sums0 |-> <<{echo.prev.p}>>]))))
        /\ echo' = [echo EXCEPT !.phase = IF @ = 4 THEN 0 ELSE @ + 1]
     \/ /\ ~echo.left /\ echo.phase = 0 /\ icq.echo # <<>>
        /\ LET w == Head(icq.echo)
           IN /\ IcmpCalls({"echo"}, Only(echo.count > 0, [package |-> <<echo.prev>>]))
              /\ echo' = [count |-> IF w.last THEN 0 ELSE Least(echo.count + 1, 3), prev |-> w,
                          left |-> w.last, phase |-> IF w.last THEN 1 ELSE 0]
  /\ UNCHANGED <<ret, aip, drp, ic, icOrder>>

\* Seeded fault: no more words are dropped than the first.
DropOne(accept, last) == [first |-> last, drop |-> FALSE]

AfterFirst(accept, last) == [first |-> last, drop |-> ~accept /\ ~last]

dropper ==
  /\ icq.package # <<>>
  /\ LET w == Head(icq.package)
     IN \/ /\ drp.first /\ icq.valid # <<>>
           /\ IcmpCalls({"package", "valid"}, Only(Head(icq.valid), [stream0 |-> <<w>>]))
           /\ drp' = AfterFirst(Head(icq.valid), w.last)
        \/ /\ ~drp.first
           /\ IcmpCalls({"package"}, Only(~drp.drop, [stream0 |-> <<w>>]))
           /\ drp' = IF w.last THEN [first |-> TRUE, drop |-> FALSE] ELSE drp
  /\ UNCHANGED <<echo, ret, aip, ic, icOrder>>

-----------------------------------------------------------------------------
\* The header of the message goes first; then three words are copied to the
\* header FIFO too, whether or not one of them is the last.
udpPortUnreachable ==
  /\ \/ /\ ret.st = "IDLE" /\ (icq.udp # <<>> \/ icq.ttl # <<>>)
        /\ LET s == IF icq.udp # <<>> THEN "udp" ELSE "ttl"
               p == Head(icq[s]).p
           IN /\ IcmpCalls({}, [data |-> <<Word(p, 0, 8, FALSE)>>])
              /\ ret' = [st |-> "IP", count |-> 0, source |-> s, sum |-> {p}]
     \/ /\ ret.st \in {"IP", "STREAM"} /\ icq[ret.source] # <<>>
        /\ LET w == Head(icq[ret.source])
               d == Word(w.p, w.k + 1, w.n, w.last)
               sum == ret.sum \cup {w.p}
           IN \/ /\ ret.st = "IP" /\ IcmpCalls({ret.source}, [data |-> <<d>>, header |-> <<w>>])
                 /\ ret' = [ret EXCEPT !.sum = sum, !.st = IF ret.count = 2 THEN "STREAM" ELSE "IP", !.count = Least(@ + 1, 2)]
              \/ /\ ret.st = "STREAM" /\ IcmpCalls({ret.source}, [data |-> <<d>>])
                 /\ ret' = [ret EXCEPT !.sum = sum, !.st = IF w.last THEN "CS" ELSE "STREAM"]
     \/ /\ ret.st = "CS" /\ IcmpCalls({}, [sums1 |-> <<ret.sum>>])
        /\ ret' = [ret EXCEPT !.st = "IDLE"]
  /\ UNCHANGED <<echo, aip, drp, ic, icOrder>>

\* 20 bytes of IP header in front of the message.
udpAddIpHeader ==
  /\ \/ /\ aip.st \in {"IDLE", "IP"} /\ icq.header # <<>>
        /\ IcmpCalls({"header"}, [stream1 |-> <<Word(Head(icq.header).p, IF aip.st = "IDLE" THEN 0 ELSE 1, 8, FALSE)>>])
        /\ aip' = [st |-> IF aip.st = "IDLE" THEN "IP" ELSE "MERGE", word |-> Head(icq.header)]
     \/ /\ aip.st = "MERGE" /\ icq.header # <<>> /\ icq.data # <<>>
        /\ IcmpCalls({"header", "data"}, [stream1 |-> <<Word(Head(icq.data).p, 2, 8, FALSE)>>])
        /\ aip' = [st |-> "STREAM", word |-> Head(icq.data)]
     \/ /\ aip.st = "STREAM" /\ icq.data # <<>>
        /\ LET w == Head(icq.data)
               ends == w.last /\ w.n <= 4
           IN /\ IcmpCalls({"data"}, [stream1 |-> <<Word(w.p, w.k + 2, IF ends THEN 4 + w.n ELSE 8, ends)>>])
              /\ aip' = [st |-> IF ~w.last THEN "STREAM" ELSE IF ends THEN "IDLE" ELSE "RESIDUE", word |-> w]
     \/ /\ aip.st = "RESIDUE"
        /\ IcmpCalls({}, [stream1 |-> <<Word(aip.word.p, aip.word.k + 3, aip.word.n - 4, TRUE)>>])
        /\ aip' = [aip EXCEPT !.st = "IDLE"]
  /\ UNCHANGED <<echo, ret, drp, ic, icOrder>>

-----------------------------------------------------------------------------
StreamOf(i) == IF i = 0 THEN "stream0" ELSE "stream1"
SumsOf(i) == IF i = 0 THEN "sums0" ELSE "sums1"

\* The stream that the call takes: the first one that is not empty. When both
\* flags share a cell, the second decides for the first.
Chosen(i) ==
  CASE layout = "separate" -> icq[StreamOf(i)] # <<>> /\ (i = 1 => icq.stream0 = <<>>)
    [] layout = "shared" -> i = 0 /\ icq.stream1 # <<>> /\ icq.stream0 # <<>>

insertChecksum ==
  /\ \/ /\ ic.count = 0
        /\ \E i \in {0, 1} :
             /\ Chosen(i)
             /\ LET w == Head(icq[StreamOf(i)])
                IN IcmpCalls({StreamOf(i)}, [out |-> <<[w |-> w, sums |-> {}]>>]) /\ icOrder' = Append(icOrder, w.p)
             /\ ic' = [count |-> 1, source |-> i]
     \/ /\ ic.count > 0 /\ icq[StreamOf(ic.source)] # <<>>
        /\ LET f == StreamOf(ic.source)
               s == SumsOf(ic.source)
               w == Head(icq[f])
           IN \/ /\ ic.count = 2 /\ icq[s] # <<>>
                 /\ IcmpCalls({f, s}, [out |-> <<[w |-> w, sums |-> Head(icq[s])]>>]) /\ ic' = [ic EXCEPT !.count = 3]
              \/ /\ ic.count # 2
                 /\ IcmpCalls({f}, [out |-> <<[w |-> w, sums |-> {}]>>])
                 /\ ic' = [ic EXCEPT !.count = IF w.last THEN 0 ELSE Least(@ + 1, 3)]
        /\ UNCHANGED icOrder
  /\ UNCHANGED <<echo, ret, aip, drp>>

NextIcmp ==
  \/ \E g \in IcmpPackets : IcmpArrive(g)
  \/ check_icmp_checksum
  \/ dropper
  \/ udpPortUnreachable
  \/ udpAddIpHeader
  \/ insertChecksum

-----------------------------------------------------------------------------
AnswerOf(p) ==
  LET ws == WordsOf(p, IF icpk[p].source = "echo" THEN icpk[p].bytes ELSE 28 + icpk[p].bytes)
  IN [i \in DOMAIN ws |-> [w |-> ws[i], sums |-> IF i = 3 THEN {p} ELSE {}]]
Answered == Concatenated([i \in DOMAIN icOrder |-> AnswerOf(icOrder[i])])
Answerable == {p \in DOMAIN icpk : icpk[p].source = "echo" => icpk[p].good}

IcmpSettled ==
  /\ \A f \in IcmpFifos \ {"out"} : icq[f] = <<>>
  /\ ~echo.left /\ echo.phase = 0 /\ ret.st = "IDLE" /\ aip.st = "IDLE" /\ ic.count = 0

\* Answers go out whole, one after the other, each with its own checksum; every
\* valid echo and every returned packet gets one, an invalid echo none, and no
\* checksum is left for the next answer (icmp_server.cpp:354-407).
AnswersWhole ==
  /\ IsPrefix(icq.out, Answered)
  /\ \A i, j \in DOMAIN icOrder : icOrder[i] \in Answerable /\ (icOrder[i] = icOrder[j] => i = j)
  /\ IcmpSettled => icq.out = Answered /\ {icOrder[i] : i \in DOMAIN icOrder} = Answerable
=============================================================================
