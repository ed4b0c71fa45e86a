----------------------------- MODULE UoeMacArp -----------------------------
(***************************************************************************)
(* The way of IP packets onto the wire: mac_ip_encode.cpp inserts the IP   *)
(* checksum, asks arp_server.cpp for the MAC address of the next hop and   *)
(* wraps the packet or drops it. The checksum and the addresses travel     *)
(* beside the words of the packets. The ARP table itself is a CAM outside  *)
(* the repository's HLS code, with one port to look up and one to update.  *)
(* An ARP message is one unit; an address stands for the MAC behind it.    *)
(* Packets have headers without options, as addIpHeader writes them, and   *)
(* at least 28 bytes.                                                      *)
(***************************************************************************)
EXTENDS Streams

CONSTANTS
  Hosts,      \* addresses in the own subnet
  Gateway,    \* regDefaultGateway, one of them
  Dests,      \* destinations of packets: hosts, "broadcast", or any other
  IpSizes,    \* lengths of IP packets
  MaxOut,     \* bound on the packets
  MaxArp,     \* bound on the ARP messages from other hosts
  MacDepth    \* depth of each bounded FIFO

ASSUME MacAssumption == Gateway \in Hosts /\ MaxOut \in Nat /\ MaxArp \in Nat

VARIABLES
  outs,     \* the packets so far
  mq,       \* the FIFOs
  sum,      \* statics of compute_ip_checksum
  ici,      \* word count of ip_checksum_insert
  eia,      \* word count of extract_ip_address
  mw,       \* statics of handle_arp_reply
  table,    \* statics of arp_table
  cam,      \* the addresses in the CAM
  answers,  \* history: the answers of arp_table, in order
  arps      \* ARP messages received so far

macvars == <<outs, mq, sum, ici, eia, mw, table, cam, answers, arps>>

MacFifos == {"in", "buffer0", "checksums", "buffer1", "buffer2", "arpReq", "arpRsp", "wire", "arpIn", "arpOut",
             "replyMeta", "requestMeta", "insert", "updateReq", "updateRsp", "lookupReq", "lookupRsp"}
Void == Word(0, 0, 0, FALSE)

InitMac ==
  /\ outs = <<>> /\ mq = [f \in MacFifos |-> <<>>]
  /\ sum = [count |-> 0, hdr |-> 0, p |-> 0, phase |-> 0] /\ ici = 0 /\ eia = 0
  /\ mw = [st |-> "WAIT_LOOKUP", prev |-> Void, left |-> FALSE]
  /\ table = [st |-> "IDLE", ip |-> Gateway] /\ cam = {} /\ answers = <<>> /\ arps = 0

SendPacket(dest, bytes) ==
  /\ Len(outs) < MaxOut
  /\ outs' = Append(outs, [dest |-> dest, bytes |-> bytes])
  /\ mq' = [mq EXCEPT !.in = @ \o WordsOf(Len(outs) + 1, bytes)]
  /\ UNCHANGED <<sum, ici, eia, mw, table, cam, answers, arps>>

MacCalls(ins, p) == Possible(mq, MacDepth, ins, p) /\ mq' = Passed(mq, ins, p) /\ UNCHANGED outs

-----------------------------------------------------------------------------
\* phase > 0: the header is complete, and four calls fold, write and clear the sums.
compute_ip_checksum ==
  /\ \/ /\ sum.phase > 0
        /\ MacCalls({}, Only(sum.phase = 3, [checksums |-> <<sum.p>>]))
        /\ sum' = [sum EXCEPT !.phase = IF @ = 4 THEN 0 ELSE @ + 1]
     \/ /\ sum.phase = 0 /\ mq.in # <<>>
        /\ LET w == Head(mq.in)
               complete == sum.count = 2 /\ sum.hdr \in {3, 4}
           IN /\ MacCalls({"in"}, [buffer0 |-> <<w>>])
              /\ sum' = [count |-> IF w.last THEN 0 ELSE Least(sum.count + 1, 2), p |-> w.p,
                         hdr |-> CASE sum.count = 0 -> 5
                                   [] complete \/ sum.hdr = 0 -> 0
                                   [] OTHER -> sum.hdr - 2,
                         phase |-> IF complete THEN 1 ELSE 0]
  /\ UNCHANGED <<ici, eia, mw, table, cam, answers, arps>>

\* Word 1 waits for the checksum; the word names the packet it was made for.
ip_checksum_insert ==
  /\ mq.buffer0 # <<>>
  /\ LET w == Head(mq.buffer0)
     IN /\ \/ ici # 1 /\ MacCalls({"buffer0"}, [buffer1 |-> <<[w |-> w, sum |-> 0]>>])
           \/ ici = 1 /\ mq.checksums # <<>> /\ MacCalls({"buffer0", "checksums"}, [buffer1 |-> <<[w |-> w, sum |-> Head(mq.checksums)]>>])
        /\ ici' = IF w.last THEN 0 ELSE Least(ici + 1, 2)
  /\ UNCHANGED <<sum, eia, mw, table, cam, answers, arps>>

NextHop(dest) == IF dest \in Hosts \cup {"broadcast"} THEN dest ELSE Gateway

\* Word 2 holds the destination.
extract_ip_address ==
  /\ mq.buffer1 # <<>>
  /\ LET h == Head(mq.buffer1)
     IN /\ MacCalls({"buffer1"}, Both([buffer2 |-> <<h>>], Only(eia = 2, [arpReq |-> <<NextHop(outs[h.w.p].dest)>>])))
        /\ eia' = IF eia # 2 /\ h.w.last THEN 0 ELSE Least(eia + 1, 3)
  /\ UNCHANGED <<sum, ici, mw, table, cam, answers, arps>>

Frame(p, k, n, last, mac, s) == [wire |-> <<[w |-> Word(p, k, n, last), mac |-> mac, sum |-> s]>>]

\* Seeded fault: six bytes of the last word are enough to need a word of their own.
MoreThanSix(w) == w.last /\ w.n > 6

\* Two bytes of a word still fit into the frame word before it.
Remainder(w) == w.last /\ w.n > 2

\* A MAC header of 14 bytes in front moves the words by six bytes.
handle_arp_reply ==
  /\ \/ /\ mw.left
        /\ MacCalls({}, Frame(mw.prev.p, mw.prev.k + 2, mw.prev.n - 2, TRUE, "none", 0))
        /\ mw' = [mw EXCEPT !.left = FALSE]
     \/ /\ ~mw.left /\ mw.st = "WAIT_LOOKUP" /\ mq.arpRsp # <<>>
        /\ LET a == Head(mq.arpRsp)
           IN /\ MacCalls({"arpRsp"}, Only(a.hit, Frame(0, 0, 8, FALSE, a.ip, 0)))
              /\ mw' = [mw EXCEPT !.st = IF a.hit THEN "WRITE_FIRST" ELSE "DROP"]
     \/ /\ ~mw.left /\ mw.st # "WAIT_LOOKUP" /\ mq.buffer2 # <<>>
        /\ LET h == Head(mq.buffer2)
               w == h.w
           IN \/ /\ mw.st = "WRITE_FIRST"
                 /\ MacCalls({"buffer2"}, Frame(w.p, 1, 8, FALSE, "none", h.sum))
                 /\ mw' = [mw EXCEPT !.st = "WRITE", !.prev = w]
              \/ /\ mw.st = "WRITE"
                 /\ MacCalls({"buffer2"}, Frame(w.p, w.k + 1, 6 + Least(2, w.n), w.n <= 2, "none", h.sum))
                 /\ mw' = [st |-> IF w.last THEN "WAIT_LOOKUP" ELSE "WRITE", prev |-> w, left |-> Remainder(w)]
              \/ /\ mw.st = "DROP" /\ MacCalls({"buffer2"}, Nothing)
                 /\ mw' = [mw EXCEPT !.st = IF w.last THEN "WAIT_LOOKUP" ELSE "DROP"]
  /\ UNCHANGED <<sum, ici, eia, table, cam, answers, arps>>

-----------------------------------------------------------------------------
(* arp_server.                                                             *)

\* A request or a reply of another host; a request may ask for this one.
HearArp(ip, asks) ==
  /\ arps < MaxArp /\ arps' = arps + 1
  /\ mq' = [mq EXCEPT !.arpIn = Append(@, [ip |-> ip, asks |-> asks])]
  /\ UNCHANGED <<outs, sum, ici, eia, mw, table, cam, answers>>

\* Every message teaches the address of its sender.
arp_pkg_receiver ==
  /\ mq.arpIn # <<>>
  /\ LET m == Head(mq.arpIn)
     IN MacCalls({"arpIn"}, Both([insert |-> <<m.ip>>], Only(m.asks, [replyMeta |-> <<m.ip>>])))
  /\ UNCHANGED <<sum, ici, eia, mw, table, cam, answers, arps>>

arp_pkg_sender ==
  /\ \/ mq.replyMeta # <<>> /\ MacCalls({"replyMeta"}, [arpOut |-> <<[kind |-> "reply", ip |-> Head(mq.replyMeta)]>>])
     \/ /\ mq.replyMeta = <<>> /\ mq.requestMeta # <<>>
        /\ MacCalls({"requestMeta"}, [arpOut |-> <<[kind |-> "request", ip |-> Head(mq.requestMeta)]>>])
  /\ UNCHANGED <<sum, ici, eia, mw, table, cam, answers, arps>>

Reply(ip, hit) == /\ answers' = Append(answers, [ip |-> ip, hit |-> hit])

\* One call in ARP_IDLE may start an update and a lookup; it then waits for the
\* lookup only, and the answer to the update stays in its FIFO.
arp_table ==
  /\ \/ /\ table.st = "IDLE"
        /\ LET update == mq.insert # <<>>
               lookup == mq.arpReq # <<>>
               ip == Head(mq.arpReq)
               direct == lookup /\ ip = "broadcast"
           IN /\ update \/ lookup
              /\ MacCalls((IF update THEN {"insert"} ELSE {}) \cup (IF lookup THEN {"arpReq"} ELSE {}),
                          Both(Only(update, [updateReq |-> <<Head(mq.insert)>>]),
                               Both(Only(direct, [arpRsp |-> <<[ip |-> ip, hit |-> TRUE]>>]),
                                    Only(lookup /\ ~direct, [lookupReq |-> <<ip>>]))))
              /\ table' = [st |-> IF direct THEN "IDLE" ELSE IF lookup THEN "LOOKUP" ELSE "UPDATE",
                           ip |-> IF lookup THEN ip ELSE table.ip]
              /\ IF direct THEN Reply(ip, TRUE) ELSE UNCHANGED answers
     \/ /\ table.st = "UPDATE" /\ MacCalls({"updateRsp"}, Nothing)
        /\ table' = [table EXCEPT !.st = "IDLE"] /\ UNCHANGED answers
     \/ /\ table.st = "LOOKUP" /\ mq.lookupRsp # <<>>
        /\ LET hit == Head(mq.lookupRsp)
           IN /\ MacCalls({"lookupRsp"}, Both([arpRsp |-> <<[ip |-> table.ip, hit |-> hit]>>],
                                              Only(~hit, [requestMeta |-> <<table.ip>>])))
              /\ Reply(table.ip, hit)
        /\ table' = [table EXCEPT !.st = "IDLE"]
  /\ UNCHANGED <<sum, ici, eia, mw, cam, arps>>

\* The CAM.
CamSteps ==
  /\ \/ /\ mq.lookupReq # <<>> /\ MacCalls({"lookupReq"}, [lookupRsp |-> <<Head(mq.lookupReq) \in cam>>]) /\ UNCHANGED cam
     \/ /\ mq.updateReq # <<>> /\ MacCalls({"updateReq"}, [updateRsp |-> <<TRUE>>]) /\ cam' = cam \cup {Head(mq.updateReq)}
  /\ UNCHANGED <<sum, ici, eia, mw, table, answers, arps>>

NextMac ==
  \/ \E dest \in Dests, bytes \in IpSizes : SendPacket(dest, bytes)
  \/ \E ip \in Hosts, asks \in BOOLEAN : HearArp(ip, asks)
  \/ compute_ip_checksum
  \/ ip_checksum_insert
  \/ extract_ip_address
  \/ handle_arp_reply
  \/ arp_pkg_receiver
  \/ arp_pkg_sender
  \/ arp_table
  \/ CamSteps

-----------------------------------------------------------------------------
\* The frame of packet i: the address is in word 0, the checksum moves to word 2.
FrameOf(i) ==
  LET ws == WordsOf(i, 14 + outs[i].bytes)
  IN [j \in DOMAIN ws |-> [w |-> IF j = 1 THEN [ws[1] EXCEPT !.p = 0] ELSE ws[j],
                           mac |-> IF j = 1 THEN NextHop(outs[i].dest) ELSE "none",
                           sum |-> IF j = 3 THEN i ELSE 0]]
Framed == Concatenated([i \in DOMAIN answers |-> IF answers[i].hit THEN FrameOf(i) ELSE <<>>])
Missed == SelectSeq(answers, LAMBDA a : ~a.hit)
Requests == SelectSeq(mq.arpOut, LAMBDA m : m.kind = "request")

MacSettled ==
  /\ \A f \in {"in", "buffer0", "buffer1", "buffer2", "arpReq", "arpRsp", "arpIn", "replyMeta", "requestMeta", "insert",
               "updateReq", "lookupReq", "lookupRsp"} : mq[f] = <<>>
  /\ sum.phase = 0 /\ mw.st = "WAIT_LOOKUP" /\ ~mw.left /\ table.st = "IDLE"

\* A packet whose next hop is known leaves whole, in order, with the address of
\* its own next hop and its own checksum; one whose next hop is not known is
\* dropped whole, and the hop is asked for; nothing of a dropped packet, and no
\* answer, is left for the next packet (mac_ip_encode.cpp:252-340,
\* arp_server.cpp:190-232).
FramesAddressed ==
  /\ \A i \in DOMAIN answers : answers[i].ip = NextHop(outs[i].dest)
  /\ IsPrefix(mq.wire, Framed)
  /\ \A i \in DOMAIN Requests : i <= Len(Missed) /\ Requests[i].ip = Missed[i].ip
  /\ MacSettled => /\ mq.wire = Framed /\ Len(answers) = Len(outs) /\ Len(Requests) = Len(Missed)
                   /\ mq.checksums = <<>>
=============================================================================
