-------------------------- MODULE MemcachedProtocol --------------------------
(***************************************************************************)
(* The two ends of the memcached pipeline: binaryParser, which cuts request*)
(* packets into key, value and metadata words (requestParser.cpp), and     *)
(* binaryResponse, which builds the answer packets (binResponse.cpp). Key  *)
(* and value are not aligned in a packet; the parser realigns the value.   *)
(* Eight bytes of a packet, one word, are named by the packet and the      *)
(* position of the first. What lies between the two ends is one step here. *)
(* The lengths in a request include the 8 bytes of extras of a SET, which  *)
(* are stored as the first word of its value.                              *)
(***************************************************************************)
EXTENDS Integers, Sequences

CONSTANTS
  Packets,       \* the requests considered: [op, klen, vlen], vlen without extras
  HitLengths,    \* lengths that a GET may find, extras included
  MaxPackets     \* bound on the requests

VARIABLES
  packets,    \* the requests received
  feInput,    \* words not yet read: [pkt, pos]
  front,      \* bp_f: word counter, packet, bytes of key and value still to come, shift, temporary buffer
  pbuf,       \* metadataBuffer_rp, keyBuffer_rp, valueBuffer_rp
  rear,       \* bp_r: state, packet, bytes still due, words of the output so far
  parsed,     \* the requests that bp_r has put out
  queue,      \* answers on their way to binaryResponse
  resp,       \* response_r: word counter, answer, bytes still due, align_counter
  valueBuf,   \* valueBuffer_rf
  respOut     \* the words of the answers: [kind, ans, last]

pvars == <<packets, feInput, front, pbuf, rear, parsed, queue, resp, valueBuf, respOut>>

InitProtocol ==
  /\ packets = << >> /\ feInput = << >> /\ parsed = << >> /\ queue = << >> /\ valueBuf = << >> /\ respOut = << >>
  /\ front = [wc |-> 0, pkt |-> 0, key |-> 0, val |-> 0, shift |-> 0, temp |-> <<0, 0>>, last |-> FALSE]
  /\ pbuf = [md |-> << >>, key |-> << >>, val |-> << >>]
  /\ rear = [state |-> "BPR_IDLE", pkt |-> 0, key |-> 0, val |-> 0, keys |-> << >>, vals |-> << >>]
  /\ resp = [wc |-> 0, ans |-> 0, left |-> 0, align |-> 0]

\* The layout of a packet: header, extras of a SET, key, value.
Extras(p) == IF p.op = "SET" THEN 8 ELSE 0
PacketBytes(p) == 24 + Extras(p) + p.klen + p.vlen
WordsIn(bytes) == (bytes + 7) \div 8
OnlyKey(p) == p.op \in {"GET", "DELETE"}

ReceivePacket ==
  /\ Len(packets) < MaxPackets
  /\ \E p \in Packets :
       /\ packets' = Append(packets, p)
       /\ feInput' = feInput \o [i \in 1 .. WordsIn(PacketBytes(p)) |-> <<Len(packets) + 1, 8 * (i - 1)>>]
  /\ UNCHANGED <<front, pbuf, rear, parsed, queue, resp, valueBuf, respOut>>

-----------------------------------------------------------------------------
(* bp_f. front.wc is bpf_wordCounter: 0 - 2 the header, 3 the extras, 4    *)
(* whole words of the key, 5 the last, partial one, 6 the value.           *)

AfterHeader(key) == IF key >= 8 THEN 4 ELSE 5
Least8(n) == IF n > 8 THEN n - 8 ELSE 0

\* Header words; the metadata are complete after the second.
FrontHeader(w) ==
  LET p == packets[w[1]] IN
  \/ /\ front.wc = 0
     /\ front' = [front EXCEPT !.wc = 1, !.pkt = w[1], !.key = p.klen]
     /\ UNCHANGED pbuf
  \/ /\ front.wc = 1
     /\ front' = [front EXCEPT !.wc = 2, !.val = Extras(packets[front.pkt]) + packets[front.pkt].vlen]
     /\ pbuf' = [pbuf EXCEPT !.md = Append(@, front.pkt)]
  \/ /\ front.wc = 2
     /\ front' = [front EXCEPT !.wc = CASE packets[front.pkt].op = "SET" -> 3
                                        [] OnlyKey(packets[front.pkt]) -> AfterHeader(front.key)
                                        [] OTHER -> 0]
     /\ UNCHANGED pbuf

FrontExtras(w) ==
  /\ front.wc = 3
  /\ front' = [front EXCEPT !.val = Least8(@), !.wc = AfterHeader(front.key)]
  /\ pbuf' = [pbuf EXCEPT !.val = Append(@, w)]

\* Seeded fault: the shift of the value before is kept.
StaleShift(key) == front.shift

\* A value behind a key of whole words is not shifted.
ShiftAfter(key) == IF key = 8 THEN 0 ELSE front.shift

FrontKey(w) ==
  /\ front.wc = 4
  /\ front' = [front EXCEPT !.key = Least8(@),
                 !.shift = ShiftAfter(front.key),
                 !.wc = CASE front.key = 8 -> IF OnlyKey(packets[front.pkt]) THEN 0 ELSE 6
                          [] front.key < 8 -> 0
                          [] front.key \in 9 .. 15 -> IF OnlyKey(packets[front.pkt]) THEN 4 ELSE 5
                          [] OTHER -> 4]
  /\ pbuf' = [pbuf EXCEPT !.key = Append(@, w)]

\* The last word of the key brings the first bytes of the value.
FrontKeyEnd(w) ==
  LET s == 8 - front.key
      rest == IF front.val > s THEN front.val - s ELSE 0
      temp == <<w[1], w[2] + front.key>>
  IN
  /\ front.wc = 5
  /\ IF OnlyKey(packets[front.pkt])
     THEN /\ front' = [front EXCEPT !.wc = 0, !.key = 0]
          /\ pbuf' = [pbuf EXCEPT !.key = Append(@, w)]
     ELSE /\ front' = [front EXCEPT !.shift = s, !.val = rest, !.key = 0, !.temp = temp,
                                    !.wc = IF rest > 0 THEN 6 ELSE 0]
          /\ pbuf' = [pbuf EXCEPT !.key = Append(@, w), !.val = IF rest > 0 THEN @ ELSE Append(@, temp)]

LeftOver == front.shift # 0 /\ front.val <= 8

FrontValue(w) ==
  LET word == IF front.shift = 0 THEN w ELSE front.temp IN
  /\ front.wc = 6
  /\ pbuf' = [pbuf EXCEPT !.val = Append(@, word)]
  /\ front' = IF front.val <= 8 - front.shift
              THEN [front EXCEPT !.wc = 0, !.val = 0]
              ELSE [front EXCEPT !.temp = <<w[1], w[2] + 8 - front.shift>>, !.val = Least8(@), !.last = LeftOver]

ParserFront ==
  /\ \/ /\ front.last
        /\ pbuf' = [pbuf EXCEPT !.val = Append(@, front.temp)]
        /\ front' = [front EXCEPT !.last = FALSE, !.wc = 0]
        /\ UNCHANGED feInput
     \/ /\ ~ front.last /\ feInput # << >>
        /\ feInput' = Tail(feInput)
        /\ LET w == Head(feInput) IN
           FrontHeader(w) \/ FrontExtras(w) \/ FrontKey(w) \/ FrontKeyEnd(w) \/ FrontValue(w)
  /\ UNCHANGED <<packets, rear, parsed, queue, resp, valueBuf, respOut>>

-----------------------------------------------------------------------------
(* bp_r: a first word with key, and value of a SET, then the rest.         *)

Take(q, n) == SubSeq(q, 1, n)
One(n) == IF n > 0 THEN 1 ELSE 0

ParserRear ==
  LET p == packets[rear.pkt]
      k == IF rear.state = "BPR_W1" THEN One(IF p.op = "FLUSH" THEN 0 ELSE 1) ELSE One(rear.key)
      v == IF rear.state = "BPR_W1" THEN One(IF p.op = "SET" THEN 1 ELSE 0) ELSE One(rear.val)
      keys == rear.keys \o Take(pbuf.key, k)
      vals == rear.vals \o Take(pbuf.val, v)
      done == rear.state = "BPR_REST" /\ Least8(rear.key) = 0 /\ Least8(rear.val) = 0
  IN
  /\ \/ /\ rear.state = "BPR_IDLE" /\ pbuf.md # << >>
        /\ rear' = [rear EXCEPT !.state = "BPR_W1", !.pkt = Head(pbuf.md), !.keys = << >>, !.vals = << >>,
                      !.key = packets[Head(pbuf.md)].klen,
                      !.val = Extras(packets[Head(pbuf.md)]) + packets[Head(pbuf.md)].vlen]
        /\ pbuf' = [pbuf EXCEPT !.md = Tail(@)]
        /\ UNCHANGED <<parsed, queue>>
     \/ /\ rear.state # "BPR_IDLE"
        /\ Len(pbuf.key) >= k /\ Len(pbuf.val) >= v
        /\ pbuf' = [pbuf EXCEPT !.key = SubSeq(@, k + 1, Len(@)), !.val = SubSeq(@, v + 1, Len(@))]
        /\ rear' = [rear EXCEPT !.state = IF done THEN "BPR_IDLE" ELSE "BPR_REST", !.keys = keys, !.vals = vals,
                      !.key = Least8(@), !.val = Least8(@)]
        /\ IF done
           THEN /\ parsed' = Append(parsed, [pkt |-> rear.pkt, keys |-> keys, vals |-> vals])
                /\ queue' = Append(queue, rear.pkt)
           ELSE UNCHANGED <<parsed, queue>>
  /\ UNCHANGED <<packets, feInput, front, resp, valueBuf, respOut>>

-----------------------------------------------------------------------------
(* response_f and response_r. resp.wc is br_outWordCounter: 0 idle, 1 - 3  *)
(* the header, 4 the value, 7 the error text, 8 padding to four words.     *)

NoAnswer == [pkt |-> 0, op |-> "NONE", err |-> FALSE, len |-> 0]
AnswersTo(n) ==
  LET op == packets[n].op IN
  [pkt : {n}, op : {op}, err : {TRUE}, len : {0}] \cup
  [pkt : {n}, op : {op}, err : {FALSE}, len : IF op = "GET" THEN HitLengths ELSE {0}]

\* response_f: the words of the value.
AnswerWords(a) == [i \in 1 .. WordsIn(a.len) |-> <<a.pkt, i>>]

\* The pipeline's answer enters through response_f: metadata and the words of the value.
RespondTo ==
  /\ resp.wc = 0 /\ queue # << >>
  /\ \E a \in AnswersTo(Head(queue)) :
       /\ resp' = [resp EXCEPT !.wc = 1, !.ans = a, !.left = a.len]
       /\ valueBuf' = valueBuf \o AnswerWords(a)
  /\ queue' = Tail(queue)
  /\ UNCHANGED respOut

\* Seeded fault: the word that completes a group of four is not counted.
AlignsLate == resp.align % 4 = 0

\* The word now put out completes a group of four.
Aligned == (resp.align + 1) % 4 = 0

\* The last word of an answer, or the one before the padding.
EndOrPad == IF Aligned THEN 0 ELSE 8

Put(kind, content, wc) ==
  /\ respOut' = Append(respOut, [kind |-> kind, pkt |-> resp.ans.pkt, content |-> content, last |-> wc = 0])
  /\ resp' = [resp EXCEPT !.wc = wc, !.align = @ + 1,
                          !.left = IF kind = "value" THEN Least8(@) ELSE @]

ResponseRear ==
  \/ /\ resp.wc \in {1, 2} /\ Put("header", 0, resp.wc + 1)
     /\ UNCHANGED valueBuf
  \/ /\ resp.wc = 3
     /\ Put("header", 0, IF resp.ans.err THEN 7 ELSE IF resp.ans.op = "GET" THEN 4 ELSE EndOrPad)
     /\ UNCHANGED valueBuf
  \/ /\ resp.wc = 4 /\ valueBuf # << >>
     /\ Put("value", Head(valueBuf), IF resp.left <= 8 THEN EndOrPad ELSE 4)
     /\ valueBuf' = Tail(valueBuf)
  \/ /\ resp.wc \in {7, 8}
     /\ Put(IF resp.wc = 7 THEN "error" ELSE "pad", 0, EndOrPad)
     /\ UNCHANGED valueBuf

Response ==
  /\ RespondTo \/ (ResponseRear /\ UNCHANGED queue)
  /\ UNCHANGED <<packets, feInput, front, pbuf, rear, parsed>>

NextProtocol == ReceivePacket \/ ParserFront \/ ParserRear \/ Response

\* Every stage runs in every clock cycle.
FairProtocol == WF_pvars(ParserFront) /\ WF_pvars(ParserRear) /\ WF_pvars(Response)

SpecProtocol == InitProtocol /\ [][NextProtocol]_pvars /\ FairProtocol

-----------------------------------------------------------------------------
(* Properties.                                                             *)

\* The words that a packet should be cut into.
KeyWordsOf(n) == [i \in 1 .. WordsIn(packets[n].klen) |-> <<n, 24 + Extras(packets[n]) + 8 * (i - 1)>>]
ValueWordsOf(n) ==
  IF packets[n].op # "SET" THEN << >>
  ELSE [i \in 1 .. 1 + WordsIn(packets[n].vlen) |->
          IF i = 1 THEN <<n, 24>> ELSE <<n, 32 + packets[n].klen + 8 * (i - 2)>>]

\* The parser puts out every request with its own key and value, whatever their lengths and
\* those of the requests around it: no word is lost, repeated or taken for another packet's.
ParsedExactly ==
  \A i \in DOMAIN parsed :
    /\ parsed[i].pkt = i
    /\ parsed[i].keys = KeyWordsOf(i)
    /\ parsed[i].vals = ValueWordsOf(i)

\* Answers start at multiples of four words and are not mixed: response_r marks the last word
\* of a group of four, and the words between two marks belong to one answer, in order.
AnswersFramed ==
  /\ \A i \in DOMAIN respOut : respOut[i].last => i % 4 = 0
  /\ \A i, j \in DOMAIN respOut :
       i < j /\ respOut[i].pkt # respOut[j].pkt => \E k \in i .. j - 1 : respOut[k].last
  /\ \A i, j \in DOMAIN respOut :
       /\ respOut[i].kind = "value" /\ respOut[j].kind = "value" /\ respOut[i].pkt = respOut[j].pkt /\ i < j
       => respOut[j].content[2] - respOut[i].content[2] = j - i
  /\ \A i \in DOMAIN respOut : respOut[i].kind = "value" => respOut[i].content[1] = respOut[i].pkt

\* Every packet is answered to its last word: the ends of the answers keep up with the packets.
PacketsAnswered ==
  []<>(packets = << >> \/ \E i \in DOMAIN respOut : respOut[i].pkt = Len(packets) /\ respOut[i].last)
=============================================================================
