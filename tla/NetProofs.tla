---------------------------- MODULE NetProofs ----------------------------
(***************************************************************************)
(* The users of the UDP engine for every instance: the DHCP client uses    *)
(* only addresses offered and acknowledged in one transaction of its own,  *)
(* as far as messages have the form it takes for granted; the multiplexer  *)
(* hands each client exactly its datagrams. The streams are described by   *)
(* what joins them: the words in front of the multiplexer are the rest of  *)
(* what was received, and what memcached got, its words under way and the  *)
(* multiplexer's place follow one another without a gap.                   *)
(***************************************************************************)
EXTENDS UdpClients, SequenceTheorems, TLAPS

-----------------------------------------------------------------------------
(* The invariant.                                                          *)

Ports == {"app", "dhcp"}
Words == [p : Nat, k : Nat, n : {8}, last : BOOLEAN]
AllAddresses == Addresses \cup {Static, Zero}
AllTypes == Types \cup {"none", "DISCOVER", "REQUEST"}
Messages == [id : Nat, type : AllTypes, ip : AllAddresses]
ContentsSet == [id : Nat, ip : AllAddresses, type : AllTypes, reply : BOOLEAN, mac : BOOLEAN, cookie : BOOLEAN]
Datagrams == [port : Ports, words : Nat \ {0}, msg : ContentsSet, beyond : ContentsSet]
RmStates ==
  [reply : BOOLEAN, mac : BOOLEAN, isDHCP : BOOLEAN, count : 0 .. Len(Layout) - 1, id : Nat, ip : AllAddresses, type : AllTypes]

DhcpStates ==
  [st : {"PORT_WAIT", "INIT", "SELECTING", "REQUESTING", "BOUND"}, id : Nat, ip : AllAddresses,
   buffer : AllAddresses, time : Int, next : Nat \ {0}, out : AllAddresses]

FifoType(f) ==
  CASE f \in {"rxData", "dataDhcp", "dataApp"} -> Words
    [] f \in {"rxMeta", "metaDhcp", "metaApp"} -> Nat
    [] f \in {"openDhcp", "openApp", "openOut"} -> Ports
    [] f \in {"replyIn", "replyDhcp", "replyApp", "portOpen"} -> BOOLEAN
    [] f = "replyMeta" -> Messages
    [] f = "appOut" -> [w : Words, meta : Nat]

ClientsTypeOK ==
  /\ dgrams \in Seq(Datagrams)
  /\ cq = [f \in ClientFifos |-> cq[f]]
  /\ \A f \in ClientFifos : cq[f] \in Seq(FifoType(f))
  /\ muxRx \in [st : {"IDLE", "FIRST", "ACC"}, source : Ports]
  /\ muxPort \in [busy : BOOLEAN, source : Ports]
  /\ rxShim \in {"IDLE", "W8FORPORT", "ACC_FIRST", "ACC"}
  /\ rm \in RmStates
  /\ dhcp \in DhcpStates
  /\ asked \in SUBSET Messages

\* A word is one of a datagram that was received.
Real(w) ==
  /\ w.p \in DOMAIN dgrams /\ w.k \in 0 .. dgrams[w.p].words - 1
  /\ w = Word(w.p, w.k, 8, w.k + 1 = dgrams[w.p].words)

\* y is the word after x in what the engine hands over.
Follows(x, y) == IF x.last THEN y.p = x.p + 1 /\ y.k = 0 ELSE y.p = x.p /\ y.k = x.k + 1

\* The next word for the multiplexer is word AtWord of datagram AtDgram.
AtDgram == IF cq.rxData = <<>> THEN Len(dgrams) + 1 ELSE cq.rxData[1].p
AtWord == IF cq.rxData = <<>> THEN 0 ELSE cq.rxData[1].k

\* The words in front of the multiplexer are the rest of what was received, without a gap.
RestInv ==
  /\ \A j \in DOMAIN cq.rxData : Real(cq.rxData[j])
  /\ \A j \in 1 .. Len(cq.rxData) - 1 : Follows(cq.rxData[j], cq.rxData[j + 1])
  /\ cq.rxData # <<>> => cq.rxData[Len(cq.rxData)].p = Len(dgrams) /\ cq.rxData[Len(cq.rxData)].last
  /\ \A j \in DOMAIN cq.rxMeta : cq.rxMeta[j] = Len(dgrams) - Len(cq.rxMeta) + j

\* The multiplexer is at the beginning of a datagram or in the one whose metadata it passed on.
Passing == muxRx.st # "IDLE"
MuxInv ==
  /\ Len(cq.rxMeta) = Len(dgrams) + 1 - AtDgram - (IF Passing THEN 1 ELSE 0)
  /\ Passing => AtDgram \in DOMAIN dgrams /\ dgrams[AtDgram].port = muxRx.source
  /\ muxRx.st # "ACC" => AtWord = 0

\* The last of the words out is the last of memcached's words before word i of datagram p.
GotUpTo(out, p, i) ==
  IF out = <<>> THEN (i = 0 \/ dgrams[p].port # "app") /\ NoneBetween(0, p) ELSE Precedes(out[Len(out)].w, p, i)

\* What memcached got, its words under way and the multiplexer's position join up.
WordsJoin(out, data, p, i) ==
  /\ \A n \in DOMAIN out : InPlace(out, n)
  /\ \A j \in DOMAIN data : Real(data[j]) /\ dgrams[data[j].p].port = "app"
  /\ \A j \in 1 .. Len(data) - 1 : Precedes(data[j], data[j + 1].p, data[j + 1].k)
  /\ data = <<>> => GotUpTo(out, p, i)
  /\ data # <<>> => GotUpTo(out, data[1].p, data[1].k) /\ Precedes(data[Len(data)], p, i)
AppInv == WordsJoin(cq.appOut, cq.dataApp, AtDgram, AtWord)

\* The datagram of the last word memcached got; the first whose metadata are not passed on yet.
LastGot == IF cq.appOut = <<>> THEN 0 ELSE cq.appOut[Len(cq.appOut)].w.p
NextMeta == IF Passing THEN AtDgram + 1 ELSE AtDgram

\* The metadata under way are those of memcached's datagrams that it has not begun to get.
MetaJoin(got, metas, p) ==
  /\ \A j \in DOMAIN metas : metas[j] \in DOMAIN dgrams /\ dgrams[metas[j]].port = "app"
  /\ \A j \in 1 .. Len(metas) - 1 : metas[j] < metas[j + 1] /\ NoneBetween(metas[j], metas[j + 1])
  /\ metas = <<>> => got < p /\ NoneBetween(got, p)
  /\ metas # <<>> => /\ got < metas[1] /\ NoneBetween(got, metas[1])
                     /\ metas[Len(metas)] < p /\ NoneBetween(metas[Len(metas)], p)
MetaInv == MetaJoin(LastGot, cq.metaApp, NextMeta)

\* The shim is in a datagram when the last word it passed on was not a last one.
ShimInv ==
  /\ rxShim = "ACC" <=> cq.appOut # <<>> /\ ~ cq.appOut[Len(cq.appOut)].w.last
  /\ rxShim \in {"IDLE", "W8FORPORT"} => cq.appOut = <<>>

\* An answer to a port request is on the way to the client whose port was opened.
PortInv ==
  /\ muxPort.busy => Len(cq.openOut) + Len(cq.replyIn) = 1
  /\ ~ muxPort.busy => cq.openOut = <<>> /\ cq.replyIn = <<>>
  /\ cq.openOut # <<>> => cq.openOut[1] = muxPort.source
  /\ cq.replyIn # <<>> => muxPort.source \in opened
  /\ \A j \in DOMAIN cq.openDhcp : cq.openDhcp[j] = "dhcp"
  /\ \A j \in DOMAIN cq.openApp : cq.openApp[j] = "app"
  /\ cq.replyApp # <<>> \/ rxShim \in {"ACC_FIRST", "ACC"} => "app" \in opened
  /\ cq.replyDhcp # <<>> \/ cq.portOpen # <<>> \/ dhcp.st # "PORT_WAIT" => "dhcp" \in opened

\* Word k of datagram p is inside a DHCP message; x is the last one before it of the words for the DHCP client.
Inside(p, k) == k > 0 /\ dgrams[p].port = "dhcp"
Then(x, p, k) == IF Inside(p, k) THEN ~x.last /\ x.p = p /\ k = x.k + 1 ELSE x.last

\* Of the first k words of message m, r holds the fields.
Fits(r, m, k) ==
  /\ r.reply = m.reply /\ r.id = m.id
  /\ \A i \in 1 .. k : /\ "ip" \in Layout[i] => r.ip = m.ip
                       /\ "mac" \in Layout[i] /\ r.mac => m.mac
                       /\ "cookie" \in Layout[i] /\ r.isDHCP => m.cookie
                       /\ "type" \in Layout[i] /\ m.type # "none" => r.type = m.type

\* receive_message has read what precedes word k of datagram p.
ReadUpTo(p, k) == IF Inside(p, k) THEN rm.count = k /\ Fits(rm, dgrams[p].msg, k) ELSE rm.count = 0

\* What receive_message has read, its words under way and the multiplexer's position join up.
DataJoin(data, p, k) ==
  /\ \A j \in 1 .. Len(data) - 1 : Then(data[j], data[j + 1].p, data[j + 1].k)
  /\ data = <<>> => ReadUpTo(p, k)
  /\ data # <<>> => ReadUpTo(data[1].p, data[1].k) /\ Then(data[Len(data)], p, k)

\* Some message to this client says m.
Said(m) == \E p \in DOMAIN dgrams : ToMe(p, m.id, m.type) /\ dgrams[p].msg.ip = m.ip

\* What receive_message passed on, and the address the client remembers, were received.
DhcpInv ==
  /\ \A j \in DOMAIN cq.dataDhcp : Real(cq.dataDhcp[j]) /\ dgrams[cq.dataDhcp[j].p].port = "dhcp"
  /\ dhcp.st \in {"SELECTING", "REQUESTING"} => dhcp.id \in 1 .. MaxTries
  /\ Proper => /\ \A j \in DOMAIN cq.replyMeta : Said(cq.replyMeta[j])
               /\ dhcp.st = "REQUESTING" => Said(Message(dhcp.id, "OFFER", dhcp.buffer))
               /\ DataJoin(cq.dataDhcp, AtDgram, AtWord)

ClientsInv == ClientsTypeOK /\ RestInv /\ MuxInv /\ AppInv /\ MetaInv /\ ShimInv /\ PortInv /\ DhcpInv /\ AddressGranted

-----------------------------------------------------------------------------
(* Sequences and calls.                                                    *)

LEMMA TailIs ==
  ASSUME NEW S, NEW s \in Seq(S), s # <<>>
  PROVE  /\ Head(s) = s[1] /\ s[1] \in S /\ Len(s) \in Nat \ {0}
         /\ Tail(s) \in Seq(S) /\ Len(Tail(s)) = Len(s) - 1
         /\ \A i \in 1 .. Len(s) - 1 : Tail(s)[i] = s[i + 1]
  BY EmptySeq, HeadTailProperties

LEMMA AppendIs ==
  ASSUME NEW S, NEW s \in Seq(S), NEW x \in S
  PROVE  /\ s \o <<x>> \in Seq(S) /\ Len(s \o <<x>>) = Len(s) + 1 /\ Len(s) \in Nat
         /\ \A i \in 1 .. Len(s) : (s \o <<x>>)[i] = s[i]
         /\ (s \o <<x>>)[Len(s) + 1] = x
         /\ s \o <<x>> # <<>>
  <1>1. <<x>> \in Seq(S) /\ Len(<<x>>) = 1 /\ <<x>>[1] = x
    OBVIOUS
  <1>2. s \o <<x>> \in Seq(S) /\ Len(s \o <<x>>) = Len(s) + 1 /\ Len(s) \in Nat
    BY <1>1, ConcatProperties
  <1> QED
    BY <1>1, <1>2, ConcatProperties

LEMMA NoneLeft ==
  ASSUME NEW S, NEW s \in Seq(S)
  PROVE  (s = <<>> <=> Len(s) = 0) /\ Len(s) \in Nat /\ DOMAIN s = 1 .. Len(s)
  BY EmptySeq, LenProperties

LEMMA TailAll ==
  ASSUME NEW S, NEW s \in Seq(S), s # <<>>, NEW v, \A j \in DOMAIN s : s[j] = v
  PROVE  \A j \in DOMAIN Tail(s) : Tail(s)[j] = v
  <1>1. Tail(s) \in Seq(S) /\ Len(Tail(s)) = Len(s) - 1 /\ Len(s) \in Nat /\ \A i \in 1 .. Len(s) - 1 : Tail(s)[i] = s[i + 1]
    BY TailIs
  <1>2. DOMAIN Tail(s) = 1 .. Len(s) - 1 /\ DOMAIN s = 1 .. Len(s)
    BY <1>1, NoneLeft
  <1> QED
    BY <1>1, <1>2

LEMMA FifoIs ==
  ASSUME ClientsTypeOK, NEW f \in ClientFifos
  PROVE  cq[f] \in Seq(FifoType(f)) /\ cq[f] \o <<>> = cq[f]
  <1>1. cq[f] \in Seq(FifoType(f))
    BY DEF ClientsTypeOK
  <1> QED
    BY <1>1, ConcatEmptySeq

\* A call takes from the FIFOs ins, writes to those of p and leaves the others.
LEMMA CallIs ==
  ASSUME ClientsTypeOK, NEW ins, NEW p, ClientCalls(ins, p)
  PROVE  /\ dgrams' = dgrams
         /\ cq' = [f \in ClientFifos |-> cq'[f]]
         /\ \A f \in ClientFifos : f \notin ins /\ f \notin DOMAIN p => cq'[f] = cq[f]
         /\ \A f \in ClientFifos : f \in ins /\ f \notin DOMAIN p => cq[f] # <<>> /\ cq'[f] = Tail(cq[f])
         /\ \A f \in ClientFifos : f \notin ins /\ f \in DOMAIN p => cq'[f] = cq[f] \o p[f]
  <1>1. /\ dgrams' = dgrams /\ DOMAIN cq = ClientFifos
        /\ cq' = [f \in ClientFifos |-> (IF f \in ins THEN Tail(cq[f]) ELSE cq[f]) \o Writes(p, f)]
        /\ \A f \in ins : cq[f] # <<>>
    BY DEF ClientCalls, Possible, Passed, ClientsTypeOK
  <1>2. ASSUME NEW f \in ClientFifos, f \notin DOMAIN p, f \in ins PROVE Tail(cq[f]) \o <<>> = Tail(cq[f])
    <2>1. cq[f] \in Seq(FifoType(f)) /\ cq[f] # <<>>
      BY <1>1, <1>2, FifoIs
    <2>2. Tail(cq[f]) \in Seq(FifoType(f))
      BY <2>1, TailIs
    <2> QED
      BY <2>2, ConcatEmptySeq
  <1>3. ASSUME NEW f \in ClientFifos PROVE cq'[f] = (IF f \in ins THEN Tail(cq[f]) ELSE cq[f]) \o Writes(p, f)
    BY <1>1
  <1>4. ASSUME NEW f \in ClientFifos, f \notin DOMAIN p, f \notin ins PROVE cq'[f] = cq[f]
    <2>1. cq'[f] = cq[f] \o <<>>
      BY <1>3, <1>4 DEF Writes
    <2> QED
      BY <2>1, FifoIs
  <1>5. ASSUME NEW f \in ClientFifos, f \notin DOMAIN p, f \in ins PROVE cq[f] # <<>> /\ cq'[f] = Tail(cq[f])
    <2>1. cq'[f] = Tail(cq[f]) \o <<>>
      BY <1>3, <1>5 DEF Writes
    <2> QED
      BY <2>1, <1>2, <1>5, <1>1
  <1>6. ASSUME NEW f \in ClientFifos, f \in DOMAIN p, f \notin ins PROVE cq'[f] = cq[f] \o p[f]
    BY <1>3, <1>6 DEF Writes
  <1>7. cq' = [f \in ClientFifos |-> cq'[f]]
    BY <1>1
  <1> QED
    BY <1>1, <1>4, <1>5, <1>6, <1>7

\* What is written decides whether the types are kept.
LEMMA CallTyped ==
  ASSUME ClientsTypeOK, NEW ins, NEW p, ClientCalls(ins, p), ins \cap DOMAIN p = {},
         \A f \in DOMAIN p : \E x \in FifoType(f) : p[f] = <<x>>
  PROVE  \A f \in ClientFifos : cq'[f] \in Seq(FifoType(f))
  <1> SUFFICES ASSUME NEW f \in ClientFifos PROVE cq'[f] \in Seq(FifoType(f))
    OBVIOUS
  <1>1. cq[f] \in Seq(FifoType(f))
    BY FifoIs
  <1>2. CASE f \in DOMAIN p
    <2>1. PICK x \in FifoType(f) : p[f] = <<x>>
      BY <1>2
    <2>2. f \notin ins
      BY <1>2
    <2>3. cq'[f] = cq[f] \o <<x>>
      BY <1>2, <2>1, <2>2, CallIs, SMTT(30)
    <2> QED
      BY <1>1, <2>3, AppendIs
  <1>3. CASE f \notin DOMAIN p /\ f \in ins
    <2>1. cq[f] # <<>> /\ cq'[f] = Tail(cq[f])
      BY <1>3, CallIs
    <2> QED
      BY <1>1, <2>1, TailIs
  <1>4. CASE f \notin DOMAIN p /\ f \notin ins
    BY <1>1, <1>4, CallIs
  <1> QED
    BY <1>2, <1>3, <1>4

\* One word goes from FIFO a to FIFO b; one is taken; one is written.
LEMMA CallPass ==
  ASSUME ClientsTypeOK, NEW a \in ClientFifos, NEW b \in ClientFifos, a # b, NEW x \in FifoType(b),
         NEW p, DOMAIN p = {b}, p[b] = <<x>>, ClientCalls({a}, p)
  PROVE  /\ dgrams' = dgrams /\ cq' = [f \in ClientFifos |-> cq'[f]]
         /\ \A f \in ClientFifos \ {a, b} : cq'[f] = cq[f]
         /\ cq[a] # <<>> /\ cq'[a] = Tail(cq[a]) /\ cq'[b] = cq[b] \o <<x>>
         /\ \A f \in ClientFifos : cq'[f] \in Seq(FifoType(f))
  <1>1. /\ dgrams' = dgrams /\ cq' = [f \in ClientFifos |-> cq'[f]]
        /\ \A f \in ClientFifos : f \notin {a} /\ f \notin DOMAIN p => cq'[f] = cq[f]
        /\ \A f \in ClientFifos : f \in {a} /\ f \notin DOMAIN p => cq[f] # <<>> /\ cq'[f] = Tail(cq[f])
        /\ \A f \in ClientFifos : f \notin {a} /\ f \in DOMAIN p => cq'[f] = cq[f] \o p[f]
    BY CallIs
  <1>2. {a} \cap DOMAIN p = {} /\ \A f \in DOMAIN p : \E y \in FifoType(f) : p[f] = <<y>>
    OBVIOUS
  <1>3. \A f \in ClientFifos : cq'[f] \in Seq(FifoType(f))
    BY <1>2, CallTyped
  <1> QED
    BY <1>1, <1>3

LEMMA CallTake ==
  ASSUME ClientsTypeOK, NEW a \in ClientFifos, ClientCalls({a}, Nothing)
  PROVE  /\ dgrams' = dgrams /\ cq' = [f \in ClientFifos |-> cq'[f]]
         /\ \A f \in ClientFifos \ {a} : cq'[f] = cq[f]
         /\ cq[a] # <<>> /\ cq'[a] = Tail(cq[a])
         /\ \A f \in ClientFifos : cq'[f] \in Seq(FifoType(f))
  <1>0. DOMAIN Nothing = {}
    BY DEF Nothing
  <1>1. /\ dgrams' = dgrams /\ cq' = [f \in ClientFifos |-> cq'[f]]
        /\ \A f \in ClientFifos : f \notin {a} /\ f \notin DOMAIN Nothing => cq'[f] = cq[f]
        /\ \A f \in ClientFifos : f \in {a} /\ f \notin DOMAIN Nothing => cq[f] # <<>> /\ cq'[f] = Tail(cq[f])
    BY CallIs
  <1>2. {a} \cap DOMAIN Nothing = {} /\ \A f \in DOMAIN Nothing : \E y \in FifoType(f) : Nothing[f] = <<y>>
    BY <1>0
  <1>3. \A f \in ClientFifos : cq'[f] \in Seq(FifoType(f))
    BY <1>2, CallTyped
  <1> QED
    BY <1>0, <1>1, <1>3

LEMMA CallPut ==
  ASSUME ClientsTypeOK, NEW b \in ClientFifos, NEW x \in FifoType(b),
         NEW p, DOMAIN p = {b}, p[b] = <<x>>, ClientCalls({}, p)
  PROVE  /\ dgrams' = dgrams /\ cq' = [f \in ClientFifos |-> cq'[f]]
         /\ \A f \in ClientFifos \ {b} : cq'[f] = cq[f]
         /\ cq'[b] = cq[b] \o <<x>>
         /\ \A f \in ClientFifos : cq'[f] \in Seq(FifoType(f))
  <1>1. /\ dgrams' = dgrams /\ cq' = [f \in ClientFifos |-> cq'[f]]
        /\ \A f \in ClientFifos : f \notin {} /\ f \notin DOMAIN p => cq'[f] = cq[f]
        /\ \A f \in ClientFifos : f \notin {} /\ f \in DOMAIN p => cq'[f] = cq[f] \o p[f]
    BY CallIs
  <1>2. {} \cap DOMAIN p = {} /\ \A f \in DOMAIN p : \E y \in FifoType(f) : p[f] = <<y>>
    OBVIOUS
  <1>3. \A f \in ClientFifos : cq'[f] \in Seq(FifoType(f))
    BY <1>2, CallTyped
  <1> QED
    BY <1>1, <1>3

-----------------------------------------------------------------------------
(* What a step leaves alone.                                               *)

StreamInv == RestInv /\ MuxInv /\ AppInv /\ MetaInv /\ ShimInv
StreamKept ==
  /\ UNCHANGED <<dgrams, muxRx>>
  /\ \A f \in {"rxData", "rxMeta", "dataApp", "metaApp", "appOut"} : cq'[f] = cq[f]
PortKept ==
  /\ UNCHANGED <<muxPort, opened, rxShim>> /\ dhcp'.st = dhcp.st
  /\ \A f \in {"openOut", "replyIn", "openDhcp", "openApp", "replyApp", "replyDhcp", "portOpen"} : cq'[f] = cq[f]
DhcpKept == UNCHANGED <<dhcp, rm, asked>>

\* As long as nothing is received, the predicates on words mean the same after a step.
LEMMA WordsJoinKept ==
  ASSUME dgrams' = dgrams, NEW out, NEW data, NEW p, NEW i, WordsJoin(out, data, p, i)
  PROVE  WordsJoin(out, data, p, i)'
  <1>1. \A x, q, k : Precedes(x, q, k)' <=> Precedes(x, q, k)
    BY DEF Precedes, NoneBetween
  <1>2. \A n : InPlace(out, n)' <=> InPlace(out, n)
    BY DEF InPlace, AppWord, NoneBetween, Precedes
  <1>3. \A w : Real(w)' <=> Real(w)
    BY DEF Real
  <1>4. \A q, k : GotUpTo(out, q, k)' <=> GotUpTo(out, q, k)
    BY DEF GotUpTo, NoneBetween, Precedes
  <1> QED
    BY <1>1, <1>2, <1>3, <1>4 DEF WordsJoin

LEMMA MetaJoinKept ==
  ASSUME dgrams' = dgrams, NEW got, NEW metas, NEW p, MetaJoin(got, metas, p)
  PROVE  MetaJoin(got, metas, p)'
  BY DEF MetaJoin, NoneBetween

LEMMA StreamFrame ==
  ASSUME StreamInv, StreamKept, rxShim' = rxShim
  PROVE  StreamInv'
  <1>1. /\ cq'.rxData = cq.rxData /\ cq'.rxMeta = cq.rxMeta /\ cq'.dataApp = cq.dataApp /\ cq'.metaApp = cq.metaApp
        /\ cq'.appOut = cq.appOut /\ dgrams' = dgrams /\ muxRx' = muxRx /\ rxShim' = rxShim
    BY DEF StreamKept
  <1>2. AtDgram' = AtDgram /\ AtWord' = AtWord /\ Passing' = Passing
    BY <1>1 DEF AtDgram, AtWord, Passing
  <1>3. RestInv' /\ MuxInv'
    <2>1. RestInv'
      BY <1>1 DEF StreamInv, RestInv, Real
    <2>2. MuxInv'
      BY <1>1, <1>2 DEF StreamInv, MuxInv
    <2> QED
      BY <2>1, <2>2
  <1>4. AppInv'
    <2>1. WordsJoin(cq'.appOut, cq'.dataApp, AtDgram', AtWord')
      BY <1>1, <1>2 DEF StreamInv, AppInv
    <2> QED
      BY <1>1, <2>1, WordsJoinKept DEF AppInv
  <1>5. MetaInv'
    <2>1. LastGot' = LastGot /\ NextMeta' = NextMeta
      BY <1>1, <1>2 DEF LastGot, NextMeta
    <2>2. MetaJoin(LastGot', cq'.metaApp, NextMeta')
      BY <1>1, <2>1 DEF StreamInv, MetaInv
    <2> QED
      BY <1>1, <2>2, MetaJoinKept DEF MetaInv
  <1>6. ShimInv'
    BY <1>1 DEF StreamInv, ShimInv
  <1> QED
    BY <1>3, <1>4, <1>5, <1>6 DEF StreamInv

LEMMA PortFrame ==
  ASSUME PortInv, PortKept
  PROVE  PortInv'
  <1>1. /\ cq'.openOut = cq.openOut /\ cq'.replyIn = cq.replyIn /\ cq'.openDhcp = cq.openDhcp /\ cq'.openApp = cq.openApp
        /\ cq'.replyApp = cq.replyApp /\ cq'.replyDhcp = cq.replyDhcp /\ cq'.portOpen = cq.portOpen
        /\ muxPort' = muxPort /\ opened' = opened /\ rxShim' = rxShim /\ dhcp'.st = dhcp.st
    BY DEF PortKept
  <1> QED
    BY <1>1 DEF PortInv

LEMMA SaidKept ==
  ASSUME dgrams' = dgrams
  PROVE  /\ Proper' <=> Proper
         /\ \A m : Said(m)' <=> Said(m)
         /\ \A id, a : Granted(id, a)' <=> Granted(id, a)
  BY DEF Proper, Said, Granted, ToMe

LEMMA DataJoinKept ==
  ASSUME dgrams' = dgrams, rm' = rm, NEW data, NEW p, NEW k, DataJoin(data, p, k)
  PROVE  DataJoin(data, p, k)'
  <1>1. \A x, q, i : Then(x, q, i)' <=> Then(x, q, i)
    BY DEF Then, Inside
  <1>2. \A q, i : ReadUpTo(q, i)' <=> ReadUpTo(q, i)
    BY DEF ReadUpTo, Inside, Fits
  <1> QED
    BY <1>1, <1>2 DEF DataJoin

LEMMA DhcpFrame ==
  ASSUME DhcpInv, AddressGranted, DhcpKept, dgrams' = dgrams, cq'.replyMeta = cq.replyMeta, cq'.dataDhcp = cq.dataDhcp,
         cq'.rxData = cq.rxData
  PROVE  DhcpInv' /\ AddressGranted'
  <1>1. dhcp' = dhcp /\ rm' = rm
    BY DEF DhcpKept
  <1>2. AtDgram' = AtDgram /\ AtWord' = AtWord
    BY DEF AtDgram, AtWord
  <1>3. DhcpInv'
    <2>1. \A j \in DOMAIN cq'.dataDhcp : Real(cq.dataDhcp[j])' /\ dgrams'[cq'.dataDhcp[j].p].port = "dhcp"
      BY DEF DhcpInv, Real, Word
    <2>2. ASSUME Proper'
          PROVE  /\ \A j \in DOMAIN cq'.replyMeta : Said(cq.replyMeta[j])'
                 /\ dhcp'.st = "REQUESTING" => Said(Message(dhcp.id, "OFFER", dhcp.buffer))'
                 /\ DataJoin(cq.dataDhcp, AtDgram, AtWord)'
      <3>1. /\ \A j \in DOMAIN cq.replyMeta : Said(cq.replyMeta[j])
            /\ dhcp.st = "REQUESTING" => Said(Message(dhcp.id, "OFFER", dhcp.buffer))
            /\ DataJoin(cq.dataDhcp, AtDgram, AtWord)
        BY <2>2, SaidKept DEF DhcpInv
      <3>2. DataJoin(cq.dataDhcp, AtDgram, AtWord)'
        BY <1>1, <1>2, <3>1, DataJoinKept
      <3> QED
        BY <1>1, <3>1, <3>2, SaidKept DEF Message
    <2> QED
      BY <1>1, <2>1, <2>2 DEF DhcpInv
  <1>4. AddressGranted'
    BY <1>1, SaidKept DEF AddressGranted
  <1> QED
    BY <1>3, <1>4

\* The parts of the invariant.
LEMMA InvParts ==
  ASSUME ClientsInv
  PROVE  ClientsTypeOK /\ StreamInv /\ PortInv /\ DhcpInv /\ AddressGranted
  BY DEF ClientsInv, StreamInv

LEMMA PartsInv ==
  ASSUME ClientsTypeOK', StreamInv', PortInv', DhcpInv', AddressGranted'
  PROVE  ClientsInv'
  BY DEF ClientsInv, StreamInv

-----------------------------------------------------------------------------
(* Steps of the port requests.                                             *)

LEMMA OneOfTwo ==
  ASSUME NEW a \in Nat, NEW b \in Nat, a + b = 1
  PROVE  (a = 1 /\ b = 0) \/ (a = 0 /\ b = 1)
  OBVIOUS

LEMMA PortOpensStep ==
  ASSUME ClientsInv, PortOpens
  PROVE  ClientsInv'
  <1>1. ClientsTypeOK /\ StreamInv /\ PortInv /\ DhcpInv /\ AddressGranted
    BY InvParts
  <1> DEFINE x == Head(cq.openOut) \notin opened
             p == [replyIn |-> <<x>>]
  <1>2. /\ cq.openOut # <<>> /\ ClientCalls({"openOut"}, p) /\ opened' = opened \cup {Head(cq.openOut)}
        /\ UNCHANGED <<muxRx, muxPort, rxShim, odp, rm, dhcp, dhcpEnable, toggles, asked>>
    BY DEF PortOpens, DhcpKeeps
  <1>3. /\ dgrams' = dgrams /\ cq' = [f \in ClientFifos |-> cq'[f]]
        /\ \A f \in ClientFifos \ {"openOut", "replyIn"} : cq'[f] = cq[f]
        /\ cq'.openOut = Tail(cq.openOut) /\ cq'.replyIn = cq.replyIn \o <<x>>
        /\ \A f \in ClientFifos : cq'[f] \in Seq(FifoType(f))
    <2>1. /\ DOMAIN p = {"replyIn"} /\ p["replyIn"] = <<x>> /\ {"openOut", "replyIn"} \subseteq ClientFifos
          /\ x \in FifoType("replyIn")
      BY DEF ClientFifos, FifoType
    <2> HIDE DEF p
    <2> QED
      BY <1>1, <1>2, <2>1, CallPass, ZenonT(30)
  <1>4. ClientsTypeOK'
    BY <1>1, <1>2, <1>3 DEF ClientsTypeOK
  <1>5. StreamInv'
    <2>1. StreamKept
      BY <1>2, <1>3 DEF StreamKept, ClientFifos
    <2> QED
      BY <1>1, <1>2, <2>1, StreamFrame
  <1>6. DhcpInv' /\ AddressGranted'
    <2>1. DhcpKept /\ cq'.replyMeta = cq.replyMeta /\ cq'.dataDhcp = cq.dataDhcp /\ cq'.rxData = cq.rxData
      BY <1>2, <1>3 DEF DhcpKept, ClientFifos
    <2> QED
      BY <1>1, <1>3, <2>1, DhcpFrame
  <1>7. PortInv'
    <2>1. x \in FifoType("replyIn")
      BY DEF FifoType
    <2> HIDE DEF x, p
    <2>2. cq.openOut \in Seq(FifoType("openOut")) /\ cq.replyIn \in Seq(FifoType("replyIn")) /\ x \in FifoType("replyIn")
      BY <1>1, <2>1, FifoIs DEF ClientFifos
    <2>3. /\ Head(cq.openOut) = cq.openOut[1] /\ Len(cq.openOut) \in Nat \ {0}
          /\ Len(Tail(cq.openOut)) = Len(cq.openOut) - 1 /\ Tail(cq.openOut) \in Seq(FifoType("openOut"))
      BY <1>2, <2>2, TailIs
    <2>4. Len(cq'.replyIn) = Len(cq.replyIn) + 1 /\ Len(cq.replyIn) \in Nat
      BY <1>3, <2>2, AppendIs
    <2>5. muxPort.busy /\ Len(cq.openOut) + Len(cq.replyIn) = 1
      BY <1>1, <1>2 DEF PortInv
    <2>6. Len(cq.openOut) = 1 /\ Len(cq.replyIn) = 0
      <3>1. Len(cq.openOut) + Len(cq.replyIn) = 1 /\ Len(cq.openOut) \in Nat \ {0} /\ Len(cq.replyIn) \in Nat
        BY <2>5, <2>3, <2>4
      <3> QED
        BY <3>1, OneOfTwo
    <2>7. muxPort.busy /\ Len(cq.openOut) = 1 /\ Len(cq.replyIn) = 0 /\ cq.openOut[1] = muxPort.source
      BY <1>1, <1>2, <2>5, <2>6 DEF PortInv
    <2>8. Len(cq'.openOut) = 0 /\ Len(cq'.replyIn) = 1 /\ cq'.openOut = <<>>
      BY <1>3, <2>3, <2>4, <2>7, EmptySeq
    <2>9. muxPort.source \in opened' /\ opened \subseteq opened'
      BY <1>2, <2>3, <2>7
    <2>10. \A f \in {"openDhcp", "openApp", "replyApp", "replyDhcp", "portOpen"} : cq'[f] = cq[f]
      BY <1>3 DEF ClientFifos
    <2> QED
      BY <1>1, <1>2, <2>7, <2>8, <2>9, <2>10 DEF PortInv
  <1> QED
    BY <1>4, <1>5, <1>6, <1>7, PartsInv

\* A request goes on to the port table.
LEMMA PortAsks ==
  ASSUME ClientsInv, NEW f \in {"openDhcp", "openApp"}, NEW a \in Ports, f = IF a = "dhcp" THEN "openDhcp" ELSE "openApp",
         ~ PortBusy, cq[f] # <<>>, ClientCalls({f}, [openOut |-> <<Head(cq[f])>>]), muxPort' = [busy |-> TRUE, source |-> a],
         UNCHANGED <<muxRx, rxShim, opened, odp, rm, dhcp, dhcpEnable, toggles, asked>>
  PROVE  ClientsInv'
  <1>1. ClientsTypeOK /\ StreamInv /\ PortInv /\ DhcpInv /\ AddressGranted
    BY InvParts
  <1> DEFINE x == Head(cq[f])
             p == [openOut |-> <<x>>]
  <1>2. /\ x = a /\ x \in FifoType("openOut") /\ cq[f] \in Seq(FifoType(f)) /\ {"openOut", f} \subseteq ClientFifos
        /\ cq.openOut \in Seq(FifoType("openOut"))
    <2>1. f \in ClientFifos /\ cq[f] \in Seq(FifoType(f)) /\ "openOut" \in ClientFifos /\ cq.openOut \in Seq(FifoType("openOut"))
      BY <1>1, FifoIs DEF ClientFifos
    <2>2. x = cq[f][1] /\ 1 \in DOMAIN cq[f]
      BY <2>1, TailIs
    <2>3. x = a
      <3>1. CASE a = "dhcp"
        BY <1>1, <2>2, <3>1 DEF PortInv
      <3>2. CASE a # "dhcp"
        BY <1>1, <2>2, <3>2 DEF PortInv, Ports
      <3> QED
        BY <3>1, <3>2
    <2> QED
      BY <2>1, <2>3 DEF FifoType
  <1>3. /\ dgrams' = dgrams /\ cq' = [g \in ClientFifos |-> cq'[g]]
        /\ \A g \in ClientFifos \ {f, "openOut"} : cq'[g] = cq[g]
        /\ cq[f] # <<>> /\ cq'[f] = Tail(cq[f]) /\ cq'["openOut"] = cq["openOut"] \o <<x>>
        /\ \A g \in ClientFifos : cq'[g] \in Seq(FifoType(g))
    <2>1. /\ DOMAIN p = {"openOut"} /\ p["openOut"] = <<x>> /\ f # "openOut" /\ ClientCalls({f}, p)
          /\ "openOut" \in ClientFifos /\ f \in ClientFifos
      BY <1>2
    <2> HIDE DEF p, x
    <2>2. x \in FifoType("openOut")
      BY <1>2
    <2> QED
      BY <1>1, <2>1, <2>2, CallPass, ZenonT(30)
  <1> HIDE DEF x, p
  <1>4. ClientsTypeOK'
    BY <1>1, <1>3 DEF ClientsTypeOK
  <1>5. StreamInv'
    <2>1. StreamKept
      BY <1>3 DEF StreamKept, ClientFifos
    <2> QED
      BY <1>1, <2>1, StreamFrame
  <1>6. DhcpInv' /\ AddressGranted'
    <2>1. DhcpKept /\ cq'.replyMeta = cq.replyMeta /\ cq'.dataDhcp = cq.dataDhcp /\ cq'.rxData = cq.rxData
      BY <1>3 DEF DhcpKept, ClientFifos
    <2> QED
      BY <1>1, <1>3, <2>1, DhcpFrame
  <1>7. PortInv'
    <2>1. cq.openOut = <<>> /\ cq.replyIn = <<>>
      BY <1>1 DEF PortInv, PortBusy
    <2>2. Len(cq'.openOut) = 1 /\ cq'.openOut[1] = x /\ cq'.replyIn = <<>>
      <3>1. Len(cq.openOut) = 0
        BY <2>1, EmptySeq
      <3>2. Len(cq'.openOut) = Len(cq.openOut) + 1 /\ cq'.openOut[Len(cq.openOut) + 1] = x
        BY <1>2, <1>3, AppendIs
      <3>3. cq'.replyIn = cq.replyIn
        BY <1>3 DEF ClientFifos
      <3> QED
        BY <2>1, <3>1, <3>2, <3>3
    <2>3. Len(cq'.openOut) + Len(cq'.replyIn) = 1
      BY <2>2, EmptySeq
    <2>4. \A j \in DOMAIN cq'.openDhcp : cq'.openDhcp[j] = "dhcp"
      <3>1. CASE f = "openDhcp"
        <4>1. \A j \in DOMAIN cq[f] : cq[f][j] = "dhcp"
          BY <1>1, <3>1 DEF PortInv
        <4>2. \A j \in DOMAIN Tail(cq[f]) : Tail(cq[f])[j] = "dhcp"
          BY <1>2, <1>3, <4>1, TailAll
        <4> QED
          BY <1>3, <3>1, <4>2
      <3>2. CASE f # "openDhcp"
        BY <1>1, <1>3, <3>2 DEF PortInv, ClientFifos
      <3> QED
        BY <3>1, <3>2
    <2>5. \A j \in DOMAIN cq'.openApp : cq'.openApp[j] = "app"
      <3>1. CASE f = "openApp"
        <4>1. \A j \in DOMAIN cq[f] : cq[f][j] = "app"
          BY <1>1, <3>1 DEF PortInv
        <4>2. \A j \in DOMAIN Tail(cq[f]) : Tail(cq[f])[j] = "app"
          BY <1>2, <1>3, <4>1, TailAll
        <4> QED
          BY <1>3, <3>1, <4>2
      <3>2. CASE f # "openApp"
        BY <1>1, <1>3, <3>2 DEF PortInv, ClientFifos
      <3> QED
        BY <3>1, <3>2
    <2>6. cq'.replyApp = cq.replyApp /\ cq'.replyDhcp = cq.replyDhcp /\ cq'.portOpen = cq.portOpen
      BY <1>3 DEF ClientFifos
    <2> QED
      BY <1>1, <1>2, <2>2, <2>3, <2>4, <2>5, <2>6 DEF PortInv
  <1> QED
    BY <1>4, <1>5, <1>6, <1>7, PartsInv

LEMMA AnswerPasses ==
  ASSUME ClientsTypeOK, NEW b \in {"replyDhcp", "replyApp"}, cq.replyIn # <<>>, ClientCalls({"replyIn"}, To(b, Head(cq.replyIn)))
  PROVE  /\ dgrams' = dgrams /\ cq' = [g \in ClientFifos |-> cq'[g]]
         /\ \A g \in ClientFifos \ {"replyIn", b} : cq'[g] = cq[g]
         /\ cq'["replyIn"] = Tail(cq["replyIn"])
         /\ \A g \in ClientFifos : cq'[g] \in Seq(FifoType(g))
  <1> DEFINE x == Head(cq.replyIn)
             p == To(b, x)
  <1>1. /\ x \in FifoType(b) /\ cq.replyIn \in Seq(FifoType("replyIn")) /\ {"replyIn", b} \subseteq ClientFifos
        /\ Len(cq.replyIn) \in Nat \ {0} /\ Len(Tail(cq.replyIn)) = Len(cq.replyIn) - 1
        /\ Tail(cq.replyIn) \in Seq(FifoType("replyIn"))
    <2>1. /\ "replyIn" \in ClientFifos /\ cq.replyIn \in Seq(FifoType("replyIn")) /\ b \in ClientFifos
          /\ FifoType(b) = FifoType("replyIn")
      BY FifoIs DEF ClientFifos, FifoType
    <2>2. /\ x \in FifoType("replyIn") /\ Len(cq.replyIn) \in Nat \ {0} /\ Len(Tail(cq.replyIn)) = Len(cq.replyIn) - 1
          /\ Tail(cq.replyIn) \in Seq(FifoType("replyIn"))
      BY <2>1, TailIs
    <2> QED
      BY <2>1, <2>2
  <1>2. /\ dgrams' = dgrams /\ cq' = [g \in ClientFifos |-> cq'[g]]
        /\ \A g \in ClientFifos \ {"replyIn", b} : cq'[g] = cq[g]
        /\ cq["replyIn"] # <<>> /\ cq'["replyIn"] = Tail(cq["replyIn"]) /\ cq'[b] = cq[b] \o <<x>>
        /\ \A g \in ClientFifos : cq'[g] \in Seq(FifoType(g))
    <2>1. /\ DOMAIN p = {b} /\ p[b] = <<x>> /\ b # "replyIn" /\ ClientCalls({"replyIn"}, p)
          /\ "replyIn" \in ClientFifos /\ b \in ClientFifos
      BY <1>1 DEF To
    <2> HIDE DEF p, x
    <2>2. x \in FifoType(b)
      BY <1>1
    <2> QED
      BY <2>1, <2>2, CallPass
  <1> QED
    BY <1>2

\* The answer goes to the client that asked.
LEMMA PortAnswers ==
  ASSUME ClientsInv, NEW b \in {"replyDhcp", "replyApp"}, b = IF muxPort.source = "dhcp" THEN "replyDhcp" ELSE "replyApp",
         PortBusy, cq.replyIn # <<>>, ClientCalls({"replyIn"}, To(b, Head(cq.replyIn))),
         muxPort' = [muxPort EXCEPT !.busy = FALSE],
         UNCHANGED <<muxRx, rxShim, opened, odp, rm, dhcp, dhcpEnable, toggles, asked>>
  PROVE  ClientsInv'
  <1>1. ClientsTypeOK /\ StreamInv /\ PortInv /\ DhcpInv /\ AddressGranted
    BY InvParts
  <1>2. /\ cq.replyIn \in Seq(FifoType("replyIn")) /\ Len(cq.replyIn) \in Nat \ {0} /\ Len(Tail(cq.replyIn)) = Len(cq.replyIn) - 1
        /\ Tail(cq.replyIn) \in Seq(FifoType("replyIn"))
    <2>1. cq.replyIn \in Seq(FifoType("replyIn"))
      BY <1>1, FifoIs DEF ClientFifos
    <2> QED
      BY <2>1, TailIs
  <1>3. /\ dgrams' = dgrams /\ cq' = [g \in ClientFifos |-> cq'[g]]
        /\ \A g \in ClientFifos \ {"replyIn", b} : cq'[g] = cq[g]
        /\ cq'["replyIn"] = Tail(cq["replyIn"])
        /\ \A g \in ClientFifos : cq'[g] \in Seq(FifoType(g))
    BY <1>1, AnswerPasses
  <1>4. ClientsTypeOK'
    BY <1>1, <1>3 DEF ClientsTypeOK
  <1>5. StreamInv'
    <2>1. StreamKept
      BY <1>3 DEF StreamKept, ClientFifos
    <2> QED
      BY <1>1, <2>1, StreamFrame
  <1>6. DhcpInv' /\ AddressGranted'
    <2>1. DhcpKept /\ cq'.replyMeta = cq.replyMeta /\ cq'.dataDhcp = cq.dataDhcp /\ cq'.rxData = cq.rxData
      BY <1>3 DEF DhcpKept, ClientFifos
    <2> QED
      BY <1>1, <1>3, <2>1, DhcpFrame
  <1>7. PortInv'
    <2>1. cq.openOut \in Seq(FifoType("openOut"))
      BY <1>1, FifoIs DEF ClientFifos
    <2>2. Len(cq.openOut) \in Nat /\ Len(cq.replyIn) \in Nat /\ Len(cq.openOut) + Len(cq.replyIn) = 1
      BY <1>1, <1>2, <2>1, LenProperties DEF PortInv, PortBusy
    <2>3. Len(cq.openOut) = 0 /\ Len(cq.replyIn) = 1
      BY <1>2, <2>2, OneOfTwo
    <2>4. cq.openOut = <<>> /\ Tail(cq.replyIn) = <<>>
      <3>1. Len(Tail(cq.replyIn)) = 0
        BY <1>2, <2>3
      <3> QED
        BY <1>2, <2>1, <2>3, <3>1, NoneLeft
    <2>5. cq'.openOut = <<>> /\ cq'.replyIn = <<>> /\ ~ muxPort'.busy /\ muxPort'.source = muxPort.source
      BY <1>1, <1>3, <2>4 DEF ClientFifos, ClientsTypeOK
    <2>6. muxPort.source \in opened
      BY <1>1 DEF PortInv
    <2>7. cq'.openDhcp = cq.openDhcp /\ cq'.openApp = cq.openApp /\ cq'.portOpen = cq.portOpen
      BY <1>3 DEF ClientFifos
    <2>8. CASE b = "replyDhcp"
      <3>1. muxPort.source = "dhcp" /\ cq'.replyApp = cq.replyApp
        BY <1>3, <2>8 DEF ClientFifos
      <3> QED
        BY <1>1, <2>5, <2>6, <2>7, <3>1 DEF PortInv
    <2>9. CASE b # "replyDhcp"
      <3>1. muxPort.source = "app" /\ cq'.replyDhcp = cq.replyDhcp
        BY <1>1, <1>3, <2>9 DEF ClientFifos, ClientsTypeOK, Ports
      <3> QED
        BY <1>1, <2>5, <2>6, <2>7, <3>1 DEF PortInv
    <2> QED
      BY <2>8, <2>9
  <1> QED
    BY <1>4, <1>5, <1>6, <1>7, PartsInv

LEMMA PortPathStep ==
  ASSUME ClientsInv, appMuxPortPath
  PROVE  ClientsInv'
  <1>1. UNCHANGED <<muxRx, rxShim, opened, odp, rm, dhcp, dhcpEnable, toggles, asked>>
    BY DEF appMuxPortPath, DhcpKeeps
  <1>2. ClientsTypeOK
    BY InvParts
  <1>3. CASE ~ PortBusy
    <2>1. PICK a \in {"dhcp", "app"} :
            LET f == IF a = "dhcp" THEN "openDhcp" ELSE "openApp"
            IN cq[f] # <<>> /\ ClientCalls({f}, [openOut |-> <<Head(cq[f])>>]) /\ muxPort' = [busy |-> TRUE, source |-> a]
      BY <1>3 DEF appMuxPortPath, PortBusy
    <2> DEFINE f == IF a = "dhcp" THEN "openDhcp" ELSE "openApp"
    <2>2. f \in {"openDhcp", "openApp"} /\ a \in Ports
      BY DEF Ports
    <2>3. cq[f] # <<>> /\ ClientCalls({f}, [openOut |-> <<Head(cq[f])>>]) /\ muxPort' = [busy |-> TRUE, source |-> a]
      BY <2>1
    <2>4. f = IF a = "dhcp" THEN "openDhcp" ELSE "openApp"
      OBVIOUS
    <2> HIDE DEF f
    <2> QED
      BY <1>1, <1>3, <2>2, <2>3, <2>4, PortAsks
  <1>4. CASE PortBusy
    <2> DEFINE b == IF muxPort.source = "dhcp" THEN "replyDhcp" ELSE "replyApp"
    <2>1. /\ cq.replyIn # <<>> /\ ClientCalls({"replyIn"}, To(b, Head(cq.replyIn)))
          /\ muxPort' = [muxPort EXCEPT !.busy = FALSE]
      BY <1>4 DEF appMuxPortPath, PortBusy
    <2>2. b \in {"replyDhcp", "replyApp"} /\ b = IF muxPort.source = "dhcp" THEN "replyDhcp" ELSE "replyApp"
      OBVIOUS
    <2> HIDE DEF b
    <2> QED
      BY <1>1, <1>4, <2>1, <2>2, PortAnswers
  <1> QED
    BY <1>3, <1>4

LEMMA ToggleStep ==
  ASSUME ClientsInv, Toggle
  PROVE  ClientsInv'
  <1>1. ClientsTypeOK /\ StreamInv /\ PortInv /\ DhcpInv /\ AddressGranted
    BY InvParts
  <1>2. UNCHANGED <<dgrams, cq, muxRx, muxPort, rxShim, odp, rm, dhcp, opened, asked>>
    BY DEF Toggle
  <1>3. ClientsTypeOK'
    BY <1>1, <1>2 DEF ClientsTypeOK
  <1>4. StreamKept /\ PortKept /\ DhcpKept
    BY <1>2 DEF StreamKept, PortKept, DhcpKept
  <1> QED
    BY <1>1, <1>2, <1>3, <1>4, StreamFrame, PortFrame, DhcpFrame, PartsInv

LEMMA OpenDhcpStep ==
  ASSUME ClientsInv, open_dhcp_port
  PROVE  ClientsInv'
  <1>1. ClientsTypeOK /\ StreamInv /\ PortInv /\ DhcpInv /\ AddressGranted
    BY InvParts
  <1>2. UNCHANGED <<muxRx, muxPort, rxShim, opened, dhcpEnable, toggles, rm, dhcp, asked>>
    BY DEF open_dhcp_port, MuxKeeps
  <1>3. CASE UNCHANGED <<cq, dgrams>>
    <2>1. ClientsTypeOK'
      BY <1>1, <1>2, <1>3 DEF ClientsTypeOK
    <2>2. StreamKept /\ PortKept /\ DhcpKept
      BY <1>2, <1>3 DEF StreamKept, PortKept, DhcpKept
    <2> QED
      BY <1>1, <1>2, <1>3, <2>1, <2>2, StreamFrame, PortFrame, DhcpFrame, PartsInv
  <1>4. CASE ClientCalls({}, [openDhcp |-> <<"dhcp">>])
    <2> DEFINE p == [openDhcp |-> <<"dhcp">>]
    <2>1. /\ DOMAIN p = {"openDhcp"} /\ p["openDhcp"] = <<"dhcp">> /\ "openDhcp" \in ClientFifos /\ "dhcp" \in FifoType("openDhcp")
          /\ ClientCalls({}, p)
      BY <1>4 DEF ClientFifos, FifoType, Ports
    <2> HIDE DEF p
    <2>2. /\ dgrams' = dgrams /\ cq' = [f \in ClientFifos |-> cq'[f]]
          /\ \A f \in ClientFifos \ {"openDhcp"} : cq'[f] = cq[f]
          /\ cq'["openDhcp"] = cq["openDhcp"] \o <<"dhcp">>
          /\ \A f \in ClientFifos : cq'[f] \in Seq(FifoType(f))
      BY <1>1, <2>1, CallPut
    <2>3. ClientsTypeOK'
      BY <1>1, <1>2, <2>2 DEF ClientsTypeOK
    <2>4. StreamKept /\ DhcpKept /\ cq'.replyMeta = cq.replyMeta /\ cq'.dataDhcp = cq.dataDhcp /\ cq'.rxData = cq.rxData
      BY <1>2, <2>2 DEF StreamKept, DhcpKept, ClientFifos
    <2>5. \A j \in DOMAIN cq'.openDhcp : cq'.openDhcp[j] = "dhcp"
      <3>1. cq.openDhcp \in Seq(FifoType("openDhcp")) /\ cq'.openDhcp \in Seq(FifoType("openDhcp"))
        BY <1>1, <2>1, <2>2, FifoIs
      <3>2. /\ Len(cq'.openDhcp) = Len(cq.openDhcp) + 1 /\ Len(cq.openDhcp) \in Nat
            /\ \A i \in 1 .. Len(cq.openDhcp) : cq'.openDhcp[i] = cq.openDhcp[i]
            /\ cq'.openDhcp[Len(cq.openDhcp) + 1] = "dhcp"
        BY <2>1, <2>2, <3>1, AppendIs
      <3>3. DOMAIN cq'.openDhcp = 1 .. Len(cq'.openDhcp) /\ DOMAIN cq.openDhcp = 1 .. Len(cq.openDhcp)
        BY <3>1, NoneLeft
      <3>4. \A i \in 1 .. Len(cq.openDhcp) : cq.openDhcp[i] = "dhcp"
        BY <1>1, <3>3 DEF PortInv
      <3> QED
        BY <3>2, <3>3, <3>4
    <2>6. \A f \in {"openOut", "replyIn", "openApp", "replyApp", "replyDhcp", "portOpen"} : cq'[f] = cq[f]
      BY <2>2 DEF ClientFifos
    <2>7. PortInv'
      BY <1>1, <1>2, <2>5, <2>6 DEF PortInv
    <2> QED
      BY <1>1, <1>2, <2>2, <2>3, <2>4, <2>7, StreamFrame, DhcpFrame, PartsInv
  <1>5. CASE cq.replyDhcp # <<>> /\ ClientCalls({"replyDhcp"}, [portOpen |-> <<TRUE>>])
    <2> DEFINE p == [portOpen |-> <<TRUE>>]
    <2>1. /\ DOMAIN p = {"portOpen"} /\ p["portOpen"] = <<TRUE>> /\ "portOpen" \in ClientFifos /\ TRUE \in FifoType("portOpen")
          /\ ClientCalls({"replyDhcp"}, p) /\ "replyDhcp" \in ClientFifos /\ "replyDhcp" # "portOpen"
      BY <1>5 DEF ClientFifos, FifoType
    <2> HIDE DEF p
    <2>2. /\ dgrams' = dgrams /\ cq' = [f \in ClientFifos |-> cq'[f]]
          /\ \A f \in ClientFifos \ {"replyDhcp", "portOpen"} : cq'[f] = cq[f]
          /\ \A f \in ClientFifos : cq'[f] \in Seq(FifoType(f))
      BY <1>1, <2>1, CallPass
    <2>3. ClientsTypeOK'
      BY <1>1, <1>2, <2>2 DEF ClientsTypeOK
    <2>4. StreamKept /\ DhcpKept /\ cq'.replyMeta = cq.replyMeta /\ cq'.dataDhcp = cq.dataDhcp /\ cq'.rxData = cq.rxData
      BY <1>2, <2>2 DEF StreamKept, DhcpKept, ClientFifos
    <2>5. \A f \in {"openOut", "replyIn", "openApp", "replyApp", "openDhcp"} : cq'[f] = cq[f]
      BY <2>2 DEF ClientFifos
    <2>6. "dhcp" \in opened
      BY <1>1, <1>5 DEF PortInv
    <2>7. PortInv'
      BY <1>1, <1>2, <2>5, <2>6 DEF PortInv
    <2> QED
      BY <1>1, <1>2, <2>2, <2>3, <2>4, <2>7, StreamFrame, DhcpFrame, PartsInv
  <1> QED
    BY <1>3, <1>4, <1>5 DEF open_dhcp_port

-----------------------------------------------------------------------------
(* The DHCP client.                                                        *)

LEMMA Modulo ==
  ASSUME NEW n \in Nat \ {0}, NEW k \in Nat
  PROVE  k % n \in 0 .. n - 1 /\ (k < n => k % n = k)
  OBVIOUS

LEMMA CollectTyped ==
  ASSUME ClientsTypeOK, NEW w, Real(w)
  PROVE  Collect(w) \in RmStates /\ dgrams[w.p] \in Datagrams
  <1>1. dgrams[w.p] \in Datagrams
    BY DEF Real, ClientsTypeOK
  <1>2. dgrams[w.p].msg \in ContentsSet /\ dgrams[w.p].beyond \in ContentsSet /\ rm \in RmStates
    BY <1>1 DEF Datagrams, ClientsTypeOK
  <1> DEFINE m == IF w.k < Len(Layout) THEN dgrams[w.p].msg ELSE dgrams[w.p].beyond
             L == Layout[rm.count + 1]
  <1>3. m \in ContentsSet
    BY <1>2
  <1>4. Collect(w) = [rm EXCEPT !.reply = IF "id" \in L THEN m.reply ELSE rm.reply,
                                !.id = IF "id" \in L THEN m.id ELSE rm.id,
                                !.ip = IF "ip" \in L THEN m.ip ELSE rm.ip,
                                !.mac = ("id" \in L \/ rm.mac) /\ ("mac" \in L => m.mac),
                                !.isDHCP = IF "cookie" \in L THEN m.cookie ELSE rm.isDHCP,
                                !.type = IF "type" \in L /\ m.type # "none" THEN m.type ELSE rm.type]
    BY DEF Collect
  <1> HIDE DEF m, L
  <1> QED
    BY <1>1, <1>2, <1>3, <1>4 DEF RmStates, ContentsSet

\* Reading one more word of a message that is no longer than the word count goes.
LEMMA CollectFits ==
  ASSUME ClientsTypeOK, NEW w \in Words, Real(w), dgrams[w.p].port = "dhcp", dgrams[w.p].words <= Len(Layout),
         ReadUpTo(w.p, w.k)
  PROVE  Fits(Collect(w), dgrams[w.p].msg, w.k + 1) /\ rm.count = w.k /\ w.k + 1 <= dgrams[w.p].words
  <1> DEFINE m == dgrams[w.p].msg
             k == w.k
             r == Collect(w)
  <1>1. dgrams[w.p] \in Datagrams
    BY DEF Real, ClientsTypeOK
  <1>2. m \in ContentsSet /\ dgrams[w.p].words \in Nat \ {0} /\ rm \in RmStates
    BY <1>1 DEF Datagrams, ClientsTypeOK
  <1>3. k \in Nat /\ k + 1 <= dgrams[w.p].words
    BY <1>2 DEF Real, Words
  <1>4. rm.count = k /\ (k > 0 => Fits(rm, m, k))
    BY <1>3 DEF ReadUpTo, Inside
  <1>5. Len(Layout) \in Nat /\ k < Len(Layout) /\ k + 1 \in 1 .. Len(Layout)
    <2>1. Len(Layout) \in Nat
      BY ClientAssumption, LenProperties
    <2> QED
      BY <1>2, <1>3, <2>1
  <1>6. "id" \in Layout[k + 1] <=> k = 0
    BY <1>3, <1>5, ClientAssumption
  <1> DEFINE L == Layout[k + 1]
  <1>7. r = [rm EXCEPT !.reply = IF "id" \in L THEN m.reply ELSE rm.reply,
                       !.id = IF "id" \in L THEN m.id ELSE rm.id,
                       !.ip = IF "ip" \in L THEN m.ip ELSE rm.ip,
                       !.mac = ("id" \in L \/ rm.mac) /\ ("mac" \in L => m.mac),
                       !.isDHCP = IF "cookie" \in L THEN m.cookie ELSE rm.isDHCP,
                       !.type = IF "type" \in L /\ m.type # "none" THEN m.type ELSE rm.type]
    BY <1>4, <1>5 DEF Collect
  <1> HIDE DEF m, r, L
  <1>8. /\ r.reply = (IF "id" \in L THEN m.reply ELSE rm.reply) /\ r.id = (IF "id" \in L THEN m.id ELSE rm.id)
        /\ r.ip = (IF "ip" \in L THEN m.ip ELSE rm.ip)
        /\ r.mac = (("id" \in L \/ rm.mac) /\ ("mac" \in L => m.mac))
        /\ r.isDHCP = (IF "cookie" \in L THEN m.cookie ELSE rm.isDHCP)
        /\ r.type = (IF "type" \in L /\ m.type # "none" THEN m.type ELSE rm.type)
    BY <1>2, <1>7 DEF RmStates
  <1>9. r.reply = m.reply /\ r.id = m.id
    BY <1>3, <1>4, <1>6, <1>8 DEF L, Fits
  <1>10. ASSUME NEW i \in 1 .. k + 1
         PROVE  /\ "ip" \in Layout[i] => r.ip = m.ip
                /\ "mac" \in Layout[i] /\ r.mac => m.mac
                /\ "cookie" \in Layout[i] /\ r.isDHCP => m.cookie
                /\ "type" \in Layout[i] /\ m.type # "none" => r.type = m.type
    <2>1. CASE i = k + 1
      BY <1>8, <2>1 DEF L
    <2>2. CASE i # k + 1
      <3>1. k > 0 /\ i \in 1 .. k
        BY <1>3, <2>2
      <3>2. /\ "ip" \in Layout[i] => rm.ip = m.ip
            /\ "mac" \in Layout[i] /\ rm.mac => m.mac
            /\ "cookie" \in Layout[i] /\ rm.isDHCP => m.cookie
            /\ "type" \in Layout[i] /\ m.type # "none" => rm.type = m.type
        BY <1>4, <3>1 DEF Fits
      <3>3. "id" \notin L
        BY <1>6, <3>1 DEF L
      <3> QED
        BY <1>8, <3>2, <3>3
    <2> QED
      BY <2>1, <2>2
  <1> QED
    BY <1>3, <1>4, <1>9, <1>10 DEF Fits, m, r

\* What is passed on behind the last word of such a message was received.
LEMMA MessageSaid ==
  ASSUME ClientsTypeOK, Proper, NEW w \in Words, Real(w), dgrams[w.p].port = "dhcp", w.last,
         NEW r, Fits(r, dgrams[w.p].msg, w.k + 1), ForMe(r)
  PROVE  Said(Message(r.id, r.type, r.ip))
  <1> DEFINE m == dgrams[w.p].msg
             n == dgrams[w.p].words
  <1>1. w.p \in DOMAIN dgrams /\ w.k + 1 = n
    <2>1. ASSUME w.k + 1 # n PROVE FALSE
      <3>1. (w.k + 1 = n) = FALSE
        BY <2>1
      <3>2. w = Word(w.p, w.k, 8, FALSE)
        BY <3>1 DEF Real
      <3> QED
        BY <3>2 DEF Word
    <2> QED
      BY <2>1 DEF Real
  <1>2. \A field \in {"ip", "mac", "cookie", "type"} : \E i \in 1 .. n : field \in Layout[i]
    BY <1>1 DEF Proper
  <1>3. m.cookie => m.type # "none"
    BY <1>1 DEF Proper
  <1>4. r.reply /\ r.mac /\ r.isDHCP
    BY DEF ForMe
  <1>5. /\ r.reply = m.reply /\ r.id = m.id
        /\ \A i \in 1 .. n : /\ "ip" \in Layout[i] => r.ip = m.ip
                             /\ "mac" \in Layout[i] /\ r.mac => m.mac
                             /\ "cookie" \in Layout[i] /\ r.isDHCP => m.cookie
                             /\ "type" \in Layout[i] /\ m.type # "none" => r.type = m.type
    BY <1>1 DEF Fits
  <1>6. r.ip = m.ip /\ m.mac /\ m.cookie
    BY <1>2, <1>4, <1>5
  <1>7. r.type = m.type
    BY <1>2, <1>3, <1>5, <1>6
  <1>8. ToMe(w.p, r.id, r.type) /\ dgrams[w.p].msg.ip = r.ip
    BY <1>4, <1>5, <1>6, <1>7 DEF ToMe
  <1> QED
    BY <1>1, <1>8 DEF Said, Message

\* The first of the words under way is read.
LEMMA WordRead ==
  ASSUME ClientsTypeOK, Proper, dgrams' = dgrams, NEW data \in Seq(Words), data # <<>>, NEW w, w = Head(data), NEW rest, rest = Tail(data),
         Real(w), dgrams[w.p].port = "dhcp", NEW p, NEW k, DataJoin(data, p, k),
         rm' = [Collect(w) EXCEPT !.count = IF w.last THEN 0 ELSE (rm.count + 1) % Len(Layout)]
  PROVE  DataJoin(rest, p, k)' /\ Fits(Collect(w), dgrams[w.p].msg, w.k + 1)
  <1>1. /\ w = data[1] /\ w \in Words /\ Tail(data) \in Seq(Words) /\ Len(data) \in Nat \ {0} /\ Len(Tail(data)) = Len(data) - 1
        /\ \A i \in 1 .. Len(data) - 1 : Tail(data)[i] = data[i + 1]
    BY TailIs
  <1>2. dgrams[w.p].words <= Len(Layout)
    BY DEF Proper, Real
  <1>3. Fits(Collect(w), dgrams[w.p].msg, w.k + 1) /\ rm.count = w.k /\ w.k + 1 <= dgrams[w.p].words
    BY <1>1, <1>2, CollectFits DEF DataJoin
  <1>4. w.k \in Nat /\ w.last \in BOOLEAN /\ dgrams[w.p].words \in Nat /\ Len(Layout) \in Nat \ {0}
    <2>1. dgrams[w.p].words \in Nat
      BY CollectTyped DEF Datagrams
    <2>2. Len(Layout) \in Nat \ {0}
      BY ClientAssumption, LenProperties, EmptySeq
    <2> QED
      BY <1>1, <2>1, <2>2 DEF Words
  <1>5. Collect(w) \in RmStates
    BY CollectTyped
  <1>6. rm'.count = IF w.last THEN 0 ELSE (w.k + 1) % Len(Layout)
    BY <1>3, <1>5 DEF RmStates
  <1>7. \A m, i : Fits(Collect(w), m, i) => Fits(rm', m, i)
    BY <1>5 DEF Fits, RmStates
  <1>8. ASSUME NEW q, NEW i, Then(w, q, i) PROVE ReadUpTo(q, i)'
    <2>1. CASE w.last
      <3>1. ~ Inside(q, i) /\ rm'.count = 0
        BY <1>6, <1>8, <2>1 DEF Then
      <3> QED
        BY <3>1 DEF ReadUpTo, Inside
    <2>2. CASE ~ w.last
      <3>1. Inside(q, i) /\ w.p = q /\ i = w.k + 1
        BY <1>8, <2>2 DEF Then
      <3>2. w.k + 1 # dgrams[w.p].words
        BY <1>1, <2>2 DEF Real, Word, Words
      <3>3. w.k + 1 < Len(Layout)
        BY <1>2, <1>3, <1>4, <3>2
      <3>4. rm'.count = w.k + 1
        <4>1. w.k + 1 \in Nat
          BY <1>4
        <4>2. (w.k + 1) % Len(Layout) = w.k + 1
          BY <1>4, <3>3, <4>1, Modulo, Zenon
        <4> QED
          BY <1>6, <2>2, <4>2
      <3>5. i = w.k + 1
        BY <3>1
      <3>6. Fits(rm', dgrams[q].msg, i)
        BY <1>3, <1>7, <3>1, <3>5
      <3> QED
        BY <3>1, <3>4, <3>5, <3>6 DEF ReadUpTo, Inside, Fits
    <2> QED
      BY <1>4, <2>1, <2>2
  <1>9. \A x, q, i : Then(x, q, i)' <=> Then(x, q, i)
    BY DEF Then, Inside
  <1>10. rest = <<>> <=> Len(data) = 1
    <2>1. rest = <<>> <=> Len(rest) = 0
      BY <1>1, EmptySeq
    <2> QED
      BY <1>1, <2>1
  <1>11. ASSUME NEW j \in 1 .. Len(rest) - 1 PROVE Then(rest[j], rest[j + 1].p, rest[j + 1].k)'
    <2>1. j \in 1 .. Len(data) - 1 /\ j + 1 \in 1 .. Len(data) - 1
      BY <1>1, <1>11
    <2>2. rest[j] = data[j + 1] /\ rest[j + 1] = data[(j + 1) + 1]
      BY <1>1, <2>1
    <2>3. Then(data[j + 1], data[(j + 1) + 1].p, data[(j + 1) + 1].k)
      BY <2>1 DEF DataJoin
    <2> QED
      BY <1>9, <2>2, <2>3
  <1>12. CASE Len(data) = 1
    <2>1. rest = <<>> /\ Then(w, p, k)
      BY <1>1, <1>10, <1>12 DEF DataJoin
    <2>2. ReadUpTo(p, k)'
      BY <1>8, <2>1
    <2> QED
      BY <1>3, <1>11, <2>1, <2>2 DEF DataJoin
  <1>13. CASE Len(data) # 1
    <2>1. rest # <<>> /\ 1 \in 1 .. Len(data) - 1 /\ Len(rest) \in 1 .. Len(data) - 1
      BY <1>1, <1>10, <1>13
    <2>2. rest[1] = data[1 + 1] /\ rest[Len(rest)] = data[Len(data)]
      BY <1>1, <2>1
    <2>3. Then(w, rest[1].p, rest[1].k) /\ Then(rest[Len(rest)], p, k)
      BY <1>1, <2>1, <2>2 DEF DataJoin
    <2>4. ReadUpTo(rest[1].p, rest[1].k)' /\ Then(rest[Len(rest)], p, k)'
      BY <1>8, <1>9, <2>3
    <2> QED
      BY <1>3, <1>11, <2>1, <2>4 DEF DataJoin
  <1> QED
    BY <1>12, <1>13

LEMMA ReceiveMessageStep ==
  ASSUME ClientsInv, receive_message
  PROVE  ClientsInv'
  <1>1. ClientsTypeOK /\ StreamInv /\ PortInv /\ DhcpInv /\ AddressGranted
    BY InvParts
  <1> DEFINE take == cq.dataDhcp # <<>>
             w == Head(cq.dataDhcp)
             r == Collect(w)
             x == Message(r.id, r.type, r.ip)
             put == take /\ w.last /\ ForMe(r)
             ins == (IF take THEN {"dataDhcp"} ELSE {}) \cup (IF cq.metaDhcp # <<>> THEN {"metaDhcp"} ELSE {})
             p == Only(put, [replyMeta |-> <<x>>])
  <1>2. /\ ClientCalls(ins, p) /\ UNCHANGED <<odp, dhcp, asked, muxRx, muxPort, rxShim, opened, dhcpEnable, toggles>>
        /\ rm' = IF take THEN [r EXCEPT !.count = IF w.last THEN 0 ELSE (rm.count + 1) % Len(Layout)] ELSE rm
    BY DEF receive_message, MuxKeeps
  <1>3. cq.dataDhcp \in Seq(Words) /\ cq.replyMeta \in Seq(Messages)
    BY <1>1, FifoIs DEF ClientFifos, FifoType
  <1>4. take => w \in Words /\ Real(w) /\ dgrams[w.p].port = "dhcp" /\ x \in Messages /\ r \in RmStates
    <2> SUFFICES ASSUME take PROVE w \in Words /\ Real(w) /\ dgrams[w.p].port = "dhcp" /\ x \in Messages /\ r \in RmStates
      OBVIOUS
    <2>1. w = cq.dataDhcp[1] /\ 1 \in DOMAIN cq.dataDhcp /\ w \in Words
      BY <1>3, TailIs
    <2>2. Real(w) /\ dgrams[w.p].port = "dhcp"
      BY <1>1, <2>1 DEF DhcpInv
    <2>3. r \in RmStates
      BY <1>1, <2>2, CollectTyped
    <2> HIDE DEF r
    <2>4. x \in Messages
      BY <2>3 DEF RmStates, Messages, Message
    <2> QED
      BY <2>1, <2>2, <2>3, <2>4
  <1>5. ins \subseteq {"dataDhcp", "metaDhcp"} /\ DOMAIN p \subseteq {"replyMeta"} /\ ins \cap DOMAIN p = {} /\ ("dataDhcp" \in ins <=> take)
    BY DEF Only, Nothing
  <1>6. "replyMeta" \in DOMAIN p => put /\ p["replyMeta"] = <<x>>
    BY DEF Only, Nothing
  <1>7. put => take /\ w.last /\ ForMe(r)
    OBVIOUS
  <1> HIDE DEF p, ins, x, r, put
  <1>8. /\ dgrams' = dgrams /\ cq' = [f \in ClientFifos |-> cq'[f]]
        /\ \A f \in ClientFifos \ {"dataDhcp", "metaDhcp", "replyMeta"} : cq'[f] = cq[f]
        /\ cq'.dataDhcp = IF take THEN Tail(cq.dataDhcp) ELSE cq.dataDhcp
        /\ cq'.replyMeta = cq.replyMeta \/ (put /\ cq'.replyMeta = cq.replyMeta \o <<x>>)
    <2>1. /\ dgrams' = dgrams /\ cq' = [f \in ClientFifos |-> cq'[f]]
          /\ \A f \in ClientFifos : f \notin ins /\ f \notin DOMAIN p => cq'[f] = cq[f]
          /\ \A f \in ClientFifos : f \in ins /\ f \notin DOMAIN p => cq[f] # <<>> /\ cq'[f] = Tail(cq[f])
          /\ \A f \in ClientFifos : f \notin ins /\ f \in DOMAIN p => cq'[f] = cq[f] \o p[f]
      BY <1>1, <1>2, CallIs
    <2>2. {"dataDhcp", "replyMeta"} \subseteq ClientFifos
      BY DEF ClientFifos
    <2>3. cq'["replyMeta"] = cq["replyMeta"] \/ (put /\ cq'["replyMeta"] = cq["replyMeta"] \o <<x>>)
      BY <1>5, <1>6, <2>1, <2>2
    <2>4. cq'["dataDhcp"] = IF take THEN Tail(cq["dataDhcp"]) ELSE cq["dataDhcp"]
      BY <1>5, <2>1, <2>2
    <2>5. \A f \in ClientFifos \ {"dataDhcp", "metaDhcp", "replyMeta"} : cq'[f] = cq[f]
      BY <1>5, <2>1
    <2> QED
      BY <2>1, <2>3, <2>4, <2>5
  <1>9. \A f \in ClientFifos : cq'[f] \in Seq(FifoType(f))
    <2>1. \A f \in DOMAIN p : \E y \in FifoType(f) : p[f] = <<y>>
      <3>1. FifoType("replyMeta") = Messages
        BY DEF FifoType
      <3> QED
        BY <1>4, <1>5, <1>6, <1>7, <3>1
    <2> QED
      BY <1>1, <1>2, <1>5, <2>1, CallTyped
  <1>10. rm' \in RmStates
    <2>1. Len(Layout) \in Nat \ {0}
      BY ClientAssumption, LenProperties, EmptySeq
    <2>2. rm \in RmStates /\ rm.count + 1 \in Nat
      BY <1>1 DEF ClientsTypeOK, RmStates
    <2>3. (rm.count + 1) % Len(Layout) \in 0 .. Len(Layout) - 1 /\ 0 \in 0 .. Len(Layout) - 1
      <3>1. (rm.count + 1) % Len(Layout) \in 0 .. Len(Layout) - 1
        BY <2>1, <2>2, Modulo, Zenon
      <3> QED
        BY <2>1, <3>1
    <2>4. ASSUME NEW c \in 0 .. Len(Layout) - 1, NEW t \in RmStates PROVE [t EXCEPT !.count = c] \in RmStates
      BY DEF RmStates
    <2> QED
      BY <1>2, <1>4, <2>2, <2>3, <2>4
  <1>11. ClientsTypeOK'
    BY <1>1, <1>2, <1>8, <1>9, <1>10 DEF ClientsTypeOK
  <1>12. StreamInv' /\ PortInv'
    <2>1. StreamKept /\ PortKept
      BY <1>2, <1>8 DEF StreamKept, PortKept, ClientFifos
    <2> QED
      BY <1>1, <1>2, <2>1, StreamFrame, PortFrame
  <1>13. AtDgram' = AtDgram /\ AtWord' = AtWord
    BY <1>8 DEF AtDgram, AtWord, ClientFifos
  <1>14. \A j \in DOMAIN cq'.dataDhcp : Real(cq'.dataDhcp[j]) /\ dgrams[cq'.dataDhcp[j].p].port = "dhcp"
    <2>1. CASE ~ take
      BY <1>1, <1>8, <2>1 DEF DhcpInv
    <2>2. CASE take
      <3>1. cq.dataDhcp \in Seq(Words)
        BY <1>3
      <3>2. /\ Tail(cq.dataDhcp) \in Seq(Words) /\ Len(cq.dataDhcp) \in Nat \ {0} /\ Len(Tail(cq.dataDhcp)) = Len(cq.dataDhcp) - 1
            /\ \A i \in 1 .. Len(cq.dataDhcp) - 1 : Tail(cq.dataDhcp)[i] = cq.dataDhcp[i + 1]
        BY <2>2, <3>1, TailIs
      <3>3. DOMAIN Tail(cq.dataDhcp) = 1 .. Len(cq.dataDhcp) - 1 /\ DOMAIN cq.dataDhcp = 1 .. Len(cq.dataDhcp)
        BY <3>1, <3>2, NoneLeft
      <3>4. ASSUME NEW j \in 1 .. Len(cq.dataDhcp) - 1
            PROVE  Real(cq.dataDhcp[j + 1]) /\ dgrams[cq.dataDhcp[j + 1].p].port = "dhcp"
        <4>1. j + 1 \in DOMAIN cq.dataDhcp
          BY <3>2, <3>3
        <4> QED
          BY <1>1, <4>1 DEF DhcpInv
      <3> QED
        BY <1>8, <2>2, <3>2, <3>3, <3>4
    <2> QED
      BY <2>1, <2>2
  <1>15. ASSUME Proper, take
         PROVE  DataJoin(cq.dataDhcp, AtDgram, AtWord)' /\ Fits(r, dgrams[w.p].msg, w.k + 1)
    <2>1. DataJoin(cq.dataDhcp, AtDgram, AtWord)
      BY <1>1, <1>15 DEF DhcpInv
    <2>2. rm' = [Collect(w) EXCEPT !.count = IF w.last THEN 0 ELSE (rm.count + 1) % Len(Layout)]
      BY <1>2, <1>15 DEF r
    <2>3. ASSUME NEW d \in Seq(Words), d # <<>>, w = Head(d), NEW t, t = Tail(d), NEW q, NEW k, DataJoin(d, q, k)
          PROVE  DataJoin(t, q, k)' /\ Fits(Collect(w), dgrams[w.p].msg, w.k + 1)
      BY <1>1, <1>4, <1>8, <1>15, <2>2, <2>3, WordRead
    <2>4. cq'.dataDhcp = Tail(cq.dataDhcp)
      BY <1>8, <1>15
    <2> QED
      BY <1>3, <1>13, <1>15, <2>1, <2>3, <2>4 DEF r
  <1>16. ASSUME Proper PROVE \A j \in DOMAIN cq'.replyMeta : Said(cq'.replyMeta[j])
    <2>1. CASE cq'.replyMeta = cq.replyMeta
      BY <1>1, <1>16, <2>1 DEF DhcpInv
    <2>2. CASE put /\ cq'.replyMeta = cq.replyMeta \o <<x>>
      <3>1. x \in Messages /\ Said(x)
        BY <1>1, <1>4, <1>7, <1>15, <1>16, <2>2, MessageSaid DEF x
      <3>2. /\ cq'.replyMeta \in Seq(Messages) /\ Len(cq'.replyMeta) = Len(cq.replyMeta) + 1 /\ Len(cq.replyMeta) \in Nat
            /\ \A i \in 1 .. Len(cq.replyMeta) : cq'.replyMeta[i] = cq.replyMeta[i]
            /\ cq'.replyMeta[Len(cq.replyMeta) + 1] = x
        BY <1>3, <2>2, <3>1, AppendIs
      <3>3. DOMAIN cq'.replyMeta = 1 .. Len(cq.replyMeta) + 1 /\ DOMAIN cq.replyMeta = 1 .. Len(cq.replyMeta)
        BY <1>3, <3>2, NoneLeft
      <3>4. \A j \in 1 .. Len(cq.replyMeta) : Said(cq.replyMeta[j])
        BY <1>1, <1>16, <3>3 DEF DhcpInv
      <3> QED
        BY <3>1, <3>2, <3>3, <3>4
    <2> QED
      BY <1>8, <2>1, <2>2
  <1>17. ASSUME Proper PROVE DataJoin(cq.dataDhcp, AtDgram, AtWord)'
    <2>1. CASE take
      BY <1>15, <1>17, <2>1
    <2>2. CASE ~ take
      <3>1. DataJoin(cq.dataDhcp, AtDgram, AtWord) /\ rm' = rm /\ cq'.dataDhcp = cq.dataDhcp
        BY <1>1, <1>2, <1>8, <1>17, <2>2 DEF DhcpInv
      <3> QED
        BY <1>8, <1>13, <3>1, DataJoinKept
    <2> QED
      BY <2>1, <2>2
  <1>18. DhcpInv'
    <2>1. \A j \in DOMAIN cq'.dataDhcp : Real(cq.dataDhcp[j])' /\ dgrams'[cq'.dataDhcp[j].p].port = "dhcp"
      BY <1>8, <1>14 DEF Real
    <2>2. ASSUME Proper'
          PROVE  /\ \A j \in DOMAIN cq'.replyMeta : Said(cq.replyMeta[j])'
                 /\ dhcp'.st = "REQUESTING" => Said(Message(dhcp.id, "OFFER", dhcp.buffer))'
      <3>1. Proper /\ \A m : Said(m) => Said(m)'
        BY <1>8, <2>2, SaidKept
      <3>2. dhcp.st = "REQUESTING" => Said(Message(dhcp.id, "OFFER", dhcp.buffer))
        BY <1>1, <3>1 DEF DhcpInv
      <3> QED
        BY <1>2, <1>16, <3>1, <3>2 DEF Message
    <2>3. Proper' => Proper
      BY <1>8, SaidKept
    <2> QED
      BY <1>1, <1>2, <1>17, <2>1, <2>2, <2>3 DEF DhcpInv
  <1>19. AddressGranted'
    BY <1>1, <1>2, <1>8, SaidKept DEF AddressGranted
  <1> QED
    BY <1>11, <1>12, <1>18, <1>19, PartsInv

\* Of the answers at most the first is taken, and the words under way stay.
AnswersStayed ==
  /\ dgrams' = dgrams
  /\ \A j \in DOMAIN cq'.dataDhcp : Real(cq.dataDhcp[j])' /\ dgrams'[cq'.dataDhcp[j].p].port = "dhcp"
  /\ Proper => (\A j \in DOMAIN cq'.replyMeta : Said(cq'.replyMeta[j])) /\ DataJoin(cq.dataDhcp, AtDgram, AtWord)'

LEMMA AnswersStay ==
  ASSUME ClientsTypeOK, DhcpInv, UNCHANGED <<dgrams, rm>>, cq'.dataDhcp = cq.dataDhcp, cq'.rxData = cq.rxData,
         cq'.replyMeta = cq.replyMeta \/ (cq.replyMeta # <<>> /\ cq'.replyMeta = Tail(cq.replyMeta))
  PROVE  AnswersStayed
  <1>1. ASSUME Proper PROVE \A j \in DOMAIN cq'.replyMeta : Said(cq'.replyMeta[j])
    <2>1. CASE cq'.replyMeta = cq.replyMeta
      BY <1>1, <2>1 DEF DhcpInv
    <2>2. CASE cq.replyMeta # <<>> /\ cq'.replyMeta = Tail(cq.replyMeta)
      <3>1. cq.replyMeta \in Seq(Messages)
        BY FifoIs DEF ClientFifos, FifoType
      <3>2. /\ Tail(cq.replyMeta) \in Seq(Messages) /\ Len(cq.replyMeta) \in Nat \ {0} /\ Len(Tail(cq.replyMeta)) = Len(cq.replyMeta) - 1
            /\ \A i \in 1 .. Len(cq.replyMeta) - 1 : Tail(cq.replyMeta)[i] = cq.replyMeta[i + 1]
        BY <2>2, <3>1, TailIs
      <3>3. DOMAIN Tail(cq.replyMeta) = 1 .. Len(cq.replyMeta) - 1 /\ DOMAIN cq.replyMeta = 1 .. Len(cq.replyMeta)
        BY <3>1, <3>2, NoneLeft
      <3>4. ASSUME NEW j \in 1 .. Len(cq.replyMeta) - 1 PROVE Said(cq.replyMeta[j + 1])
        <4>1. j + 1 \in DOMAIN cq.replyMeta
          BY <3>2, <3>3
        <4> QED
          BY <1>1, <4>1 DEF DhcpInv
      <3> QED
        BY <2>2, <3>2, <3>3, <3>4
    <2> QED
      BY <2>1, <2>2
  <1>2. ASSUME Proper PROVE DataJoin(cq.dataDhcp, AtDgram, AtWord)'
    <2>1. AtDgram' = AtDgram /\ AtWord' = AtWord
      BY DEF AtDgram, AtWord
    <2>2. DataJoin(cq.dataDhcp, AtDgram, AtWord)
      BY <1>2 DEF DhcpInv
    <2> QED
      BY <2>1, <2>2, DataJoinKept
  <1>3. \A j \in DOMAIN cq'.dataDhcp : Real(cq.dataDhcp[j])' /\ dgrams'[cq'.dataDhcp[j].p].port = "dhcp"
    BY DEF DhcpInv, Real
  <1> QED
    BY <1>1, <1>2, <1>3 DEF AnswersStayed

LEMMA FsmDone ==
  ASSUME AnswersStayed, dhcp'.st \in {"SELECTING", "REQUESTING"} => dhcp'.id \in 1 .. MaxTries,
         Proper /\ dhcp'.st = "REQUESTING" => Said(Message(dhcp'.id, "OFFER", dhcp'.buffer))
  PROVE  DhcpInv'
  <1>1. (Proper' <=> Proper) /\ \A m : Said(m)' <=> Said(m)
    BY SaidKept DEF AnswersStayed
  <1>2. ASSUME Proper' PROVE \A j \in DOMAIN cq'.replyMeta : Said(cq.replyMeta[j])'
    BY <1>1, <1>2 DEF AnswersStayed
  <1>3. ASSUME Proper', dhcp'.st = "REQUESTING" PROVE Said(Message(dhcp.id, "OFFER", dhcp.buffer))'
    BY <1>1, <1>3 DEF Message
  <1> QED
    BY <1>1, <1>2, <1>3 DEF DhcpInv, AnswersStayed

\* The address stays, or becomes the static one.
LEMMA AddressStays ==
  ASSUME AddressGranted, dgrams' = dgrams, dhcp'.st = "BOUND" => dhcp.st = "BOUND" /\ dhcp'.id = dhcp.id /\ dhcp'.ip = dhcp.ip,
         dhcp'.out = dhcp.ip, dhcp'.ip \in {Static, dhcp.ip}
  PROVE  AddressGranted'
  BY SaidKept DEF AddressGranted

\* The client waits, or gives up.
LEMMA FsmWaits ==
  ASSUME DhcpInv, AddressGranted, AnswersStayed, NEW st, NEW ip,
         dhcp'.id = dhcp.id, dhcp'.buffer = dhcp.buffer, dhcp'.st = st, dhcp'.out = dhcp.ip, dhcp'.ip = ip,
         st \in {"INIT", "PORT_WAIT"} \/ (st = dhcp.st /\ ip = dhcp.ip), ip \in {Static, dhcp.ip}
  PROVE  DhcpInv' /\ AddressGranted'
  <1>1. DhcpInv'
    BY FsmDone DEF DhcpInv
  <1>2. AddressGranted'
    BY AddressStays DEF AnswersStayed
  <1> QED
    BY <1>1, <1>2

\* A new transaction.
LEMMA FsmDiscovers ==
  ASSUME ClientsTypeOK, AddressGranted, AnswersStayed, dhcp.next <= MaxTries,
         dhcp' = [dhcp EXCEPT !.st = "SELECTING", !.out = dhcp.ip, !.ip = Static, !.id = dhcp.next, !.next = @ + 1, !.time = TIME_5S]
  PROVE  DhcpInv' /\ AddressGranted'
  <1>1. dhcp'.id = dhcp.next /\ dhcp'.st = "SELECTING" /\ dhcp'.out = dhcp.ip /\ dhcp'.ip = Static /\ dhcp.next \in Nat \ {0}
    BY DEF ClientsTypeOK, DhcpStates
  <1>2. dhcp.next \in 1 .. MaxTries
    BY <1>1, ClientAssumption
  <1>3. DhcpInv'
    BY <1>1, <1>2, FsmDone
  <1>4. AddressGranted'
    BY <1>1, AddressStays DEF AnswersStayed
  <1> QED
    BY <1>3, <1>4

\* An offer: the address is remembered and asked for.
LEMMA FsmRequests ==
  ASSUME DhcpInv, AddressGranted, AnswersStayed, dhcp.st = "SELECTING", NEW r \in Messages, Proper => Said(r),
         r.id = dhcp.id, r.type = "OFFER",
         dhcp'.id = dhcp.id, dhcp'.st = "REQUESTING", dhcp'.buffer = r.ip, dhcp'.out = dhcp.ip, dhcp'.ip = dhcp.ip
  PROVE  DhcpInv' /\ AddressGranted'
  <1>1. r = Message(dhcp.id, "OFFER", r.ip)
    BY DEF Messages, Message
  <1>2. DhcpInv'
    BY <1>1, FsmDone DEF DhcpInv
  <1>3. AddressGranted'
    BY AddressStays DEF AnswersStayed
  <1> QED
    BY <1>2, <1>3

\* An acknowledgement of this transaction, in which the address was offered.
LEMMA FsmBinds ==
  ASSUME DhcpInv, AddressGranted, AnswersStayed, dhcp.st = "REQUESTING", NEW r \in Messages, Proper => Said(r),
         r.id = dhcp.id, r.type = "ACK",
         dhcp'.id = dhcp.id, dhcp'.st = "BOUND", dhcp'.out = dhcp.ip, dhcp'.ip = dhcp.buffer
  PROVE  DhcpInv' /\ AddressGranted'
  <1>1. DhcpInv'
    BY FsmDone
  <1>2. ASSUME Proper PROVE Granted(dhcp.id, dhcp.buffer) /\ dhcp.id \in 1 .. MaxTries
    <2>1. Said(Message(dhcp.id, "OFFER", dhcp.buffer)) /\ Said(r) /\ dhcp.id \in 1 .. MaxTries
      BY <1>2 DEF DhcpInv
    <2>2. \E p \in DOMAIN dgrams : ToMe(p, dhcp.id, "OFFER") /\ dgrams[p].msg.ip = dhcp.buffer
      BY <2>1 DEF Said, Message
    <2>3. \E p \in DOMAIN dgrams : ToMe(p, dhcp.id, "ACK")
      BY <2>1 DEF Said
    <2> QED
      BY <2>1, <2>2, <2>3 DEF Granted
  <1>3. AddressGranted'
    <2>1. (Proper' <=> Proper) /\ \A id, a : Granted(id, a)' <=> Granted(id, a)
      BY SaidKept DEF AnswersStayed
    <2> QED
      BY <1>2, <2>1 DEF AddressGranted
  <1> QED
    BY <1>1, <1>3

\* What every call of dhcp_fsm leaves alone.
LEMMA FsmKeeps ==
  ASSUME ClientsTypeOK, StreamInv, PortInv, DhcpInv, UNCHANGED <<muxRx, muxPort, rxShim, opened, rm>>,
         asked' \in SUBSET Messages, dhcp' \in DhcpStates,
         "dhcp" \in opened \/ (UNCHANGED cq /\ dhcp'.st = dhcp.st),
         UNCHANGED <<cq, dgrams>> \/ \E a \in {"portOpen", "replyMeta"} : ClientCalls({a}, Nothing)
  PROVE  ClientsTypeOK' /\ StreamInv' /\ PortInv' /\ AnswersStayed
  <1>1. CASE UNCHANGED <<cq, dgrams>>
    <2>1. ClientsTypeOK'
      BY <1>1 DEF ClientsTypeOK
    <2>2. StreamKept
      BY <1>1 DEF StreamKept
    <2>3. StreamInv'
      BY <2>2, StreamFrame
    <2>4. PortInv'
      BY <1>1 DEF PortInv
    <2>5. AnswersStayed
      BY <1>1, AnswersStay
    <2> QED
      BY <2>1, <2>3, <2>4, <2>5
  <1>2. CASE \E a \in {"portOpen", "replyMeta"} : ClientCalls({a}, Nothing)
    <2>1. PICK a \in {"portOpen", "replyMeta"} : ClientCalls({a}, Nothing)
      BY <1>2
    <2>2. a \in ClientFifos
      BY DEF ClientFifos
    <2>3. /\ dgrams' = dgrams /\ cq' = [f \in ClientFifos |-> cq'[f]]
          /\ \A f \in ClientFifos \ {a} : cq'[f] = cq[f]
          /\ cq[a] # <<>> /\ cq'[a] = Tail(cq[a])
          /\ \A f \in ClientFifos : cq'[f] \in Seq(FifoType(f))
      BY <2>1, <2>2, CallTake
    <2>4. ClientsTypeOK'
      BY <2>3 DEF ClientsTypeOK
    <2>5. StreamKept
      BY <2>3 DEF StreamKept, ClientFifos
    <2>6. StreamInv'
      BY <2>5, StreamFrame
    <2>7. PortInv'
      <3>1. CASE "dhcp" \in opened
        <4>1. \A f \in {"openOut", "replyIn", "openApp", "replyApp", "openDhcp", "replyDhcp"} : cq'[f] = cq[f]
          BY <2>3 DEF ClientFifos
        <4> QED
          BY <3>1, <4>1 DEF PortInv
      <3>2. CASE UNCHANGED cq /\ dhcp'.st = dhcp.st
        BY <3>2 DEF PortInv
      <3> QED
        BY <3>1, <3>2
    <2>8. AnswersStayed
      <3>1. cq'.dataDhcp = cq.dataDhcp /\ cq'.rxData = cq.rxData
        BY <2>3 DEF ClientFifos
      <3>2. cq'.replyMeta = cq.replyMeta \/ (cq.replyMeta # <<>> /\ cq'.replyMeta = Tail(cq.replyMeta))
        BY <2>3 DEF ClientFifos
      <3> QED
        BY <2>3, <3>1, <3>2, AnswersStay
    <2> QED
      BY <2>4, <2>6, <2>7, <2>8
  <1> QED
    BY <1>1, <1>2

LEMMA FsmFields ==
  ASSUME ClientsTypeOK, NEW st, NEW e, Fsm(st, e)
  PROVE  /\ dhcp'.id = dhcp.id /\ dhcp'.next = dhcp.next /\ dhcp'.st = st /\ dhcp'.out = dhcp.ip
         /\ dhcp'.ip = e.ip /\ dhcp'.buffer = e.buffer
         /\ (/\ st \in {"PORT_WAIT", "INIT", "SELECTING", "REQUESTING", "BOUND"} /\ e.ip \in AllAddresses
             /\ e.buffer \in AllAddresses /\ e.time \in Int) => dhcp' \in DhcpStates
  BY DEF Fsm, ClientsTypeOK, DhcpStates

LEMMA DhcpFsmStep ==
  ASSUME ClientsInv, dhcp_fsm
  PROVE  ClientsInv'
  <1>1. ClientsTypeOK /\ StreamInv /\ PortInv /\ DhcpInv /\ AddressGranted
    BY InvParts
  <1>2. UNCHANGED <<muxRx, muxPort, rxShim, opened, rm>>
    BY DEF dhcp_fsm, MuxKeeps
  <1>3. /\ Static \in AllAddresses /\ dhcp.ip \in AllAddresses /\ dhcp.buffer \in AllAddresses /\ dhcp.time \in Int
        /\ dhcp.next \in Nat \ {0} /\ dhcp.id \in Nat /\ asked \in SUBSET Messages /\ dhcp \in DhcpStates
    BY <1>1 DEF ClientsTypeOK, DhcpStates, AllAddresses
  <1>4. dhcp.st # "PORT_WAIT" \/ cq.portOpen # <<>> => "dhcp" \in opened
    BY <1>1 DEF PortInv
  \* A call that only waits, gives up or starts again.
  <1>5. ASSUME NEW st \in {"PORT_WAIT", "INIT", "SELECTING", "REQUESTING", "BOUND"}, NEW e, Fsm(st, e), e.buffer = dhcp.buffer, e.time \in Int,
               e.ip \in {Static, dhcp.ip}, st \in {"INIT", "PORT_WAIT"} \/ (st = dhcp.st /\ e.ip = dhcp.ip), asked' = asked,
               "dhcp" \in opened \/ (UNCHANGED cq /\ st = dhcp.st),
               UNCHANGED <<cq, dgrams>> \/ \E a \in {"portOpen", "replyMeta"} : ClientCalls({a}, Nothing)
        PROVE  ClientsInv'
    <2>1. /\ dhcp'.id = dhcp.id /\ dhcp'.next = dhcp.next /\ dhcp'.st = st /\ dhcp'.out = dhcp.ip
          /\ dhcp'.ip = e.ip /\ dhcp'.buffer = dhcp.buffer /\ dhcp' \in DhcpStates
      BY <1>1, <1>3, <1>5, FsmFields
    <2>2. asked' \in SUBSET Messages
      BY <1>3, <1>5
    <2>3. ClientsTypeOK' /\ StreamInv' /\ PortInv' /\ AnswersStayed
      BY <1>1, <1>2, <1>5, <2>1, <2>2, FsmKeeps
    <2>4. DhcpInv' /\ AddressGranted'
      BY <1>1, <1>5, <2>1, <2>3, FsmWaits
    <2> QED
      BY <2>3, <2>4, PartsInv
  <1>6. CASE /\ dhcp.st = "PORT_WAIT" /\ cq.portOpen # <<>> /\ ClientCalls({"portOpen"}, Nothing)
             /\ Fsm("INIT", [dhcp EXCEPT !.ip = Static]) /\ UNCHANGED asked
    <2> DEFINE e == [dhcp EXCEPT !.ip = Static]
    <2>1. e.buffer = dhcp.buffer /\ e.time \in Int /\ e.ip = Static /\ Fsm("INIT", e)
      BY <1>3, <1>6 DEF DhcpStates
    <2> HIDE DEF e
    <2> QED
      BY <1>4, <1>5, <1>6, <2>1
  <1>12. CASE /\ dhcp.st = "PORT_WAIT" /\ cq.portOpen = <<>>
              /\ Fsm("PORT_WAIT", [dhcp EXCEPT !.ip = Static]) /\ UNCHANGED <<cq, dgrams, asked>>
    <2> DEFINE e == [dhcp EXCEPT !.ip = Static]
    <2>1. e.buffer = dhcp.buffer /\ e.time \in Int /\ e.ip = Static /\ Fsm("PORT_WAIT", e)
      BY <1>3, <1>12 DEF DhcpStates
    <2> HIDE DEF e
    <2> QED
      BY <1>5, <1>12, <2>1
  <1>7. CASE /\ dhcp.st = "INIT" /\ (~dhcpEnable \/ dhcp.time > 0)
             /\ Fsm("INIT", [dhcp EXCEPT !.ip = Static, !.time = IF dhcpEnable THEN @ - 1 ELSE @]) /\ UNCHANGED <<cq, dgrams, asked>>
    <2> DEFINE e == [dhcp EXCEPT !.ip = Static, !.time = IF dhcpEnable THEN @ - 1 ELSE @]
    <2>1. e.buffer = dhcp.buffer /\ e.time \in Int /\ e.ip = Static /\ Fsm("INIT", e)
      BY <1>3, <1>7 DEF DhcpStates
    <2> HIDE DEF e
    <2> QED
      BY <1>4, <1>5, <1>7, <2>1
  <1>8. CASE /\ dhcp.st = "INIT" /\ dhcpEnable /\ dhcp.time = 0 /\ dhcp.next <= MaxTries
             /\ dhcp' = [dhcp EXCEPT !.st = "SELECTING", !.out = dhcp.ip, !.ip = Static, !.id = dhcp.next, !.next = @ + 1, !.time = TIME_5S]
             /\ Answers(Message(dhcp.next, "DISCOVER", Static)) /\ UNCHANGED <<cq, dgrams>>
    <2>1. dhcp' \in DhcpStates
      <3>1. dhcp' = [dhcp EXCEPT !.st = "SELECTING", !.out = dhcp.ip, !.ip = Static, !.id = dhcp.next, !.next = dhcp.next + 1, !.time = TIME_5S]
        BY <1>8
      <3>2. TIME_5S \in Int /\ dhcp.next + 1 \in Nat \ {0} /\ dhcp.next \in Nat
        BY <1>3, ClientAssumption
      <3> QED
        BY <1>3, <3>1, <3>2 DEF DhcpStates
    <2>2. asked' = asked \cup {Message(dhcp.next, "DISCOVER", Static)} /\ asked' \in SUBSET Messages
      BY <1>3, <1>8 DEF Answers, Message, Messages, AllTypes
    <2>3. ClientsTypeOK' /\ StreamInv' /\ PortInv' /\ AnswersStayed
      BY <1>1, <1>2, <1>4, <1>8, <2>1, <2>2, FsmKeeps
    <2>4. DhcpInv' /\ AddressGranted'
      BY <1>1, <1>8, <2>3, FsmDiscovers
    <2> QED
      BY <2>3, <2>4, PartsInv
  <1>9. CASE dhcp.st \in {"SELECTING", "REQUESTING"} /\ cq.replyMeta = <<>> /\ Wait /\ UNCHANGED <<cq, dgrams, asked>>
    <2>1. CASE dhcp.time = 0
      <3>1. Fsm("INIT", dhcp)
        BY <1>9, <2>1 DEF Wait
      <3> QED
        BY <1>3, <1>4, <1>5, <1>9, <3>1
    <2>2. CASE dhcp.time # 0
      <3> DEFINE e == [dhcp EXCEPT !.time = @ - 1]
      <3>1. e.buffer = dhcp.buffer /\ e.time \in Int /\ e.ip = dhcp.ip /\ Fsm(dhcp.st, e)
        BY <1>3, <1>9, <2>2 DEF DhcpStates, Wait
      <3> HIDE DEF e
      <3> QED
        BY <1>4, <1>5, <1>9, <3>1
    <2> QED
      BY <2>1, <2>2
  <1>10. CASE /\ dhcp.st \in {"SELECTING", "REQUESTING"} /\ cq.replyMeta # <<>> /\ ClientCalls({"replyMeta"}, Nothing)
              /\ LET reply == Head(cq.replyMeta)
                 IN \/ ~Mine(reply) /\ Fsm(dhcp.st, dhcp) /\ UNCHANGED asked
                    \/ /\ Mine(reply) /\ dhcp.st = "SELECTING" /\ reply.type = "OFFER"
                       /\ Fsm("REQUESTING", [dhcp EXCEPT !.buffer = reply.ip, !.time = TIME_5S])
                       /\ Answers(Message(dhcp.id, "REQUEST", reply.ip))
                    \/ /\ Mine(reply) /\ dhcp.st = "REQUESTING" /\ reply.type = "ACK"
                       /\ Fsm("BOUND", [dhcp EXCEPT !.ip = dhcp.buffer]) /\ UNCHANGED asked
                    \/ /\ Mine(reply) /\ <<dhcp.st, reply.type>> \notin {<<"SELECTING", "OFFER">>, <<"REQUESTING", "ACK">>}
                       /\ Fsm("INIT", dhcp) /\ UNCHANGED asked
    <2> DEFINE reply == Head(cq.replyMeta)
    <2>1. reply \in Messages /\ (Proper => Said(reply))
      <3>1. cq.replyMeta \in Seq(Messages)
        BY <1>1, FifoIs DEF ClientFifos, FifoType
      <3>2. reply = cq.replyMeta[1] /\ reply \in Messages /\ 1 \in DOMAIN cq.replyMeta
        BY <1>10, <3>1, TailIs
      <3> QED
        BY <1>1, <3>2 DEF DhcpInv
    <2> HIDE DEF reply
    <2>2. "dhcp" \in opened /\ \E a \in {"portOpen", "replyMeta"} : ClientCalls({a}, Nothing)
      BY <1>4, <1>10
    <2>3. CASE Fsm(dhcp.st, dhcp) /\ UNCHANGED asked
      BY <1>3, <1>5, <1>10, <2>2, <2>3
    <2>4. CASE /\ Mine(reply) /\ dhcp.st = "SELECTING" /\ reply.type = "OFFER"
               /\ Fsm("REQUESTING", [dhcp EXCEPT !.buffer = reply.ip, !.time = TIME_5S])
               /\ Answers(Message(dhcp.id, "REQUEST", reply.ip))
      <3> DEFINE e == [dhcp EXCEPT !.buffer = reply.ip, !.time = TIME_5S]
      <3>1. e.ip = dhcp.ip /\ e.buffer = reply.ip /\ e.time \in Int /\ e.buffer \in AllAddresses /\ Fsm("REQUESTING", e)
        BY <1>3, <2>1, <2>4, ClientAssumption DEF DhcpStates, Messages
      <3> HIDE DEF e
      <3>2. /\ dhcp'.id = dhcp.id /\ dhcp'.next = dhcp.next /\ dhcp'.st = "REQUESTING" /\ dhcp'.out = dhcp.ip
            /\ dhcp'.ip = dhcp.ip /\ dhcp'.buffer = reply.ip /\ dhcp' \in DhcpStates
        BY <1>1, <1>3, <3>1, FsmFields
      <3>3. asked' = asked \cup {Message(dhcp.id, "REQUEST", reply.ip)} /\ asked' \in SUBSET Messages
        BY <1>3, <2>1, <2>4 DEF Answers, Message, Messages, AllTypes
      <3>4. ClientsTypeOK' /\ StreamInv' /\ PortInv' /\ AnswersStayed
        BY <1>1, <1>2, <2>2, <3>2, <3>3, FsmKeeps
      <3>5. DhcpInv' /\ AddressGranted'
        BY <1>1, <2>1, <2>4, <3>2, <3>4, FsmRequests DEF Mine
      <3> QED
        BY <3>4, <3>5, PartsInv
    <2>5. CASE /\ Mine(reply) /\ dhcp.st = "REQUESTING" /\ reply.type = "ACK"
               /\ Fsm("BOUND", [dhcp EXCEPT !.ip = dhcp.buffer]) /\ UNCHANGED asked
      <3> DEFINE e == [dhcp EXCEPT !.ip = dhcp.buffer]
      <3>1. e.ip = dhcp.buffer /\ e.buffer = dhcp.buffer /\ e.time \in Int /\ Fsm("BOUND", e)
        BY <1>3, <2>5 DEF DhcpStates
      <3> HIDE DEF e
      <3>2. /\ dhcp'.id = dhcp.id /\ dhcp'.next = dhcp.next /\ dhcp'.st = "BOUND" /\ dhcp'.out = dhcp.ip
            /\ dhcp'.ip = dhcp.buffer /\ dhcp' \in DhcpStates
        BY <1>1, <1>3, <3>1, FsmFields
      <3>3. asked' \in SUBSET Messages
        BY <1>3, <2>5
      <3>4. ClientsTypeOK' /\ StreamInv' /\ PortInv' /\ AnswersStayed
        BY <1>1, <1>2, <2>2, <3>2, <3>3, FsmKeeps
      <3>5. reply.id = dhcp.id
        BY <2>5 DEF Mine
      <3>6. DhcpInv' /\ AddressGranted'
        BY <1>1, <2>1, <2>5, <3>2, <3>4, <3>5, FsmBinds
      <3> QED
        BY <3>4, <3>6, PartsInv
    <2>6. CASE Fsm("INIT", dhcp) /\ UNCHANGED asked
      BY <1>3, <1>5, <2>2, <2>6
    <2> QED
      BY <1>10, <2>3, <2>4, <2>5, <2>6 DEF reply
  <1>11. CASE /\ dhcp.st = "BOUND"
              /\ IF cq.replyMeta # <<>> THEN ClientCalls({"replyMeta"}, Nothing) ELSE UNCHANGED <<cq, dgrams>>
              /\ Fsm(IF dhcpEnable THEN "BOUND" ELSE "INIT", dhcp) /\ UNCHANGED asked
    <2> DEFINE st == IF dhcpEnable THEN "BOUND" ELSE "INIT"
    <2>1. st \in {"INIT", "BOUND"} /\ Fsm(st, dhcp)
      BY <1>11
    <2> HIDE DEF st
    <2>2. UNCHANGED <<cq, dgrams>> \/ \E a \in {"portOpen", "replyMeta"} : ClientCalls({a}, Nothing)
      BY <1>11
    <2> QED
      BY <1>3, <1>4, <1>5, <1>11, <2>1, <2>2
  <1> QED
    BY <1>6, <1>12, <1>7, <1>8, <1>9, <1>10, <1>11 DEF dhcp_fsm

-----------------------------------------------------------------------------
(* Words and metadata on their way.                                        *)

OutWords == [w : Words, meta : Nat]

\* memcached gets the first of its words under way.
LEMMA WordIsGot ==
  ASSUME ClientsTypeOK, NEW out \in Seq(OutWords), NEW data \in Seq(Words), data # <<>>, NEW p, NEW i,
         WordsJoin(out, data, p, i)
  PROVE  WordsJoin(out \o <<AppWord(data[1].p, data[1].k)>>, Tail(data), p, i)
  <1> DEFINE w == data[1]
             x == AppWord(w.p, w.k)
             out1 == out \o <<x>>
             n1 == Len(out) + 1
  <1>1. /\ w \in Words /\ Len(data) \in Nat \ {0} /\ Tail(data) \in Seq(Words) /\ Len(Tail(data)) = Len(data) - 1
        /\ \A j \in 1 .. Len(data) - 1 : Tail(data)[j] = data[j + 1]
    BY TailIs
  <1>2. DOMAIN data = 1 .. Len(data) /\ DOMAIN Tail(data) = 1 .. Len(data) - 1 /\ (Tail(data) = <<>> <=> Len(data) = 1)
    <2>1. DOMAIN data = 1 .. Len(data) /\ DOMAIN Tail(data) = 1 .. Len(Tail(data)) /\ (Tail(data) = <<>> <=> Len(Tail(data)) = 0)
      BY <1>1, NoneLeft
    <2> QED
      BY <1>1, <2>1
  <1>3. /\ Real(w) /\ dgrams[w.p].port = "app" /\ GotUpTo(out, w.p, w.k)
        /\ w.p \in DOMAIN dgrams /\ w.k \in 0 .. dgrams[w.p].words - 1 /\ w = Word(w.p, w.k, 8, w.k + 1 = dgrams[w.p].words)
    <2>1. 1 \in DOMAIN data
      BY <1>1, <1>2
    <2> QED
      BY <2>1 DEF WordsJoin, Real
  <1>4. x.w = w /\ x = [w |-> w, meta |-> IF w.k = 0 THEN w.p ELSE 0] /\ x \in OutWords
    <2>1. x = [w |-> w, meta |-> IF w.k = 0 THEN w.p ELSE 0]
      BY <1>3 DEF AppWord
    <2>2. w.p \in Nat
      BY <1>1 DEF Words
    <2> HIDE DEF x, w
    <2> QED
      BY <1>1, <2>1, <2>2 DEF OutWords
  <1> HIDE DEF x
  <1>5. /\ out1 \in Seq(OutWords) /\ Len(out1) = n1 /\ Len(out) \in Nat /\ out1 # <<>>
        /\ \A m \in 1 .. Len(out) : out1[m] = out[m]
        /\ out1[n1] = x
    BY <1>4, AppendIs
  <1>6. DOMAIN out1 = 1 .. n1 /\ DOMAIN out = 1 .. Len(out) /\ (out = <<>> <=> Len(out) = 0)
    BY <1>5, NoneLeft
  <1> HIDE DEF out1, n1, w
  <1>7. ASSUME NEW n \in DOMAIN out1 PROVE InPlace(out1, n)
    <2>1. CASE n \in 1 .. Len(out)
      <3>1. InPlace(out, n) /\ out1[n] = out[n]
        BY <1>5, <1>6, <2>1 DEF WordsJoin
      <3>2. n # 1 => out1[n - 1] = out[n - 1]
        BY <1>5, <2>1
      <3> QED
        BY <3>1, <3>2 DEF InPlace
    <2>2. CASE n = n1
      <3>1. out1[n].w = w /\ out1[n] = AppWord(w.p, w.k)
        BY <1>4, <1>5, <2>2 DEF x
      <3>2. CASE n = 1
        <4>1. out = <<>>
          BY <1>5, <1>6, <2>2, <3>2 DEF n1
        <4>2. w.k = 0 /\ NoneBetween(0, w.p)
          BY <1>3, <4>1 DEF GotUpTo
        <4> QED
          BY <1>3, <3>1, <3>2, <4>2 DEF InPlace
      <3>3. CASE n # 1
        <4>1. out # <<>> /\ n - 1 = Len(out) /\ out1[n - 1] = out[Len(out)]
          BY <1>5, <1>6, <2>2, <3>3 DEF n1
        <4>2. Precedes(out1[n - 1].w, w.p, w.k)
          BY <1>3, <4>1 DEF GotUpTo
        <4> QED
          BY <1>3, <3>1, <3>3, <4>2 DEF InPlace
      <3> QED
        BY <3>2, <3>3
    <2> QED
      BY <1>5, <1>6, <2>1, <2>2 DEF n1
  <1>8. \A j \in DOMAIN Tail(data) : Real(Tail(data)[j]) /\ dgrams[Tail(data)[j].p].port = "app"
    <2> SUFFICES ASSUME NEW j \in 1 .. Len(data) - 1 PROVE Real(data[j + 1]) /\ dgrams[data[j + 1].p].port = "app"
      BY <1>1, <1>2
    <2>1. j + 1 \in DOMAIN data
      BY <1>1, <1>2
    <2> QED
      BY <2>1 DEF WordsJoin
  <1>9. ASSUME NEW j \in 1 .. Len(Tail(data)) - 1 PROVE Precedes(Tail(data)[j], Tail(data)[j + 1].p, Tail(data)[j + 1].k)
    <2>1. j + 1 \in 1 .. Len(data) - 1 /\ j \in 1 .. Len(data) - 1
      BY <1>1
    <2>2. Tail(data)[j] = data[j + 1] /\ Tail(data)[j + 1] = data[(j + 1) + 1]
      BY <1>1, <2>1
    <2>3. Precedes(data[j + 1], data[(j + 1) + 1].p, data[(j + 1) + 1].k)
      BY <2>1 DEF WordsJoin
    <2> QED
      BY <2>2, <2>3
  <1>10. \A q, k : GotUpTo(out1, q, k) <=> Precedes(w, q, k)
    BY <1>4, <1>5 DEF GotUpTo
  <1>11. Tail(data) = <<>> => GotUpTo(out1, p, i)
    <2> SUFFICES ASSUME Tail(data) = <<>> PROVE Precedes(w, p, i)
      BY <1>10
    <2>1. data[Len(data)] = w
      BY <1>2 DEF w
    <2> QED
      BY <2>1 DEF WordsJoin
  <1>12. Tail(data) # <<>> => GotUpTo(out1, Tail(data)[1].p, Tail(data)[1].k) /\ Precedes(Tail(data)[Len(Tail(data))], p, i)
    <2> SUFFICES ASSUME Tail(data) # <<>>
                 PROVE  Precedes(w, Tail(data)[1].p, Tail(data)[1].k) /\ Precedes(Tail(data)[Len(Tail(data))], p, i)
      BY <1>10
    <2>1. Len(data) - 1 \in 1 .. Len(data) - 1 /\ 1 \in 1 .. Len(data) - 1
      BY <1>1, <1>2
    <2>2. Tail(data)[1] = data[1 + 1] /\ Tail(data)[Len(Tail(data))] = data[Len(data)]
      BY <1>1, <2>1
    <2>3. Precedes(data[1], data[1 + 1].p, data[1 + 1].k)
      BY <2>1 DEF WordsJoin
    <2> QED
      BY <2>2, <2>3 DEF WordsJoin, w
  <1> QED
    BY <1>7, <1>8, <1>9, <1>11, <1>12 DEF WordsJoin, out1, x, w

\* The multiplexer passes a word w on to memcached, or another one to the DHCP client: the place
\* after it is word i1 of datagram p1.
After(w, p1, i1) == IF w.last THEN p1 = w.p + 1 /\ i1 = 0 ELSE p1 = w.p /\ i1 = w.k + 1

LEMMA WordPasses ==
  ASSUME ClientsTypeOK, NEW out, NEW data \in Seq(Words), NEW w \in Words, Real(w), dgrams[w.p].port = "app",
         WordsJoin(out, data, w.p, w.k), NEW p1, NEW i1, After(w, p1, i1)
  PROVE  WordsJoin(out, data \o <<w>>, p1, i1)
  <1> DEFINE data1 == data \o <<w>>
             n1 == Len(data) + 1
  <1>1. /\ data1 \in Seq(Words) /\ Len(data1) = n1 /\ Len(data) \in Nat /\ data1 # <<>>
        /\ \A m \in 1 .. Len(data) : data1[m] = data[m]
        /\ data1[n1] = w
    BY AppendIs
  <1>2. DOMAIN data1 = 1 .. n1 /\ DOMAIN data = 1 .. Len(data) /\ (data = <<>> <=> Len(data) = 0)
    BY <1>1, NoneLeft
  <1> HIDE DEF data1
  <1>3. Precedes(w, p1, i1)
    <2>1. w.p \in Nat /\ w.k \in Nat /\ w.last \in BOOLEAN
      BY DEF Words
    <2>2. CASE w.last
      <3>1. p1 = w.p + 1 /\ i1 = 0
        BY <2>2 DEF After
      <3> QED
        BY <2>1, <2>2, <3>1 DEF Precedes, NoneBetween
    <2>3. CASE ~ w.last
      <3>1. p1 = w.p /\ i1 = w.k + 1
        BY <2>3 DEF After
      <3> QED
        BY <2>1, <3>1 DEF Precedes
    <2> QED
      BY <2>2, <2>3
  <1>4. \A j \in DOMAIN data1 : Real(data1[j]) /\ dgrams[data1[j].p].port = "app"
    BY <1>1, <1>2 DEF WordsJoin
  <1>5. ASSUME NEW j \in 1 .. Len(data1) - 1 PROVE Precedes(data1[j], data1[j + 1].p, data1[j + 1].k)
    <2>1. CASE j \in 1 .. Len(data) - 1
      <3>1. data1[j] = data[j] /\ data1[j + 1] = data[j + 1]
        BY <1>1, <2>1
      <3> QED
        BY <2>1, <3>1 DEF WordsJoin
    <2>2. CASE j = Len(data)
      <3>1. data1[j] = data[Len(data)] /\ data1[j + 1] = w /\ data # <<>>
        BY <1>1, <1>2, <2>2
      <3> QED
        BY <3>1 DEF WordsJoin
    <2> QED
      BY <1>1, <2>1, <2>2
  <1>6. GotUpTo(out, data1[1].p, data1[1].k)
    <2>1. CASE data = <<>>
      <3>1. data1[1] = w
        BY <1>1, <1>2, <2>1
      <3> QED
        BY <2>1, <3>1 DEF WordsJoin
    <2>2. CASE data # <<>>
      <3>1. data1[1] = data[1]
        BY <1>1, <1>2, <2>2
      <3> QED
        BY <2>2, <3>1 DEF WordsJoin
    <2> QED
      BY <2>1, <2>2
  <1>7. Precedes(data1[Len(data1)], p1, i1)
    BY <1>1, <1>3
  <1>8. \A n \in DOMAIN out : InPlace(out, n)
    BY DEF WordsJoin
  <1> QED
    BY <1>1, <1>4, <1>5, <1>6, <1>7, <1>8 DEF WordsJoin, data1

LEMMA PlaceMoves ==
  ASSUME NEW x, x.p \in Nat, NEW w \in Words, Real(w), dgrams[w.p].port # "app",
         Precedes(x, w.p, w.k), NEW p1, NEW i1, After(w, p1, i1)
  PROVE  Precedes(x, p1, i1)
  <1>1. w.p \in Nat /\ w.k \in Nat /\ w.last \in BOOLEAN
    BY DEF Words
  <1>2. x.last /\ x.p < w.p /\ NoneBetween(x.p, w.p)
    BY DEF Precedes
  <1>3. CASE w.last
    <2>1. p1 = w.p + 1 /\ i1 = 0
      BY <1>3 DEF After
    <2>2. NoneBetween(x.p, p1)
      <3> SUFFICES ASSUME NEW r \in x.p + 1 .. p1 - 1 PROVE dgrams[r].port # "app"
        BY DEF NoneBetween
      <3>1. r = w.p \/ r \in x.p + 1 .. w.p - 1
        BY <1>1, <2>1
      <3> QED
        BY <1>2, <3>1 DEF NoneBetween
    <2>3. x.p < p1
      BY <1>1, <1>2, <2>1
    <2> QED
      BY <1>2, <2>1, <2>2, <2>3 DEF Precedes
  <1>4. CASE ~ w.last
    <2>1. p1 = w.p
      BY <1>4 DEF After
    <2> QED
      BY <1>2, <2>1 DEF Precedes
  <1> QED
    BY <1>3, <1>4

LEMMA OtherWordPasses ==
  ASSUME ClientsTypeOK, NEW out \in Seq(OutWords), NEW data \in Seq(Words), NEW w \in Words, Real(w), dgrams[w.p].port # "app",
         WordsJoin(out, data, w.p, w.k), NEW p1, NEW i1, After(w, p1, i1)
  PROVE  WordsJoin(out, data, p1, i1)
  <1>1. w.p \in Nat /\ w.k \in Nat /\ w.last \in BOOLEAN
    BY DEF Words
  <1>2. data = <<>> => GotUpTo(out, p1, i1)
    <2> SUFFICES ASSUME data = <<>> PROVE GotUpTo(out, p1, i1)
      OBVIOUS
    <2>1. GotUpTo(out, w.p, w.k)
      BY DEF WordsJoin
    <2>2. CASE out = <<>>
      <3>1. NoneBetween(0, w.p)
        BY <2>1, <2>2 DEF GotUpTo
      <3>2. CASE w.last
        <4>1. p1 = w.p + 1 /\ i1 = 0
          BY <3>2 DEF After
        <4>2. NoneBetween(0, p1)
          <5> SUFFICES ASSUME NEW r \in 1 .. p1 - 1 PROVE dgrams[r].port # "app"
            BY DEF NoneBetween
          <5>1. r = w.p \/ r \in 1 .. w.p - 1
            BY <1>1, <4>1
          <5> QED
            BY <3>1, <5>1 DEF NoneBetween
        <4> QED
          BY <2>2, <4>1, <4>2 DEF GotUpTo
      <3>3. CASE ~ w.last
        <4>1. p1 = w.p
          BY <3>3 DEF After
        <4> QED
          BY <2>2, <3>1, <4>1 DEF GotUpTo
      <3> QED
        BY <3>2, <3>3
    <2>3. CASE out # <<>>
      <3>1. Len(out) \in Nat \ {0} /\ out[Len(out)] \in OutWords
        BY <2>3, EmptySeq
      <3>2. out[Len(out)].w.p \in Nat
        BY <3>1 DEF OutWords, Words
      <3>3. Precedes(out[Len(out)].w, w.p, w.k)
        BY <2>1, <2>3 DEF GotUpTo
      <3>4. Precedes(out[Len(out)].w, p1, i1)
        BY <3>2, <3>3, PlaceMoves
      <3> QED
        BY <2>3, <3>4 DEF GotUpTo
    <2> QED
      BY <2>2, <2>3
  <1>3. data # <<>> => Precedes(data[Len(data)], p1, i1)
    <2> SUFFICES ASSUME data # <<>> PROVE Precedes(data[Len(data)], p1, i1)
      OBVIOUS
    <2>1. Len(data) \in Nat \ {0} /\ data[Len(data)] \in Words
      BY EmptySeq
    <2>2. data[Len(data)].p \in Nat
      BY <2>1 DEF Words
    <2>3. Precedes(data[Len(data)], w.p, w.k)
      BY DEF WordsJoin
    <2> QED
      BY <2>2, <2>3, PlaceMoves
  <1> QED
    BY <1>2, <1>3 DEF WordsJoin

\* The metadata of a datagram are passed on to memcached, or to the DHCP client; memcached takes them.
LEMMA MetaPasses ==
  ASSUME NEW got \in Nat, NEW metas \in Seq(Nat), NEW p \in Nat, p \in DOMAIN dgrams, dgrams[p].port = "app", MetaJoin(got, metas, p)
  PROVE  MetaJoin(got, metas \o <<p>>, p + 1)
  <1> DEFINE metas1 == metas \o <<p>>
             n1 == Len(metas) + 1
  <1>1. /\ metas1 \in Seq(Nat) /\ Len(metas1) = n1 /\ Len(metas) \in Nat /\ metas1 # <<>>
        /\ \A m \in 1 .. Len(metas) : metas1[m] = metas[m]
        /\ metas1[n1] = p
    BY AppendIs
  <1>2. DOMAIN metas1 = 1 .. n1 /\ DOMAIN metas = 1 .. Len(metas) /\ (metas = <<>> <=> Len(metas) = 0)
    BY <1>1, NoneLeft
  <1> HIDE DEF metas1
  <1>3. \A j \in DOMAIN metas1 : metas1[j] \in DOMAIN dgrams /\ dgrams[metas1[j]].port = "app"
    BY <1>1, <1>2, SMTT(30) DEF MetaJoin
  <1>4. ASSUME NEW j \in 1 .. Len(metas1) - 1 PROVE metas1[j] < metas1[j + 1] /\ NoneBetween(metas1[j], metas1[j + 1])
    <2>1. CASE j \in 1 .. Len(metas) - 1
      <3>1. metas1[j] = metas[j] /\ metas1[j + 1] = metas[j + 1]
        BY <1>1, <2>1
      <3> QED
        BY <2>1, <3>1 DEF MetaJoin
    <2>2. CASE j = Len(metas)
      <3>1. metas1[j] = metas[Len(metas)] /\ metas1[j + 1] = p /\ metas # <<>>
        BY <1>1, <1>2, <2>2
      <3> QED
        BY <3>1 DEF MetaJoin
    <2> QED
      BY <1>1, <2>1, <2>2
  <1>5. got < metas1[1] /\ NoneBetween(got, metas1[1])
    <2>1. CASE metas = <<>>
      <3>1. metas1[1] = p
        BY <1>1, <1>2, <2>1
      <3> QED
        BY <2>1, <3>1 DEF MetaJoin
    <2>2. CASE metas # <<>>
      <3>1. metas1[1] = metas[1]
        BY <1>1, <1>2, <2>2
      <3> QED
        BY <2>2, <3>1 DEF MetaJoin
    <2> QED
      BY <2>1, <2>2
  <1>6. metas1[Len(metas1)] < p + 1 /\ NoneBetween(metas1[Len(metas1)], p + 1)
    BY <1>1 DEF NoneBetween
  <1> QED
    BY <1>1, <1>3, <1>4, <1>5, <1>6 DEF MetaJoin, metas1

LEMMA OtherMetaPasses ==
  ASSUME NEW got \in Nat, NEW metas \in Seq(Nat), NEW p \in Nat, dgrams[p].port # "app", MetaJoin(got, metas, p)
  PROVE  MetaJoin(got, metas, p + 1)
  <1>1. ASSUME NEW q \in Nat, q < p, NoneBetween(q, p) PROVE q < p + 1 /\ NoneBetween(q, p + 1)
    <2>1. ASSUME NEW r \in q + 1 .. (p + 1) - 1 PROVE dgrams[r].port # "app"
      <3>1. r = p \/ r \in q + 1 .. p - 1
        BY <1>1
      <3> QED
        BY <1>1, <3>1 DEF NoneBetween
    <2>2. q < p + 1
      BY <1>1
    <2> QED
      BY <2>1, <2>2 DEF NoneBetween
  <1>2. metas # <<>> => metas[Len(metas)] \in Nat
    BY EmptySeq
  <1> QED
    BY <1>1, <1>2 DEF MetaJoin

LEMMA MetaIsTaken ==
  ASSUME NEW got \in Nat, NEW metas \in Seq(Nat), NEW p \in Nat, metas # <<>>, MetaJoin(got, metas, p)
  PROVE  MetaJoin(metas[1], Tail(metas), p)
  <1>1. /\ Len(metas) \in Nat \ {0} /\ Tail(metas) \in Seq(Nat) /\ Len(Tail(metas)) = Len(metas) - 1
        /\ \A j \in 1 .. Len(metas) - 1 : Tail(metas)[j] = metas[j + 1]
    BY TailIs
  <1>2. DOMAIN metas = 1 .. Len(metas) /\ DOMAIN Tail(metas) = 1 .. Len(metas) - 1 /\ (Tail(metas) = <<>> <=> Len(metas) = 1)
    <2>1. DOMAIN metas = 1 .. Len(metas) /\ DOMAIN Tail(metas) = 1 .. Len(Tail(metas)) /\ (Tail(metas) = <<>> <=> Len(Tail(metas)) = 0)
      BY <1>1, NoneLeft
    <2> QED
      BY <1>1, <2>1, SMTT(30)
  <1>3. \A j \in DOMAIN Tail(metas) : Tail(metas)[j] \in DOMAIN dgrams /\ dgrams[Tail(metas)[j]].port = "app"
    <2> SUFFICES ASSUME NEW j \in 1 .. Len(metas) - 1 PROVE metas[j + 1] \in DOMAIN dgrams /\ dgrams[metas[j + 1]].port = "app"
      BY <1>1, <1>2
    <2>1. j + 1 \in DOMAIN metas
      BY <1>1, <1>2
    <2> QED
      BY <2>1 DEF MetaJoin
  <1>4. ASSUME NEW j \in 1 .. Len(Tail(metas)) - 1
        PROVE  Tail(metas)[j] < Tail(metas)[j + 1] /\ NoneBetween(Tail(metas)[j], Tail(metas)[j + 1])
    <2>1. j + 1 \in 1 .. Len(metas) - 1 /\ j \in 1 .. Len(metas) - 1
      BY <1>1
    <2>2. Tail(metas)[j] = metas[j + 1] /\ Tail(metas)[j + 1] = metas[(j + 1) + 1]
      BY <1>1, <2>1
    <2>3. metas[j + 1] < metas[(j + 1) + 1] /\ NoneBetween(metas[j + 1], metas[(j + 1) + 1])
      BY <2>1 DEF MetaJoin
    <2> QED
      BY <2>2, <2>3
  <1>5. CASE Tail(metas) = <<>>
    <2>1. metas[Len(metas)] = metas[1]
      BY <1>2, <1>5
    <2>2. metas[1] < p /\ NoneBetween(metas[1], p)
      BY <2>1 DEF MetaJoin
    <2> QED
      BY <1>3, <1>4, <1>5, <2>2 DEF MetaJoin
  <1>6. CASE Tail(metas) # <<>>
    <2>1. Len(metas) - 1 \in 1 .. Len(metas) - 1 /\ 1 \in 1 .. Len(metas) - 1
      BY <1>1, <1>2, <1>6
    <2>2. Tail(metas)[1] = metas[1 + 1] /\ Tail(metas)[Len(Tail(metas))] = metas[Len(metas)]
      BY <1>1, <2>1
    <2>3. metas[1] < metas[1 + 1] /\ NoneBetween(metas[1], metas[1 + 1])
      BY <2>1 DEF MetaJoin
    <2>4. metas[Len(metas)] < p /\ NoneBetween(metas[Len(metas)], p)
      BY DEF MetaJoin
    <2> QED
      BY <1>3, <1>4, <1>6, <2>2, <2>3, <2>4 DEF MetaJoin
  <1> QED
    BY <1>5, <1>6

-----------------------------------------------------------------------------
(* The shim.                                                               *)

\* Where the last word got and the next one meet.
LEMMA ShimMeets ==
  ASSUME ClientsTypeOK, AppInv, ShimInv, cq.dataApp # <<>>, rxShim \in {"ACC_FIRST", "ACC"}
  PROVE  /\ cq.dataApp[1] \in Words /\ dgrams[cq.dataApp[1].p].port = "app"
         /\ rxShim = "ACC" => cq.dataApp[1].k # 0 /\ LastGot = cq.dataApp[1].p
         /\ rxShim = "ACC_FIRST" => cq.dataApp[1].k = 0 /\ LastGot < cq.dataApp[1].p /\ NoneBetween(LastGot, cq.dataApp[1].p)
  <1> DEFINE w == cq.dataApp[1]
             out == cq.appOut
             x == out[Len(out)].w
  <1>1. out \in Seq(OutWords) /\ cq.dataApp \in Seq(Words)
    BY FifoIs DEF ClientFifos, FifoType, OutWords
  <1>2. w \in Words /\ 1 \in DOMAIN cq.dataApp
    BY <1>1, TailIs
  <1>3. Real(w) /\ dgrams[w.p].port = "app" /\ GotUpTo(out, w.p, w.k)
    BY <1>2 DEF AppInv, WordsJoin
  <1>4. w.p \in Nat /\ w.k \in Nat /\ w.k \in 0 .. dgrams[w.p].words - 1 /\ w.p \in DOMAIN dgrams /\ dgrams[w.p].words \in Nat
    <2>1. w.p \in DOMAIN dgrams /\ w.k \in 0 .. dgrams[w.p].words - 1
      BY <1>3 DEF Real
    <2>2. dgrams[w.p] \in Datagrams
      BY <2>1 DEF ClientsTypeOK
    <2> QED
      BY <1>2, <2>1, <2>2 DEF Words, Datagrams
  <1>5. CASE out = <<>>
    <2>1. rxShim = "ACC_FIRST" /\ LastGot = 0
      BY <1>5 DEF ShimInv, LastGot
    <2>2. w.k = 0 /\ NoneBetween(0, w.p)
      BY <1>3, <1>5 DEF GotUpTo
    <2>3. w.p > 0
      BY <1>4 DEF ClientsTypeOK
    <2> QED
      BY <1>2, <1>3, <1>4, <2>1, <2>2, <2>3
  <1>6. CASE out # <<>>
    <2>1. Len(out) \in DOMAIN out /\ LastGot = x.p
      <3>1. Len(out) \in Nat \ {0} /\ DOMAIN out = 1 .. Len(out)
        BY <1>1, <1>6, EmptySeq, NoneLeft
      <3> QED
        BY <1>6, <3>1 DEF LastGot
    <2>2. x.k \in Nat /\ x.last = (x.k + 1 = dgrams[x.p].words)
      <3>1. InPlace(out, Len(out))
        BY <2>1 DEF AppInv, WordsJoin
      <3>2. out[Len(out)] = AppWord(x.p, x.k) /\ x.k \in 0 .. dgrams[x.p].words - 1
        BY <3>1 DEF InPlace
      <3>3. x = Word(x.p, x.k, 8, x.k + 1 = dgrams[x.p].words)
        BY <3>2 DEF AppWord
      <3>4. x.last = (x.k + 1 = dgrams[x.p].words)
        BY <3>3 DEF Word
      <3> QED
        BY <3>2, <3>4
    <2>3. Precedes(x, w.p, w.k)
      BY <1>3, <1>6 DEF GotUpTo
    <2>4. (rxShim = "ACC" <=> ~ x.last)
      BY <1>6 DEF ShimInv
    <2>5. CASE w.k > 0
      <3>1. x.p = w.p /\ x.k = w.k - 1
        BY <1>3, <2>3, <2>5 DEF Precedes
      <3>2. x.k + 1 # dgrams[x.p].words
        BY <1>4, <3>1
      <3>3. rxShim = "ACC"
        BY <2>2, <2>4, <3>2
      <3> QED
        BY <1>2, <1>3, <1>4, <2>1, <2>5, <3>1, <3>3
    <2>6. CASE w.k = 0
      <3>1. x.last /\ x.p < w.p /\ NoneBetween(x.p, w.p)
        BY <2>3, <2>6 DEF Precedes
      <3>2. rxShim = "ACC_FIRST"
        BY <2>4, <3>1
      <3> QED
        BY <1>2, <1>3, <2>1, <2>6, <3>1, <3>2
    <2> QED
      BY <1>4, <2>5, <2>6
  <1> QED
    BY <1>5, <1>6

\* The next of memcached's datagrams is the one whose metadata come next.
LEMMA MetaMeets ==
  ASSUME NEW got \in Nat, NEW metas \in Seq(Nat), NEW p, metas # <<>>, MetaJoin(got, metas, p),
         NEW q \in Nat, got < q, NoneBetween(got, q), dgrams[q].port = "app"
  PROVE  metas[1] = q
  <1>1. metas[1] \in Nat /\ 1 \in DOMAIN metas
    BY TailIs
  <1>2. got < metas[1] /\ NoneBetween(got, metas[1]) /\ dgrams[metas[1]].port = "app"
    BY <1>1 DEF MetaJoin
  <1>3. ~ (q < metas[1])
    <2> SUFFICES ASSUME q < metas[1] PROVE FALSE
      OBVIOUS
    <2>1. q \in got + 1 .. metas[1] - 1
      BY <1>1
    <2> QED
      BY <1>2, <2>1 DEF NoneBetween
  <1>4. ~ (metas[1] < q)
    <2> SUFFICES ASSUME metas[1] < q PROVE FALSE
      OBVIOUS
    <2>1. metas[1] \in got + 1 .. q - 1
      BY <1>1, <1>2
    <2> QED
      BY <1>2, <2>1 DEF NoneBetween
  <1> QED
    BY <1>1, <1>3, <1>4

\* The multiplexer's part does not change when only the shim moves.
LEMMA MuxFrame ==
  ASSUME RestInv, MuxInv, UNCHANGED <<dgrams, muxRx>>, cq'.rxData = cq.rxData, cq'.rxMeta = cq.rxMeta
  PROVE  /\ RestInv' /\ MuxInv' /\ AtDgram' = AtDgram /\ AtWord' = AtWord /\ NextMeta' = NextMeta
  <1>1. AtDgram' = AtDgram /\ AtWord' = AtWord /\ Passing' = Passing
    BY DEF AtDgram, AtWord, Passing
  <1>2. RestInv'
    BY DEF RestInv, Real
  <1>3. MuxInv'
    BY <1>1 DEF MuxInv
  <1> QED
    BY <1>1, <1>2, <1>3 DEF NextMeta

\* One word is passed on: x is what memcached is to see of it.
LEMMA ShimPasses ==
  ASSUME ClientsTypeOK, StreamInv, rxShim \in {"ACC_FIRST", "ACC"}, cq.dataApp # <<>>, UNCHANGED <<dgrams, muxRx>>,
         cq'.rxData = cq.rxData, cq'.rxMeta = cq.rxMeta, cq'.dataApp = Tail(cq.dataApp),
         cq'.appOut = cq.appOut \o <<AppWord(cq.dataApp[1].p, cq.dataApp[1].k)>>,
         rxShim' = IF cq.dataApp[1].last THEN "ACC_FIRST" ELSE "ACC",
         MetaJoin(cq.dataApp[1].p, cq'.metaApp, NextMeta)
  PROVE  StreamInv'
  <1> DEFINE w == cq.dataApp[1]
             x == AppWord(w.p, w.k)
  <1>1. RestInv' /\ MuxInv' /\ AtDgram' = AtDgram /\ AtWord' = AtWord /\ NextMeta' = NextMeta
    BY MuxFrame DEF StreamInv
  <1>2. cq.appOut \in Seq(OutWords) /\ cq.dataApp \in Seq(Words)
    BY FifoIs DEF ClientFifos, FifoType, OutWords
  <1>3. x.w = w /\ x \in OutWords /\ w \in Words
    <2>1. w \in Words /\ 1 \in DOMAIN cq.dataApp
      BY <1>2, TailIs
    <2>2. Real(w)
      BY <2>1 DEF StreamInv, AppInv, WordsJoin
    <2>3. x = [w |-> w, meta |-> IF w.k = 0 THEN w.p ELSE 0] /\ w.p \in Nat
      BY <2>1, <2>2 DEF Real, AppWord, Words
    <2> HIDE DEF x, w
    <2> QED
      BY <2>1, <2>3 DEF OutWords
  <1>4. AppInv'
    <2>1. WordsJoin(cq'.appOut, cq'.dataApp, AtDgram', AtWord')
      BY <1>1, <1>2, WordIsGot DEF StreamInv, AppInv
    <2> QED
      BY <2>1, WordsJoinKept DEF AppInv
  <1>5. cq'.appOut # <<>> /\ cq'.appOut[Len(cq'.appOut)] = x
    <2> HIDE DEF x
    <2>1. cq'.appOut = cq.appOut \o <<x>>
      BY DEF x
    <2> QED
      BY <1>2, <1>3, <2>1, AppendIs
  <1> HIDE DEF x, w
  <1>6. LastGot' = w.p
    BY <1>3, <1>5 DEF LastGot
  <1>7. MetaInv'
    <2>1. MetaJoin(LastGot', cq'.metaApp, NextMeta')
      BY <1>1, <1>6 DEF w
    <2> QED
      BY <2>1, MetaJoinKept DEF MetaInv
  <1>8. ShimInv'
    <2>1. cq'.appOut[Len(cq'.appOut)].w.last = w.last /\ w.last \in BOOLEAN
      BY <1>3, <1>5 DEF Words
    <2> QED
      BY <1>5, <2>1 DEF ShimInv, w
  <1> QED
    BY <1>1, <1>4, <1>7, <1>8 DEF StreamInv

\* The shim starts while nothing was passed on.
LEMMA StreamShim ==
  ASSUME StreamInv, StreamKept, cq.appOut = <<>>, rxShim' \in {"W8FORPORT", "ACC_FIRST"}
  PROVE  StreamInv'
  <1>1. /\ cq'.rxData = cq.rxData /\ cq'.rxMeta = cq.rxMeta /\ cq'.dataApp = cq.dataApp /\ cq'.metaApp = cq.metaApp
        /\ cq'.appOut = cq.appOut /\ dgrams' = dgrams /\ muxRx' = muxRx
    BY DEF StreamKept
  <1>2. RestInv' /\ MuxInv' /\ AtDgram' = AtDgram /\ AtWord' = AtWord /\ NextMeta' = NextMeta
    BY <1>1, MuxFrame DEF StreamInv
  <1>3. AppInv'
    <2>1. WordsJoin(cq'.appOut, cq'.dataApp, AtDgram', AtWord')
      BY <1>1, <1>2 DEF StreamInv, AppInv
    <2> QED
      BY <1>1, <2>1, WordsJoinKept DEF AppInv
  <1>4. MetaInv'
    <2>1. LastGot' = LastGot
      BY <1>1 DEF LastGot
    <2>2. MetaJoin(LastGot', cq'.metaApp, NextMeta')
      BY <1>1, <1>2, <2>1 DEF StreamInv, MetaInv
    <2> QED
      BY <1>1, <2>2, MetaJoinKept DEF MetaInv
  <1>5. ShimInv'
    BY <1>1 DEF ShimInv
  <1> QED
    BY <1>2, <1>3, <1>4, <1>5 DEF StreamInv

LEMMA LastGotType ==
  ASSUME ClientsTypeOK
  PROVE  LastGot \in Nat
  <1>1. cq.appOut \in Seq(OutWords)
    BY FifoIs DEF ClientFifos, FifoType, OutWords
  <1>2. CASE cq.appOut # <<>>
    <2>1. cq.appOut[Len(cq.appOut)] \in OutWords
      BY <1>1, <1>2, EmptySeq
    <2> QED
      BY <1>2, <2>1 DEF LastGot, OutWords, Words
  <1>3. CASE cq.appOut = <<>>
    BY <1>3 DEF LastGot
  <1> QED
    BY <1>2, <1>3

LEMMA NextMetaType ==
  ASSUME ClientsTypeOK
  PROVE  AtDgram \in Nat /\ AtWord \in Nat /\ NextMeta \in Nat
  <1>1. AtDgram \in Nat /\ AtWord \in Nat
    <2>1. cq.rxData \in Seq(Words) /\ Len(dgrams) \in Nat
      BY FifoIs, LenProperties DEF ClientFifos, FifoType, ClientsTypeOK
    <2>2. CASE cq.rxData # <<>>
      <3>1. cq.rxData[1] \in Words
        BY <2>1, <2>2, TailIs
      <3> QED
        BY <2>2, <3>1 DEF AtDgram, AtWord, Words
    <2>3. CASE cq.rxData = <<>>
      BY <2>1, <2>3 DEF AtDgram, AtWord
    <2> QED
      BY <2>2, <2>3
  <1> QED
    BY <1>1 DEF NextMeta

\* A call of rxPath that passes a word on: what it leaves alone.
LEMMA ShimCall ==
  ASSUME ClientsInv, NEW ins \in SUBSET {"dataApp", "metaApp"}, "dataApp" \in ins, NEW x \in OutWords,
         ClientCalls(ins, [appOut |-> <<x>>]), rxShim \in {"ACC_FIRST", "ACC"}, rxShim' \in {"ACC_FIRST", "ACC"},
         UNCHANGED <<muxRx, muxPort, opened, odp, rm, dhcp, dhcpEnable, toggles, asked>>
  PROVE  /\ dgrams' = dgrams /\ cq.dataApp # <<>> /\ cq'.dataApp = Tail(cq.dataApp)
         /\ cq'.rxData = cq.rxData /\ cq'.rxMeta = cq.rxMeta /\ cq'.appOut = cq.appOut \o <<x>>
         /\ IF "metaApp" \in ins THEN cq.metaApp # <<>> /\ cq'.metaApp = Tail(cq.metaApp) ELSE cq'.metaApp = cq.metaApp
         /\ ClientsTypeOK' /\ PortInv' /\ DhcpInv' /\ AddressGranted'
  <1>1. ClientsTypeOK /\ StreamInv /\ PortInv /\ DhcpInv /\ AddressGranted
    BY InvParts
  <1> DEFINE p == [appOut |-> <<x>>]
  <1>2. /\ DOMAIN p = {"appOut"} /\ p["appOut"] = <<x>> /\ {"appOut", "dataApp", "metaApp", "rxData", "rxMeta"} \subseteq ClientFifos
        /\ x \in FifoType("appOut") /\ ClientCalls(ins, p)
    BY DEF ClientFifos, FifoType, OutWords
  <1> HIDE DEF p
  <1>3. /\ dgrams' = dgrams /\ cq' = [f \in ClientFifos |-> cq'[f]]
        /\ \A f \in ClientFifos : f \notin ins /\ f \notin DOMAIN p => cq'[f] = cq[f]
        /\ \A f \in ClientFifos : f \in ins /\ f \notin DOMAIN p => cq[f] # <<>> /\ cq'[f] = Tail(cq[f])
        /\ \A f \in ClientFifos : f \notin ins /\ f \in DOMAIN p => cq'[f] = cq[f] \o p[f]
    BY <1>1, <1>2, CallIs
  <1>4. ins \cap DOMAIN p = {} /\ \A f \in DOMAIN p : \E y \in FifoType(f) : p[f] = <<y>>
    BY <1>2
  <1>5. \A f \in ClientFifos : cq'[f] \in Seq(FifoType(f))
    BY <1>1, <1>2, <1>4, CallTyped
  <1>6. ClientsTypeOK'
    BY <1>1, <1>3, <1>5 DEF ClientsTypeOK
  <1>7. cq["dataApp"] # <<>> /\ cq'["dataApp"] = Tail(cq["dataApp"]) /\ cq'["appOut"] = cq["appOut"] \o <<x>>
    BY <1>2, <1>3
  <1>8. cq'["rxData"] = cq["rxData"] /\ cq'["rxMeta"] = cq["rxMeta"]
    BY <1>2, <1>3
  <1>9. IF "metaApp" \in ins THEN cq["metaApp"] # <<>> /\ cq'["metaApp"] = Tail(cq["metaApp"]) ELSE cq'["metaApp"] = cq["metaApp"]
    BY <1>2, <1>3
  <1>10. \A f \in {"openOut", "replyIn", "openDhcp", "openApp", "replyApp", "replyDhcp", "portOpen", "replyMeta", "dataDhcp", "rxData"} : cq'[f] = cq[f]
    BY <1>2, <1>3 DEF ClientFifos
  <1>11. PortInv'
    BY <1>1, <1>10 DEF PortInv
  <1>12. DhcpInv' /\ AddressGranted'
    <2>1. DhcpKept /\ cq'.replyMeta = cq.replyMeta /\ cq'.dataDhcp = cq.dataDhcp /\ cq'.rxData = cq.rxData
      BY <1>10 DEF DhcpKept
    <2> QED
      BY <1>1, <1>3, <2>1, DhcpFrame
  <1> QED
    BY <1>3, <1>6, <1>7, <1>8, <1>9, <1>11, <1>12

LEMMA RxPathStep ==
  ASSUME ClientsInv, rxPath
  PROVE  ClientsInv'
  <1>1. ClientsTypeOK /\ StreamInv /\ PortInv /\ DhcpInv /\ AddressGranted
    BY InvParts
  <1>2. UNCHANGED <<muxRx, muxPort, opened, odp, rm, dhcp, dhcpEnable, toggles, asked>>
    BY DEF rxPath, DhcpKeeps
  <1>3. CASE rxShim = "IDLE" /\ ClientCalls({}, [openApp |-> <<"app">>]) /\ rxShim' = "W8FORPORT"
    <2> DEFINE p == [openApp |-> <<"app">>]
    <2>1. /\ DOMAIN p = {"openApp"} /\ p["openApp"] = <<"app">> /\ "openApp" \in ClientFifos /\ "app" \in FifoType("openApp")
          /\ ClientCalls({}, p)
      BY <1>3 DEF ClientFifos, FifoType, Ports
    <2> HIDE DEF p
    <2>2. /\ dgrams' = dgrams /\ cq' = [f \in ClientFifos |-> cq'[f]]
          /\ \A f \in ClientFifos \ {"openApp"} : cq'[f] = cq[f]
          /\ cq'["openApp"] = cq["openApp"] \o <<"app">>
          /\ \A f \in ClientFifos : cq'[f] \in Seq(FifoType(f))
      BY <1>1, <2>1, CallPut
    <2>3. ClientsTypeOK'
      BY <1>1, <1>2, <1>3, <2>2 DEF ClientsTypeOK
    <2>4. StreamKept /\ DhcpKept /\ cq'.replyMeta = cq.replyMeta /\ cq'.dataDhcp = cq.dataDhcp /\ cq'.rxData = cq.rxData
      BY <1>2, <2>2 DEF StreamKept, DhcpKept, ClientFifos
    <2>5. \A j \in DOMAIN cq'.openApp : cq'.openApp[j] = "app"
      <3>1. cq.openApp \in Seq(FifoType("openApp")) /\ cq'.openApp \in Seq(FifoType("openApp"))
        BY <1>1, <2>1, <2>2, FifoIs
      <3>2. /\ Len(cq'.openApp) = Len(cq.openApp) + 1 /\ Len(cq.openApp) \in Nat
            /\ \A i \in 1 .. Len(cq.openApp) : cq'.openApp[i] = cq.openApp[i]
            /\ cq'.openApp[Len(cq.openApp) + 1] = "app"
        BY <2>1, <2>2, <3>1, AppendIs
      <3>3. DOMAIN cq'.openApp = 1 .. Len(cq'.openApp) /\ DOMAIN cq.openApp = 1 .. Len(cq.openApp)
        BY <3>1, NoneLeft
      <3>4. \A i \in 1 .. Len(cq.openApp) : cq.openApp[i] = "app"
        BY <1>1, <3>3 DEF PortInv
      <3> QED
        BY <3>2, <3>3, <3>4
    <2>6. \A f \in {"openOut", "replyIn", "openDhcp", "replyApp", "replyDhcp", "portOpen"} : cq'[f] = cq[f]
      BY <2>2 DEF ClientFifos
    <2>7. PortInv'
      BY <1>1, <1>2, <1>3, <2>5, <2>6 DEF PortInv
    <2>8. StreamInv'
      BY <1>1, <1>3, <2>4, StreamShim DEF StreamInv, ShimInv
    <2> QED
      BY <1>1, <2>2, <2>3, <2>4, <2>7, <2>8, DhcpFrame, PartsInv
  <1>4. CASE rxShim = "W8FORPORT" /\ cq.replyApp # <<>> /\ ClientCalls({"replyApp"}, Nothing) /\ rxShim' = "ACC_FIRST"
    <2>1. "replyApp" \in ClientFifos
      BY DEF ClientFifos
    <2>2. /\ dgrams' = dgrams /\ cq' = [f \in ClientFifos |-> cq'[f]]
          /\ \A f \in ClientFifos \ {"replyApp"} : cq'[f] = cq[f]
          /\ \A f \in ClientFifos : cq'[f] \in Seq(FifoType(f))
      BY <1>1, <1>4, <2>1, CallTake
    <2>3. ClientsTypeOK'
      BY <1>1, <1>2, <1>4, <2>2 DEF ClientsTypeOK
    <2>4. StreamKept /\ DhcpKept /\ cq'.replyMeta = cq.replyMeta /\ cq'.dataDhcp = cq.dataDhcp /\ cq'.rxData = cq.rxData
      BY <1>2, <2>2 DEF StreamKept, DhcpKept, ClientFifos
    <2>5. \A f \in {"openOut", "replyIn", "openDhcp", "openApp", "replyDhcp", "portOpen"} : cq'[f] = cq[f]
      BY <2>2 DEF ClientFifos
    <2>6. "app" \in opened
      BY <1>1, <1>4 DEF PortInv
    <2>7. PortInv'
      BY <1>1, <1>2, <1>4, <2>5, <2>6 DEF PortInv
    <2>8. StreamInv'
      BY <1>1, <1>4, <2>4, StreamShim DEF StreamInv, ShimInv
    <2> QED
      BY <1>1, <2>2, <2>3, <2>4, <2>7, <2>8, DhcpFrame, PartsInv
  <1> DEFINE w == Head(cq.dataApp)
  <1>5. CASE /\ rxShim = "ACC_FIRST" /\ cq.dataApp # <<>> /\ cq.metaApp # <<>>
             /\ ClientCalls({"dataApp", "metaApp"}, [appOut |-> <<[w |-> w, meta |-> Head(cq.metaApp)]>>])
             /\ rxShim' = IF w.last THEN "ACC_FIRST" ELSE "ACC"
    <2>1. cq.dataApp \in Seq(Words) /\ cq.metaApp \in Seq(Nat) /\ cq.appOut \in Seq(OutWords)
      BY <1>1, FifoIs DEF ClientFifos, FifoType, OutWords
    <2>2. w = cq.dataApp[1] /\ w \in Words /\ Head(cq.metaApp) = cq.metaApp[1] /\ cq.metaApp[1] \in Nat /\ 1 \in DOMAIN cq.dataApp
      BY <1>5, <2>1, TailIs
    <2>3. dgrams[w.p].port = "app" /\ w.k = 0 /\ LastGot < w.p /\ NoneBetween(LastGot, w.p)
      BY <1>1, <1>5, <2>2, ShimMeets DEF StreamInv
    <2>4. LastGot \in Nat /\ w.p \in Nat
      BY <1>1, <2>1, <2>2, LastGotType DEF Words
    <2>5. cq.metaApp[1] = w.p
      BY <1>1, <1>5, <2>1, <2>3, <2>4, MetaMeets DEF StreamInv, MetaInv
    <2> DEFINE x == [w |-> w, meta |-> Head(cq.metaApp)]
               ins == {"dataApp", "metaApp"}
    <2>6. x = AppWord(cq.dataApp[1].p, cq.dataApp[1].k)
      <3>1. Real(w)
        BY <1>1, <2>2 DEF StreamInv, AppInv, WordsJoin
      <3> QED
        BY <2>2, <2>3, <2>5, <3>1 DEF Real, AppWord
    <2>7. x \in OutWords /\ ins \in SUBSET {"dataApp", "metaApp"} /\ "dataApp" \in ins /\ "metaApp" \in ins
          /\ ClientCalls(ins, [appOut |-> <<x>>])
      BY <1>5, <2>2 DEF OutWords
    <2>8. rxShim' = IF cq.dataApp[1].last THEN "ACC_FIRST" ELSE "ACC"
      BY <1>5, <2>2
    <2> HIDE DEF w, x, ins
    <2>9. rxShim \in {"ACC_FIRST", "ACC"} /\ rxShim' \in {"ACC_FIRST", "ACC"}
      BY <1>5, <2>8
    <2>10. /\ dgrams' = dgrams /\ cq.dataApp # <<>> /\ cq'.dataApp = Tail(cq.dataApp)
           /\ cq'.rxData = cq.rxData /\ cq'.rxMeta = cq.rxMeta /\ cq'.appOut = cq.appOut \o <<x>>
           /\ cq'.metaApp = Tail(cq.metaApp)
           /\ ClientsTypeOK' /\ PortInv' /\ DhcpInv' /\ AddressGranted'
      BY <1>2, <2>7, <2>9, ShimCall
    <2>11. MetaJoin(cq.dataApp[1].p, cq'.metaApp, NextMeta)
      BY <1>1, <1>5, <2>1, <2>2, <2>4, <2>5, <2>10, MetaIsTaken, NextMetaType DEF StreamInv, MetaInv
    <2>12. StreamInv'
      BY <1>1, <1>2, <2>6, <2>8, <2>9, <2>10, <2>11, ShimPasses
    <2> QED
      BY <2>10, <2>12, PartsInv
  <1>6. CASE /\ rxShim = "ACC" /\ cq.dataApp # <<>>
             /\ ClientCalls({"dataApp"}, [appOut |-> <<[w |-> w, meta |-> 0]>>])
             /\ rxShim' = IF w.last THEN "ACC_FIRST" ELSE "ACC"
    <2>1. cq.dataApp \in Seq(Words) /\ cq.appOut \in Seq(OutWords)
      BY <1>1, FifoIs DEF ClientFifos, FifoType, OutWords
    <2>2. w = cq.dataApp[1] /\ w \in Words /\ 1 \in DOMAIN cq.dataApp
      BY <1>6, <2>1, TailIs
    <2>3. w.k # 0 /\ LastGot = w.p
      BY <1>1, <1>6, <2>2, ShimMeets DEF StreamInv
    <2> DEFINE x == [w |-> w, meta |-> 0]
               ins == {"dataApp"}
    <2>4. x = AppWord(cq.dataApp[1].p, cq.dataApp[1].k)
      <3>1. Real(w)
        BY <1>1, <2>2 DEF StreamInv, AppInv, WordsJoin
      <3> QED
        BY <2>2, <2>3, <3>1 DEF Real, AppWord
    <2>5. x \in OutWords /\ ins \in SUBSET {"dataApp", "metaApp"} /\ "dataApp" \in ins /\ "metaApp" \notin ins
          /\ ClientCalls(ins, [appOut |-> <<x>>])
      BY <1>6, <2>2 DEF OutWords
    <2>6. rxShim' = IF cq.dataApp[1].last THEN "ACC_FIRST" ELSE "ACC"
      BY <1>6, <2>2
    <2> HIDE DEF w, x, ins
    <2>7. rxShim \in {"ACC_FIRST", "ACC"} /\ rxShim' \in {"ACC_FIRST", "ACC"}
      BY <1>6, <2>6
    <2>8. /\ dgrams' = dgrams /\ cq.dataApp # <<>> /\ cq'.dataApp = Tail(cq.dataApp)
          /\ cq'.rxData = cq.rxData /\ cq'.rxMeta = cq.rxMeta /\ cq'.appOut = cq.appOut \o <<x>>
          /\ cq'.metaApp = cq.metaApp
          /\ ClientsTypeOK' /\ PortInv' /\ DhcpInv' /\ AddressGranted'
      BY <1>2, <2>5, <2>7, ShimCall
    <2>9. MetaJoin(cq.dataApp[1].p, cq'.metaApp, NextMeta)
      BY <1>1, <2>2, <2>3, <2>8 DEF StreamInv, MetaInv
    <2>10. StreamInv'
      BY <1>1, <1>2, <2>4, <2>6, <2>7, <2>8, <2>9, ShimPasses
    <2> QED
      BY <2>8, <2>10, PartsInv
  <1> QED
    BY <1>3, <1>4, <1>5, <1>6 DEF rxPath

-----------------------------------------------------------------------------
(* The multiplexer.                                                        *)

\* The multiplexer takes the first word: its place moves on by one word.
LEMMA WordTaken ==
  ASSUME ClientsTypeOK, RestInv, cq.rxData # <<>>, UNCHANGED dgrams, cq'.rxData = Tail(cq.rxData), cq'.rxMeta = cq.rxMeta
  PROVE  /\ cq.rxData[1] \in Words /\ Real(cq.rxData[1]) /\ AtDgram = cq.rxData[1].p /\ AtWord = cq.rxData[1].k
         /\ RestInv' /\ After(cq.rxData[1], AtDgram', AtWord') /\ AtDgram' \in Nat
  <1> DEFINE s == cq.rxData
             w == s[1]
  <1>1. s \in Seq(Words) /\ Len(dgrams) \in Nat
    BY FifoIs, LenProperties DEF ClientFifos, FifoType, ClientsTypeOK
  <1>2. /\ w \in Words /\ Len(s) \in Nat \ {0} /\ Tail(s) \in Seq(Words) /\ Len(Tail(s)) = Len(s) - 1
        /\ \A j \in 1 .. Len(s) - 1 : Tail(s)[j] = s[j + 1]
    BY <1>1, TailIs
  <1>3. DOMAIN s = 1 .. Len(s) /\ DOMAIN Tail(s) = 1 .. Len(s) - 1 /\ (Tail(s) = <<>> <=> Len(s) = 1)
    <2>1. DOMAIN s = 1 .. Len(s) /\ DOMAIN Tail(s) = 1 .. Len(Tail(s)) /\ (Tail(s) = <<>> <=> Len(Tail(s)) = 0)
      BY <1>1, <1>2, NoneLeft
    <2> QED
      BY <1>2, <2>1
  <1>4. Real(w) /\ AtDgram = w.p /\ AtWord = w.k
    BY <1>2, <1>3 DEF RestInv, AtDgram, AtWord
  <1>5. RestInv'
    <2>1. \A j \in DOMAIN Tail(s) : Real(Tail(s)[j])
      <3> SUFFICES ASSUME NEW j \in 1 .. Len(s) - 1 PROVE Real(s[j + 1])
        BY <1>2, <1>3
      <3>1. j + 1 \in DOMAIN s
        BY <1>2, <1>3
      <3> QED
        BY <3>1 DEF RestInv
    <2>2. ASSUME NEW j \in 1 .. Len(Tail(s)) - 1 PROVE Follows(Tail(s)[j], Tail(s)[j + 1])
      <3>1. j + 1 \in 1 .. Len(s) - 1 /\ j \in 1 .. Len(s) - 1
        BY <1>2
      <3>2. Tail(s)[j] = s[j + 1] /\ Tail(s)[j + 1] = s[(j + 1) + 1]
        BY <1>2, <3>1
      <3>3. Follows(s[j + 1], s[(j + 1) + 1])
        BY <3>1 DEF RestInv
      <3> QED
        BY <3>2, <3>3
    <2>3. Tail(s) # <<>> => Tail(s)[Len(Tail(s))] = s[Len(s)]
      BY <1>2, <1>3
    <2>4. \A j \in DOMAIN cq'.rxData : Real(cq.rxData[j])'
      BY <2>1 DEF Real
    <2>5. cq'.rxData # <<>> => cq'.rxData[Len(cq'.rxData)].p = Len(dgrams') /\ cq'.rxData[Len(cq'.rxData)].last
      BY <2>3 DEF RestInv
    <2>6. \A j \in DOMAIN cq'.rxMeta : cq'.rxMeta[j] = Len(dgrams') - Len(cq'.rxMeta) + j
      BY DEF RestInv
    <2>7. \A j \in 1 .. Len(cq'.rxData) - 1 : Follows(cq'.rxData[j], cq'.rxData[j + 1])
      BY <2>2
    <2> QED
      BY <2>4, <2>5, <2>6, <2>7 DEF RestInv
  <1>6. After(w, AtDgram', AtWord')
    <2>1. CASE Len(s) = 1
      <3>1. w.last /\ w.p = Len(dgrams)
        BY <2>1 DEF RestInv
      <3>2. AtDgram' = Len(dgrams) + 1 /\ AtWord' = 0
        BY <1>3, <2>1 DEF AtDgram, AtWord
      <3> QED
        BY <3>1, <3>2 DEF After
    <2>2. CASE Len(s) # 1
      <3>1. 1 \in 1 .. Len(s) - 1 /\ Tail(s) # <<>>
        BY <1>2, <1>3, <2>2
      <3>2. Follows(s[1], s[1 + 1]) /\ Tail(s)[1] = s[1 + 1]
        BY <1>2, <3>1 DEF RestInv
      <3>3. AtDgram' = s[1 + 1].p /\ AtWord' = s[1 + 1].k
        BY <3>1, <3>2 DEF AtDgram, AtWord
      <3> QED
        BY <3>2, <3>3 DEF After, Follows
    <2> QED
      BY <2>1, <2>2
  <1>7. AtDgram' \in Nat
    <2>1. w.p \in Nat
      BY <1>2 DEF Words
    <2> QED
      BY <1>6, <2>1 DEF After
  <1> QED
    BY <1>2, <1>4, <1>5, <1>6, <1>7

\* A word goes to the client of the datagram.
\* The same for the words of the DHCP client.
LEMMA OtherDataPasses ==
  ASSUME NEW data, NEW w, dgrams[w.p].port # "dhcp", DataJoin(data, w.p, w.k), NEW p1, NEW i1, After(w, p1, i1)
  PROVE  DataJoin(data, p1, i1)
  <1>1. ~ Inside(w.p, w.k) /\ ~ Inside(p1, i1)
    BY DEF After, Inside
  <1>2. (ReadUpTo(w.p, w.k) <=> ReadUpTo(p1, i1)) /\ \A x : Then(x, w.p, w.k) <=> Then(x, p1, i1)
    BY <1>1 DEF ReadUpTo, Then
  <1> QED
    BY <1>2 DEF DataJoin

LEMMA DataPasses ==
  ASSUME NEW data \in Seq(Words), NEW w \in Words, dgrams[w.p].port = "dhcp", DataJoin(data, w.p, w.k),
         NEW p1, NEW i1, After(w, p1, i1)
  PROVE  DataJoin(data \o <<w>>, p1, i1)
  <1> DEFINE u == data \o <<w>>
  <1>1. /\ u \in Seq(Words) /\ Len(u) = Len(data) + 1 /\ Len(data) \in Nat
        /\ \A i \in 1 .. Len(data) : u[i] = data[i]
        /\ u[Len(data) + 1] = w
    BY AppendIs
  <1>2. (data = <<>> <=> Len(data) = 0) /\ u # <<>>
    BY <1>1, EmptySeq
  <1> HIDE DEF u
  <1>3. Then(w, p1, i1)
    <2>1. w.k \in Nat
      BY DEF Words
    <2> QED
      BY <2>1 DEF Then, Inside, After
  <1>4. ASSUME NEW j \in 1 .. Len(u) - 1 PROVE Then(u[j], u[j + 1].p, u[j + 1].k)
    <2>1. CASE j = Len(data)
      <3>1. Len(data) # 0 /\ u[j] = data[Len(data)] /\ u[j + 1] = w
        BY <1>1, <1>4, <2>1
      <3> QED
        BY <1>2, <3>1 DEF DataJoin
    <2>2. CASE j # Len(data)
      <3>1. j \in 1 .. Len(data) - 1 /\ u[j] = data[j] /\ u[j + 1] = data[j + 1]
        BY <1>1, <1>4, <2>2
      <3> QED
        BY <3>1 DEF DataJoin
    <2> QED
      BY <2>1, <2>2
  <1>5. ReadUpTo(u[1].p, u[1].k)
    <2>1. CASE data = <<>>
      <3>1. u[1] = w
        BY <1>1, <1>2, <2>1
      <3> QED
        BY <2>1, <3>1 DEF DataJoin
    <2>2. CASE data # <<>>
      <3>1. u[1] = data[1]
        BY <1>1, <1>2, <2>2
      <3> QED
        BY <2>2, <3>1 DEF DataJoin
    <2> QED
      BY <2>1, <2>2
  <1>6. u[Len(u)] = w
    BY <1>1
  <1>7. DataJoin(u, p1, i1)
    BY <1>2, <1>3, <1>4, <1>5, <1>6 DEF DataJoin
  <1> QED
    BY <1>7 DEF u

LEMMA MuxWord ==
  ASSUME ClientsInv, muxRx.st \in {"FIRST", "ACC"}, cq.rxData # <<>>,
         NEW w, w = Head(cq.rxData), ClientCalls({"rxData"}, To(ToData(muxRx.source), w)),
         muxRx' = [muxRx EXCEPT !.st = IF w.last THEN "IDLE" ELSE "ACC"],
         UNCHANGED <<muxPort, rxShim, opened, odp, rm, dhcp, dhcpEnable, toggles, asked>>
  PROVE  ClientsInv'
  <1>1. ClientsTypeOK /\ StreamInv /\ PortInv /\ DhcpInv /\ AddressGranted
    BY InvParts
  <1> DEFINE b == ToData(muxRx.source)
             p == To(b, w)
  <1>2. cq.rxData \in Seq(Words) /\ cq.dataApp \in Seq(Words) /\ cq.appOut \in Seq(OutWords) /\ cq.dataDhcp \in Seq(Words)
    BY <1>1, FifoIs DEF ClientFifos, FifoType, OutWords
  <1>3. w = cq.rxData[1] /\ w \in Words
    BY <1>2, TailIs
  <1>4. /\ muxRx.source \in Ports /\ muxRx'.source = muxRx.source /\ muxRx' \in [st : {"IDLE", "FIRST", "ACC"}, source : Ports]
        /\ muxRx'.st = IF w.last THEN "IDLE" ELSE "ACC"
    BY <1>1 DEF ClientsTypeOK
  <1>5. /\ b \in {"dataApp", "dataDhcp"} /\ (b = "dataApp" <=> muxRx.source = "app") /\ "rxData" \in ClientFifos /\ b \in ClientFifos
        /\ "rxData" # b /\ w \in FifoType(b)
    BY <1>3, <1>4 DEF ToData, ClientFifos, FifoType, Ports
  <1> HIDE DEF b
  <1>6. /\ dgrams' = dgrams /\ cq' = [f \in ClientFifos |-> cq'[f]]
        /\ \A f \in ClientFifos \ {"rxData", b} : cq'[f] = cq[f]
        /\ cq'["rxData"] = Tail(cq["rxData"]) /\ cq'[b] = cq[b] \o <<w>>
        /\ \A f \in ClientFifos : cq'[f] \in Seq(FifoType(f))
    <2>1. DOMAIN p = {b} /\ p[b] = <<w>> /\ ClientCalls({"rxData"}, p)
      BY DEF To, b
    <2> HIDE DEF p
    <2> QED
      BY <1>1, <1>5, <2>1, CallPass
  <1>7. ClientsTypeOK'
    BY <1>1, <1>4, <1>6 DEF ClientsTypeOK
  <1>8. \A f \in {"rxMeta", "metaApp", "appOut", "replyMeta", "openOut", "replyIn", "openDhcp", "openApp", "replyApp", "replyDhcp", "portOpen"} :
           cq'[f] = cq[f]
    BY <1>5, <1>6 DEF ClientFifos
  <1>9. /\ Real(w) /\ AtDgram = w.p /\ AtWord = w.k /\ RestInv' /\ After(w, AtDgram', AtWord') /\ AtDgram' \in Nat
    BY <1>1, <1>3, <1>6, <1>8, WordTaken DEF StreamInv
  <1>10. w.p \in DOMAIN dgrams /\ dgrams[w.p].port = muxRx.source /\ w.p \in Nat /\ w.k \in Nat /\ w.last \in BOOLEAN
    BY <1>1, <1>3, <1>9 DEF StreamInv, MuxInv, Passing, Words
  <1>11. NextMeta' = NextMeta /\ MuxInv'
    <2>1. CASE w.last
      <3>1. AtDgram' = w.p + 1 /\ AtWord' = 0 /\ muxRx'.st = "IDLE"
        BY <1>4, <1>9, <2>1 DEF After
      <3>2. Len(cq.rxMeta) = Len(dgrams) + 1 - AtDgram - 1
        BY <1>1 DEF StreamInv, MuxInv, Passing
      <3>3. Len(dgrams) \in Nat
        BY <1>1, LenProperties DEF ClientsTypeOK
      <3>4. Len(cq'.rxMeta) = Len(dgrams') + 1 - AtDgram' - 0
        BY <1>6, <1>8, <1>9, <1>10, <3>1, <3>2, <3>3
      <3>5. ~ Passing' /\ Passing
        BY <3>1 DEF Passing
      <3> QED
        BY <1>9, <3>1, <3>4, <3>5 DEF NextMeta, MuxInv
    <2>2. CASE ~ w.last
      <3>1. AtDgram' = w.p /\ muxRx'.st = "ACC"
        BY <1>4, <1>9, <2>2 DEF After
      <3>2. Passing' /\ Passing
        BY <3>1 DEF Passing
      <3>3. Len(cq'.rxMeta) = Len(cq.rxMeta) /\ dgrams' = dgrams
        BY <1>6, <1>8
      <3> QED
        BY <1>1, <1>4, <1>9, <1>10, <3>1, <3>2, <3>3 DEF NextMeta, MuxInv, StreamInv
    <2> QED
      BY <1>10, <2>1, <2>2
  <1>12. AppInv'
    <2>1. WordsJoin(cq.appOut, cq.dataApp, w.p, w.k)
      BY <1>1, <1>9 DEF StreamInv, AppInv
    <2>2. CASE b = "dataApp"
      <3>1. WordsJoin(cq.appOut, cq.dataApp \o <<w>>, AtDgram', AtWord')
        BY <1>1, <1>2, <1>3, <1>5, <1>9, <1>10, <2>1, <2>2, WordPasses
      <3>2. WordsJoin(cq'.appOut, cq'.dataApp, AtDgram', AtWord')
        BY <1>6, <1>8, <2>2, <3>1
      <3> QED
        BY <1>6, <3>2, WordsJoinKept DEF AppInv
    <2>3. CASE b = "dataDhcp"
      <3>1. dgrams[w.p].port # "app"
        BY <1>5, <1>10, <2>3
      <3>2. WordsJoin(cq.appOut, cq.dataApp, AtDgram', AtWord')
        BY <1>1, <1>2, <1>3, <1>9, <2>1, <3>1, OtherWordPasses
      <3>3. cq'.dataApp = cq.dataApp
        BY <1>6, <2>3 DEF ClientFifos
      <3>4. WordsJoin(cq'.appOut, cq'.dataApp, AtDgram', AtWord')
        BY <1>8, <3>2, <3>3
      <3> QED
        BY <1>6, <3>4, WordsJoinKept DEF AppInv
    <2> QED
      BY <1>5, <2>2, <2>3
  <1>13. MetaInv' /\ ShimInv'
    <2>1. cq'.appOut = cq.appOut /\ cq'.metaApp = cq.metaApp
      BY <1>8
    <2>2. LastGot' = LastGot
      BY <2>1 DEF LastGot
    <2>3. MetaJoin(LastGot', cq'.metaApp, NextMeta')
      BY <1>1, <1>11, <2>1, <2>2 DEF StreamInv, MetaInv
    <2>4. MetaInv'
      BY <1>6, <2>3, MetaJoinKept DEF MetaInv
    <2> QED
      BY <1>1, <2>1, <2>4 DEF StreamInv, ShimInv
  <1>14. StreamInv'
    BY <1>9, <1>11, <1>12, <1>13 DEF StreamInv
  <1>15. PortInv'
    BY <1>1, <1>8 DEF PortInv
  <1>16. DhcpInv'
    <2>1. \A j \in DOMAIN cq'.dataDhcp : Real(cq'.dataDhcp[j]) /\ dgrams[cq'.dataDhcp[j].p].port = "dhcp"
      <3>1. CASE b = "dataApp"
        <4>1. cq'.dataDhcp = cq.dataDhcp
          BY <1>6, <3>1 DEF ClientFifos
        <4> QED
          BY <1>1, <4>1 DEF DhcpInv
      <3>2. CASE b = "dataDhcp"
        <4>1. Real(w) /\ dgrams[w.p].port = "dhcp"
          BY <1>4, <1>5, <1>9, <1>10, <3>2 DEF Ports
        <4>2. cq'.dataDhcp = cq.dataDhcp \o <<w>>
          BY <1>6, <3>2
        <4>3. /\ cq'.dataDhcp \in Seq(Words) /\ Len(cq'.dataDhcp) = Len(cq.dataDhcp) + 1 /\ Len(cq.dataDhcp) \in Nat
              /\ \A i \in 1 .. Len(cq.dataDhcp) : cq'.dataDhcp[i] = cq.dataDhcp[i]
              /\ cq'.dataDhcp[Len(cq.dataDhcp) + 1] = w
          BY <1>2, <1>3, <4>2, AppendIs
        <4>4. DOMAIN cq'.dataDhcp = 1 .. Len(cq.dataDhcp) + 1 /\ DOMAIN cq.dataDhcp = 1 .. Len(cq.dataDhcp)
          BY <1>2, <4>3, NoneLeft
        <4>5. \A i \in 1 .. Len(cq.dataDhcp) : Real(cq.dataDhcp[i]) /\ dgrams[cq.dataDhcp[i].p].port = "dhcp"
          BY <1>1, <4>4 DEF DhcpInv
        <4> QED
          BY <4>1, <4>3, <4>4, <4>5, SMTT(30)
      <3> QED
        BY <1>5, <3>1, <3>2
    <2>2. \A j \in DOMAIN cq'.dataDhcp : Real(cq.dataDhcp[j])' /\ dgrams'[cq'.dataDhcp[j].p].port = "dhcp"
      BY <1>6, <2>1 DEF Real
    <2>3. cq'.replyMeta = cq.replyMeta /\ dhcp' = dhcp /\ rm' = rm
      BY <1>8
    <2>4. (Proper' <=> Proper) /\ \A m : Said(m)' <=> Said(m)
      BY <1>6, SaidKept
    <2>5. ASSUME Proper PROVE DataJoin(cq.dataDhcp, AtDgram, AtWord)'
      <3>1. DataJoin(cq.dataDhcp, w.p, w.k)
        BY <1>1, <1>9, <2>5 DEF DhcpInv
      <3>2. CASE b = "dataApp"
        <4>1. cq'.dataDhcp = cq.dataDhcp /\ dgrams[w.p].port # "dhcp"
          BY <1>5, <1>6, <1>10, <3>2 DEF ClientFifos
        <4>2. DataJoin(cq.dataDhcp, AtDgram', AtWord')
          BY <1>9, <3>1, <4>1, OtherDataPasses
        <4>3. DataJoin(cq'.dataDhcp, AtDgram', AtWord')
          BY <4>1, <4>2
        <4> QED
          BY <1>6, <2>3, <4>3, DataJoinKept
      <3>3. CASE b = "dataDhcp"
        <4>1. cq'.dataDhcp = cq.dataDhcp \o <<w>> /\ dgrams[w.p].port = "dhcp"
          BY <1>4, <1>5, <1>6, <1>10, <3>3 DEF Ports
        <4>2. DataJoin(cq.dataDhcp \o <<w>>, AtDgram', AtWord')
          BY <1>2, <1>3, <1>9, <3>1, <4>1, DataPasses
        <4>3. DataJoin(cq'.dataDhcp, AtDgram', AtWord')
          BY <4>1, <4>2
        <4> QED
          BY <1>6, <2>3, <4>3, DataJoinKept
      <3> QED
        BY <1>5, <3>2, <3>3
    <2>6. ASSUME Proper'
          PROVE  /\ \A j \in DOMAIN cq'.replyMeta : Said(cq.replyMeta[j])'
                 /\ dhcp'.st = "REQUESTING" => Said(Message(dhcp.id, "OFFER", dhcp.buffer))'
      <3>1. /\ \A j \in DOMAIN cq.replyMeta : Said(cq.replyMeta[j])
            /\ dhcp.st = "REQUESTING" => Said(Message(dhcp.id, "OFFER", dhcp.buffer))
        BY <1>1, <2>4, <2>6 DEF DhcpInv
      <3> QED
        BY <2>3, <2>4, <3>1 DEF Message
    <2> QED
      BY <1>1, <2>2, <2>3, <2>4, <2>5, <2>6 DEF DhcpInv
  <1>17. AddressGranted'
    BY <1>1, <1>6, SaidKept DEF AddressGranted
  <1> QED
    BY <1>7, <1>14, <1>15, <1>16, <1>17, PartsInv

LEMMA PlaceIs ==
  ASSUME NEW d \in Nat, NEW n \in Nat \ {0}, NEW at \in Nat, n = d + 1 - at - 0
  PROVE  at = d - n + 1 /\ at <= d /\ n - 1 = d + 1 - at - 1
  OBVIOUS

\* The metadata of the next datagram go to its client.
LEMMA MuxMeta ==
  ASSUME ClientsInv, muxRx.st = "IDLE", cq.rxMeta # <<>>, NEW h, h = Head(cq.rxMeta), NEW a, a = dgrams[h].port,
         ClientCalls({"rxMeta"}, To(ToMeta(a), h)), muxRx' = [st |-> "FIRST", source |-> a],
         UNCHANGED <<muxPort, rxShim, opened, odp, rm, dhcp, dhcpEnable, toggles, asked>>
  PROVE  ClientsInv'
  <1>1. ClientsTypeOK /\ StreamInv /\ PortInv /\ DhcpInv /\ AddressGranted
    BY InvParts
  <1> DEFINE b == ToMeta(a)
             p == To(b, h)
             s == cq.rxMeta
  <1>2. s \in Seq(Nat) /\ cq.metaApp \in Seq(Nat) /\ Len(dgrams) \in Nat /\ dgrams \in Seq(Datagrams)
    BY <1>1, FifoIs, LenProperties DEF ClientFifos, FifoType, ClientsTypeOK
  <1>3. /\ h = s[1] /\ h \in Nat /\ Len(s) \in Nat \ {0} /\ Tail(s) \in Seq(Nat) /\ Len(Tail(s)) = Len(s) - 1
        /\ \A j \in 1 .. Len(s) - 1 : Tail(s)[j] = s[j + 1]
    BY <1>2, TailIs
  <1>4. DOMAIN s = 1 .. Len(s) /\ DOMAIN Tail(s) = 1 .. Len(s) - 1
    <2>1. DOMAIN s = 1 .. Len(s) /\ DOMAIN Tail(s) = 1 .. Len(Tail(s))
      BY <1>2, <1>3, NoneLeft
    <2> QED
      BY <1>3, <2>1
  <1>5. h = AtDgram /\ h \in DOMAIN dgrams /\ AtWord = 0 /\ ~ Passing
    <2>1. h = Len(dgrams) - Len(s) + 1
      <3>1. 1 \in DOMAIN s
        BY <1>3, <1>4
      <3>2. s[1] = Len(dgrams) - Len(s) + 1
        BY <1>1, <3>1 DEF StreamInv, RestInv
      <3> QED
        BY <1>3, <3>2
    <2>2. ~ Passing /\ AtWord = 0 /\ Len(s) = Len(dgrams) + 1 - AtDgram - 0
      BY <1>1 DEF StreamInv, MuxInv, Passing
    <2>3. AtDgram \in Nat
      BY <1>1, NextMetaType
    <2>4. h = AtDgram /\ h <= Len(dgrams)
      <3>1. AtDgram = Len(dgrams) - Len(s) + 1 /\ AtDgram <= Len(dgrams)
        BY <1>2, <1>3, <2>2, <2>3, PlaceIs
      <3> QED
        BY <2>1, <3>1
    <2>5. AtDgram > 0
      <3>1. CASE cq.rxData = <<>>
        BY <1>2, <3>1 DEF AtDgram
      <3>2. CASE cq.rxData # <<>>
        <4>1. cq.rxData \in Seq(Words)
          BY <1>1, FifoIs DEF ClientFifos, FifoType
        <4>2. 1 \in DOMAIN cq.rxData
          BY <3>2, <4>1, TailIs
        <4>3. cq.rxData[1].p \in DOMAIN dgrams
          BY <1>1, <4>2 DEF StreamInv, RestInv, Real
        <4> QED
          BY <1>2, <3>2, <4>3 DEF AtDgram
      <3> QED
        BY <3>1, <3>2
    <2>6. h \in DOMAIN dgrams
      BY <1>2, <1>3, <2>4, <2>5
    <2> QED
      BY <2>2, <2>4, <2>6
  <1>6. a \in Ports
    <2>1. dgrams[h] \in Datagrams
      BY <1>2, <1>5
    <2> QED
      BY <2>1 DEF Datagrams
  <1>7. /\ b \in {"metaApp", "metaDhcp"} /\ (b = "metaApp" <=> a = "app") /\ "rxMeta" \in ClientFifos /\ b \in ClientFifos
        /\ "rxMeta" # b /\ h \in FifoType(b)
    BY <1>3, <1>6 DEF ToMeta, ClientFifos, FifoType, Ports
  <1> HIDE DEF b
  <1>8. /\ dgrams' = dgrams /\ cq' = [f \in ClientFifos |-> cq'[f]]
        /\ \A f \in ClientFifos \ {"rxMeta", b} : cq'[f] = cq[f]
        /\ cq'["rxMeta"] = Tail(cq["rxMeta"]) /\ cq'[b] = cq[b] \o <<h>>
        /\ \A f \in ClientFifos : cq'[f] \in Seq(FifoType(f))
    <2>1. DOMAIN p = {b} /\ p[b] = <<h>> /\ ClientCalls({"rxMeta"}, p)
      BY DEF To, b
    <2> HIDE DEF p
    <2> QED
      BY <1>1, <1>7, <2>1, CallPass
  <1> HIDE DEF p
  <1>9. muxRx'.st = "FIRST" /\ muxRx'.source = a /\ muxRx' \in [st : {"IDLE", "FIRST", "ACC"}, source : Ports]
    BY <1>6
  <1>10. ClientsTypeOK'
    BY <1>1, <1>8, <1>9 DEF ClientsTypeOK
  <1>11. \A f \in {"rxData", "dataApp", "appOut", "replyMeta", "dataDhcp", "openOut", "replyIn", "openDhcp", "openApp", "replyApp", "replyDhcp", "portOpen"} :
            cq'[f] = cq[f]
    BY <1>7, <1>8 DEF ClientFifos
  <1>12. AtDgram' = AtDgram /\ AtWord' = AtWord /\ Passing' /\ NextMeta' = AtDgram + 1 /\ NextMeta = AtDgram
    <2>1. AtDgram' = AtDgram /\ AtWord' = AtWord
      BY <1>8, <1>11 DEF AtDgram, AtWord
    <2>2. Passing'
      BY <1>9 DEF Passing
    <2> QED
      BY <1>5, <2>1, <2>2 DEF NextMeta
  <1>13. RestInv'
    <2>1. cq'.rxData = cq.rxData
      BY <1>11
    <2>2. \A j \in DOMAIN cq'.rxData : Real(cq.rxData[j])'
      BY <1>1, <1>8, <2>1 DEF StreamInv, RestInv, Real
    <2>3. ASSUME NEW j \in DOMAIN Tail(s) PROVE Tail(s)[j] = Len(dgrams) - Len(Tail(s)) + j
      <3>1. j \in 1 .. Len(s) - 1 /\ j + 1 \in DOMAIN s
        BY <1>3, <1>4
      <3>2. s[j + 1] = Len(dgrams) - Len(s) + (j + 1)
        BY <1>1, <3>1 DEF StreamInv, RestInv
      <3> QED
        BY <1>2, <1>3, <3>1, <3>2
    <2>4. \A j \in DOMAIN cq'.rxMeta : cq'.rxMeta[j] = Len(dgrams') - Len(cq'.rxMeta) + j
      BY <1>8, <2>3
    <2> QED
      BY <1>1, <1>8, <2>1, <2>2, <2>4 DEF StreamInv, RestInv
  <1>14. MuxInv'
    <2>1. Len(s) = Len(dgrams) + 1 - AtDgram - 0
      BY <1>1, <1>5 DEF StreamInv, MuxInv
    <2>2. Len(cq'.rxMeta) = Len(dgrams') + 1 - AtDgram' - 1
      <3>1. Len(s) - 1 = Len(dgrams) + 1 - AtDgram - 1
        BY <1>2, <1>3, <1>5, <2>1, PlaceIs
      <3>2. Len(cq'.rxMeta) = Len(s) - 1
        BY <1>3, <1>8
      <3> QED
        BY <1>8, <1>12, <3>1, <3>2
    <2> QED
      BY <1>5, <1>8, <1>9, <1>12, <2>2 DEF MuxInv
  <1>15. AppInv'
    <2>1. WordsJoin(cq'.appOut, cq'.dataApp, AtDgram', AtWord')
      BY <1>1, <1>11, <1>12 DEF StreamInv, AppInv
    <2> QED
      BY <1>8, <2>1, WordsJoinKept DEF AppInv
  <1>16. MetaInv' /\ ShimInv'
    <2>1. cq'.appOut = cq.appOut
      BY <1>11
    <2>2. LastGot' = LastGot /\ LastGot \in Nat
      BY <1>1, <2>1, LastGotType DEF LastGot
    <2>3. MetaJoin(LastGot, cq.metaApp, h)
      BY <1>1, <1>5, <1>12 DEF StreamInv, MetaInv
    <2>4. CASE b = "metaApp"
      <3>1. MetaJoin(LastGot, cq.metaApp \o <<h>>, h + 1)
        BY <1>2, <1>3, <1>5, <1>7, <2>2, <2>3, <2>4, MetaPasses
      <3>2. MetaJoin(LastGot', cq'.metaApp, NextMeta')
        BY <1>5, <1>8, <1>12, <2>2, <2>4, <3>1
      <3> QED
        BY <1>1, <1>8, <2>1, <3>2, MetaJoinKept DEF MetaInv, ShimInv, StreamInv
    <2>5. CASE b = "metaDhcp"
      <3>1. dgrams[h].port # "app"
        BY <1>7, <2>5
      <3>2. MetaJoin(LastGot, cq.metaApp, h + 1)
        BY <1>2, <1>3, <2>2, <2>3, <3>1, OtherMetaPasses
      <3>3. cq'.metaApp = cq.metaApp
        BY <1>8, <2>5 DEF ClientFifos
      <3>4. MetaJoin(LastGot', cq'.metaApp, NextMeta')
        BY <1>5, <1>12, <2>2, <3>2, <3>3
      <3> QED
        BY <1>1, <1>8, <2>1, <3>4, MetaJoinKept DEF MetaInv, ShimInv, StreamInv
    <2> QED
      BY <1>7, <2>4, <2>5
  <1>17. StreamInv'
    BY <1>13, <1>14, <1>15, <1>16 DEF StreamInv
  <1>18. PortInv'
    BY <1>1, <1>11 DEF PortInv
  <1>19. DhcpInv' /\ AddressGranted'
    <2>1. DhcpKept /\ cq'.replyMeta = cq.replyMeta /\ cq'.dataDhcp = cq.dataDhcp /\ cq'.rxData = cq.rxData
      BY <1>11 DEF DhcpKept
    <2> QED
      BY <1>1, <1>8, <2>1, DhcpFrame
  <1> QED
    BY <1>10, <1>17, <1>18, <1>19, PartsInv

LEMMA MuxRxStep ==
  ASSUME ClientsInv, appMuxRxPath
  PROVE  ClientsInv'
  <1>1. UNCHANGED <<muxPort, rxShim, opened, odp, rm, dhcp, dhcpEnable, toggles, asked>>
    BY DEF appMuxRxPath, DhcpKeeps
  <1>2. CASE /\ muxRx.st = "IDLE" /\ cq.rxMeta # <<>>
             /\ LET a == dgrams[Head(cq.rxMeta)].port
                IN ClientCalls({"rxMeta"}, To(ToMeta(a), Head(cq.rxMeta))) /\ muxRx' = [st |-> "FIRST", source |-> a]
    BY <1>1, <1>2, MuxMeta
  <1>3. CASE /\ muxRx.st \in {"FIRST", "ACC"} /\ cq.rxData # <<>>
             /\ LET w == Head(cq.rxData)
                IN ClientCalls({"rxData"}, To(ToData(muxRx.source), w)) /\ muxRx' = [muxRx EXCEPT !.st = IF w.last THEN "IDLE" ELSE "ACC"]
    BY <1>1, <1>3, MuxWord
  <1> QED
    BY <1>2, <1>3 DEF appMuxRxPath

-----------------------------------------------------------------------------
(* A datagram is received: what was said of the earlier ones stays true.   *)

Grown ==
  /\ dgrams \in Seq(Datagrams) /\ dgrams' \in Seq(Datagrams)
  /\ Len(dgrams) \in Nat /\ Len(dgrams') = Len(dgrams) + 1
  /\ DOMAIN dgrams = 1 .. Len(dgrams) /\ DOMAIN dgrams' = 1 .. Len(dgrams) + 1
  /\ \A r \in 1 .. Len(dgrams) : dgrams'[r] = dgrams[r]

LEMMA ReceivedGrows ==
  ASSUME dgrams \in Seq(Datagrams), NEW g \in Datagrams, dgrams' = Append(dgrams, g)
  PROVE  Grown /\ dgrams'[Len(dgrams) + 1] = g
  BY AppendProperties, LenProperties DEF Grown

LEMMA RealGrown ==
  ASSUME Grown, NEW w, Real(w)
  PROVE  Real(w)' /\ dgrams'[w.p] = dgrams[w.p]
  <1>1. w.p \in 1 .. Len(dgrams) /\ w.p \in DOMAIN dgrams'
    BY DEF Grown, Real
  <1>2. dgrams'[w.p] = dgrams[w.p]
    BY <1>1 DEF Grown
  <1> QED
    BY <1>1, <1>2 DEF Real

LEMMA NoneGrown ==
  ASSUME Grown, NEW p \in Nat, NEW q \in Int, q <= Len(dgrams) + 1
  PROVE  NoneBetween(p, q)' <=> NoneBetween(p, q)
  <1>1. \A r \in p + 1 .. q - 1 : r \in 1 .. Len(dgrams)
    BY DEF Grown
  <1>2. \A r \in p + 1 .. q - 1 : dgrams'[r] = dgrams[r]
    BY <1>1 DEF Grown
  <1> QED
    BY <1>2 DEF NoneBetween

\* A place among the words received, or behind them.
Place(p, i) == p \in 1 .. Len(dgrams) + 1 /\ i \in Nat /\ (p = Len(dgrams) + 1 => i = 0)

LEMMA PrecedesGrown ==
  ASSUME Grown, NEW x \in Words, NEW p, NEW i, Place(p, i), Precedes(x, p, i)
  PROVE  Precedes(x, p, i)'
  <1>1. p \in Int /\ p <= Len(dgrams) + 1 /\ x.p \in Nat
    BY DEF Place, Grown, Words
  <1>2. NoneBetween(x.p, p)' <=> NoneBetween(x.p, p)
    BY <1>1, NoneGrown
  <1>3. i > 0 => dgrams'[p] = dgrams[p]
    <2>1. ASSUME i > 0 PROVE p \in 1 .. Len(dgrams)
      BY <2>1 DEF Place, Grown
    <2> QED
      BY <2>1 DEF Grown
  <1> QED
    BY <1>2, <1>3 DEF Precedes

LEMMA InPlaceGrown ==
  ASSUME Grown, NEW out \in Seq(OutWords), NEW n \in DOMAIN out, InPlace(out, n)
  PROVE  InPlace(out, n)'
  <1> DEFINE x == out[n].w
  <1>1. n \in 1 .. Len(out) /\ Len(out) \in Nat
    BY LenProperties
  <1>2. out[n] \in OutWords /\ x \in Words /\ x.p \in Nat /\ x.k \in Nat
    <2>1. out[n] \in OutWords
      BY <1>1
    <2> QED
      BY <2>1 DEF OutWords, Words
  <1>3. x.p \in DOMAIN dgrams /\ dgrams[x.p].port = "app" /\ x.k \in 0 .. dgrams[x.p].words - 1 /\ out[n] = AppWord(x.p, x.k)
    BY DEF InPlace
  <1>4. x.p \in 1 .. Len(dgrams) /\ x.p \in DOMAIN dgrams' /\ Place(x.p, x.k)
    BY <1>2, <1>3 DEF Grown, Place
  <1>5. dgrams'[x.p] = dgrams[x.p]
    BY <1>4 DEF Grown
  <1>6. out[n] = AppWord(x.p, x.k)'
    BY <1>3, <1>5 DEF AppWord
  <1>7. CASE n = 1
    <2>1. x.k = 0 /\ NoneBetween(0, x.p)
      BY <1>7 DEF InPlace
    <2>2. x.p \in Int /\ x.p <= Len(dgrams) + 1 /\ 0 \in Nat
      BY <1>4 DEF Grown
    <2>3. NoneBetween(0, x.p)'
      BY <2>1, <2>2, NoneGrown
    <2> QED
      BY <1>3, <1>4, <1>5, <1>6, <1>7, <2>1, <2>3 DEF InPlace
  <1>8. CASE n # 1
    <2>1. n - 1 \in 1 .. Len(out)
      BY <1>1, <1>8
    <2>2. out[n - 1] \in OutWords
      BY <2>1
    <2>3. out[n - 1].w \in Words
      BY <2>2 DEF OutWords
    <2>4. Precedes(out[n - 1].w, x.p, x.k)
      BY <1>8 DEF InPlace
    <2>5. Precedes(out[n - 1].w, x.p, x.k)'
      BY <1>4, <2>3, <2>4, PrecedesGrown
    <2> QED
      BY <1>3, <1>4, <1>5, <1>6, <1>8, <2>5 DEF InPlace
  <1> QED
    BY <1>7, <1>8

LEMMA GotUpToGrown ==
  ASSUME Grown, NEW out \in Seq(OutWords), NEW p, NEW i, Place(p, i), GotUpTo(out, p, i)
  PROVE  GotUpTo(out, p, i)'
  <1>1. CASE out = <<>>
    <2>1. (i = 0 \/ dgrams[p].port # "app") /\ NoneBetween(0, p)
      BY <1>1 DEF GotUpTo
    <2>2. p \in Int /\ p <= Len(dgrams) + 1 /\ 0 \in Nat
      BY DEF Place, Grown
    <2>3. NoneBetween(0, p)'
      BY <2>1, <2>2, NoneGrown
    <2>4. i = 0 \/ dgrams'[p] = dgrams[p]
      <3>1. ASSUME i # 0 PROVE p \in 1 .. Len(dgrams)
        BY <3>1 DEF Place, Grown
      <3> QED
        BY <3>1 DEF Grown
    <2> QED
      BY <1>1, <2>1, <2>3, <2>4 DEF GotUpTo
  <1>2. CASE out # <<>>
    <2>1. out[Len(out)] \in OutWords
      BY <1>2, EmptySeq
    <2>2. out[Len(out)].w \in Words
      BY <2>1 DEF OutWords
    <2>3. Precedes(out[Len(out)].w, p, i)
      BY <1>2 DEF GotUpTo
    <2>4. Precedes(out[Len(out)].w, p, i)'
      BY <2>2, <2>3, PrecedesGrown
    <2> QED
      BY <1>2, <2>4 DEF GotUpTo
  <1> QED
    BY <1>1, <1>2

LEMMA RealPlace ==
  ASSUME Grown, NEW w \in Words, Real(w)
  PROVE  Place(w.p, w.k)
  BY DEF Grown, Real, Words, Place

LEMMA WordsJoinGrown ==
  ASSUME Grown, NEW out \in Seq(OutWords), NEW data \in Seq(Words), NEW p, NEW i, Place(p, i), WordsJoin(out, data, p, i)
  PROVE  WordsJoin(out, data, p, i)'
  <1>1. DOMAIN data = 1 .. Len(data) /\ Len(data) \in Nat /\ (data = <<>> <=> Len(data) = 0)
    BY NoneLeft
  <1>2. ASSUME NEW j \in DOMAIN data
        PROVE  data[j] \in Words /\ Real(data[j])' /\ dgrams'[data[j].p].port = "app" /\ Place(data[j].p, data[j].k)
    <2>1. data[j] \in Words /\ Real(data[j]) /\ dgrams[data[j].p].port = "app"
      BY <1>1 DEF WordsJoin
    <2> QED
      BY <2>1, RealGrown, RealPlace
  <1>3. \A n \in DOMAIN out : InPlace(out, n)'
    BY InPlaceGrown DEF WordsJoin
  <1>4. ASSUME NEW j \in 1 .. Len(data) - 1 PROVE Precedes(data[j], data[j + 1].p, data[j + 1].k)'
    <2>1. j \in DOMAIN data /\ j + 1 \in DOMAIN data
      BY <1>1
    <2>2. Precedes(data[j], data[j + 1].p, data[j + 1].k)
      BY DEF WordsJoin
    <2> QED
      BY <1>2, <2>1, <2>2, PrecedesGrown
  <1>5. data = <<>> => GotUpTo(out, p, i)'
    BY GotUpToGrown DEF WordsJoin
  <1>6. ASSUME data # <<>> PROVE GotUpTo(out, data[1].p, data[1].k)' /\ Precedes(data[Len(data)], p, i)'
    <2>1. 1 \in DOMAIN data /\ Len(data) \in DOMAIN data
      BY <1>1, <1>6
    <2>2. GotUpTo(out, data[1].p, data[1].k) /\ Precedes(data[Len(data)], p, i)
      BY <1>6 DEF WordsJoin
    <2> QED
      BY <1>2, <2>1, <2>2, GotUpToGrown, PrecedesGrown
  <1> QED
    BY <1>2, <1>3, <1>4, <1>5, <1>6 DEF WordsJoin

LEMMA MetaJoinGrown ==
  ASSUME Grown, NEW got \in Nat, NEW metas \in Seq(Nat), NEW p \in Nat, p <= Len(dgrams) + 1, MetaJoin(got, metas, p)
  PROVE  MetaJoin(got, metas, p)'
  <1>1. DOMAIN metas = 1 .. Len(metas) /\ Len(metas) \in Nat /\ (metas = <<>> <=> Len(metas) = 0)
    BY NoneLeft
  <1>2. ASSUME NEW j \in DOMAIN metas
        PROVE  /\ metas[j] \in DOMAIN dgrams' /\ dgrams'[metas[j]].port = "app" /\ metas[j] \in Nat /\ metas[j] <= Len(dgrams) + 1
    <2>1. metas[j] \in DOMAIN dgrams /\ dgrams[metas[j]].port = "app"
      BY DEF MetaJoin
    <2>2. metas[j] \in 1 .. Len(dgrams) /\ Len(dgrams) \in Nat /\ DOMAIN dgrams' = 1 .. Len(dgrams) + 1
      BY <2>1 DEF Grown
    <2>3. dgrams'[metas[j]] = dgrams[metas[j]]
      BY <2>2 DEF Grown
    <2> QED
      BY <2>1, <2>2, <2>3
  <1>3. ASSUME NEW j \in 1 .. Len(metas) - 1
        PROVE  metas[j] < metas[j + 1] /\ NoneBetween(metas[j], metas[j + 1])'
    <2>1. j \in DOMAIN metas /\ j + 1 \in DOMAIN metas
      BY <1>1
    <2>2. metas[j] < metas[j + 1] /\ NoneBetween(metas[j], metas[j + 1])
      BY DEF MetaJoin
    <2>3. metas[j] \in Nat /\ metas[j + 1] \in Int /\ metas[j + 1] <= Len(dgrams) + 1
      BY <1>2, <2>1
    <2> QED
      BY <2>2, <2>3, NoneGrown
  <1>4. ASSUME metas = <<>> PROVE got < p /\ NoneBetween(got, p)'
    <2>1. got < p /\ NoneBetween(got, p)
      BY <1>4 DEF MetaJoin
    <2> QED
      BY <2>1, NoneGrown
  <1>5. ASSUME metas # <<>>
        PROVE  /\ got < metas[1] /\ NoneBetween(got, metas[1])'
               /\ metas[Len(metas)] < p /\ NoneBetween(metas[Len(metas)], p)'
    <2>1. 1 \in DOMAIN metas /\ Len(metas) \in DOMAIN metas
      BY <1>1, <1>5
    <2>2. got < metas[1] /\ NoneBetween(got, metas[1]) /\ metas[Len(metas)] < p /\ NoneBetween(metas[Len(metas)], p)
      BY <1>5 DEF MetaJoin
    <2>3. metas[1] \in Int /\ metas[1] <= Len(dgrams) + 1 /\ metas[Len(metas)] \in Nat /\ p \in Int
      BY <1>2, <2>1
    <2> QED
      BY <2>2, <2>3, NoneGrown
  <1> QED
    BY <1>2, <1>3, <1>4, <1>5 DEF MetaJoin

\* The words of the datagram follow those that are still in front of the multiplexer.
LEMMA JoinIs ==
  ASSUME NEW s \in Seq(Words), NEW t \in Seq(Words)
  PROVE  /\ s \o t \in Seq(Words) /\ Len(s) \in Nat /\ Len(t) \in Nat /\ Len(s \o t) = Len(s) + Len(t)
         /\ DOMAIN (s \o t) = 1 .. Len(s) + Len(t)
         /\ \A j \in 1 .. Len(s) : (s \o t)[j] = s[j]
         /\ \A j \in 1 .. Len(t) : (s \o t)[Len(s) + j] = t[j]
  <1>1. s \o t \in Seq(Words) /\ Len(s \o t) = Len(s) + Len(t) /\ Len(s) \in Nat /\ Len(t) \in Nat
    BY ConcatProperties, LenProperties
  <1>2. DOMAIN (s \o t) = 1 .. Len(s) + Len(t)
    BY <1>1, LenProperties
  <1>3. \A j \in 1 .. Len(s) + Len(t) : (s \o t)[j] = IF j <= Len(s) THEN s[j] ELSE t[j - Len(s)]
    BY <1>1, ConcatProperties
  <1>4. \A j \in 1 .. Len(s) : (s \o t)[j] = s[j]
    BY <1>1, <1>3
  <1>5. ASSUME NEW j \in 1 .. Len(t) PROVE (s \o t)[Len(s) + j] = t[j]
    <2>1. Len(s) + j \in 1 .. Len(s) + Len(t) /\ ~(Len(s) + j <= Len(s)) /\ Len(s) + j - Len(s) = j
      BY <1>1
    <2> QED
      BY <1>3, <2>1
  <1> QED
    BY <1>1, <1>2, <1>4, <1>5

Block(p, n) == [i \in 1 .. n |-> Word(p, i - 1, 8, i = n)]

LEMMA BlockIs ==
  ASSUME NEW p \in Nat, NEW n \in Nat \ {0}
  PROVE  Block(p, n) \in Seq(Words) /\ Len(Block(p, n)) = n
  <1>1. \A i \in 1 .. n : Word(p, i - 1, 8, i = n) \in Words
    BY DEF Word, Words
  <1>2. Block(p, n) \in [1 .. n -> Words]
    BY <1>1 DEF Block
  <1> QED
    BY <1>2, SeqDef, LenProperties DEF Block

\* The words s end with the last one of datagram d; those of datagram d + 1 follow in u.
EndsWith(s, d) ==
  /\ \A j \in 1 .. Len(s) - 1 : Follows(s[j], s[j + 1])
  /\ s # <<>> => s[Len(s)].p = d /\ s[Len(s)].last
Joined(s, u, d, n) ==
  /\ u \in Seq(Words) /\ u # <<>> /\ EndsWith(u, d + 1)
  /\ \A j \in DOMAIN u : (j \in DOMAIN s /\ u[j] = s[j]) \/ \E k \in 1 .. n : u[j] = Word(d + 1, k - 1, 8, k = n)
  /\ IF s = <<>> THEN u[1].p = d + 1 /\ u[1].k = 0 ELSE u[1] = s[1]

LEMMA BlockJoins ==
  ASSUME NEW s \in Seq(Words), NEW d \in Nat, NEW n \in Nat \ {0}, NEW u, u = s \o Block(d + 1, n), EndsWith(s, d)
  PROVE  Joined(s, u, d, n)
  <1> DEFINE b == Block(d + 1, n)
  <1>1. b \in Seq(Words) /\ Len(b) = n
    BY BlockIs
  <1>2. \A j \in 1 .. n : b[j] = Word(d + 1, j - 1, 8, j = n)
    BY DEF Block
  <1>3. \A j \in 1 .. n : b[j].p = d + 1 /\ b[j].k = j - 1 /\ (b[j].last <=> j = n)
    <2> SUFFICES ASSUME NEW j \in 1 .. n PROVE b[j].p = d + 1 /\ b[j].k = j - 1 /\ (b[j].last <=> j = n)
      OBVIOUS
    <2>1. b[j] = Word(d + 1, j - 1, 8, j = n)
      BY <1>2
    <2>2. Word(d + 1, j - 1, 8, j = n).p = d + 1 /\ Word(d + 1, j - 1, 8, j = n).k = j - 1
      BY DEF Word
    <2>3. Word(d + 1, j - 1, 8, j = n).last = (j = n)
      BY DEF Word
    <2> QED
      BY <2>1, <2>2, <2>3, Zenon
  <1> HIDE DEF b
  <1>4. /\ u \in Seq(Words) /\ Len(s) \in Nat /\ Len(b) \in Nat /\ Len(u) = Len(s) + Len(b)
        /\ DOMAIN u = 1 .. Len(s) + Len(b)
        /\ \A j \in 1 .. Len(s) : u[j] = s[j]
        /\ \A j \in 1 .. Len(b) : u[Len(s) + j] = b[j]
    <2>1. u = s \o b
      BY DEF b
    <2>2. /\ s \o b \in Seq(Words) /\ Len(s) \in Nat /\ Len(b) \in Nat /\ Len(s \o b) = Len(s) + Len(b)
          /\ DOMAIN (s \o b) = 1 .. Len(s) + Len(b)
          /\ \A j \in 1 .. Len(s) : (s \o b)[j] = s[j]
          /\ \A j \in 1 .. Len(b) : (s \o b)[Len(s) + j] = b[j]
      BY <1>1, JoinIs
    <2> QED
      BY <2>1, <2>2
  <1>5. DOMAIN s = 1 .. Len(s) /\ (s = <<>> <=> Len(s) = 0)
    BY NoneLeft
  <1> DEFINE c == Len(s)
  <1>6. c \in Nat /\ Len(u) = c + n /\ DOMAIN u = 1 .. c + n /\ \A j \in 1 .. n : u[c + j] = b[j]
    BY <1>1, <1>4
  <1>7. ASSUME NEW j \in 1 .. c + n PROVE j \in 1 .. c \/ \E k \in 1 .. n : j = c + k
    <2> HIDE DEF c
    <2>1. CASE j <= c
      BY <1>6, <2>1
    <2>2. CASE ~(j <= c)
      <3>1. j - c \in 1 .. n /\ j = c + (j - c)
        BY <1>6, <2>2
      <3> QED
        BY <3>1
    <2> QED
      BY <2>1, <2>2
  <1>8. ASSUME NEW j \in DOMAIN u
        PROVE  (j \in DOMAIN s /\ u[j] = s[j]) \/ \E k \in 1 .. n : u[j] = Word(d + 1, k - 1, 8, k = n)
    <2>1. CASE j \in 1 .. c
      BY <1>4, <1>5, <2>1
    <2>2. CASE \E k \in 1 .. n : j = c + k
      <3>1. PICK k \in 1 .. n : j = c + k
        BY <2>2
      <3>2. u[j] = b[k]
        BY <1>6, <3>1
      <3> QED
        BY <1>2, <3>2
    <2> QED
      BY <1>6, <1>7, <2>1, <2>2
  <1>9. ASSUME NEW j \in 1 .. Len(u) - 1 PROVE Follows(u[j], u[j + 1])
    <2>1. j \in 1 .. c + n - 1 /\ j \in 1 .. c + n
      BY <1>6
    <2>2. CASE j \in 1 .. c /\ j # c
      <3>1. j \in 1 .. c - 1 /\ j + 1 \in 1 .. c
        BY <1>6, <2>2
      <3>2. Follows(s[j], s[j + 1])
        BY <3>1 DEF EndsWith
      <3> QED
        BY <1>4, <2>2, <3>1, <3>2
    <2>3. CASE j \in 1 .. c /\ j = c
      <3>1. s # <<>> /\ 1 \in 1 .. n
        BY <1>5, <1>6, <2>3
      <3>2. s[j].p = d /\ s[j].last
        BY <2>3, <3>1 DEF EndsWith
      <3>3. u[j + 1] = b[1] /\ u[j] = s[j]
        BY <1>4, <1>6, <2>3, <3>1
      <3>4. b[1].p = d + 1 /\ b[1].k = 1 - 1
        BY <1>3, <3>1
      <3>5. u[j + 1].p = u[j].p + 1 /\ u[j + 1].k = 0
        BY <3>2, <3>3, <3>4
      <3>6. u[j].last
        BY <3>2, <3>3
      <3> QED
        BY <3>5, <3>6 DEF Follows
    <2>4. CASE \E k \in 1 .. n : j = c + k
      <3>1. PICK k \in 1 .. n : j = c + k
        BY <2>4
      <3>2. k + 1 \in 1 .. n /\ k # n /\ j + 1 = c + (k + 1)
        <4> HIDE DEF c
        <4> QED
          BY <1>6, <2>1, <3>1
      <3>3. u[j] = b[k] /\ u[j + 1] = b[k + 1]
        BY <1>6, <3>1, <3>2
      <3>4. b[k].p = d + 1 /\ b[k].k = k - 1 /\ ~ b[k].last
        BY <1>3, <3>2
      <3>5. b[k + 1].p = d + 1 /\ b[k + 1].k = k + 1 - 1
        BY <1>3, <3>2
      <3>6. k + 1 - 1 = k - 1 + 1
        OBVIOUS
      <3>7. u[j + 1].p = u[j].p /\ u[j + 1].k = u[j].k + 1
        BY <3>3, <3>4, <3>5, <3>6
      <3>8. ~ u[j].last
        BY <3>3, <3>4
      <3> QED
        BY <3>7, <3>8 DEF Follows
    <2> QED
      BY <1>7, <2>1, <2>2, <2>3, <2>4
  <1>10. u # <<>> /\ u[Len(u)].p = d + 1 /\ u[Len(u)].last
    <2>1. n \in 1 .. n /\ Len(u) # 0
      BY <1>6
    <2>2. u[Len(u)] = b[n]
      BY <1>6, <2>1
    <2>3. b[n].p = d + 1 /\ b[n].last
      BY <1>3, <2>1
    <2> QED
      BY <1>4, <2>1, <2>2, <2>3, NoneLeft
  <1>11. IF s = <<>> THEN u[1].p = d + 1 /\ u[1].k = 0 ELSE u[1] = s[1]
    <2>1. CASE s = <<>>
      <3>1. c + 1 = 1 /\ 1 \in 1 .. n
        BY <1>5, <2>1
      <3>2. u[1] = b[1]
        BY <1>6, <3>1
      <3>3. b[1].p = d + 1 /\ b[1].k = 1 - 1
        BY <1>3, <3>1
      <3> QED
        BY <2>1, <3>2, <3>3
    <2>2. CASE s # <<>>
      BY <1>4, <1>5, <2>2
    <2> QED
      BY <2>1, <2>2
  <1>12. EndsWith(u, d + 1)
    BY <1>9, <1>10 DEF EndsWith
  <1> QED
    BY <1>4, <1>8, <1>10, <1>11, <1>12 DEF Joined

\* The metadata that wait are those of the last datagrams.
LEMMA NumberJoins ==
  ASSUME NEW m \in Seq(Nat), NEW d \in Nat, NEW u, u = m \o <<d + 1>>, \A j \in DOMAIN m : m[j] = d - Len(m) + j
  PROVE  \A j \in DOMAIN u : u[j] = (d + 1) - Len(u) + j
  <1> DEFINE c == Len(m)
  <1>1. /\ u \in Seq(Nat) /\ Len(u) = c + 1 /\ c \in Nat
        /\ \A j \in 1 .. c : u[j] = m[j]
        /\ u[c + 1] = d + 1
    BY AppendIs
  <1>2. DOMAIN u = 1 .. c + 1 /\ DOMAIN m = 1 .. c
    <2>1. DOMAIN u = 1 .. Len(u) /\ DOMAIN m = 1 .. c
      BY <1>1, NoneLeft
    <2> QED
      BY <1>1, <2>1
  <1>3. \A j \in 1 .. c : m[j] = d - c + j
    BY <1>2
  <1> HIDE DEF c
  <1>4. ASSUME NEW j \in 1 .. c + 1 PROVE u[j] = (d + 1) - (c + 1) + j
    <2>1. CASE j \in 1 .. c
      BY <1>1, <1>3, <2>1
    <2>2. CASE j = c + 1
      BY <1>1, <2>2
    <2> QED
      BY <1>1, <2>1, <2>2
  <1> QED
    BY <1>1, <1>2, <1>4

\* The place of the multiplexer, and the words in front of it.
LEMMA PlaceTyped ==
  ASSUME ClientsTypeOK, RestInv
  PROVE  Place(AtDgram, AtWord)
  <1>1. cq.rxData \in Seq(Words) /\ dgrams \in Seq(Datagrams) /\ Len(dgrams) \in Nat /\ DOMAIN dgrams = 1 .. Len(dgrams)
    BY FifoIs, LenProperties DEF ClientFifos, FifoType, ClientsTypeOK
  <1>2. CASE cq.rxData = <<>>
    BY <1>1, <1>2 DEF AtDgram, AtWord, Place
  <1>3. CASE cq.rxData # <<>>
    <2>1. cq.rxData[1] \in Words /\ 1 \in DOMAIN cq.rxData
      BY <1>1, <1>3, TailIs
    <2>2. Real(cq.rxData[1])
      BY <2>1 DEF RestInv
    <2>3. cq.rxData[1].p \in 1 .. Len(dgrams) /\ cq.rxData[1].k \in Nat
      BY <1>1, <2>1, <2>2 DEF Real, Words
    <2> QED
      BY <1>1, <1>3, <2>3 DEF AtDgram, AtWord, Place
  <1> QED
    BY <1>2, <1>3

LEMMA RestGrows ==
  ASSUME ClientsTypeOK, RestInv, NEW g \in Datagrams, Grown, dgrams'[Len(dgrams) + 1] = g,
         cq'.rxData = cq.rxData \o Block(Len(dgrams) + 1, g.words), cq'.rxMeta = cq.rxMeta \o <<Len(dgrams) + 1>>
  PROVE  RestInv' /\ AtDgram' = AtDgram /\ AtWord' = AtWord /\ cq'.rxData \in Seq(Words)
  <1>1. cq.rxData \in Seq(Words) /\ cq.rxMeta \in Seq(Nat)
    BY FifoIs DEF ClientFifos, FifoType
  <1>2. Len(dgrams) \in Nat /\ g.words \in Nat \ {0} /\ Len(dgrams') = Len(dgrams) + 1 /\ Len(dgrams) + 1 \in DOMAIN dgrams'
    BY DEF Grown, Datagrams
  <1>3. /\ \A j \in DOMAIN cq.rxData : Real(cq.rxData[j])
        /\ \A j \in 1 .. Len(cq.rxData) - 1 : Follows(cq.rxData[j], cq.rxData[j + 1])
        /\ cq.rxData # <<>> => cq.rxData[Len(cq.rxData)].p = Len(dgrams) /\ cq.rxData[Len(cq.rxData)].last
        /\ \A j \in DOMAIN cq.rxMeta : cq.rxMeta[j] = Len(dgrams) - Len(cq.rxMeta) + j
    BY DEF RestInv
  <1> DEFINE n == g.words
             d == Len(dgrams)
             s == cq.rxData
             m == cq.rxMeta
             u == cq'.rxData
             v == cq'.rxMeta
  <1>4. /\ u \in Seq(Words) /\ u # <<>> /\ u[Len(u)].p = d + 1 /\ u[Len(u)].last
        /\ \A j \in 1 .. Len(u) - 1 : Follows(u[j], u[j + 1])
        /\ \A j \in DOMAIN u : (j \in DOMAIN s /\ u[j] = s[j]) \/ \E k \in 1 .. n : u[j] = Word(d + 1, k - 1, 8, k = n)
        /\ IF s = <<>> THEN u[1].p = d + 1 /\ u[1].k = 0 ELSE u[1] = s[1]
    <2>1. /\ s \in Seq(Words) /\ d \in Nat /\ n \in Nat \ {0} /\ u = s \o Block(d + 1, n)
          /\ EndsWith(s, d)
      BY <1>1, <1>2, <1>3 DEF EndsWith
    <2> HIDE DEF n, d, s, u
    <2>2. Joined(s, u, d, n)
      BY <2>1, BlockJoins
    <2> QED
      BY <2>2 DEF Joined, EndsWith
  <1>5. \A j \in DOMAIN v : v[j] = (d + 1) - Len(v) + j
    <2>1. /\ m \in Seq(Nat) /\ d \in Nat /\ v = m \o <<d + 1>>
          /\ \A j \in DOMAIN m : m[j] = d - Len(m) + j
      BY <1>1, <1>2, <1>3
    <2> HIDE DEF d, m, v
    <2> QED
      BY <2>1, NumberJoins
  <1>6. ASSUME NEW k \in 1 .. n, NEW w, w = Word(d + 1, k - 1, 8, k = n) PROVE Real(w)'
    <2>1. w.p = d + 1 /\ w.k = k - 1
      BY <1>6 DEF Word
    <2>2. k - 1 \in 0 .. n - 1 /\ (k = n <=> k - 1 + 1 = n)
      BY <1>2
    <2>3. dgrams'[w.p].words = n /\ w.p \in DOMAIN dgrams'
      BY <1>2, <2>1
    <2>4. w = Word(w.p, w.k, 8, w.k + 1 = dgrams'[w.p].words)
      BY <1>6, <2>1, <2>2, <2>3, Zenon
    <2>5. w.k \in 0 .. dgrams'[w.p].words - 1
      BY <2>1, <2>2, <2>3
    <2> QED
      BY <2>3, <2>4, <2>5 DEF Real
  <1>7. ASSUME NEW j \in DOMAIN u PROVE Real(cq.rxData[j])'
    <2>1. CASE j \in DOMAIN s /\ u[j] = s[j]
      <3>1. Real(s[j])
        BY <1>3, <2>1
      <3>2. ASSUME NEW w, Real(w) PROVE Real(w)'
        BY <3>2, RealGrown
      <3> QED
        BY <2>1, <3>1, <3>2
    <2>2. CASE \E k \in 1 .. n : u[j] = Word(d + 1, k - 1, 8, k = n)
      BY <1>6, <2>2
    <2> QED
      BY <1>4, <2>1, <2>2
  <1>8. RestInv'
    <2>1. \A x, y : Follows(x, y)' <=> Follows(x, y)
      BY DEF Follows
    <2> QED
      BY <1>2, <1>4, <1>5, <1>7, <2>1 DEF RestInv
  <1>9. AtDgram' = AtDgram /\ AtWord' = AtWord
    BY <1>4 DEF AtDgram, AtWord
  <1> QED
    BY <1>4, <1>8, <1>9

\* The messages received are not forgotten, and the words of the DHCP client join up as before.
LEMMA SaidGrown ==
  ASSUME Grown
  PROVE  /\ Proper' => Proper
         /\ \A m : Said(m) => Said(m)'
         /\ \A id, a : Granted(id, a) => Granted(id, a)'
  <1>1. \A p \in DOMAIN dgrams : p \in DOMAIN dgrams' /\ dgrams'[p] = dgrams[p]
    BY DEF Grown
  <1>2. \A p \in DOMAIN dgrams : \A id, type : ToMe(p, id, type)' <=> ToMe(p, id, type)
    BY <1>1 DEF ToMe
  <1>3. Proper' => Proper
    BY <1>1 DEF Proper
  <1>4. \A m : Said(m) => Said(m)'
    BY <1>1, <1>2 DEF Said
  <1>5. \A id, a : Granted(id, a) => Granted(id, a)'
    BY <1>1, <1>2 DEF Granted
  <1> QED
    BY <1>3, <1>4, <1>5

LEMMA DataJoinGrown ==
  ASSUME Grown, rm' = rm, NEW data \in Seq(Words), NEW p, NEW k, Place(p, k), DataJoin(data, p, k),
         \A j \in DOMAIN data : Real(data[j])
  PROVE  DataJoin(data, p, k)'
  <1>1. Len(data) \in Nat /\ DOMAIN data = 1 .. Len(data) /\ (data = <<>> <=> Len(data) = 0)
    BY NoneLeft
  <1>2. ASSUME NEW q, NEW i, Place(q, i)
        PROVE  (ReadUpTo(q, i)' <=> ReadUpTo(q, i)) /\ \A x : Then(x, q, i)' <=> Then(x, q, i)
    <2>1. i > 0 => dgrams'[q] = dgrams[q]
      <3>1. ASSUME i > 0 PROVE q \in 1 .. Len(dgrams)
        BY <1>2, <3>1 DEF Place, Grown
      <3> QED
        BY <3>1 DEF Grown
    <2>2. Inside(q, i)' <=> Inside(q, i)
      BY <2>1 DEF Inside
    <2>3. \A x : Then(x, q, i)' <=> Then(x, q, i)
      BY <2>2 DEF Then
    <2>4. ReadUpTo(q, i)' <=> ReadUpTo(q, i)
      <3>1. CASE Inside(q, i)
        BY <2>1, <2>2, <3>1 DEF ReadUpTo, Fits, Inside
      <3>2. CASE ~ Inside(q, i)
        BY <2>2, <3>2 DEF ReadUpTo
      <3> QED
        BY <3>1, <3>2
    <2> QED
      BY <2>3, <2>4
  <1>3. ASSUME NEW j \in 1 .. Len(data) PROVE Place(data[j].p, data[j].k)
    <2>1. data[j] \in Words /\ Real(data[j])
      BY <1>1
    <2> QED
      BY <2>1, RealPlace
  <1>4. \A j \in 1 .. Len(data) - 1 : Then(data[j], data[j + 1].p, data[j + 1].k)'
    <2> SUFFICES ASSUME NEW j \in 1 .. Len(data) - 1 PROVE Then(data[j], data[j + 1].p, data[j + 1].k)'
      OBVIOUS
    <2>1. j + 1 \in 1 .. Len(data)
      BY <1>1
    <2>2. Then(data[j], data[j + 1].p, data[j + 1].k)
      BY DEF DataJoin
    <2> QED
      BY <1>2, <1>3, <2>1, <2>2
  <1>5. CASE data = <<>>
    <2>1. ReadUpTo(p, k)
      BY <1>5 DEF DataJoin
    <2>2. ReadUpTo(p, k)'
      BY <1>2, <2>1
    <2> QED
      BY <1>4, <1>5, <2>2 DEF DataJoin
  <1>6. CASE data # <<>>
    <2>1. 1 \in 1 .. Len(data)
      BY <1>1, <1>6
    <2>2. ReadUpTo(data[1].p, data[1].k) /\ Then(data[Len(data)], p, k)
      BY <1>6 DEF DataJoin
    <2>3. ReadUpTo(data[1].p, data[1].k)' /\ Then(data[Len(data)], p, k)'
      BY <1>2, <1>3, <2>1, <2>2
    <2> QED
      BY <1>4, <1>6, <2>3 DEF DataJoin
  <1> QED
    BY <1>5, <1>6

LEMMA Together ==
  ASSUME NEW r \in Nat, NEW d \in Nat, NEW at \in Nat, NEW e \in Int, r = d + 1 - at - e
  PROVE  r + 1 = (d + 1) + 1 - at - e
  OBVIOUS

LEMMA ReceiveStep ==
  ASSUME ClientsInv, NEW g \in Datagrams, Receive(g)
  PROVE  ClientsInv'
  <1>1. ClientsTypeOK /\ StreamInv /\ PortInv /\ DhcpInv /\ AddressGranted
    BY InvParts
  <1>2. UNCHANGED <<muxRx, muxPort, rxShim, opened, odp, rm, dhcp, dhcpEnable, toggles, asked>> /\ dgrams' = Append(dgrams, g)
    BY DEF Receive, DhcpKeeps
  <1>3. dgrams \in Seq(Datagrams) /\ cq.rxMeta \in Seq(Nat) /\ cq.rxData \in Seq(Words) /\ cq.metaApp \in Seq(Nat)
        /\ cq.dataApp \in Seq(Words) /\ cq.appOut \in Seq(OutWords)
    BY <1>1, FifoIs DEF ClientFifos, FifoType, ClientsTypeOK, OutWords
  <1>4. Grown /\ dgrams'[Len(dgrams) + 1] = g /\ Len(dgrams) + 1 \in Nat
    BY <1>2, <1>3, ReceivedGrows DEF Grown
  <1>5. /\ cq' = [f \in ClientFifos |-> cq'[f]]
        /\ \A f \in ClientFifos \ {"rxMeta", "rxData"} : cq'[f] = cq[f]
        /\ cq'.rxMeta = cq.rxMeta \o <<Len(dgrams) + 1>>
        /\ cq'.rxData = cq.rxData \o Block(Len(dgrams) + 1, g.words)
    <2>1. cq' = [cq EXCEPT !.rxMeta = Append(cq.rxMeta, Len(dgrams) + 1),
                           !.rxData = cq.rxData \o Block(Len(dgrams) + 1, g.words)]
      BY DEF Receive, Block
    <2>2. DOMAIN cq = ClientFifos
      BY <1>1 DEF ClientsTypeOK
    <2>3. Append(cq.rxMeta, Len(dgrams) + 1) = cq.rxMeta \o <<Len(dgrams) + 1>>
      BY <1>3, <1>4, AppendIsConcat
    <2> QED
      BY <2>1, <2>2, <2>3 DEF ClientFifos
  <1>6. RestInv' /\ AtDgram' = AtDgram /\ AtWord' = AtWord /\ cq'.rxData \in Seq(Words)
    BY <1>1, <1>4, <1>5, RestGrows DEF StreamInv
  <1>7. cq'.rxMeta \in Seq(Nat) /\ Len(cq'.rxMeta) = Len(cq.rxMeta) + 1 /\ Len(cq.rxMeta) \in Nat
    BY <1>3, <1>4, <1>5, AppendIs
  <1>8. ClientsTypeOK'
    <2>1. ASSUME NEW f \in ClientFifos PROVE cq'[f] \in Seq(FifoType(f))
      <3>1. CASE f = "rxMeta"
        BY <1>7, <3>1 DEF FifoType
      <3>2. CASE f = "rxData"
        BY <1>6, <3>2 DEF FifoType
      <3>3. CASE f \in ClientFifos \ {"rxMeta", "rxData"}
        BY <1>1, <1>5, <3>3, FifoIs
      <3> QED
        BY <3>1, <3>2, <3>3
    <2>2. dgrams' \in Seq(Datagrams)
      BY <1>4 DEF Grown
    <2> QED
      BY <1>1, <1>2, <1>5, <2>1, <2>2 DEF ClientsTypeOK
  <1>9. \A f \in {"dataApp", "metaApp", "appOut", "replyMeta", "dataDhcp", "openOut", "replyIn", "openDhcp", "openApp",
                  "replyApp", "replyDhcp", "portOpen"} : cq'[f] = cq[f]
    BY <1>5 DEF ClientFifos
  <1>10. Place(AtDgram, AtWord) /\ AtDgram \in Nat /\ NextMeta \in Nat /\ Len(dgrams) \in Nat
    BY <1>1, <1>4, PlaceTyped, NextMetaType DEF StreamInv, Grown
  <1>11. /\ Passing' = Passing /\ NextMeta' = NextMeta /\ NextMeta <= Len(dgrams) + 1
         /\ Passing => AtDgram \in DOMAIN dgrams' /\ dgrams'[AtDgram].port = muxRx.source
    <2>1. Passing' = Passing
      BY <1>2 DEF Passing
    <2>2. NextMeta' = NextMeta
      BY <1>6, <2>1 DEF NextMeta
    <2>3. ASSUME Passing
          PROVE  AtDgram \in 1 .. Len(dgrams) /\ dgrams[AtDgram].port = muxRx.source
      BY <1>1, <1>4, <2>3 DEF StreamInv, MuxInv, Grown
    <2>4. NextMeta <= Len(dgrams) + 1
      BY <1>10, <2>3 DEF NextMeta, Place
    <2>5. Passing => AtDgram \in DOMAIN dgrams' /\ dgrams'[AtDgram].port = muxRx.source
      BY <1>4, <1>10, <2>3 DEF Grown
    <2> QED
      BY <2>1, <2>2, <2>4, <2>5
  <1>12. MuxInv'
    <2>1. Len(cq.rxMeta) = Len(dgrams) + 1 - AtDgram - (IF Passing THEN 1 ELSE 0)
      BY <1>1 DEF StreamInv, MuxInv
    <2>2. Len(dgrams') = Len(dgrams) + 1
      BY <1>4 DEF Grown
    <2>3. Len(cq'.rxMeta) = Len(dgrams') + 1 - AtDgram - (IF Passing THEN 1 ELSE 0)
      <3>1. ASSUME NEW e \in {0, 1}, Len(cq.rxMeta) = Len(dgrams) + 1 - AtDgram - e
            PROVE  Len(cq.rxMeta) + 1 = (Len(dgrams) + 1) + 1 - AtDgram - e
        BY <1>7, <1>10, <3>1, Together
      <3> QED
        BY <1>7, <2>1, <2>2, <3>1
    <2>4. muxRx'.st # "ACC" => AtWord = 0
      BY <1>1, <1>2 DEF StreamInv, MuxInv
    <2> QED
      BY <1>2, <1>6, <1>11, <2>3, <2>4 DEF MuxInv
  <1>13. AppInv'
    <2> DEFINE out == cq.appOut
               data == cq.dataApp
               p == AtDgram
               i == AtWord
    <2>1. out \in Seq(OutWords) /\ data \in Seq(Words) /\ Place(p, i) /\ WordsJoin(out, data, p, i)
      BY <1>1, <1>3, <1>10 DEF StreamInv, AppInv
    <2>2. ASSUME NEW o \in Seq(OutWords), NEW e \in Seq(Words), NEW q, NEW k, Place(q, k), WordsJoin(o, e, q, k)
          PROVE  WordsJoin(o, e, q, k)'
      BY <1>4, <2>2, WordsJoinGrown
    <2>3. cq'.appOut = out /\ cq'.dataApp = data /\ AtDgram' = p /\ AtWord' = i
      BY <1>6, <1>9
    <2> QED
      BY <2>1, <2>2, <2>3 DEF AppInv
  <1>14. MetaInv'
    <2>1. LastGot' = LastGot /\ LastGot \in Nat
      BY <1>1, <1>9, LastGotType DEF LastGot
    <2>2. MetaJoin(LastGot, cq.metaApp, NextMeta)
      BY <1>1 DEF StreamInv, MetaInv
    <2>3. ASSUME NEW got \in Nat, NEW m \in Seq(Nat), NEW q \in Nat, q <= Len(dgrams) + 1, MetaJoin(got, m, q)
          PROVE  MetaJoin(got, m, q)'
      BY <1>4, <2>3, MetaJoinGrown
    <2>4. cq'.metaApp = cq.metaApp
      BY <1>9
    <2> QED
      BY <1>3, <1>10, <1>11, <2>1, <2>2, <2>3, <2>4 DEF MetaInv
  <1>15. ShimInv' /\ PortInv'
    <2>1. ShimInv'
      BY <1>1, <1>2, <1>9 DEF StreamInv, ShimInv
    <2>2. PortKept
      BY <1>2, <1>9 DEF PortKept
    <2> QED
      BY <1>1, <2>1, <2>2, PortFrame
  <1>16. DhcpInv'
    <2>1. (Proper' => Proper) /\ \A m : Said(m) => Said(m)'
      BY <1>4, SaidGrown
    <2>2. cq'.replyMeta = cq.replyMeta /\ cq'.dataDhcp = cq.dataDhcp /\ dhcp' = dhcp
      BY <1>2, <1>9
    <2>3. ASSUME NEW w, Real(w) PROVE Real(w)' /\ dgrams'[w.p] = dgrams[w.p]
      BY <1>4, <2>3, RealGrown
    <2>4. \A j \in DOMAIN cq'.dataDhcp : Real(cq.dataDhcp[j])' /\ dgrams'[cq'.dataDhcp[j].p].port = "dhcp"
      BY <1>1, <2>2, <2>3 DEF DhcpInv
    <2>5. ASSUME Proper PROVE DataJoin(cq.dataDhcp, AtDgram, AtWord)'
      <3>1. cq.dataDhcp \in Seq(Words)
        BY <1>1, FifoIs DEF ClientFifos, FifoType
      <3>2. DataJoin(cq.dataDhcp, AtDgram, AtWord) /\ \A j \in DOMAIN cq.dataDhcp : Real(cq.dataDhcp[j])
        BY <1>1, <2>5 DEF DhcpInv
      <3>3. ASSUME NEW d \in Seq(Words), NEW q, NEW k, Place(q, k), DataJoin(d, q, k), \A j \in DOMAIN d : Real(d[j])
            PROVE  DataJoin(d, q, k)'
        BY <1>2, <1>4, <3>3, DataJoinGrown
      <3> QED
        BY <1>6, <1>10, <2>2, <3>1, <3>2, <3>3
    <2>6. ASSUME Proper'
          PROVE  /\ \A j \in DOMAIN cq'.replyMeta : Said(cq.replyMeta[j])'
                 /\ dhcp'.st = "REQUESTING" => Said(Message(dhcp.id, "OFFER", dhcp.buffer))'
      <3>1. /\ \A j \in DOMAIN cq.replyMeta : Said(cq.replyMeta[j])
            /\ dhcp.st = "REQUESTING" => Said(Message(dhcp.id, "OFFER", dhcp.buffer))
        BY <1>1, <2>1, <2>6 DEF DhcpInv
      <3> QED
        BY <2>1, <2>2, <3>1 DEF Message
    <2> QED
      BY <1>1, <2>1, <2>2, <2>4, <2>5, <2>6 DEF DhcpInv
  <1>17. AddressGranted'
    <2>1. (Proper' => Proper) /\ \A id, a : Granted(id, a) => Granted(id, a)'
      BY <1>4, SaidGrown
    <2> QED
      BY <1>1, <1>2, <2>1 DEF AddressGranted
  <1>18. StreamInv'
    BY <1>6, <1>12, <1>13, <1>14, <1>15 DEF StreamInv
  <1> QED
    BY <1>8, <1>15, <1>16, <1>17, <1>18, PartsInv

LEMMA ServerAnswersStep ==
  ASSUME ClientsInv, ServerAnswers
  PROVE  ClientsInv'
  <1>1. ClientsTypeOK
    BY InvParts
  <1>2. PICK m \in asked, f \in Forms, type \in Types, ip \in Addresses :
          \E beyond \in {Contents(f, m.id, type, ip), NoContents} :
            Receive([port |-> "dhcp", words |-> f.words, msg |-> Contents(f, m.id, type, ip), beyond |-> beyond])
    BY DEF ServerAnswers
  <1> DEFINE c == Contents(f, m.id, type, ip)
  <1>3. c \in ContentsSet /\ NoContents \in ContentsSet
    <2>1. m.id \in Nat /\ f \in [words : Nat \ {0}, reply : BOOLEAN, mac : BOOLEAN, cookie : BOOLEAN, first : BOOLEAN]
      BY <1>1, ClientAssumption DEF ClientsTypeOK, Messages
    <2> QED
      BY <2>1 DEF Contents, NoContents, ContentsSet, AllTypes, AllAddresses
  <1>4. f.words \in Nat \ {0}
    BY ClientAssumption
  <1>5. PICK beyond \in {c, NoContents} : Receive([port |-> "dhcp", words |-> f.words, msg |-> c, beyond |-> beyond])
    BY <1>2
  <1> HIDE DEF c
  <1> DEFINE g == [port |-> "dhcp", words |-> f.words, msg |-> c, beyond |-> beyond]
  <1>6. g \in Datagrams
    BY <1>3, <1>4 DEF Datagrams, Ports
  <1>7. Receive(g)
    BY <1>5
  <1> HIDE DEF g
  <1> QED
    BY <1>6, <1>7, ReceiveStep

LEMMA AppDatagramStep ==
  ASSUME ClientsInv, AppDatagram
  PROVE  ClientsInv'
  <1>1. PICK n \in AppWords : Receive([port |-> "app", words |-> n, msg |-> NoContents, beyond |-> NoContents])
    BY DEF AppDatagram
  <1> DEFINE g == [port |-> "app", words |-> n, msg |-> NoContents, beyond |-> NoContents]
  <1>2. NoContents \in ContentsSet
    BY DEF NoContents, ContentsSet, AllTypes, AllAddresses
  <1>3. g \in Datagrams
    BY <1>2, ClientAssumption DEF Datagrams, Ports
  <1>4. Receive(g)
    BY <1>1
  <1> HIDE DEF g
  <1> QED
    BY <1>3, <1>4, ReceiveStep

-----------------------------------------------------------------------------
(* The theorem.                                                            *)

LEMMA EmptyIsSeq ==
  ASSUME NEW S
  PROVE  <<>> \in Seq(S)
  OBVIOUS

LEMMA ClientsStart ==
  ASSUME InitClients
  PROVE  ClientsInv
  <1>1. /\ dgrams = <<>> /\ cq = [f \in ClientFifos |-> <<>>] /\ asked = {} /\ opened = {}
        /\ muxRx = [st |-> "IDLE", source |-> "dhcp"] /\ muxPort = [busy |-> FALSE, source |-> "dhcp"] /\ rxShim = "IDLE"
        /\ rm = [reply |-> FALSE, mac |-> TRUE, isDHCP |-> FALSE, count |-> 0, id |-> 0, ip |-> Zero, type |-> "none"]
        /\ dhcp = [st |-> "PORT_WAIT", id |-> 0, ip |-> Zero, buffer |-> Zero, time |-> 1, next |-> 1, out |-> Zero]
    BY DEF InitClients
  <1>2. \A f \in ClientFifos : cq[f] = <<>>
    BY <1>1
  <1>3. /\ cq.rxData = <<>> /\ cq.rxMeta = <<>> /\ cq.dataApp = <<>> /\ cq.metaApp = <<>> /\ cq.appOut = <<>>
        /\ cq.replyMeta = <<>> /\ cq.dataDhcp = <<>> /\ cq.openOut = <<>> /\ cq.replyIn = <<>> /\ cq.openDhcp = <<>>
        /\ cq.openApp = <<>> /\ cq.replyApp = <<>> /\ cq.replyDhcp = <<>> /\ cq.portOpen = <<>>
    BY <1>2 DEF ClientFifos
  <1>4. Len(<<>>) = 0 /\ DOMAIN <<>> = {}
    OBVIOUS
  <1>5. ClientsTypeOK
    <2>1. \A f \in ClientFifos : cq[f] \in Seq(FifoType(f))
      BY <1>2, EmptyIsSeq
    <2>2. cq = [f \in ClientFifos |-> cq[f]]
      BY <1>1
    <2>3. dgrams \in Seq(Datagrams) /\ asked \in SUBSET Messages
      BY <1>1
    <2>4. muxRx \in [st : {"IDLE", "FIRST", "ACC"}, source : Ports] /\ muxPort \in [busy : BOOLEAN, source : Ports]
      BY <1>1 DEF Ports
    <2>5. dhcp \in DhcpStates /\ rm \in RmStates
      <3>1. 0 \in 0 .. Len(Layout) - 1
        BY ClientAssumption, LenProperties, EmptySeq
      <3> QED
        BY <1>1, <3>1 DEF DhcpStates, RmStates, AllAddresses, AllTypes
    <2> QED
      BY <1>1, <2>1, <2>2, <2>3, <2>4, <2>5 DEF ClientsTypeOK
  <1>6. AtDgram = 1 /\ AtWord = 0 /\ ~ Passing /\ NextMeta = 1 /\ LastGot = 0
    BY <1>1, <1>3, <1>4 DEF AtDgram, AtWord, Passing, NextMeta, LastGot
  <1>7. RestInv /\ MuxInv
    <2>1. RestInv
      BY <1>3, <1>4 DEF RestInv
    <2>2. MuxInv
      BY <1>1, <1>3, <1>4, <1>6 DEF MuxInv
    <2> QED
      BY <2>1, <2>2
  <1>8. NoneBetween(0, 1)
    BY DEF NoneBetween
  <1>9. AppInv /\ MetaInv
    <2>1. AppInv
      BY <1>3, <1>4, <1>6, <1>8 DEF AppInv, WordsJoin, GotUpTo
    <2>2. MetaInv
      BY <1>3, <1>4, <1>6, <1>8 DEF MetaInv, MetaJoin
    <2> QED
      BY <2>1, <2>2
  <1>10. ShimInv /\ PortInv
    <2>1. ShimInv
      BY <1>1, <1>3 DEF ShimInv
    <2>2. PortInv
      BY <1>1, <1>3, <1>4 DEF PortInv
    <2> QED
      BY <2>1, <2>2
  <1>11. DhcpInv /\ AddressGranted
    <2>1. DhcpInv
      BY <1>1, <1>3, <1>4, <1>6 DEF DhcpInv, DataJoin, ReadUpTo, Inside
    <2>2. AddressGranted
      BY <1>1 DEF AddressGranted
    <2> QED
      BY <2>1, <2>2
  <1> QED
    BY <1>5, <1>7, <1>9, <1>10, <1>11 DEF ClientsInv

LEMMA ClientsStep ==
  ASSUME ClientsInv, [NextClients]_clvars
  PROVE  ClientsInv'
  <1>1. CASE NextClients
    BY <1>1, ServerAnswersStep, AppDatagramStep, PortOpensStep, MuxRxStep, PortPathStep, RxPathStep, OpenDhcpStep,
       ReceiveMessageStep, DhcpFsmStep, ToggleStep DEF NextClients
  <1>2. CASE UNCHANGED clvars
    <2>1. ClientsTypeOK /\ StreamInv /\ PortInv /\ DhcpInv /\ AddressGranted
      BY InvParts
    <2>2. UNCHANGED <<dgrams, cq, muxRx, muxPort, rxShim, odp, rm, dhcp, opened, asked>>
      BY <1>2 DEF clvars
    <2>3. ClientsTypeOK'
      BY <2>1, <2>2 DEF ClientsTypeOK
    <2>4. StreamKept /\ PortKept /\ DhcpKept
      BY <2>2 DEF StreamKept, PortKept, DhcpKept
    <2> QED
      BY <2>1, <2>2, <2>3, <2>4, StreamFrame, PortFrame, DhcpFrame, PartsInv
  <1> QED
    BY <1>1, <1>2

LEMMA InvIsSound ==
  ASSUME ClientsInv
  PROVE  ClientsSound
  <1>1. AppInv /\ PortInv /\ DhcpInv /\ AddressGranted
    BY DEF ClientsInv
  <1>2. \A n \in DOMAIN cq.appOut : InPlace(cq.appOut, n)
    BY <1>1 DEF AppInv, WordsJoin
  <1>3. \A i \in DOMAIN cq.dataDhcp : dgrams[cq.dataDhcp[i].p].port = "dhcp"
    BY <1>1 DEF DhcpInv
  <1>4. /\ rxShim \in {"ACC_FIRST", "ACC"} => "app" \in opened
        /\ dhcp.st # "PORT_WAIT" => "dhcp" \in opened
    BY <1>1 DEF PortInv
  <1> QED
    BY <1>1, <1>2, <1>3, <1>4 DEF ClientsSound, ClientsSeparate

\* As long as messages have the form receive_message assumes, the address that the DHCP client uses was
\* offered to it and acknowledged in one transaction of its own, however late, often or mixed the answers
\* come and whatever address the acknowledgement carries; and memcached sees exactly its datagrams, whole,
\* in order and each with its own metadata (dhcp_client.cpp:59-127, 236-328, udpAppMux.cpp:31-182,
\* udpShim.cpp), for any number, length and content of datagrams, any layout of the fields, any depth of
\* the FIFOs and any timeout.
THEOREM ClientsAreSound == SpecClients => []ClientsSound
  <1>1. InitClients => ClientsInv
    BY ClientsStart
  <1>2. ClientsInv /\ [NextClients]_clvars => ClientsInv'
    BY ClientsStep
  <1>3. ClientsInv => ClientsSound
    BY InvIsSound
  <1> QED
    BY <1>1, <1>2, <1>3, PTL DEF SpecClients
=============================================================================
