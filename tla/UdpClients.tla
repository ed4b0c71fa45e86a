----------------------------- MODULE UdpClients -----------------------------
(***************************************************************************)
(* The users of the UDP engine: udpAppMux.cpp shares its receive path and  *)
(* its port requests between the DHCP client (dhcp_client.cpp) and the     *)
(* memcached shim (udpShim.cpp). Datagram p is a record of its port, its   *)
(* number of words and, for DHCP, the message. The port table and the DHCP *)
(* servers are outside: a server answers a transaction with any type and   *)
(* any address, late, more than once or never, to this client or another   *)
(* one, in a message of any form. randomValue is counted, so every         *)
(* transaction has an identifier of its own.                               *)
(***************************************************************************)
EXTENDS Streams

CONSTANTS
  AppWords,     \* lengths of memcached datagrams in words
  Layout,       \* the fields in each of the 64 words that rm_wordCount tells apart
  Forms,        \* forms of the messages received: length in words, reply flag, MAC and cookie right, option 53 first
  Addresses,    \* addresses that DHCP servers offer
  Types,        \* types of their messages
  Static,       \* inputIpAddress
  TIME_5S,      \* the timeout in calls of dhcp_fsm
  MaxDatagrams, \* bound on the datagrams received
  MaxTries,     \* bound on the transactions
  MaxToggles,   \* bound on the changes of dhcpEnable
  ClientDepth   \* depth of each bounded FIFO

ASSUME ClientAssumption ==
  /\ TIME_5S \in Nat /\ MaxTries \in Nat /\ Static \notin Addresses
  /\ Layout \in Seq(SUBSET {"id", "ip", "mac", "cookie", "type"}) /\ Layout # <<>>
  /\ \A i \in 1 .. Len(Layout) : "id" \in Layout[i] <=> i = 1
  /\ Forms \subseteq [words : Nat \ {0}, reply : BOOLEAN, mac : BOOLEAN, cookie : BOOLEAN, first : BOOLEAN]
  /\ AppWords \subseteq Nat \ {0}

VARIABLES
  dgrams,    \* the datagrams received so far
  cq,        \* the FIFOs
  muxRx,     \* statics of appMuxRxPath
  muxPort,   \* statics of appMuxPortPath
  rxShim,    \* state of rxPath
  odp,       \* statics of open_dhcp_port
  rm,        \* statics of receive_message
  dhcp,      \* statics of dhcp_fsm, and its output
  dhcpEnable, toggles,
  opened,    \* ports that are open
  asked      \* messages the client has sent

clvars == <<dgrams, cq, muxRx, muxPort, rxShim, odp, rm, dhcp, dhcpEnable, toggles, opened, asked>>

ClientFifos == {"rxData", "rxMeta", "dataDhcp", "metaDhcp", "dataApp", "metaApp", "openDhcp", "openApp", "openOut",
                "replyIn", "replyDhcp", "replyApp", "portOpen", "replyMeta", "appOut"}

Zero == "0.0.0.0"

\* time is 100 calls in the code.
InitClients ==
  /\ dgrams = <<>> /\ cq = [f \in ClientFifos |-> <<>>]
  /\ muxRx = [st |-> "IDLE", source |-> "dhcp"] /\ muxPort = [busy |-> FALSE, source |-> "dhcp"]
  /\ rxShim = "IDLE" /\ odp = [time |-> TIME_5S, waiting |-> FALSE, done |-> FALSE]
  /\ rm = [reply |-> FALSE, mac |-> TRUE, isDHCP |-> FALSE, count |-> 0, id |-> 0, ip |-> Zero, type |-> "none"]
  /\ dhcp = [st |-> "PORT_WAIT", id |-> 0, ip |-> Zero, buffer |-> Zero, time |-> 1, next |-> 1, out |-> Zero]
  /\ dhcpEnable \in BOOLEAN /\ toggles = 0 /\ opened = {} /\ asked = {}

ClientCalls(ins, p) == Possible(cq, ClientDepth, ins, p) /\ cq' = Passed(cq, ins, p) /\ UNCHANGED dgrams
DhcpKeeps == UNCHANGED <<odp, rm, dhcp, dhcpEnable, toggles, asked>>

-----------------------------------------------------------------------------
(* Outside: the UDP engine and the DHCP servers.                           *)

\* The engine passes datagrams to open ports on.
Receive(g) ==
  /\ Len(dgrams) < MaxDatagrams /\ g.port \in opened
  /\ LET p == Len(dgrams) + 1
     IN /\ dgrams' = Append(dgrams, g)
        /\ cq' = [cq EXCEPT !.rxMeta = Append(@, p), !.rxData = @ \o [i \in 1 .. g.words |-> Word(p, i - 1, 8, i = g.words)]]
  /\ UNCHANGED <<muxRx, muxPort, rxShim, opened>> /\ DhcpKeeps

Message(id, type, ip) == [id |-> id, type |-> type, ip |-> ip]

\* What a message of form f says where receive_message looks for it.
Contents(f, id, type, ip) ==
  [id |-> id, ip |-> ip, type |-> IF f.first THEN type ELSE "none", reply |-> f.reply, mac |-> f.mac, cookie |-> f.cookie]
NoContents == [id |-> 0, ip |-> Zero, type |-> "none", reply |-> FALSE, mac |-> FALSE, cookie |-> FALSE]

\* Words past the last position of Layout hold options, which may look like anything.
ServerAnswers ==
  \E m \in asked, f \in Forms, type \in Types, ip \in Addresses :
    LET c == Contents(f, m.id, type, ip)
    IN \E beyond \in {c, NoContents} :
         /\ f.words <= Len(Layout) => beyond = NoContents
         /\ Receive([port |-> "dhcp", words |-> f.words, msg |-> c, beyond |-> beyond])

AppDatagram == \E n \in AppWords : Receive([port |-> "app", words |-> n, msg |-> NoContents, beyond |-> NoContents])

PortOpens ==
  /\ cq.openOut # <<>>
  /\ ClientCalls({"openOut"}, [replyIn |-> <<Head(cq.openOut) \notin opened>>])
  /\ opened' = opened \cup {Head(cq.openOut)}
  /\ UNCHANGED <<muxRx, muxPort, rxShim>> /\ DhcpKeeps

-----------------------------------------------------------------------------
(* udpAppMux and udpShim.                                                  *)

ToData(a) == IF a = "dhcp" THEN "dataDhcp" ELSE "dataApp"
ToMeta(a) == IF a = "dhcp" THEN "metaDhcp" ELSE "metaApp"
To(f, x) == [g \in {f} |-> <<x>>]

\* FIRST and ACC do the same.
appMuxRxPath ==
  /\ \/ /\ muxRx.st = "IDLE" /\ cq.rxMeta # <<>>
        /\ LET a == dgrams[Head(cq.rxMeta)].port
           IN ClientCalls({"rxMeta"}, To(ToMeta(a), Head(cq.rxMeta))) /\ muxRx' = [st |-> "FIRST", source |-> a]
     \/ /\ muxRx.st \in {"FIRST", "ACC"} /\ cq.rxData # <<>>
        /\ LET w == Head(cq.rxData)
           IN ClientCalls({"rxData"}, To(ToData(muxRx.source), w)) /\ muxRx' = [muxRx EXCEPT !.st = IF w.last THEN "IDLE" ELSE "ACC"]
  /\ UNCHANGED <<muxPort, rxShim, opened>> /\ DhcpKeeps

PortBusy == muxPort.busy

appMuxPortPath ==
  /\ \/ /\ ~PortBusy
        /\ \E a \in {"dhcp", "app"} :
             LET f == IF a = "dhcp" THEN "openDhcp" ELSE "openApp"
             IN /\ cq[f] # <<>> /\ (a = "app" => cq.openDhcp = <<>>)
                /\ ClientCalls({f}, [openOut |-> <<Head(cq[f])>>]) /\ muxPort' = [busy |-> TRUE, source |-> a]
     \/ /\ muxPort.busy /\ cq.replyIn # <<>>
        /\ ClientCalls({"replyIn"}, To(IF muxPort.source = "dhcp" THEN "replyDhcp" ELSE "replyApp", Head(cq.replyIn)))
        /\ muxPort' = [muxPort EXCEPT !.busy = FALSE]
  /\ UNCHANGED <<muxRx, rxShim, opened>> /\ DhcpKeeps

\* The first word of a datagram carries its metadata on.
rxPath ==
  /\ \/ rxShim = "IDLE" /\ ClientCalls({}, [openApp |-> <<"app">>]) /\ rxShim' = "W8FORPORT"
     \/ rxShim = "W8FORPORT" /\ cq.replyApp # <<>> /\ ClientCalls({"replyApp"}, Nothing) /\ rxShim' = "ACC_FIRST"
     \/ /\ rxShim = "ACC_FIRST" /\ cq.dataApp # <<>> /\ cq.metaApp # <<>>
        /\ LET w == Head(cq.dataApp)
           IN /\ ClientCalls({"dataApp", "metaApp"}, [appOut |-> <<[w |-> w, meta |-> Head(cq.metaApp)]>>])
              /\ rxShim' = IF w.last THEN "ACC_FIRST" ELSE "ACC"
     \/ /\ rxShim = "ACC" /\ cq.dataApp # <<>>
        /\ LET w == Head(cq.dataApp)
           IN /\ ClientCalls({"dataApp"}, [appOut |-> <<[w |-> w, meta |-> 0]>>])
              /\ rxShim' = IF w.last THEN "ACC_FIRST" ELSE "ACC"
  /\ UNCHANGED <<muxRx, muxPort, opened>> /\ DhcpKeeps

-----------------------------------------------------------------------------
(* dhcp_client.                                                            *)

MuxKeeps == UNCHANGED <<muxRx, muxPort, rxShim, opened, dhcpEnable, toggles>>

\* The answer is passed on whatever it says.
open_dhcp_port ==
  /\ \/ odp.time > 0 /\ odp' = [odp EXCEPT !.time = @ - 1] /\ UNCHANGED <<cq, dgrams>>
     \/ /\ odp.time = 0 /\ ~odp.done /\ ~odp.waiting
        /\ ClientCalls({}, [openDhcp |-> <<"dhcp">>]) /\ odp' = [odp EXCEPT !.waiting = TRUE]
     \/ /\ odp.time = 0 /\ odp.waiting /\ cq.replyDhcp # <<>>
        /\ ClientCalls({"replyDhcp"}, [portOpen |-> <<TRUE>>]) /\ odp' = [odp EXCEPT !.done = Head(cq.replyDhcp)]
  /\ UNCHANGED <<rm, dhcp, asked>> /\ MuxKeeps

\* The word at rm_wordCount; the count has six bits, so a 65th word is read as the first.
\* The message type is left as it was unless option 53 comes first.
Collect(w) ==
  LET m == IF w.k < Len(Layout) THEN dgrams[w.p].msg ELSE dgrams[w.p].beyond
      Has(field) == field \in Layout[rm.count + 1]
  IN [rm EXCEPT !.reply = IF Has("id") THEN m.reply ELSE @,
                !.id = IF Has("id") THEN m.id ELSE @,
                !.ip = IF Has("ip") THEN m.ip ELSE @,
                !.mac = (Has("id") \/ @) /\ (Has("mac") => m.mac),
                !.isDHCP = IF Has("cookie") THEN m.cookie ELSE @,
                !.type = IF Has("type") /\ m.type # "none" THEN m.type ELSE @]

ForMe(r) == r.reply /\ r.mac /\ r.isDHCP

\* The fields are passed on behind the last word; the metadata are thrown away.
receive_message ==
  /\ cq.dataDhcp # <<>> \/ cq.metaDhcp # <<>>
  /\ LET take == cq.dataDhcp # <<>>
         w == Head(cq.dataDhcp)
         r == Collect(w)
     IN /\ ClientCalls((IF take THEN {"dataDhcp"} ELSE {}) \cup (IF cq.metaDhcp # <<>> THEN {"metaDhcp"} ELSE {}),
                       Only(take /\ w.last /\ ForMe(r), [replyMeta |-> <<Message(r.id, r.type, r.ip)>>]))
        /\ rm' = IF take THEN [r EXCEPT !.count = IF w.last THEN 0 ELSE (rm.count + 1) % Len(Layout)] ELSE rm
  /\ UNCHANGED <<odp, dhcp, asked>> /\ MuxKeeps

\* Seeded fault: an answer to an earlier transaction counts.
Whichever(reply) == TRUE

Mine(reply) == reply.id = dhcp.id

\* The call puts the address of the call before out, then changes the state.
Fsm(st, e) == dhcp' = [dhcp EXCEPT !.st = st, !.out = dhcp.ip, !.ip = e.ip, !.buffer = e.buffer, !.time = e.time]

Wait == IF dhcp.time = 0 THEN Fsm("INIT", dhcp) ELSE Fsm(dhcp.st, [dhcp EXCEPT !.time = @ - 1])
Answers(m) == asked' = asked \cup {m}

dhcp_fsm ==
  /\ \/ /\ dhcp.st = "PORT_WAIT" /\ cq.portOpen # <<>> /\ ClientCalls({"portOpen"}, Nothing)
        /\ Fsm("INIT", [dhcp EXCEPT !.ip = Static]) /\ UNCHANGED asked
     \/ /\ dhcp.st = "PORT_WAIT" /\ cq.portOpen = <<>>
        /\ Fsm("PORT_WAIT", [dhcp EXCEPT !.ip = Static]) /\ UNCHANGED <<cq, dgrams, asked>>
     \/ /\ dhcp.st = "INIT" /\ (~dhcpEnable \/ dhcp.time > 0)
        /\ Fsm("INIT", [dhcp EXCEPT !.ip = Static, !.time = IF dhcpEnable THEN @ - 1 ELSE @]) /\ UNCHANGED <<cq, dgrams, asked>>
     \/ /\ dhcp.st = "INIT" /\ dhcpEnable /\ dhcp.time = 0 /\ dhcp.next <= MaxTries
        /\ dhcp' = [dhcp EXCEPT !.st = "SELECTING", !.out = dhcp.ip, !.ip = Static, !.id = dhcp.next, !.next = @ + 1, !.time = TIME_5S]
        /\ Answers(Message(dhcp.next, "DISCOVER", Static)) /\ UNCHANGED <<cq, dgrams>>
     \/ /\ dhcp.st \in {"SELECTING", "REQUESTING"} /\ cq.replyMeta = <<>> /\ Wait /\ UNCHANGED <<cq, dgrams, asked>>
     \/ /\ dhcp.st \in {"SELECTING", "REQUESTING"} /\ cq.replyMeta # <<>> /\ ClientCalls({"replyMeta"}, Nothing)
        /\ LET reply == Head(cq.replyMeta)
           IN \/ ~Mine(reply) /\ Fsm(dhcp.st, dhcp) /\ UNCHANGED asked
              \/ /\ Mine(reply) /\ dhcp.st = "SELECTING" /\ reply.type = "OFFER"
                 /\ Fsm("REQUESTING", [dhcp EXCEPT !.buffer = reply.ip, !.time = TIME_5S])
                 /\ Answers(Message(dhcp.id, "REQUEST", reply.ip))
              \/ /\ Mine(reply) /\ dhcp.st = "REQUESTING" /\ reply.type = "ACK"
                 /\ Fsm("BOUND", [dhcp EXCEPT !.ip = dhcp.buffer]) /\ UNCHANGED asked
              \/ /\ Mine(reply) /\ <<dhcp.st, reply.type>> \notin {<<"SELECTING", "OFFER">>, <<"REQUESTING", "ACK">>}
                 /\ Fsm("INIT", dhcp) /\ UNCHANGED asked
     \/ /\ dhcp.st = "BOUND"
        /\ IF cq.replyMeta # <<>> THEN ClientCalls({"replyMeta"}, Nothing) ELSE UNCHANGED <<cq, dgrams>>
        /\ Fsm(IF dhcpEnable THEN "BOUND" ELSE "INIT", dhcp) /\ UNCHANGED asked
  /\ UNCHANGED <<odp, rm>> /\ MuxKeeps

Toggle ==
  /\ toggles < MaxToggles /\ toggles' = toggles + 1 /\ dhcpEnable' = ~dhcpEnable
  /\ UNCHANGED <<dgrams, cq, muxRx, muxPort, rxShim, odp, rm, dhcp, opened, asked>>

NextClients ==
  \/ ServerAnswers
  \/ AppDatagram
  \/ PortOpens
  \/ appMuxRxPath
  \/ appMuxPortPath
  \/ rxPath
  \/ open_dhcp_port
  \/ receive_message
  \/ dhcp_fsm
  \/ Toggle

SpecClients == InitClients /\ [][NextClients]_clvars

-----------------------------------------------------------------------------
\* What receive_message takes for granted: a message reaches as far as the fields it looks for, not
\* beyond its word count, and option 53 comes first.
Proper ==
  \A p \in DOMAIN dgrams : dgrams[p].port = "dhcp" =>
    /\ dgrams[p].words <= Len(Layout)
    /\ \A field \in {"ip", "mac", "cookie", "type"} : \E i \in 1 .. dgrams[p].words : field \in Layout[i]
    /\ dgrams[p].msg.cookie => dgrams[p].msg.type # "none"

\* p is a message of this type to this client; in one transaction a was offered and something acknowledged.
ToMe(p, id, type) ==
  LET m == dgrams[p].msg
  IN dgrams[p].port = "dhcp" /\ m.reply /\ m.mac /\ m.cookie /\ m.id = id /\ m.type = type
Granted(id, a) ==
  /\ \E p \in DOMAIN dgrams : ToMe(p, id, "OFFER") /\ dgrams[p].msg.ip = a
  /\ \E p \in DOMAIN dgrams : ToMe(p, id, "ACK")

\* As long as messages have the form receive_message assumes, the client is bound only to an address
\* that was offered to it in the transaction it is in, after an acknowledgement of that transaction,
\* and puts out no address of its own that was not, however late, often or mixed the answers come and
\* whoever else is answered (dhcp_client.cpp:59-127, 236-328). The acknowledgement may carry another
\* address: the code leaves that check open (dhcp_client.cpp:303).
AddressGranted ==
  Proper =>
    /\ dhcp.st = "BOUND" => Granted(dhcp.id, dhcp.ip)
    /\ \A a \in {dhcp.ip, dhcp.out} : a \notin {Static, Zero} => \E id \in 1 .. MaxTries : Granted(id, a)

\* Word i of datagram p as memcached is to see it, the first with the datagram's metadata.
AppWord(p, i) == [w |-> Word(p, i, 8, i + 1 = dgrams[p].words), meta |-> IF i = 0 THEN p ELSE 0]
NoneBetween(p, q) == \A r \in p + 1 .. q - 1 : dgrams[r].port # "app"

\* Of the words for memcached, x is the last one before word i of datagram p.
Precedes(x, p, i) ==
  IF i > 0 /\ dgrams[p].port = "app" THEN x.p = p /\ x.k = i - 1 ELSE x.last /\ x.p < p /\ NoneBetween(x.p, p)

\* The n-th of the words out is a word of one of its datagrams, and follows the one before it.
InPlace(out, n) ==
  LET x == out[n].w
  IN /\ x.p \in DOMAIN dgrams /\ dgrams[x.p].port = "app" /\ x.k \in 0 .. dgrams[x.p].words - 1
     /\ out[n] = AppWord(x.p, x.k)
     /\ IF n = 1 THEN x.k = 0 /\ NoneBetween(0, x.p) ELSE Precedes(out[n - 1].w, x.p, x.k)

\* memcached sees exactly its datagrams, whole, in order and each with its own metadata,
\* DHCP messages go to the DHCP client, and neither takes the answer to the
\* other's port request for its own (udpAppMux.cpp:31-96, 147-182).
ClientsSeparate ==
  /\ \A n \in DOMAIN cq.appOut : InPlace(cq.appOut, n)
  /\ \A i \in DOMAIN cq.dataDhcp : dgrams[cq.dataDhcp[i].p].port = "dhcp"
  /\ rxShim \in {"ACC_FIRST", "ACC"} => "app" \in opened
  /\ dhcp.st # "PORT_WAIT" => "dhcp" \in opened

\* Every datagram is with its client, and no transaction is under way.
ClientsSettled ==
  /\ \A f \in {"rxMeta", "rxData", "dataDhcp", "dataApp", "metaDhcp", "metaApp"} : cq[f] = <<>>
  /\ dhcp.st \notin {"SELECTING", "REQUESTING"}

\* The address in use was offered to this client and acknowledged, and a datagram goes to the client whose
\* port it names (dhcp_client.cpp:236-328, udpAppMux.cpp:31-182).
ClientsSound == AddressGranted /\ ClientsSeparate
=============================================================================
