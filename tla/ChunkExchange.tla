---------------------------- MODULE ChunkExchange ----------------------------
(***************************************************************************)
(* How the chunks of the stream get from the server to a client that has   *)
(* it as its In partner (client.cpp, MediaBuffer, Request).                *)
(*                                                                         *)
(* The server has three threads here: GerarDados fills the ring of chunks, *)
(* Ping sends the ring's map, and the receive thread answers requests.     *)
(* The client has three: MontarListaPedidos asks for chunks one after the  *)
(* other, the receive thread stores what comes, and the timer thread gets  *)
(* the stream's tip from the bootstrap (the player is in ChunkPlayer).     *)
(* Datagrams between the two are lost, delayed and reordered.              *)
(***************************************************************************)
EXTENDS ChunkID, Sequences, SequencesExt

CONSTANTS
  Joined,         \* how many chunks the server has made when the client comes
  LastTip,        \* bound: how many chunks the server makes in all
  InitIDs,        \* what MediaBuffer's id[] may hold before it is written
  TipOffset,      \* tipOffsetTime * estimated chunk rate (initialOffset)
  MaxAttempts,    \* maxRequestAttempt
  MaxFailures,    \* failed rounds before the requester starts again
  MaxInFlight     \* bound: datagrams in flight

ASSUME ExchangeAssumption ==
  /\ Joined \in Nat /\ LastTip \in Nat /\ InitIDs \subseteq Nat
  /\ TipOffset \in Nat /\ MaxAttempts \in Nat \ {0}
  /\ MaxFailures \in Nat \ {0} /\ MaxInFlight \in Nat \ {0}

VARIABLES
  ring,         \* the server's mediaBuffer
  tip,          \* the server's latestReceivedPosition: the chunk it makes next
  gen,          \* where GerarDados is
  head,         \* the tip the map ping being built has taken, or NoChunk
  bootTip,      \* the tip in the last ping that reached the bootstrap
  net,          \* datagrams in flight
  chunkMap,     \* PeerData::chunkMap of the server, at the client
  buffer,       \* the client's mediaBuffer
  latest,       \* latestReceivedPosition
  recv,         \* where the receive thread is, and the chunk it stores
  requestPosition, requestList, requester, failures,
  needTip       \* receiveRequestPosition

serverVars == <<ring, tip, gen, head, bootTip>>
askVars    == <<requestPosition, requestList, requester, failures, needTip>>
dataVars   == <<buffer, latest, recv>>
vars == <<serverVars, net, chunkMap, dataVars, askVars>>

NoChunk  == [cycle |-> -1, position |-> 0]
RecvIdle == [pc |-> "idle", chunk |-> NoChunk]
-----------------------------------------------------------------------------
(***************************************************************************)
(* MediaBuffer.  A slot holds the cycle of its chunk, whether there is one *)
(* (buffer[pos] # NULL) and its bit of the map.                            *)
(***************************************************************************)
Slot     == [id : InitIDs \cup 0 .. Cycles - 1, full : BOOLEAN, map : BOOLEAN]
Buffers  == [Positions -> Slot]
Unfilled == [Positions -> [id : InitIDs, full : {FALSE}, map : {FALSE}]]

Put(b, c, available) ==
  [b EXCEPT ![c.position] = [id |-> c.cycle, full |-> TRUE, map |-> available]]

SetMap(b, pos, bit) == [b EXCEPT ![pos].map = bit]
Available(b, pos)   == b[pos].full /\ b[pos].map
Bits(b)             == {pos \in Positions : b[pos].map}
-----------------------------------------------------------------------------
Request == [chunk : ChunkIDs, ttl : {"due", "waiting", "over"},
            attempts : 0 .. MaxAttempts]

Datagrams == [type : {"request", "data"}, chunk : ChunkIDs]
             \cup [type : {"map"}, head : ChunkIDs, bits : SUBSET Positions]

\* Few enough datagrams are in flight.
InFlight == Cardinality(net') <= MaxInFlight

\* Some of the datagrams in S are sent; the others, those that are going to be
\* lost among them, never show.
Send(S) == \E T \in SUBSET S : net' = net \cup T /\ InFlight

\* The chunk at place n of the stream.
Chunk(n) == [cycle    |-> (n \div BufferSize) % Cycles,
             position |-> n % BufferSize]

\* The server's ring when it has made Joined chunks, all but the last of them
\* available.
JoinedRing(b) ==
  [pos \in Positions |->
     LET Made == {n \in 0 .. Joined - 1 : n % BufferSize = pos}
     IN IF Made = {} THEN b[pos]
        ELSE [id |-> Chunk(Max(Made)).cycle, full |-> TRUE,
              map |-> Max(Made) # Joined - 1]]

Init ==
  /\ ring \in {JoinedRing(b) : b \in Unfilled} /\ tip = Chunk(Joined)
  /\ gen = "receive" /\ head = NoChunk /\ bootTip = tip /\ net = {}
  /\ chunkMap = [head |-> First, bits |-> {}]
  /\ buffer \in Unfilled /\ latest = First /\ recv = RecvIdle
  /\ requestPosition = First /\ requestList = <<>> /\ requester = "ask"
  /\ failures = 0 /\ needTip = TRUE
-----------------------------------------------------------------------------
(***************************************************************************)
(* The server.                                                             *)
(***************************************************************************)

\* GerarDados inserts the next chunk, not available yet ...
InsertMedia ==
  /\ gen = "receive"
  /\ ring' = Put(ring, tip, FALSE) /\ gen' = "inserted"
  /\ UNCHANGED <<tip, head, bootTip, net, chunkMap, dataVars, askVars>>

\* ... makes the one before it available and moves on.
MoveTip ==
  LET last == (tip.position - 1) % BufferSize
  IN /\ gen = "inserted" /\ Index(tip) < LastTip
     /\ ring' = IF ring[last].full THEN SetMap(ring, last, TRUE) ELSE ring
     /\ tip' = IncID(tip) /\ gen' = "receive"
     /\ UNCHANGED <<head, bootTip, net, chunkMap, dataVars, askVars>>

\* Client::Ping tells the bootstrap the tip every second.
PingBootstrap ==
  /\ bootTip' = tip
  /\ UNCHANGED <<ring, tip, gen, head, net, chunkMap, dataVars, askVars>>

\* It takes the tip for the client's ping, and then the map.
TakeTip ==
  /\ head = NoChunk /\ head' = tip
  /\ UNCHANGED <<ring, tip, gen, bootTip, net, chunkMap, dataVars, askVars>>

SendMap ==
  /\ head # NoChunk /\ head' = NoChunk
  /\ Send({[type |-> "map", head |-> head, bits |-> Bits(ring)]})
  /\ UNCHANGED <<ring, tip, gen, bootTip, chunkMap, dataVars, askVars>>

\* HandleRequestMessage: the answer is whatever the ring holds at the position
\* of the chunk; an error message changes nothing at the client.
Answer(c) ==
  IF Available(ring, c.position) /\ WithinCycle(c, tip)
  THEN {[type |-> "data", chunk |-> [cycle    |-> ring[c.position].id,
                                     position |-> c.position]]}
  ELSE {}

HandleRequestMessage(q) ==
  /\ q \in net /\ q.type = "request"
  /\ net' \in {(net \ {q}) \cup T : T \in SUBSET Answer(q.chunk)}
  /\ InFlight
  /\ UNCHANGED <<serverVars, chunkMap, dataVars, askVars>>
-----------------------------------------------------------------------------
(***************************************************************************)
(* The client's receive thread.                                            *)
(***************************************************************************)

\* HandlePingMessageIn stores the chunk map.
StoreChunkMap(m) ==
  /\ recv = RecvIdle /\ m \in net /\ m.type = "map"
  /\ chunkMap' = [head |-> m.head, bits |-> m.bits]
  /\ net' = net \ {m}
  /\ UNCHANGED <<serverVars, dataVars, askVars>>

\* The elements of s that are in S, in their order (what SelectSeq returns,
\* by recursion on the elements looked at).
Those(s, S) ==
  LET those[n \in 0 .. Len(s)] ==
        IF n = 0 THEN <<>>
        ELSE IF s[n] \in S THEN Append(those[n - 1], s[n]) ELSE those[n - 1]
  IN those[Len(s)]

\* HandleDataMessage: a chunk the buffer has, or that is older than what it
\* has, is dropped.
Duplicate(c) ==
  \/ Available(buffer, c.position) /\ buffer[c.position].id = c.cycle
  \/ c.cycle < buffer[c.position].id

\* The chunk was asked from its sender, and the request is still in the list.
Asked(c) == \E i \in DOMAIN requestList :
              requestList[i].chunk = c /\ requestList[i].attempts > 0

\* HandleDataMessage takes the request off the list.
AcceptData(m) ==
  /\ recv = RecvIdle /\ m \in net /\ m.type = "data"
  /\ net' = net \ {m}
  /\ IF ~Duplicate(m.chunk) /\ Asked(m.chunk)
     THEN /\ requestList' = Those(requestList,
                               {r \in ToSet(requestList) : r.chunk # m.chunk})
          /\ recv' = [pc |-> "insert", chunk |-> m.chunk]
     ELSE UNCHANGED <<requestList, recv>>
  /\ UNCHANGED <<serverVars, chunkMap, buffer, latest, requestPosition,
                 requester, failures, needTip>>

\* ... and inserts the chunk in the buffer ...
InsertData ==
  /\ recv.pc = "insert" /\ recv' = [recv EXCEPT !.pc = "latest"]
  /\ buffer' = Put(buffer, recv.chunk, TRUE)
  /\ UNCHANGED <<serverVars, net, chunkMap, latest, askVars>>

\* latestReceivedPosition once c is in the buffer.
Newest(c) == IF Before(latest, c) THEN c ELSE latest

\* ... before latestReceivedPosition tells of it.
UpdateLatest ==
  /\ recv.pc = "latest" /\ recv' = RecvIdle
  /\ latest' = Newest(recv.chunk)
  /\ UNCHANGED <<serverVars, net, chunkMap, buffer, askVars>>
-----------------------------------------------------------------------------
(***************************************************************************)
(* The client's requester thread (MontarListaPedidos).                     *)
(***************************************************************************)

\* Request::SearchPeers finds the server: as far as its last map tells, it has
\* the chunk.
Candidate(c) == c.position \in chunkMap.bits /\ WithinCycle(c, chunkMap.head)

\* ColocarNaListaDePedidos: one more chunk is requested, or nobody has it ...
Ask ==
  /\ requester = "ask" /\ ~needTip
  /\ IF Candidate(requestPosition)
     THEN /\ requestList' = Append(requestList, [chunk |-> requestPosition,
                                                 ttl |-> "due", attempts |-> 0])
          /\ requester' = "asked" /\ UNCHANGED failures
     ELSE /\ requester' = "send" /\ failures' = failures + 1
          /\ UNCHANGED requestList
  /\ UNCHANGED <<serverVars, net, chunkMap, dataVars, requestPosition, needTip>>

\* ... and, the list unlocked, the position moves on and the slot it comes to is
\* given free.  Nobody else looks at the position meanwhile: the bootstrap's
\* reply moves it only while the requester waits for the tip.
NextPosition ==
  /\ requester = "asked" /\ requester' = "send"
  /\ requestPosition' = IncID(requestPosition)
  /\ buffer' = SetMap(buffer, requestPosition'.position, FALSE)
  /\ failures' = 0
  /\ UNCHANGED <<serverVars, net, chunkMap, latest, recv, requestList, needTip>>

\* DEFECT (TypeOK): one attempt too many.
TriedPast(r) == r.ttl = "over" /\ r.attempts > MaxAttempts

\* FazPedidos erases a request whose time is over after the last attempt.
TriedOut(r) == r.ttl = "over" /\ r.attempts >= MaxAttempts

\* FazPedidos: the other requests whose time is over are due again, and those
\* that are due are sent if the server still has the chunk.
FazPedidos ==
  LET kept   == Those(requestList, {r \in ToSet(requestList) : ~TriedOut(r)})
      due(r) == r.ttl # "waiting"
      sent   == {r \in ToSet(kept) : due(r) /\ Candidate(r.chunk)}
  IN /\ requester = "send"
     /\ requestList' = [i \in DOMAIN kept |->
          IF kept[i] \in sent
          THEN [kept[i] EXCEPT !.ttl = "waiting", !.attempts = @ + 1]
          ELSE [kept[i] EXCEPT !.ttl = "waiting"]]
     /\ Send({[type |-> "request", chunk |-> r.chunk] : r \in sent})
     /\ requester' = IF failures >= MaxFailures THEN "giveUp" ELSE "ask"
     /\ UNCHANGED <<serverVars, chunkMap, dataVars, requestPosition, failures,
                    needTip>>

\* 500 ms have passed since the request was due.
TimeOver(i) ==
  /\ requestList[i].ttl = "waiting"
  /\ requestList' = [requestList EXCEPT ![i].ttl = "over"]
  /\ UNCHANGED <<serverVars, net, chunkMap, dataVars, requestPosition, requester,
                 failures, needTip>>

\* DEFECT (RequesterRecovers): the bootstrap is not asked for the tip.
StartOverHere == UNCHANGED needTip

\* The next reply of the bootstrap sets the request position.
StartOver == needTip' = TRUE

\* Ten seconds without a request: start over ...
GiveUp ==
  /\ requester = "giveUp" /\ requester' = "clear"
  /\ StartOver /\ failures' = 0
  /\ UNCHANGED <<serverVars, net, chunkMap, dataVars, requestPosition,
                 requestList>>

\* DEFECT (RequestsOrdered): the old requests stay.
Cleared == requestList

\* requestList.clear().
NoRequests == <<>>

\* ... with an empty request list.
ClearRequests ==
  /\ requester = "clear" /\ requester' = "ask"
  /\ requestList' = NoRequests
  /\ UNCHANGED <<serverVars, net, chunkMap, dataVars, requestPosition, failures,
                 needTip>>
-----------------------------------------------------------------------------
\* HandlePeerlistMessage on the timer thread: the requests start TipOffset
\* chunks before the tip the bootstrap knows.
TipReply ==
  LET to == IF bootTip.cycle = 0 /\ bootTip.position < TipOffset
            THEN First ELSE MinusInt(bootTip, TipOffset)
  IN /\ needTip /\ needTip' = FALSE
     /\ requestPosition' = to
     /\ UNCHANGED <<serverVars, net, chunkMap, dataVars, requestList, requester,
                    failures>>
-----------------------------------------------------------------------------
Server    == InsertMedia \/ MoveTip
Receive   == \/ \E m \in net : StoreChunkMap(m) \/ AcceptData(m)
             \/ InsertData \/ UpdateLatest
Requester == Ask \/ NextPosition \/ FazPedidos \/ GiveUp \/ ClearRequests

\* Everything but the reply of the bootstrap, which moves the player too.
Exchange == \/ Server \/ PingBootstrap \/ TakeTip \/ SendMap
            \/ \E m \in net : HandleRequestMessage(m)
            \/ Receive \/ Requester
            \/ \E i \in DOMAIN requestList : TimeOver(i)

Next == Exchange \/ TipReply
Spec == Init /\ [][Next]_vars
-----------------------------------------------------------------------------
(***************************************************************************)
(* Properties.                                                             *)
(***************************************************************************)
TypeOK ==
  /\ ring \in Buffers /\ tip \in ChunkIDs
  /\ gen \in {"receive", "inserted"}
  /\ head \in ChunkIDs \cup {NoChunk} /\ bootTip \in ChunkIDs
  /\ net \subseteq Datagrams
  /\ chunkMap \in [head : ChunkIDs, bits : SUBSET Positions]
  /\ buffer \in Buffers /\ latest \in ChunkIDs
  /\ recv \in [pc : {"insert", "latest"}, chunk : ChunkIDs] \cup {RecvIdle}
  /\ requestPosition \in ChunkIDs /\ requestList \in Seq(Request)
  /\ requester \in {"ask", "asked", "send", "giveUp", "clear"}
  /\ failures \in 0 .. MaxFailures
  /\ needTip \in BOOLEAN

\* The chunk to ask for next: the position's, or the one after it if the request
\* for the position's is in the list already.
ToAsk == IF requester = "asked" THEN IncID(requestPosition) ELSE requestPosition

\* No chunk is asked twice at the same time: the request list is in stream
\* order and behind the chunk to ask for next, although the player, the receive
\* thread and the timer thread change the list or the position meanwhile.
RequestsOrdered ==
  requester # "clear" =>
    \A i \in DOMAIN requestList :
      /\ Before(requestList[i].chunk, ToAsk)
      /\ \A j \in 1 .. i - 1 : Before(requestList[j].chunk, requestList[i].chunk)

\* The buffer holds nothing newer than latestReceivedPosition, except the
\* chunk being stored: what the client tells its partners covers what it has.
NothingPastLatest ==
  \A pos \in Positions :
    LET c == [cycle |-> buffer[pos].id, position |-> pos]
    IN buffer[pos].full => NotAfter(c, latest) \/ recv = [pc |-> "latest", chunk |-> c]

\* A requester whose next chunk the server no longer keeps does not go on
\* asking for it for ever: it comes back into the server's window.
RequesterRecovers ==
  LET Lost == NotAfter(requestPosition, tip) /\ ~WithinCycle(requestPosition, tip)
  IN Lost ~> ~Lost

\* client.cpp:681, of the test before an answer: "If i have the chunk": the
\* chunk sent is the chunk that was asked.
AnswersRequested ==
  [][\A q \in net \ net', d \in net' \ net :
       q.type = "request" /\ d.type = "data" => d.chunk = q.chunk]_vars
==============================================================================
