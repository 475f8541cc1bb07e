----------------------------- MODULE SessionWire -----------------------------
(***************************************************************************)
(* The polls with the bytes they send: Sessions says what is asked and       *)
(* answered, Messages how it is written and read.  Along with each message   *)
(* goes what its writer passed to the constructor, in bytes; the property     *)
(* compares what the reader takes from them with what was meant.              *)
(***************************************************************************)
EXTENDS Sessions, Messages

CONSTANT Garbage    \* what memory that new[] returns may hold, byte by byte

VARIABLE packet     \* the bytes on the connection, <<>> for none

\* The numbers that stand for the names.
AuxCode == [NO_SERVER_AUX |-> 0, ACTIVE |-> 1, MESCLAR |-> 2]
AuxName(code) == CHOOSE s \in DOMAIN AuxCode : AuxCode[s] = code
ERROR_CHANNEL_UNAVAILABLE == 3
CHANNEL_CONNECT == 1
PEERLIST_SHARE == 1
VERSION == 268

\* bootStrap_ID is the time at which the bootstrap was started.
TimeOfStart(id) == 1400000000 + 131072 * id

\* The states are the ones that have codes, and no bootstrap is started after
\* January 2038, when the time no longer fits the int it is read as.
ASSUME SessionWireAssumption ==
    /\ \A garbage \in Garbage : \A b \in DOMAIN garbage : garbage[b] \in Byte
    /\ AuxStates = DOMAIN AuxCode
    /\ TimeOfStart(MaxBoots) <= 2147483647

\* What Client::ConnectToBootstrap writes.
PollMessage(p, garbage) ==
    SetIntegrity(New("channel", 0,
        [flag |-> CHANNEL_CONNECT, punch |-> IF punch[p] THEN 1 ELSE 0,
         version |-> VERSION, port |-> 4951, channelId |-> 1, nowTime |-> 1600000000,
         candidate |-> IF p \in Candidates THEN 1 ELSE 0, channelMode |-> 0,
         maxOut |-> 20, maxOutFree |-> 300], garbage))

\* DEFECT (WireCarries): two arguments of one type, bootTime and bootID, change
\* places.
MisplacedTimes(id) ==
    [type |-> PEERLIST_SHARE, qtdPeers |-> 0, ip1 |-> 10, ip2 |-> 0, ip3 |-> 200, ip4 |-> 3,
     port |-> 4951, tipCycle |-> 70000, tipPosition |-> 599, streamRate |-> 30,
     creationTime |-> 1500000000, bootTime |-> TimeOfStart(id), clientTime |-> 1600000000,
     bootID |-> 1600000007]

ShareValues(id) ==
    [type |-> PEERLIST_SHARE, qtdPeers |-> 0, ip1 |-> 10, ip2 |-> 0, ip3 |-> 200, ip4 |-> 3,
     port |-> 4951, tipCycle |-> 70000, tipPosition |-> 599, streamRate |-> 30,
     creationTime |-> 1500000000, bootTime |-> 1600000007, clientTime |-> 1600000000,
     bootID |-> TimeOfStart(id)]

\* What Bootstrap::HandleChannelMessage writes.
AnswerMessage(r, garbage) ==
    SetIntegrity(
        CASE r.type = "unavailable" ->
               New("error", 0, [error |-> ERROR_CHANNEL_UNAVAILABLE], garbage)
          [] r.type = "serverAux" ->
               New("serverSub", 0, [state |-> AuxCode[r.state], mixType |-> 2,
                                    qtPeers |-> 4, time |-> 200], garbage)
          [] r.type = "serverAuxList" -> New("shareList", 0, ShareValues(r.id), garbage)
          [] r.type = "share" -> New("share", 0, ShareValues(r.id), garbage))

\* A message is written when the connection begins to carry it.
Written(p, garbage) ==
    CASE conn'[p] = "request" /\ conn[p] # "request" -> PollMessage(p, garbage)
      [] conn'[p] = "reply" /\ conn[p] # "reply"     -> AnswerMessage(reply'[p], garbage)
      [] conn'[p] = conn[p]                          -> packet[p]
      [] OTHER                                       -> <<>>

WireInit == Init /\ packet = [p \in Viewers |-> <<>>]
WireNext ==
    /\ Next
    /\ \E garbage \in Garbage : packet' = [p \in Viewers |-> Written(p, garbage)]

wireVars == <<vars, packet>>

WireSpec == WireInit /\ [][WireNext]_wireVars /\ Fairness

\* Client::HandleTCPMessage: which answer the viewer takes the bytes for, and
\* the state or the identity it finds there.
Understood(message) ==
    CASE GetOpcode(message) = 5 /\ Taken(message, "error").error = ERROR_CHANNEL_UNAVAILABLE ->
           <<"unavailable">>
      [] GetOpcode(message) = 6 -> <<"serverAux", AuxName(Taken(message, "serverSub").state)>>
      [] GetOpcode(message) = 7 -> <<"serverAuxList">>
      [] GetOpcode(message) = 1 /\ Taken(message, "share").type = PEERLIST_SHARE ->
           <<"share", Taken(message, "share").bootID>>
      [] OTHER -> <<"ignored">>

Meant(r) ==
    CASE r.type = "serverAux" -> <<r.type, r.state>>
      [] r.type = "share" -> <<r.type, TimeOfStart(r.id)>>
      [] OTHER -> <<r.type>>

\* Whatever memory holds where a message is written, the viewer takes from an
\* answer the kind, the state and the identity that the bootstrap gave, and the
\* bootstrap from a poll whether it punches and comes from a candidate: widths,
\* order and alignment agree on both sides.
WireCarries ==
    \A p \in Viewers :
        /\ conn[p] = "reply" => Understood(packet[p]) = Meant(reply[p])
        /\ conn[p] = "request" =>
             LET poll == Taken(packet[p], "channel")
             IN  /\ GetOpcode(packet[p]) = Opcode.channel /\ poll.flag = CHANNEL_CONNECT
                 /\ poll.punch = 1 <=> punch[p]
                 /\ poll.candidate = 1 <=> p \in Candidates
=============================================================================
