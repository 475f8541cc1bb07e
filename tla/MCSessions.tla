----------------------------- MODULE MCSessions -----------------------------
(***************************************************************************)
(* Polls of a viewer with their bytes, for TLC, and the message formats on    *)
(* values at the edges of their widths.                                      *)
(***************************************************************************)
EXTENDS SessionWire, ExternalMessage

\* Memory full of ones, and memory with another byte at each offset.
MCGarbage == {[b \in 0..127 |-> 255], [b \in 0..127 |-> (37 * b + 11) % 256]}

Edges == {-1000, 0, 250, 65530, 70000, 2147483600}

Width(class, name) ==
    Layout[class][CHOOSE i \in DOMAIN Layout[class] : Layout[class][i].name = name].bits

\* A different value for every field of a class.
DataFrom(class, v) ==
    LET at(name) == CHOOSE i \in DOMAIN Layout[class] : Layout[class][i].name = name
    IN  [name \in {Layout[class][i].name : i \in DOMAIN Layout[class]} |-> v + at(name)]

Fresh(class, v, garbage) == SetIntegrity(New(class, 0, DataFrom(class, v), garbage))

\* The headers have the room that the layouts need.
ASSUME LayoutsFit ==
    \A class \in Classes : MESSAGE_HEADER_SIZE + Ends(Layout[class]) <= HeaderSize[class]

\* Every handler finds each value it means, cut to the width its class gives it,
\* where its writer put it, whatever memory the message was made in.
ASSUME FieldsArrive ==
    \A class \in DOMAIN Reader, v \in Edges, garbage \in Garbage :
        LET data == DataFrom(class, v)
            taken == Taken(Fresh(class, v, garbage), class)
        IN  \A name \in DOMAIN Reader[class] :
              taken[name] = CASE Width(class, name) = 8  -> data[name] % 256
                              [] Width(class, name) = 16 -> data[name] % 65536
                              [] Width(class, name) = 32 -> data[name]

\* A message is accepted as it was sent, also out of a receive buffer that holds
\* the end of a longer one; with one pair of bytes of its header changed it is
\* not.
ASSUME OnlyWholeAccepted ==
    \A class \in Classes, v \in Edges, garbage \in Garbage :
        LET message == Fresh(class, v, garbage)
            size == GetSize(message)
            buffer == [b \in 0..(size + 3) |-> IF b < size THEN message[b] ELSE 77]
        IN  /\ Accepted(buffer) /\ Received(buffer) = message
            /\ \A b \in 4..(size - 1), change \in {1, 128, 255} :
                 ~CheckIntegrity([message EXCEPT ![b] = (@ + change) % 256])

\* However often data are handed on, they are accepted, count their hops and
\* attempts in one byte each and change nothing else.
ASSUME RelaysCounted ==
    \A v \in {0, 70000}, attempts \in {1, 3}, garbage \in Garbage :
        LET start == SetHop(Fresh("data", v, garbage), 253)
            relayed[n \in 0..4] == IF n = 0 THEN SetIntegrity(start)
                                   ELSE Relay(relayed[n - 1], attempts)
            once == Taken(relayed[0], "data")
        IN  \A n \in 0..4 :
              /\ CheckIntegrity(relayed[n])
              /\ Taken(relayed[n], "data") =
                   [once EXCEPT !.hop = (@ + n) % 256, !.tries = (@ + n * attempts) % 256]

\* The duration is written over its own field.
ASSUME DurationOnly ==
    \A v \in {0, 70000}, garbage \in Garbage :
        LET values(m) == SplitHeaderValues(m, MESSAGE_HEADER_SIZE, MessageData)
            message == Fresh("data", v, garbage)
        IN  values(SetDuration(message, 123456)) = [values(message) EXCEPT ![6] = 123456]

Addresses == <<[ip |-> <<10, 0, 0, 1>>, port |-> 4951], [ip |-> <<10, 0, 0, 255>>, port |-> 65535],
               [ip |-> <<200, 131, 0, 7>>, port |-> 256]>>

\* The reader gets the peers in the order they were added, as many as the
\* message was made for; a fourth would not be written past its end.
ASSUME PeersInOrder ==
    \A class \in {"share", "log", "shareList"}, n \in 0..3, garbage \in Garbage :
        LET data == [DataFrom(class, 0) EXCEPT !.qtdPeers = n]
            message == SetIntegrity(AddPeers(New(class, 6 * n, data, garbage), n, Addresses))
        IN  /\ CheckIntegrity(message) /\ GetSize(message) = HeaderSize[class] + 6 * n
            /\ Taken(message, class).qtdPeers = n
            /\ \A i \in 0..(n - 1) : GetPeer(message, i) = Addresses[i + 1]

\* The tool sends the last mode it was given, cut to a byte, but only ever to the
\* channel 0: with any other option it sends nothing (main.cpp:84).  The mode 0
\* changes nothing.
ASSUME OnlyTheMode ==
  \A a, b \in Switches \X {0, 1, 3, 257}, n \in 0..2, garbage \in Garbage :
    LET args == SubSeq(<<a, b>>, 1, n)
        set == Options(args)
    IN  /\ set.quit <=> \E i \in 1..n : args[i][1] # "-channelMode"
        /\ ~set.quit =>
             LET mode == IF n = 0 THEN MODE_FLASH_CROWD ELSE args[n][2] % 256
             IN  ChangedState(StateMessage(set, VERSION, 1600000000, garbage)) =
                   IF mode = 0 THEN {} ELSE {[channelId |-> 0, mode |-> mode]}
=============================================================================
