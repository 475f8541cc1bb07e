------------------------------ MODULE Messages ------------------------------
(***************************************************************************)
(* The messages of clients and bootstrap as bytes (common/Messages): each    *)
(* class writes a header of fields by a list of widths, and whoever reads it  *)
(* takes the values by their index in that list.  Writers and readers were    *)
(* edited apart from one another, so here are both, with the alignment, the   *)
(* truncation to a width, the checksum and the list of peers in the body.     *)
(*                                                                         *)
(* A layout is a sequence of fields; a message is a function from 0..size-1  *)
(* to bytes.  The memory that new[] returns is not initialised: garbage, a    *)
(* byte for each offset, in what nobody has written yet.                      *)
(***************************************************************************)
EXTENDS Integers, Sequences, FiniteSetsExt, SequencesExt

Byte == 0..255

\* The opcodes and header sizes of Defines.hpp, by class.
Opcode == [channel |-> 0, peerlist |-> 1, share |-> 1, log |-> 1, ping |-> 2,
           pingBoot |-> 2, pingBootPerf |-> 2, request |-> 3, data |-> 4, error |-> 5,
           serverSub |-> 6, shareList |-> 7, stateChannel |-> 0]
HeaderSize == [channel |-> 26, peerlist |-> 10, share |-> 42, log |-> 18, ping |-> 18,
               pingBoot |-> 26, pingBootPerf |-> 102, request |-> 18, data |-> 22,
               error |-> 8, serverSub |-> 32, shareList |-> 42, stateChannel |-> 8]
Classes == DOMAIN Opcode
-----------------------------------------------------------------------------
(* What each class writes: GetHeaderValuesDataVector with ...SizeVector *)

F8(name)  == [name |-> name, bits |-> 8]
F16(name) == [name |-> name, bits |-> 16]
F32(name) == [name |-> name, bits |-> 32]

MessageHeader == <<F8("opcode"), F8("headerSize"), F16("bodySize"), F16("checksum")>>

MessagePing ==
    <<F8("type"), F8("mode"), F32("cycle"), F16("position"), F16("maxOut"), F16("maxOutFree")>>

MessagePingBoot == MessagePing \o <<F32("streamRate"), F32("channelId")>>

MessagePingBootPerf ==
    MessagePingBoot \o
    <<F32("generated"), F32("sent"), F32("received"), F32("overload"),
      F32("requestsSent"), F32("requestsRecv"), F32("retries"),
      F32("missed"), F32("expected"), F32("hop"), F32("tries"), F32("triesPerRequest"),
      F32("sampleCycle"), F16("samplePosition"), F32("sampleHop"), F32("sampleTries"),
      F32("sampleTime"), F32("nowTime"), F16("sizeIn"), F16("sizeOut"), F16("sizeOutFree")>>

MessagePeerlist == <<F8("type"), F16("qtdPeers")>>

MessagePeerlistShare ==
    MessagePeerlist \o
    <<F8("ip1"), F8("ip2"), F8("ip3"), F8("ip4"), F16("port"), F32("tipCycle"),
      F16("tipPosition"), F32("streamRate"), F32("creationTime"), F32("bootTime"),
      F32("clientTime"), F32("bootID")>>

MessagePeerlistLog == MessagePeerlist \o <<F32("channelId"), F32("nowTime")>>

MessageRequest == <<F32("cycle"), F16("position"), F32("tipCycle"), F16("tipPosition")>>

MessageData ==
    <<F8("hop"), F8("tries"), F32("cycle"), F16("position"), F32("generationTime"),
      F32("duration")>>

MessageChannel ==
    <<F8("flag"), F8("punch"), F16("version"), F16("port"), F32("channelId"),
      F32("nowTime"), F8("candidate"), F8("channelMode"), F16("maxOut"), F16("maxOutFree")>>

MessageStateChannel == <<F8("state")>>

MessageServerSub == <<F8("state"), F8("mixType"), F8("qtPeers"), F8("time")>>

MessageError == <<F8("error")>>

Layout == [channel |-> MessageChannel, peerlist |-> MessagePeerlist,
           share |-> MessagePeerlistShare, shareList |-> MessagePeerlistShare,
           log |-> MessagePeerlistLog, ping |-> MessagePing, pingBoot |-> MessagePingBoot,
           pingBootPerf |-> MessagePingBootPerf, request |-> MessageRequest,
           data |-> MessageData, error |-> MessageError, serverSub |-> MessageServerSub,
           stateChannel |-> MessageStateChannel]
-----------------------------------------------------------------------------
(* What each handler takes: the index it uses for each value it means *)

ReadPing == [type |-> 0, mode |-> 1, cycle |-> 2, position |-> 3, maxOut |-> 4, maxOutFree |-> 5]

ReadPingBoot == [type |-> 0, mode |-> 1, cycle |-> 2, position |-> 3,
                 streamRate |-> 6, channelId |-> 7]

indexPerfStart == 8
ReadPingBootPerf ==
    [generated |-> indexPerfStart, sent |-> indexPerfStart + 1,
     received |-> indexPerfStart + 2, overload |-> indexPerfStart + 3,
     requestsSent |-> indexPerfStart + 4, requestsRecv |-> indexPerfStart + 5,
     retries |-> indexPerfStart + 6, missed |-> indexPerfStart + 7,
     expected |-> indexPerfStart + 8, hop |-> indexPerfStart + 9,
     tries |-> indexPerfStart + 10, triesPerRequest |-> indexPerfStart + 11,
     sampleCycle |-> indexPerfStart + 12, samplePosition |-> indexPerfStart + 13,
     sampleHop |-> indexPerfStart + 14, sampleTries |-> indexPerfStart + 15,
     sampleTime |-> indexPerfStart + 16, nowTime |-> indexPerfStart + 17,
     sizeIn |-> indexPerfStart + 18, sizeOut |-> indexPerfStart + 19,
     sizeOutFree |-> indexPerfStart + 20, maxOut |-> 4, maxOutFree |-> 5]

ReadPeerlistShare ==
    [type |-> 0, qtdPeers |-> 1, ip1 |-> 2, ip2 |-> 3, ip3 |-> 4, ip4 |-> 5, port |-> 6,
     tipCycle |-> 7, tipPosition |-> 8, streamRate |-> 9, creationTime |-> 10,
     bootTime |-> 11, clientTime |-> 12, bootID |-> 13]

ReadServerAuxList == [qtdPeers |-> 1]

ReadPeerlistLog == [type |-> 0, qtdPeers |-> 1, channelId |-> 2, nowTime |-> 3]

ReadRequest == [cycle |-> 0, position |-> 1]

ReadData == [hop |-> 0, tries |-> 1, cycle |-> 2, position |-> 3, generationTime |-> 4]

ReadError == [error |-> 0]

ReadServerSub == [state |-> 0, mixType |-> 1, qtPeers |-> 2, time |-> 3]

ReadChannel ==
    [flag |-> 0, punch |-> 1, version |-> 2, port |-> 3, channelId |-> 4, nowTime |-> 5,
     candidate |-> 6, channelMode |-> 7, maxOut |-> 8, maxOutFree |-> 9]

Reader == [channel |-> ReadChannel, share |-> ReadPeerlistShare, log |-> ReadPeerlistLog,
           ping |-> ReadPing, pingBoot |-> ReadPingBoot, pingBootPerf |-> ReadPingBootPerf,
           request |-> ReadRequest, data |-> ReadData, error |-> ReadError,
           serverSub |-> ReadServerSub, shareList |-> ReadServerAuxList]
-----------------------------------------------------------------------------
(* Message.cpp *)

\* Where each field begins: one that is wider than a byte begins a pair.
Begins(layout) ==
    LET even(i) == IF layout[i].bits # 8 THEN 2 ELSE 1
        Up(n, m) == ((n + m - 1) \div m) * m
        at[i \in 1..Len(layout)] ==
            Up(IF i = 1 THEN 0 ELSE at[i - 1] + layout[i - 1].bits \div 8, even(i))
    IN  at

Ends(layout) ==
    LET n == Len(layout) IN Begins(layout)[n] + layout[n].bits \div 8

\* Byte k of an int, low bytes first: two's complement on x86.
ByteOf(value, k) == (value \div <<1, 256, 65536, 16777216>>[k + 1]) % 256

\* AssembleHeaderValues: each value truncated to its width.
AssembleHeaderValues(message, from, layout, data) ==
    LET at == Begins(layout)
        Field(b) == {i \in DOMAIN layout :
                        b - from - at[i] \in 0..(layout[i].bits \div 8 - 1)}
    IN  [b \in DOMAIN message |->
            IF Field(b) = {} THEN message[b]
            ELSE LET i == CHOOSE i \in Field(b) : TRUE
                 IN  ByteOf(data[layout[i].name], b - from - at[i])]

\* Four bytes that are taken as an int: signed.
Int32(b0, b1, b2, b3) ==
    b0 + 256 * b1 + 65536 * b2 + 16777216 * (IF b3 > 127 THEN b3 - 256 ELSE b3)

\* SplitHeaderValues: 32 bits come out signed, fewer never are.
SplitHeaderValues(message, from, layout) ==
    LET at == Begins(layout)
        Value(i) ==
            LET b(k) == message[from + at[i] + k]
            IN  CASE layout[i].bits = 8  -> b(0)
                  [] layout[i].bits = 16 -> b(0) + 256 * b(1)
                  [] layout[i].bits = 32 -> Int32(b(0), b(1), b(2), b(3))
    IN  [i \in DOMAIN layout |-> Value(i)]

MESSAGE_HEADER_SIZE == 6

\* The constructor of a class: new[] and AssembleHeader.  The header says the
\* body's size in 16 bits, whatever was allocated.
New(class, body, data, garbage) ==
    LET size == HeaderSize[class] + body
        raw == [b \in 0..(size - 1) |-> garbage[b]]
        header == [opcode |-> Opcode[class], headerSize |-> HeaderSize[class],
                   bodySize |-> body, checksum |-> 0]
    IN  AssembleHeaderValues(AssembleHeaderValues(raw, 0, MessageHeader, header),
                             MESSAGE_HEADER_SIZE, Layout[class], data)

GetOpcode(message) == message[0]
GetHeaderSize(message) == message[1]
GetSize(message) == message[1] + message[2] + 256 * message[3]

\* GetHeaderValues of the class the handler casts the message to, taken by index.
Taken(message, class) ==
    LET values == SplitHeaderValues(message, MESSAGE_HEADER_SIZE, Layout[class])
    IN  [name \in DOMAIN Reader[class] |-> values[Reader[class][name] + 1]]

\* Only the header is summed, in pairs of bytes.
CalcChecksum(message) ==
    MapThenSumSet(LAMBDA i : message[2 * i] + 256 * message[2 * i + 1],
                  0..(GetHeaderSize(message) \div 2 - 1)) % 65536

SetIntegrity(message) ==
    LET zeroed == [message EXCEPT ![4] = 0, ![5] = 0]
        checksum == 65535 - CalcChecksum(zeroed)
    IN  [zeroed EXCEPT ![4] = checksum % 256, ![5] = checksum \div 256]

CheckIntegrity(message) == (CalcChecksum(message) + 1) % 65536 = 0

\* SetCodedByteValue: the pair is read big-endian, so the even address is high.
SetCodedByteValue(message, address, value) == [message EXCEPT ![address] = value % 256]

SetHop(message, hop) == SetCodedByteValue(message, MESSAGE_HEADER_SIZE, hop)
SetTries(message, tries) == SetCodedByteValue(message, MESSAGE_HEADER_SIZE + 1, tries)
SetDuration(message, duration) ==
    AssembleHeaderValues(message, MESSAGE_HEADER_SIZE + 12, <<F32("duration")>>,
                         [duration |-> duration])

\* What a partner does to data before it keeps them for others.
Relay(message, attempts) ==
    LET taken == Taken(message, "data")
    IN  SetIntegrity(SetHop(SetTries(message, taken.tries + attempts), taken.hop + 1))
-----------------------------------------------------------------------------
(* The list of peers in the body *)

\* AddPeer of each in turn: no more than the message was made for.
AddPeers(message, qtdPeers, peers) ==
    LET start == GetHeaderSize(message)
        count == IF Len(peers) < qtdPeers THEN Len(peers) ELSE qtdPeers
    IN  [b \in DOMAIN message |->
            IF b < start \/ b >= start + 6 * count THEN message[b]
            ELSE LET peer == peers[(b - start) \div 6 + 1]
                     k == (b - start) % 6
                 IN  CASE k < 4 -> peer.ip[k + 1]
                       [] k = 4 -> peer.port \div 256
                       [] k = 5 -> peer.port % 256]

GetPeer(message, index) ==
    LET at == GetHeaderSize(message) + 6 * index
    IN  [ip |-> <<message[at], message[at + 1], message[at + 2], message[at + 3]>>,
         port |-> 256 * message[at + 4] + message[at + 5]]
-----------------------------------------------------------------------------
(* udp.cpp *)

\* Handle_recv: as many bytes of the buffer as the header says, if they are whole.
Received(buffer) == [b \in 0..(GetSize(buffer) - 1) |-> buffer[b]]
Accepted(buffer) == CheckIntegrity(Received(buffer))
=============================================================================
