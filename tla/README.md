# TVPP in TLA+

This directory models TVPP (`src/src`), a peer-to-peer live streaming system
written in C++ with boost threads, and states what makes it correct: TLC checks
the models on small instances, and TLAPS proves the core properties for every
instance. The program has no tests; its comments (in Portuguese) and its
constants are the only statement of what it means to do.

## The system

Three programs: the **bootstrap** (a tracker that clients poll over TCP and ping
over UDP), the **client** (a peer; one of them is the server of the stream, others
may become auxiliary servers) and **externalMessage**, which sends the bootstrap
one change-of-state message. A channel is *normal*, in a *flash crowd* (newcomers
go to parallel channels, each fed by auxiliary servers, isolated from the main
network) or *merging* (MESCLAR: the parallel networks return to the main one).

| component | state | operations | what is hard | what makes it correct |
|---|---|---|---|---|
| Partner lists (`PeerManager`, `PeerData`, `Connector`, `Disconnector`, ping handlers) | `peerList`, active lists In, Out and OutFREE, cooldowns, `peerList_Rejected`, `removeWorsePartner` | handle a ping, connect, evict, sweep, disconnect, remove, connect and disconnect by timer | two threads; the sweep decides under its locks and acts after dropping them; a check and its use in different critical sections; a lock per list and one for the map | lists stay within their limits; nobody silent stays; nobody is evicted but for a richer peer |
| Auxiliary server (`PeerManagerServerAux`) | `peerManagerState`, merge type, `mergeCSA_Temp` | state message from the bootstrap, merge step every second | phases change while pings are handled; two locks in opposite orders | the parallel network is isolated; the merge ends |
| Chunk identifiers (`ChunkUniqueID`) | none | increment, compare, subtract | unsigned subtraction, wrap of the position | agree with the distance in the stream |
| Chunk exchange (`GerarDados`, `Ping`, request and data handlers, `MontarListaPedidos`, `MediaBuffer`, `Request`) | ring of chunks and its map, `latestReceivedPosition`, `requestPosition`, `requestList` | generate, announce, request, answer, store, expire, start over | lossy, late and reordered datagrams; six threads | what is announced, requested, answered and stored fit together |
| Player (`FeedPlayer`) | `playerDeliveryPosition` | deliver, miss, wait, soft reset | its position and the request list are changed by other threads without a lock | it never runs ahead of the stream |
| Channel (`Channel`, `Sub-Channel-Data`) | `peerList`, `channel_Sub_List`, `server_Sub_Candidates`, `posInsertSubChannel`, `channelMode` | add a peer, make it a candidate, change the state, sweep, finish a parallel channel, select a peer list | an iterator kept across erasures; two maps that must agree; states changed while servers die | networks stay isolated, every parallel channel has a server, servers learn their state |
| Bootstrap (`bootstrap.cpp`) | `channelList` | create, connect (poll), change of state, ping, sweep of silent peers | threads of TCP, UDP and the sweep; a channel read after its lock | no phantom channel, silent peers go |
| UDP queues (`udp.cpp`, `AddressedMessage`, `LeakyBucket`, schedulers) | send queue, round-robin pointer, tokens | push, notify, wait, pop, test the age, take tokens, refill | condition variables without a predicate loop; a pointer to a key that may go | every message is sent or is too old; addresses take turns |
| TCP polls (`ClientBootstrapSession`, `TCPSession`, `BootstrapSession`, servers of both) | the viewer's socket, `perform_udp_punch`, `bootStrapID_Autentic`; what waits for it at the bootstrap (`peerWaitInform`, `waitServerList`) | connect, bind, write, read, handle, stop, and the failure of each | connections break or fall silent, either program dies and starts again, an answer is written after what it tells is ticked off | no state that a candidate was given is lost or taken from another bootstrap |
| Message formats (`common/Messages`, opcodes and sizes of `Defines.hpp`) | none | write by a list of widths, read by an index, checksum, list of peers, relay | writers and readers are edited apart; alignment, truncation, uninitialised memory | readers take what writers meant |
| `externalMessage` | none | read the options, send a change of state | | the state it is asked for reaches the channel it is asked for |
| Strategies (`common/Strategy`) | none | shuffle, choose, filter, tournament, nearest address | unseen changes of the caller's list | they leave what the callers expect |
| Not modelled | | | | see the end |

The components interact through calls inside a process (the handlers call the
partner lists; the requester asks the partner lists for candidates; every thread
pushes into the send queue), through UDP messages between clients, and through
polls of the bootstrap, whose replies carry the peer lists and the changes of
state that `ServerAux` takes as input.

## Modules

| module | models | extends |
|---|---|---|
| `PeerManager` | partner lists and the two threads that change them | |
| `ServerAux` | the same client as an auxiliary server | `PeerManager` |
| `ChunkID` | arithmetic of chunk identifiers (operators only) | |
| `ChunkMap` | the buffer's map packed into bytes for a ping (operators only) | |
| `ChunkExchange` | a server and a client that exchange chunks | `ChunkID` |
| `ChunkPlayer` | the same with the player thread | `ChunkExchange` |
| `Channel` | the bootstrap's channel: operators from channel to channel | |
| `Bootstrap` | the bootstrap's threads around a channel | `Channel` |
| `UdpQueue` | send queue, schedulers, leaky bucket, sender thread | |
| `Announcement` | what the polls promise of the states given to candidates (abstract) | |
| `Sessions` | polls over TCP, with the failures of connections and processes; implements `Announcement` | |
| `Messages` | message classes as bytes (operators only) | |
| `SessionWire` | the polls with the bytes they send | `Sessions`, `Messages` |
| `ExternalMessage` | options and message of the tool (operators only) | `Messages` |
| `Strategies` | selection of partners from a list (operators only) | |
| `PeerManager_proofs` | theorems of `PeerManager` | `PeerManager` |
| `ServerAux_proofs` | theorems of `ServerAux` | `ServerAux`, `PeerManager_proofs` |
| `Extrema_proofs` | what `Min` and `Max` of finite sets return | |
| `Channel_proofs` | what each method of the channel keeps and changes (lemmas) | `Channel`, `Extrema_proofs` |
| `Bootstrap_proofs` | theorems of `Bootstrap` | `Bootstrap`, `Channel_proofs` |
| `UdpQueue_proofs` | theorems of `UdpQueue` | `UdpQueue`, `Extrema_proofs` |
| `ChunkExchange_proofs` | theorems of `ChunkID`, `ChunkExchange`, `ChunkPlayer` | `ChunkPlayer`, `Extrema_proofs` |
| `Sessions_proofs` | theorems of `Sessions`, the refinement among them, and of `SessionWire` | `SessionWire`, `Extrema_proofs` |
| `MC...` | constants of the runs | |

Definitions keep the source's names where they can; `PROJECT.json` ("map") names
the lines of each. An operator under a comment `DEFECT (P)` is no part of any
specification: it is a plausible bug that would break property P, kept beside
the definition it would replace.

### PeerManager and ServerAux

The receive thread handles one datagram at a time, in the steps the locks allow:
`PingArrives`/`DataArrives` (AddPeer), `CheckActive` (IsPeerActive),
`CheckCooldown`, `LockActive`, `ConnectPeer`, `Refresh`, `StoreChunkMap`,
`StoreDelay`. The timer thread runs `Sweep` (CheckPeerList under the three list
mutexes), then, with the mutexes dropped, one `Disconnect`, `StartCooldown` or
`RemovePeer` per peer it decided on, and `TickCooldown`; then the Connector
(`Connect`) and the Disconnectors (`Flexibilize`). The replies of the bootstrap
are `HandlePeerlistMessage` and `HandleServerAuxListMessage`, one step each, though the
code locks for each peer of the list anew: they add entries and connect nobody. `Connect`
has no tests of room of its own (PeerManager.cpp:84, 114): the Connector counts the
vacancies with `peerListMutex` held, without which nobody adds to In, so they succeed. `Client::Ping`
reads the lists, which matters because `operator[]` of the map creates entries
(`Touched`). A dereferenced NULL `Peer*` sets `crashed` and ends the behaviour.
The process forgets nothing on its own, so there is no crash and restart.

`ServerAux` adds the bootstrap's state messages (`HandleMessageServerSub`, in
any order and with states skipped, since the client learns the state only when
it polls) and `ExecMesc` in the steps its locks allow: count down, pick partners
under the mutexes of Out and of the rejected list, then reject and drop them. A partner
enters the rejected list and leaves Out in one step (PeerManagerServerAux.cpp:102, 172),
since the mutex of the rejected list is held from one to the other.

Left out: the payload of pings, `isolaVirtutalPeerSameIP` (addresses have no IP),
the performance score. Kept though odd: `TTLInit` in a client differs from the
TTL a ping gives, and an entry in Out *and* OutFREE loses two TTLs per sweep.

### ChunkID, ChunkExchange, ChunkPlayer

`ChunkExchange` has the server's `InsertMedia` and `MoveTip` (a chunk is written
into the ring before the tip moves), `TakeTip` and `SendMap` (the map ping copies
the tip and then the bitmap), `HandleRequestMessage`; and the client's
`StoreChunkMap`, `AcceptData`, `InsertData`, `UpdateLatest` (the receive thread,
three steps), the requester (`Ask` puts a request on the list and `NextPosition`,
the list unlocked, moves on; `FazPedidos`, `GiveUp`, `ClearRequests`), the
expiry of a request (`TimeOver`) and the timer thread's `TipReply`. Datagrams are
lost, delayed and reordered: `net` is a set and a datagram may never be taken.
`ChunkPlayer` adds `CheckReset`, `Deliver`, `Miss`, `Advance` and `Wait` of
FeedPlayer; `Advance` increments the position, a step after the delivery (client.cpp:1572)
or after the miss was decided (1586, 1631), and whatever the position is by then. Left out so far: the choice among several candidates, the throttling
by `pendingRequests`, the free riders' rules.

### Channel, Bootstrap

A channel is a record; each method of `Channel` is an operator, and the actions
of `Bootstrap` apply them under `channelListMutex`, one step per critical
section: `Create`, `Connect` (a poll: add the peer, consider it as a candidate,
reply), `ChangeState`, `Ping`, `CheckPeerList`. The ping handler goes on to read
the map after the unlock: `PerfRead`, a step per read. The three kinds of reply
are `InformServerSub`, `ShareServerAuxList` and `SharePeerList`. Peers are
numbered in the order of the map. `posInsertSubChannel` is the server it points
to, or `End`, `Null` (never set) or `Freed` (cleared map); what an increment or a
dereference of those does in the build is a choice over its outcomes: a stray
positive number that is no channel's (`Stray`), some server, or a loop that never ends (`hung`).

History variables: `told` (the state each peer was last given, kept when it is
removed, as the peer itself keeps it) and `met` (whom each peer was handed since both
are there). Left out: log files, stream
rate, creation time, and several channels, which share nothing but the mutex;
a poll is one step here, and `Sessions` has its parts and failures. Unsynchronised reads are steps of their own but atomic;
the model ends when a channel that is gone is read uninitialised (`undefined`).

### UdpQueue

`Push` and `Notify` are two steps of a producer; `Look`, `Wait`, `TestQueue`,
`TestRequests`, `Pop`, `CheckAge`, `DecToken`, `WaitBucket` and `Send` are the sender
thread's. `TestQueue` is what the schedulers read before they lock (is there a message,
which address is first), with CDF's second test in `TestRequests`; pushes come between
it and `Pop`. The torn values that such a read may return in the middle of an insertion are
left out: each read is one step. The sender may also wake by itself (`WakeSpuriously`); `Replenish` is the timer. The four
schedulers are the choice `Poppable`; a request carries its distance to the
play-out point (`gap`), by which CDF sorts. `marked` follows one arbitrary message,
`turns` counts how often an address with a message was passed over. The run
without a bucket is not modelled; it is the same with tokens always there.

### Sessions, Announcement, SessionWire, Messages

`Sessions` follows one poll from `Client::ConnectToBootstrap` through connect,
bind (`Ask`, `NotConnected`, `OpenThrows`), the bootstrap's session and
`HandleChannelMessage` (`Handle`), to the handler of the answer and `Stop`
(`HandlePeerlistMessage`, `HandleMessageServerSub`, `HandleServerAuxListMessage`,
`HandleErrorMessage`). `NoticeBreak` is a failed write or read: the code returns
without `Stop`, so the socket stays as it is (`stuck`). `Kill` and `Start`,
`BootstrapDies` and `BootstrapStarts` are crashes and restarts; a request that is
still on its way when its sender dies is handled later (`HandleOrphan`). What the
channel decides is left open: any state may be given to a candidate at any time
(`SetState`, `SetPeerWaitListServer`, `NotKept`) and any viewers, or the channel,
may be removed (`CheckPeerList`); `Bootstrap` says when. `bootStrap_ID`, the time
of the start, is the number of the start.

`Announcement` has no sessions: the bootstrap gives a viewer a state (`Announce`),
the viewer takes the last one once (`Hear`), ends or can be reached no more
(`Lose`), starts (`Join`); a removal, a restart or a request that outlived its
sender may put the two apart (`excused`). `Sessions` implements it with
`told <- newMode`, `pending <- waitInform`, and `heard` the state that the viewer
has or that the answer on its way carries, `"unreachable"` while no later poll
of this run of the program can succeed. The property is worth having because
`HandleChannelMessage` clears `peerWaitInform` *before* it writes the answer
(bootstrap.cpp:150): a lost answer loses the state. The code is saved by another
flaw, that the viewer never closes the socket of a failed poll and so never polls
again. Closing it, the obvious repair, would break the promise: that is the mutant
`ClosesAfterBreak`.

`Messages` gives each class the list of widths it writes, each reader the
indices it uses, and `AssembleHeaderValues`, `SplitHeaderValues`, the alignment to
the width of a field, the checksum, the list of peers in the body and what a
relay changes, on functions from offsets to bytes. `SessionWire` puts those bytes
on the connections of `Sessions`; the memory that `new[]` leaves uninitialised is one
of `Garbage`, with a byte for each offset. Floats are passed as their 32 bits. `ExternalMessage` folds the
options of the tool as its loop does; what its message changes is `ChangeState` of
`Bootstrap`.

### Strategies

Each strategy is an operator from a list to the set of lists that `drand48` may
leave. `Connect`, `Flexibilize` and `SelectPeerList` take any candidates in their
modules; the assumptions of `MCPeerManager` say that this is what the strategies
leave to them.

## What TLC checks

| run | module | properties | what it shows |
|---|---|---|---|
| `PMLists` | PeerManager | `TypeOK` `Capacity` `RoomKept` `InPartnersAlive` `EvictsOnlyPoorer` | with both threads interleaved the lists keep their limits, a room seen when the list is locked is still there at the insertion, no expired In partner survives a sweep, and a swap of partners is one eviction in favour of a strictly richer peer |
| `PMSilent` | PeerManager | `SilentPeerDropped` | a peer that stops sending ends in no list, whatever refreshes, reconnections and late steps of the handler happen |
| `PMPrecondition` | PeerManager | `ConnectPeerPrecondition` | **violated**: see findings |
| `SAMerge` | ServerAux | `AuxTypeOK` `RejectedNotServed` `ServesOnlyParallel` `OnlyParallelMerged` `MergeDrains` | the phases in any order keep the parallel network isolated at the auxiliary server, and a merge that permits reconnection still ends |
| `SAStuck` | ServerAux | `MergeCompletes` | **violated**: see findings |
| `CEPlay` | ChunkPlayer | `TypeOK` `RequestsOrdered` `PlayerNotAhead` `RequesterRecovers` | no chunk is requested twice at once, the player stays behind, a requester that fell out of the server's window comes back |
| `CEAnswer` | ChunkExchange | `AnswersRequested` | **violated**: see findings |
| `BSNetworks` | Bootstrap | `TypeOK` `ServersAreKnown` `ParallelServed` `NetworksIsolated` `ServersTold` `MovesJustified` | the maps of a channel agree, a parallel channel keeps a server as long as it has peers, peers of two networks are never introduced, whoever is to serve or to merge was told so last or will be, peers change network only when they must |
| `BSServed` | Bootstrap | `EveryParallelPeerServed` | **violated**: see findings |
| `UQSend` | UdpQueue | `TypeOK` `PointerPending` `FairTurns` `MessagesLeave` | the round-robin pointer never dangles and is fair, and lost notifications delay messages but do not hold them for ever |
| `UQAge` | UdpQueue | `DropsByAge` | **violated**: see findings |
| `TSNews` | SessionWire | `TypeOK` `Agreement` `ObeysItsBootstrap` `WireCarries` `KeepsPromise` `NewsArrives` | with connections and processes that fail at every point, no state is lost on a viewer that can still be reached, none comes from another bootstrap, the bytes carry what was meant, and waiting news are handed out; the polls implement `Announcement` |

Some MC modules also hold assumptions that TLC evaluates:

- `MCChunkExchange`: the arithmetic of `ChunkID` agrees with the distance in the
  stream, over all identifiers of the instance; a map packed and unpacked by
  `ChunkMap` is the map but for the positions beyond the last multiple of 8.
- `MCSessions`: headers fit, readers take what writers wrote cut to its width,
  whatever memory held; an accepted datagram is the one that was sent and one with
  a changed byte is not accepted; relaying counts hops and attempts modulo 256 and
  changes nothing else; lists of up to three peers arrive in order; the external tool
  sends the last mode it is given, and only to channel 0. Values are
  taken at the edges of 8, 16 and 32 bits, and every class goes through them.
- `MCPeerManager`: for lists of up to four, the shuffle reaches every order, the
  requester asks one of the least loaded, the filters keep exactly those above
  their limit (who says nothing stays), the tournament passes one player over, the
  nearest addresses come in order.

Each property of a passing run is broken by one of the `DEFECT` operators
(`PROJECT.json`, "mutants"): no property holds by the shape of the model.

Deadlock is checked in `UQSend` and `TSNews`. The other specifications may stop: a crash, an
`exit`, the end of the bounded stream, or threads that wait for each other, which
is what `SAStuck` is about (the liveness properties of the other runs would fail
if it concerned them).

### Bounds

- **Partner lists**: two peers and lists of one place (two in Out for the merge).
  Full list, eviction, both lists of one peer and every interleaving of two
  threads appear with two peers; a third only waits. TTLs are 1 or 2 and the
  cooldown is 1, so that expiry races with a ping within two sweeps.
- **Auxiliary server**: as above; `QT` 1 and `TimeDesc` 1, so that a merge takes
  several steps and partners reconnect in between.
- **Chunks**: a ring of three slots, whose first slot is filled a second time; one
  datagram in flight, which may be lost or arrive at any later moment, and one attempt
  per request. A smaller ring would do nothing: in its window of three the server has
  one chunk that is available, in one of two none. One failed round sends the requester
  back to the tip. `Cycles` bounds the 32-bit cycle and is never reached. Beyond these
  bounds, and left to the theorems: retries, data that overtake data (two datagrams in
  flight; `LatestTheorem`) and the player's soft reset, which needs a player three
  chunks behind the latest one (`OrderTheorem`, `PlayerTheorem`).
- **Bootstrap**: a server, two candidates, a viewer; two parallel channels of one
  server and one peer each, so that one is full, one has room and both can die;
  TTL 2; two changes of state (`MaxChanges`), enough for flash crowd and merge, or
  flash crowd and back; performance pings of one candidate (`PerfPeers`). A flash crowd
  has places for both candidates here: a third one multiplies the states by three (5.8
  million, on which the same properties hold, but for longer than a run may take). That
  the same holds when candidates are turned away is `ServersToldTheorem`.
- **Send queue**: two producers, two addresses, two places (`MaxQueue`; a push
  beyond is notified but not recorded), a bucket of one message, two distances of
  requests (`Gaps`), one tick of a second in `UQSend` (`MaxClock`, `TicksPerSecond`), so
  that a message is young or too old; four ticks to a second in `UQAge`, so that 250 ms
  can cross the end of a second and 750 ms can stay within one.
- **Polls**: one viewer, which is a candidate, since viewers meet only in `up`,
  `exists` and `bootStrap_ID`, which change by themselves at any time (two viewers
  with `MaxBoots` 1, some 536,000 states, show nothing more); three starts of the
  bootstrap (`MaxBoots`), so that a viewer of the first meets the second and a
  removal follows; states NO_SERVER_AUX, ACTIVE, MESCLAR; memory (`Garbage`) full
  of ones, or with another byte at each offset.

### Fairness

- `PMSilent`, `SAMerge`, `SAStuck`: weak fairness of the receive thread's steps
  (it finishes the datagram it has), strong fairness of the timer thread's (it
  wakes every second and gets mutexes that the other thread takes and drops again
  and again). Nothing is assumed of the peers or of the bootstrap. In ServerAux
  `ExecMesc` runs right after each sweep (`execDue`), as in CyclicTimers.
- `CEPlay`: weak fairness of the server's generator, its pings to the bootstrap,
  the requester and the bootstrap's reply. The network owes nothing.
- `UQSend`: weak fairness of the sender thread, of each producer's notify after
  its push, of the bucket's timer and of the ping thread's next push (it sends
  every second). Only the ping thread is assumed to go on.
- `TSNews`: strong fairness of `Ask`, that is, a viewer that polls every 20 seconds
  (PeerRequester) does not fail to connect each time although the bootstrap runs
  again and again; weak fairness of the bootstrap's session and of the viewer's
  handlers, which are threads with nothing else to wait for. Nothing is assumed of
  broken connections, of restarts, or of a poll that waits for ever because its
  connection fell silent.

## What TLAPS proves

`PeerManager_proofs`, for any set of peers, any limits, TTLs, strategies and
options, under `ConstantsAssumption` only:

- `Invariance`: `Spec => []IInv`, where
  `IInv == TypeOK /\ Capacity /\ RoomKept /\ InPartnersAlive`;
- from it `TypeCorrect` (`[]TypeOK`), `CapacityHolds`, `RoomHolds`, `AliveHolds`;
- `EvictionHolds`: `Spec => EvictsOnlyPoorer`, the action property.

`Capacity` alone is not inductive: `ConnectPeer` inserts without looking for room
again, because `LockActive` did so when it took the mutex. `RoomKept` says that
what it saw is still true; it is inductive because the steps of the timer thread
that add to a list (`Connect`) need `peerListMutex`, which the receive thread
holds at that point, and the others only remove. `InPartnersAlive` needs that
whoever enters In comes with a live TTL (`Joined`) and that a sweep lists every
entry it takes to 0 before it lets go of the mutexes. The proof has one step per
action and, below it, one per conjunct the action can disturb; the lemmas on
entries and on cardinalities stand first.

`Sessions_proofs`, for any viewers, candidates, states and number of restarts,
under `SessionsAssumption` only, but for the last two:

- `TypeCorrect` (`[]TypeOK`) and `Invariance` (`[]IInv`), where
  `IInv == TypeOK /\ TablesEmpty /\ OneBootstrap`;
- `OnlyItsBootstrap`: `Spec => []ObeysItsBootstrap`;
- `Refinement`: `Spec => KeepsPromise`, each action of `Sessions` being an action of
  `Announcement` or a stutter;
- `Agrees`: `Spec => []Agreement`;
- `BytesCarry`: `WireSpec => []WireCarries`, also under `SessionWireAssumption` (the
  states are those with a code, uninitialised memory holds bytes, and no bootstrap
  starts after January 2038, when the time no longer fits the `int` it is read as);
- `WireKeeps`: the theorems of `Spec` hold of `WireSpec`, which is the specification
  that `TSNews` checks.

`ObeysItsBootstrap` is not inductive: the message that carries a state has no
identity, and a viewer that knows an earlier bootstrap may well poll a later one.
`OneBootstrap` says why no state comes of it: a viewer whose identity differs can
be in the tables of the present bootstrap only by the very poll whose answer
(a peer list, with its identity) ends its program, or with a connection that will
bring no answer. `TablesEmpty` says that nothing waits for a viewer that is not in
the tables, and that they are empty without a channel. The refinement needs
`TypeOK` for the implications between place, socket and connection (`heard` becomes
unreachable exactly where the code can no longer poll) and `TablesEmpty` for a poll
that finds no channel: no news are ticked off by its error message. `Agrees` is the inductive invariant of `Announcement` carried through the same mapping.

`BytesCarry` rests on `Packets`: what is on a connection was written for what the
connection carries, in some memory, and the identity in it is one that a bootstrap
had. The rest is about operators. `Begins` places the fields of a layout by
recursion over the list of their widths; for the layouts of the three messages the
offsets are written out and shown to be the only solution, since the first place at
which another one differed would contradict the equation of that place. Each field is then
alone in its bytes (`FieldWritten`), the checksum touches only its own two, and four bytes
taken as an `int` give back what was written if it is below 2^31.

`ServerAux_proofs`, for any peers, size and pace of the merge and merge mode, under
`MergeAssumption`, `ConstantsAssumption` and `UnknownAssumption` (the value for "no
entry" is no entry):

- `AuxTypeCorrect`, `RejectedTheorem` (`[]RejectedNotServed`), `ParallelTheorem`
  (`[]ServesOnlyParallel`), `MergedTheorem` (the action property
  `OnlyParallelMerged`);
- `ListsKept`: `AuxSpec => [](Capacity /\ RoomKept /\ InPartnersAlive)`. The steps of
  the merge are not steps of `PeerManager`, so this does not follow from its theorems;
  it is its inductive invariant carried through the added actions.

`AuxIInv` adds to `IInv` that `ExecMesc` is due or at work only in the phase MESCLAR
(`Phase`) and that the partners it has picked are still marked as of the parallel
network (`Marked`). `Marked` is what makes the choice under the mutexes last until the
disconnections: no other step lets an entry change its network or go while the timer
thread is inside the merge, because the sweep runs on the same thread.

`Channel_proofs` and `Bootstrap_proofs`, for any peers, limits, TTL, options and
number of changes, under `ChannelAssumption` and `BootstrapAssumption`:

- `TypeCorrect`, `KnownTheorem` (`[]ServersAreKnown`), `ServedTheorem`
  (`[]ParallelServed`), `MovesTheorem` (`MovesJustified`);
- `IsolationTheorem`: `~Mixed => (Spec => []NetworksIsolated)`. With the option
  subChannelMixed the networks are not meant to be isolated;
- `ServersToldTheorem` (`[]ServersTold`), with no condition on how many candidates a flash
  crowd has places for.

The lemmas of `Channel_proofs` say of each method that it keeps `Good` and what it may
change; the theorems then follow one critical section at a time. `Good` is the
strengthening: that a channel has a server for each parallel network it has peers in
(`Served`) survives the sweep only because servers are candidates, known, and
themselves outside the parallel networks (`KnownServers`), because a channel in the
normal mode has no servers left (`NoneInNormal`), and because the entries that the
reads after the unlock make up are in no parallel network (`StrangersOutside`).
`NetworksIsolated` is inductive with that and the fact that `met` is forgotten with
the peer (`MetPresent`).
`ServersTold` speaks of who is to serve or to merge, not of who is to stop, since nothing in the source
says that a candidate is told to stop, and it is not: at the start of a flash crowd
`SetChannelMode` keeps `maxSubChannel * sizeCluster` candidates at random
(Channel.cpp:400-412), 10 of 200 by default (bootstrap/main.cpp:29-32), and forgets the
others; one that was serving serves on, to the bootstrap a NO_SERVER_AUX when it is a
candidate again. A candidate that is swept (693) is not told either.

`UdpQueue_proofs`, for any threads, addresses, messages, scheduler, bucket and tick,
under `UdpQueueAssumption`: `TypeCorrect`, `PointerTheorem` (`[]PointerPending`),
`FairTurnsTheorem` (`[]FairTurns`). `FairTurns` bounds how often an address is passed over; `Turned` makes it
inductive: what has been passed over, plus the addresses between the pointer and this
one in the order of the map, is less than a round.
`PointerTheorem` needs to know of the place of the sender (`Found`): between the unlocked
test and the locked pop the queue that was tested has a message still, because only this
thread takes messages away, and the address that the test took is one of theirs.

`ChunkExchange_proofs`, for any buffer, stream, network and limits, under
`ChunkIDAssumption` and `ExchangeAssumption`:

- `WindowTheorem`: `WithinCycle(b, a)` holds exactly if `Index(a) - Index(b)` is in
  `0 .. BufferSize - 1`, for every two identifiers: the first assumption of
  `MCChunkExchange` for every buffer size;
- `TypeCorrect`, `LatestTheorem` (`[]NothingPastLatest`);
- `OrderTheorem`, `PlayerTheorem`, and `FairTheorem` for the fair specification:
  `Unwrapped => (PlaySpec => []RequestsOrdered)` and the same for `PlayerNotAhead`.

`NothingPastLatest` needs that a slot which has a chunk has been given an identifier
(`Stored`): the ring's `id[]` is not initialised, and an answer that read it would put
any number on the network. `RequestsOrdered` needs that the requester, which
follows the tip of its partner's map, and the requests stay apart when the tip is asked
for again (`Emptied`: the list is empty by then or about to be), and that filtering a
list keeps its order (lemmas on `Those`). `PlayerNotAhead` is not inductive: between a
delivery or a miss and the increment the player must not yet be one past either
position, and `Behind` says so. `Unwrapped` says
that the stream does not reach the last of the `BufferSize * Cycles` identifiers, less
two. It is a real limit: the cycle is a 32-bit number that starts again at 0, and both
properties compare identifiers. `CEPlay` satisfies it (6 < 12), and so does any
stream of less than 2^32 buffers.

### Only model-checked

- Liveness (`SilentPeerDropped`, `MergeDrains`, `RequesterRecovers`, `MessagesLeave`,
  `NewsArrives`): fairness and ENABLED are out of the prover's reach.
- The assumptions about the message classes that the polls do not use, packed maps
  and strategies, over edge values: an offset is computed by recursion over a layout,
  a shuffle by recursion over a list. The library's induction rules take an
  operator, which the provers cannot instantiate; each recursion takes a
  least-counterexample argument of its own, as that on `Those` in
  `ChunkExchange_proofs` and that on the layouts of the polls in `Sessions_proofs`.
- The properties of the violation runs, which do not hold.

No module that is proved about declares a RECURSIVE operator.

## Findings

- `PMPrecondition` (PeerManager.cpp:371): CheckPeerList calls RemovePeer after it
  has dropped the list mutexes; between AddPeer and ConnectPeer of a ping it can
  erase the sender's entry. ConnectPeer, whose comment says that the peer is
  certainly in `peerList`, re-creates it with a NULL `Peer*`.
- `SAStuck` (PeerManagerServerAux.cpp:100): ExecMesc takes the mutex of the
  rejected list and then that of Out, ConnectPeer the other way round; the client
  stops, its merge never ends.
- `CEAnswer` (client.cpp:681): at its tip the server answers with the chunk of the
  previous cycle, because the tip names the slot before it is filled.
- `BSServed` (Channel.cpp:215): the reset of the insert position is a comparison
  (`==`); a flash crowd without candidates puts the next peer into a parallel
  channel read from `end()`, which nobody serves.
- `UQAge` (AddressedMessage.cpp:25): client.cpp:1679 says that messages older than 500 ms
  are dropped. The age is the difference of whole seconds, so a message of 750 ms may be
  sent and one of 250 ms dropped.

Other disagreements of code and intent, met while modelling and followed
faithfully by the models:

- *Partner lists.* DisconnectPeer takes a peer off before it starts the cooldown,
  so a ping in between reconnects it (PeerManager.cpp:172). A known peer that never
  becomes active is never removed. A peer in Out and OutFREE loses two TTLs per
  sweep. Sets are compared by content (PeerManager.cpp:122). The eviction of a full
  Out list (143) may take an auxiliary server that was marked special so as not to
  be excluded (Defines.hpp:76-78).
- *Auxiliary server.* SetPeerManagerState resets or negates `channelId_Sub` only
  of the peers in Out at that moment (PeerManagerServerAux.cpp:195), though
  PeerData.hpp:18 says a positive value means a flash crowd. OutFREE is neither
  cleared nor rejected when a parallel network starts (163-174), and a KILLEND
  merge exits with OutFREE possibly not empty (Defines.hpp:117).
- *Chunks.* `maxRequestAttempt` of -1 drops a request at its first expiry
  (client.cpp:1346). Requests without a candidate linger. After a reset the slot of
  the request position itself is not unset, so a stale chunk may be played. The
  ring's `id[]` is not initialised (MediaBuffer.cpp:14). Assignments of identifiers
  at client.cpp:463-469 lose `bufferSize`. With blockFreeriders a leaking
  `pendingRequests` blocks others too (main.cpp:137).
- *Channel.* The sweep increments `posInsertSubChannel` when it is `end()` for
  every peer that is no server (684): in an empty map this never returns, with
  `channelListMutex` held. Candidates of an incomplete cluster are told they serve
  but are in no parallel channel and are handed to main peers. Merging free riders
  are shown to main peers, though not the reverse (536-539). Dropped candidates,
  silent or not chosen (412), are never told to stop; with the default options
  that is all but ten of them. `erase(end())` at 268 and 275
  is undefined and in the build pops the last element. With TIMEMERGE each message
  merges one server, not one channel (of a cluster, its peers go at once).
- *Bootstrap.* Reads after the unlock (419, 433) may create an entry with a NULL
  `Peer*`, which crashes the next SelectPeerList, or an uninitialised channel. The
  upload score is stored in a copy (433), and what is read for it (432) is the cycle
  of the sample chunk, not the size of a list.
- *Chunk map.* A ping carries BUFFER_SIZE/8 bytes (client.cpp:1124), so with a buffer
  size that is no multiple of 8 partners never get the last positions, and read past
  the map they stored. BitsetToBytes does not write the incomplete byte of 7 bits and
  repeats an old bit in the others; nothing reads it.
- *Polls.* A failed poll returns without `Stop` (client.cpp:211): a viewer that has
  punched before never connects again, one that has not ends with an exception at
  `open()`. `Receive` has no time limit (client-bootstrap-session.cpp:73), and as it
  runs on the timer thread, a connection that falls silent also stops the sweeps. A
  session of the bootstrap whose read fails, or that has no answer, is left for ever
  (bootstrap-session.cpp). SERVERAUX carries no identity of the bootstrap. A request of
  a program that was killed may take the news of its successor. Candidates that are
  removed or not kept are not told.
- *Messages.* The peers of the log message are In, separator, Out, where the comment
  at client.cpp:900 says Out first. PING_LIVE_OUT sends a body that nobody wrote.
- *External tool.* The last `if` of its options has an `else` of its own
  (externalMessage/main.cpp:84), so that every option but `-channelMode` ends the
  program with "Invalid Arguments", the `-channelId` of its help (47) included: only
  channel 0 can change state.
- *Strategies.* The tournament begins a place too far, at
  `originalQuantity + 1` (TournamentStrategy.hpp:27), and its result, like that of the
  nearest addresses, is lost: both `delete` a list that is on the caller's stack. The
  `_FREE` filter asks the other size whether it is unknown
  (RandomStrategyWhitoutPoorBand.hpp:50).
- *Send queue.* The Random scheduler is a stack (`(uint32_t)drand48()` is 0) and CDF
  starves requests, so neither has `MessagesLeave`. A message larger than the bucket
  blocks the sender for ever; the model excludes it (`PacketsFitBucket`), the code
  does not.

## Not modelled

Options (`XPConfig`), HTTP page, statistics and log files: pure I/O without
influence on the protocol. Memory lifetime of queued messages and of `PeerData` pointers, and the
leak of `pendingRequests`, are listed as hazards without a property. The server's own
polls only create the channel (`CreateChannel`). `src/legacy` and `src/plugin` are not
part of the current program.

## Plan

1. Extend: several candidates for a chunk with `pendingRequests` throttling and
   free riders in ChunkExchange, which `Strategies` is ready for; the isolation of
   networks as an abstract specification (peers, networks, introductions) that
   Bootstrap implements; `Sessions` and `ServerAux` joined, so that the phases an
   auxiliary server goes through are those the polls bring it.
2. Prove: the safety invariants that the runs check are all theorems. What is left
   is the same as `BytesCarry` for the other message classes, whose lemmas are those
   of `Sessions_proofs` with other layouts. The isolation of networks as
   an abstract specification (see 1) would come with its refinement.
