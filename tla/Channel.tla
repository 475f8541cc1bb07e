------------------------------ MODULE Channel ------------------------------
(***************************************************************************)
(* The Channel of the bootstrap (common/Channel.cpp): who watches it, which *)
(* of the watchers are candidates to auxiliary server, and the parallel     *)
(* channels of a flash crowd.  A channel is a record and every method an    *)
(* operator from channels to channels; Bootstrap.tla calls them under the   *)
(* lock the code holds.                                                     *)
(*                                                                         *)
(* Peers are numbers in the order std::map gives their addresses.           *)
(***************************************************************************)
EXTENDS Integers, FiniteSets, FiniteSetsExt, Functions

CONSTANTS
    Peers,          \* the addresses that may watch
    Server,         \* the one that created the channel
    TTLChannel,     \* sweeps a silent peer survives
    MaxSubChannel, SizeCluster, MaxCandidate, MaxPeerInSub,
    TimeMerge,      \* TIMEMERGE: one auxiliary server merges per message
    Mixed,          \* subChannelMixed: no isolation of the networks
    OutOf,          \* the out-list size each peer announces
    MinOut          \* minimumBandwidth

ASSUME ChannelAssumption ==
    /\ Peers \subseteq Nat /\ IsFiniteSet(Peers) /\ Server \in Peers
    /\ TTLChannel \in Nat \ {0} /\ SizeCluster \in Nat \ {0}
    /\ MaxSubChannel \in Nat /\ MaxCandidate \in Nat /\ MaxPeerInSub \in Nat
    /\ TimeMerge \in BOOLEAN /\ Mixed \in BOOLEAN
    /\ OutOf \in [Peers -> Nat] /\ MinOut \in Nat

\* Values of channelId_Sub.  Stray is what AddPeerChannel reads when it
\* dereferences end() of channel_Sub_List: half of the pointer stored next to
\* it in the object, positive and no channel's number.
Unset == 0
Main == 1
Merging == -1
Stray == Main + MaxSubChannel + 1
Parallel == (Main + 1) .. (Main + MaxSubChannel)

\* Values of posInsertSubChannel that are no server: end(); the initial null
\* iterator; a node that clear() has freed.
End == 0 - 1
Null == 0 - 2
Freed == 0 - 3

Subs == {Unset, Main, Merging, Stray} \cup Parallel
Modes == {"NORMAL", "FLASH_CROWD", "MESCLAR"}
AuxStates == {"NO_SERVER_AUX", "ACTIVE", "MESCLAR"}

PeerEntries == [known : BOOLEAN, ttl : 0..TTLChannel, sub : Subs, wait : BOOLEAN]
CandidateEntries == [state : AuxStates, inform : BOOLEAN]

ChannelType(c) ==
    /\ c = [mode |-> c.mode, peerList |-> c.peerList, subList |-> c.subList,
            candidates |-> c.candidates, pos |-> c.pos, hung |-> c.hung]
    /\ c.mode \in Modes /\ c.hung \in BOOLEAN
    /\ DOMAIN c.peerList \subseteq Peers
    /\ c.peerList \in [DOMAIN c.peerList -> PeerEntries]
    /\ c.candidates \in [DOMAIN c.candidates -> CandidateEntries]
    /\ c.subList \in [DOMAIN c.subList -> Parallel]
    /\ c.pos \in {End, Null, Freed} \cup DOMAIN c.subList

\* PeerData(peer) as the channel uses it; known is FALSE when the entry has a
\* NULL Peer* (made by operator[] of the map).
PeerEntry(known, sub) ==
    [known |-> known, ttl |-> TTLChannel, sub |-> sub, wait |-> FALSE]

NewCandidate == [state |-> "NO_SERVER_AUX", inform |-> FALSE]

HasPeer(c, p) == p \in DOMAIN c.peerList /\ c.peerList[p].known
Servers(c) == DOMAIN c.subList
Candidates(c) == DOMAIN c.candidates
InSub(c, sub) == {p \in DOMAIN c.peerList : c.peerList[p].sub = sub}

\* peerList[peer] = entry
Put(c, p, entry) ==
    [c EXCEPT !.peerList =
        [q \in DOMAIN @ \cup {p} |-> IF q = p THEN entry ELSE @[q]]]

\* Every peer of the given networks goes to another one.
Move(c, subs, to) ==
    [c EXCEPT !.peerList =
        [p \in DOMAIN @ |-> IF @[p].sub \in subs THEN [@[p] EXCEPT !.sub = to]
                                                ELSE @[p]]]

FirstOf(S) == IF S = {} THEN End ELSE Min(S)
NextServer(c, s) == FirstOf({t \in Servers(c) : t > s})

-----------------------------------------------------------------------------
(* Adding a peer *)

AddPeerMasterChannel(c, p) == Put(c, p, PeerEntry(TRUE, Main))

PosSub(c) == IF c.pos \in Servers(c) THEN c.subList[c.pos] ELSE Stray
Room(c, sub) == Cardinality(InSub(c, sub)) < MaxPeerInSub

\* After an insertion the position moves to the next server of another
\* parallel channel, or back to the first server.
NextPos(c) ==
    LET later == {t \in Servers(c) : t > c.pos /\ c.subList[t] # PosSub(c)}
    IN  IF c.pos # End /\ later # {} THEN Min(later) ELSE FirstOf(Servers(c))

\* The reset of a position at end() is written == and does nothing.
PutAtPos(c, p) ==
    [Put(c, p, PeerEntry(TRUE, PosSub(c))) EXCEPT !.pos = NextPos(c)]

\* allsubChannelFull leaves the position at the first server with room.
ServersWithRoom(c) == {s \in Servers(c) : Room(c, c.subList[s])}

AddPeer(c, p) ==
    IF c.mode # "FLASH_CROWD" THEN AddPeerMasterChannel(c, p)
    ELSE IF Room(c, PosSub(c)) THEN PutAtPos(c, p)
    ELSE IF ServersWithRoom(c) = {} THEN AddPeerMasterChannel(c, p)
    ELSE PutAtPos([c EXCEPT !.pos = Min(ServersWithRoom(c))], p)

AnalizePeerToBeServerAux(c, p) ==
    IF /\ c.mode = "NORMAL" /\ HasPeer(c, p) /\ p # Server
       /\ Cardinality(Candidates(c)) < MaxCandidate
       /\ p \notin Candidates(c)
    THEN [c EXCEPT !.candidates =
            [q \in DOMAIN @ \cup {p} |-> IF q = p THEN NewCandidate ELSE @[q]]]
    ELSE c

NewChannel ==
    AddPeerMasterChannel(
        [mode |-> "NORMAL", peerList |-> <<>>, subList |-> <<>>,
         candidates |-> <<>>, pos |-> Null, hung |-> FALSE], Server)

-----------------------------------------------------------------------------
(* SetChannelMode: the channels each request may lead to *)

ToNormal(c) ==
    IF c.mode = "NORMAL" THEN c
    ELSE [Move(c, {c.peerList[p].sub : p \in DOMAIN c.peerList}, Main) EXCEPT
            !.mode = "NORMAL",
            !.subList = <<>>,
            !.pos = IF c.pos \in Servers(c) THEN Freed ELSE c.pos,
            !.candidates = [p \in DOMAIN @ |->
                IF @[p].state # "NO_SERVER_AUX"
                THEN [state |-> "NO_SERVER_AUX", inform |-> TRUE] ELSE @[p]]]

\* DEFECT (MovesJustified): all networks merge though one server was told to.
NetworksOfAll(c, chosen) == Range(c.subList)

NetworksOf(c, chosen) == {c.subList[s] : s \in chosen}

\* DEFECT (ServersTold): nothing is left for the server's next poll.
ToMergeUntold == [state |-> "MESCLAR", inform |-> FALSE]

ToMerge == [state |-> "MESCLAR", inform |-> TRUE]

\* The networks of the chosen servers become one, Merging, that meets the
\* main network; with TIMEMERGE one server at a time.
ToMesclar(c) ==
    LET waiting == {s \in Servers(c) :
                      s \notin Candidates(c) \/ c.candidates[s].state # "MESCLAR"}
        chosen == IF TimeMerge /\ waiting # {} THEN {Min(waiting)} ELSE waiting
    IN  IF c.mode = "NORMAL" THEN c
        ELSE [Move(c, NetworksOf(c, chosen), Merging) EXCEPT
                !.mode = "MESCLAR",
                !.candidates = [p \in DOMAIN @ \cup chosen |->
                    IF p \in chosen THEN ToMerge ELSE @[p]]]

\* Create_All_ChannelSub: the candidates, in order, in whole clusters; those of
\* an incomplete cluster serve nobody though they are told they are active.
CreateAllChannelSub(c) ==
    LET spare == Candidates(c) \ Servers(c)
        rank(p) == Cardinality({q \in spare : q < p})
        whole == (Cardinality(spare) \div SizeCluster) * SizeCluster
        fit == MaxSubChannel * SizeCluster - Cardinality(Servers(c))
        new == {p \in spare : rank(p) < whole /\ rank(p) < fit}
        list == [s \in Servers(c) \cup new |->
                    IF s \in new THEN Main + 1 + rank(s) \div SizeCluster
                                 ELSE c.subList[s]]
    IN  [c EXCEPT !.subList = list, !.pos = FirstOf(DOMAIN list)]

\* FLASH_CROWD keeps a random choice of the candidates when they are too many.
ToFlashCrowd(c) ==
    LET most == MaxSubChannel * SizeCluster
        keeps == IF Cardinality(Candidates(c)) > most
                 THEN kSubset(most, Candidates(c)) ELSE {Candidates(c)}
        start(kept) == [c EXCEPT
            !.mode = "FLASH_CROWD",
            !.candidates = [p \in kept |-> [state |-> "ACTIVE", inform |-> TRUE]],
            !.peerList = [p \in DOMAIN @ |->
                IF p \in kept THEN @[p] ELSE [@[p] EXCEPT !.wait = TRUE]]]
    IN  IF c.mode # "NORMAL" THEN {c}
        ELSE {CreateAllChannelSub(start(kept)) : kept \in keeps}

SetChannelMode(c, mode) ==
    CASE mode = "NORMAL"      -> {ToNormal(c)}
      [] mode = "MESCLAR"     -> {ToMesclar(c)}
      [] mode = "FLASH_CROWD" -> ToFlashCrowd(c)

-----------------------------------------------------------------------------
(* CheckActivePeers: one sweep *)

\* DEFECT (ParallelServed): any other auxiliary server counts, not only those of the same channel.
FinishingServerOfAll(c, s) == Servers(c) = {s}

FinishingServer(c, s) ==
    \A t \in Servers(c) \ {s} : c.subList[t] # c.subList[s]

RemoveServer(c, s) ==
    LET rest == IF FinishingServer(c, s) THEN Move(c, {c.subList[s]}, Main) ELSE c
    IN  [rest EXCEPT !.subList = Restrict(@, DOMAIN @ \ {s})]

\* DEFECT (TypeOK): the insert position is left on the server that goes.
PosLeft(c, p) == {c.pos}

\* What posInsertSubChannel++ leaves when the position is the removed peer's.
\* find() is end() for a peer that is no server: incrementing a position at
\* end() of a non-empty tree lands on one of its nodes, and in an empty tree
\* never returns.
PosAfter(c, p) ==
    IF p \in Servers(c)
    THEN {IF c.pos = p THEN NextServer(c, p) ELSE c.pos}
    ELSE IF c.pos = End THEN Servers(c) ELSE {c.pos}

\* DEFECT (ServersAreKnown): a silent candidate stays a candidate.
KeptCandidates(c, p) == c.candidates

OtherCandidates(c, p) == Restrict(c.candidates, Candidates(c) \ {p})

Drop(c, p) ==
    IF c.hung THEN {c}
    ELSE IF PosAfter(c, p) = {} THEN {[c EXCEPT !.hung = TRUE]}
    ELSE LET left == IF p \in Servers(c) THEN RemoveServer(c, p) ELSE c
         IN  {[left EXCEPT !.pos = pos,
                           !.candidates = OtherCandidates(c, p),
                           !.peerList = Restrict(@, DOMAIN @ \ {p})] :
                 pos \in PosAfter(c, p)}

\* dropped[gone] are the channels that may be left when the silent peers in gone
\* have been dropped, in the order of their numbers.
CheckActivePeers(c) ==
    LET aged == [c EXCEPT !.peerList =
                    [p \in DOMAIN @ |-> [@[p] EXCEPT !.ttl = c.peerList[p].ttl - 1]]]
        silent == {p \in DOMAIN aged.peerList : aged.peerList[p].ttl <= 0}
        dropped[gone \in SUBSET silent] ==
            IF gone = {} THEN {aged}
            ELSE UNION {Drop(d, Max(gone)) : d \in dropped[gone \ {Max(gone)}]}
    IN  dropped[silent]

-----------------------------------------------------------------------------
(* SelectPeerList: the peers a watcher may be handed *)

SubOf(c, p) == c.peerList[p].sub
ServersOf(c, p) ==
    IF SubOf(c, p) > Main THEN {s \in Servers(c) : c.subList[s] = SubOf(c, p)} ELSE {}

\* DEFECT (NetworksIsolated): the main network meets whoever is in another network.
MayMeetOther(c, p, q) ==
    \/ SubOf(c, p) = SubOf(c, q)
    \/ SubOf(c, p) < 0 /\ OutOf[p] > 0 /\ SubOf(c, q) = Main
    \/ SubOf(c, p) = Main /\ SubOf(c, q) # Main

\* Same network, or one of them merging and the other in the main network; a
\* merging peer that uploads nothing is not shown the main network.
MayMeet(c, p, q) ==
    \/ SubOf(c, p) = SubOf(c, q)
    \/ SubOf(c, p) < 0 /\ OutOf[p] > 0 /\ SubOf(c, q) = Main
    \/ SubOf(c, p) = Main /\ SubOf(c, q) < 0

Selectable(c, p) ==
    LET others == DOMAIN c.peerList \ {p}
        all == IF Mixed \/ c.mode = "NORMAL" THEN others
               ELSE {q \in others : MayMeet(c, p, q) /\ q \notin Servers(c)}
                        \cup ServersOf(c, p)
    IN  {q \in all : OutOf[q] >= MinOut}

\* SelectPeerList reads the address of every entry: a NULL Peer* stops it.
SelectCrashes(c, p) == \E q \in DOMAIN c.peerList \ {p} : ~c.peerList[q].known

SelectPeerList(c, p, size) ==
    LET able == Selectable(c, p)
        extra == IF Mixed /\ c.mode = "FLASH_CROWD" THEN ServersOf(c, p) ELSE {}
    IN  {list \cup extra : list \in kSubset(Min({size, Cardinality(able)}), able)}

\* MakeServerAuxList
MakeServerAuxList(c) == Candidates(c)
=============================================================================
