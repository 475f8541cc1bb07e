----------------------------- MODULE Bootstrap -----------------------------
(***************************************************************************)
(* The bootstrap (bootstrap/bootstrap.cpp) with one channel: the polls and  *)
(* the changes of state that arrive over TCP, the pings that arrive over    *)
(* UDP, and the sweep that runs every second.  Each holds channelListMutex  *)
(* and is one step; the ping handler goes on after it unlocks, so its later *)
(* reads of the map are steps of their own.                                 *)
(***************************************************************************)
EXTENDS Channel, Sequences

CONSTANTS
    ServerCandidates,   \* the peers run with --serverCandidate
    PerfPeers,          \* bound: the peers whose performance pings count
    ListSize,           \* peerListSharedSize
    MaxChanges          \* bound on the changes of state an operator asks for

ASSUME BootstrapAssumption ==
    /\ ServerCandidates \subseteq Peers /\ PerfPeers \subseteq Peers
    /\ ListSize \in Nat /\ MaxChanges \in Nat

VARIABLES
    channelList,    \* <<>> or the channel alone: channelList of the code
    perfReads,      \* the GetPeerData calls the ping handler still makes
    down,           \* what stopped the process, "no" while it runs
    told,           \* what each candidate was last told to be
    met,            \* whom each peer was handed since both were last added
    changes         \* changes of state so far

vars == <<channelList, perfReads, down, told, met, changes>>

Running == down = "no"
Exists == channelList # <<>>
channel == channelList[1]

Downs == {"no", "crashed", "hung", "undefined"}

TypeOK ==
    /\ down \in Downs
    /\ perfReads \in {<<>>} \cup {<<p>> : p \in Peers} \cup {<<p, p>> : p \in Peers}
    /\ told \in [Peers -> AuxStates]
    /\ met \in [Peers -> SUBSET Peers]
    /\ changes \in 0..MaxChanges
    /\ Exists => channelList = <<channel>> /\ ChannelType(channel)

Init ==
    /\ channelList = <<>> /\ perfReads = <<>> /\ down = "no"
    /\ told = [p \in Peers |-> "NO_SERVER_AUX"]
    /\ met = [p \in Peers |-> {}]
    /\ changes = 0

-----------------------------------------------------------------------------
(* Polls *)

\* Peers that are added anew, or are gone, have met nobody.
Forget(gone) ==
    [p \in Peers |-> IF p \in gone THEN {} ELSE met[p] \ gone]

InformServerSub(c, p, acquainted) ==
    /\ p \in Candidates(c) /\ c.candidates[p].inform
    /\ channelList' = <<[c EXCEPT !.candidates[p].inform = FALSE]>>
    /\ told' = [told EXCEPT ![p] = c.candidates[p].state]
    /\ met' = acquainted
    /\ UNCHANGED down

ShareServerAuxList(c, p, acquainted) ==
    /\ ~(p \in Candidates(c) /\ c.candidates[p].inform)
    /\ c.peerList[p].wait
    /\ channelList' = <<[c EXCEPT !.peerList[p].wait = FALSE]>>
    /\ met' = acquainted
    /\ UNCHANGED <<down, told>>

SharePeerList(c, p, acquainted) ==
    /\ ~(p \in Candidates(c) /\ c.candidates[p].inform)
    /\ ~c.peerList[p].wait
    /\ channelList' = <<c>>
    /\ IF SelectCrashes(c, p)
       THEN down' = "crashed" /\ met' = acquainted
       ELSE /\ \E list \in SelectPeerList(c, p, ListSize) :
                 met' = [acquainted EXCEPT ![p] = @ \cup list]
            /\ UNCHANGED down
    /\ UNCHANGED told

\* The end of HandleChannelMessage: one of the three answers.
Reply(c, p, acquainted) ==
    \/ InformServerSub(c, p, acquainted)
    \/ ShareServerAuxList(c, p, acquainted)
    \/ SharePeerList(c, p, acquainted)

\* CHANNEL_CREATE of a channel that exists gets an error and changes nothing.
Create ==
    /\ Running /\ ~Exists
    /\ Reply(NewChannel, Server, Forget({Server}))
    /\ UNCHANGED <<perfReads, changes>>

\* CHANNEL_CONNECT, the poll of every client; without a channel it is an error.
Connect(p) ==
    /\ Running /\ Exists
    /\ LET added == IF HasPeer(channel, p) THEN channel ELSE AddPeer(channel, p)
           c == IF p \in ServerCandidates
                THEN AnalizePeerToBeServerAux(added, p) ELSE added
       IN  Reply(c, p, IF HasPeer(channel, p) THEN met ELSE Forget({p}))
    /\ UNCHANGED <<perfReads, changes>>

\* CHANGE_STATE from externalMessage.
ChangeState(mode) ==
    /\ Running /\ Exists /\ changes < MaxChanges
    /\ \E c \in SetChannelMode(channel, mode) : channelList' = <<c>>
    /\ changes' = changes + 1
    /\ UNCHANGED <<perfReads, down, told, met>>

-----------------------------------------------------------------------------
(* Pings *)

\* The locked half of HandlePingMessage; one with performance measures makes
\* the handler read the peer's data twice more after the unlock.
Ping(p, perf) ==
    /\ Running /\ perfReads = <<>> /\ (perf => p \in PerfPeers)
    /\ Exists /\ HasPeer(channel, p)
    /\ channelList' = <<[channel EXCEPT !.peerList[p].ttl = TTLChannel]>>
    /\ perfReads' = IF perf THEN <<p, p>> ELSE <<>>
    /\ UNCHANGED <<down, told, met, changes>>

\* channelList[channelId].GetPeerData(srcPeer): of a peer that has gone it makes
\* an entry with a NULL Peer*; of a channel that has gone it makes one whose
\* fields are not initialised, and the model ends.
PerfRead ==
    /\ Running /\ perfReads # <<>>
    /\ LET p == Head(perfReads)
       IN  channelList' =
             IF Exists /\ p \notin DOMAIN channel.peerList
             THEN <<Put(channel, p, PeerEntry(FALSE, Unset))>> ELSE channelList
    /\ down' = IF Exists THEN down ELSE "undefined"
    /\ perfReads' = Tail(perfReads)
    /\ UNCHANGED <<told, met, changes>>

-----------------------------------------------------------------------------
(* Bootstrap::CheckPeerList *)

CheckPeerList ==
    /\ Running /\ Exists
    /\ \E c \in CheckActivePeers(channel) :
         LET remains == c.hung \/ HasPeer(c, Server)
             gone == IF remains THEN DOMAIN channel.peerList \ DOMAIN c.peerList
                                ELSE Peers
         IN  /\ channelList' = IF remains THEN <<c>> ELSE <<>>
             /\ down' = IF c.hung THEN "hung" ELSE down
             /\ met' = Forget(gone)
    /\ UNCHANGED <<perfReads, told, changes>>

-----------------------------------------------------------------------------
Next ==
    \/ Create
    \/ \E p \in Peers : Connect(p)
    \/ \E mode \in Modes : ChangeState(mode)
    \/ \E p \in Peers, perf \in BOOLEAN : Ping(p, perf)
    \/ PerfRead
    \/ CheckPeerList

Spec == Init /\ [][Next]_vars

-----------------------------------------------------------------------------
(* Properties *)

\* Parallel channels are served by candidates, candidates are peers the channel
\* knows: no operator[] of SetChannelMode, Create_All_ChannelSub or
\* SelectPeerList makes an entry up, and no server's Peer* is NULL.
ServersAreKnown ==
    Exists => /\ Servers(channel) \subseteq Candidates(channel)
              /\ \A p \in Candidates(channel) : HasPeer(channel, p)

\* A peer placed in a parallel channel has an auxiliary server there as long as
\* it stays in it, whatever servers leave and however the state changes; but
\* for a peer added while the insert position was at end().
ParallelServed ==
    Exists => \A p \in DOMAIN channel.peerList :
        SubOf(channel, p) \in Parallel => ServersOf(channel, p) # {}

\* The same with no exception, as Channel.cpp:562-564 supposes when it hands
\* a peer of a parallel channel "all the auxiliary servers".
EveryParallelPeerServed ==
    Exists => \A p \in DOMAIN channel.peerList :
        SubOf(channel, p) > Main => ServersOf(channel, p) # {}

\* Two peers that one of them was introduced to the other: if either is in a
\* parallel channel the other is there too, or serves it.  The lists handed at
\* different times, before and after servers left, networks merged and new
\* parallel channels took the old numbers, never join two networks.
NetworksIsolated ==
    Exists /\ Running => \A p \in DOMAIN channel.peerList : \A q \in met[p] :
        \/ SubOf(channel, p) = SubOf(channel, q)
        \/ q \in ServersOf(channel, p)
        \/ SubOf(channel, p) \notin Parallel /\ SubOf(channel, q) \notin Parallel

\* Whoever is to serve or to merge was told so last, or the news waits for its
\* next poll: no changes, removals or returns between two polls lose the last.
\* Who need not serve any more may believe it does: a candidate that a flash
\* crowd does not keep or that was silent is never told to stop.
ServersTold ==
    Exists => \A p \in Candidates(channel) :
        channel.candidates[p].state # "NO_SERVER_AUX" =>
            \/ channel.candidates[p].inform
            \/ told[p] = channel.candidates[p].state

\* A peer leaves its parallel channel for the main network only when its last
\* server is gone or the channel returns to normal, for the merging network only
\* when one of its servers was told to merge, and never for another channel.
MovesJustified ==
    [][Exists /\ channelList' # <<>> =>
        LET c == channelList'[1]
        IN  \A p \in DOMAIN channel.peerList \cap DOMAIN c.peerList :
              LET s == SubOf(channel, p)
              IN  (s \in Parallel /\ SubOf(c, p) # s) =>
                    \/ /\ SubOf(c, p) = Main
                       /\ c.mode = "NORMAL" \/ ServersOf(channel, p) \cap Servers(c) = {}
                    \/ /\ SubOf(c, p) = Merging
                       /\ \E t \in ServersOf(channel, p) :
                            t \in Servers(c) /\ c.candidates[t].state = "MESCLAR"]_vars
=============================================================================
