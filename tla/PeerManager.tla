---------------------------- MODULE PeerManager ----------------------------
(***************************************************************************)
(* The partner lists of one TVPP client (client/PeerManager.cpp) and the   *)
(* threads that change them.                                               *)
(*                                                                         *)
(* Two threads write the lists.  The receive thread (Client::UDPReceive)   *)
(* handles one datagram at a time: AddPeer under peerListMutex, then       *)
(* peerListMutex again for IsPeerActive, ConnectPeer and the TTL refresh.  *)
(* The timer thread (Client::CyclicTimers) runs CheckPeerList, which takes *)
(* the three active-list mutexes to decide, drops them, and only then      *)
(* disconnects and removes; the Connector and the Disconnectors run on the *)
(* same thread under peerListMutex.  A step of the model is what a thread  *)
(* does between two points where the other one can get in.                 *)
(***************************************************************************)
EXTENDS Integers, FiniteSets, FiniteSetsExt

CONSTANTS
  Peers,          \* IDs ("ip:port") of the other peers of the channel
  NoPeer,         \* stands for "the thread works on no peer"
  Unknown,        \* value of peerList[p] when the map has no entry for p
  MaxActive,      \* maxActivePeersIn, maxActivePeersOut, maxActivePeersOutFREE
  SeparatedFree,  \* the option --separatedFreeOutList
  OutLimit,       \* outLimitToSeparateFree
  Sizes,          \* Sizes[p]: out-list sizes peer p may announce in its pings
  TTLInit,        \* TTLIn = TTLOut, the TTL of a new entry (Defines.hpp: 10)
  TTLPing,        \* TTL_MAX_In = TTL_MAX_Out, granted by a ping (main.cpp: 4)
  COOLDOWN,       \* PEER_ACTIVE_COOLDOWN (5 sweeps)
  Quantity,       \* how many partners a Disconnector drops, 0 for "None"
  DropOnlyNormal, \* the Out Disconnector is RandomOnlyNoServerActive
  RemoveWorse,    \* the option --removeWorsePartner
  BootLists,      \* peer lists the bootstrap may send
  AuxLists,       \* lists of auxiliary servers the bootstrap may send
  MayDepart       \* peers that may stop sending for good

Lists == {"In", "Out", "OutFREE"}

AuxStates == {"NO_SERVER_AUX", "SERVER_AUX_ACTIVE", "SERVER_AUX_MESCLAR"}

ASSUME ConstantsAssumption ==
  /\ IsFiniteSet(Peers)
  /\ NoPeer \notin Peers
  /\ MaxActive \in [Lists -> Nat]
  /\ SeparatedFree \in BOOLEAN /\ RemoveWorse \in BOOLEAN
  /\ OutLimit \in Nat /\ Sizes \in [Peers -> SUBSET Nat]
  /\ TTLInit \in Nat \ {0} /\ TTLPing \in Nat \ {0} /\ COOLDOWN \in Nat \ {0}
  /\ Quantity \in [Lists -> Nat] /\ DropOnlyNormal \in BOOLEAN
  /\ BootLists \subseteq SUBSET Peers /\ AuxLists \subseteq SUBSET Peers
  /\ MayDepart \subseteq Peers

VARIABLES
  peerList,     \* map<string, PeerData> peerList
  active,       \* peerActiveIn, peerActiveOut, peerActiveOutFREE
  cooldown,     \* peerActiveCooldownIn/Out/OutFREE; 0 when there is no entry
  rejected,     \* peerList_Rejected
  removeWorse,  \* removeWorsePartner: a full out list may evict one partner
  auxState,     \* peerManagerState
  recv,         \* where the receive thread is
  timers,       \* where the timer thread is
  alive,        \* peers that still send pings (environment)
  crashed       \* a thread dereferenced the NULL Peer* of a PeerData

pmVars == <<peerList, active, cooldown, rejected, removeWorse, auxState>>
vars   == <<pmVars, recv, timers, alive, crashed>>
-----------------------------------------------------------------------------
(***************************************************************************)
(* PeerData, and what peerList[p] does in C++.                             *)
(***************************************************************************)

\* An entry of peerList: whether its Peer* is set, its two TTLs, the out-list
\* size the peer announced (-1: not yet), channelId_Sub and specialPeer.
PeerData == [peer : BOOLEAN, ttlIn : Int, ttlOut : Int, out : Int,
             sub : Int, special : BOOLEAN]

ASSUME UnknownAssumption == Unknown \notin PeerData

\* PeerData(NULL): what map::operator[] inserts for a missing key.
NullData == [peer |-> FALSE, ttlIn |-> TTLInit, ttlOut |-> TTLInit,
             out |-> -1, sub |-> 0, special |-> FALSE]

Known == {p \in Peers : peerList[p] # Unknown}

\* The entry peerList[p] evaluates to.
Entry(p) == IF p \in Known THEN peerList[p] ELSE NullData

\* The map after peerList[p] was evaluated for every p in S.
Touched(S) == [p \in Peers |-> IF p \in S THEN Entry(p) ELSE peerList[p]]

\* peerList[p].GetPeer() of some p in S is NULL, and is dereferenced.
NullDeref(S) == \E p \in S : ~Entry(p).peer

AllActive == UNION {active[L] : L \in Lists}

\* The entry AddPeer creates: a peer met by an active auxiliary server
\* belongs to the parallel network (SERVER_AUX_SUB_CHANNEL_ID = 1).
NewData(out) ==
  [NullData EXCEPT !.peer = TRUE, !.out = out,
                   !.sub = IF auxState = "SERVER_AUX_ACTIVE" THEN 1 ELSE 0]

\* The map after AddPeer(p, out) for every p in S; out = -1 keeps a known size.
Added(S, out) ==
  [p \in Peers |->
     IF p \notin S THEN peerList[p]
     ELSE IF p \notin Known THEN NewData(out)
     ELSE IF out >= 0 THEN [peerList[p] EXCEPT !.out = out]
     ELSE peerList[p]]

\* GetPeerActiveOut(separatedFree, out): peers with a small out list are
\* served from a list of their own.
OutList(out) == IF SeparatedFree /\ OutLimit >= out THEN "OutFREE" ELSE "Out"
-----------------------------------------------------------------------------
(***************************************************************************)
(* Threads.                                                                *)
(***************************************************************************)
RecvIdle   == [pc |-> "idle", peer |-> NoPeer, list |-> "In"]
NoneDue    == [L \in Lists |-> {}]
TimersIdle == [pc |-> "idle", due |-> NoneDue, del |-> {}, peer |-> NoPeer,
               list |-> "In"]

RecvPcs   == {"idle", "added", "connect", "enter", "locked", "connected",
              "chunkMap", "delay"}
TimersPcs == {"idle", "sweep", "cooling", "connectIn", "picked", "merge"}

\* DEFECT (RoomKept): the handler drops peerListMutex before ConnectPeer.
PeerListFreeEarly == recv.pc # "connected"

\* Nobody holds peerListMutex: the receive thread holds it from the check of
\* IsPeerActive to the TTL refresh; the timer thread's sections are one step.
PeerListFree == recv.pc \notin {"connect", "enter", "locked", "connected"}

\* Nobody holds the mutex of active list L: ConnectPeer does while "locked".
ActiveFree(L) == ~(recv.pc = "locked" /\ recv.list = L)

\* Nobody holds peerListRejectedMutexOut: only ExecMesc keeps it over steps.
RejectedFree == timers.pc # "merge"

Init ==
  /\ peerList = [p \in Peers |-> Unknown]
  /\ active = [L \in Lists |-> {}]
  /\ cooldown = [L \in Lists |-> [p \in Peers |-> 0]]
  /\ rejected = {}
  /\ removeWorse = RemoveWorse
  /\ auxState = "NO_SERVER_AUX"
  /\ recv = RecvIdle
  /\ timers = TimersIdle
  /\ alive = Peers
  /\ crashed = FALSE

\* The process dies on a NULL dereference.
Crash == crashed' = TRUE /\ UNCHANGED <<pmVars, recv, timers, alive>>
-----------------------------------------------------------------------------
(***************************************************************************)
(* The receive thread: HandlePingMessageIn and HandlePingMessageOut.       *)
(***************************************************************************)

\* A ping of p arrives and AddPeer registers p and its out-list size.  L is
\* the list the rest of the handler works on: a chunk-map ping comes from an
\* In partner, a live-out ping from an Out partner.
PingArrives(p, kind, out) ==
  /\ recv.pc = "idle" /\ p \in alive
  /\ IF p \in Known /\ NullDeref({p})
     THEN Crash
     ELSE /\ peerList' = Added({p}, out)
          /\ recv' = [pc |-> "added", peer |-> p,
                      list |-> IF kind = "In" THEN "In" ELSE OutList(out)]
          /\ UNCHANGED <<active, cooldown, rejected, removeWorse, auxState,
                         timers, alive, crashed>>

\* The handler takes peerListMutex and asks IsPeerActive.
CheckActive ==
  /\ recv.pc = "added"
  /\ recv' = [recv EXCEPT !.pc = IF recv.peer \in active[recv.list]
                                 THEN "connected" ELSE "connect"]
  /\ UNCHANGED <<pmVars, timers, alive, crashed>>

\* ConnectPeer looks the peer up in the cooldown map, with no mutex held on
\* the active list.
CheckCooldown ==
  /\ recv.pc = "connect"
  /\ recv' = IF cooldown[recv.list][recv.peer] > 0
             THEN RecvIdle ELSE [recv EXCEPT !.pc = "enter"]
  /\ UNCHANGED <<pmVars, timers, alive, crashed>>

\* DEFECT (Capacity): a full list takes one more.
RoomAtLimit == Cardinality(active[recv.list]) <= MaxActive[recv.list]

\* There is room in the list the handler works on.
Room == Cardinality(active[recv.list]) < MaxActive[recv.list]

\* ConnectPeer locks the active list and looks for room.
LockActive ==
  /\ recv.pc = "enter"
  /\ recv' = IF Room \/ removeWorse
             THEN [recv EXCEPT !.pc = "locked"] ELSE RecvIdle
  /\ UNCHANGED <<pmVars, timers, alive, crashed>>

\* DEFECT (RejectedNotServed): the rejected list is not looked at.
RefusedBySub(p, L) ==
  L # "In" /\ auxState = "SERVER_AUX_ACTIVE" /\ Entry(p).sub # 1

\* Out lists refuse the rejected peers and, on an active auxiliary server,
\* the peers that are not of the parallel network.
Refused(p, L) ==
  /\ L # "In"
  /\ \/ p \in rejected
     \/ auxState = "SERVER_AUX_ACTIVE" /\ Entry(p).sub # 1

\* DEFECT (InPartnersAlive): no new TTL for a peer that enters In.
JoinedStale(p, L, S) ==
  IF L = "In" THEN Entry(p) ELSE [Entry(p) EXCEPT !.ttlOut = TTLInit]

\* The entry of p after ConnectPeer put it in a list that now holds S.  The
\* code tells In from Out by comparing the contents of the two sets.
Joined(p, L, S) ==
  IF L = "In" \/ S = active["In"]
  THEN [Entry(p) EXCEPT !.ttlIn = TTLInit]
  ELSE [Entry(p) EXCEPT !.ttlOut = TTLInit]

\* The partners ConnectSpecial may evict from L: the smallest announced size.
Worst(L) == {w \in active[L] : \A q \in active[L] : Entry(w).out <= Entry(q).out}

\* The rest of ConnectPeer, once it has peerListRejectedMutexOut too.
Admit == recv.pc = "locked" /\ RejectedFree

\* The peer is in the list, which now holds S.
Enter(S) ==
  /\ active' = [active EXCEPT ![recv.list] = S]
  /\ peerList' = [peerList EXCEPT ![recv.peer] = Joined(recv.peer, recv.list, S)]
  /\ recv' = [recv EXCEPT !.pc = "connected"]

Refuse ==
  /\ Admit /\ Refused(recv.peer, recv.list)
  /\ peerList' = Touched({recv.peer} \ rejected)
  /\ recv' = RecvIdle
  /\ UNCHANGED <<active, cooldown, rejected, removeWorse, auxState, timers,
                 alive, crashed>>

Insert ==
  /\ Admit /\ ~Refused(recv.peer, recv.list) /\ Room
  /\ Enter(active[recv.list] \cup {recv.peer})
  /\ UNCHANGED <<cooldown, rejected, removeWorse, auxState, timers, alive,
                 crashed>>

NoRoom ==
  /\ Admit /\ ~Refused(recv.peer, recv.list) /\ ~Room
  /\ recv.list = "In" \/ active[recv.list] = {}
  /\ recv' = RecvIdle
  /\ UNCHANGED <<pmVars, timers, alive, crashed>>

\* DEFECT (EvictsOnlyPoorer): a partner is replaced by an equal one too.
PoorerOrEqual(w, p) == Entry(w).out <= Entry(p).out

\* w announced a smaller out list than p.
Poorer(w, p) == Entry(w).out < Entry(p).out

\* ConnectSpecial: the poorest partner of a full out list is replaced by a
\* strictly richer peer, once until removeWorsePartner is armed again.
ConnectSpecial ==
  /\ Admit /\ ~Refused(recv.peer, recv.list) /\ ~Room
  /\ recv.list # "In" /\ active[recv.list] # {}
  /\ IF NullDeref(active[recv.list] \cup {recv.peer})
     THEN Crash
     ELSE /\ \E w \in Worst(recv.list) :
               IF Poorer(w, recv.peer)
               THEN /\ Enter((active[recv.list] \ {w}) \cup {recv.peer})
                    /\ removeWorse' = FALSE
               ELSE /\ recv' = RecvIdle
                    /\ UNCHANGED <<peerList, active, removeWorse>>
          /\ UNCHANGED <<cooldown, rejected, auxState, timers, alive, crashed>>

ConnectPeer == Refuse \/ Insert \/ NoRoom \/ ConnectSpecial

\* The handler grants the sender a new TTL and drops peerListMutex; the chunk
\* map of an In partner is stored after taking it again.
Refresh ==
  /\ recv.pc = "connected"
  /\ peerList' = [peerList EXCEPT ![recv.peer] =
                    IF recv.list = "In"
                    THEN [Entry(recv.peer) EXCEPT !.ttlIn = TTLPing]
                    ELSE [Entry(recv.peer) EXCEPT !.ttlOut = TTLPing]]
  /\ recv' = IF recv.list = "In" THEN [recv EXCEPT !.pc = "chunkMap"]
             ELSE RecvIdle
  /\ UNCHANGED <<active, cooldown, rejected, removeWorse, auxState, timers,
                 alive, crashed>>

StoreChunkMap ==
  /\ recv.pc = "chunkMap"
  /\ peerList' = Touched({recv.peer} \cap active["In"])
  /\ recv' = RecvIdle
  /\ UNCHANGED <<active, cooldown, rejected, removeWorse, auxState, timers,
                 alive, crashed>>

\* HandleDataMessage: a chunk from an In partner.  The mutex is dropped after
\* the check and taken again to store the measured delay.
DataArrives(p) ==
  /\ recv.pc = "idle" /\ p \in alive /\ p \in active["In"]
  /\ peerList' = Touched({p})
  /\ recv' = [pc |-> "delay", peer |-> p, list |-> "In"]
  /\ UNCHANGED <<active, cooldown, rejected, removeWorse, auxState, timers,
                 alive, crashed>>

StoreDelay ==
  /\ recv.pc = "delay"
  /\ peerList' = Touched({recv.peer})
  /\ recv' = RecvIdle
  /\ UNCHANGED <<active, cooldown, rejected, removeWorse, auxState, timers,
                 alive, crashed>>
-----------------------------------------------------------------------------
(***************************************************************************)
(* The timer thread: CheckPeerList.                                        *)
(***************************************************************************)
One(b) == IF b THEN 1 ELSE 0

\* What the sweep leaves of the entry of an active peer: one TTL decrement
\* for every list the peer is in.
Aged(p) ==
  LET e == Entry(p)
  IN [e EXCEPT !.ttlIn  = e.ttlIn - One(p \in active["In"]),
               !.ttlOut = e.ttlOut - One(p \in active["Out"])
                                   - One(p \in active["OutFREE"])]

\* The partners of list L the sweep finds at TTL 0 (the Out lists share a TTL
\* and Out is looked at first).
Expired(L) ==
  {p \in active[L] :
     CASE L = "In"  -> Aged(p).ttlIn <= 0
       [] L = "Out" -> Entry(p).ttlOut - 1 <= 0
       [] OTHER     -> Aged(p).ttlOut <= 0}

\* DEFECT (SilentPeerDropped): peers left in no list stay in peerList.
NobodyDeleted == {}

\* Peers that are left in no list go from peerList as well.
Deleted == {p \in AllActive : \A L \in Lists : p \in active[L] => p \in Expired(L)}

\* The first half of CheckPeerList: decide, holding the three list mutexes.
Sweep ==
  /\ timers.pc = "idle"
  /\ \A L \in Lists : ActiveFree(L)
  /\ peerList' = [p \in Peers |-> IF p \in AllActive THEN Aged(p)
                                  ELSE peerList[p]]
  /\ timers' = [TimersIdle EXCEPT !.pc = "sweep",
                                  !.due = [L \in Lists |-> Expired(L)],
                                  !.del = Deleted]
  /\ UNCHANGED <<active, cooldown, rejected, removeWorse, auxState, recv,
                 alive, crashed>>

\* The list CheckPeerList is emptying: In, then Out, then OutFREE.
Current == IF timers.due["In"] # {} THEN "In"
           ELSE IF timers.due["Out"] # {} THEN "Out" ELSE "OutFREE"

\* DisconnectPeer erases the partner under the mutex of its list ...
Disconnect(p) ==
  /\ timers.pc = "sweep" /\ p \in timers.due[Current]
  /\ ActiveFree(Current)
  /\ active' = [active EXCEPT ![Current] = @ \ {p}]
  /\ timers' = [timers EXCEPT !.pc = "cooling", !.peer = p, !.list = Current,
                              !.due = [timers.due EXCEPT ![Current] = @ \ {p}]]
  /\ UNCHANGED <<peerList, cooldown, rejected, removeWorse, auxState, recv,
                 alive, crashed>>

\* ... and starts the cooldown after releasing it.
StartCooldown ==
  /\ timers.pc = "cooling"
  /\ cooldown' = [cooldown EXCEPT ![timers.list][timers.peer] = COOLDOWN]
  /\ timers' = [timers EXCEPT !.pc = "sweep", !.peer = NoPeer, !.list = "In"]
  /\ UNCHANGED <<peerList, active, rejected, removeWorse, auxState, recv,
                 alive, crashed>>

\* RemovePeer, under peerListMutex, for the peers the sweep decided on.
RemovePeer(p) ==
  /\ timers.pc = "sweep" /\ timers.due = NoneDue /\ p \in timers.del
  /\ PeerListFree
  /\ peerList' = [peerList EXCEPT ![p] = Unknown]
  /\ timers' = [timers EXCEPT !.del = @ \ {p}]
  /\ UNCHANGED <<active, cooldown, rejected, removeWorse, auxState, recv,
                 alive, crashed>>

\* DEFECT (TypeOK): an entry is counted down past 0.
CooledPastZero(n) == n - 1

\* One entry of a cooldown map after CheckpeerActiveCooldown: decremented, and
\* erased when it reaches 0.
Cooled(n) == IF n > 0 THEN n - 1 ELSE 0

\* CheckpeerActiveCooldown on the three maps ends the sweep.
TickCooldown ==
  /\ timers.pc = "sweep" /\ timers.due = NoneDue /\ timers.del = {}
  /\ cooldown' = [L \in Lists |-> [p \in Peers |-> Cooled(cooldown[L][p])]]
  /\ timers' = TimersIdle
  /\ UNCHANGED <<peerList, active, rejected, removeWorse, auxState, recv,
                 alive, crashed>>

\* CyclicTimers re-arms removeWorsePartner some seconds after it was used.
RearmRemoveWorse ==
  /\ timers.pc = "idle" /\ RemoveWorse /\ ~removeWorse
  /\ removeWorse' = TRUE
  /\ UNCHANGED <<peerList, active, cooldown, rejected, auxState, recv, timers,
                 alive, crashed>>
-----------------------------------------------------------------------------
(***************************************************************************)
(* The timer thread: Connector, Disconnectors and the bootstrap's lists.   *)
(***************************************************************************)

\* HandlePeerlistMessage (PeerRequester, every 20 s): AddPeer for each peer of
\* the list, sizes not announced, and then the Connector.
HandlePeerlistMessage(S) ==
  /\ timers.pc = "idle" /\ PeerListFree /\ S \subseteq alive
  /\ IF NullDeref(S \cap Known)
     THEN Crash
     ELSE /\ peerList' = Added(S, -1)
          /\ timers' = [TimersIdle EXCEPT !.pc = "connectIn"]
          /\ UNCHANGED <<active, cooldown, rejected, removeWorse, auxState,
                         recv, alive, crashed>>

\* HandleServerAuxListMessage: known auxiliary servers become special peers.
HandleServerAuxListMessage(S) ==
  /\ timers.pc = "idle" /\ PeerListFree
  /\ peerList' = [p \in Peers |-> IF p \in S \cap Known
                                  THEN [peerList[p] EXCEPT !.special = TRUE]
                                  ELSE peerList[p]]
  /\ UNCHANGED <<active, cooldown, rejected, removeWorse, auxState, recv,
                 timers, alive, crashed>>

\* Places left in the In list.
Vacancies == MaxActive["In"] - Cardinality(active["In"])

\* Connector::Connect fills the vacancies of the In list with known peers in
\* random order; ConnectPeer still refuses those in cooldown.  Only holders of
\* peerListMutex add to In, so that while the Connector has it the In list is
\* not locked for an insertion, and ConnectPeer's own tests of room find the
\* vacancies that the Connector counted.
Connect ==
  LET Candidates == Known \ active["In"]
      Chosen == kSubset(IF Vacancies < Cardinality(Candidates)
                        THEN Vacancies ELSE Cardinality(Candidates), Candidates)
  IN
  /\ timers.pc \in {"idle", "connectIn"} /\ PeerListFree
  /\ \E S \in Chosen :
       IF NullDeref(S)
       THEN Crash
       ELSE LET Fit == {p \in S : cooldown["In"][p] = 0}
            IN /\ active' = [active EXCEPT !["In"] = @ \cup Fit]
               /\ peerList' = [p \in Peers |->
                                 IF p \in Fit
                                 THEN [peerList[p] EXCEPT !.ttlIn = TTLInit]
                                 ELSE peerList[p]]
               /\ timers' = TimersIdle
               /\ UNCHANGED <<cooldown, rejected, removeWorse, auxState, recv,
                              alive, crashed>>

\* The partners in G leave list L and start their cooldown.
Drop(L, G) ==
  /\ active' = [active EXCEPT ![L] = @ \ G]
  /\ cooldown' = [cooldown EXCEPT ![L] =
                    [p \in Peers |-> IF p \in G THEN COOLDOWN
                                    ELSE cooldown[L][p]]]

\* Disconnector::Disconnect drops Quantity random partners of L, except the
\* special ones, to keep the partnerships flexible.
Flexibilize(L) ==
  /\ timers.pc = "idle" /\ PeerListFree
  /\ L = "Out" /\ DropOnlyNormal => auxState = "NO_SERVER_AUX"
  /\ Quantity[L] \in 1..Cardinality(active[L])
  /\ \E S \in kSubset(Quantity[L], active[L]) :
       IF NullDeref(S)
       THEN Crash
       ELSE LET Gone == {p \in S : ~Entry(p).special}
            IN /\ Drop(L, Gone)
               /\ peerList' = Touched(active[L])
               /\ UNCHANGED <<rejected, removeWorse, auxState, recv, timers,
                              alive, crashed>>
-----------------------------------------------------------------------------
\* Client::Ping walks list L under both mutexes to address its pings; every
\* tenth one also logs the partners, which reads each Peer.
Ping(L, log) ==
  /\ PeerListFree
  /\ IF log /\ NullDeref(active[L])
     THEN Crash
     ELSE /\ peerList' = Touched(active[L])
          /\ UNCHANGED <<active, cooldown, rejected, removeWorse, auxState,
                         recv, timers, alive, crashed>>

\* A peer stops for good.
Depart(p) ==
  /\ p \in alive \cap MayDepart
  /\ alive' = alive \ {p}
  /\ UNCHANGED <<pmVars, recv, timers, crashed>>

Arrival ==
  \/ \E p \in Peers, kind \in {"In", "Out"} :
       \E out \in Sizes[p] : PingArrives(p, kind, out)
  \/ \E p \in Peers : DataArrives(p)

Handle == CheckActive \/ CheckCooldown \/ LockActive \/ ConnectPeer
          \/ Refresh \/ StoreChunkMap \/ StoreDelay

FinishSweep == \/ \E p \in Peers : Disconnect(p) \/ RemovePeer(p)
               \/ StartCooldown \/ TickCooldown

Relations == \/ \E S \in BootLists : HandlePeerlistMessage(S)
             \/ \E S \in AuxLists : HandleServerAuxListMessage(S)
             \/ Connect
             \/ \E L \in {"In", "Out"} : Flexibilize(L)
             \/ RearmRemoveWorse

Next == /\ ~crashed
        /\ \/ Arrival \/ Handle
           \/ Sweep \/ FinishSweep \/ Relations
           \/ \E L \in Lists, log \in BOOLEAN : Ping(L, log)
           \/ \E p \in Peers : Depart(p)

Spec == Init /\ [][Next]_vars

\* The receive thread finishes the datagram it has; the timer thread wakes up
\* every second and gets the mutexes it waits for, since the receive thread
\* drops them with every datagram (hence strong fairness).
Fairness == /\ WF_vars(~crashed /\ Handle)
            /\ SF_vars(~crashed /\ Sweep)
            /\ SF_vars(~crashed /\ FinishSweep)
            /\ SF_vars(~crashed /\ Connect)

FairSpec == Spec /\ Fairness
-----------------------------------------------------------------------------
(***************************************************************************)
(* Properties.                                                             *)
(***************************************************************************)

\* Every variable has its type; a thread that handles a peer holds one, and
\* only a sweep has partners left to disconnect.
TypeOK ==
  /\ peerList \in [Peers -> PeerData \cup {Unknown}]
  /\ active \in [Lists -> SUBSET Peers]
  /\ cooldown \in [Lists -> [Peers -> 0..COOLDOWN]]
  /\ rejected \subseteq Peers
  /\ removeWorse \in BOOLEAN
  /\ auxState \in AuxStates
  /\ recv \in [pc : RecvPcs, peer : Peers \cup {NoPeer}, list : Lists]
  /\ recv.pc # "idle" => recv.peer \in Peers
  /\ timers \in [pc : TimersPcs, due : [Lists -> SUBSET Peers],
                 del : SUBSET Peers, peer : Peers \cup {NoPeer}, list : Lists]
  /\ timers.pc = "cooling" => timers.peer \in Peers
  /\ timers.pc \notin {"sweep", "cooling"} => timers.due = NoneDue
  /\ alive \subseteq Peers
  /\ crashed \in BOOLEAN

\* No active list ever holds more partners than its maximum, although room is
\* looked for by two threads, an eviction swaps partners, and a list that is
\* full may be entered when removeWorsePartner is set.
Capacity == \A L \in Lists : Cardinality(active[L]) <= MaxActive[L]

\* What ConnectPeer saw when it locked the list is still so when it inserts:
\* there is room, or an eviction is allowed.  The timer thread cannot fill the
\* list or use up the eviction in between.
RoomKept ==
  recv.pc = "locked" => Room \/ removeWorse

\* Between two sweeps no partner of the In list has used up its TTL: whoever
\* enters gets a new TTL, and the sweep that finds TTL 0 always ends with the
\* peer out of the list, however pings and refreshes fall between its steps.
InPartnersAlive ==
  \A p \in active["In"] \cap Known :
    peerList[p].ttlIn > 0 \/ p \in timers.due["In"]

\* A step that removes one partner of a list and adds another is an eviction:
\* it needs removeWorsePartner, consumes it, and replaces the partner by one
\* that announced a strictly larger out list.
EvictsOnlyPoorer ==
  [][\A L \in Lists :
       \A w \in active[L] \ active'[L], p \in active'[L] \ active[L] :
         /\ removeWorse /\ ~removeWorse'
         /\ peerList[w].out < peerList[p].out]_vars

\* A peer that stops sending for good is in the end in none of the lists: no
\* refresh of another list, reconnection by the Connector or late step of the
\* handler keeps it as a partner for ever.
SilentPeerDropped ==
  \A p \in Peers : <>[](p \notin alive) => <>[](crashed \/ p \notin AllActive)

\* PeerManager.cpp:69-71, of ConnectPeer: "neste metodo, e certo que o par
\* pertence a peerList": the peer it connects has an entry in peerList.
ConnectPeerPrecondition == recv.pc = "locked" => recv.peer \in Known
=============================================================================
