-------------------------- MODULE ServerAux_proofs --------------------------
(***************************************************************************)
(* Safety of the auxiliary server, for every set of peers, size of merge    *)
(* step and merge mode: whom it serves while its network is parallel, and   *)
(* whom the merge takes from it.  The partner lists stay as PeerManager     *)
(* promises them, since its invariant is kept by the steps of the merge.    *)
(***************************************************************************)
EXTENDS ServerAux, PeerManager_proofs

\* ExecMesc is due, or at work, only while the networks merge.
Phase == execDue \/ timers.pc \in {"picked", "merge"} => auxState = "SERVER_AUX_MESCLAR"

\* The partners picked for a merge step still are of the parallel network.
Marked ==
  timers.pc \in {"picked", "merge"} =>
    \A p \in timers.del : p \in Known /\ peerList[p].sub < 0

AuxTypes ==
  /\ mergeMode \in MergeModes
  /\ mergeType \in MergeTypes \ {"AVOID_KILLEND", "PERMIT_KILLEND"}
  /\ killEnd \in BOOLEAN /\ mergeTemp \in 0..255
  /\ exited \in BOOLEAN /\ execDue \in BOOLEAN

Serving == RejectedNotServed /\ ServesOnlyParallel /\ Phase /\ Marked

AuxIInv == IInv /\ AuxTypes /\ Serving

USE ConstantsAssumption
-----------------------------------------------------------------------------
(***************************************************************************)
(* What the steps of PeerManager leave alone.                               *)
(***************************************************************************)

\* f is an entry of the peer and network of e.
SameNet(e, f) == f \in PeerData /\ f.sub = e.sub /\ f.peer = e.peer

\* The network of new peers.
NewSub == IF auxState = "SERVER_AUX_ACTIVE" THEN 1 ELSE 0

\* A known peer keeps its network until the sweep removes it; a new entry is
\* one with a NULL Peer* or of the network the server feeds.
NetKept(p) ==
  \/ peerList'[p] = peerList[p]
  \/ peerList'[p] = Unknown /\ timers.pc = "sweep"
  \/ SameNet(Entry(p), peerList'[p])
  \/ p \notin Known /\ peerList'[p] \in PeerData /\ peerList'[p].sub = NewSub

\* An entry is of its own peer and network.
LEMMA NetItself ==
  ASSUME NEW e \in PeerData
  PROVE  SameNet(e, e)
BY DEF SameNet

\* Marking a special peer is no change of network.
LEMMA NetMark ==
  ASSUME NEW e \in PeerData
  PROVE  SameNet(e, [e EXCEPT !.special = TRUE])
BY DEF PeerData, SameNet

\* Nor is a new TTL of the In list ...
LEMMA NetIn ==
  ASSUME NEW e \in PeerData, NEW n \in Int
  PROVE  SameNet(e, [e EXCEPT !.ttlIn = n])
BY DEF PeerData, SameNet

\* ... or of the Out lists ...
LEMMA NetOut ==
  ASSUME NEW e \in PeerData, NEW n \in Int
  PROVE  SameNet(e, [e EXCEPT !.ttlOut = n])
BY DEF PeerData, SameNet

\* ... or of both, in a sweep.
LEMMA NetBoth ==
  ASSUME NEW e \in PeerData, NEW n \in Int, NEW k \in Int
  PROVE  SameNet(e, [e EXCEPT !.ttlIn = n, !.ttlOut = k])
BY DEF PeerData, SameNet

\* Nor is another size of the out list.
LEMMA NetSize ==
  ASSUME NEW e \in PeerData, NEW n \in Int
  PROVE  SameNet(e, [e EXCEPT !.out = n])
BY DEF PeerData, SameNet

\* operator[] makes an entry of no network, or none.
LEMMA TouchedNet ==
  ASSUME TypeOK, NEW S, NEW p \in Peers
  PROVE  Touched(S)[p] = peerList[p] \/ SameNet(Entry(p), Touched(S)[p])
BY EntryType, NetItself DEF Touched

\* AddPeer makes one of the network the server feeds.
LEMMA AddedNet ==
  ASSUME TypeOK, NEW S, NEW out \in Int, NEW p \in Peers
  PROVE  \/ Added(S, out)[p] = peerList[p]
         \/ SameNet(Entry(p), Added(S, out)[p])
         \/ p \notin Known /\ Added(S, out)[p] \in PeerData /\ Added(S, out)[p].sub = NewSub
<1>1. CASE p \notin Known /\ p \in S
  <2>1. Added(S, out)[p] = NewData(out)
    BY <1>1 DEF Added
  <2>2. NewSub \in Int
    BY DEF NewSub
  <2>3. NewData(out) = [NullData EXCEPT !.peer = TRUE, !.out = out, !.sub = NewSub]
    BY DEF NewData, NewSub
  <2>4. NewData(out) \in PeerData /\ NewData(out).sub = NewSub
    <3>1. NewData(out) = [peer |-> TRUE, ttlIn |-> TTLInit, ttlOut |-> TTLInit,
                          out |-> out, sub |-> NewSub, special |-> FALSE]
      BY <2>3 DEF NullData
    <3>2. TTLInit \in Int
      BY DEF ConstantsAssumption
    <3> QED BY <2>2, <3>1, <3>2 DEF PeerData
  <2> QED BY <1>1, <2>1, <2>4
<1>2. CASE p \in Known /\ p \in S
  <2>1. peerList[p] \in PeerData /\ Entry(p) = peerList[p]
    BY <1>2, EntryType
  <2>2. Added(S, out)[p] \in {peerList[p], [peerList[p] EXCEPT !.out = out]}
    BY <1>2 DEF Added
  <2>3. SameNet(peerList[p], peerList[p]) /\ SameNet(peerList[p], [peerList[p] EXCEPT !.out = out])
    BY <2>1, NetItself, NetSize
  <2> QED BY <2>1, <2>2, <2>3
<1>3. CASE p \notin S
  BY <1>3 DEF Added
<1> QED BY <1>1, <1>2, <1>3

\* The sweep changes TTLs.
LEMMA AgedNet ==
  ASSUME TypeOK, NEW p \in Peers
  PROVE  SameNet(Entry(p), Aged(p))
<1> DEFINE in == Entry(p).ttlIn - One(p \in active["In"])
           out == Entry(p).ttlOut - One(p \in active["Out"])
                                  - One(p \in active["OutFREE"])
<1>1. in \in Int /\ out \in Int
  <2>1. Entry(p).ttlIn \in Int /\ Entry(p).ttlOut \in Int
    BY EntryType DEF PeerData
  <2>2. \A L : One(p \in active[L]) \in Int
    BY DEF One
  <2> QED BY <2>1, <2>2
<1>2. Aged(p) = [Entry(p) EXCEPT !.ttlIn = in, !.ttlOut = out]
  BY DEF Aged
<1>3. Entry(p) \in PeerData
  BY EntryType
<1> HIDE DEF in, out
<1>4. SameNet(Entry(p), [Entry(p) EXCEPT !.ttlIn = in, !.ttlOut = out])
  BY <1>1, <1>3, NetBoth
<1> QED BY <1>2, <1>4

\* ConnectPeer grants a TTL.
LEMMA JoinedNet ==
  ASSUME TypeOK, NEW p \in Peers, NEW L, NEW S
  PROVE  SameNet(Entry(p), Joined(p, L, S))
<1>1. Entry(p) \in PeerData /\ TTLInit \in Int
  BY EntryType DEF ConstantsAssumption
<1>2. /\ SameNet(Entry(p), [Entry(p) EXCEPT !.ttlIn = TTLInit])
      /\ SameNet(Entry(p), [Entry(p) EXCEPT !.ttlOut = TTLInit])
  BY <1>1, NetIn, NetOut
<1> QED BY <1>2 DEF Joined

\* One step of PeerManager changes nobody's network.
LEMMA NetsKept ==
  ASSUME TypeOK, [Next]_vars, NEW q \in Peers
  PROVE  NetKept(q)
<1>1. CASE UNCHANGED peerList
  BY <1>1 DEF NetKept
<1>2. ASSUME NEW p \in Peers, NEW kind, NEW out \in Sizes[p],
             PingArrives(p, kind, out)
      PROVE  NetKept(q)
  <2>1. out \in Int
    BY DEF ConstantsAssumption
  <2>2. CASE peerList' = Added({p}, out)
    BY <2>1, <2>2, AddedNet DEF NetKept
  <2> QED BY <1>1, <1>2, <2>2 DEF PingArrives, Crash, pmVars
<1>3. ASSUME NEW S, peerList' = Touched(S) PROVE NetKept(q)
  BY <1>3, TouchedNet DEF NetKept
<1>4. CASE Refuse \/ StoreChunkMap \/ StoreDelay
  BY <1>3, <1>4 DEF Refuse, StoreChunkMap, StoreDelay
<1>5. ASSUME NEW p \in Peers, DataArrives(p) PROVE NetKept(q)
  BY <1>3, <1>5 DEF DataArrives
<1>6. ASSUME NEW S, Admit, Enter(S) PROVE NetKept(q)
  <2>1. recv.peer \in Peers
    BY <1>6 DEF Admit, TypeOK
  <2>2. /\ peerList'[recv.peer] = Joined(recv.peer, recv.list, S)
        /\ q # recv.peer => peerList'[q] = peerList[q]
    BY <1>6, <2>1 DEF Enter, TypeOK
  <2> QED BY <2>1, <2>2, JoinedNet DEF NetKept
<1>7. CASE Insert \/ ConnectSpecial
  BY <1>1, <1>6, <1>7 DEF Insert, ConnectSpecial, Crash, pmVars
<1>8. CASE Refresh
  <2>1. recv.peer \in Peers /\ Entry(recv.peer) \in PeerData /\ TTLPing \in Int
    BY <1>8, EntryType DEF Refresh, TypeOK
  <2>2. /\ q # recv.peer => peerList'[q] = peerList[q]
        /\ peerList'[recv.peer] \in {[Entry(recv.peer) EXCEPT !.ttlIn = TTLPing],
                                     [Entry(recv.peer) EXCEPT !.ttlOut = TTLPing]}
    BY <1>8, <2>1 DEF Refresh, TypeOK
  <2>3. /\ SameNet(Entry(recv.peer), [Entry(recv.peer) EXCEPT !.ttlIn = TTLPing])
        /\ SameNet(Entry(recv.peer), [Entry(recv.peer) EXCEPT !.ttlOut = TTLPing])
    BY <2>1, NetIn, NetOut
  <2> QED BY <2>2, <2>3 DEF NetKept
<1>9. CASE Sweep
  BY <1>9, AgedNet DEF Sweep, NetKept
<1>10. ASSUME NEW p \in Peers, RemovePeer(p) PROVE NetKept(q)
  BY <1>10 DEF RemovePeer, NetKept, TypeOK
<1>11. ASSUME NEW S, peerList' = Added(S, -1) PROVE NetKept(q)
  BY <1>11, AddedNet DEF NetKept
<1>12. ASSUME NEW S, HandlePeerlistMessage(S) PROVE NetKept(q)
  BY <1>1, <1>11, <1>12 DEF HandlePeerlistMessage, Crash, pmVars
<1>13. ASSUME NEW S, HandleServerAuxListMessage(S) PROVE NetKept(q)
  <2>1. \/ peerList'[q] = peerList[q]
        \/ q \in Known /\ peerList'[q] = [peerList[q] EXCEPT !.special = TRUE]
    BY <1>13 DEF HandleServerAuxListMessage
  <2>2. ASSUME q \in Known
        PROVE  SameNet(Entry(q), [peerList[q] EXCEPT !.special = TRUE])
    BY <2>2, EntryType, NetMark
  <2> QED BY <2>1, <2>2 DEF NetKept
<1>14. CASE Connect
  <2>1. CASE Crash
    BY <1>1, <2>1 DEF Crash, pmVars
  <2>2. CASE ~Crash
    <3>1. \/ peerList'[q] = peerList[q]
          \/ q \in Known /\ peerList'[q] = [peerList[q] EXCEPT !.ttlIn = TTLInit]
      BY <1>14, <2>2 DEF Connect, kSubset
    <3>2. ASSUME q \in Known
          PROVE  SameNet(Entry(q), [peerList[q] EXCEPT !.ttlIn = TTLInit])
      <4>1. TTLInit \in Int
        BY DEF ConstantsAssumption
      <4> QED BY <3>2, <4>1, EntryType, NetIn
    <3> QED BY <3>1, <3>2 DEF NetKept
  <2> QED BY <2>1, <2>2
<1>15. ASSUME NEW L, Flexibilize(L) PROVE NetKept(q)
  BY <1>1, <1>3, <1>15 DEF Flexibilize, Crash, pmVars
<1>16. ASSUME NEW L, NEW log, Ping(L, log) PROVE NetKept(q)
  BY <1>1, <1>3, <1>16 DEF Ping, Crash, pmVars
<1>17. \/ UNCHANGED peerList
       \/ Arrival \/ Refuse \/ Insert \/ ConnectSpecial \/ Refresh
       \/ StoreChunkMap \/ StoreDelay \/ Sweep
       \/ \E p \in Peers : RemovePeer(p)
       \/ \E S \in BootLists : HandlePeerlistMessage(S)
       \/ \E S \in AuxLists : HandleServerAuxListMessage(S)
       \/ Connect
       \/ \E L \in {"In", "Out"} : Flexibilize(L)
       \/ \E L \in Lists, log \in BOOLEAN : Ping(L, log)
  BY DEF Next, vars, pmVars, Handle, ConnectPeer, CheckActive, CheckCooldown,
         LockActive, NoRoom, Relations, RearmRemoveWorse, Depart, FinishSweep,
         Disconnect, StartCooldown, TickCooldown
<1> QED
  BY <1>1, <1>2, <1>4, <1>5, <1>7, <1>8, <1>9, <1>10, <1>12, <1>13, <1>14,
     <1>15, <1>16, <1>17 DEF Arrival

\* Only ConnectPeer adds a partner to Out, one it has not refused.
LEMMA OutKept ==
  ASSUME TypeOK, [Next]_vars, NEW p \in active'["Out"]
  PROVE  \/ p \in active["Out"]
         \/ p = recv.peer /\ Admit /\ recv.list = "Out" /\ ~Refused(p, "Out")
<1> USE DEF Lists
<1>1. CASE active' = active
  BY <1>1
<1>2. ASSUME NEW S, Admit, ~Refused(recv.peer, recv.list), Enter(S),
             S \subseteq active[recv.list] \cup {recv.peer}
      PROVE  \/ p \in active["Out"]
             \/ p = recv.peer /\ Admit /\ recv.list = "Out" /\ ~Refused(p, "Out")
  BY <1>2 DEF Enter, TypeOK
<1>3. CASE Insert \/ ConnectSpecial
  <2>1. CASE Insert
    BY <1>2, <2>1 DEF Insert
  <2>2. CASE ConnectSpecial
    <3>1. Admit /\ ~Refused(recv.peer, recv.list)
      BY <2>2 DEF ConnectSpecial
    <3>2. \/ active' = active
          \/ \E w : Enter((active[recv.list] \ {w}) \cup {recv.peer})
      BY <2>2 DEF ConnectSpecial, Crash, pmVars
    <3>3. ASSUME NEW w, Enter((active[recv.list] \ {w}) \cup {recv.peer})
          PROVE  \/ p \in active["Out"]
                 \/ p = recv.peer /\ Admit /\ recv.list = "Out" /\ ~Refused(p, "Out")
      BY <1>2, <3>1, <3>3
    <3> QED BY <1>1, <3>2, <3>3
  <2> QED BY <1>3, <2>1, <2>2
<1>4. ASSUME NEW d \in Peers, Disconnect(d) PROVE p \in active["Out"]
  BY <1>4 DEF Disconnect, Current, TypeOK
<1>5. CASE Connect
  <2>1. \/ active' = active
        \/ \E S : active' = [active EXCEPT !["In"] = S]
    BY <1>5 DEF Connect, Crash, pmVars
  <2> QED BY <1>1, <2>1 DEF TypeOK
<1>6. ASSUME NEW L \in {"In", "Out"}, Flexibilize(L) PROVE p \in active["Out"]
  BY <1>6 DEF Flexibilize, Drop, Crash, pmVars, TypeOK
<1>7. \/ active' = active \/ Insert \/ ConnectSpecial
      \/ \E d \in Peers : Disconnect(d)
      \/ Connect
      \/ \E L \in {"In", "Out"} : Flexibilize(L)
  BY DEF Next, vars, pmVars, Arrival, PingArrives, DataArrives, Handle, ConnectPeer,
         CheckActive, CheckCooldown, LockActive, NoRoom, Refuse, Refresh,
         StoreChunkMap, StoreDelay, Sweep, FinishSweep, StartCooldown, TickCooldown,
         RemovePeer, Relations, RearmRemoveWorse, HandlePeerlistMessage,
         HandleServerAuxListMessage, Ping, Depart, Crash
<1> QED BY <1>1, <1>3, <1>4, <1>5, <1>6, <1>7

\* The timer thread starts and ends no merge step.
NoMerge == \/ timers' = timers
           \/ timers.pc \notin {"picked", "merge"} /\ timers'.pc \notin {"picked", "merge"}

\* Nothing but the bootstrap's messages and the merge changes the state or the
\* rejected list, and the timer thread starts or ends no merge step elsewhere.
LEMMA StateKept ==
  ASSUME TypeOK, [Next]_vars
  PROVE  auxState' = auxState /\ rejected' = rejected /\ NoMerge
<1>1. auxState' = auxState /\ rejected' = rejected
  BY DEF Next, vars, pmVars, Arrival, PingArrives, DataArrives, Handle, ConnectPeer,
         CheckActive, CheckCooldown, LockActive, NoRoom, Refuse, Refresh, Insert,
         ConnectSpecial, StoreChunkMap, StoreDelay, Sweep, FinishSweep, Disconnect,
         StartCooldown, TickCooldown, RemovePeer, Relations, RearmRemoveWorse,
         HandlePeerlistMessage, HandleServerAuxListMessage, Connect, Flexibilize,
         Ping, Depart, Crash
<1>2. \/ timers' = timers
      \/ Sweep \/ FinishSweep \/ Connect
      \/ \E S \in BootLists : HandlePeerlistMessage(S)
  BY DEF Next, vars, Arrival, PingArrives, DataArrives, Handle, ConnectPeer,
         CheckActive, CheckCooldown, LockActive, NoRoom, Refuse, Refresh, Insert,
         ConnectSpecial, StoreChunkMap, StoreDelay, Relations, RearmRemoveWorse,
         HandleServerAuxListMessage, Flexibilize, Ping, Depart, Crash
<1>3. ASSUME Sweep PROVE NoMerge
  <2>1. timers.pc = "idle"
    BY <1>3 DEF Sweep
  <2>2. timers'.pc = "sweep"
    BY <1>3 DEF Sweep, TimersIdle
  <2> QED BY <2>1, <2>2 DEF NoMerge
<1>4. ASSUME FinishSweep PROVE NoMerge
  <2>1. timers.pc \in {"sweep", "cooling"}
    BY <1>4 DEF FinishSweep, Disconnect, RemovePeer, StartCooldown, TickCooldown
  <2>2. ASSUME NEW p \in Peers, Disconnect(p) \/ RemovePeer(p)
        PROVE  timers'.pc \in {"sweep", "cooling"}
    <3>1. CASE Disconnect(p)
      <4> DEFINE d == [timers.due EXCEPT ![Current] = @ \ {p}]
      <4>1. timers' = [timers EXCEPT !.pc = "cooling", !.peer = p,
                                     !.list = Current, !.due = d]
        BY <3>1 DEF Disconnect
      <4> HIDE DEF d
      <4>2. \E due, l : timers' = [timers EXCEPT !.pc = "cooling", !.peer = p,
                                               !.list = l, !.due = due]
        BY <4>1
      <4>3. DOMAIN timers = {"pc", "due", "del", "peer", "list"}
        BY DEF TypeOK
      <4> QED BY <4>2, <4>3
    <3>2. CASE RemovePeer(p)
      BY <3>2 DEF RemovePeer, TypeOK
    <3> QED BY <2>2, <3>1, <3>2
  <2>3. StartCooldown \/ TickCooldown => timers'.pc \in {"sweep", "idle"}
    <3>1. ASSUME StartCooldown PROVE timers'.pc = "sweep"
      <4>1. timers' = [timers EXCEPT !.pc = "sweep", !.peer = NoPeer, !.list = "In"]
        BY <3>1 DEF StartCooldown
      <4>2. DOMAIN timers = {"pc", "due", "del", "peer", "list"}
        BY DEF TypeOK
      <4> QED BY <4>1, <4>2
    <3>2. ASSUME TickCooldown PROVE timers'.pc = "idle"
      BY <3>2, ThreadTypes DEF TickCooldown
    <3> QED BY <3>1, <3>2
  <2>4. timers'.pc \in {"sweep", "cooling", "idle"}
    BY <1>4, <2>2, <2>3 DEF FinishSweep
  <2> QED BY <2>1, <2>4 DEF NoMerge
<1>5. ASSUME Connect PROVE NoMerge
  BY <1>5, ThreadTypes DEF NoMerge, Connect, Crash
<1>6. ASSUME NEW S \in BootLists, HandlePeerlistMessage(S)
      PROVE  NoMerge
  BY <1>6 DEF NoMerge, HandlePeerlistMessage, Crash, TimersIdle
<1> QED BY <1>1, <1>2, <1>3, <1>4, <1>5, <1>6, SMTT(30) DEF NoMerge
-----------------------------------------------------------------------------
(***************************************************************************)
(* Serving is kept by the steps of PeerManager.                            *)
(***************************************************************************)

\* A partner of Out is of the parallel network, whatever step PeerManager takes.
LEMMA PartnersServe == AuxIInv /\ Partners(Next) => Serving'
<1> SUFFICES ASSUME AuxIInv, Partners(Next) PROVE Serving'
  OBVIOUS
<1>1. TypeOK /\ [Next]_vars
  BY DEF AuxIInv, IInv, Partners
<1>2. auxState' = auxState /\ rejected' = rejected /\ NoMerge
  BY <1>1, StateKept
<1>3. \A p \in Peers : NetKept(p)
  BY <1>1, NetsKept
<1>4. RejectedNotServed'
  <2> SUFFICES ASSUME NEW p \in active'["Out"], p \in rejected
               PROVE  timers'.pc = "merge" /\ p \in timers'.del
    BY <1>2 DEF RejectedNotServed
  <2>1. p \in active["Out"]
    BY <1>1, OutKept DEF Refused
  <2> QED BY <1>2, <2>1 DEF AuxIInv, Serving, RejectedNotServed, NoMerge
<1>5. ServesOnlyParallel'
  <2> SUFFICES ASSUME auxState = "SERVER_AUX_ACTIVE",
                      NEW p \in active'["Out"], p \in Known', peerList'[p].peer
               PROVE  peerList'[p].sub = 1
    BY <1>2 DEF ServesOnlyParallel
  <2>1. p \in Peers /\ peerList'[p] # Unknown
    BY DEF Known
  <2>2. ASSUME p \in Known, peerList[p].peer PROVE peerList[p].sub = 1
    <3>1. CASE p \in active["Out"]
      BY <2>2, <3>1 DEF AuxIInv, Serving, ServesOnlyParallel
    <3>2. CASE p \notin active["Out"]
      BY <1>1, <2>2, <3>2, OutKept DEF Refused, Entry
    <3> QED BY <3>1, <3>2
  <2>3. CASE peerList'[p] = peerList[p]
    BY <2>1, <2>2, <2>3 DEF Known
  <2>4. CASE SameNet(Entry(p), peerList'[p])
    BY <2>2, <2>4 DEF SameNet, Entry, NullData
  <2>5. CASE peerList'[p].sub = NewSub
    BY <2>5 DEF NewSub
  <2> QED BY <1>3, <2>1, <2>3, <2>4, <2>5 DEF NetKept
<1>6. Phase'
  BY <1>2 DEF AuxIInv, Serving, Phase, NoMerge, Partners
<1>7. Marked'
  <2> SUFFICES ASSUME timers'.pc \in {"picked", "merge"}, NEW p \in timers'.del
               PROVE  p \in Known' /\ peerList'[p].sub < 0
    BY DEF Marked
  <2>1. timers' = timers
    BY <1>2 DEF NoMerge
  <2>2. p \in Known /\ peerList[p].sub < 0
    BY <2>1 DEF AuxIInv, Serving, Marked
  <2>3. p \in Peers /\ Entry(p) = peerList[p]
    BY <2>2 DEF Known, Entry
  <2>4. CASE peerList'[p] = peerList[p]
    BY <2>2, <2>4 DEF Known
  <2>5. CASE SameNet(Entry(p), peerList'[p])
    BY <2>2, <2>3, <2>5, UnknownAssumption DEF SameNet, Known
  <2> QED BY <1>3, <2>1, <2>2, <2>3, <2>4, <2>5 DEF NetKept
<1> QED BY <1>4, <1>5, <1>6, <1>7 DEF Serving
-----------------------------------------------------------------------------
(***************************************************************************)
(* The bootstrap's messages and the merge.                                 *)
(***************************************************************************)

\* What they leave alone: no TTL changes, Out at most shrinks, and not while
\* ConnectPeer works on it.
Quiet ==
  /\ peerList' \in [Peers -> PeerData \cup {Unknown}]
  /\ \A p \in Peers : peerList'[p] = peerList[p] \/ peerList'[p].ttlIn = Entry(p).ttlIn
  /\ active' \in [Lists -> SUBSET Peers]
  /\ \A L \in Lists : active'[L] \subseteq active[L]
  /\ recv.pc = "locked" => active'[recv.list] = active[recv.list]
  /\ cooldown' \in [Lists -> [Peers -> 0..COOLDOWN]]
  /\ rejected' \subseteq Peers /\ auxState' \in AuxStates
  /\ UNCHANGED <<removeWorse, recv, alive, crashed>>
  /\ timers' \in [pc : TimersPcs, due : [Lists -> SUBSET Peers], del : SUBSET Peers,
                  peer : Peers \cup {NoPeer}, list : Lists]
  /\ timers.due = NoneDue /\ timers'.due = NoneDue
  /\ timers'.pc # "cooling"

\* So the invariant of PeerManager stays.
LEMMA QuietKeeps == IInv /\ Quiet => IInv'
<1> SUFFICES ASSUME IInv, Quiet PROVE IInv'
  OBVIOUS
<1>1. TypeOK'
  BY DEF IInv, Quiet, TypeOK
<1>2. Capacity'
  <2>1. \A L \in Lists : active'[L] \in SUBSET active[L]
    BY DEF Quiet
  <2> QED BY <2>1, SmallerFits DEF IInv, Capacity
<1>3. RoomKept'
  BY DEF IInv, Quiet, RoomKept, Room
<1>4. InPartnersAlive'
  <2>1. "In" \in Lists
    BY DEF Lists
  <2> QED BY <2>1, LiveKept DEF IInv, Quiet
<1> QED BY <1>1, <1>2, <1>3, <1>4 DEF IInv

\* A new network for the partners of Out, or for the picked ones, is an entry
\* that keeps its TTL.
LEMMA SetSub ==
  ASSUME NEW e \in PeerData, NEW n \in Int
  PROVE  /\ [e EXCEPT !.sub = n] \in PeerData
         /\ [e EXCEPT !.sub = n].ttlIn = e.ttlIn
BY DEF PeerData

\* A new parallel network in the entries changes neither their type nor a TTL.
LEMMA SubOfOutKeeps ==
  ASSUME TypeOK, NEW sub \in [Peers -> Int], peerList' = SubOfOut(sub)
  PROVE  /\ peerList' \in [Peers -> PeerData \cup {Unknown}]
         /\ \A p \in Peers : \/ peerList'[p] = peerList[p]
                             \/ peerList'[p].ttlIn = Entry(p).ttlIn
BY EntryType, SetSub DEF SubOfOut, TypeOK

\* SetPeerManagerState changes nothing PeerManager relies on.
LEMMA MessageQuiet ==
  ASSUME TypeOK, NEW state \in AuxStates, HandleMessageServerSub(state)
  PROVE  Quiet
<1> USE DEF Lists
<1>1. /\ recv.pc # "locked" /\ timers' = timers /\ timers.pc = "idle"
      /\ UNCHANGED <<cooldown, removeWorse, recv, alive, crashed>>
  BY DEF HandleMessageServerSub, PeerListFree
<1>2. StartParallel \/ StartMerge \/ BackToNormal
  BY DEF HandleMessageServerSub
<1>3. /\ auxState' \in AuxStates /\ rejected' \subseteq Peers
      /\ active' \in [Lists -> SUBSET Peers]
      /\ \A L \in Lists : active'[L] \subseteq active[L]
  BY <1>2, EntryType DEF StartParallel, StartMerge, BackToNormal, TypeOK, AuxStates
<1>4. /\ [p \in Peers |-> 0] \in [Peers -> Int]
      /\ [p \in Peers |-> -Entry(p).sub] \in [Peers -> Int]
  BY EntryType DEF PeerData
<1>5. /\ peerList' \in [Peers -> PeerData \cup {Unknown}]
      /\ \A p \in Peers : \/ peerList'[p] = peerList[p]
                          \/ peerList'[p].ttlIn = Entry(p).ttlIn
  <2>1. CASE peerList' = peerList
    BY <2>1 DEF TypeOK
  <2>2. CASE peerList' = SubOfOut([p \in Peers |-> 0])
    BY <1>4, <2>2, SubOfOutKeeps
  <2>3. CASE peerList' = SubOfOut([p \in Peers |-> -Entry(p).sub])
    BY <1>4, <2>3, SubOfOutKeeps
  <2> QED BY <1>2, <2>1, <2>2, <2>3 DEF StartParallel, StartMerge, BackToNormal
<1> QED BY <1>1, <1>3, <1>5 DEF Quiet, TypeOK

\* SetPeerManagerState starts and ends the parallel network with nobody of the
\* other network among the partners of Out.
LEMMA MessageServes ==
  ASSUME AuxIInv, NEW state \in AuxStates, HandleMessageServerSub(state)
  PROVE  AuxTypes' /\ Serving'
<1> USE DEF Lists
<1>1. /\ timers' = timers /\ timers.pc = "idle" /\ ~execDue /\ ~execDue'
      /\ SetMergeType
  BY DEF HandleMessageServerSub
<1>2. StartParallel \/ StartMerge \/ BackToNormal
  BY DEF HandleMessageServerSub
<1>3. AuxTypes'
  <2>1. killEnd' \in BOOLEAN
    BY <1>1, Zenon DEF SetMergeType
  <2>2. mergeType' \in MergeTypes \ {"AVOID_KILLEND", "PERMIT_KILLEND"}
    BY <1>1, MergeAssumption DEF AuxIInv, AuxTypes, SetMergeType, MergeTypes
  <2>3. execDue' \in BOOLEAN
    BY <1>1, Zenon DEF HandleMessageServerSub, AuxIInv, AuxTypes
  <2>4. UNCHANGED <<mergeMode, mergeTemp, exited>>
    BY <1>1 DEF SetMergeType
  <2> QED BY <2>1, <2>2, <2>3, <2>4 DEF AuxIInv, AuxTypes
<1>4. TypeOK /\ RejectedNotServed /\ ServesOnlyParallel
  BY DEF AuxIInv, IInv, Serving
<1>5. RejectedNotServed'
  BY <1>1, <1>2, <1>4 DEF RejectedNotServed, StartParallel, StartMerge, BackToNormal,
                          TypeOK
<1>6. ServesOnlyParallel'
  BY <1>2, <1>4 DEF ServesOnlyParallel, Known, StartParallel, StartMerge,
                    BackToNormal, TypeOK
<1> QED BY <1>1, <1>3, <1>5, <1>6 DEF Serving, Phase, Marked

\* mergeCSA_Temp stays a byte.
LEMMA TempType == AuxTypes => NextTemp \in 0..255
BY MergeAssumption DEF AuxTypes, NextTemp

\* Only partners of the parallel network are picked.
LEMMA PicksMergeable ==
  ASSUME TypeOK, NEW G \in Picks, NEW p \in G
  PROVE  p \in active["Out"] /\ p \in Known /\ peerList[p].sub < 0
<1>1. p \in Mergeable
  BY DEF Picks, kSubset
<1> QED BY <1>1 DEF Mergeable, Entry, NullData, Known, TypeOK, Lists

\* A step of ExecMesc keeps the invariant: it works while the networks merge,
\* on the partners it picked.
LEMMA MergeKeeps == AuxIInv /\ ExecMesc => AuxIInv'
<1> SUFFICES ASSUME AuxIInv, ExecMesc PROVE AuxIInv'
  OBVIOUS
<1> USE DEF Lists
<1>1. /\ TypeOK /\ IInv /\ AuxTypes /\ RejectedNotServed /\ ServesOnlyParallel
      /\ Phase /\ Marked
  BY DEF AuxIInv, IInv, Serving
<1>2. auxState = "SERVER_AUX_MESCLAR"
  BY <1>1 DEF ExecMesc, MergeTick, MergeKill, MergePick, Merging, MergePermit,
              MergeAvoid, MergeReject, MergeCooldown, Phase
<1>3. CASE MergeTick \/ MergeKill
  <2>1. UNCHANGED vars
    BY <1>3 DEF MergeTick, MergeKill
  <2>2. IInv'
    BY <1>1, <2>1, StepIInv
  <2>3. AuxTypes'
    <3>1. mergeTemp' \in 0..255
      BY <1>1, <1>3, TempType DEF MergeTick, MergeKill, AuxTypes
    <3>2. exited' \in BOOLEAN /\ execDue' \in BOOLEAN
      BY <1>1, <1>3 DEF MergeTick, MergeKill, Merging, AuxTypes
    <3>3. mergeMode' = mergeMode /\ mergeType' = mergeType /\ killEnd' = killEnd
      BY <1>3 DEF MergeTick, MergeKill
    <3> QED BY <1>1, <3>1, <3>2, <3>3 DEF AuxTypes
  <2>4. Serving'
    BY <1>1, <1>2, <2>1 DEF vars, pmVars, Serving, RejectedNotServed,
                            ServesOnlyParallel, Phase, Marked, Known
  <2> QED BY <2>2, <2>3, <2>4 DEF AuxIInv
<1>4. CASE MergePick
  <2>1. PICK G \in Picks :
          IF G = {}
          THEN mergeType' = (IF killEnd THEN "KILL" ELSE "NONE") /\ timers' = timers
          ELSE timers' = [TimersIdle EXCEPT !.pc = "picked", !.del = G] /\ mergeType' = mergeType
    BY <1>4 DEF MergePick
  <2>2. /\ timers.pc = "idle" /\ ~execDue' /\ peerList' = Touched(active["Out"])
        /\ mergeTemp' = 0 /\ recv.pc # "locked"
        /\ UNCHANGED <<active, cooldown, rejected, removeWorse, auxState, recv,
                       alive, crashed, mergeMode, killEnd, exited>>
    BY <1>4 DEF MergePick, Merging, PeerListFree
  <2>3. \A p \in G : p \in active["Out"] /\ p \in Known /\ peerList[p].sub < 0
    BY <1>1, PicksMergeable
  <2>4. /\ timers' \in [pc : TimersPcs, due : [Lists -> SUBSET Peers], del : SUBSET Peers,
                        peer : Peers \cup {NoPeer}, list : Lists]
        /\ timers'.due = NoneDue /\ timers'.pc # "cooling"
        /\ \/ timers'.pc = "idle"
           \/ timers'.pc = "picked" /\ timers'.del = G
    <3>1. G \in SUBSET Peers
      BY <2>3 DEF Known
    <3>2. CASE G = {}
      BY <1>1, <2>1, <2>2, <3>2 DEF TypeOK
    <3>3. CASE G # {}
      <4>1. timers' = [TimersIdle EXCEPT !.pc = "picked", !.del = G]
        BY <2>1, <3>3
      <4> QED BY <3>1, <4>1, ThreadTypes DEF TimersPcs
    <3> QED BY <3>2, <3>3
  <2>5. active["Out"] \in SUBSET Peers
    BY <1>1 DEF TypeOK
  <2>6. Quiet
    <3>1. \A p \in Peers : \/ peerList'[p] = peerList[p]
                           \/ peerList'[p].ttlIn = Entry(p).ttlIn
      BY <1>1, <2>2, <2>5, TouchedLive
    <3>2. peerList' \in [Peers -> PeerData \cup {Unknown}]
      BY <1>1, <2>2, <2>5, TouchedType
    <3> QED BY <1>1, <2>2, <2>4, <3>1, <3>2 DEF Quiet, TypeOK
  <2>7. AuxTypes'
    <3>1. execDue' \in BOOLEAN
      BY <1>4, Zenon DEF MergePick, Merging
    <3>2. mergeType' \in MergeTypes \ {"AVOID_KILLEND", "PERMIT_KILLEND"}
      BY <1>1, <2>1 DEF AuxTypes, MergeTypes
    <3>3. 0 \in 0..255
      OBVIOUS
    <3> QED BY <1>1, <2>2, <3>1, <3>2, <3>3 DEF AuxTypes
  <2>8. Marked'
    <3> SUFFICES ASSUME timers'.pc \in {"picked", "merge"}, NEW p \in timers'.del
                 PROVE  p \in Known' /\ peerList'[p].sub < 0
      BY DEF Marked
    <3>1. p \in G
      BY <2>4
    <3>2. peerList'[p] = peerList[p]
      BY <2>2, <2>3, <3>1 DEF Touched, Entry, Known
    <3> QED BY <2>3, <3>1, <3>2 DEF Known
  <2>9. RejectedNotServed' /\ ServesOnlyParallel' /\ Phase'
    BY <1>1, <1>2, <2>2, <2>4 DEF RejectedNotServed, ServesOnlyParallel, Phase
  <2> QED BY <1>1, <2>6, <2>7, <2>8, <2>9, QuietKeeps DEF AuxIInv, Serving
<1>5. CASE MergePermit
  <2>1. /\ timers.pc = "picked" /\ recv.pc # "locked" /\ timers' = TimersIdle
        /\ peerList' = Unmarked(timers.del) /\ Drop("Out", timers.del)
        /\ UNCHANGED <<rejected, removeWorse, auxState, recv, alive, crashed, mergeVars>>
    BY <1>5 DEF MergePermit, PeerListFree
  <2>2. Quiet
    <3>1. \A p \in Peers : \/ peerList'[p] = peerList[p]
                           \/ peerList'[p].ttlIn = Entry(p).ttlIn
      BY <1>1, <2>1, EntryType, SetSub DEF Unmarked
    <3>2. peerList' \in [Peers -> PeerData \cup {Unknown}]
      <4>1. \A p \in Peers : [Entry(p) EXCEPT !.sub = 0] \in PeerData
        BY <1>1, EntryType, SetSub
      <4> QED BY <1>1, <2>1, <4>1 DEF Unmarked, TypeOK
    <3>3. /\ active' \in [Lists -> SUBSET Peers]
          /\ \A L \in Lists : active'[L] \subseteq active[L]
          /\ cooldown' \in [Lists -> [Peers -> 0..COOLDOWN]]
      BY <1>1, <2>1 DEF Drop, TypeOK
    <3> QED BY <1>1, <2>1, <3>1, <3>2, <3>3, ThreadTypes DEF Quiet, TypeOK
  <2>3. AuxTypes'
    BY <1>1, <1>5, <2>1 DEF ExecMesc, mergeVars, AuxTypes, MergePermit, MergeTick,
                            MergeKill, MergePick, Merging, MergeAvoid, MergeReject,
                            MergeCooldown
  <2>4. RejectedNotServed'
    BY <1>1, <2>1 DEF RejectedNotServed, Drop, TypeOK
  <2>5. ServesOnlyParallel' /\ Phase' /\ Marked'
    BY <1>2, <2>1, ThreadTypes DEF ServesOnlyParallel, Phase, Marked
  <2> QED BY <1>1, <2>2, <2>3, <2>4, <2>5, QuietKeeps DEF AuxIInv, Serving
<1>6. CASE MergeAvoid
  <2>1. /\ timers.pc = "picked" /\ timers' = [timers EXCEPT !.pc = "merge"]
        /\ UNCHANGED <<pmVars, recv, alive, crashed, mergeVars>>
    BY <1>6 DEF MergeAvoid
  <2>2. timers'.pc = "merge" /\ timers'.del = timers.del
    BY <1>1, <2>1 DEF TypeOK
  <2>3. Quiet
    BY <1>1, <2>1 DEF Quiet, pmVars, TypeOK, TimersPcs
  <2>4. AuxTypes'
    BY <1>1, <1>6, <2>1 DEF ExecMesc, mergeVars, AuxTypes, MergeAvoid, MergeTick,
                            MergeKill, MergePick, Merging
  <2>5. RejectedNotServed' /\ ServesOnlyParallel' /\ Phase' /\ Marked'
    BY <1>1, <1>2, <2>1, <2>2 DEF pmVars, RejectedNotServed, ServesOnlyParallel,
                                  Phase, Marked, Known
  <2> QED BY <1>1, <2>3, <2>4, <2>5, QuietKeeps DEF AuxIInv, Serving
<1>7. ASSUME NEW p \in Peers, MergeReject(p) PROVE AuxIInv'
  <2>1. /\ timers.pc = "merge" /\ p \in timers.del /\ ActiveFree("Out")
        /\ rejected' = rejected \cup {p}
        /\ active' = [active EXCEPT !["Out"] = @ \ {p}]
        /\ timers' = [timers EXCEPT !.peer = p, !.del = timers.del \ {p}]
        /\ UNCHANGED <<peerList, cooldown, removeWorse, auxState, recv, alive,
                       crashed, mergeVars>>
    BY <1>7 DEF MergeReject
  <2>2. timers'.pc = "merge" /\ timers'.del = timers.del \ {p} /\ timers'.due = NoneDue
    BY <1>1, <2>1 DEF TypeOK
  <2>3. Quiet
    <3>1. timers' \in [pc : TimersPcs, due : [Lists -> SUBSET Peers], del : SUBSET Peers,
                       peer : Peers \cup {NoPeer}, list : Lists]
      BY <1>1, <2>1 DEF TypeOK
    <3>2. recv.pc = "locked" => active'[recv.list] = active[recv.list]
      BY <1>1, <2>1 DEF TypeOK, ActiveFree
    <3>3. /\ active' \in [Lists -> SUBSET Peers]
          /\ \A L \in Lists : active'[L] \subseteq active[L]
      BY <1>1, <2>1 DEF TypeOK
    <3> QED BY <1>1, <2>1, <2>2, <3>1, <3>2, <3>3 DEF Quiet, TypeOK
  <2>4. execDue' \in BOOLEAN
    BY <1>1, <1>7, <2>1 DEF ExecMesc, AuxTypes, MergeTick, MergeKill, MergePick, Merging
  <2>5. AuxTypes'
    BY <1>1, <2>1, <2>4 DEF mergeVars, AuxTypes
  <2>6. RejectedNotServed'
    BY <1>1, <2>1, <2>2 DEF RejectedNotServed, TypeOK
  <2>7. ServesOnlyParallel' /\ Phase' /\ Marked'
    BY <1>1, <1>2, <2>1, <2>2 DEF ServesOnlyParallel, Phase, Marked, Known
  <2> QED BY <1>1, <2>3, <2>5, <2>6, <2>7, QuietKeeps DEF AuxIInv, Serving
<1>8. CASE MergeCooldown
  <2>1. /\ timers.pc = "merge" /\ timers.peer # NoPeer
        /\ cooldown' = [cooldown EXCEPT !["Out"][timers.peer] = COOLDOWN]
        /\ timers' = IF timers.del = {} THEN TimersIdle
                     ELSE [timers EXCEPT !.peer = NoPeer]
        /\ UNCHANGED <<peerList, active, rejected, removeWorse, auxState, recv, alive,
                       crashed, mergeVars>>
    BY <1>8 DEF MergeCooldown
  <2>2. \/ timers'.pc = "idle" /\ timers.del = {}
        \/ timers'.pc = "merge" /\ timers'.del = timers.del
    BY <1>1, <2>1, ThreadTypes DEF TypeOK
  <2>3. Quiet
    <3>1. cooldown' \in [Lists -> [Peers -> 0..COOLDOWN]]
      BY <1>1, <2>1 DEF TypeOK
    <3>2. /\ timers' \in [pc : TimersPcs, due : [Lists -> SUBSET Peers], del : SUBSET Peers,
                          peer : Peers \cup {NoPeer}, list : Lists]
          /\ timers'.due = NoneDue /\ timers.due = NoneDue
      BY <1>1, <2>1, ThreadTypes DEF TypeOK
    <3> QED BY <1>1, <2>1, <2>2, <3>1, <3>2 DEF Quiet, TypeOK
  <2>4. execDue' \in BOOLEAN
    BY <1>1, <1>8, <2>1 DEF ExecMesc, AuxTypes, MergeTick, MergeKill, MergePick, Merging
  <2>5. AuxTypes'
    BY <1>1, <2>1, <2>4 DEF mergeVars, AuxTypes
  <2>6. RejectedNotServed' /\ ServesOnlyParallel' /\ Phase' /\ Marked'
    BY <1>1, <1>2, <2>1, <2>2 DEF RejectedNotServed, ServesOnlyParallel, Phase, Marked,
                                  Known
  <2> QED BY <1>1, <2>3, <2>5, <2>6, QuietKeeps DEF AuxIInv, Serving
<1> QED BY <1>3, <1>4, <1>5, <1>6, <1>7, <1>8 DEF ExecMesc
-----------------------------------------------------------------------------
(***************************************************************************)
(* The theorems.                                                           *)
(***************************************************************************)

\* The auxiliary server starts as a client that serves nobody.
LEMMA AuxInitial == AuxInit => AuxIInv
<1> SUFFICES ASSUME AuxInit PROVE AuxIInv
  OBVIOUS
<1>1. IInv
  BY InitIInv DEF AuxInit
<1>2. AuxTypes
  <2>1. killEnd \in BOOLEAN /\ exited \in BOOLEAN /\ execDue \in BOOLEAN
    BY Zenon DEF AuxInit
  <2>2. mergeTemp \in 0..255 /\ mergeMode \in MergeModes
    BY DEF AuxInit
  <2>3. mergeType \in MergeTypes \ {"AVOID_KILLEND", "PERMIT_KILLEND"}
    BY DEF AuxInit, MergeTypes
  <2> QED BY <2>1, <2>2, <2>3 DEF AuxTypes
<1>3. Serving
  BY ThreadTypes DEF AuxInit, Init, Serving, RejectedNotServed, ServesOnlyParallel,
                     Phase, Marked, Lists
<1> QED BY <1>1, <1>2, <1>3 DEF AuxIInv

\* No step of the composed program breaks the invariant.
LEMMA AuxStep == AuxIInv /\ [AuxNext]_auxVars => AuxIInv'
<1> SUFFICES ASSUME AuxIInv, [AuxNext]_auxVars PROVE AuxIInv'
  OBVIOUS
<1>1. CASE UNCHANGED auxVars
  <2>1. IInv'
    BY <1>1, StepIInv DEF auxVars, AuxIInv
  <2> QED BY <1>1, <2>1 DEF auxVars, vars, pmVars, mergeVars, AuxIInv, AuxTypes, Serving,
                            RejectedNotServed, ServesOnlyParallel, Phase, Marked, Known
<1>2. CASE Partners(Next)
  <2>1. IInv'
    BY <1>2, StepIInv DEF Partners, AuxIInv
  <2>2. execDue' \in BOOLEAN
    BY <1>2 DEF Partners, Sweeping, AuxIInv, AuxTypes
  <2>3. AuxTypes'
    BY <1>2, <2>2 DEF Partners, mergeVars, AuxIInv, AuxTypes
  <2> QED BY <1>2, <2>1, <2>3, PartnersServe DEF AuxIInv
<1>3. ASSUME NEW state \in AuxStates, HandleMessageServerSub(state) PROVE AuxIInv'
  <2>1. Quiet
    BY <1>3, MessageQuiet DEF AuxIInv, IInv
  <2> QED BY <1>3, <2>1, QuietKeeps, MessageServes DEF AuxIInv
<1>4. CASE ExecMesc
  BY <1>4, MergeKeeps
<1> QED BY <1>1, <1>2, <1>3, <1>4 DEF AuxNext

\* The invariant holds in every state of the composed program.
LEMMA AuxInvariance == AuxSpec => []AuxIInv
BY AuxInitial, AuxStep, PTL DEF AuxSpec

\* Type correctness, with mergeCSA_Temp a byte and the KILLEND modes always
\* split into a mode and a flag.
THEOREM AuxTypeCorrect == AuxSpec => []AuxTypeOK
<1>1. AuxIInv => AuxTypeOK
  BY DEF AuxIInv, IInv, AuxTypes, AuxTypeOK
<1> QED BY <1>1, AuxInvariance, PTL

\* What PeerManager promises of its lists still holds with the steps of the
\* auxiliary server in between: no list is too long, the room ConnectPeer saw
\* is kept, In partners have TTL left.
THEOREM ListsKept == AuxSpec => [](Capacity /\ RoomKept /\ InPartnersAlive)
<1>1. AuxIInv => Capacity /\ RoomKept /\ InPartnersAlive
  BY DEF AuxIInv, IInv
<1> QED BY <1>1, AuxInvariance, PTL

\* Nobody on peerList_Rejected is served from Out, but for the partners a
\* merge step is just disconnecting.
THEOREM RejectedTheorem == AuxSpec => []RejectedNotServed
<1>1. AuxIInv => RejectedNotServed
  BY DEF AuxIInv, Serving
<1> QED BY <1>1, AuxInvariance, PTL

\* An active auxiliary server feeds only peers of the parallel network.
THEOREM ParallelTheorem == AuxSpec => []ServesOnlyParallel
<1>1. AuxIInv => ServesOnlyParallel
  BY DEF AuxIInv, Serving
<1> QED BY <1>1, AuxInvariance, PTL

\* The merge disconnects nobody but partners of the parallel network.
THEOREM MergedTheorem == AuxSpec => OnlyParallelMerged
<1> DEFINE Body == \A p \in active["Out"] \ active'["Out"] :
                     timers.pc \in {"picked", "merge"} /\ timers' # timers
                       => p \in Known /\ peerList[p].sub < 0
<1>1. AuxIInv /\ [AuxNext]_auxVars => Body
  <2> SUFFICES ASSUME AuxIInv, [AuxNext]_auxVars,
                      NEW p \in active["Out"], p \notin active'["Out"],
                      timers.pc \in {"picked", "merge"}, timers' # timers
               PROVE  p \in Known /\ peerList[p].sub < 0
    OBVIOUS
  <2>1. p \in timers.del => p \in Known /\ peerList[p].sub < 0
    BY DEF AuxIInv, Serving, Marked
  <2>2. ASSUME Partners(Next) PROVE FALSE
    <3>1. NoMerge
      BY <2>2, StateKept DEF Partners, AuxIInv, IInv
    <3> QED BY <3>1 DEF NoMerge
  <2>3. ASSUME NEW state \in AuxStates, HandleMessageServerSub(state) PROVE FALSE
    BY <2>3 DEF HandleMessageServerSub
  <2>4. CASE ExecMesc
    <3>1. TypeOK
      BY DEF AuxIInv, IInv
    <3>2. ASSUME MergeTick \/ MergeKill \/ MergePick PROVE FALSE
      BY <3>2 DEF MergeTick, MergeKill, MergePick, Merging
    <3>3. ASSUME MergeAvoid \/ MergeCooldown PROVE FALSE
      BY <3>3 DEF MergeAvoid, MergeCooldown, pmVars
    <3>4. CASE MergePermit
      BY <2>1, <3>1, <3>4 DEF MergePermit, Drop, TypeOK, Lists
    <3>5. ASSUME NEW q \in Peers, MergeReject(q) PROVE p \in timers.del
      BY <3>1, <3>5 DEF MergeReject, TypeOK, Lists
    <3> QED BY <2>1, <2>4, <3>2, <3>3, <3>4, <3>5 DEF ExecMesc
  <2> QED BY <2>2, <2>3, <2>4 DEF AuxNext, auxVars, vars
<1> HIDE DEF Body
<1>2. AuxSpec => [][Body]_auxVars
  BY <1>1, AuxInvariance, PTL DEF AuxSpec
<1> QED BY <1>2 DEF Body, OnlyParallelMerged
=============================================================================
