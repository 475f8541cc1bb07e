------------------------ MODULE PeerManager_proofs ------------------------
(***************************************************************************)
(* Safety of the partner lists, for every set of peers and every value of  *)
(* the other constants.  IInv is inductive; the lemmas below say what one  *)
(* step of each kind does to each of its conjuncts.                        *)
(***************************************************************************)
EXTENDS PeerManager, FiniteSetTheorems, TLAPS

\* The inductive invariant: the types, and for each thread what it relies on
\* between two of its steps.
IInv == TypeOK /\ Capacity /\ RoomKept /\ InPartnersAlive

USE ConstantsAssumption
-----------------------------------------------------------------------------
(***************************************************************************)
(* The operators on entries.                                               *)
(***************************************************************************)

\* The map holds entries before and after each operation on it.
LEMMA EntryType ==
  ASSUME TypeOK
  PROVE  /\ NullData \in PeerData
         /\ \A p \in Peers : Entry(p) \in PeerData
         /\ \A p \in Known : peerList[p] \in PeerData /\ Entry(p) = peerList[p]
         /\ Known \subseteq Peers
BY DEF TypeOK, NullData, PeerData, Entry, Known

\* An entry stays one when a TTL or a mark of it is set.
LEMMA SetType ==
  ASSUME NEW e \in PeerData
  PROVE  /\ [e EXCEPT !.special = TRUE] \in PeerData
         /\ \A n \in Int : [e EXCEPT !.ttlIn = n] \in PeerData
         /\ \A n, k \in Int : [e EXCEPT !.ttlIn = n, !.ttlOut = k] \in PeerData
BY DEF PeerData

\* Peers that were heard of keep the type of the peer list.
LEMMA TouchedType ==
  ASSUME TypeOK, NEW S \in SUBSET Peers
  PROVE  Touched(S) \in [Peers -> PeerData \cup {Unknown}]
BY EntryType DEF Touched, TypeOK

\* ... and so do peers that are added.
LEMMA AddedType ==
  ASSUME TypeOK, NEW S \in SUBSET Peers, NEW out \in Int
  PROVE  Added(S, out) \in [Peers -> PeerData \cup {Unknown}]
<1>1. NewData(out) \in PeerData
  <2> DEFINE sub == IF auxState = "SERVER_AUX_ACTIVE" THEN 1 ELSE 0
  <2>1. sub \in Int
    OBVIOUS
  <2>2. NewData(out) = [NullData EXCEPT !.peer = TRUE, !.out = out, !.sub = sub]
    BY DEF NewData
  <2> HIDE DEF sub
  <2>3. NullData \in PeerData
    BY EntryType
  <2> QED BY <2>1, <2>2, <2>3 DEF PeerData
<1>2. ASSUME NEW p \in Known PROVE [peerList[p] EXCEPT !.out = out] \in PeerData
  <2>1. peerList[p] \in PeerData
    BY EntryType
  <2> QED BY <2>1 DEF PeerData
<1> QED BY <1>1, <1>2, EntryType DEF Added, TypeOK

\* An entry with its TTLs one less has the type of entries.
LEMMA AgedType ==
  ASSUME TypeOK, NEW p \in Peers
  PROVE  Aged(p) \in PeerData
<1> DEFINE in == Entry(p).ttlIn - One(p \in active["In"])
           out == Entry(p).ttlOut - One(p \in active["Out"])
                                  - One(p \in active["OutFREE"])
<1>1. \A L : One(p \in active[L]) \in Int
  BY DEF One
<1>2. in \in Int /\ out \in Int
  <2>1. Entry(p).ttlIn \in Int /\ Entry(p).ttlOut \in Int
    BY EntryType DEF PeerData
  <2> QED BY <1>1, <2>1
<1>3. Aged(p) = [Entry(p) EXCEPT !.ttlIn = in, !.ttlOut = out]
  BY DEF Aged
<1>4. Entry(p) \in PeerData
  BY EntryType
<1> HIDE DEF in, out
<1>5. [Entry(p) EXCEPT !.ttlIn = in, !.ttlOut = out] \in PeerData
  BY <1>2, <1>4, SetType, Zenon
<1> QED BY <1>3, <1>5

\* The entry of a peer that becomes a partner; an In partner starts with a full TTL.
LEMMA JoinedType ==
  ASSUME TypeOK, NEW p \in Peers, NEW L, NEW S
  PROVE  /\ Joined(p, L, S) \in PeerData
         /\ Joined(p, "In", S).ttlIn = TTLInit
         /\ \/ Joined(p, L, S).ttlIn = TTLInit
            \/ Joined(p, L, S).ttlIn = Entry(p).ttlIn
BY EntryType DEF Joined, PeerData

\* A partner of In with a live entry keeps one when its entry is touched.
Live(p) == p \in Known => peerList[p].ttlIn > 0

\* A peer is alive by its entry.
LEMMA EntryLive ==
  ASSUME TypeOK, NEW p \in Peers, Live(p)
  PROVE  Entry(p).ttlIn > 0
BY EntryType DEF Entry, Live, NullData
-----------------------------------------------------------------------------
(***************************************************************************)
(* Types.                                                                  *)
(***************************************************************************)

\* The idle states of the two threads have their types.
LEMMA ThreadTypes ==
  /\ RecvIdle \in [pc : RecvPcs, peer : Peers \cup {NoPeer}, list : Lists]
  /\ RecvIdle.pc = "idle"
  /\ TimersIdle \in [pc : TimersPcs, due : [Lists -> SUBSET Peers],
                     del : SUBSET Peers, peer : Peers \cup {NoPeer},
                     list : Lists]
  /\ TimersIdle.pc = "idle" /\ TimersIdle.due = NoneDue /\ TimersIdle.del = {}
BY DEF RecvIdle, TimersIdle, NoneDue, RecvPcs, TimersPcs, Lists

\* The program starts in its types.
LEMMA InitType == Init => TypeOK
<1> SUFFICES ASSUME Init PROVE TypeOK
  OBVIOUS
<1>1. removeWorse \in BOOLEAN /\ crashed \in BOOLEAN
  BY Zenon DEF Init, ConstantsAssumption
<1>2. /\ peerList \in [Peers -> PeerData \cup {Unknown}]
      /\ active \in [Lists -> SUBSET Peers]
      /\ cooldown \in [Lists -> [Peers -> 0..COOLDOWN]]
  BY DEF Init
<1>3. rejected \subseteq Peers /\ alive \subseteq Peers /\ auxState \in AuxStates
  BY DEF Init, AuxStates
<1> QED BY <1>1, <1>2, <1>3, ThreadTypes DEF Init, TypeOK

\* A step of the receive thread's counter keeps its type.
LEMMA RecvSteps ==
  ASSUME TypeOK, NEW pc \in RecvPcs
  PROVE  [recv EXCEPT !.pc = pc] \in
            [pc : RecvPcs, peer : Peers \cup {NoPeer}, list : Lists]
BY DEF TypeOK

\* Every action keeps the types.
LEMMA TypeStep == TypeOK /\ [Next]_vars => TypeOK'
<1> SUFFICES ASSUME TypeOK, [Next]_vars PROVE TypeOK'
  OBVIOUS
<1> USE ThreadTypes
<1> DEFINE TimersType == [pc : TimersPcs, due : [Lists -> SUBSET Peers],
                          del : SUBSET Peers, peer : Peers \cup {NoPeer},
                          list : Lists]
<1> DEFINE RecvType == [pc : RecvPcs, peer : Peers \cup {NoPeer}, list : Lists]
<1>1. CASE UNCHANGED vars
  BY <1>1 DEF vars, pmVars, TypeOK, Known
<1>2. CASE Crash
  BY <1>2 DEF Crash, pmVars, TypeOK
<1>3. ASSUME NEW p \in Peers, NEW kind \in {"In", "Out"}, NEW out \in Sizes[p],
             PingArrives(p, kind, out)
      PROVE  TypeOK'
  <2>1. out \in Int
    BY DEF ConstantsAssumption
  <2>2. Added({p}, out) \in [Peers -> PeerData \cup {Unknown}]
    <3>1. {p} \in SUBSET Peers
      OBVIOUS
    <3> QED BY <2>1, <3>1, AddedType
  <2>3. OutList(out) \in Lists /\ "In" \in Lists
    BY DEF OutList, Lists
  <2>4. (recv' \in RecvType /\ recv'.peer \in Peers) \/ recv' = recv
    BY <1>3, <2>3 DEF PingArrives, RecvPcs, Crash
  <2>5. peerList' \in [Peers -> PeerData \cup {Unknown}]
    <3>1. peerList' = peerList \/ peerList' = Added({p}, out)
      BY <1>3 DEF PingArrives, Crash, pmVars
    <3> QED BY <2>2, <3>1, ZenonT(40) DEF TypeOK
  <2>6. crashed' \in BOOLEAN
    BY <1>3 DEF PingArrives, TypeOK, Crash
  <2>7. UNCHANGED <<active, cooldown, rejected, removeWorse, auxState, timers, alive>>
    BY <1>3 DEF PingArrives, Crash, pmVars
  <2> QED BY <2>4, <2>5, <2>6, <2>7 DEF TypeOK
<1>4. CASE CheckActive
  BY <1>4 DEF CheckActive, TypeOK, pmVars, RecvPcs
<1>5. CASE CheckCooldown
  BY <1>5 DEF CheckCooldown, TypeOK, pmVars, RecvPcs
<1>6. CASE LockActive
  BY <1>6 DEF LockActive, TypeOK, pmVars, RecvPcs
<1>7. CASE ConnectPeer
  <2>1. recv.pc = "locked" => recv.peer \in Peers /\ recv.list \in Lists
    BY DEF TypeOK
  <2>2. \A S \in SUBSET Peers : Admit /\ Enter(S) =>
          /\ peerList' \in [Peers -> PeerData \cup {Unknown}]
          /\ active' \in [Lists -> SUBSET Peers]
          /\ recv' \in RecvType /\ recv'.peer \in Peers
    BY <2>1, JoinedType, RecvSteps DEF Enter, Admit, TypeOK, RecvPcs
  <2>3. CASE Refuse
    <3>1. Touched({recv.peer} \ rejected) \in [Peers -> PeerData \cup {Unknown}]
      BY <2>1, <2>3, TouchedType DEF Refuse, Admit
    <3> QED BY <2>3, <3>1 DEF Refuse, TypeOK
  <2>4. CASE Insert
    <3>1. active[recv.list] \cup {recv.peer} \in SUBSET Peers
      BY <2>1, <2>4 DEF Insert, Admit, TypeOK
    <3> QED BY <2>2, <2>4, <3>1 DEF Insert, TypeOK
  <2>5. CASE NoRoom
    BY <2>5 DEF NoRoom, TypeOK, pmVars
  <2>6. CASE ConnectSpecial
    <3>1. \A w : (active[recv.list] \ {w}) \cup {recv.peer} \in SUBSET Peers
      BY <2>1, <2>6 DEF ConnectSpecial, Admit, TypeOK
    <3>2. \/ Crash
          \/ /\ \/ \E S \in SUBSET Peers : Enter(S) /\ removeWorse' = FALSE
                \/ recv' = RecvIdle /\ UNCHANGED <<peerList, active, removeWorse>>
             /\ UNCHANGED <<cooldown, rejected, auxState, timers, alive, crashed>>
      BY <2>6, <3>1 DEF ConnectSpecial
    <3>3. CASE Crash
      BY <1>2, <3>3
    <3>4. ASSUME UNCHANGED <<cooldown, rejected, auxState, timers, alive, crashed>>,
                 NEW S \in SUBSET Peers, Enter(S), removeWorse' = FALSE
          PROVE  TypeOK'
      BY <2>2, <2>6, <3>4 DEF ConnectSpecial, TypeOK
    <3>5. ASSUME UNCHANGED <<cooldown, rejected, auxState, timers, alive, crashed>>,
                 recv' = RecvIdle, UNCHANGED <<peerList, active, removeWorse>>
          PROVE  TypeOK'
      BY <3>5 DEF TypeOK
    <3> QED BY <3>2, <3>3, <3>4, <3>5
  <2> QED BY <1>7, <2>3, <2>4, <2>5, <2>6 DEF ConnectPeer
<1>8. CASE Refresh
  <2>1. recv.peer \in Peers /\ Entry(recv.peer) \in PeerData
    BY <1>8, EntryType DEF Refresh, TypeOK
  <2>2. peerList' \in [Peers -> PeerData \cup {Unknown}]
    <3>1. /\ [Entry(recv.peer) EXCEPT !.ttlIn = TTLPing] \in PeerData
          /\ [Entry(recv.peer) EXCEPT !.ttlOut = TTLPing] \in PeerData
      BY <2>1 DEF PeerData
    <3> QED BY <1>8, <3>1 DEF Refresh, TypeOK
  <2>3. recv' \in RecvType /\ (recv'.pc # "idle" => recv'.peer \in Peers)
    BY <1>8, <2>1 DEF Refresh, TypeOK, RecvPcs
  <2> QED BY <1>8, <2>2, <2>3 DEF Refresh, TypeOK
<1>9. CASE StoreChunkMap \/ StoreDelay
  <2>1. \A S \in SUBSET Peers : Touched(S) \in [Peers -> PeerData \cup {Unknown}]
    BY TouchedType
  <2> QED BY <1>9, <2>1 DEF StoreChunkMap, StoreDelay, TypeOK
<1>10. ASSUME NEW p \in Peers, DataArrives(p) PROVE TypeOK'
  BY <1>10, TouchedType DEF DataArrives, TypeOK, RecvPcs, Lists
<1>11. CASE Sweep
  <2>1. peerList' \in [Peers -> PeerData \cup {Unknown}]
    BY <1>11, AgedType DEF Sweep, TypeOK
  <2>2. [L \in Lists |-> Expired(L)] \in [Lists -> SUBSET Peers]
        /\ Deleted \in SUBSET Peers
    BY DEF Expired, Deleted, AllActive, TypeOK
  <2> QED BY <1>11, <2>1, <2>2 DEF Sweep, TypeOK, TimersPcs
<1>12. ASSUME NEW p \in Peers, Disconnect(p) PROVE TypeOK'
  <2>1. Current \in Lists
    BY DEF Current, Lists
  <2>2. active' \in [Lists -> SUBSET Peers]
    BY <1>12, <2>1 DEF Disconnect, TypeOK
  <2>3. timers' \in TimersType /\ timers'.pc = "cooling" /\ timers'.peer \in Peers
    <3> DEFINE d == [timers.due EXCEPT ![Current] = @ \ {p}]
    <3>1. d \in [Lists -> SUBSET Peers] /\ timers \in TimersType
      BY <2>1 DEF TypeOK
    <3>2. timers' = [timers EXCEPT !.pc = "cooling", !.peer = p,
                                   !.list = Current, !.due = d]
      BY <1>12 DEF Disconnect
    <3>3. "cooling" \in TimersPcs
      BY DEF TimersPcs
    <3> HIDE DEF d
    <3> QED BY <2>1, <3>1, <3>2, <3>3, ZenonT(40)
  <2> QED BY <1>12, <2>2, <2>3 DEF Disconnect, TypeOK
<1>13. CASE StartCooldown
  <2>1. timers.list \in Lists /\ timers.peer \in Peers
    BY <1>13 DEF StartCooldown, TypeOK
  <2>2. cooldown' \in [Lists -> [Peers -> 0..COOLDOWN]]
    BY <1>13, <2>1 DEF StartCooldown, TypeOK
  <2>3. timers' \in TimersType /\ timers'.pc = "sweep"
    BY <1>13 DEF StartCooldown, TypeOK, TimersPcs, Lists
  <2> QED BY <1>13, <2>2, <2>3 DEF StartCooldown, TypeOK
<1>14. ASSUME NEW p \in Peers, RemovePeer(p) PROVE TypeOK'
  BY <1>14 DEF RemovePeer, TypeOK
<1>15. CASE TickCooldown
  BY <1>15 DEF TickCooldown, Cooled, TypeOK, ConstantsAssumption
<1>16. ASSUME NEW S \in BootLists, HandlePeerlistMessage(S) PROVE TypeOK'
  <2>1. Added(S, -1) \in [Peers -> PeerData \cup {Unknown}]
    BY AddedType DEF ConstantsAssumption
  <2>2. CASE Crash
    BY <1>2, <2>2
  <2>3. CASE ~Crash
    <3>1. /\ peerList' = Added(S, -1)
          /\ timers' = [TimersIdle EXCEPT !.pc = "connectIn"]
          /\ UNCHANGED <<active, cooldown, rejected, removeWorse, auxState,
                         recv, alive, crashed>>
      BY <1>16, <2>3 DEF HandlePeerlistMessage
    <3> QED BY <2>1, <3>1 DEF TypeOK, TimersPcs
  <2> QED BY <2>2, <2>3
<1>17. ASSUME NEW S \in AuxLists, HandleServerAuxListMessage(S) PROVE TypeOK'
  <2>1. \A p \in Known : [peerList[p] EXCEPT !.special = TRUE] \in PeerData
    BY EntryType, SetType
  <2> QED BY <1>17, <2>1 DEF HandleServerAuxListMessage, TypeOK
<1>18. CASE Connect
  <2>1. ASSUME ~Crash
        PROVE  \E Fit \in SUBSET Known :
                  /\ active' = [active EXCEPT !["In"] = @ \cup Fit]
                  /\ peerList' = [p \in Peers |->
                                    IF p \in Fit
                                    THEN [peerList[p] EXCEPT !.ttlIn = TTLInit]
                                    ELSE peerList[p]]
                  /\ timers' = TimersIdle
                  /\ UNCHANGED <<cooldown, rejected, removeWorse, auxState,
                                 recv, alive, crashed>>
    <3>1. PICK Fit \in SUBSET Known :
            /\ active' = [active EXCEPT !["In"] = @ \cup Fit]
            /\ peerList' = [p \in Peers |-> IF p \in Fit
                                            THEN [peerList[p] EXCEPT !.ttlIn = TTLInit]
                                            ELSE peerList[p]]
            /\ timers' = TimersIdle
            /\ UNCHANGED <<cooldown, rejected, removeWorse, auxState, recv, alive,
                           crashed>>
      BY <1>18, <2>1, ZenonT(40) DEF Connect, kSubset
    <3> QED BY <3>1
  <2>2. \A p \in Known : [peerList[p] EXCEPT !.ttlIn = TTLInit] \in PeerData
    <3>1. TTLInit \in Int
      BY DEF ConstantsAssumption
    <3>2. \A p \in Known : peerList[p] \in PeerData
      BY EntryType
    <3> QED BY <3>1, <3>2, SetType
  <2> QED BY <1>2, <2>1, <2>2, EntryType DEF TypeOK, Lists
<1>19. ASSUME NEW L \in {"In", "Out"}, Flexibilize(L) PROVE TypeOK'
  <2>1. Touched(active[L]) \in [Peers -> PeerData \cup {Unknown}]
    BY TouchedType DEF TypeOK, Lists
  <2>2. ASSUME NEW G, Drop(L, G)
        PROVE  /\ active' \in [Lists -> SUBSET Peers]
               /\ cooldown' \in [Lists -> [Peers -> 0..COOLDOWN]]
    BY <2>2 DEF Drop, TypeOK, Lists
  <2>3. CASE Crash
    BY <1>2, <2>3
  <2>4. CASE ~Crash
    <3>1. PICK G : /\ Drop(L, G)
                   /\ peerList' = Touched(active[L])
                   /\ UNCHANGED <<rejected, removeWorse, auxState, recv, timers,
                                  alive, crashed>>
      BY <1>19, <2>4 DEF Flexibilize
    <3> QED BY <2>1, <2>2, <3>1 DEF TypeOK
  <2> QED BY <2>3, <2>4
<1>20. CASE RearmRemoveWorse
  BY <1>20 DEF RearmRemoveWorse, TypeOK
<1>21. ASSUME NEW L \in Lists, NEW log \in BOOLEAN, Ping(L, log) PROVE TypeOK'
  <2>1. Touched(active[L]) \in [Peers -> PeerData \cup {Unknown}]
    BY TouchedType DEF TypeOK
  <2> QED BY <1>2, <1>21, <2>1 DEF Ping, TypeOK
<1>22. ASSUME NEW p \in Peers, Depart(p) PROVE TypeOK'
  BY <1>22 DEF Depart, TypeOK, pmVars
<1> QED
  BY <1>1, <1>3, <1>4, <1>5, <1>6, <1>7, <1>8, <1>9, <1>10, <1>11, <1>12,
     <1>13, <1>14, <1>15, <1>16, <1>17, <1>18, <1>19, <1>20, <1>21, <1>22
     DEF Next, Arrival, Handle, FinishSweep, Relations
-----------------------------------------------------------------------------
(***************************************************************************)
(* Capacity.                                                               *)
(***************************************************************************)

\* One element more or less.
LEMMA CardAdd ==
  ASSUME NEW S, IsFiniteSet(S), NEW x
  PROVE  /\ IsFiniteSet(S \cup {x})
         /\ Cardinality(S \cup {x}) \in Nat
         /\ Cardinality(S \cup {x}) <= Cardinality(S) + 1
<1>1. IsFiniteSet(S \cup {x})
  BY FS_AddElement
<1>2. Cardinality(S \cup {x}) = IF x \in S THEN Cardinality(S) ELSE Cardinality(S) + 1
  BY FS_AddElement
<1>3. Cardinality(S) \in Nat /\ Cardinality(S \cup {x}) \in Nat
  BY <1>1, FS_CardinalityType
<1> QED BY <1>1, <1>2, <1>3

\* A finite set without one of its members has one member less.
LEMMA CardRemove ==
  ASSUME NEW S, IsFiniteSet(S), NEW x \in S
  PROVE  /\ IsFiniteSet(S \ {x})
         /\ Cardinality(S \ {x}) \in Nat
         /\ Cardinality(S \ {x}) = Cardinality(S) - 1
<1>1. IsFiniteSet(S \ {x})
  BY FS_RemoveElement
<1>2. Cardinality(S \ {x}) = IF x \in S THEN Cardinality(S) - 1 ELSE Cardinality(S)
  BY FS_RemoveElement
<1>3. Cardinality(S \ {x}) \in Nat
  BY <1>1, FS_CardinalityType
<1> QED BY <1>1, <1>2, <1>3

\* The active lists are finite and their maxima are numbers.
LEMMA ActiveFinite ==
  ASSUME TypeOK, NEW L \in Lists
  PROVE  /\ IsFiniteSet(active[L])
         /\ Cardinality(active[L]) \in Nat
         /\ MaxActive[L] \in Nat
<1>1. active[L] \in SUBSET Peers
  BY DEF TypeOK
<1> QED BY <1>1, FS_Subset, FS_CardinalityType DEF ConstantsAssumption

\* A list that lost partners still fits.
LEMMA SmallerFits ==
  ASSUME TypeOK, Capacity, NEW L \in Lists, NEW S \in SUBSET active[L]
  PROVE  Cardinality(S) <= MaxActive[L]
<1>1. Cardinality(S) <= Cardinality(active[L]) /\ Cardinality(S) \in Nat
  BY ActiveFinite, FS_Subset, FS_CardinalityType
<1> QED BY <1>1, ActiveFinite DEF Capacity

\* The handler's list is the only one ConnectPeer changes.
LEMMA EnterFits ==
  ASSUME TypeOK, Capacity, NEW S, Admit, Enter(S),
         Cardinality(S) <= MaxActive[recv.list]
  PROVE  Capacity'
BY DEF Enter, Admit, Capacity, TypeOK

\* Only the insertion makes a list longer, and only into room it has found.
LEMMA CapacityStep == TypeOK /\ Capacity /\ [Next]_vars => Capacity'
<1> SUFFICES ASSUME TypeOK, Capacity, [Next]_vars PROVE Capacity'
  OBVIOUS
<1>1. CASE UNCHANGED active
  BY <1>1 DEF Capacity
<1>2. CASE Insert
  <2>1. recv.list \in Lists /\ recv.peer \in Peers
    BY <1>2 DEF Insert, Admit, TypeOK
  <2>2. /\ Cardinality(active[recv.list] \cup {recv.peer}) \in Nat
        /\ Cardinality(active[recv.list] \cup {recv.peer})
             <= Cardinality(active[recv.list]) + 1
    BY <2>1, ActiveFinite, CardAdd
  <2>4. Cardinality(active[recv.list] \cup {recv.peer}) <= MaxActive[recv.list]
    BY <1>2, <2>1, <2>2, ActiveFinite DEF Insert, Room
  <2> QED BY <1>2, <2>4, EnterFits DEF Insert
<1>3. CASE ConnectSpecial /\ active' # active
  <2>1. recv.list \in Lists /\ recv.peer \in Peers
    BY <1>3 DEF ConnectSpecial, Admit, TypeOK
  <2>2. PICK w \in active[recv.list] :
          Enter((active[recv.list] \ {w}) \cup {recv.peer})
    BY <1>3 DEF ConnectSpecial, Worst, Crash, pmVars
  <2> DEFINE S == active[recv.list] \ {w}
  <2>3. /\ IsFiniteSet(S) /\ Cardinality(S) \in Nat
        /\ Cardinality(S) = Cardinality(active[recv.list]) - 1
    BY <2>1, ActiveFinite, CardRemove
  <2>4. /\ Cardinality(S \cup {recv.peer}) <= Cardinality(S) + 1
        /\ Cardinality(S \cup {recv.peer}) \in Nat
    BY <2>3, CardAdd
  <2> HIDE DEF S
  <2>6. Cardinality(S \cup {recv.peer}) <= MaxActive[recv.list]
    BY <2>1, <2>3, <2>4, ActiveFinite DEF Capacity
  <2> QED BY <1>3, <2>2, <2>6, EnterFits DEF ConnectSpecial, S
<1>4. ASSUME NEW p \in Peers, Disconnect(p) PROVE Capacity'
  <2>1. \A L \in Lists : active'[L] \in SUBSET active[L]
    BY <1>4 DEF Disconnect, TypeOK
  <2> QED BY <2>1, SmallerFits DEF Capacity
<1>5. CASE Connect /\ active' # active
  <2> DEFINE C == Known \ active["In"]
             v == Vacancies
             n == IF v < Cardinality(C) THEN v ELSE Cardinality(C)
  <2>1. PICK S \in kSubset(n, C) :
          active' = [active EXCEPT !["In"] = @ \cup {p \in S : cooldown["In"][p] = 0}]
    BY <1>5 DEF Connect, Crash, pmVars
  <2> DEFINE Fit == {p \in S : cooldown["In"][p] = 0}
  <2>2. IsFiniteSet(C) /\ Cardinality(C) \in Nat
    BY EntryType, FS_Subset, FS_CardinalityType DEF ConstantsAssumption
  <2>3. "In" \in Lists /\ v \in Nat
    BY ActiveFinite DEF Lists, Capacity, Vacancies
  <2>4. S \in SUBSET C /\ Cardinality(S) = n /\ n <= v
    BY <2>1, <2>2, <2>3 DEF kSubset
  <2>5. IsFiniteSet(S) /\ Cardinality(S) \in Nat
    BY <2>2, <2>4, FS_Subset, FS_CardinalityType
  <2>6. IsFiniteSet(Fit) /\ Cardinality(Fit) \in Nat /\ Cardinality(Fit) <= v
    BY <2>3, <2>4, <2>5, FS_Subset, FS_CardinalityType
  <2>7. /\ Cardinality(active["In"] \cap Fit) \in Nat
        /\ Cardinality(active["In"] \cup Fit)
             = Cardinality(active["In"]) + Cardinality(Fit)
                 - Cardinality(active["In"] \cap Fit)
    BY <2>3, <2>6, ActiveFinite, FS_Union, FS_Intersection, FS_CardinalityType
  <2>8. Cardinality(active["In"] \cup Fit) <= MaxActive["In"]
    BY <2>3, <2>6, <2>7, ActiveFinite DEF Vacancies
  <2> QED BY <2>1, <2>3, <2>8 DEF Capacity, TypeOK
<1>6. ASSUME NEW L \in {"In", "Out"}, Flexibilize(L) PROVE Capacity'
  <2>1. PICK G : active' = active \/ active' = [active EXCEPT ![L] = @ \ G]
    BY <1>6 DEF Flexibilize, Drop, Crash, pmVars
  <2>2. \A M \in Lists : active'[M] \subseteq active[M]
    BY <2>1 DEF TypeOK, Lists
  <2> QED BY <2>2, SmallerFits DEF Capacity
<1>7. [Next]_vars => \/ UNCHANGED active
                     \/ Insert
                     \/ ConnectSpecial
                     \/ \E p \in Peers : Disconnect(p)
                     \/ Connect
                     \/ \E L \in {"In", "Out"} : Flexibilize(L)
  BY DEF Next, vars, pmVars, Arrival, Handle, FinishSweep, Relations,
         PingArrives, DataArrives, CheckActive, CheckCooldown, LockActive,
         ConnectPeer, Refuse, NoRoom, Refresh, StoreChunkMap, StoreDelay, Sweep,
         StartCooldown, RemovePeer, TickCooldown, RearmRemoveWorse,
         HandlePeerlistMessage, HandleServerAuxListMessage, Ping, Depart, Crash
<1> QED BY <1>1, <1>2, <1>3, <1>4, <1>5, <1>6, <1>7
-----------------------------------------------------------------------------
(***************************************************************************)
(* What ConnectPeer saw.                                                   *)
(***************************************************************************)

\* The room, or the permission to evict, that was found under the lock lasts: nobody else
\* inserts before.
LEMMA RoomStep == TypeOK /\ RoomKept /\ [Next]_vars => RoomKept'
<1> SUFFICES ASSUME TypeOK, RoomKept, [Next]_vars, recv'.pc = "locked"
             PROVE  Room' \/ removeWorse'
  BY DEF RoomKept
<1>1. CASE LockActive
  BY <1>1 DEF LockActive, Room, RecvIdle, TypeOK, pmVars
\* The handler waits inside ConnectPeer, and its list keeps still.
<1>2. ASSUME recv' = recv, active'[recv.list] = active[recv.list],
             removeWorse => removeWorse'
      PROVE  Room' \/ removeWorse'
  BY <1>2 DEF RoomKept, Room
<1>3. ASSUME NEW p \in Peers, Disconnect(p) PROVE Room' \/ removeWorse'
  <2>1. recv' = recv /\ removeWorse' = removeWorse
    BY <1>3 DEF Disconnect
  <2>2. Current # recv.list
    BY <1>3, <2>1 DEF Disconnect, ActiveFree
  <2>3. active'[recv.list] = active[recv.list]
    BY <1>3, <2>2 DEF Disconnect, TypeOK
  <2> QED BY <1>2, <2>1, <2>3
<1>4. CASE UNCHANGED <<recv, active, removeWorse>>
  BY <1>2, <1>4
<1>5. CASE RearmRemoveWorse
  BY <1>2, <1>5 DEF RearmRemoveWorse
<1>6. \/ LockActive
      \/ \E p \in Peers : Disconnect(p)
      \/ UNCHANGED <<recv, active, removeWorse>>
      \/ RearmRemoveWorse
  <2>1. RecvIdle.pc = "idle"
    BY DEF RecvIdle
  <2>2. CASE \E L \in {"In", "Out"} : Flexibilize(L)
    BY <2>2, <2>1 DEF Flexibilize, PeerListFree, Crash, pmVars
  <2>3. CASE Connect
    BY <2>3, <2>1 DEF Connect, PeerListFree, Crash, pmVars
  <2>4. CASE ConnectPeer
    <3>1. CASE Refuse
      BY <3>1, <2>1 DEF Refuse
    <3>2. CASE NoRoom
      BY <3>2, <2>1 DEF NoRoom
    <3>3. CASE Insert
      BY <3>3 DEF Insert, Enter, TypeOK
    <3>4. CASE ConnectSpecial
      <4>1. \/ UNCHANGED <<recv, active, removeWorse>>
            \/ recv' = RecvIdle
            \/ recv' = [recv EXCEPT !.pc = "connected"]
        BY <3>4, Zenon DEF ConnectSpecial, Enter, Crash, pmVars
      <4> QED BY <4>1, <2>1 DEF TypeOK
    <3> QED BY <2>4, <3>1, <3>2, <3>3, <3>4 DEF ConnectPeer
  <2>5. CASE Arrival
    <3>1. ASSUME NEW p \in Peers, DataArrives(p) PROVE FALSE
      BY <3>1 DEF DataArrives
    <3>2. ASSUME NEW p, NEW kind, NEW out, PingArrives(p, kind, out)
          PROVE  UNCHANGED <<recv, active, removeWorse>>
      BY <3>2 DEF PingArrives, Crash, pmVars
    <3> QED BY <2>5, <3>1, <3>2 DEF Arrival
  <2>6. CASE CheckActive \/ CheckCooldown \/ Refresh \/ StoreChunkMap \/ StoreDelay
    BY <2>6, <2>1 DEF CheckActive, CheckCooldown, Refresh, StoreChunkMap,
                      StoreDelay, TypeOK
  <2> QED
    BY <2>2, <2>3, <2>4, <2>5, <2>6
       DEF Next, vars, pmVars, Handle, FinishSweep, Relations, Sweep,
           StartCooldown, RemovePeer, TickCooldown, HandlePeerlistMessage,
           HandleServerAuxListMessage, Ping, Depart, Crash
<1> QED BY <1>1, <1>3, <1>4, <1>5, <1>6
-----------------------------------------------------------------------------
(***************************************************************************)
(* TTLs.                                                                   *)
(***************************************************************************)

\* A step that leaves the In list and the sweep's decisions alone, and takes
\* no TTL from a live entry.
LEMMA LiveKept ==
  ASSUME TypeOK, InPartnersAlive,
         active'["In"] \subseteq active["In"], timers'.due["In"] = timers.due["In"],
         \A p \in Peers : \/ peerList'[p] = peerList[p]
                          \/ peerList'[p] = Unknown
                          \/ peerList'[p].ttlIn > 0
                          \/ peerList'[p].ttlIn = Entry(p).ttlIn
  PROVE  InPartnersAlive'
<1> SUFFICES ASSUME NEW p \in Peers, p \in active'["In"], peerList'[p] # Unknown,
                    p \notin timers.due["In"]
             PROVE  peerList'[p].ttlIn > 0
  BY DEF InPartnersAlive, Known
<1>1. p \in Known => peerList[p].ttlIn > 0
  BY DEF InPartnersAlive
<1>2. Entry(p).ttlIn > 0
  BY <1>1, EntryLive DEF Live
<1> QED BY <1>1, <1>2 DEF Known

\* Peers that were heard of keep their TTL.
LEMMA TouchedLive ==
  ASSUME TypeOK, NEW S \in SUBSET Peers, NEW p \in Peers
  PROVE  \/ Touched(S)[p] = peerList[p]
         \/ Touched(S)[p].ttlIn = Entry(p).ttlIn
BY EntryType DEF Touched

\* A peer that is added is alive.
LEMMA AddedLive ==
  ASSUME TypeOK, NEW S \in SUBSET Peers, NEW out \in Int, NEW p \in Peers
  PROVE  \/ Added(S, out)[p] = peerList[p]
         \/ Added(S, out)[p].ttlIn > 0
         \/ Added(S, out)[p].ttlIn = Entry(p).ttlIn
<1>1. NewData(out).ttlIn > 0
  BY DEF NewData, NullData
<1>2. ASSUME p \in Known
      PROVE  [peerList[p] EXCEPT !.out = out].ttlIn = Entry(p).ttlIn
  BY <1>2, EntryType DEF PeerData
<1> QED BY <1>1, <1>2 DEF Added, Known

\* Only the sweep lowers a TTL, and it disconnects whoever it leaves without.
LEMMA AliveStep == TypeOK /\ InPartnersAlive /\ [Next]_vars => InPartnersAlive'
<1> SUFFICES ASSUME TypeOK, InPartnersAlive, [Next]_vars PROVE InPartnersAlive'
  OBVIOUS
<1> USE DEF Lists
<1>1. CASE UNCHANGED <<peerList, active, timers>>
  BY <1>1 DEF InPartnersAlive, Known
<1>2. ASSUME NEW p \in Peers, NEW kind, NEW out \in Sizes[p],
             PingArrives(p, kind, out)
      PROVE  InPartnersAlive'
  <2>1. CASE Crash
    BY <1>1, <2>1 DEF Crash, pmVars
  <2>2. CASE ~Crash
    <3>1. out \in Int
      BY DEF ConstantsAssumption
    <3>2. peerList' = Added({p}, out) /\ UNCHANGED <<active, timers>>
      BY <1>2, <2>2 DEF PingArrives
    <3> QED BY <3>1, <3>2, AddedLive, LiveKept
  <2> QED BY <2>1, <2>2
<1>3. CASE Refuse
  <2>1. {recv.peer} \ rejected \in SUBSET Peers
    BY <1>3 DEF Refuse, Admit, TypeOK
  <2> QED BY <1>3, <2>1, TouchedLive, LiveKept DEF Refuse
<1>4. ASSUME NEW S, Admit, Enter(S), S \subseteq active[recv.list] \cup {recv.peer},
             UNCHANGED timers
      PROVE  InPartnersAlive'
  <2> DEFINE p == recv.peer
             e == Joined(p, recv.list, S)
  <2>1. p \in Peers /\ recv.list \in Lists
    BY <1>4 DEF Admit, TypeOK
  <2>2. peerList' = [peerList EXCEPT ![p] = e]
    BY <1>4 DEF Enter
  <2>3. e.ttlIn = TTLInit \/ e.ttlIn = Entry(p).ttlIn
    BY <2>1, JoinedType
  <2>4. CASE recv.list = "In"
    <3>1. e.ttlIn > 0
      BY <2>1, <2>4, JoinedType DEF ConstantsAssumption
    <3>2. peerList'[p] = e /\ \A q \in Peers \ {p} : peerList'[q] = peerList[q]
      BY <2>1, <2>2 DEF TypeOK
    <3>3. active'["In"] \subseteq active["In"] \cup {p}
      BY <1>4, <2>4 DEF Enter, TypeOK
    <3> HIDE DEF e, p
    <3> QED BY <1>4, <3>1, <3>2, <3>3 DEF InPartnersAlive, Known
  <2>5. CASE recv.list # "In"
    <3>1. active'["In"] = active["In"]
      BY <1>4, <2>5 DEF Enter, TypeOK
    <3>2. \A q \in Peers : \/ peerList'[q] = peerList[q]
                           \/ peerList'[q].ttlIn > 0
                           \/ peerList'[q].ttlIn = Entry(q).ttlIn
      BY <2>1, <2>2, <2>3 DEF TypeOK, ConstantsAssumption
    <3> QED BY <1>4, <3>1, <3>2, LiveKept
  <2> QED BY <2>4, <2>5
<1>5. CASE Insert
  BY <1>4, <1>5 DEF Insert
<1>6. CASE ConnectSpecial
  <2>1. \/ UNCHANGED <<peerList, active, timers>>
        \/ \E w : Enter((active[recv.list] \ {w}) \cup {recv.peer}) /\ UNCHANGED timers
    BY <1>6 DEF ConnectSpecial, Crash, pmVars
  <2> QED BY <1>1, <1>4, <1>6, <2>1 DEF ConnectSpecial
<1>7. CASE Refresh
  <2>1. recv.peer \in Peers /\ Entry(recv.peer) \in PeerData
    BY <1>7, EntryType DEF Refresh, TypeOK
  <2>2. /\ [Entry(recv.peer) EXCEPT !.ttlIn = TTLPing].ttlIn = TTLPing
        /\ [Entry(recv.peer) EXCEPT !.ttlOut = TTLPing].ttlIn = Entry(recv.peer).ttlIn
    BY <2>1 DEF PeerData
  <2>3. \A q \in Peers : \/ peerList'[q] = peerList[q]
                         \/ peerList'[q].ttlIn > 0
                         \/ peerList'[q].ttlIn = Entry(q).ttlIn
    BY <1>7, <2>1, <2>2 DEF Refresh, TypeOK, ConstantsAssumption
  <2> QED BY <1>7, <2>3, LiveKept DEF Refresh
<1>8. ASSUME NEW S \in SUBSET Peers, peerList' = Touched(S),
             UNCHANGED <<active, timers>>
      PROVE  InPartnersAlive'
  BY <1>8, TouchedLive, LiveKept
<1>9. CASE StoreChunkMap
  <2>1. {recv.peer} \cap active["In"] \in SUBSET Peers
    BY DEF TypeOK
  <2> QED BY <1>8, <1>9, <2>1 DEF StoreChunkMap
<1>10. CASE StoreDelay
  <2>1. {recv.peer} \in SUBSET Peers
    BY <1>10 DEF StoreDelay, TypeOK
  <2> QED BY <1>8, <1>10, <2>1 DEF StoreDelay
<1>11. ASSUME NEW p \in Peers, DataArrives(p) PROVE InPartnersAlive'
  <2>1. {p} \in SUBSET Peers
    OBVIOUS
  <2> QED BY <1>8, <1>11, <2>1 DEF DataArrives
<1>12. CASE Sweep
  <2>1. active' = active /\ timers'.due["In"] = Expired("In")
    BY <1>12 DEF Sweep, TimersIdle
  <2>2. \A p \in active["In"] : peerList'[p] = Aged(p) /\ p \in Peers
    BY <1>12 DEF Sweep, AllActive, TypeOK
  <2>3. \A p \in active["In"] : Aged(p).ttlIn > 0 \/ p \in Expired("In")
    BY <2>2, AgedType DEF Expired, PeerData
  <2> QED BY <2>1, <2>2, <2>3 DEF InPartnersAlive, Known
<1>13. ASSUME NEW p \in Peers, Disconnect(p) PROVE InPartnersAlive'
  <2>1. /\ peerList' = peerList
        /\ active' = [active EXCEPT ![Current] = @ \ {p}]
        /\ timers'.due = [timers.due EXCEPT ![Current] = @ \ {p}]
    <3> DEFINE d == [timers.due EXCEPT ![Current] = @ \ {p}]
    <3>1. timers' = [timers EXCEPT !.pc = "cooling", !.peer = p,
                                   !.list = Current, !.due = d]
      BY <1>13 DEF Disconnect
    <3>2. timers'.due = d
      <4> HIDE DEF d
      <4> QED BY <3>1 DEF TypeOK
    <3> QED BY <1>13, <3>2 DEF Disconnect
  <2>2. Current \in Lists
    BY DEF Current
  <2>3. CASE Current = "In"
    BY <2>1, <2>3 DEF InPartnersAlive, Known, TypeOK
  <2>4. CASE Current # "In"
    BY <2>1, <2>2, <2>4 DEF InPartnersAlive, Known, TypeOK
  <2> QED BY <2>3, <2>4
<1>14. CASE StartCooldown
  <2>1. timers'.due = timers.due /\ UNCHANGED <<peerList, active>>
    BY <1>14 DEF StartCooldown, TypeOK
  <2> QED BY <2>1 DEF InPartnersAlive, Known
<1>15. ASSUME NEW p \in Peers, RemovePeer(p) PROVE InPartnersAlive'
  <2>1. /\ timers'.due = timers.due /\ active' = active
        /\ \A q \in Peers : peerList'[q] = peerList[q] \/ peerList'[q] = Unknown
    BY <1>15 DEF RemovePeer, TypeOK
  <2> QED BY <2>1, LiveKept
<1>16. CASE TickCooldown
  <2>1. timers'.due = timers.due /\ UNCHANGED <<peerList, active>>
    BY <1>16, ThreadTypes DEF TickCooldown
  <2> QED BY <2>1 DEF InPartnersAlive, Known
<1>17. ASSUME NEW S \in BootLists, HandlePeerlistMessage(S) PROVE InPartnersAlive'
  <2>1. CASE Crash
    BY <1>1, <2>1 DEF Crash, pmVars
  <2>2. CASE ~Crash
    <3>1. peerList' = Added(S, -1) /\ active' = active
          /\ timers' = [TimersIdle EXCEPT !.pc = "connectIn"]
      BY <1>17, <2>2 DEF HandlePeerlistMessage
    <3>2. timers'.due = timers.due
      BY <1>17, <3>1, ThreadTypes DEF HandlePeerlistMessage, TypeOK
    <3>3. S \in SUBSET Peers
      BY DEF ConstantsAssumption
    <3> QED BY <3>1, <3>2, <3>3, AddedLive, LiveKept
  <2> QED BY <2>1, <2>2
<1>18. ASSUME NEW S \in AuxLists, HandleServerAuxListMessage(S)
       PROVE  InPartnersAlive'
  <2>1. \A p \in Known : [peerList[p] EXCEPT !.special = TRUE].ttlIn = Entry(p).ttlIn
    BY EntryType DEF PeerData
  <2>2. \A q \in Peers : \/ peerList'[q] = peerList[q]
                         \/ peerList'[q].ttlIn = Entry(q).ttlIn
    BY <1>18, <2>1 DEF HandleServerAuxListMessage
  <2> QED BY <1>18, <2>2, LiveKept DEF HandleServerAuxListMessage
<1>19. CASE Connect
  <2>1. CASE Crash
    BY <1>1, <2>1 DEF Crash, pmVars
  <2>2. CASE ~Crash
    <3>1. PICK Fit \in SUBSET Known :
            /\ active' = [active EXCEPT !["In"] = @ \cup Fit]
            /\ peerList' = [p \in Peers |->
                              IF p \in Fit
                              THEN [peerList[p] EXCEPT !.ttlIn = TTLInit]
                              ELSE peerList[p]]
            /\ timers' = TimersIdle
      BY <1>19, <2>2 DEF Connect, kSubset
    <3>2. \A p \in Fit : [peerList[p] EXCEPT !.ttlIn = TTLInit].ttlIn > 0
      BY EntryType DEF PeerData, ConstantsAssumption
    <3>3. timers'.due = timers.due
      BY <1>19, <3>1, ThreadTypes DEF Connect, TypeOK
    <3>4. active'["In"] = active["In"] \cup Fit
      BY <3>1 DEF TypeOK
    <3> QED BY <3>1, <3>2, <3>3, <3>4 DEF InPartnersAlive, Known
  <2> QED BY <2>1, <2>2
<1>20. ASSUME NEW L \in {"In", "Out"}, Flexibilize(L) PROVE InPartnersAlive'
  <2>1. CASE Crash
    BY <1>1, <2>1 DEF Crash, pmVars
  <2>2. CASE ~Crash
    <3>1. /\ active'["In"] \subseteq active["In"]
          /\ peerList' = Touched(active[L]) /\ timers' = timers
      BY <1>20, <2>2 DEF Flexibilize, Drop, TypeOK
    <3>2. active[L] \in SUBSET Peers
      BY DEF TypeOK
    <3> QED BY <3>1, <3>2, TouchedLive, LiveKept
  <2> QED BY <2>1, <2>2
<1>21. ASSUME NEW L \in Lists, NEW log \in BOOLEAN, Ping(L, log)
       PROVE  InPartnersAlive'
  <2>1. active[L] \in SUBSET Peers
    BY DEF TypeOK
  <2> QED BY <1>1, <1>8, <1>21, <2>1 DEF Ping, Crash, pmVars
<1>22. [Next]_vars => \/ UNCHANGED <<peerList, active, timers>>
                      \/ Arrival \/ Refuse \/ Insert \/ ConnectSpecial \/ Refresh
                      \/ StoreChunkMap \/ StoreDelay \/ Sweep \/ FinishSweep
                      \/ \E S \in BootLists : HandlePeerlistMessage(S)
                      \/ \E S \in AuxLists : HandleServerAuxListMessage(S)
                      \/ Connect
                      \/ \E L \in {"In", "Out"} : Flexibilize(L)
                      \/ \E L \in Lists, log \in BOOLEAN : Ping(L, log)
  BY DEF Next, vars, pmVars, Handle, ConnectPeer, CheckActive, CheckCooldown,
         LockActive, NoRoom, Relations, RearmRemoveWorse, Depart
<1> QED
  BY <1>1, <1>2, <1>3, <1>5, <1>6, <1>7, <1>9, <1>10, <1>11, <1>12, <1>13,
     <1>14, <1>15, <1>16, <1>17, <1>18, <1>19, <1>20, <1>21, <1>22
     DEF Arrival, FinishSweep
-----------------------------------------------------------------------------
(***************************************************************************)
(* Evictions.                                                              *)
(***************************************************************************)

Swap == \E L \in Lists :
          \E w \in active[L] \ active'[L], p \in active'[L] \ active[L] :
            ~(/\ removeWorse /\ ~removeWorse'
              /\ peerList[w].out < peerList[p].out)

\* A partner goes and another comes in one step only by eviction.
LEMMA EvictStep == TypeOK /\ RoomKept /\ [Next]_vars => ~Swap
<1> SUFFICES ASSUME TypeOK, RoomKept, [Next]_vars,
                    NEW L \in Lists, NEW w \in active[L] \ active'[L],
                    NEW p \in active'[L] \ active[L]
             PROVE  /\ removeWorse /\ ~removeWorse'
                    /\ peerList[w].out < peerList[p].out
  BY DEF Swap
\* Only ConnectSpecial both takes and adds a partner of one list.
<1>1. ConnectSpecial
  <2>1. CASE UNCHANGED active
    BY <2>1
  <2>2. CASE Insert
    BY <2>2 DEF Insert, Enter, TypeOK
  <2>3. ASSUME NEW q \in Peers, Disconnect(q) PROVE FALSE
    BY <2>3 DEF Disconnect, TypeOK
  <2>4. CASE Connect
    <3>1. PICK F : active' = active \/ active' = [active EXCEPT !["In"] = @ \cup F]
      BY <2>4 DEF Connect, Crash, pmVars
    <3> QED BY <3>1 DEF TypeOK, Lists
  <2>5. ASSUME NEW M \in {"In", "Out"}, Flexibilize(M) PROVE FALSE
    BY <2>5 DEF Flexibilize, Drop, Crash, pmVars, TypeOK, Lists
  <2> QED
    BY <2>1, <2>2, <2>3, <2>4, <2>5
       DEF Next, vars, pmVars, Arrival, Handle, FinishSweep, Relations,
           PingArrives, DataArrives, CheckActive, CheckCooldown, LockActive,
           ConnectPeer, Refuse, NoRoom, Refresh, StoreChunkMap, StoreDelay,
           Sweep, StartCooldown, RemovePeer, TickCooldown, RearmRemoveWorse,
           HandlePeerlistMessage, HandleServerAuxListMessage, Ping, Depart, Crash
<1>2. PICK v \in Worst(recv.list) :
        /\ Entry(v).out < Entry(recv.peer).out
        /\ Enter((active[recv.list] \ {v}) \cup {recv.peer})
        /\ removeWorse' = FALSE
        /\ ~NullDeref(active[recv.list] \cup {recv.peer})
  BY <1>1 DEF ConnectSpecial, Poorer, Crash, pmVars
<1>3. L = recv.list /\ p = recv.peer /\ w = v /\ {v, recv.peer} \subseteq Peers
      /\ v \in active[recv.list]
  BY <1>1, <1>2 DEF Enter, Worst, ConnectSpecial, Admit, TypeOK
<1>4. Entry(v).peer /\ Entry(recv.peer).peer
  BY <1>2, <1>3 DEF NullDeref
<1>5. ~NullData.peer
  BY DEF NullData
<1>6. Entry(v) = peerList[v] /\ Entry(recv.peer) = peerList[recv.peer]
  BY <1>4, <1>5 DEF Entry
<1>7. removeWorse
  BY <1>1 DEF ConnectSpecial, Admit, RoomKept
<1> QED BY <1>2, <1>3, <1>6, <1>7
-----------------------------------------------------------------------------
(***************************************************************************)
(* The theorems.                                                           *)
(***************************************************************************)

\* The invariant holds at the start ...
LEMMA InitIInv == Init => IInv
<1> SUFFICES ASSUME Init PROVE IInv
  OBVIOUS
<1>1. Capacity
  BY FS_EmptySet DEF Init, Capacity, ConstantsAssumption
<1>2. RoomKept /\ InPartnersAlive
  BY DEF Init, RoomKept, RecvIdle, InPartnersAlive, Lists
<1> QED BY <1>1, <1>2, InitType DEF IInv

\* ... and in every step.
LEMMA StepIInv == IInv /\ [Next]_vars => IInv'
BY TypeStep, CapacityStep, RoomStep, AliveStep DEF IInv

\* The inductive invariant: the types, the capacity, the room found under the lock and the
\* lives of the In partners.
THEOREM Invariance == Spec => []IInv
BY InitIInv, StepIInv, PTL DEF Spec

\* Type correctness of the partner lists and of both threads' local state.
THEOREM TypeCorrect == Spec => []TypeOK
BY Invariance, PTL DEF IInv

\* No partner list ever exceeds its maximum (maxActivePeersIn/Out/OutFREE of
\* PeerManager), whatever the two threads interleave.
THEOREM CapacityHolds == Spec => []Capacity
BY Invariance, PTL DEF IInv

\* The room ConnectPeer found when it locked the list is there when it
\* inserts.
THEOREM RoomHolds == Spec => []RoomKept
BY Invariance, PTL DEF IInv

\* Between two sweeps of CheckPeerList every In partner has TTL left.
THEOREM AliveHolds == Spec => []InPartnersAlive
BY Invariance, PTL DEF IInv

\* ConnectSpecial is the only way to lose and gain a partner in one step, and
\* it trades a poorer one for a richer one, once.
THEOREM EvictionHolds == Spec => EvictsOnlyPoorer
<1>1. IInv /\ [Next]_vars =>
        [\A L \in Lists :
           \A w \in active[L] \ active'[L], p \in active'[L] \ active[L] :
             /\ removeWorse /\ ~removeWorse'
             /\ peerList[w].out < peerList[p].out]_vars
  BY EvictStep DEF Swap, IInv
<1> QED BY <1>1, Invariance, PTL DEF Spec, EvictsOnlyPoorer
=============================================================================
