--------------------------- MODULE Channel_proofs ---------------------------
(***************************************************************************)
(* What the methods of Channel preserve and what they may change, for any   *)
(* set of peers and any sizes.  Good is the part of the bootstrap's         *)
(* inductive invariant that speaks of one channel; Bootstrap_proofs carries *)
(* it through the polls, the pings and the sweeps.                          *)
(***************************************************************************)
EXTENDS Channel, Extrema_proofs

\* Whoever is in a parallel channel has a server there.
Served(c) ==
    \A p \in DOMAIN c.peerList :
        SubOf(c, p) \in Parallel => \E s \in Servers(c) : c.subList[s] = SubOf(c, p)

\* Servers are candidates, and candidates peers the channel knows, none of them
\* in a parallel channel: a server serves one and is in another network.
KnownServers(c) ==
    /\ Servers(c) \subseteq Candidates(c)
    /\ \A p \in Candidates(c) : HasPeer(c, p) /\ SubOf(c, p) \notin Parallel

\* No parallel channel in the normal mode, and none for the entries made up.
NoneInNormal(c) == c.mode = "NORMAL" => Servers(c) = {}
StrangersOutside(c) ==
    \A p \in DOMAIN c.peerList : ~c.peerList[p].known => SubOf(c, p) \notin Parallel

Good(c) ==
    /\ ChannelType(c)
    /\ Served(c) /\ KnownServers(c) /\ NoneInNormal(c) /\ StrangersOutside(c)

\* Two peers that may know each other.
Together(c, p, q) ==
    \/ SubOf(c, p) = SubOf(c, q)
    \/ q \in ServersOf(c, p)
    \/ SubOf(c, p) \notin Parallel /\ SubOf(c, q) \notin Parallel

\* Why p may leave its parallel channel between c and d.
LeavesJustly(c, d, p) ==
    SubOf(c, p) \in Parallel /\ SubOf(d, p) # SubOf(c, p) =>
        \/ /\ SubOf(d, p) = Main
           /\ d.mode = "NORMAL" \/ ServersOf(c, p) \cap Servers(d) = {}
        \/ /\ SubOf(d, p) = Merging
           /\ \E t \in ServersOf(c, p) :
                t \in Servers(d) /\ d.candidates[t].state = "MESCLAR"

USE ChannelAssumption DEF ChannelAssumption
-----------------------------------------------------------------------------
(***************************************************************************)
(* Numbers of channels, types of fields.                                    *)
(***************************************************************************)

\* No value of channelId_Sub but the numbers of parallel channels is one of
\* them, and those are above the number of the main channel.
LEMMA SubNumbers ==
  /\ Unset \notin Parallel /\ Main \notin Parallel
  /\ Merging \notin Parallel /\ Stray \notin Parallel
  /\ \A s \in Parallel : s \in Int /\ s > Main
  /\ \A s \in Subs : s \in Int
  /\ {Unset, Main, Merging, Stray} \subseteq Subs /\ Parallel \subseteq Subs
  /\ \A s \in Subs : s < 0 \/ s = Main => s \notin Parallel
BY DEF Unset, Main, Merging, Stray, Parallel, Subs

\* The peers of a good channel are numbers, finitely many.
LEMMA Members ==
  ASSUME NEW c, Good(c)
  PROVE  /\ DOMAIN c.peerList \in SUBSET Peers /\ IsFiniteSet(DOMAIN c.peerList)
         /\ Candidates(c) \subseteq DOMAIN c.peerList /\ IsFiniteSet(Candidates(c))
         /\ Servers(c) \subseteq Candidates(c) /\ IsFiniteSet(Servers(c))
         /\ Servers(c) \in SUBSET Nat
         /\ \A p \in DOMAIN c.peerList : SubOf(c, p) \in Subs
<1>1. DOMAIN c.peerList \in SUBSET Peers /\ Servers(c) \subseteq Candidates(c)
      /\ Candidates(c) \subseteq DOMAIN c.peerList
  BY DEF Good, ChannelType, KnownServers, HasPeer
<1>2. \A T \in SUBSET Peers : IsFiniteSet(T)
  BY FS_Subset
<1>3. \A p \in DOMAIN c.peerList : SubOf(c, p) \in Subs
  BY DEF Good, ChannelType, PeerEntries, SubOf
<1> QED BY <1>1, <1>2, <1>3

\* In a parallel channel p's servers are those the list gives for its number.
LEMMA ServersOfParallel ==
  ASSUME NEW c, NEW p, SubOf(c, p) \in Parallel
  PROVE  ServersOf(c, p) = {s \in Servers(c) : c.subList[s] = SubOf(c, p)}
BY SubNumbers DEF ServersOf
-----------------------------------------------------------------------------
(***************************************************************************)
(* Adding a peer.                                                           *)
(***************************************************************************)

\* A channel is the record of its fields, and its maps are functions.
Record(c) ==
    c = [mode |-> c.mode, peerList |-> c.peerList, subList |-> c.subList,
         candidates |-> c.candidates, pos |-> c.pos, hung |-> c.hung]

Function(f) == f = [x \in DOMAIN f |-> f[x]]

\* What Put makes of a channel.
IsPut(c, d, p, e) ==
    /\ d.mode = c.mode /\ d.subList = c.subList /\ d.pos = c.pos
    /\ d.candidates = c.candidates /\ d.hung = c.hung
    /\ DOMAIN d.peerList = DOMAIN c.peerList \cup {p}
    /\ d.peerList[p] = e
    /\ \A q \in DOMAIN c.peerList \ {p} : d.peerList[q] = c.peerList[q]
    /\ Record(d) /\ Function(d.peerList)

\* Put changes the entry of one peer.
LEMMA PutFields ==
  ASSUME NEW c, ChannelType(c), NEW p, NEW e
  PROVE  IsPut(c, Put(c, p, e), p, e)
BY DEF Put, ChannelType, IsPut, Record, Function

\* A new entry goes to no parallel channel or to one that has a server.
LEMMA PutGood ==
  ASSUME NEW c, Good(c), NEW p \in Peers, ~HasPeer(c, p),
         NEW e \in PeerEntries,
         e.sub \in Parallel => e.known /\ \E s \in Servers(c) : c.subList[s] = e.sub
  PROVE  Good(Put(c, p, e))
<1> DEFINE d == Put(c, p, e)
<1>0. ChannelType(c)
  BY DEF Good
<1>1. IsPut(c, d, p, e)
  BY <1>0, PutFields
<1> HIDE DEF d
<1>2. ChannelType(d)
  <2>1. \A q \in DOMAIN d.peerList : d.peerList[q] \in PeerEntries
    BY <1>0, <1>1 DEF ChannelType, IsPut
  <2>2. d.peerList \in [DOMAIN d.peerList -> PeerEntries]
    BY <1>1, <2>1 DEF IsPut, Function
  <2> QED BY <1>0, <1>1, <2>2 DEF ChannelType, IsPut, Record
<1>3. Served(d)
  BY <1>1 DEF IsPut, Good, Served, SubOf, Servers
<1>4. KnownServers(d)
  BY <1>1 DEF IsPut, Good, KnownServers, HasPeer, SubOf, Servers, Candidates
<1>5. NoneInNormal(d)
  BY <1>1 DEF IsPut, Good, NoneInNormal, Servers
<1>6. StrangersOutside(d)
  BY <1>1 DEF IsPut, Good, StrangersOutside, SubOf
<1> QED BY <1>2, <1>3, <1>4, <1>5, <1>6 DEF Good, d

\* The insert position may be any server or one of the values that are none.
SamePeers(c, d) ==
    /\ d.peerList = c.peerList /\ d.mode = c.mode /\ d.subList = c.subList
    /\ d.hung = c.hung

\* Moving the position leaves the channel sound.
LEMMA PosGood ==
  ASSUME NEW c, Good(c), NEW x \in {End, Null, Freed} \cup Servers(c)
  PROVE  /\ Good([c EXCEPT !.pos = x])
         /\ SamePeers(c, [c EXCEPT !.pos = x])
         /\ [c EXCEPT !.pos = x].candidates = c.candidates
<1> DEFINE d == [c EXCEPT !.pos = x]
<1>0. ChannelType(c)
  BY DEF Good
<1>1. SamePeers(c, d) /\ d.pos = x /\ d.candidates = c.candidates /\ Record(d)
  BY <1>0 DEF ChannelType, SamePeers, Record
<1> HIDE DEF d
<1>2. ChannelType(d)
  BY <1>0, <1>1 DEF ChannelType, Servers, SamePeers, Record
<1>3. Served(d) /\ KnownServers(d) /\ NoneInNormal(d) /\ StrangersOutside(d)
  BY <1>1 DEF Good, Served, KnownServers, NoneInNormal, StrangersOutside,
              HasPeer, SubOf, Servers, Candidates, SamePeers
<1>4. Good(d)
  BY <1>2, <1>3 DEF Good
<1> QED BY <1>1, <1>4 DEF d

\* What adding p to c may change.
Added(c, d, p) ==
    /\ Good(d) /\ HasPeer(d, p) /\ d.peerList[p].ttl = TTLChannel
    /\ DOMAIN d.peerList = DOMAIN c.peerList \cup {p}
    /\ \A q \in DOMAIN c.peerList \ {p} : d.peerList[q] = c.peerList[q]
    /\ d.mode = c.mode /\ d.subList = c.subList /\ d.hung = c.hung
    /\ d.candidates = c.candidates

\* The next position and the least server with room are servers, or the end.
LEMMA PositionIsServer ==
  ASSUME NEW c, Good(c)
  PROVE  /\ NextPos(c) \in {End} \cup Servers(c)
         /\ ServersWithRoom(c) # {} => Min(ServersWithRoom(c)) \in Servers(c)
<1> DEFINE later == {t \in Servers(c) : t > c.pos /\ c.subList[t] # PosSub(c)}
<1>1. Servers(c) \in SUBSET Nat
  BY Members
<1>2. \A S \in SUBSET Servers(c) : S # {} => Min(S) \in S
  BY <1>1, MinProperties
<1>3. FirstOf(Servers(c)) \in {End} \cup Servers(c)
  BY <1>2 DEF FirstOf
<1>4. later # {} => Min(later) \in Servers(c)
  BY <1>2
<1>5. ServersWithRoom(c) \in SUBSET Servers(c)
  BY DEF ServersWithRoom
<1> QED BY <1>2, <1>3, <1>4, <1>5 DEF NextPos

\* The entry of a peer has its type and the fields it was made with.
LEMMA EntryTypes ==
  ASSUME NEW known \in BOOLEAN, NEW sub \in Subs
  PROVE  /\ PeerEntry(known, sub) \in PeerEntries
         /\ PeerEntry(known, sub).sub = sub /\ PeerEntry(known, sub).known = known
         /\ PeerEntry(known, sub).ttl = TTLChannel
BY DEF PeerEntry, PeerEntries

\* A peer is put into the main channel, or where the position is: into the
\* parallel channel of a server, or into none.
LEMMA PutPlaces ==
  ASSUME NEW c, Good(c), NEW p \in Peers, ~HasPeer(c, p)
  PROVE  Added(c, AddPeerMasterChannel(c, p), p) /\ Added(c, PutAtPos(c, p), p)
<1>0. ChannelType(c)
  BY DEF Good
<1>1. ASSUME NEW e \in PeerEntries, e.known, e.ttl = TTLChannel,
             e.sub \in Parallel => \E s \in Servers(c) : c.subList[s] = e.sub
      PROVE  Added(c, Put(c, p, e), p)
  <2> DEFINE d == Put(c, p, e)
  <2>1. Good(d)
    BY <1>1, PutGood
  <2>2. IsPut(c, d, p, e)
    BY <1>0, PutFields
  <2> HIDE DEF d
  <2>3. Added(c, d, p)
    BY <1>1, <2>1, <2>2 DEF Added, HasPeer, IsPut
  <2> QED BY <2>3 DEF d
<1>2. Added(c, AddPeerMasterChannel(c, p), p)
  BY <1>1, EntryTypes, SubNumbers DEF AddPeerMasterChannel
<1>3. PosSub(c) \in Subs
      /\ (PosSub(c) \in Parallel => \E s \in Servers(c) : c.subList[s] = PosSub(c))
  BY <1>0, SubNumbers DEF PosSub, ChannelType, Servers
<1>4. Added(c, PutAtPos(c, p), p)
  <2> DEFINE d == Put(c, p, PeerEntry(TRUE, PosSub(c)))
  <2>1. Added(c, d, p)
    BY <1>1, <1>3, EntryTypes, ZenonT(60)
  <2> HIDE DEF d
  <2>2. NextPos(c) \in {End, Null, Freed} \cup Servers(d)
    BY <2>1, PositionIsServer DEF Added, Servers
  <2>3. Added(c, [d EXCEPT !.pos = NextPos(c)], p)
    BY <2>1, <2>2, PosGood DEF Added, HasPeer, SamePeers
  <2> QED BY <2>3 DEF d, PutAtPos
<1> QED BY <1>2, <1>4

\* AddPeer leaves the channel sound, in all its cases.
LEMMA AddPeerGood ==
  ASSUME NEW c, Good(c), NEW p \in Peers, ~HasPeer(c, p)
  PROVE  Added(c, AddPeer(c, p), p)
<1>1. CASE c.mode # "FLASH_CROWD" \/ Room(c, PosSub(c)) \/ ServersWithRoom(c) = {}
  BY <1>1, PutPlaces DEF AddPeer
<1>2. CASE ~(c.mode # "FLASH_CROWD" \/ Room(c, PosSub(c)) \/ ServersWithRoom(c) = {})
  <2> DEFINE d == [c EXCEPT !.pos = Min(ServersWithRoom(c))]
  <2>1. Good(d) /\ SamePeers(c, d) /\ d.candidates = c.candidates
    BY <1>2, PositionIsServer, PosGood
  <2> HIDE DEF d
  <2>2. Added(d, PutAtPos(d, p), p)
    BY <2>1, PutPlaces DEF HasPeer, SamePeers
  <2>3. Added(c, PutAtPos(d, p), p)
    BY <2>1, <2>2 DEF Added, SamePeers
  <2> QED BY <1>2, <2>3 DEF AddPeer, d
<1> QED BY <1>1, <1>2

\* Only the candidates change, and whoever becomes one starts as no server.
Candidacy(c, d) ==
    /\ Good(d) /\ SamePeers(c, d)
    /\ Candidates(c) \subseteq Candidates(d)
    /\ \A q \in Candidates(c) : d.candidates[q] = c.candidates[q]
    /\ \A q \in Candidates(d) \ Candidates(c) : d.candidates[q] = NewCandidate

\* AnalizePeerToBeServerAux changes the candidates only, and leaves the channel sound.
LEMMA AnalizeGood ==
  ASSUME NEW c, Good(c), NEW p \in Peers
  PROVE  Candidacy(c, AnalizePeerToBeServerAux(c, p))
<1> DEFINE d == AnalizePeerToBeServerAux(c, p)
           able == /\ c.mode = "NORMAL" /\ HasPeer(c, p) /\ p # Server
                   /\ Cardinality(Candidates(c)) < MaxCandidate
                   /\ p \notin Candidates(c)
<1>0. ChannelType(c)
  BY DEF Good
<1>1. CASE ~able
  BY <1>1 DEF AnalizePeerToBeServerAux, Candidacy, SamePeers
<1>2. CASE able
  <2>1. /\ SamePeers(c, d) /\ d.pos = c.pos /\ Record(d)
        /\ DOMAIN d.candidates = Candidates(c) \cup {p}
        /\ d.candidates[p] = NewCandidate
        /\ \A q \in Candidates(c) : d.candidates[q] = c.candidates[q]
        /\ Function(d.candidates)
    BY <1>0, <1>2 DEF AnalizePeerToBeServerAux, ChannelType, Candidates,
                      SamePeers, Record, Function
  <2> HIDE DEF d
  <2>2. ChannelType(d)
    <3>1. NewCandidate \in CandidateEntries
      BY DEF NewCandidate, CandidateEntries, AuxStates
    <3>2. \A q \in DOMAIN d.candidates : d.candidates[q] \in CandidateEntries
      BY <1>0, <2>1, <3>1 DEF ChannelType, Candidates
    <3>3. d.candidates \in [DOMAIN d.candidates -> CandidateEntries]
      BY <2>1, <3>2 DEF Function
    <3> QED BY <1>0, <2>1, <3>3 DEF ChannelType, SamePeers, Record
  <2>3. SubOf(d, p) \notin Parallel
    BY <1>2, <2>1 DEF Good, NoneInNormal, Served, SubOf, HasPeer, Servers, SamePeers
  <2>4. KnownServers(d)
    BY <1>2, <2>1, <2>3 DEF Good, KnownServers, HasPeer, SubOf, Servers,
                            Candidates, SamePeers
  <2>5. Served(d) /\ NoneInNormal(d) /\ StrangersOutside(d)
    BY <2>1 DEF Good, Served, NoneInNormal, StrangersOutside, SubOf, Servers, SamePeers
  <2>6. Good(d)
    BY <2>2, <2>4, <2>5 DEF Good
  <2>7. Candidacy(c, d)
    BY <2>1, <2>6 DEF Candidacy, Candidates
  <2> QED BY <2>7 DEF d
<1> QED BY <1>1, <1>2
-----------------------------------------------------------------------------
(***************************************************************************)
(* SetChannelMode.                                                          *)
(***************************************************************************)

\* Entries differ in the network at most (and in wait).
MovedEntry(e, f, sub) ==
    f \in PeerEntries /\ f.known = e.known /\ f.ttl = e.ttl /\ f.sub = sub

\* d has the peers of c, those of subs now in the network to.
IsMove(c, d, subs, to) ==
    /\ DOMAIN d.peerList = DOMAIN c.peerList /\ Function(d.peerList)
    /\ \A p \in DOMAIN c.peerList :
         MovedEntry(c.peerList[p], d.peerList[p],
                    IF SubOf(c, p) \in subs THEN to ELSE SubOf(c, p))
    /\ d.hung = c.hung

\* Move changes the parallel channel of some peers and nothing else.
LEMMA MoveFields ==
  ASSUME NEW c, ChannelType(c), NEW subs, NEW to \in Subs
  PROVE  /\ IsMove(c, Move(c, subs, to), subs, to)
         /\ Record(Move(c, subs, to))
         /\ Move(c, subs, to).mode = c.mode
         /\ Move(c, subs, to).subList = c.subList
         /\ Move(c, subs, to).candidates = c.candidates
         /\ Move(c, subs, to).pos = c.pos
<1> DEFINE d == Move(c, subs, to)
<1>1. /\ Record(d) /\ d.mode = c.mode /\ d.subList = c.subList
      /\ d.candidates = c.candidates /\ d.pos = c.pos /\ d.hung = c.hung
      /\ d.peerList = [p \in DOMAIN c.peerList |->
            IF c.peerList[p].sub \in subs THEN [c.peerList[p] EXCEPT !.sub = to]
                                          ELSE c.peerList[p]]
  BY DEF ChannelType, Record, Move
<1>2. ASSUME NEW e \in PeerEntries
      PROVE  MovedEntry(e, [e EXCEPT !.sub = to], to) /\ MovedEntry(e, e, e.sub)
  BY DEF PeerEntries, MovedEntry
<1>3. \A p \in DOMAIN c.peerList : c.peerList[p] \in PeerEntries
  BY DEF ChannelType
<1> HIDE DEF d
<1>4. IsMove(c, d, subs, to)
  BY <1>1, <1>2, <1>3 DEF IsMove, Function, SubOf
<1> QED BY <1>1, <1>4 DEF d

\* What a change of mode may do to the peers and the candidates.
ModeChange(c, d) ==
    /\ Good(d) /\ DOMAIN d.peerList = DOMAIN c.peerList /\ d.hung = c.hung
    /\ \A p \in DOMAIN c.peerList :
         /\ d.peerList[p].known = c.peerList[p].known
         /\ d.peerList[p].ttl = c.peerList[p].ttl
         /\ LeavesJustly(c, d, p)
         /\ \A q \in DOMAIN c.peerList : Together(c, p, q) => Together(d, p, q)
    /\ Candidates(d) \subseteq Candidates(c)
    /\ \A p \in Candidates(d) :
         d.candidates[p].inform \/ d.candidates[p] = c.candidates[p]

\* Modes that are not permitted change nothing.
LEMMA NoChange ==
  ASSUME NEW c, Good(c)
  PROVE  ModeChange(c, c)
BY DEF ModeChange, LeavesJustly

\* Back to normal: everyone is in the main network, nobody serves.
LEMMA ToNormalGood ==
  ASSUME NEW c, Good(c)
  PROVE  ModeChange(c, ToNormal(c)) /\ Candidates(ToNormal(c)) = Candidates(c)
<1> DEFINE d == ToNormal(c)
           all == {c.peerList[p].sub : p \in DOMAIN c.peerList}
           m == Move(c, all, Main)
<1>0. ChannelType(c)
  BY DEF Good
<1>1. CASE c.mode = "NORMAL"
  BY <1>1, NoChange DEF ToNormal
<1>2. CASE c.mode # "NORMAL"
  <2>1. /\ IsMove(c, m, all, Main) /\ Record(m)
        /\ m.mode = c.mode /\ m.subList = c.subList /\ m.candidates = c.candidates
        /\ m.pos = c.pos
    BY <1>0, SubNumbers, MoveFields
  <2>2. /\ d.peerList = m.peerList /\ d.hung = m.hung /\ Record(d)
        /\ d.mode = "NORMAL" /\ d.subList = <<>>
        /\ d.pos = (IF c.pos \in Servers(c) THEN Freed ELSE c.pos)
        /\ d.candidates = [p \in Candidates(c) |->
                IF c.candidates[p].state # "NO_SERVER_AUX"
                THEN [state |-> "NO_SERVER_AUX", inform |-> TRUE] ELSE c.candidates[p]]
    <3> HIDE DEF m
    <3>1. d = [m EXCEPT !.mode = "NORMAL", !.subList = <<>>,
            !.pos = IF c.pos \in Servers(c) THEN Freed ELSE c.pos,
            !.candidates = [p \in DOMAIN @ |->
                IF @[p].state # "NO_SERVER_AUX"
                THEN [state |-> "NO_SERVER_AUX", inform |-> TRUE] ELSE @[p]]]
      BY <1>2 DEF ToNormal, m
    <3> HIDE DEF d
    <3> QED BY <2>1, <3>1 DEF Record, Candidates
  <2> HIDE DEF d, m
  <2>3. /\ \A p \in DOMAIN c.peerList : SubOf(d, p) = Main
        /\ IsMove(c, d, all, Main)
    BY <2>1, <2>2 DEF IsMove, MovedEntry, SubOf
  <2> HIDE DEF all
  <2>4. ChannelType(d)
    <3>1. d.candidates \in [DOMAIN d.candidates -> CandidateEntries]
      <4>1. \A p \in Candidates(c) : c.candidates[p] \in CandidateEntries
        BY <1>0 DEF ChannelType, Candidates
      <4>2. [state |-> "NO_SERVER_AUX", inform |-> TRUE] \in CandidateEntries
        BY DEF CandidateEntries, AuxStates
      <4> QED BY <2>2, <4>1, <4>2
    <3>2. d.subList \in [DOMAIN d.subList -> Parallel] /\ DOMAIN d.subList = {}
      BY <2>2
    <3>3. d.pos \in {End, Null, Freed}
      BY <1>0, <2>2 DEF ChannelType, Servers
    <3>4. d.peerList \in [DOMAIN d.peerList -> PeerEntries] /\ DOMAIN d.peerList \subseteq Peers
      BY <1>0, <2>3 DEF IsMove, MovedEntry, Function, ChannelType
    <3>5. d.hung \in BOOLEAN /\ d.mode \in Modes
      BY <1>0, <2>2, <2>3 DEF IsMove, ChannelType, Modes
    <3> QED BY <2>2, <3>1, <3>2, <3>3, <3>4, <3>5 DEF ChannelType, Record
  <2>5. Servers(d) = {} /\ Candidates(d) = Candidates(c)
    BY <2>2 DEF Servers, Candidates
  <2>6. Good(d)
    <3>1. Served(d) /\ NoneInNormal(d) /\ StrangersOutside(d)
      BY <2>3, <2>5, SubNumbers DEF IsMove, Served, NoneInNormal, StrangersOutside
    <3>2. KnownServers(d)
      BY <2>3, <2>5, SubNumbers DEF Good, KnownServers, HasPeer, IsMove, MovedEntry
    <3> QED BY <2>4, <3>1, <3>2 DEF Good
  <2>7. \A p \in Candidates(d) :
          d.candidates[p].inform \/ d.candidates[p] = c.candidates[p]
    BY <2>2 DEF Candidates
  <2>8. ASSUME NEW p \in DOMAIN c.peerList
        PROVE  /\ d.peerList[p].known = c.peerList[p].known
               /\ d.peerList[p].ttl = c.peerList[p].ttl
               /\ LeavesJustly(c, d, p)
               /\ \A q \in DOMAIN c.peerList : Together(d, p, q)
    BY <2>2, <2>3 DEF IsMove, MovedEntry, LeavesJustly, Together
  <2>9. ModeChange(c, d)
    BY <2>3, <2>5, <2>6, <2>7, <2>8 DEF ModeChange, IsMove
  <2> QED BY <2>5, <2>9 DEF d
<1> QED BY <1>1, <1>2

\* Merging: the networks of the chosen servers become one that has no server.
LEMMA ToMesclarGood ==
  ASSUME NEW c, Good(c)
  PROVE  ModeChange(c, ToMesclar(c)) /\ Candidates(ToMesclar(c)) = Candidates(c)
<1> DEFINE waiting == {s \in Servers(c) :
                         s \notin Candidates(c) \/ c.candidates[s].state # "MESCLAR"}
           chosen == IF TimeMerge /\ waiting # {} THEN {Min(waiting)} ELSE waiting
           nets == NetworksOf(c, chosen)
           m == Move(c, nets, Merging)
           d == ToMesclar(c)
<1>0. ChannelType(c)
  BY DEF Good
<1>1. CASE c.mode = "NORMAL"
  BY <1>1, NoChange DEF ToMesclar
<1>2. CASE c.mode # "NORMAL"
  <2>1. /\ IsMove(c, m, nets, Merging) /\ Record(m)
        /\ m.mode = c.mode /\ m.subList = c.subList /\ m.candidates = c.candidates
        /\ m.pos = c.pos
    BY <1>0, SubNumbers, MoveFields
  <2>2. d = [m EXCEPT !.mode = "MESCLAR",
                      !.candidates = [p \in DOMAIN @ \cup chosen |->
                            IF p \in chosen THEN ToMerge ELSE @[p]]]
    <3> HIDE DEF m
    <3> QED BY <1>2 DEF ToMesclar, m
  <2>3. chosen \subseteq Servers(c) /\ Servers(c) \subseteq Candidates(c)
    <3>1. Servers(c) \in SUBSET Nat /\ Servers(c) \subseteq Candidates(c)
      BY Members
    <3>2. waiting \in SUBSET Nat /\ waiting \subseteq Servers(c)
      BY <3>1
    <3> HIDE DEF waiting
    <3> QED BY <3>1, <3>2, MinProperties
  <2>4. \A s \in nets : s \in Parallel /\ \E t \in chosen : c.subList[t] = s
    BY <1>0, <2>3 DEF NetworksOf, ChannelType, Servers
  <2> HIDE DEF d, m, nets, chosen
  <2>5. /\ d.peerList = m.peerList /\ d.hung = m.hung /\ Record(d)
        /\ d.mode = "MESCLAR" /\ d.subList = c.subList /\ d.pos = c.pos
        /\ Candidates(d) = Candidates(c) /\ Function(d.candidates)
        /\ \A p \in Candidates(c) :
             d.candidates[p] = IF p \in chosen THEN ToMerge ELSE c.candidates[p]
    BY <2>1, <2>2, <2>3 DEF Record, Function, Candidates
  <2>6. IsMove(c, d, nets, Merging)
    BY <2>1, <2>5 DEF IsMove
  <2>7. ChannelType(d)
    <3>1. d.candidates \in [DOMAIN d.candidates -> CandidateEntries]
      <4>1. \A p \in Candidates(c) : c.candidates[p] \in CandidateEntries
        BY <1>0 DEF ChannelType, Candidates
      <4>2. ToMerge \in CandidateEntries
        BY DEF ToMerge, CandidateEntries, AuxStates
      <4> QED BY <2>5, <4>1, <4>2 DEF Candidates, Function
    <3>2. d.peerList \in [DOMAIN d.peerList -> PeerEntries] /\ DOMAIN d.peerList \subseteq Peers
      BY <1>0, <2>6 DEF IsMove, MovedEntry, Function, ChannelType
    <3>3. d.hung \in BOOLEAN /\ d.mode \in Modes
      BY <1>0, <2>5, <2>6 DEF IsMove, ChannelType, Modes
    <3> QED BY <1>0, <2>5, <3>1, <3>2, <3>3 DEF ChannelType, Record
  <2>8. /\ Servers(d) = Servers(c) /\ DOMAIN d.peerList = DOMAIN c.peerList
        /\ \A p \in DOMAIN c.peerList :
             /\ SubOf(c, p) \in nets => SubOf(d, p) = Merging
             /\ SubOf(c, p) \notin nets => SubOf(d, p) = SubOf(c, p)
             /\ d.peerList[p].known = c.peerList[p].known
             /\ d.peerList[p].ttl = c.peerList[p].ttl
    BY <2>5, <2>6 DEF IsMove, MovedEntry, SubOf, Servers
  <2>9. \A p \in DOMAIN c.peerList :
          SubOf(d, p) \in Parallel => SubOf(d, p) = SubOf(c, p)
    BY <2>8, SubNumbers
  <2>10. Good(d)
    <3>1. Served(d)
      BY <2>5, <2>8, <2>9 DEF Good, Served
    <3>2. KnownServers(d)
      <4> SUFFICES ASSUME NEW p \in Candidates(c)
                   PROVE  HasPeer(d, p) /\ SubOf(d, p) \notin Parallel
        BY <2>3, <2>5, <2>8 DEF KnownServers
      <4> QED BY <2>8, <2>9 DEF Good, KnownServers, HasPeer
    <3>3. NoneInNormal(d) /\ StrangersOutside(d)
      BY <2>5, <2>8, <2>9 DEF Good, NoneInNormal, StrangersOutside
    <3> QED BY <2>7, <3>1, <3>2, <3>3 DEF Good
  <2>11. ASSUME NEW p \in DOMAIN c.peerList PROVE LeavesJustly(c, d, p)
    <3> SUFFICES ASSUME SubOf(c, p) \in Parallel, SubOf(d, p) # SubOf(c, p)
                 PROVE  /\ SubOf(d, p) = Merging
                        /\ \E t \in ServersOf(c, p) :
                             t \in Servers(d) /\ d.candidates[t].state = "MESCLAR"
      BY DEF LeavesJustly
    <3>1. PICK t \in chosen : c.subList[t] = SubOf(c, p)
      BY <2>4, <2>8
    <3>2. t \in ServersOf(c, p) /\ t \in Servers(d)
      BY <2>3, <2>8, <3>1, ServersOfParallel
    <3>3. d.candidates[t].state = "MESCLAR"
      BY <2>3, <2>5, <3>1 DEF ToMerge
    <3> QED BY <2>8, <3>2, <3>3
  <2>12. ASSUME NEW p \in DOMAIN c.peerList, NEW q \in DOMAIN c.peerList,
                Together(c, p, q)
         PROVE  Together(d, p, q)
    <3>1. CASE SubOf(c, p) = SubOf(c, q)
      BY <2>8, <3>1 DEF Together
    <3>2. CASE SubOf(c, p) \notin Parallel /\ SubOf(c, q) \notin Parallel
      BY <2>8, <2>9, <3>2 DEF Together
    <3>3. CASE q \in ServersOf(c, p)
      <4>1. q \in Servers(c) /\ SubOf(d, q) \notin Parallel
        BY <2>3, <2>8, <2>9, <3>3 DEF ServersOf, Good, KnownServers
      <4>2. CASE SubOf(d, p) = SubOf(c, p)
        BY <2>5, <2>8, <3>3, <4>2 DEF Together, ServersOf
      <4>3. CASE SubOf(d, p) # SubOf(c, p)
        BY <2>8, <2>9, <4>1, <4>3 DEF Together
      <4> QED BY <4>2, <4>3
    <3> QED BY <2>12, <3>1, <3>2, <3>3 DEF Together
  <2>13. \A p \in Candidates(d) :
           d.candidates[p].inform \/ d.candidates[p] = c.candidates[p]
    BY <2>5 DEF ToMerge
  <2>14. ModeChange(c, d)
    BY <2>5, <2>6, <2>8, <2>10, <2>11, <2>12, <2>13 DEF ModeChange, IsMove
  <2> QED BY <2>5, <2>14 DEF d
<1> QED BY <1>1, <1>2

\* The r-th candidate, r below parallel channels times cluster size, serves one
\* of the parallel channels.
LEMMA ClusterNumber ==
  ASSUME NEW r \in Nat, r < MaxSubChannel * SizeCluster
  PROVE  Main + 1 + r \div SizeCluster \in Parallel
<1> DEFINE n == r \div SizeCluster
<1>1. n \in Nat /\ r >= SizeCluster * n
  BY Z3
<1>2. n < MaxSubChannel
  <2>1. SUFFICES ASSUME n >= MaxSubChannel PROVE FALSE
    BY <1>1
  <2>2. SizeCluster * n >= SizeCluster * MaxSubChannel
    BY <1>1, <2>1, Z3
  <2>3. SizeCluster * MaxSubChannel = MaxSubChannel * SizeCluster
    BY Z3
  <2> QED BY <1>1, <2>2, <2>3
<1> QED BY <1>1, <1>2 DEF Parallel, Main

\* Some or all of the candidates serve, each in a parallel channel.
LEMMA CreateFields ==
  ASSUME NEW c, ChannelType(c), Servers(c) = {},
         IsFiniteSet(Candidates(c)), Candidates(c) \in SUBSET Nat
  PROVE  LET d == CreateAllChannelSub(c)
         IN  /\ ChannelType(d)
             /\ d.peerList = c.peerList /\ d.mode = c.mode /\ d.hung = c.hung
             /\ d.candidates = c.candidates
             /\ Servers(d) \subseteq Candidates(c)
<1> DEFINE spare == Candidates(c) \ Servers(c)
           rank(p) == Cardinality({q \in spare : q < p})
           whole == (Cardinality(spare) \div SizeCluster) * SizeCluster
           fit == MaxSubChannel * SizeCluster - Cardinality(Servers(c))
           new == {p \in spare : rank(p) < whole /\ rank(p) < fit}
           list == [s \in Servers(c) \cup new |->
                       IF s \in new THEN Main + 1 + rank(s) \div SizeCluster
                                    ELSE c.subList[s]]
           d == CreateAllChannelSub(c)
<1>1. d = [c EXCEPT !.subList = list, !.pos = FirstOf(DOMAIN list)]
  BY DEF CreateAllChannelSub
<1>2. fit = MaxSubChannel * SizeCluster
  <2>1. Cardinality(Servers(c)) = 0
    BY FS_EmptySet
  <2>2. MaxSubChannel * SizeCluster \in Int
    BY Z3
  <2> QED BY <2>1, <2>2
<1>3. \A p \in spare : rank(p) \in Nat
  <2> SUFFICES ASSUME NEW p \in spare PROVE rank(p) \in Nat
    OBVIOUS
  <2>1. {q \in spare : q < p} \in SUBSET Candidates(c)
    OBVIOUS
  <2>2. IsFiniteSet({q \in spare : q < p})
    BY <2>1, FS_Subset
  <2> QED BY <2>2, FS_CardinalityType
<1>4. DOMAIN list = new /\ new \in SUBSET Nat /\ new \subseteq Candidates(c)
  OBVIOUS
<1>5. \A s \in new : list[s] \in Parallel
  <2> SUFFICES ASSUME NEW s \in new PROVE list[s] \in Parallel
    OBVIOUS
  <2>1. rank(s) \in Nat /\ rank(s) < MaxSubChannel * SizeCluster
    BY <1>2, <1>3
  <2> HIDE DEF rank
  <2> QED BY <2>1, <1>4, ClusterNumber
<1>6. list \in [DOMAIN list -> Parallel]
  BY <1>4, <1>5
<1>7. FirstOf(DOMAIN list) \in {End} \cup DOMAIN list
  BY <1>4, MinProperties DEF FirstOf
<1> HIDE DEF list
<1>8. ChannelType(d) /\ d.peerList = c.peerList /\ d.mode = c.mode
      /\ d.hung = c.hung /\ d.candidates = c.candidates /\ d.subList = list
  BY <1>1, <1>6, <1>7 DEF ChannelType
<1> QED BY <1>4, <1>8 DEF Servers

\* A flash crowd starts: the candidates kept are told to serve.
LEMMA ToFlashCrowdGood ==
  ASSUME NEW c, Good(c), NEW d \in ToFlashCrowd(c)
  PROVE  ModeChange(c, d)
<1> DEFINE most == MaxSubChannel * SizeCluster
           keeps == IF Cardinality(Candidates(c)) > most
                    THEN kSubset(most, Candidates(c)) ELSE {Candidates(c)}
           start(kept) == [c EXCEPT
               !.mode = "FLASH_CROWD",
               !.candidates = [p \in kept |-> [state |-> "ACTIVE", inform |-> TRUE]],
               !.peerList = [p \in DOMAIN @ |->
                   IF p \in kept THEN @[p] ELSE [@[p] EXCEPT !.wait = TRUE]]]
<1>0. ChannelType(c)
  BY DEF Good
<1>1. CASE c.mode # "NORMAL"
  BY <1>1, NoChange DEF ToFlashCrowd
<1>2. CASE c.mode = "NORMAL"
  <2>1. PICK kept \in keeps : d = CreateAllChannelSub(start(kept))
    BY <1>2 DEF ToFlashCrowd
  <2>2. kept \in SUBSET Candidates(c)
    BY DEF kSubset
  <2> DEFINE s == start(kept)
             informed == [p \in kept |-> [state |-> "ACTIVE", inform |-> TRUE]]
             waits == [p \in DOMAIN c.peerList |->
                          IF p \in kept THEN c.peerList[p]
                          ELSE [c.peerList[p] EXCEPT !.wait = TRUE]]
  <2>a. s = [c EXCEPT !.mode = "FLASH_CROWD", !.candidates = informed,
                      !.peerList = waits]
    OBVIOUS
  <2> HIDE DEF s, informed, waits
  <2>b. /\ Record(s) /\ s.mode = "FLASH_CROWD" /\ s.hung = c.hung
        /\ s.subList = c.subList /\ s.pos = c.pos
        /\ s.candidates = informed /\ s.peerList = waits
    BY <1>0, <2>a DEF ChannelType, Record
  <2>3. /\ Record(s) /\ s.mode = "FLASH_CROWD" /\ s.hung = c.hung
        /\ s.subList = c.subList /\ s.pos = c.pos
        /\ s.candidates = [p \in kept |-> [state |-> "ACTIVE", inform |-> TRUE]]
        /\ s.peerList = [p \in DOMAIN c.peerList |->
              IF p \in kept THEN c.peerList[p] ELSE [c.peerList[p] EXCEPT !.wait = TRUE]]
    BY <2>b DEF informed, waits
  <2>4. Servers(c) = {}
    BY <1>2 DEF Good, NoneInNormal
  <2>5. \A p \in DOMAIN c.peerList :
           MovedEntry(c.peerList[p], s.peerList[p], SubOf(c, p))
    <3>1. \A e \in PeerEntries :
             MovedEntry(e, [e EXCEPT !.wait = TRUE], e.sub) /\ MovedEntry(e, e, e.sub)
      BY DEF PeerEntries, MovedEntry
    <3>2. \A p \in DOMAIN c.peerList : c.peerList[p] \in PeerEntries
      BY <1>0 DEF ChannelType
    <3> QED BY <2>3, <3>1, <3>2 DEF SubOf
  <2>6. ChannelType(s) /\ Servers(s) = {} /\ Candidates(s) = kept
    <3>1. s.candidates \in [DOMAIN s.candidates -> CandidateEntries]
      BY <2>3 DEF CandidateEntries, AuxStates
    <3>2. s.peerList \in [DOMAIN s.peerList -> PeerEntries]
          /\ DOMAIN s.peerList \subseteq Peers
      BY <1>0, <2>3, <2>5 DEF MovedEntry, ChannelType
    <3>3. s.mode \in Modes
      BY <2>3 DEF Modes
    <3> QED BY <1>0, <2>3, <2>4, <3>1, <3>2, <3>3
            DEF ChannelType, Record, Servers, Candidates
  <2>7. IsFiniteSet(kept) /\ kept \in SUBSET Nat
    BY <2>2, Members, FS_Subset
  <2>8. /\ ChannelType(d)
        /\ d.peerList = s.peerList /\ d.mode = s.mode /\ d.hung = s.hung
        /\ d.candidates = s.candidates /\ Servers(d) \subseteq kept
    BY <2>1, <2>6, <2>7, CreateFields DEF s
  <2>9. /\ DOMAIN d.peerList = DOMAIN c.peerList /\ Candidates(d) = kept
        /\ \A p \in DOMAIN c.peerList :
             /\ d.peerList[p].known = c.peerList[p].known
             /\ d.peerList[p].ttl = c.peerList[p].ttl
             /\ SubOf(d, p) = SubOf(c, p) /\ SubOf(d, p) \notin Parallel
    <3>1. \A p \in DOMAIN c.peerList : SubOf(c, p) \notin Parallel
      BY <2>4 DEF Good, Served
    <3> QED BY <2>3, <2>5, <2>8, <3>1 DEF MovedEntry, SubOf, Candidates
  <2>10. Good(d)
    <3>1. KnownServers(d)
      BY <2>2, <2>8, <2>9 DEF Good, KnownServers, HasPeer
    <3>2. Served(d) /\ NoneInNormal(d) /\ StrangersOutside(d)
      BY <2>3, <2>8, <2>9 DEF Served, NoneInNormal, StrangersOutside
    <3> QED BY <2>8, <3>1, <3>2 DEF Good
  <2>11. \A p \in DOMAIN c.peerList :
           /\ LeavesJustly(c, d, p)
           /\ \A q \in DOMAIN c.peerList : Together(c, p, q) => Together(d, p, q)
    <3>1. \A p : ServersOf(c, p) = {}
      BY <2>4 DEF ServersOf
    <3> QED BY <2>9, <3>1 DEF LeavesJustly, Together
  <2>12. \A p \in Candidates(d) : d.candidates[p].inform
    BY <2>3, <2>8, <2>9
  <2> QED BY <2>2, <2>3, <2>8, <2>9, <2>10, <2>11, <2>12 DEF ModeChange
<1> QED BY <1>1, <1>2

\* Whatever the mode asked for.
LEMMA SetChannelModeGood ==
  ASSUME NEW c, Good(c), NEW mode \in Modes, NEW d \in SetChannelMode(c, mode)
  PROVE  ModeChange(c, d)
<1>1. CASE mode = "NORMAL"
  BY <1>1, ToNormalGood DEF SetChannelMode
<1>2. CASE mode = "MESCLAR"
  BY <1>2, ToMesclarGood DEF SetChannelMode
<1>3. CASE mode = "FLASH_CROWD"
  BY <1>3, ToFlashCrowdGood DEF SetChannelMode
<1> QED BY <1>1, <1>2, <1>3 DEF Modes
-----------------------------------------------------------------------------
(***************************************************************************)
(* CheckActivePeers.                                                        *)
(***************************************************************************)

\* What is left of a when the peers in gone have been dropped, or some of them
\* if the sweep hangs: servers and candidates go only with the peer, and whoever
\* leaves a parallel channel leaves no server there.
Swept(a, d, gone) ==
    /\ Good(d) /\ d.mode = a.mode
    /\ DOMAIN d.peerList \subseteq DOMAIN a.peerList
    /\ ~d.hung => DOMAIN d.peerList = DOMAIN a.peerList \ gone
    /\ Servers(d) = Servers(a) \cap DOMAIN d.peerList
    /\ \A s \in Servers(d) : d.subList[s] = a.subList[s]
    /\ Candidates(d) = Candidates(a) \cap DOMAIN d.peerList
    /\ \A p \in Candidates(d) : d.candidates[p] = a.candidates[p]
    /\ \A p \in DOMAIN d.peerList :
         /\ d.peerList[p].known = a.peerList[p].known
         /\ d.peerList[p].ttl = a.peerList[p].ttl
         /\ \/ SubOf(d, p) = SubOf(a, p)
            \/ /\ SubOf(a, p) \in Parallel /\ SubOf(d, p) = Main
               /\ \A s \in Servers(d) : a.subList[s] # SubOf(a, p)

\* Two sweeps one after the other are a sweep of both sets.
LEMMA SweptTwice ==
  ASSUME NEW a, NEW b, NEW d, NEW S, NEW T, Swept(a, b, S), Swept(b, d, T),
         b.hung => d.hung
  PROVE  Swept(a, d, S \cup T)
<1>1. /\ Good(d) /\ d.mode = a.mode
      /\ DOMAIN d.peerList \subseteq DOMAIN b.peerList
      /\ DOMAIN b.peerList \subseteq DOMAIN a.peerList
      /\ ~d.hung => DOMAIN d.peerList = DOMAIN a.peerList \ (S \cup T)
      /\ Servers(d) = Servers(a) \cap DOMAIN d.peerList
      /\ Servers(d) \subseteq Servers(b)
      /\ Candidates(d) = Candidates(a) \cap DOMAIN d.peerList
      /\ Candidates(d) \subseteq Candidates(b)
  BY DEF Swept
<1>2. /\ \A s \in Servers(d) : d.subList[s] = a.subList[s]
                               /\ b.subList[s] = a.subList[s]
      /\ \A p \in Candidates(d) : d.candidates[p] = a.candidates[p]
  BY <1>1 DEF Swept
<1>3. ASSUME NEW p \in DOMAIN d.peerList
      PROVE  /\ d.peerList[p].known = a.peerList[p].known
             /\ d.peerList[p].ttl = a.peerList[p].ttl
             /\ \/ SubOf(d, p) = SubOf(a, p)
                \/ /\ SubOf(a, p) \in Parallel /\ SubOf(d, p) = Main
                   /\ \A s \in Servers(d) : a.subList[s] # SubOf(a, p)
  <2>1. /\ d.peerList[p].known = a.peerList[p].known
        /\ d.peerList[p].ttl = a.peerList[p].ttl
    BY <1>1 DEF Swept
  <2>2. CASE SubOf(b, p) = SubOf(a, p)
    BY <1>1, <1>2, <2>1, <2>2 DEF Swept
  <2>3. CASE SubOf(b, p) # SubOf(a, p)
    <3>1. /\ SubOf(a, p) \in Parallel /\ SubOf(b, p) = Main
          /\ \A s \in Servers(d) : a.subList[s] # SubOf(a, p)
      BY <1>1, <2>3 DEF Swept
    <3>2. SubOf(d, p) = Main
      BY <3>1, SubNumbers DEF Swept
    <3> QED BY <2>1, <3>1, <3>2
  <2> QED BY <2>2, <2>3
<1> QED BY <1>1, <1>2, <1>3 DEF Swept

\* One silent peer is dropped.
LEMMA DropSweeps ==
  ASSUME NEW c, Good(c), NEW p, NEW d \in Drop(c, p)
  PROVE  Swept(c, d, {p}) /\ (c.hung => d.hung)
<1>0. ChannelType(c) /\ c.hung \in BOOLEAN
  BY DEF Good, ChannelType
<1>1. CASE c.hung
  <2>1. d = c
    BY <1>1 DEF Drop
  <2> QED BY <1>1, <2>1, Members DEF Swept
<1>2. CASE ~c.hung /\ PosAfter(c, p) = {}
  <2>1. d = [c EXCEPT !.hung = TRUE]
    BY <1>2 DEF Drop
  <2>2. /\ d.mode = c.mode /\ d.peerList = c.peerList /\ d.subList = c.subList
        /\ d.candidates = c.candidates /\ d.pos = c.pos /\ d.hung = TRUE /\ Record(d)
    BY <1>0, <2>1 DEF ChannelType, Record
  <2>3. ChannelType(d)
    BY <1>0, <2>2 DEF ChannelType, Record
  <2>4. Served(d) /\ KnownServers(d) /\ NoneInNormal(d) /\ StrangersOutside(d)
    BY <2>2 DEF Good, Served, KnownServers, NoneInNormal, StrangersOutside,
                HasPeer, SubOf, Servers, Candidates
  <2>5. Good(d)
    BY <2>3, <2>4 DEF Good
  <2> QED BY <2>2, <2>5, Members DEF Swept, Servers, Candidates, SubOf
<1>3. CASE ~c.hung /\ PosAfter(c, p) # {}
  <2> DEFINE nets == IF p \in Servers(c) /\ FinishingServer(c, p)
                     THEN {c.subList[p]} ELSE {}
             rest == IF FinishingServer(c, p) THEN Move(c, {c.subList[p]}, Main) ELSE c
             left == IF p \in Servers(c) THEN RemoveServer(c, p) ELSE c
  <2>1. PICK pos \in PosAfter(c, p) :
          d = [left EXCEPT !.pos = pos, !.candidates = OtherCandidates(c, p),
                           !.peerList = Restrict(@, DOMAIN @ \ {p})]
    BY <1>3 DEF Drop
  <2>2. /\ IsMove(c, left, nets, Main) /\ Record(left)
        /\ left.mode = c.mode /\ left.candidates = c.candidates
        /\ left.subList = [s \in Servers(c) \ {p} |-> c.subList[s]]
    <3>1. IsMove(c, c, {}, Main)
      <4>1. \A q \in DOMAIN c.peerList : c.peerList[q] \in PeerEntries
        BY <1>0 DEF ChannelType
      <4>2. Function(c.peerList)
        BY <1>0 DEF ChannelType, Function
      <4> QED BY <4>1, <4>2 DEF IsMove, MovedEntry, SubOf
    <3>2. CASE p \notin Servers(c)
      <4>1. left = c /\ nets = {}
        BY <3>2
      <4>2. Record(c) /\ c.subList = [s \in Servers(c) \ {p} |-> c.subList[s]]
        BY <1>0, <3>2, ZenonT(40) DEF ChannelType, Record, Servers
      <4> HIDE DEF left, nets
      <4> QED BY <3>1, <4>1, <4>2
    <3>3. CASE p \in Servers(c)
      <4>1. /\ IsMove(c, rest, nets, Main) /\ Record(rest)
            /\ rest.mode = c.mode /\ rest.candidates = c.candidates
            /\ rest.subList = c.subList
        <5>1. CASE FinishingServer(c, p)
          <6>1. rest = Move(c, nets, Main)
            BY <3>3, <5>1
          <6> HIDE DEF nets, rest
          <6> QED BY <1>0, <6>1, MoveFields, SubNumbers
        <5>2. CASE ~FinishingServer(c, p)
          <6>1. rest = c /\ nets = {}
            BY <5>2
          <6> HIDE DEF nets, rest
          <6> QED BY <1>0, <3>1, <6>1 DEF ChannelType, Record
        <5> QED BY <5>1, <5>2
      <4>2. left = [rest EXCEPT !.subList = Restrict(@, DOMAIN @ \ {p})]
        BY <3>3 DEF RemoveServer
      <4> HIDE DEF nets, rest, left
      <4>3. /\ Record(left) /\ left.peerList = rest.peerList /\ left.hung = rest.hung
            /\ left.mode = rest.mode /\ left.candidates = rest.candidates
            /\ left.subList = [s \in Servers(c) \ {p} |-> c.subList[s]]
        BY <4>1, <4>2 DEF Record, Restrict, Servers
      <4> QED BY <4>1, <4>3 DEF IsMove
    <3> QED BY <3>2, <3>3
  <2> HIDE DEF left
  <2>3. /\ Record(d) /\ d.mode = c.mode /\ d.hung = c.hung /\ d.pos = pos
        /\ d.subList = [s \in Servers(c) \ {p} |-> c.subList[s]]
        /\ d.candidates = [q \in Candidates(c) \ {p} |-> c.candidates[q]]
        /\ d.peerList = [q \in DOMAIN c.peerList \ {p} |-> left.peerList[q]]
    BY <2>1, <2>2 DEF Record, Restrict, OtherCandidates, Candidates, IsMove
  <2>4. /\ Servers(d) = Servers(c) \ {p} /\ Candidates(d) = Candidates(c) \ {p}
        /\ DOMAIN d.peerList = DOMAIN c.peerList \ {p}
        /\ \A s \in Servers(d) : d.subList[s] = c.subList[s]
        /\ \A q \in Candidates(d) : d.candidates[q] = c.candidates[q]
        /\ Function(d.peerList)
    BY <2>3 DEF Servers, Candidates, Function
  <2>5. \A q \in DOMAIN d.peerList :
          MovedEntry(c.peerList[q], d.peerList[q],
                     IF SubOf(c, q) \in nets THEN Main ELSE SubOf(c, q))
    BY <2>2, <2>3 DEF IsMove
  <2>6. \A n \in nets : n \in Parallel /\ \A s \in Servers(d) : c.subList[s] # n
    BY <1>0, <2>4 DEF ChannelType, Servers, FinishingServer
  <2>7. \A q \in DOMAIN d.peerList :
          /\ d.peerList[q].known = c.peerList[q].known
          /\ d.peerList[q].ttl = c.peerList[q].ttl
          /\ SubOf(c, q) \notin nets => SubOf(d, q) = SubOf(c, q)
          /\ SubOf(c, q) \in nets => SubOf(d, q) = Main
    BY <2>5 DEF MovedEntry, SubOf
  <2> HIDE DEF nets
  <2>8. pos \in {End, Null, Freed} \cup (Servers(c) \ {p})
    <3>1. Servers(c) \in SUBSET Nat
      BY Members
    <3>2. CASE p \in Servers(c)
      <4> DEFINE later == {t \in Servers(c) : t > p}
      <4>1. later \in SUBSET Nat /\ p \notin later /\ later \subseteq Servers(c)
        BY <3>1, <3>2
      <4>2. NextServer(c, p) \in {End} \cup later
        <5> HIDE DEF later
        <5>1. FirstOf(later) \in {End} \cup later
          BY <4>1, MinProperties DEF FirstOf
        <5> QED BY <5>1 DEF NextServer, later
      <4>3. NextServer(c, p) \in {End} \cup (Servers(c) \ {p})
        BY <4>1, <4>2
      <4>4. pos = IF c.pos = p THEN NextServer(c, p) ELSE c.pos
        BY <3>2 DEF PosAfter
      <4>5. c.pos \in {End, Null, Freed} \cup Servers(c)
        BY <1>0 DEF ChannelType, Servers
      <4> HIDE DEF later
      <4> QED BY <4>3, <4>4, <4>5
    <3>3. CASE p \notin Servers(c)
      BY <1>0, <3>3 DEF PosAfter, ChannelType, Servers
    <3> QED BY <3>2, <3>3
  <2>9. ChannelType(d)
    <3>1. d.peerList \in [DOMAIN d.peerList -> PeerEntries] /\ DOMAIN d.peerList \subseteq Peers
      BY <1>0, <2>4, <2>5 DEF MovedEntry, Function, ChannelType
    <3>2. d.candidates \in [DOMAIN d.candidates -> CandidateEntries]
      BY <1>0, <2>3 DEF ChannelType, Candidates
    <3>3. d.subList \in [DOMAIN d.subList -> Parallel]
      BY <1>0, <2>3 DEF ChannelType, Servers
    <3>4. d.pos \in {End, Null, Freed} \cup DOMAIN d.subList
      BY <2>3, <2>4, <2>8 DEF Servers
    <3> QED BY <1>0, <2>3, <3>1, <3>2, <3>3, <3>4 DEF ChannelType, Record
  <2>10. Good(d)
    <3>1. Served(d)
      <4> SUFFICES ASSUME NEW q \in DOMAIN d.peerList, SubOf(d, q) \in Parallel
                   PROVE  \E s \in Servers(d) : d.subList[s] = SubOf(d, q)
        BY DEF Served
      <4>1. SubOf(c, q) \notin nets /\ SubOf(d, q) = SubOf(c, q)
        BY <2>7, SubNumbers
      <4>2. PICK s \in Servers(c) : c.subList[s] = SubOf(c, q)
        BY <2>4, <4>1 DEF Good, Served
      <4>3. CASE s # p
        BY <2>4, <4>1, <4>2, <4>3
      <4>4. CASE s = p
        <5>1. ~FinishingServer(c, p)
          BY <4>1, <4>2, <4>4 DEF nets
        <5>2. PICK t \in Servers(c) \ {p} : c.subList[t] = c.subList[p]
          BY <5>1 DEF FinishingServer
        <5> QED BY <2>4, <4>1, <4>2, <4>4, <5>2
      <4> QED BY <4>3, <4>4
    <3>2. KnownServers(d)
      BY <2>4, <2>6, <2>7 DEF Good, KnownServers, HasPeer
    <3>3. NoneInNormal(d) /\ StrangersOutside(d)
      BY <2>3, <2>4, <2>6, <2>7 DEF Good, NoneInNormal, StrangersOutside
    <3> QED BY <2>9, <3>1, <3>2, <3>3 DEF Good
  <2>11. /\ Servers(d) = Servers(c) \cap DOMAIN d.peerList
         /\ Candidates(d) = Candidates(c) \cap DOMAIN d.peerList
    BY <2>4, Members
  <2>12. \A q \in DOMAIN d.peerList :
           \/ SubOf(d, q) = SubOf(c, q)
           \/ /\ SubOf(c, q) \in Parallel /\ SubOf(d, q) = Main
              /\ \A s \in Servers(d) : c.subList[s] # SubOf(c, q)
    BY <2>6, <2>7
  <2> QED BY <1>3, <2>3, <2>4, <2>7, <2>10, <2>11, <2>12 DEF Swept
<1> QED BY <1>0, <1>1, <1>2, <1>3

AgedOf(c) ==
    [c EXCEPT !.peerList =
        [p \in DOMAIN @ |-> [@[p] EXCEPT !.ttl = c.peerList[p].ttl - 1]]]

SilentIn(c) == {p \in DOMAIN c.peerList : c.peerList[p].ttl <= 0}

\* The body of the recursion of CheckActivePeers.
DropAfter(a, f, gone) ==
    IF gone = {} THEN {a}
    ELSE UNION {Drop(d, Max(gone)) : d \in f[gone \ {Max(gone)}]}

SweepOf(a, silent) ==
    CHOOSE f : f = [gone \in SUBSET silent |-> DropAfter(a, f, gone)]

\* The sweep of CheckActivePeers, with its recursion named.
LEMMA SweepIsRecursion ==
  ASSUME NEW c
  PROVE  CheckActivePeers(c) = SweepOf(AgedOf(c), SilentIn(AgedOf(c)))[SilentIn(AgedOf(c))]
BY DEF CheckActivePeers, SweepOf, DropAfter, AgedOf, SilentIn

\* The recursion is well-founded, so that its equation has a solution: a least
\* set of silent peers for which it has none leads to a contradiction.
LEMMA SweepEquation ==
  ASSUME NEW a, NEW silent \in SUBSET Nat, IsFiniteSet(silent)
  PROVE  SweepOf(a, silent) =
           [gone \in SUBSET silent |-> DropAfter(a, SweepOf(a, silent), gone)]
<1> DEFINE Solves(f, T) == f = [gone \in SUBSET T |-> DropAfter(a, f, gone)]
           Bad == {T \in SUBSET silent : ~ \E f : Solves(f, T)}
<1>1. ASSUME Bad # {} PROVE FALSE
  <2>1. Bad \subseteq FiniteSubsetsOf(silent)
    BY FS_FiniteSubsetsOfFinite
  <2>2. PICK T \in Bad : \A U \in Bad : <<U, T>> \notin StrictSubsetOrdering(silent)
    <3> HIDE DEF Bad
    <3> QED BY <1>1, <2>1, WFMin, FS_StrictSubsetOrderingWellFounded
  <2>3. T \in SUBSET Nat /\ IsFiniteSet(T) /\ T \in SUBSET silent
    BY <2>2, FS_Subset
  <2>4. CASE T = {}
    <3>1. Solves([gone \in {{}} |-> {a}], {})
      BY DEF DropAfter
    <3> QED BY <2>2, <2>4, <3>1
  <2>5. CASE T # {}
    <3> DEFINE m == Max(T)
               U == T \ {m}
    <3>1. m \in T /\ \A y \in T : m >= y
      BY <2>3, <2>5, MaxProperties
    <3>2. U \notin Bad
      BY <2>2, <2>3, <3>1, ZenonT(40) DEF StrictSubsetOrdering
    <3>3. PICK f : Solves(f, U)
      BY <2>3, <3>2
    <3> DEFINE g == [gone \in SUBSET T |->
                        IF m \in gone THEN DropAfter(a, f, gone) ELSE f[gone]]
    <3>4. ASSUME NEW gone \in SUBSET T PROVE g[gone] = DropAfter(a, g, gone)
      <4>1. CASE gone = {}
        <5>1. g[gone] = f[gone] /\ gone \in SUBSET U
          BY <4>1
        <5>2. f[gone] = DropAfter(a, f, gone)
          BY <3>3, <5>1
        <5> QED BY <4>1, <5>1, <5>2 DEF DropAfter
      <4>2. CASE gone # {}
        <5> DEFINE n == Max(gone)
        <5>1. n \in gone /\ \A y \in gone : n >= y
          BY <2>3, <4>2, FS_Subset, MaxProperties
        <5>2. m \in gone => n = m
          <6>1. n \in Nat /\ m \in Nat /\ m >= n
            BY <2>3, <3>1, <5>1
          <6>2. m \in gone => n >= m
            BY <5>1
          <6> QED BY <6>1, <6>2
        <5>3. m \notin gone \ {n} /\ gone \ {n} \in SUBSET T
          BY <5>1, <5>2
        <5>4. g[gone \ {n}] = f[gone \ {n}]
          BY <5>3
        <5>5. DropAfter(a, g, gone) = DropAfter(a, f, gone)
          BY <4>2, <5>4 DEF DropAfter
        <5>6. g[gone] = DropAfter(a, f, gone)
          <6>1. CASE m \in gone
            BY <6>1
          <6>2. CASE m \notin gone
            BY <3>3, <6>2
          <6> QED BY <6>1, <6>2
        <5> QED BY <5>5, <5>6
      <4> QED BY <4>1, <4>2
    <3>5. Solves(g, T)
      BY <3>4
    <3> QED BY <2>2, <3>5
  <2> QED BY <2>4, <2>5
<1>2. \E f : Solves(f, silent)
  BY <1>1
<1> QED BY <1>2 DEF SweepOf

\* A sweep drops the silent peers and leaves what Swept says.
LEMMA SweepSweeps ==
  ASSUME NEW a, Good(a), ~a.hung, NEW silent \in SUBSET DOMAIN a.peerList,
         NEW d \in SweepOf(a, silent)[silent]
  PROVE  Swept(a, d, silent)
<1>1. silent \in SUBSET Nat /\ IsFiniteSet(silent)
  BY Members, FS_Subset
<1> DEFINE f == SweepOf(a, silent)
           Bad == {S \in SUBSET silent : ~ \A x \in f[S] : Swept(a, x, S)}
<1>a. f = [S \in SUBSET silent |-> DropAfter(a, f, S)]
  BY <1>1, SweepEquation, ZenonT(40)
<1> HIDE DEF f
<1>2. \A S \in SUBSET silent : f[S] = DropAfter(a, f, S)
  BY <1>a
<1>3. ASSUME Bad # {} PROVE FALSE
  <2>1. Bad \subseteq FiniteSubsetsOf(silent)
    BY <1>1, FS_FiniteSubsetsOfFinite
  <2>2. PICK S \in Bad : \A U \in Bad : <<U, S>> \notin StrictSubsetOrdering(silent)
    <3> HIDE DEF Bad
    <3> QED BY <1>3, <2>1, WFMin, FS_StrictSubsetOrderingWellFounded
  <2>3. S \in SUBSET silent /\ S \in SUBSET Nat /\ IsFiniteSet(S)
    BY <1>1, <2>2, FS_Subset
  <2>4. PICK x \in f[S] : ~Swept(a, x, S)
    BY <2>2
  <2>5. CASE S = {}
    <3>1. x = a
      BY <1>2, <2>3, <2>4, <2>5 DEF DropAfter
    <3>2. Swept(a, a, {})
      BY Members DEF Swept
    <3> QED BY <2>4, <2>5, <3>1, <3>2
  <2>6. CASE S # {}
    <3> DEFINE m == Max(S)
    <3>1. m \in S
      BY <2>3, <2>6, MaxProperties
    <3> HIDE DEF m
    <3>2. f[S] = UNION {Drop(y, m) : y \in f[S \ {m}]}
      BY <1>2, <2>3, <2>6 DEF DropAfter, m
    <3>3. PICK y \in f[S \ {m}] : x \in Drop(y, m)
      BY <2>4, <3>2
    <3>4. S \ {m} \notin Bad /\ S \ {m} \in SUBSET silent
      <4>1. <<S \ {m}, S>> \in StrictSubsetOrdering(silent)
        BY <2>3, <3>1 DEF StrictSubsetOrdering
      <4> HIDE DEF Bad
      <4> QED BY <2>2, <2>3, <4>1
    <3>5. Swept(a, y, S \ {m})
      BY <3>3, <3>4
    <3>6. Swept(y, x, {m}) /\ (y.hung => x.hung)
      BY <3>3, <3>5, DropSweeps DEF Swept
    <3>7. Swept(a, x, (S \ {m}) \cup {m})
      BY <3>5, <3>6, SweptTwice
    <3>8. (S \ {m}) \cup {m} = S
      BY <3>1
    <3> QED BY <2>4, <3>7, <3>8
  <2> QED BY <2>5, <2>6
<1> QED BY <1>3 DEF f

\* Every TTL of the sweep's start is at least one, so that it may be decremented.
TTLsLeft(c) == \A p \in DOMAIN c.peerList : c.peerList[p].ttl >= 1

\* Every TTL one less: the channel stays sound, but for the silent peers.
LEMMA AgedGood ==
  ASSUME NEW c, Good(c), TTLsLeft(c)
  PROVE  /\ Good(AgedOf(c)) /\ AgedOf(c).mode = c.mode /\ AgedOf(c).hung = c.hung
         /\ AgedOf(c).subList = c.subList /\ AgedOf(c).candidates = c.candidates
         /\ DOMAIN AgedOf(c).peerList = DOMAIN c.peerList
         /\ \A p \in DOMAIN c.peerList :
              /\ AgedOf(c).peerList[p].known = c.peerList[p].known
              /\ SubOf(AgedOf(c), p) = SubOf(c, p)
<1> DEFINE a == AgedOf(c)
<1>0. ChannelType(c)
  BY DEF Good
<1>1. /\ Record(a) /\ a.mode = c.mode /\ a.hung = c.hung /\ a.pos = c.pos
      /\ a.subList = c.subList /\ a.candidates = c.candidates
      /\ a.peerList = [p \in DOMAIN c.peerList |->
                          [c.peerList[p] EXCEPT !.ttl = c.peerList[p].ttl - 1]]
  BY <1>0, SMTT(30) DEF ChannelType, Record, AgedOf
<1> HIDE DEF a
<1>2. ASSUME NEW e \in PeerEntries, e.ttl >= 1
      PROVE  LET f == [e EXCEPT !.ttl = e.ttl - 1]
             IN  f \in PeerEntries /\ f.known = e.known /\ f.sub = e.sub
  BY <1>2 DEF PeerEntries
<1>3. \A p \in DOMAIN c.peerList :
        /\ a.peerList[p] \in PeerEntries
        /\ a.peerList[p].known = c.peerList[p].known
        /\ SubOf(a, p) = SubOf(c, p)
  <2> SUFFICES ASSUME NEW p \in DOMAIN c.peerList
               PROVE  /\ a.peerList[p] \in PeerEntries
                      /\ a.peerList[p].known = c.peerList[p].known
                      /\ SubOf(a, p) = SubOf(c, p)
    OBVIOUS
  <2>1. c.peerList[p] \in PeerEntries /\ c.peerList[p].ttl >= 1
    BY <1>0 DEF ChannelType, TTLsLeft
  <2>2. a.peerList[p] = [c.peerList[p] EXCEPT !.ttl = c.peerList[p].ttl - 1]
    BY <1>1
  <2> QED BY <1>2, <2>1, <2>2 DEF SubOf
<1>4. ChannelType(a) /\ DOMAIN a.peerList = DOMAIN c.peerList
  BY <1>0, <1>1, <1>3 DEF ChannelType, Record
<1>5. Served(a) /\ KnownServers(a) /\ NoneInNormal(a) /\ StrangersOutside(a)
  <2>1. Served(a)
    BY <1>1, <1>3, <1>4 DEF Good, Served, Servers
  <2>2. KnownServers(a)
    BY <1>1, <1>3, <1>4 DEF Good, KnownServers, HasPeer, Servers, Candidates
  <2>3. NoneInNormal(a) /\ StrangersOutside(a)
    BY <1>1, <1>3, <1>4 DEF Good, NoneInNormal, StrangersOutside, Servers
  <2> QED BY <2>1, <2>2, <2>3
<1>6. Good(a)
  BY <1>4, <1>5 DEF Good
<1> QED BY <1>1, <1>3, <1>4, <1>6 DEF a

\* What a sweep may do to the peers and the candidates that remain.
Sweep(c, d) ==
    /\ Good(d) /\ DOMAIN d.peerList \subseteq DOMAIN c.peerList
    /\ ~d.hung => TTLsLeft(d)
    /\ Candidates(d) = Candidates(c) \cap DOMAIN d.peerList
    /\ \A p \in Candidates(d) : d.candidates[p] = c.candidates[p]
    /\ \A p \in DOMAIN d.peerList :
         /\ LeavesJustly(c, d, p)
         /\ \A q \in DOMAIN d.peerList : Together(c, p, q) => Together(d, p, q)

\* Whatever the order in which the silent peers go, the channel is sound after the sweep.
LEMMA SweepGood ==
  ASSUME NEW c, Good(c), ~c.hung, TTLsLeft(c), NEW d \in CheckActivePeers(c)
  PROVE  Sweep(c, d)
<1> DEFINE a == AgedOf(c)
           silent == SilentIn(a)
<1>1. /\ Good(a) /\ ~a.hung /\ a.mode = c.mode
      /\ Servers(a) = Servers(c) /\ Candidates(a) = Candidates(c)
      /\ a.subList = c.subList /\ a.candidates = c.candidates
      /\ DOMAIN a.peerList = DOMAIN c.peerList
      /\ \A p \in DOMAIN c.peerList : SubOf(a, p) = SubOf(c, p)
  BY AgedGood DEF Servers, Candidates
<1>2. d \in SweepOf(a, silent)[silent]
  BY SweepIsRecursion
<1> HIDE DEF a
<1>3. silent \in SUBSET DOMAIN a.peerList
  BY DEF SilentIn
<1> HIDE DEF silent
<1>4. Swept(a, d, silent)
  BY <1>1, <1>2, <1>3, SweepSweeps
<1>5. /\ Good(d) /\ DOMAIN d.peerList \subseteq DOMAIN c.peerList
      /\ Servers(d) = Servers(c) \cap DOMAIN d.peerList
      /\ \A s \in Servers(d) : d.subList[s] = c.subList[s]
      /\ Candidates(d) = Candidates(c) \cap DOMAIN d.peerList
      /\ \A p \in Candidates(d) : d.candidates[p] = c.candidates[p]
  BY <1>1, <1>4 DEF Swept
<1>6. ~d.hung => TTLsLeft(d)
  <2> SUFFICES ASSUME ~d.hung, NEW p \in DOMAIN d.peerList
               PROVE  d.peerList[p].ttl >= 1
    BY DEF TTLsLeft
  <2>1. p \in DOMAIN a.peerList \ silent /\ d.peerList[p].ttl = a.peerList[p].ttl
    BY <1>4 DEF Swept
  <2>2. ~(a.peerList[p].ttl <= 0)
    BY <2>1 DEF silent, SilentIn
  <2>3. d.peerList[p] \in PeerEntries
    BY <1>5 DEF Good, ChannelType
  <2>4. d.peerList[p].ttl \in Int
    BY <2>3 DEF PeerEntries
  <2> QED BY <2>1, <2>2, <2>4
<1>7. \A p \in DOMAIN d.peerList :
        \/ SubOf(d, p) = SubOf(c, p)
        \/ /\ SubOf(c, p) \in Parallel /\ SubOf(d, p) = Main
           /\ \A s \in Servers(d) : c.subList[s] # SubOf(c, p)
  BY <1>1, <1>4, <1>5 DEF Swept
<1>8. ASSUME NEW p \in DOMAIN d.peerList PROVE LeavesJustly(c, d, p)
  <2> SUFFICES ASSUME SubOf(c, p) \in Parallel, SubOf(d, p) # SubOf(c, p)
               PROVE  SubOf(d, p) = Main /\ ServersOf(c, p) \cap Servers(d) = {}
    BY DEF LeavesJustly
  <2> QED BY <1>7, ServersOfParallel
<1>9. ASSUME NEW p \in DOMAIN d.peerList, NEW q \in DOMAIN d.peerList, Together(c, p, q)
      PROVE  Together(d, p, q)
  <2>1. \A x \in DOMAIN d.peerList :
          SubOf(d, x) \in Parallel => SubOf(d, x) = SubOf(c, x)
    BY <1>7, SubNumbers
  <2>2. CASE SubOf(c, p) = SubOf(c, q)
    <3>1. CASE SubOf(d, p) = SubOf(c, p) /\ SubOf(d, q) = SubOf(c, q)
      BY <2>2, <3>1 DEF Together
    <3>2. CASE SubOf(d, p) # SubOf(c, p) /\ SubOf(d, q) # SubOf(c, q)
      BY <1>7, <3>2 DEF Together
    <3>3. ASSUME NEW x \in DOMAIN d.peerList, NEW y \in DOMAIN d.peerList,
                 SubOf(c, x) = SubOf(c, y),
                 SubOf(d, x) # SubOf(c, x), SubOf(d, y) = SubOf(c, y)
          PROVE  FALSE
      <4>1. SubOf(d, y) \in Parallel /\ \A s \in Servers(d) : c.subList[s] # SubOf(d, y)
        BY <1>7, <3>3
      <4> QED BY <1>5, <4>1 DEF Good, Served
    <3> QED BY <2>2, <3>1, <3>2, <3>3
  <2>3. CASE SubOf(c, p) \notin Parallel /\ SubOf(c, q) \notin Parallel
    BY <1>7, <2>3 DEF Together
  <2>4. CASE q \in ServersOf(c, p)
    <3>1. q \in Servers(d) /\ c.subList[q] = SubOf(c, p) /\ SubOf(c, p) > Main
      BY <1>5, <2>4 DEF ServersOf
    <3>2. SubOf(d, p) = SubOf(c, p)
      BY <1>7, <3>1
    <3>3. q \in ServersOf(d, p)
      BY <1>5, <3>1, <3>2 DEF ServersOf
    <3> QED BY <3>3 DEF Together
  <2> QED BY <1>9, <2>2, <2>3, <2>4 DEF Together
<1> QED BY <1>5, <1>6, <1>8, <1>9 DEF Sweep
-----------------------------------------------------------------------------
(***************************************************************************)
(* A new channel, and the lists it hands out.                               *)
(***************************************************************************)

\* A new channel is sound and has its server alone.
LEMMA NewChannelGood ==
  /\ Good(NewChannel) /\ TTLsLeft(NewChannel) /\ ~NewChannel.hung
  /\ DOMAIN NewChannel.peerList = {Server} /\ HasPeer(NewChannel, Server)
  /\ Candidates(NewChannel) = {}
<1> DEFINE bare == [mode |-> "NORMAL", peerList |-> <<>>, subList |-> <<>>,
                    candidates |-> <<>>, pos |-> Null, hung |-> FALSE]
<1>1. Good(bare) /\ DOMAIN bare.peerList = {} /\ Candidates(bare) = {} /\ ~bare.hung
  <2>1. <<>> \in [{} -> PeerEntries] /\ <<>> \in [{} -> CandidateEntries]
        /\ <<>> \in [{} -> Parallel] /\ DOMAIN <<>> = {}
    OBVIOUS
  <2>2. ChannelType(bare)
    BY <2>1 DEF ChannelType, Modes
  <2> QED BY <2>1, <2>2 DEF Good, Served, KnownServers, NoneInNormal,
                            StrangersOutside, Servers, Candidates
<1>2. NewChannel = AddPeerMasterChannel(bare, Server)
  BY DEF NewChannel
<1> HIDE DEF bare
<1>3. Added(bare, NewChannel, Server)
  BY <1>1, <1>2, PutPlaces DEF HasPeer
<1> QED BY <1>1, <1>3 DEF Added, TTLsLeft, Candidates

\* Without mixing, whoever p is handed is in its network or serves it, or both
\* are outside of every parallel channel.
LEMMA SelectsTogether ==
  ASSUME ~Mixed, NEW c, Good(c), NEW p \in DOMAIN c.peerList, NEW size \in Nat,
         NEW list \in SelectPeerList(c, p, size), NEW q \in list
  PROVE  q \in DOMAIN c.peerList /\ Together(c, p, q)
<1>1. q \in Selectable(c, p)
  BY DEF SelectPeerList, kSubset
<1>2. CASE c.mode = "NORMAL"
  <2>1. q \in DOMAIN c.peerList
    BY <1>1, <1>2 DEF Selectable
  <2>2. \A x \in DOMAIN c.peerList : SubOf(c, x) \notin Parallel
    BY <1>2 DEF Good, NoneInNormal, Served
  <2> QED BY <2>1, <2>2 DEF Together
<1>3. CASE c.mode # "NORMAL"
  <2>1. q \in ServersOf(c, p)
        \/ (q \in DOMAIN c.peerList /\ MayMeet(c, p, q))
    BY <1>1, <1>3 DEF Selectable
  <2>2. CASE q \in ServersOf(c, p)
    BY <2>2, Members DEF ServersOf, Together
  <2>3. CASE q \in DOMAIN c.peerList /\ MayMeet(c, p, q)
    <3>1. SubOf(c, p) \in Subs /\ SubOf(c, q) \in Subs
      BY <2>3, Members
    <3> QED BY <2>3, <3>1, SubNumbers DEF MayMeet, Together
  <2> QED BY <2>1, <2>2, <2>3
<1> QED BY <1>2, <1>3
=============================================================================
