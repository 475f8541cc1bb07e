-------------------------- MODULE Bootstrap_proofs --------------------------
(***************************************************************************)
(* Safety of the bootstrap for any peers, sizes and number of changes of    *)
(* state.  A channel stays good through polls, pings, changes of state and  *)
(* sweeps (Channel_proofs says so of each method); on that rest the         *)
(* isolation of the networks, the news of the servers and the reasons for   *)
(* which a peer may leave its network.                                      *)
(***************************************************************************)
EXTENDS Bootstrap, Channel_proofs

\* The channel is good; it neither hung nor counts TTLs down to zero while the
\* process runs.
ChannelGood == Exists => Good(channel)
StillCounting == Exists /\ Running => ~channel.hung /\ TTLsLeft(channel)

\* Only peers of the channel have met.
MetPresent ==
    \A p \in Peers : \A q \in met[p] :
        Exists /\ p \in DOMAIN channel.peerList /\ q \in DOMAIN channel.peerList

IInv == TypeOK /\ ChannelGood /\ StillCounting /\ MetPresent

\* Whoever has met may know each other.
MetTogether == \A p \in Peers : \A q \in met[p] : Exists => Together(channel, p, q)

\* Who serves or merges in c knows, or will be told.
ServingAnnounced(c, heard) ==
    \A p \in Candidates(c) : c.candidates[p].state # "NO_SERVER_AUX" =>
        c.candidates[p].inform \/ heard[p] = c.candidates[p].state

USE ChannelAssumption, BootstrapAssumption
DEF ChannelAssumption, BootstrapAssumption
-----------------------------------------------------------------------------
(***************************************************************************)
(* What the steps do to the channel.                                        *)
(***************************************************************************)

\* d has the networks of c: marks and TTLs may differ.
SameNetworks(c, d) ==
    /\ Good(d) /\ TTLsLeft(d) /\ ~d.hung
    /\ d.mode = c.mode /\ d.subList = c.subList
    /\ DOMAIN d.peerList = DOMAIN c.peerList
    /\ \A q \in DOMAIN c.peerList : SubOf(d, q) = SubOf(c, q)
    /\ Candidates(d) = Candidates(c)
    /\ \A q \in Candidates(c) : d.candidates[q].state = c.candidates[q].state

\* Peers of one network are together still when no network has changed.
LEMMA SameTogether ==
  ASSUME NEW c, NEW d, SameNetworks(c, d),
         NEW p \in DOMAIN c.peerList, NEW q \in DOMAIN c.peerList
  PROVE  Together(c, p, q) => Together(d, p, q)
BY DEF SameNetworks, Together, ServersOf, Servers

\* An entry gets another TTL or loses its mark.
LEMMA EntryUpdate ==
  ASSUME NEW c, Good(c), TTLsLeft(c), ~c.hung, NEW p \in DOMAIN c.peerList,
         NEW e \in PeerEntries, e.known = c.peerList[p].known,
         e.sub = c.peerList[p].sub, e.ttl >= 1,
         NEW d, d = [c EXCEPT !.peerList = [c.peerList EXCEPT ![p] = e]]
  PROVE  SameNetworks(c, d) /\ d.candidates = c.candidates
<1>0. ChannelType(c)
  BY DEF Good
<1>1. /\ Record(d) /\ d.mode = c.mode /\ d.hung = c.hung /\ d.pos = c.pos
      /\ d.subList = c.subList /\ d.candidates = c.candidates
      /\ DOMAIN d.peerList = DOMAIN c.peerList /\ Function(d.peerList)
      /\ \A q \in DOMAIN c.peerList :
           d.peerList[q] = IF q = p THEN e ELSE c.peerList[q]
  BY <1>0 DEF ChannelType, Record, Function
<1>2. \A q \in DOMAIN c.peerList :
        /\ d.peerList[q] \in PeerEntries /\ d.peerList[q].ttl >= 1
        /\ d.peerList[q].known = c.peerList[q].known
        /\ SubOf(d, q) = SubOf(c, q)
  BY <1>0, <1>1 DEF ChannelType, SubOf, TTLsLeft
<1>3. ChannelType(d)
  BY <1>0, <1>1, <1>2 DEF ChannelType, Record, Function
<1>4. Served(d) /\ NoneInNormal(d) /\ StrangersOutside(d) /\ KnownServers(d)
  <2>1. Served(d) /\ NoneInNormal(d)
    BY <1>1, <1>2 DEF Good, Served, NoneInNormal, Servers
  <2>2. StrangersOutside(d)
    BY <1>1, <1>2 DEF Good, StrangersOutside
  <2>3. KnownServers(d)
    BY <1>1, <1>2 DEF Good, KnownServers, Servers, Candidates, HasPeer
  <2> QED BY <2>1, <2>2, <2>3
<1>5. Good(d)
  BY <1>3, <1>4 DEF Good
<1> QED BY <1>1, <1>2, <1>5 DEF SameNetworks, TTLsLeft, Candidates

\* A candidate's mark is taken off.
LEMMA CandidateUpdate ==
  ASSUME NEW c, Good(c), TTLsLeft(c), ~c.hung, NEW p \in Candidates(c),
         NEW d, d = [c EXCEPT !.candidates[p].inform = FALSE]
  PROVE  /\ SameNetworks(c, d)
         /\ \A q \in Candidates(c) \ {p} : d.candidates[q] = c.candidates[q]
<1>0. ChannelType(c)
  BY DEF Good
<1> DEFINE e == [c.candidates[p] EXCEPT !.inform = FALSE]
<1>1. /\ Record(d) /\ d.mode = c.mode /\ d.hung = c.hung /\ d.pos = c.pos
      /\ d.subList = c.subList /\ d.peerList = c.peerList
      /\ d.candidates = [c.candidates EXCEPT ![p] = e]
  BY <1>0 DEF ChannelType, Record
<1>2. e \in CandidateEntries /\ e.state = c.candidates[p].state
  BY <1>0 DEF ChannelType, CandidateEntries, Candidates
<1> HIDE DEF e
<1>3. /\ Candidates(d) = Candidates(c) /\ Function(d.candidates)
      /\ \A q \in Candidates(c) :
           /\ d.candidates[q] = IF q = p THEN e ELSE c.candidates[q]
           /\ d.candidates[q] \in CandidateEntries
           /\ d.candidates[q].state = c.candidates[q].state
  BY <1>0, <1>1, <1>2 DEF ChannelType, Candidates, Function
<1>4. ChannelType(d)
  BY <1>0, <1>1, <1>3 DEF ChannelType, Record, Function, Candidates
<1>5. Served(d) /\ NoneInNormal(d) /\ StrangersOutside(d) /\ KnownServers(d)
  <2>1. Served(d) /\ NoneInNormal(d) /\ StrangersOutside(d)
    BY <1>1 DEF Good, Served, NoneInNormal, StrangersOutside, Servers, SubOf
  <2>2. KnownServers(d)
    BY <1>1, <1>3 DEF Good, KnownServers, Servers, HasPeer, SubOf
  <2> QED BY <2>1, <2>2
<1>6. Good(d)
  BY <1>4, <1>5 DEF Good
<1> QED BY <1>1, <1>3, <1>6 DEF SameNetworks, TTLsLeft, SubOf
\* Whoever p is handed is a peer of the channel.
LEMMA SelectsPresent ==
  ASSUME NEW c, Good(c), NEW p, NEW list \in SelectPeerList(c, p, ListSize)
  PROVE  list \subseteq DOMAIN c.peerList
<1>1. ServersOf(c, p) \subseteq DOMAIN c.peerList
  BY Members DEF ServersOf
<1>2. Selectable(c, p) \subseteq DOMAIN c.peerList
  BY <1>1 DEF Selectable
<1> QED BY <1>1, <1>2 DEF SelectPeerList, kSubset

\* Acquaintances among the peers of a channel.
Acquainted(c, acq) ==
    /\ acq \in [Peers -> SUBSET Peers]
    /\ \A p \in Peers : \A q \in acq[p] :
         p \in DOMAIN c.peerList /\ q \in DOMAIN c.peerList

AllTogether(c, acq) == \A p \in Peers : \A q \in acq[p] : Together(c, p, q)

\* What the end of HandleChannelMessage may do, whichever of the three answers
\* it gives.
Replied(c, d, acq) ==
    /\ channelList' = <<d>> /\ SameNetworks(c, d)
    /\ Acquainted(d, met')
    /\ ~Mixed /\ AllTogether(c, acq) => AllTogether(d, met')
    /\ told' \in [Peers -> AuxStates] /\ down' \in {down, "crashed"}
    /\ ServingAnnounced(c, told) => ServingAnnounced(d, told')

\* A reply from a sound channel leaves it as Replied describes, with the peer told of its news.
LEMMA ReplyReplies ==
  ASSUME TypeOK, NEW c, Good(c), TTLsLeft(c), ~c.hung,
         NEW p \in Peers, p \in DOMAIN c.peerList,
         NEW acq, Acquainted(c, acq), Reply(c, p, acq)
  PROVE  \E d : Replied(c, d, acq)
<1>0. /\ told \in [Peers -> AuxStates] /\ ChannelType(c)
      /\ Candidates(c) \subseteq DOMAIN c.peerList /\ DOMAIN c.peerList \in SUBSET Peers
  BY Members DEF TypeOK, Good
<1>a. ASSUME NEW d, SameNetworks(c, d)
      PROVE  Acquainted(d, acq) /\ (AllTogether(c, acq) => AllTogether(d, acq))
  BY <1>a, SameTogether DEF Acquainted, AllTogether, SameNetworks
<1>1. CASE InformServerSub(c, p, acq)
  <2> DEFINE d == [c EXCEPT !.candidates[p].inform = FALSE]
  <2>1. /\ p \in Candidates(c) /\ channelList' = <<d>>
        /\ told' = [told EXCEPT ![p] = c.candidates[p].state]
        /\ met' = acq /\ down' = down
    BY <1>1 DEF InformServerSub
  <2>2. /\ SameNetworks(c, d)
        /\ \A q \in Candidates(c) \ {p} : d.candidates[q] = c.candidates[q]
    BY <2>1, CandidateUpdate
  <2> HIDE DEF d
  <2>3. c.candidates[p].state \in AuxStates
    BY <1>0, <2>1 DEF ChannelType, Candidates, CandidateEntries
  <2>4. told' \in [Peers -> AuxStates]
    BY <1>0, <2>1, <2>3
  <2>5. Candidates(d) = Candidates(c) /\ d.candidates[p].state = c.candidates[p].state
    BY <2>1, <2>2 DEF SameNetworks
  <2>6. /\ told'[p] = d.candidates[p].state
        /\ \A q \in Peers \ {p} : told'[q] = told[q]
    BY <1>0, <2>1, <2>5
  <2>7. ServingAnnounced(c, told) => ServingAnnounced(d, told')
    BY <1>0, <2>2, <2>5, <2>6 DEF ServingAnnounced
  <2>8. Replied(c, d, acq)
    BY <1>a, <2>1, <2>2, <2>4, <2>7 DEF Replied
  <2> QED BY <2>8
<1>2. CASE ShareServerAuxList(c, p, acq)
  <2> DEFINE e == [c.peerList[p] EXCEPT !.wait = FALSE]
             d == [c EXCEPT !.peerList = [c.peerList EXCEPT ![p] = e]]
  <2>1. channelList' = <<d>> /\ met' = acq /\ down' = down /\ told' = told
    BY <1>2 DEF ShareServerAuxList
  <2>2. e \in PeerEntries /\ e.known = c.peerList[p].known
        /\ e.sub = c.peerList[p].sub /\ e.ttl >= 1
    BY <1>0 DEF ChannelType, PeerEntries, TTLsLeft
  <2> HIDE DEF e
  <2>3. SameNetworks(c, d) /\ d.candidates = c.candidates
    BY <2>2, EntryUpdate
  <2> HIDE DEF d
  <2>4. ServingAnnounced(c, told) => ServingAnnounced(d, told')
    BY <2>1, <2>3 DEF ServingAnnounced, Candidates
  <2>5. Replied(c, d, acq)
    BY <1>0, <1>a, <2>1, <2>3, <2>4 DEF Replied
  <2> QED BY <2>5
<1>3. CASE SharePeerList(c, p, acq)
  <2>1. channelList' = <<c>> /\ told' = told /\ SameNetworks(c, c)
    BY <1>3 DEF SharePeerList, SameNetworks
  <2>2. CASE met' = acq /\ down' = "crashed"
    <3>1. Replied(c, c, acq)
      BY <1>0, <1>a, <2>1, <2>2 DEF Replied
    <3> QED BY <3>1
  <2>3. CASE \E list \in SelectPeerList(c, p, ListSize) :
               met' = [acq EXCEPT ![p] = @ \cup list] /\ down' = down
    <3>1. PICK list \in SelectPeerList(c, p, ListSize) :
             met' = [acq EXCEPT ![p] = @ \cup list] /\ down' = down
      BY <2>3
    <3>2. list \subseteq DOMAIN c.peerList
      BY SelectsPresent
    <3>3. /\ met' \in [Peers -> SUBSET Peers] /\ met'[p] = acq[p] \cup list
          /\ \A q \in Peers \ {p} : met'[q] = acq[q]
      BY <1>0, <3>1, <3>2 DEF Acquainted
    <3>4. Acquainted(c, met')
      BY <3>2, <3>3 DEF Acquainted
    <3>5. ~Mixed /\ AllTogether(c, acq) => AllTogether(c, met')
      BY <3>3, SelectsTogether DEF AllTogether
    <3>6. Replied(c, c, acq)
      BY <1>0, <2>1, <3>1, <3>4, <3>5 DEF Replied
    <3> QED BY <3>6
  <2> QED BY <1>3, <2>2, <2>3 DEF SharePeerList
<1> QED BY <1>1, <1>2, <1>3 DEF Reply

\* After an answer the channel is d, and what held of it holds of the state.
LEMMA RepliedKeeps ==
  ASSUME TypeOK, Running, NEW c, NEW d, NEW acq, Replied(c, d, acq),
         UNCHANGED <<perfReads, changes>>
  PROVE  /\ IInv' /\ Exists' /\ channel' = d
         /\ ~Mixed /\ AllTogether(c, acq) => MetTogether'
         /\ ServingAnnounced(c, told) => ServersTold'
<1>1. /\ channelList' = <<d>> /\ SameNetworks(c, d) /\ Acquainted(d, met')
      /\ ~Mixed /\ AllTogether(c, acq) => AllTogether(d, met')
      /\ told' \in [Peers -> AuxStates] /\ down' \in {down, "crashed"}
      /\ ServingAnnounced(c, told) => ServingAnnounced(d, told')
  BY DEF Replied
<1>2. Exists' /\ channel' = d
  BY <1>1 DEF Exists, channel
<1>3. Good(d) /\ ChannelType(d) /\ ~d.hung /\ TTLsLeft(d)
  BY <1>1 DEF SameNetworks, Good
<1>4. TypeOK'
  BY <1>1, <1>2, <1>3 DEF TypeOK, Downs, Acquainted, Running
<1>5. ChannelGood' /\ StillCounting' /\ MetPresent'
  BY <1>1, <1>2, <1>3 DEF ChannelGood, StillCounting, MetPresent, Acquainted
<1>6. ~Mixed /\ AllTogether(c, acq) => MetTogether'
  BY <1>1, <1>2 DEF MetTogether, AllTogether
<1>7. ServingAnnounced(c, told) => ServersTold'
  BY <1>1, <1>2 DEF ServersTold, ServingAnnounced
<1> QED BY <1>2, <1>4, <1>5, <1>6, <1>7 DEF IInv

\* Between two channels peers leave parallel channels only for a reason.
MovesJustly ==
    Exists /\ Exists' =>
        \A p \in DOMAIN channel.peerList \cap DOMAIN channel'.peerList :
            LeavesJustly(channel, channel', p)

\* What every step does.
Keeps ==
    /\ IInv'
    /\ ~Mixed /\ MetTogether => MetTogether'
    /\ ServersTold => ServersTold'
    /\ MovesJustly

\* Peers that are added anew or are gone have met nobody.
LEMMA Forgets ==
  ASSUME TypeOK, NEW gone \in SUBSET Peers
  PROVE  /\ Forget(gone) \in [Peers -> SUBSET Peers]
         /\ \A p \in Peers : \A q \in Forget(gone)[p] :
              p \notin gone /\ q \notin gone /\ q \in met[p]
BY DEF TypeOK, Forget

\* A server's CHANNEL_CREATE makes a sound channel.
LEMMA CreateKeeps ==
  ASSUME IInv, Create
  PROVE  Keeps
<1>1. /\ Running /\ ~Exists /\ UNCHANGED <<perfReads, changes>> /\ TypeOK
      /\ Reply(NewChannel, Server, Forget({Server}))
  BY DEF Create, IInv
<1>2. \A p \in Peers : met[p] = {}
  BY <1>1 DEF IInv, MetPresent, TypeOK
<1>3. /\ Forget({Server}) \in [Peers -> SUBSET Peers]
      /\ \A p \in Peers : Forget({Server})[p] = {}
  <2>1. {Server} \in SUBSET Peers
    OBVIOUS
  <2>2. /\ Forget({Server}) \in [Peers -> SUBSET Peers]
        /\ \A p \in Peers : \A q \in Forget({Server})[p] : q \in met[p]
    BY <1>1, <2>1, Forgets
  <2> HIDE DEF Forget
  <2> QED BY <1>2, <2>2
<1>4. Acquainted(NewChannel, Forget({Server})) /\ AllTogether(NewChannel, Forget({Server}))
  BY <1>3 DEF Acquainted, AllTogether
<1>5. PICK d : Replied(NewChannel, d, Forget({Server}))
  <2>1. Server \in Peers /\ Server \in DOMAIN NewChannel.peerList
    BY NewChannelGood
  <2> QED BY <1>1, <1>4, <2>1, NewChannelGood, ReplyReplies
<1>6. ServingAnnounced(NewChannel, told)
  BY NewChannelGood DEF ServingAnnounced
<1> QED BY <1>1, <1>4, <1>5, <1>6, RepliedKeeps DEF Keeps, MovesJustly

\* A poll: p is added unless the channel knows it, and may become a candidate.
LEMMA ConnectKeeps ==
  ASSUME IInv, NEW p \in Peers, Connect(p)
  PROVE  Keeps
<1> DEFINE added == IF HasPeer(channel, p) THEN channel ELSE AddPeer(channel, p)
           c == IF p \in ServerCandidates
                THEN AnalizePeerToBeServerAux(added, p) ELSE added
           acq == IF HasPeer(channel, p) THEN met ELSE Forget({p})
<1>1. /\ Running /\ Exists /\ UNCHANGED <<perfReads, changes>> /\ TypeOK
      /\ Reply(c, p, acq)
  BY DEF Connect, IInv
<1>2. Good(channel) /\ ~channel.hung /\ TTLsLeft(channel)
  BY <1>1 DEF IInv, ChannelGood, StillCounting
<1>3. /\ Good(added) /\ ~added.hung /\ TTLsLeft(added) /\ HasPeer(added, p)
      /\ DOMAIN channel.peerList \subseteq DOMAIN added.peerList
      /\ \A q \in DOMAIN channel.peerList :
           q # p \/ HasPeer(channel, p) => added.peerList[q] = channel.peerList[q]
      /\ added.mode = channel.mode /\ added.subList = channel.subList
      /\ added.candidates = channel.candidates
  <2>1. CASE HasPeer(channel, p)
    BY <1>2, <2>1
  <2>2. CASE ~HasPeer(channel, p)
    <3>1. added = AddPeer(channel, p)
      BY <2>2
    <3> HIDE DEF added
    <3>2. Added(channel, added, p)
      BY <1>2, <2>2, <3>1, AddPeerGood
    <3>3. TTLsLeft(added)
      BY <1>2, <3>2 DEF Added, TTLsLeft
    <3> QED BY <1>2, <2>2, <3>2, <3>3 DEF Added
  <2> QED BY <2>1, <2>2
<1> HIDE DEF added
<1>4. Candidacy(added, c)
  BY <1>3, AnalizeGood DEF Candidacy, SamePeers
<1> HIDE DEF c
<1>5. /\ Good(c) /\ ~c.hung /\ TTLsLeft(c) /\ p \in DOMAIN c.peerList
      /\ DOMAIN channel.peerList \subseteq DOMAIN c.peerList
      /\ \A q \in DOMAIN channel.peerList :
           q # p \/ HasPeer(channel, p) => SubOf(c, q) = SubOf(channel, q)
      /\ c.mode = channel.mode /\ Servers(c) = Servers(channel)
      /\ c.subList = channel.subList
  BY <1>3, <1>4 DEF Candidacy, SamePeers, TTLsLeft, HasPeer, SubOf, Servers
<1>6. /\ acq \in [Peers -> SUBSET Peers]
      /\ \A x \in Peers : \A y \in acq[x] :
           /\ y \in met[x]
           /\ x # p \/ HasPeer(channel, p)
           /\ y # p \/ HasPeer(channel, p)
  <2>1. CASE HasPeer(channel, p)
    BY <1>1, <2>1 DEF TypeOK
  <2>2. CASE ~HasPeer(channel, p)
    <3>1. acq = Forget({p})
      BY <2>2
    <3>2. TypeOK /\ {p} \in SUBSET Peers
      BY <1>1
    <3>3. /\ Forget({p}) \in [Peers -> SUBSET Peers]
          /\ \A x \in Peers : \A y \in Forget({p})[x] :
               x \notin {p} /\ y \notin {p} /\ y \in met[x]
      BY <3>2, Forgets
    <3> HIDE DEF acq
    <3> QED BY <3>1, <3>3
  <2> QED BY <2>1, <2>2
<1> HIDE DEF acq
<1>7. Acquainted(c, acq)
  BY <1>5, <1>6 DEF IInv, MetPresent, Acquainted
<1>8. MetTogether => AllTogether(c, acq)
  <2> SUFFICES ASSUME MetTogether, NEW x \in Peers, NEW y \in acq[x]
               PROVE  Together(c, x, y)
    BY DEF AllTogether
  <2>1. /\ Together(channel, x, y)
        /\ x \in DOMAIN channel.peerList /\ y \in DOMAIN channel.peerList
    BY <1>1, <1>6 DEF MetTogether, IInv, MetPresent
  <2>2. SubOf(c, x) = SubOf(channel, x) /\ SubOf(c, y) = SubOf(channel, y)
    BY <1>5, <1>6, <2>1
  <2> QED BY <1>5, <2>1, <2>2 DEF Together, ServersOf
<1>9. PICK d : Replied(c, d, acq)
  BY <1>1, <1>5, <1>7, ReplyReplies
<1>10. /\ IInv' /\ Exists' /\ channel' = d
       /\ ~Mixed /\ AllTogether(c, acq) => MetTogether'
       /\ ServingAnnounced(c, told) => ServersTold'
  BY <1>1, <1>9, RepliedKeeps
<1>11. MovesJustly
  <2> SUFFICES ASSUME NEW q \in DOMAIN channel.peerList,
                      SubOf(channel, q) \in Parallel, SubOf(d, q) # SubOf(channel, q)
               PROVE  FALSE
    BY <1>10 DEF MovesJustly, LeavesJustly
  <2>1. SubOf(d, q) = SubOf(c, q)
    BY <1>5, <1>9 DEF Replied, SameNetworks
  <2>2. q = p /\ ~HasPeer(channel, p)
    BY <1>5, <2>1
  <2> QED BY <1>2, <2>2 DEF Good, StrangersOutside, HasPeer
<1>12. ServersTold => ServingAnnounced(c, told)
  <2>1. Candidates(added) = Candidates(channel) /\ added.candidates = channel.candidates
    BY <1>3 DEF Candidates
  <2> QED BY <1>1, <1>4, <2>1
          DEF ServersTold, ServingAnnounced, Candidacy, NewCandidate
<1> QED BY <1>8, <1>10, <1>11, <1>12 DEF Keeps

\* A change of state: nobody's network is joined with another's, and whoever is
\* to serve or to merge has the news waiting.
LEMMA ChangeStateKeeps ==
  ASSUME IInv, NEW mode \in Modes, ChangeState(mode)
  PROVE  Keeps
<1>1. /\ Running /\ Exists /\ changes < MaxChanges /\ changes' = changes + 1
      /\ UNCHANGED <<perfReads, down, told, met>> /\ TypeOK
  BY DEF ChangeState, IInv
<1>2. Good(channel) /\ ~channel.hung /\ TTLsLeft(channel)
  BY <1>1 DEF IInv, ChannelGood, StillCounting
<1>3. PICK d \in SetChannelMode(channel, mode) : channelList' = <<d>>
  BY DEF ChangeState
<1>4. ModeChange(channel, d)
  BY <1>2, SetChannelModeGood
<1>5. Exists' /\ channel' = d
  BY <1>3 DEF Exists, channel
<1>6. /\ Good(d) /\ ChannelType(d) /\ ~d.hung /\ TTLsLeft(d)
      /\ DOMAIN d.peerList = DOMAIN channel.peerList
  BY <1>2, <1>4 DEF ModeChange, Good, TTLsLeft
<1>7. TypeOK'
  <2>1. changes' \in 0..MaxChanges
    BY <1>1 DEF TypeOK
  <2>2. /\ down' \in Downs /\ told' \in [Peers -> AuxStates]
        /\ met' \in [Peers -> SUBSET Peers]
        /\ perfReads' \in {<<>>} \cup {<<p>> : p \in Peers} \cup {<<p, p>> : p \in Peers}
    BY <1>1 DEF TypeOK
  <2> QED BY <1>3, <1>5, <1>6, <2>1, <2>2 DEF TypeOK
<1>8. ChannelGood' /\ StillCounting' /\ MetPresent'
  BY <1>1, <1>5, <1>6 DEF IInv, ChannelGood, StillCounting, MetPresent
<1>9. MetTogether => MetTogether'
  BY <1>1, <1>4, <1>5 DEF IInv, MetPresent, MetTogether, ModeChange
<1>10. MovesJustly
  BY <1>4, <1>5 DEF MovesJustly, ModeChange
<1>11. ServersTold => ServersTold'
  BY <1>1, <1>4, <1>5 DEF ServersTold, ServingAnnounced, ModeChange
<1> QED BY <1>7, <1>8, <1>9, <1>10, <1>11 DEF IInv, Keeps

\* A ping gives a peer its whole TTL back.
LEMMA PingKeeps ==
  ASSUME IInv, NEW p \in Peers, NEW perf \in BOOLEAN, Ping(p, perf)
  PROVE  Keeps
<1> DEFINE e == [channel.peerList[p] EXCEPT !.ttl = TTLChannel]
           d == [channel EXCEPT !.peerList = [channel.peerList EXCEPT ![p] = e]]
<1>1. /\ Running /\ Exists /\ HasPeer(channel, p) /\ channelList' = <<d>>
      /\ perfReads' = IF perf THEN <<p, p>> ELSE <<>>
      /\ UNCHANGED <<down, told, met, changes>> /\ TypeOK
  BY DEF Ping, IInv
<1>2. Good(channel) /\ ChannelType(channel) /\ ~channel.hung /\ TTLsLeft(channel)
  BY <1>1 DEF IInv, ChannelGood, StillCounting, Good
<1>a. p \in DOMAIN channel.peerList
  BY <1>1 DEF HasPeer
<1>3. e \in PeerEntries /\ e.known = channel.peerList[p].known
      /\ e.sub = channel.peerList[p].sub /\ e.ttl >= 1
  <2>1. channel.peerList[p] \in PeerEntries
    BY <1>a, <1>2 DEF ChannelType
  <2>2. TTLChannel \in 0..TTLChannel /\ TTLChannel >= 1
    OBVIOUS
  <2> QED BY <2>1, <2>2 DEF PeerEntries
<1> HIDE DEF e
<1>4. SameNetworks(channel, d) /\ d.candidates = channel.candidates
  BY <1>a, <1>2, <1>3, EntryUpdate
<1> HIDE DEF d
<1>5. Exists' /\ channel' = d
  BY <1>1 DEF Exists, channel
<1>6. /\ Good(d) /\ ChannelType(d) /\ ~d.hung /\ TTLsLeft(d)
      /\ DOMAIN d.peerList = DOMAIN channel.peerList
  BY <1>4 DEF SameNetworks, Good
<1>7. TypeOK'
  BY <1>1, <1>5, <1>6 DEF TypeOK
<1>8. ChannelGood' /\ StillCounting' /\ MetPresent'
  BY <1>1, <1>5, <1>6 DEF IInv, ChannelGood, StillCounting, MetPresent
<1>9. MetTogether => MetTogether'
  BY <1>1, <1>4, <1>5, SameTogether DEF IInv, MetPresent, MetTogether
<1>10. MovesJustly
  BY <1>4, <1>5 DEF MovesJustly, LeavesJustly, SameNetworks
<1>11. ServersTold => ServersTold'
  BY <1>1, <1>4, <1>5 DEF ServersTold, ServingAnnounced, Candidates
<1> QED BY <1>7, <1>8, <1>9, <1>10, <1>11 DEF IInv, Keeps

\* What a read after the unlock leaves still to read.
LEMMA ReadsLeft ==
  ASSUME TypeOK, perfReads # <<>>
  PROVE  /\ Head(perfReads) \in Peers
         /\ Tail(perfReads) \in {<<>>} \cup {<<p>> : p \in Peers} \cup {<<p, p>> : p \in Peers}
<1>1. CASE \E p \in Peers : perfReads = <<p>>
  <2>1. PICK p \in Peers : perfReads = <<p>>
    BY <1>1
  <2>2. Head(perfReads) = p /\ Tail(perfReads) = <<>>
    BY <2>1
  <2> QED BY <2>2
<1>2. CASE \E p \in Peers : perfReads = <<p, p>>
  <2>1. PICK p \in Peers : perfReads = <<p, p>>
    BY <1>2
  <2>2. Head(perfReads) = p /\ Tail(perfReads) = <<p>>
    BY <2>1
  <2> QED BY <2>2
<1> QED BY <1>1, <1>2 DEF TypeOK

\* The entry a late read makes up is in no network and no candidate's.
LEMMA PerfReadKeeps ==
  ASSUME IInv, PerfRead
  PROVE  Keeps
<1> DEFINE p == Head(perfReads)
<1>1. /\ Running /\ UNCHANGED <<told, met, changes>> /\ TypeOK
      /\ down' = IF Exists THEN down ELSE "undefined"
      /\ perfReads # <<>> /\ perfReads' = Tail(perfReads)
      /\ channelList' = IF Exists /\ p \notin DOMAIN channel.peerList
                        THEN <<Put(channel, p, PeerEntry(FALSE, Unset))>>
                        ELSE channelList
  BY DEF PerfRead, IInv
<1>2. p \in Peers
  BY <1>1, ReadsLeft
<1>3. perfReads' \in {<<>>} \cup {<<q>> : q \in Peers} \cup {<<q, q>> : q \in Peers}
  BY <1>1, ReadsLeft
<1> HIDE DEF p
<1>4. CASE Exists /\ p \notin DOMAIN channel.peerList
  <2> DEFINE e == PeerEntry(FALSE, Unset)
             d == Put(channel, p, e)
  <2>1. Good(channel) /\ ~channel.hung /\ TTLsLeft(channel)
    BY <1>1, <1>4 DEF IInv, ChannelGood, StillCounting
  <2>2. e \in PeerEntries /\ e.sub \notin Parallel /\ e.ttl >= 1
    <3>1. Unset \in Subs /\ Unset \notin Parallel
      BY SubNumbers
    <3>2. e \in PeerEntries /\ e.sub = Unset /\ e.ttl = TTLChannel
      BY <3>1, EntryTypes
    <3> HIDE DEF e
    <3> QED BY <3>1, <3>2
  <2> HIDE DEF e
  <2>3. Good(d)
    BY <1>2, <1>4, <2>1, <2>2, PutGood DEF HasPeer
  <2>4. IsPut(channel, d, p, e)
    BY <2>1, PutFields DEF Good
  <2>5. channelList' = <<d>>
    BY <1>1, <1>4 DEF e
  <2> HIDE DEF d
  <2>6. Exists' /\ channel' = d
    BY <2>5 DEF Exists, channel
  <2>7. /\ d.subList = channel.subList /\ d.mode = channel.mode
        /\ d.candidates = channel.candidates /\ ~d.hung
        /\ DOMAIN d.peerList = DOMAIN channel.peerList \cup {p}
        /\ d.peerList[p] = e
        /\ \A q \in DOMAIN channel.peerList : d.peerList[q] = channel.peerList[q]
    BY <1>4, <2>1, <2>4 DEF IsPut
  <2>8. TTLsLeft(d)
    BY <2>1, <2>2, <2>7 DEF TTLsLeft
  <2>9. TypeOK'
    BY <1>1, <1>3, <1>4, <2>3, <2>5, <2>6 DEF TypeOK, Good
  <2>10. ChannelGood' /\ StillCounting' /\ MetPresent'
    BY <1>1, <1>4, <2>3, <2>6, <2>7, <2>8
       DEF IInv, ChannelGood, StillCounting, MetPresent
  <2>11. MetTogether => MetTogether'
    BY <1>1, <2>6, <2>7
       DEF IInv, MetPresent, MetTogether, Together, SubOf, ServersOf, Servers
  <2>12. MovesJustly
    BY <2>6, <2>7 DEF MovesJustly, LeavesJustly, SubOf
  <2>13. ServersTold => ServersTold'
    BY <1>1, <1>4, <2>6, <2>7 DEF ServersTold, ServingAnnounced, Candidates
  <2> QED BY <2>9, <2>10, <2>11, <2>12, <2>13 DEF IInv, Keeps
<1>5. CASE ~(Exists /\ p \notin DOMAIN channel.peerList)
  <2>1. channelList' = channelList
    BY <1>1, <1>5
  <2>2. (Exists <=> Exists') /\ channel' = channel
    BY <2>1 DEF Exists, channel
  <2>3. TypeOK'
    BY <1>1, <1>3, <2>1, <2>2 DEF TypeOK, Downs
  <2>4. ChannelGood' /\ StillCounting' /\ MetPresent'
    BY <1>1, <2>2 DEF IInv, ChannelGood, StillCounting, MetPresent, Running
  <2>5. MetTogether => MetTogether'
    BY <1>1, <2>2 DEF MetTogether
  <2>6. MovesJustly
    BY <2>2 DEF MovesJustly, LeavesJustly
  <2>7. ServersTold => ServersTold'
    BY <1>1, <2>2 DEF ServersTold
  <2> QED BY <2>3, <2>4, <2>5, <2>6, <2>7 DEF IInv, Keeps
<1> QED BY <1>4, <1>5

\* A sweep: whoever goes is forgotten by all, and the others stay together.
LEMMA SweepKeeps ==
  ASSUME IInv, CheckPeerList
  PROVE  Keeps
<1>1. /\ Running /\ Exists /\ UNCHANGED <<perfReads, told, changes>> /\ TypeOK
  BY DEF CheckPeerList, IInv
<1>2. Good(channel) /\ ~channel.hung /\ TTLsLeft(channel)
  BY <1>1 DEF IInv, ChannelGood, StillCounting
<1>3. PICK c \in CheckActivePeers(channel) :
        LET remains == c.hung \/ HasPeer(c, Server)
            gone == IF remains THEN DOMAIN channel.peerList \ DOMAIN c.peerList
                               ELSE Peers
        IN  /\ channelList' = IF remains THEN <<c>> ELSE <<>>
            /\ down' = IF c.hung THEN "hung" ELSE down
            /\ met' = Forget(gone)
  BY DEF CheckPeerList
<1> DEFINE remains == c.hung \/ HasPeer(c, Server)
           gone == IF remains THEN DOMAIN channel.peerList \ DOMAIN c.peerList
                              ELSE Peers
<1>4. Sweep(channel, c)
  BY <1>2, SweepGood
<1>5. /\ DOMAIN channel.peerList \subseteq Peers /\ gone \in SUBSET Peers
  BY <1>2, Members
<1>6. /\ channelList' = IF remains THEN <<c>> ELSE <<>>
      /\ down' = IF c.hung THEN "hung" ELSE down
      /\ met' = Forget(gone)
  BY <1>3
<1>7. /\ remains => gone = DOMAIN channel.peerList \ DOMAIN c.peerList
      /\ ~remains => gone = Peers /\ ~c.hung
  OBVIOUS
<1> HIDE DEF remains, gone
<1>8. /\ met' \in [Peers -> SUBSET Peers]
      /\ \A p \in Peers : \A q \in met'[p] : p \notin gone /\ q \notin gone /\ q \in met[p]
  BY <1>1, <1>5, <1>6, Forgets
<1>9. /\ Good(c) /\ ChannelType(c) /\ DOMAIN c.peerList \subseteq DOMAIN channel.peerList
      /\ ~c.hung => TTLsLeft(c)
  BY <1>4 DEF Sweep, Good
<1>10. CASE remains
  <2>1. Exists' /\ channel' = c /\ channelList' = <<c>>
    BY <1>6, <1>10 DEF Exists, channel
  <2>2. TypeOK'
    BY <1>1, <1>6, <1>8, <1>9, <2>1 DEF TypeOK, Downs
  <2>3. ChannelGood' /\ StillCounting'
    BY <1>6, <1>9, <2>1 DEF ChannelGood, StillCounting, Running
  <2>4. MetPresent'
    BY <1>7, <1>8, <1>10, <2>1 DEF IInv, MetPresent
  <2>5. MetTogether => MetTogether'
    <3> SUFFICES ASSUME MetTogether, NEW p \in Peers, NEW q \in met'[p]
                 PROVE  Together(c, p, q)
      BY <2>1 DEF MetTogether
    <3>1. Together(channel, p, q)
      BY <1>1, <1>8 DEF MetTogether
    <3>2. p \in DOMAIN c.peerList /\ q \in DOMAIN c.peerList
      BY <2>1, <2>4 DEF MetPresent
    <3> QED BY <1>4, <3>1, <3>2 DEF Sweep
  <2>6. MovesJustly
    BY <1>4, <2>1 DEF MovesJustly, Sweep
  <2>7. ServersTold => ServersTold'
    <3>1. /\ Candidates(c) \subseteq Candidates(channel)
          /\ \A p \in Candidates(c) : c.candidates[p] = channel.candidates[p]
      BY <1>4 DEF Sweep
    <3> QED BY <1>1, <2>1, <3>1 DEF ServersTold
  <2> QED BY <2>2, <2>3, <2>4, <2>5, <2>6, <2>7 DEF IInv, Keeps
<1>11. CASE ~remains
  <2>1. ~Exists' /\ down' = down /\ gone = Peers
    BY <1>6, <1>7, <1>11 DEF Exists
  <2>2. \A p \in Peers : met'[p] = {}
    BY <1>8, <2>1
  <2>3. TypeOK'
    BY <1>1, <1>8, <2>1 DEF TypeOK
  <2>4. /\ ChannelGood' /\ StillCounting' /\ MetPresent'
        /\ MetTogether' /\ ServersTold'
    BY <2>1, <2>2 DEF ChannelGood, StillCounting, MetPresent, MetTogether, ServersTold
  <2> QED BY <2>1, <2>3, <2>4 DEF IInv, Keeps, MovesJustly
<1> QED BY <1>10, <1>11
-----------------------------------------------------------------------------
(***************************************************************************)
(* The specification.                                                       *)
(***************************************************************************)

\* Every step keeps the invariants; one that changes nothing does.
LEMMA StepKeeps ==
  ASSUME IInv, [Next]_vars
  PROVE  Keeps
<1>1. CASE UNCHANGED vars
  <2>1. /\ UNCHANGED <<channelList, perfReads, down, told, met, changes>>
        /\ channel' = channel /\ (Exists' <=> Exists)
    BY <1>1 DEF vars, channel, Exists
  <2>2. IInv'
    BY <2>1 DEF IInv, TypeOK, ChannelGood, StillCounting, MetPresent, Running
  <2>3. MetTogether => MetTogether'
    BY <2>1 DEF MetTogether
  <2>4. MovesJustly
    BY <2>1 DEF MovesJustly, LeavesJustly
  <2>5. ServersTold => ServersTold'
    BY <2>1 DEF ServersTold
  <2> QED BY <2>2, <2>3, <2>4, <2>5 DEF Keeps
<1>2. CASE Next
  BY <1>2, CreateKeeps, ConnectKeeps, ChangeStateKeeps, PingKeeps, PerfReadKeeps,
     SweepKeeps DEF Next
<1> QED BY <1>1, <1>2

\* Nothing is there at first.
LEMMA Starts ==
  ASSUME Init
  PROVE  IInv /\ MetTogether /\ ServersTold
BY DEF ServersTold, Init, IInv, TypeOK, Exists, ChannelGood, StillCounting, MetPresent,
       MetTogether, Downs, AuxStates

\* The bootstrap's maps, its marks and what the model keeps beside them have
\* their types, whatever polls, pings, changes and sweeps come.
THEOREM TypeCorrect == Spec => []TypeOK
<1>1. Init => IInv
  BY Starts
<1>2. IInv /\ [Next]_vars => IInv'
  BY StepKeeps DEF Keeps
<1>3. IInv => TypeOK
  BY DEF IInv
<1> QED BY <1>1, <1>2, <1>3, PTL DEF Spec

\* A channel that exists is good in every state.
LEMMA AlwaysGood == Spec => []IInv
<1>1. Init => IInv
  BY Starts
<1>2. IInv /\ [Next]_vars => IInv'
  BY StepKeeps DEF Keeps
<1> QED BY <1>1, <1>2, PTL DEF Spec

\* Servers are candidates and candidates peers with their Peer*, so that no
\* operator[] of the methods makes an entry up.
THEOREM KnownTheorem == Spec => []ServersAreKnown
<1>1. IInv => ServersAreKnown
  BY DEF IInv, ChannelGood, Good, KnownServers, ServersAreKnown
<1> QED BY <1>1, AlwaysGood, PTL

\* Whoever is in a parallel channel has an auxiliary server in it.
THEOREM ServedTheorem == Spec => []ParallelServed
<1>1. IInv => ParallelServed
  <2> SUFFICES ASSUME IInv, Exists, NEW p \in DOMAIN channel.peerList,
                      SubOf(channel, p) \in Parallel
               PROVE  ServersOf(channel, p) # {}
    BY DEF ParallelServed
  <2>1. ServersOf(channel, p) =
          {s \in Servers(channel) : channel.subList[s] = SubOf(channel, p)}
    BY ServersOfParallel
  <2> QED BY <2>1 DEF IInv, ChannelGood, Good, Served
<1> QED BY <1>1, AlwaysGood, PTL

\* With isolation, whoever was introduced is in the same network, serves it, or
\* neither is in a parallel channel, whenever the lists were handed out.
THEOREM IsolationTheorem == ~Mixed => (Spec => []NetworksIsolated)
<1> DEFINE Inv == IInv /\ MetTogether
<1>1. Init => Inv
  BY Starts
<1>2. ~Mixed /\ Inv /\ [Next]_vars => Inv'
  BY StepKeeps DEF Keeps
<1>3. Inv => NetworksIsolated
  <2> SUFFICES ASSUME IInv, MetTogether, Exists, NEW p \in DOMAIN channel.peerList,
                      NEW q \in met[p]
               PROVE  Together(channel, p, q)
    BY DEF NetworksIsolated, Together
  <2>1. p \in Peers
    BY Members DEF IInv, ChannelGood
  <2> QED BY <2>1 DEF MetTogether
<1> HIDE DEF Inv
<1> SUFFICES ASSUME ~Mixed PROVE Spec => []NetworksIsolated
  OBVIOUS
<1>4. Inv /\ [Next]_vars => Inv'
  BY <1>2
<1> QED BY <1>1, <1>3, <1>4, PTL DEF Spec

\* However many candidates a flash crowd turns away, the ones the bootstrap
\* counts on to serve or to merge know it, or have the news waiting for their
\* next poll, whatever changed between two polls.
THEOREM ServersToldTheorem == Spec => []ServersTold
<1> DEFINE Inv == IInv /\ ServersTold
<1>1. Init => Inv
  BY Starts
<1>2. Inv /\ [Next]_vars => Inv'
  BY StepKeeps DEF Keeps
<1>3. Inv => ServersTold
  OBVIOUS
<1> HIDE DEF Inv
<1> QED BY <1>1, <1>2, <1>3, PTL DEF Spec

\* Peers leave their parallel channel only when its last server is gone or the
\* channel is normal again, or to merge when one of its servers merges.
THEOREM MovesTheorem == Spec => MovesJustified
<1> DEFINE Justified ==
      Exists /\ channelList' # <<>> =>
        LET c == channelList'[1]
        IN  \A p \in DOMAIN channel.peerList \cap DOMAIN c.peerList :
              LET s == SubOf(channel, p)
              IN  (s \in Parallel /\ SubOf(c, p) # s) =>
                    \/ /\ SubOf(c, p) = Main
                       /\ c.mode = "NORMAL" \/ ServersOf(channel, p) \cap Servers(c) = {}
                    \/ /\ SubOf(c, p) = Merging
                       /\ \E t \in ServersOf(channel, p) :
                            t \in Servers(c) /\ c.candidates[t].state = "MESCLAR"
<1>1. IInv /\ [Next]_vars => Justified
  <2> SUFFICES ASSUME MovesJustly PROVE Justified
    BY StepKeeps DEF Keeps
  <2> QED BY DEF MovesJustly, LeavesJustly, Exists, channel
<1>2. Justified => [Justified]_vars
  OBVIOUS
<1> HIDE DEF Justified
<1>3. Spec => [][Justified]_vars
  BY <1>1, AlwaysGood, PTL DEF Spec
<1> QED BY <1>3 DEF Justified, MovesJustified
=============================================================================
