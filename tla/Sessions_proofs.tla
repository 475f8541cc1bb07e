--------------------------- MODULE Sessions_proofs ---------------------------
(***************************************************************************)
(* Proofs about Sessions for any viewers, states and number of restarts: the  *)
(* polls refine the promise of Announcement, so both sides agree, and a       *)
(* viewer takes no state from a bootstrap it does not know.  Then, for any     *)
(* memory that messages are written in, each side takes from the bytes of the  *)
(* other what was meant.                                                     *)
(***************************************************************************)
EXTENDS SessionWire, Extrema_proofs, SequenceTheorems, TLAPS

\* A viewer the channel does not have has no news, and there is neither channel
\* nor message without a bootstrap.
TablesEmpty ==
    /\ ~up => ~exists
    /\ \A p \in Viewers :
         /\ ~exists => ~hasPeer[p]
         /\ ~hasPeer[p] => ~waitInform[p] /\ ~waitServerList[p]
         /\ ~up => ~orphan[p] /\ conn[p] \notin {"request", "reply"}

Knows(p) == authentic[p] \in {NoID, bootStrap_ID}

\* Answers are of this bootstrap; a viewer that knows another one and is in the
\* channel is about to find out, or will never hear of it.
OneBootstrapOf(p) ==
    /\ conn[p] = "reply" /\ reply[p].type # "unavailable" => reply[p].id = bootStrap_ID
    /\ conn[p] = "reply" /\ reply[p].type = "serverAux" => Knows(p)
    /\ place[p] # "off" /\ orphan[p] => Knows(p)
    /\ place[p] # "off" /\ hasPeer[p] /\ ~Knows(p) =>
         \/ conn[p] = "reply" /\ reply[p].type = "share"
         \/ conn[p] \in {"broken", "silent"}
         \/ socket[p] = "stuck"

OneBootstrap == \A p \in Viewers : OneBootstrapOf(p)

IInv == TypeOK /\ TablesEmpty /\ OneBootstrap

USE SessionsAssumption DEF SessionsAssumption
-----------------------------------------------------------------------------
(***************************************************************************)
(* Types, and what place, socket, conn and reply say of each other.         *)
(***************************************************************************)

\* The invariant holds when no viewer has started.
LEMMA InitInv == Init => IInv
<1> SUFFICES ASSUME Init PROVE IInv
  OBVIOUS
<1>0. NoReply \in Reply /\ NoReply.type = "none"
  BY DEF NoReply, Reply, NoID
<1>1. TypeOK
  <2>1. /\ up \in BOOLEAN /\ exists \in BOOLEAN /\ bootStrap_ID \in Nat \ {NoID}
        /\ hasPeer \in [Viewers -> BOOLEAN] /\ newMode \in [Viewers -> AuxStates]
        /\ waitInform \in [Viewers -> BOOLEAN] /\ waitServerList \in [Viewers -> BOOLEAN]
    <3>0. bootStrap_ID \in Nat \ {NoID}
      BY DEF Init, NoID
    <3>1. up \in BOOLEAN /\ exists \in BOOLEAN
      BY Zenon DEF Init
    <3>2. hasPeer \in [Viewers -> BOOLEAN] /\ newMode \in [Viewers -> AuxStates]
      BY DEF Init
    <3>3. waitInform \in [Viewers -> BOOLEAN] /\ waitServerList \in [Viewers -> BOOLEAN]
      BY DEF Init
    <3> QED BY <3>0, <3>1, <3>2, <3>3
  <2>2. /\ place \in [Viewers -> {"off", "ready", "asking"}]
        /\ first \in [Viewers -> BOOLEAN] /\ punch \in [Viewers -> BOOLEAN]
        /\ socket \in [Viewers -> {"closed", "open", "stuck"}]
        /\ conn \in [Viewers -> {"none", "request", "reply", "broken", "silent"}]
    BY DEF Init
  <2>3. /\ reply \in [Viewers -> Reply] /\ orphan \in [Viewers -> BOOLEAN]
        /\ authentic \in [Viewers -> Nat] /\ state \in [Viewers -> AuxStates]
        /\ excused \in [Viewers -> BOOLEAN]
    BY <1>0 DEF Init, NoID
  <2>4. \A p \in Viewers : conn[p] = "none" /\ place[p] = "off" /\ reply[p].type = "none"
    BY <1>0 DEF Init
  <2> QED BY <2>1, <2>2, <2>3, <2>4 DEF TypeOK
<1>2. TablesEmpty
  BY DEF Init, TablesEmpty
<1>3. OneBootstrap
  BY DEF Init, OneBootstrap, OneBootstrapOf, Knows
<1> QED BY <1>1, <1>2, <1>3 DEF IInv

\* The bootstrap's answers have their type and, while it has the channel, its identity.
LEMMA AnswerType ==
  ASSUME TypeOK, NEW p \in Viewers
  PROVE  /\ Answer(p) \in Reply /\ Answer(p).type # "none" /\ NoReply \in Reply
         /\ exists => Answer(p).id = bootStrap_ID
<1>1. newMode[p] \in AuxStates /\ bootStrap_ID \in Nat
  BY DEF TypeOK
<1>2. /\ NoReply \in Reply /\ Unavailable \in Reply /\ ServerAux(newMode[p]) \in Reply
      /\ ServerAuxList \in Reply /\ PeerlistShare \in Reply
  BY <1>1 DEF Reply, NoReply, Unavailable, ServerAux, ServerAuxList, PeerlistShare, NoID
<1>3. /\ "none" \notin {Unavailable.type, ServerAux(newMode[p]).type, ServerAuxList.type,
                       PeerlistShare.type}
      /\ bootStrap_ID = ServerAux(newMode[p]).id
      /\ bootStrap_ID = ServerAuxList.id /\ bootStrap_ID = PeerlistShare.id
  BY DEF Unavailable, ServerAux, ServerAuxList, PeerlistShare
<1>4. \/ Answer(p) = Unavailable /\ ~exists
      \/ Answer(p) \in {ServerAux(newMode[p]), ServerAuxList, PeerlistShare}
  BY DEF Answer
<1> QED BY <1>2, <1>3, <1>4

\* What a poll does to the socket leaves the types alone.
LEMMA ViewerType ==
  ASSUME TypeOK, NEW p \in Viewers,
         \/ Start(p) \/ Ask(p) \/ NotConnected(p) \/ OpenThrows(p) \/ NoticeBreak(p)
         \/ Kill(p)
  PROVE  TypeOK'
<1>0. NoReply \in Reply /\ NoReply.type = "none"
  BY DEF NoReply, Reply, NoID
<1>1. CASE Start(p)
  BY <1>0, <1>1 DEF TypeOK, Start, bootVars, tableVars, NoID
<1>2. CASE Ask(p)
  BY <1>0, <1>2 DEF TypeOK, Ask, bootVars, tableVars
<1>3. CASE NotConnected(p)
  BY <1>0, <1>3 DEF TypeOK, NotConnected, Fail, bootVars, tableVars
<1>4. CASE OpenThrows(p)
  BY <1>0, <1>4 DEF TypeOK, OpenThrows, Quit, bootVars, tableVars
<1>5. CASE NoticeBreak(p)
  BY <1>0, <1>5, SMTT(30) DEF TypeOK, NoticeBreak, Fail, Quit, bootVars, tableVars
<1>6. CASE Kill(p)
  BY <1>0, <1>6 DEF TypeOK, Kill, bootVars, tableVars
<1> QED BY <1>1, <1>2, <1>3, <1>4, <1>5, <1>6

\* ... nor does taking an answer
LEMMA ReceiveType ==
  ASSUME TypeOK, NEW p \in Viewers,
         \/ HandlePeerlistMessage(p) \/ HandleMessageServerSub(p)
         \/ HandleServerAuxListMessage(p) \/ HandleErrorMessage(p)
  PROVE  TypeOK'
<1>0. NoReply \in Reply /\ NoReply.type = "none" /\ reply[p].state \in AuxStates
      /\ reply[p].id \in Nat
  BY DEF NoReply, Reply, NoID, TypeOK
<1>1. CASE HandlePeerlistMessage(p)
  <2>1. \/ /\ place' = [place EXCEPT ![p] = "ready"]
           /\ socket' = [socket EXCEPT ![p] = "closed"]
        \/ place' = [place EXCEPT ![p] = "off"] /\ socket' = socket
    BY Zenon, <1>1 DEF HandlePeerlistMessage, Stop, Quit
  <2>2. /\ first' \in [Viewers -> BOOLEAN] /\ punch' \in [Viewers -> BOOLEAN]
        /\ authentic' \in [Viewers -> Nat]
    <3>1. CASE NotMine(p, reply[p].id)
      BY <1>1, <3>1 DEF TypeOK, HandlePeerlistMessage
    <3>2. CASE ~NotMine(p, reply[p].id)
      <4>1. /\ first' = [first EXCEPT ![p] = FALSE] /\ punch' = [punch EXCEPT ![p] = FALSE]
            /\ authentic' = [authentic EXCEPT ![p] = IF @ = NoID THEN reply[p].id ELSE @]
        BY <1>1, <3>2, Zenon DEF HandlePeerlistMessage, Stop
      <4> QED BY <1>0, <4>1 DEF TypeOK
    <3> QED BY <3>1, <3>2
  <2>3. /\ conn' = [conn EXCEPT ![p] = "none"] /\ reply' = [reply EXCEPT ![p] = NoReply]
        /\ UNCHANGED <<bootVars, orphan, excused, state>>
    BY <1>1 DEF HandlePeerlistMessage, Receive
  <2> QED BY <1>0, <2>1, <2>2, <2>3 DEF TypeOK, bootVars, tableVars
<1>2. CASE HandleMessageServerSub(p)
  BY <1>0, <1>2 DEF TypeOK, HandleMessageServerSub, Receive, Stop, bootVars, tableVars
<1>3. CASE HandleServerAuxListMessage(p)
  BY <1>0, <1>3 DEF TypeOK, HandleServerAuxListMessage, Receive, Stop, bootVars, tableVars
<1>4. CASE HandleErrorMessage(p)
  BY <1>0, <1>4 DEF TypeOK, HandleErrorMessage, Receive, Quit, bootVars, tableVars
<1> QED BY <1>1, <1>2, <1>3, <1>4

\* ... nor what the bootstrap and the network do.
LEMMA BootstrapType ==
  ASSUME TypeOK,
         \/ \E p \in Viewers : Handle(p) \/ HandleOrphan(p) \/ Channel(p) \/ Break(p)
         \/ \E S \in SUBSET Viewers, channel \in BOOLEAN : CheckPeerList(S, channel)
         \/ CreateChannel \/ BootstrapDies \/ BootstrapStarts
  PROVE  TypeOK'
<1>0. NoReply \in Reply /\ NoReply.type = "none"
  BY DEF NoReply, Reply, NoID
<1>1. ASSUME NEW p \in Viewers, Handle(p) PROVE TypeOK'
  BY <1>1, AnswerType DEF TypeOK, Handle, HandleChannelMessage, Informed, viewerVars
<1>2. ASSUME NEW p \in Viewers, HandleOrphan(p) PROVE TypeOK'
  BY <1>2 DEF TypeOK, HandleOrphan, HandleChannelMessage, Informed, viewerVars
<1>3. ASSUME NEW p \in Viewers, Channel(p) PROVE TypeOK'
  <2>1. ASSUME NEW s \in AuxStates, SetState(p, s) PROVE TypeOK'
    BY <2>1 DEF TypeOK, SetState, viewerVars
  <2>2. CASE SetPeerWaitListServer(p)
    BY <2>2 DEF TypeOK, SetPeerWaitListServer, viewerVars
  <2>3. CASE NotKept(p)
    BY <2>3 DEF TypeOK, NotKept, EraseCandidates, viewerVars
  <2> QED BY <1>3, <2>1, <2>2, <2>3 DEF Channel
<1>4. ASSUME NEW p \in Viewers, Break(p) PROVE TypeOK'
  BY <1>0, <1>4 DEF TypeOK, Break, Carries, bootVars, tableVars, viewerVars
<1>5. ASSUME NEW S \in SUBSET Viewers, NEW channel \in BOOLEAN, CheckPeerList(S, channel)
      PROVE TypeOK'
  BY <1>5 DEF TypeOK, CheckPeerList, EraseCandidates, viewerVars
<1>6. CASE CreateChannel
  BY <1>6 DEF TypeOK, CreateChannel, tableVars, viewerVars
<1>7. CASE BootstrapDies
  BY <1>0, <1>7 DEF TypeOK, BootstrapDies, EraseCandidates, Carries, viewerVars
<1>8. CASE BootstrapStarts
  BY <1>8 DEF TypeOK, BootstrapStarts, tableVars, viewerVars, NoID
<1> QED BY <1>1, <1>2, <1>3, <1>4, <1>5, <1>6, <1>7, <1>8

\* Every action keeps the types.
LEMMA TypeStep == TypeOK /\ [Next]_vars => TypeOK'
<1> SUFFICES ASSUME TypeOK, [Next]_vars PROVE TypeOK'
  OBVIOUS
<1>1. CASE Next
  BY <1>1, ViewerType, ReceiveType, BootstrapType DEF Next, Viewer
<1>2. CASE UNCHANGED vars
  BY <1>2 DEF TypeOK, vars, bootVars, tableVars, viewerVars
<1> QED BY <1>1, <1>2

\* The two programs and the connection are always in a state of their types.
THEOREM TypeCorrect == Spec => []TypeOK
<1>1. Init => TypeOK
  BY InitInv DEF IInv
<1> QED BY <1>1, TypeStep, PTL DEF Spec
-----------------------------------------------------------------------------
(***************************************************************************)
(* The tables of the bootstrap, and which bootstrap a viewer knows.         *)
(***************************************************************************)

\* The viewers' own steps change no table, and only Ask, which needs the
\* bootstrap, or Kill puts a request on its way.
LEMMA TablesStep == TypeOK /\ TablesEmpty /\ [Next]_vars => TablesEmpty'
<1> SUFFICES ASSUME TypeOK, TablesEmpty, [Next]_vars PROVE TablesEmpty'
  OBVIOUS
<1>1. ASSUME NEW p \in Viewers, Start(p) \/ Viewer(p) PROVE TablesEmpty'
  <2>1. UNCHANGED <<up, exists, hasPeer, waitInform, waitServerList, orphan>>
    BY <1>1 DEF Start, Viewer, Ask, NotConnected, OpenThrows, NoticeBreak,
                HandlePeerlistMessage, HandleMessageServerSub, HandleServerAuxListMessage,
                HandleErrorMessage, Receive, bootVars, tableVars
  <2>2. \/ conn' = conn \/ conn' = [conn EXCEPT ![p] = "none"]
        \/ up /\ conn' = [conn EXCEPT ![p] = "request"]
    BY <1>1 DEF Start, Viewer, Ask, NotConnected, OpenThrows, NoticeBreak,
                HandlePeerlistMessage, HandleMessageServerSub, HandleServerAuxListMessage,
                HandleErrorMessage, Receive
  <2> QED BY <2>1, <2>2 DEF TablesEmpty, TypeOK
<1>2. ASSUME NEW p \in Viewers, Kill(p) PROVE TablesEmpty'
  BY <1>2 DEF TablesEmpty, TypeOK, Kill, bootVars, tableVars
<1>3. ASSUME NEW p \in Viewers, Handle(p) PROVE TablesEmpty'
  BY <1>3 DEF TablesEmpty, TypeOK, Handle, HandleChannelMessage, Informed
<1>4. ASSUME NEW p \in Viewers, HandleOrphan(p) PROVE TablesEmpty'
  BY <1>4 DEF TablesEmpty, TypeOK, HandleOrphan, HandleChannelMessage, Informed
<1>5. ASSUME NEW p \in Viewers, Channel(p) PROVE TablesEmpty'
  BY <1>5 DEF TablesEmpty, TypeOK, Channel, SetState, SetPeerWaitListServer, NotKept,
              EraseCandidates
<1>6. ASSUME NEW p \in Viewers, Break(p) PROVE TablesEmpty'
  BY <1>6 DEF TablesEmpty, TypeOK, Break, Carries, bootVars, tableVars
<1>7. ASSUME NEW S \in SUBSET Viewers, NEW channel \in BOOLEAN, CheckPeerList(S, channel)
      PROVE TablesEmpty'
  BY <1>7 DEF TablesEmpty, TypeOK, CheckPeerList, EraseCandidates
<1>8. CASE CreateChannel
  BY <1>8 DEF TablesEmpty, CreateChannel, tableVars
<1>9. CASE BootstrapDies
  BY <1>9 DEF TablesEmpty, TypeOK, BootstrapDies, EraseCandidates, Carries
<1>10. CASE BootstrapStarts
  BY <1>10 DEF TablesEmpty, BootstrapStarts, tableVars
<1>11. CASE UNCHANGED vars
  BY <1>11 DEF TablesEmpty, vars, bootVars, tableVars
<1> QED
  BY <1>1, <1>2, <1>3, <1>4, <1>5, <1>6, <1>7, <1>8, <1>9, <1>10, <1>11 DEF Next

\* Nothing that is said of q has changed.
Same(q) ==
    /\ conn'[q] = conn[q] /\ reply'[q] = reply[q] /\ place'[q] = place[q]
    /\ orphan'[q] = orphan[q] /\ hasPeer'[q] = hasPeer[q] /\ socket'[q] = socket[q]
    /\ authentic'[q] = authentic[q] /\ bootStrap_ID' = bootStrap_ID

\* What is said of a viewer holds while nothing of it has changed.
LEMMA SameOne ==
  ASSUME NEW q \in Viewers, OneBootstrapOf(q), Same(q)
  PROVE  OneBootstrapOf(q)'
BY DEF OneBootstrapOf, Same, Knows

\* A viewer that would take a state has a channel entry, so it knows the
\* bootstrap; one that learns that it is another ends.
LEMMA OneBootstrapStep == IInv /\ [Next]_vars => OneBootstrap'
<1> SUFFICES ASSUME IInv, [Next]_vars, NEW q \in Viewers PROVE OneBootstrapOf(q)'
  BY DEF OneBootstrap
<1> USE DEF IInv
<1>0. OneBootstrapOf(q)
  BY DEF OneBootstrap
<1>1. ASSUME NEW p \in Viewers, p # q, Start(p) \/ Viewer(p) \/ Kill(p) \/ Break(p)
      PROVE OneBootstrapOf(q)'
  <2>1. Same(q)
    BY <1>1 DEF Same, TypeOK, Start, Viewer, Kill, Break, Ask, NotConnected, OpenThrows,
                NoticeBreak, Fail, Quit, Stop, HandlePeerlistMessage, HandleMessageServerSub,
                HandleServerAuxListMessage, HandleErrorMessage, Receive, bootVars,
                tableVars, viewerVars
  <2> QED BY <1>0, <2>1, SameOne
<1>2. ASSUME NEW p \in Viewers, p # q, Handle(p) \/ HandleOrphan(p)
      PROVE OneBootstrapOf(q)'
  <2>1. Same(q)
    BY <1>2 DEF Same, TypeOK, Handle, HandleOrphan, HandleChannelMessage, viewerVars
  <2> QED BY <1>0, <2>1, SameOne
<1>3. CASE Start(q)
  BY <1>0, <1>3 DEF OneBootstrapOf, Start, TypeOK, Knows, bootVars, NoID
<1>4. CASE Ask(q) \/ NotConnected(q)
  <2>1. socket[q] # "stuck"
    BY <1>4 DEF Ask, NotConnected, OpenFails, ConnectFails, TypeOK
  <2>2. conn[q] = "none"
    BY <1>4 DEF Ask, NotConnected, TypeOK
  <2>3. /\ UNCHANGED <<bootStrap_ID, hasPeer, authentic, orphan>>
        /\ conn'[q] \in {"none", "request"}
    BY <1>4, <2>2 DEF Ask, NotConnected, TypeOK, bootVars, tableVars
  <2>4. place[q] # "off"
    BY <1>4 DEF Ask, NotConnected
  <2> QED BY <1>0, <2>1, <2>2, <2>3, <2>4 DEF OneBootstrapOf, Knows
<1>5. CASE OpenThrows(q) \/ NoticeBreak(q)
  BY <1>0, <1>5 DEF OneBootstrapOf, OpenThrows, NoticeBreak, Fail, Quit, Knows, TypeOK,
                    bootVars, tableVars
<1>6. CASE HandlePeerlistMessage(q)
  <2>1. conn' = [conn EXCEPT ![q] = "none"] /\ UNCHANGED <<bootStrap_ID, orphan, hasPeer>>
    BY <1>6 DEF HandlePeerlistMessage, Receive, bootVars, tableVars
  <2>2. CASE NotMine(q, reply[q].id)
    <3>1. place'[q] = "off"
      BY <1>6, <2>2 DEF HandlePeerlistMessage, Quit, TypeOK
    <3> QED BY <2>1, <3>1 DEF OneBootstrapOf, TypeOK
  <2>3. CASE ~NotMine(q, reply[q].id)
    <3>1. reply[q].id = bootStrap_ID
      BY <1>0, <1>6 DEF OneBootstrapOf, HandlePeerlistMessage, Receive
    <3>2. authentic' = [authentic EXCEPT ![q] = IF @ = NoID THEN reply[q].id ELSE @]
      BY <1>6, <2>3, Zenon DEF HandlePeerlistMessage
    <3>3. Knows(q)'
      BY <2>1, <2>3, <3>1, <3>2 DEF Knows, NotMine, TypeOK
    <3> QED BY <2>1, <3>3 DEF OneBootstrapOf, TypeOK
  <2> QED BY <2>2, <2>3
<1>7. CASE HandleMessageServerSub(q) \/ HandleServerAuxListMessage(q)
  <2>1. /\ conn[q] = "reply" /\ reply[q].type # "share" /\ place[q] = "asking"
        /\ UNCHANGED <<bootStrap_ID, orphan, hasPeer, authentic>>
        /\ conn' = [conn EXCEPT ![q] = "none"]
    BY <1>7 DEF HandleMessageServerSub, HandleServerAuxListMessage, Receive, bootVars, tableVars
  <2>2. socket[q] = "open"
    BY <2>1 DEF TypeOK
  <2> QED BY <1>0, <2>1, <2>2 DEF OneBootstrapOf, Knows, TypeOK
<1>8. CASE HandleErrorMessage(q) \/ Kill(q)
  BY <1>8 DEF OneBootstrapOf, HandleErrorMessage, Kill, Receive, Quit, TypeOK
<1>9. CASE Handle(q)
  <2>1. /\ conn[q] = "request" /\ conn'[q] = "reply" /\ reply'[q] = Answer(q)
        /\ UNCHANGED <<bootStrap_ID, authentic, place, orphan, socket>>
        /\ hasPeer'[q] = (hasPeer[q] \/ exists)
    BY <1>9 DEF Handle, HandleChannelMessage, viewerVars, TypeOK
  <2>2. place[q] = "asking" /\ socket[q] = "open"
    BY <2>1 DEF TypeOK
  <2>3. hasPeer[q] => Knows(q)
    BY <1>0, <2>1, <2>2 DEF OneBootstrapOf
  <2>4. exists /\ ~hasPeer[q] => Answer(q).type = "share"
    BY DEF Answer, TablesEmpty, PeerlistShare
  <2>5. Answer(q).type # "unavailable" => Answer(q).id = bootStrap_ID
    BY DEF Answer, Unavailable, ServerAux, ServerAuxList, PeerlistShare
  <2>6. Answer(q).type = "serverAux" => hasPeer[q]
    BY DEF Answer, TablesEmpty, Unavailable, ServerAuxList, PeerlistShare
  <2> QED BY <1>0, <2>1, <2>3, <2>4, <2>5, <2>6 DEF OneBootstrapOf, Knows, TablesEmpty
<1>10. CASE HandleOrphan(q)
  <2>1. /\ orphan[q] /\ orphan' = [orphan EXCEPT ![q] = FALSE]
        /\ UNCHANGED <<bootStrap_ID, authentic, place, conn, reply, socket>>
    BY <1>10 DEF HandleOrphan, HandleChannelMessage, viewerVars
  <2> QED BY <1>0, <2>1 DEF OneBootstrapOf, Knows
<1>11. CASE Break(q)
  BY <1>0, <1>11 DEF OneBootstrapOf, Break, Knows, TypeOK, bootVars, tableVars, viewerVars
<1>12. ASSUME NEW p \in Viewers, Channel(p) PROVE OneBootstrapOf(q)'
  BY <1>0, <1>12 DEF OneBootstrapOf, Knows, Channel, SetState, SetPeerWaitListServer,
                     NotKept, viewerVars
<1>13. ASSUME NEW S \in SUBSET Viewers, NEW channel \in BOOLEAN, CheckPeerList(S, channel)
       PROVE OneBootstrapOf(q)'
  BY <1>0, <1>13 DEF OneBootstrapOf, Knows, CheckPeerList, viewerVars
<1>14. CASE CreateChannel
  BY <1>0, <1>14 DEF OneBootstrapOf, Knows, CreateChannel, tableVars, viewerVars
<1>15. CASE BootstrapDies
  BY <1>0, <1>15 DEF OneBootstrapOf, Knows, BootstrapDies, Carries, viewerVars, TypeOK
<1>16. CASE BootstrapStarts
  BY <1>16 DEF OneBootstrapOf, Knows, BootstrapStarts, TablesEmpty, tableVars, viewerVars
<1>17. CASE UNCHANGED vars
  BY <1>0, <1>17 DEF OneBootstrapOf, Knows, vars, bootVars, tableVars, viewerVars
<1> QED
  BY <1>1, <1>2, <1>3, <1>4, <1>5, <1>6, <1>7, <1>8, <1>9, <1>10, <1>11, <1>12, <1>13,
     <1>14, <1>15, <1>16, <1>17 DEF Next, Viewer

\* The inductive invariant: the types, the empty tables of absent viewers and the identity
\* a viewer knows.
THEOREM Invariance == Spec => []IInv
<1>1. IInv /\ [Next]_vars => IInv'
  BY TypeStep, TablesStep, OneBootstrapStep DEF IInv
<1> QED BY <1>1, InitInv, PTL DEF Spec

\* No viewer takes the state it is to have from a bootstrap other than the one
\* it knows, although that answer does not say whose it is.
THEOREM OnlyItsBootstrap == Spec => []ObeysItsBootstrap
<1>1. IInv => ObeysItsBootstrap
  BY DEF IInv, OneBootstrap, OneBootstrapOf, Knows, ObeysItsBootstrap, TypeOK
<1> QED BY <1>1, Invariance, PTL
-----------------------------------------------------------------------------
(***************************************************************************)
(* Sessions implements Announcement.                                        *)
(***************************************************************************)

HeardBy == [p \in Viewers |-> Heard(p)]

\* What is promised speaks of: the steps that leave it alone are its stutters.
Promised == <<newMode, waitInform, HeardBy, excused>>

\* Nobody hears anything else in a step that changes one viewer and not what it hears.
LEMMA HeardSame ==
  ASSUME NEW p \in Viewers, Heard(p)' = Heard(p),
         \A q \in Viewers \ {p} :
           /\ place'[q] = place[q] /\ socket'[q] = socket[q] /\ conn'[q] = conn[q]
           /\ reply'[q] = reply[q] /\ state'[q] = state[q]
  PROVE  HeardBy' = HeardBy
<1>1. \A q \in Viewers \ {p} : Heard(q)' = Heard(q)
  BY DEF Heard, Reachable
<1> QED BY <1>1 DEF HeardBy

\* Only the viewer that changes may hear something else.
LEMMA HeardOne ==
  ASSUME NEW p \in Viewers, NEW h, Heard(p)' = h,
         \A q \in Viewers \ {p} :
           /\ place'[q] = place[q] /\ socket'[q] = socket[q] /\ conn'[q] = conn[q]
           /\ reply'[q] = reply[q] /\ state'[q] = state[q]
  PROVE  HeardBy' = [HeardBy EXCEPT ![p] = h]
<1>1. \A q \in Viewers \ {p} : Heard(q)' = Heard(q)
  BY DEF Heard, Reachable
<1> QED BY <1>1 DEF HeardBy

\* The first states are first states of the promise.
LEMMA InitRefines == Init => Promise!Init
BY DEF Init, Promise!Init, Heard, Reachable, Promise!Unreachable

\* The viewer's steps join, lose or change nothing: an answer counts as heard
\* from the moment it is written.
LEMMA ViewerRefines ==
  ASSUME IInv, NEW p \in Viewers, Start(p) \/ Viewer(p) \/ Kill(p) \/ Break(p)
  PROVE  Promise!Join(p) \/ Promise!Lose(p) \/ UNCHANGED Promised
<1> USE DEF IInv
<1> DEFINE Others == \A q \in Viewers \ {p} :
           /\ place'[q] = place[q] /\ socket'[q] = socket[q] /\ conn'[q] = conn[q]
           /\ reply'[q] = reply[q] /\ state'[q] = state[q]
<1>1. Others
  BY DEF Start, Viewer, Kill, Break, Ask, NotConnected, OpenThrows, NoticeBreak, Fail,
         Quit, Stop, HandlePeerlistMessage, HandleMessageServerSub,
         HandleServerAuxListMessage, HandleErrorMessage, Receive, viewerVars, TypeOK
<1>2. UNCHANGED <<newMode, waitInform>>
  BY DEF Start, Viewer, Kill, Break, Ask, NotConnected, OpenThrows, NoticeBreak,
         HandlePeerlistMessage, HandleMessageServerSub, HandleServerAuxListMessage,
         HandleErrorMessage, Receive, bootVars, tableVars
<1>3. ~Start(p) => excused' = excused
  BY DEF Viewer, Kill, Break, Ask, NotConnected, OpenThrows, NoticeBreak,
         HandlePeerlistMessage, HandleMessageServerSub, HandleServerAuxListMessage,
         HandleErrorMessage, Receive
<1>4. ASSUME Heard(p)' = "unreachable", ~Start(p) PROVE Promise!Lose(p)
  <2>1. HeardBy' = [HeardBy EXCEPT ![p] = "unreachable"]
    BY <1>1, <1>4, HeardOne
  <2> QED BY <1>2, <1>3, <1>4, <2>1 DEF Promise!Lose, Promise!Unreachable, HeardBy
<1>5. ASSUME Heard(p)' = Heard(p), ~Start(p) PROVE UNCHANGED Promised
  <2>1. HeardBy' = HeardBy
    BY <1>1, <1>5, HeardSame
  <2> QED BY <1>2, <1>3, <1>5, <2>1 DEF Promised
<1> HIDE DEF Others
<1>6. CASE Start(p)
  <2>1. Heard(p) = "unreachable"
    BY <1>6 DEF Start, Heard, Reachable
  <2>2. conn[p] = "none"
    BY <1>6 DEF Start, TypeOK
  <2>3. Heard(p)' = NoAux
    BY <1>6, <2>2 DEF Start, Heard, Reachable, TypeOK
  <2>4. HeardBy' = [HeardBy EXCEPT ![p] = NoAux]
    BY <1>1, <2>3, HeardOne DEF Others
  <2>5. excused' = [excused EXCEPT ![p] = newMode[p] # NoAux]
    BY <1>6 DEF Start
  <2>6. HeardBy[p] = "unreachable"
    BY <2>1 DEF HeardBy
  <2> QED BY <1>2, <2>4, <2>5, <2>6 DEF Promise!Join, Promise!Unreachable, HeardBy
<1>7. CASE Ask(p) \/ NotConnected(p)
  <2>1. socket[p] # "stuck" /\ place[p] = "ready"
    BY <1>7 DEF Ask, NotConnected, OpenFails, ConnectFails, TypeOK
  <2>2. conn[p] = "none" /\ Heard(p) = state[p]
    BY <2>1 DEF TypeOK, Heard, Reachable
  <2>3. Heard(p)' = state[p] \/ Heard(p)' = "unreachable"
    BY <1>7, <2>1, <2>2 DEF Ask, NotConnected, Fail, Heard, Reachable, TypeOK
  <2>4. ~Start(p)
    BY <2>1 DEF Start
  <2> QED BY <1>4, <1>5, <2>2, <2>3, <2>4
<1>8. CASE OpenThrows(p) \/ NoticeBreak(p) \/ HandleErrorMessage(p) \/ Kill(p) \/ Break(p)
  <2>1. Heard(p)' = "unreachable"
    BY <1>8 DEF OpenThrows, NoticeBreak, HandleErrorMessage, Kill, Break, Carries, Fail, Quit,
                Heard, Reachable, TypeOK
  <2>2. ~Start(p)
    BY <1>8 DEF OpenThrows, NoticeBreak, HandleErrorMessage, Receive, Kill, Break, Carries,
                Start, TypeOK
  <2> QED BY <1>4, <2>1, <2>2
<1>9. CASE HandlePeerlistMessage(p) \/ HandleServerAuxListMessage(p)
  <2>1. conn[p] = "reply" /\ place[p] = "asking" /\ reply[p].type # "serverAux"
    BY <1>9 DEF HandlePeerlistMessage, HandleServerAuxListMessage, Receive
  <2>2. Heard(p) = state[p]
    BY <2>1 DEF TypeOK, Heard, Reachable
  <2>3. Heard(p)' = state[p] \/ Heard(p)' = "unreachable"
    BY <1>9, <2>1 DEF HandlePeerlistMessage, HandleServerAuxListMessage, Receive, Stop, Quit,
                      Heard, Reachable, TypeOK
  <2>4. ~Start(p)
    BY <2>1 DEF Start
  <2> QED BY <1>4, <1>5, <2>2, <2>3, <2>4
<1>10. CASE HandleMessageServerSub(p)
  <2>1. conn[p] = "reply" /\ place[p] = "asking" /\ reply[p].type = "serverAux"
    BY <1>10 DEF HandleMessageServerSub, Receive
  <2>2. Heard(p) = reply[p].state
    BY <2>1 DEF TypeOK, Heard, Reachable
  <2>3. Heard(p)' = reply[p].state
    BY <1>10, <2>1 DEF HandleMessageServerSub, Receive, Stop, Heard, Reachable, TypeOK
  <2>4. ~Start(p)
    BY <2>1 DEF Start
  <2> QED BY <1>5, <2>2, <2>3, <2>4
<1> QED
  BY <1>6, <1>7, <1>8, <1>9, <1>10 DEF Viewer

\* What the bootstrap does: an answer with news is heard when it is written, or
\* wasted when its viewer is gone.
LEMMA HandleRefines ==
  ASSUME IInv, NEW p \in Viewers, Handle(p) \/ HandleOrphan(p)
  PROVE  Promise!Hear(p) \/ Promise!Waste(p) \/ UNCHANGED Promised
<1> USE DEF IInv
<1>1. CASE Handle(p)
  <2>1. /\ conn[p] = "request" /\ conn' = [conn EXCEPT ![p] = "reply"]
        /\ reply' = [reply EXCEPT ![p] = Answer(p)]
        /\ UNCHANGED <<newMode, place, socket, state>>
        /\ waitInform' = [waitInform EXCEPT ![p] = FALSE]
        /\ excused' = [excused EXCEPT ![p] = @ /\ ~waitInform[p]]
    BY <1>1 DEF Handle, HandleChannelMessage, Informed, viewerVars
  <2>2. place[p] = "asking" /\ socket[p] = "open"
    BY <2>1 DEF TypeOK
  <2>3. Heard(p) = state[p] /\ state[p] \in AuxStates
    BY <2>1, <2>2 DEF Heard, Reachable, TypeOK
  <2>4. Heard(p)' = IF Answer(p).type = "serverAux" THEN Answer(p).state ELSE state[p]
    BY <2>1, <2>2 DEF Heard, Reachable, TypeOK
  <2>5. \A q \in Viewers \ {p} :
           /\ place'[q] = place[q] /\ socket'[q] = socket[q] /\ conn'[q] = conn[q]
           /\ reply'[q] = reply[q] /\ state'[q] = state[q]
    BY <2>1 DEF TypeOK
  <2>6. CASE waitInform[p]
    <3>1. exists
      BY <2>6 DEF TablesEmpty
    <3>2. Answer(p).type = "serverAux" /\ Answer(p).state = newMode[p]
      BY <2>6, <3>1 DEF Answer, ServerAux
    <3>3. HeardBy' = [HeardBy EXCEPT ![p] = newMode[p]]
      BY <2>4, <2>5, <3>2, HeardOne
    <3>4. excused' = [excused EXCEPT ![p] = FALSE]
      BY <2>1, <2>6 DEF TypeOK
    <3>5. HeardBy[p] # "unreachable"
      BY <2>3 DEF HeardBy
    <3>6. Promise!Hear(p)
      BY <2>1, <2>6, <3>3, <3>4, <3>5 DEF Promise!Hear, Promise!Unreachable, HeardBy
    <3> QED BY <3>6
  <2>7. CASE ~waitInform[p]
    <3>1. Answer(p).type # "serverAux"
      BY <2>7 DEF Answer, Unavailable, ServerAuxList, PeerlistShare
    <3>2. HeardBy' = HeardBy
      BY <2>3, <2>4, <2>5, <3>1, HeardSame
    <3>3. excused' = excused /\ waitInform' = waitInform
      BY <2>1, <2>7 DEF TypeOK
    <3> QED BY <2>1, <3>2, <3>3 DEF Promised
  <2> QED BY <2>6, <2>7
<1>2. CASE HandleOrphan(p)
  <2>1. /\ UNCHANGED <<newMode, place, socket, state, conn, reply>>
        /\ waitInform' = [waitInform EXCEPT ![p] = FALSE]
        /\ excused' = [excused EXCEPT ![p] = @ \/ waitInform[p]]
    BY <1>2 DEF HandleOrphan, HandleChannelMessage, Informed, viewerVars
  <2>2. HeardBy' = HeardBy
    BY <2>1 DEF HeardBy, Heard, Reachable
  <2>3. CASE waitInform[p]
    <3>1. excused' = [excused EXCEPT ![p] = TRUE]
      BY <2>1, <2>3 DEF TypeOK
    <3> QED BY <2>1, <2>2, <2>3, <3>1 DEF Promise!Waste, HeardBy
  <2>4. CASE ~waitInform[p]
    <3>1. excused' = excused /\ waitInform' = waitInform
      BY <2>1, <2>4 DEF TypeOK
    <3> QED BY <2>1, <2>2, <3>1 DEF Promised
  <2> QED BY <2>3, <2>4
<1> QED BY <1>1, <1>2

\* A change of state announces or withdraws a state, or says nothing to candidates.
LEMMA ChannelRefines ==
  ASSUME IInv, NEW p \in Viewers, Channel(p)
  PROVE  \/ \E s \in AuxStates : Promise!Announce(p, s)
         \/ Promise!Withdraw({p}) \/ UNCHANGED Promised
<1>1. HeardBy' = HeardBy
  BY DEF Channel, SetState, SetPeerWaitListServer, NotKept, viewerVars, HeardBy, Heard, Reachable
<1>2. ASSUME NEW s \in AuxStates, SetState(p, s) PROVE Promise!Announce(p, s)
  BY <1>1, <1>2 DEF SetState, Promise!Announce, HeardBy
<1>3. CASE SetPeerWaitListServer(p)
  BY <1>1, <1>3 DEF SetPeerWaitListServer, Promised
<1>4. CASE NotKept(p)
  <2>1. \A q \in Viewers : HeardBy[q] = Heard(q)
    BY DEF HeardBy
  <2> QED BY <1>1, <1>4, <2>1 DEF NotKept, EraseCandidates, Promise!Withdraw, HeardBy
<1> QED BY <1>2, <1>3, <1>4 DEF Channel

\* The sweep withdraws the states of those it removes.
LEMMA SweepRefines ==
  ASSUME IInv, NEW S \in SUBSET Viewers, NEW channel \in BOOLEAN, CheckPeerList(S, channel)
  PROVE  Promise!Withdraw(S)
<1>1. HeardBy' = HeardBy
  BY DEF CheckPeerList, viewerVars, HeardBy, Heard, Reachable
<1>2. \A q \in Viewers : HeardBy[q] = Heard(q)
  BY DEF HeardBy
<1> QED BY <1>1, <1>2 DEF CheckPeerList, EraseCandidates, Promise!Withdraw, HeardBy

\* The end of the bootstrap withdraws every state and cuts off those that wait for an answer.
LEMMA DeathRefines ==
  ASSUME IInv, BootstrapDies
  PROVE  Promise!Collapse({p \in Viewers : Carries(p)})
<1> DEFINE cut == {p \in Viewers : Carries(p)}
<1>1. \A q \in Viewers : Heard(q)' = IF q \in cut THEN "unreachable" ELSE Heard(q)
  BY DEF BootstrapDies, Carries, viewerVars, Heard, Reachable, TypeOK, IInv
<1>2. HeardBy' = [q \in Viewers |-> IF q \in cut THEN "unreachable" ELSE HeardBy[q]]
  BY <1>1 DEF HeardBy
<1>3. /\ newMode' = [q \in Viewers |-> NoAux] /\ waitInform' = [q \in Viewers |-> FALSE]
      /\ excused' = [q \in Viewers |-> HeardBy[q] # NoAux]
  BY DEF BootstrapDies, EraseCandidates, HeardBy
<1> QED BY <1>2, <1>3 DEF Promise!Collapse, Promise!Unreachable, HeardBy

\* Every step is a step of the promise or leaves it alone.
LEMMA StepRefines == IInv /\ [Next]_vars => [Promise!Next]_(Promise!vars)
<1> SUFFICES ASSUME IInv, [Next]_vars PROVE Promise!Next \/ UNCHANGED Promised
  BY DEF Promised, Promise!vars, HeardBy
<1>1. ASSUME NEW p \in Viewers, Start(p) \/ Viewer(p) \/ Kill(p) \/ Break(p)
      PROVE Promise!Next \/ UNCHANGED Promised
  BY <1>1, ViewerRefines DEF Promise!Next
<1>2. ASSUME NEW p \in Viewers, Handle(p) \/ HandleOrphan(p)
      PROVE Promise!Next \/ UNCHANGED Promised
  BY <1>2, HandleRefines DEF Promise!Next
<1>3. ASSUME NEW p \in Viewers, Channel(p) PROVE Promise!Next \/ UNCHANGED Promised
  <2>1. {p} \in SUBSET Viewers
    OBVIOUS
  <2> QED BY <1>3, <2>1, ChannelRefines DEF Promise!Next
<1>4. ASSUME NEW S \in SUBSET Viewers, NEW channel \in BOOLEAN, CheckPeerList(S, channel)
      PROVE Promise!Next
  BY <1>4, SweepRefines DEF Promise!Next
<1>5. CASE BootstrapDies
  <2>1. {p \in Viewers : Carries(p)} \in SUBSET Viewers
    OBVIOUS
  <2> QED BY <1>5, <2>1, DeathRefines DEF Promise!Next
<1>6. CASE CreateChannel \/ BootstrapStarts
  BY <1>6 DEF CreateChannel, BootstrapStarts, tableVars, viewerVars, Promised, HeardBy, Heard,
              Reachable
<1>7. CASE UNCHANGED vars
  BY <1>7 DEF vars, bootVars, tableVars, viewerVars, Promised, HeardBy, Heard, Reachable
<1> QED BY <1>1, <1>2, <1>3, <1>4, <1>5, <1>6, <1>7 DEF Next

\* The polls keep the promise of Announcement: whatever fails, each state that
\* the bootstrap gives is taken at most once and in order, and lost only with
\* the viewer.
THEOREM Refinement == Spec => KeepsPromise
<1>1. Init => Promise!Init
  BY InitRefines
<1>2. IInv /\ [Next]_vars => [Promise!Next]_(Promise!vars)
  BY StepRefines
<1> QED BY <1>1, <1>2, Invariance, PTL DEF Spec, KeepsPromise, Promise!Spec

\* Whatever keeps the promise agrees.
LEMMA AgreementStep ==
  TypeOK /\ Promise!Agreement /\ [Promise!Next]_(Promise!vars) => Promise!Agreement'
<1> SUFFICES ASSUME TypeOK, Promise!Agreement, [Promise!Next]_(Promise!vars)
             PROVE  Promise!Agreement'
  OBVIOUS
<1> USE DEF TypeOK, Promise!Agreement, Promise!Unreachable
<1>1. ASSUME NEW p \in Viewers, NEW s \in AuxStates, Promise!Announce(p, s)
      PROVE  Promise!Agreement'
  BY <1>1 DEF Promise!Announce
<1>2. ASSUME NEW p \in Viewers, Promise!Hear(p) PROVE Promise!Agreement'
  <2>1. /\ HeardBy' = [HeardBy EXCEPT ![p] = newMode[p]] /\ newMode' = newMode
        /\ waitInform' = [waitInform EXCEPT ![p] = FALSE]
        /\ excused' = [excused EXCEPT ![p] = FALSE]
    BY <1>2 DEF Promise!Hear, HeardBy
  <2>2. \A q \in Viewers : HeardBy'[q] = IF q = p THEN newMode[p] ELSE HeardBy[q]
    BY <2>1 DEF HeardBy
  <2>3. \A q \in Viewers : HeardBy[q] = Heard(q) /\ HeardBy'[q] = Heard(q)'
    BY DEF HeardBy
  <2> QED BY <2>1, <2>2, <2>3
<1>3. ASSUME NEW p \in Viewers, Promise!Lose(p) PROVE Promise!Agreement'
  BY <1>3 DEF Promise!Lose
<1>4. ASSUME NEW p \in Viewers, Promise!Join(p) PROVE Promise!Agreement'
  BY <1>4 DEF Promise!Join
<1>5. ASSUME NEW p \in Viewers, Promise!Waste(p) PROVE Promise!Agreement'
  BY <1>5 DEF Promise!Waste
<1>6. ASSUME NEW S \in SUBSET Viewers, Promise!Withdraw(S) PROVE Promise!Agreement'
  BY <1>6 DEF Promise!Withdraw
<1>7. ASSUME NEW S \in SUBSET Viewers, Promise!Collapse(S) PROVE Promise!Agreement'
  BY <1>7 DEF Promise!Collapse
<1>8. CASE UNCHANGED Promise!vars
  BY <1>8 DEF Promise!vars
<1> QED BY <1>1, <1>2, <1>3, <1>4, <1>5, <1>6, <1>7, <1>8 DEF Promise!Next

\* A viewer that can be reached has the state the bootstrap believes it has, or
\* the news is waiting, but for a restart or a removal.
THEOREM Agrees == Spec => []Agreement
<1>1. Promise!Init => Promise!Agreement
  BY DEF Promise!Init, Promise!Agreement
<1>2. IInv => TypeOK
  BY DEF IInv
<1> QED
  BY <1>1, <1>2, AgreementStep, Invariance, Refinement, PTL
  DEF KeepsPromise, Promise!Spec, Agreement
-----------------------------------------------------------------------------
(***************************************************************************)
(* Where the fields of a layout are, and that their bytes are theirs alone. *)
(***************************************************************************)

\* Where field i begins when f says it of the one before.
NextBegin(layout, f, i) ==
    LET n == IF i = 1 THEN 0 ELSE f[i - 1] + layout[i - 1].bits \div 8
        m == IF layout[i].bits # 8 THEN 2 ELSE 1
    IN  ((n + m - 1) \div m) * m

Places(layout, f) == f = [i \in 1..Len(layout) |-> NextBegin(layout, f, i)]

\* A table that solves the recursion of Begins is what Begins computes.
LEMMA BeginsPlaces ==
  ASSUME NEW layout, Len(layout) \in Nat, NEW t, Places(layout, t)
  PROVE  Begins(layout) = t
<1> DEFINE f == Begins(layout)
<1>1. Places(layout, f)
  <2> DEFINE g == CHOOSE g : Places(layout, g)
  <2>1. Places(layout, g)
    OBVIOUS
  <2>2. f = g
    BY DEF Begins, Places, NextBegin
  <2> QED BY <2>1, <2>2
<1> HIDE DEF f
<1>2. ASSUME f # t PROVE FALSE
  <2> DEFINE Bad == {i \in 1..Len(layout) : f[i] # t[i]}
             m == Min(Bad)
  <2>1. Bad # {} /\ Bad \in SUBSET Nat
    BY <1>1, <1>2 DEF Places
  <2>2. m \in Bad /\ \A i \in Bad : m <= i
    <3> HIDE DEF Bad
    <3> QED BY <2>1, MinProperties
  <2> HIDE DEF m
  <2>3. m # 1 => m - 1 \in 1..Len(layout) /\ m - 1 \notin Bad
    BY <2>2
  <2>4. m # 1 => f[m - 1] = t[m - 1]
    BY <2>3
  <2>5. NextBegin(layout, f, m) = NextBegin(layout, t, m)
    BY <2>4 DEF NextBegin
  <2>6. m \in 1..Len(layout) /\ f[m] # t[m]
    BY <2>2
  <2> HIDE DEF Bad
  <2>7. f[m] = NextBegin(layout, f, m) /\ t[m] = NextBegin(layout, t, m)
    BY <1>1, <2>6 DEF Places
  <2> QED BY <2>5, <2>6, <2>7
<1> QED BY <1>2 DEF f
-----------------------------------------------------------------------------
\* Fields begin and are as wide as numbers of bytes say.
Sound(layout) ==
    \A j \in DOMAIN layout :
      Begins(layout)[j] \in Nat /\ layout[j].bits \div 8 \in Nat

\* The bytes of field i are of no other field.
Alone(layout, i) ==
    \A j \in DOMAIN layout \ {i} :
        \/ Begins(layout)[j] + layout[j].bits \div 8 <= Begins(layout)[i]
        \/ Begins(layout)[i] + layout[i].bits \div 8 <= Begins(layout)[j]

\* A field that shares its bytes with no other is written byte by byte.
LEMMA FieldWritten ==
  ASSUME NEW m, NEW from \in Nat, NEW layout, Sound(layout), NEW data,
         NEW i \in DOMAIN layout, Alone(layout, i),
         NEW k \in Nat, k < layout[i].bits \div 8,
         NEW b \in DOMAIN m, b = from + Begins(layout)[i] + k
  PROVE  AssembleHeaderValues(m, from, layout, data)[b] = ByteOf(data[layout[i].name], k)
<1> DEFINE at == Begins(layout)
           Field == {j \in DOMAIN layout : b - from - at[j] \in 0..(layout[j].bits \div 8 - 1)}
<1>0. \A j \in DOMAIN layout : at[j] \in Nat /\ layout[j].bits \div 8 \in Nat
  BY DEF Sound
<1>1. at[i] \in Nat /\ b \in Nat /\ b - from - at[i] = k
  BY <1>0
<1>2. i \in Field
  BY <1>0, <1>1
<1>3. ASSUME NEW j \in Field PROVE j = i
  BY <1>0, <1>1, <1>3 DEF Alone
<1>4. (CHOOSE j \in Field : TRUE) = i /\ Field # {}
  <2> HIDE DEF Field
  <2> QED BY <1>2, <1>3
<1>5. AssembleHeaderValues(m, from, layout, data)[b] =
        IF Field = {} THEN m[b]
        ELSE LET j == CHOOSE j \in Field : TRUE
             IN  ByteOf(data[layout[j].name], b - from - at[j])
  BY <1>1 DEF AssembleHeaderValues
<1> QED BY <1>1, <1>4, <1>5

\* A byte before the fields is left as it was.
LEMMA BeforeFields ==
  ASSUME NEW m, NEW from \in Nat, NEW layout, Sound(layout), NEW data,
         NEW b \in DOMAIN m, b \in Nat, b < from
  PROVE  AssembleHeaderValues(m, from, layout, data)[b] = m[b]
<1> DEFINE Field == {j \in DOMAIN layout :
                       b - from - Begins(layout)[j] \in 0..(layout[j].bits \div 8 - 1)}
<1>1. Field = {}
  BY DEF Sound
<1> QED BY <1>1 DEF AssembleHeaderValues
-----------------------------------------------------------------------------
\* The header of every message.
LEMMA HeaderPlaces ==
  /\ DOMAIN MessageHeader = 1..4 /\ Begins(MessageHeader) = <<0, 1, 2, 4>>
  /\ MessageHeader[1] = F8("opcode") /\ MessageHeader[2] = F8("headerSize")
  /\ MessageHeader[3] = F16("bodySize") /\ MessageHeader[4] = F16("checksum")
<1> DEFINE t == <<0, 1, 2, 4>>
<1>1. /\ DOMAIN MessageHeader = 1..4 /\ Len(MessageHeader) = 4
      /\ MessageHeader[1] = F8("opcode") /\ MessageHeader[2] = F8("headerSize")
      /\ MessageHeader[3] = F16("bodySize") /\ MessageHeader[4] = F16("checksum")
  BY DEF MessageHeader
<1>2. \A i \in 1..4 : t[i] = NextBegin(MessageHeader, t, i)
  BY <1>1, Z3 DEF NextBegin, F8, F16
<1>3. Places(MessageHeader, t)
  BY <1>1, <1>2 DEF Places
<1> QED BY <1>1, <1>3, BeginsPlaces

\* The poll: the ints are aligned to pairs of bytes, not to four.
LEMMA ChannelPlaces ==
  /\ DOMAIN MessageChannel = 1..10
  /\ Begins(MessageChannel) = <<0, 1, 2, 4, 6, 10, 14, 15, 16, 18>>
  /\ \A i \in 1..10 : MessageChannel[i].bits = <<8,8,16,16,32,32,8,8,16,16>>[i]
<1> DEFINE t == <<0, 1, 2, 4, 6, 10, 14, 15, 16, 18>>
<1>1. /\ DOMAIN MessageChannel = 1..10 /\ Len(MessageChannel) = 10
      /\ \A i \in 1..10 : MessageChannel[i].bits = <<8,8,16,16,32,32,8,8,16,16>>[i]
  BY DEF MessageChannel, F8, F16, F32
<1>2. \A i \in 1..10 : t[i] = NextBegin(MessageChannel, t, i)
  BY <1>1, Z3 DEF NextBegin
<1>3. Places(MessageChannel, t)
  BY <1>1, <1>2 DEF Places
<1> QED BY <1>1, <1>3, BeginsPlaces

\* The answer with the identity, as the last of fourteen fields.
LEMMA SharePlaces ==
  /\ DOMAIN MessagePeerlistShare = 1..14
  /\ \A i \in 1..14 : MessagePeerlistShare[i].bits =
                        <<8, 16, 8, 8, 8, 8, 16, 32, 16, 32, 32, 32, 32, 32>>[i]
  /\ MessagePeerlistShare[1].name = "type" /\ MessagePeerlistShare[14].name = "bootID"
  /\ Begins(MessagePeerlistShare) = <<0, 2, 4, 5, 6, 7, 8, 10, 14, 16, 20, 24, 28, 32>>
<1> DEFINE t == <<0, 2, 4, 5, 6, 7, 8, 10, 14, 16, 20, 24, 28, 32>>
<1> DEFINE u == <<F8("ip1"), F8("ip2"), F8("ip3"), F8("ip4"), F16("port"), F32("tipCycle"),
                  F16("tipPosition"), F32("streamRate"), F32("creationTime"), F32("bootTime"),
                  F32("clientTime"), F32("bootID")>>
<1>1. /\ DOMAIN MessagePeerlistShare = 1..14 /\ Len(MessagePeerlistShare) = 14
      /\ MessagePeerlistShare[1] = F8("type") /\ MessagePeerlistShare[2] = F16("qtdPeers")
      /\ \A i \in 1..12 : MessagePeerlistShare[i + 2] = u[i]
  <2> DEFINE S == {F8("type"), F16("qtdPeers"), F8("ip1"), F8("ip2"), F8("ip3"), F8("ip4"),
                   F16("port"), F32("tipCycle"), F16("tipPosition"), F32("streamRate"),
                   F32("creationTime"), F32("bootTime"), F32("clientTime"), F32("bootID")}
  <2>1. u \in Seq(S) /\ Len(u) = 12
    OBVIOUS
  <2>2. /\ MessagePeerlist \in Seq(S) /\ Len(MessagePeerlist) = 2
        /\ MessagePeerlist[1] = F8("type") /\ MessagePeerlist[2] = F16("qtdPeers")
    BY DEF MessagePeerlist
  <2>3. MessagePeerlistShare = MessagePeerlist \o u
    BY DEF MessagePeerlistShare
  <2> HIDE DEF u, S
  <2>4. /\ Len(MessagePeerlistShare) = 14 /\ MessagePeerlistShare \in Seq(S)
        /\ \A i \in 1..14 : MessagePeerlistShare[i] =
                              IF i <= 2 THEN MessagePeerlist[i] ELSE u[i - 2]
    <3>1. /\ Len(MessagePeerlist \o u) = Len(MessagePeerlist) + Len(u)
          /\ MessagePeerlist \o u \in Seq(S)
          /\ \A i \in 1..(Len(MessagePeerlist) + Len(u)) :
               (MessagePeerlist \o u)[i] = IF i <= Len(MessagePeerlist) THEN MessagePeerlist[i]
                                           ELSE u[i - Len(MessagePeerlist)]
      BY <2>1, <2>2, ConcatProperties
    <3>2. Len(MessagePeerlist) = 2 /\ Len(u) = 12 /\ 2 + 12 = 14
      BY <2>1, <2>2
    <3>3. Len(MessagePeerlistShare) = 14 /\ MessagePeerlistShare \in Seq(S)
      BY <2>3, <3>1, <3>2
    <3>4. \A i \in 1..14 : MessagePeerlistShare[i] =
                             IF i <= 2 THEN MessagePeerlist[i] ELSE u[i - 2]
      BY <2>3, <3>1, <3>2
    <3> QED BY <3>3, <3>4
  <2>5. DOMAIN MessagePeerlistShare = 1..14
    BY <2>4
  <2>6. \A i \in 1..12 : i + 2 \in 1..14 /\ ~(i + 2 <= 2) /\ (i + 2) - 2 = i
    OBVIOUS
  <2> QED BY <2>2, <2>4, <2>5, <2>6
<1>2. /\ DOMAIN MessagePeerlistShare = 1..14 /\ Len(MessagePeerlistShare) = 14
      /\ \A i \in 1..14 : MessagePeerlistShare[i].bits =
                            <<8, 16, 8, 8, 8, 8, 16, 32, 16, 32, 32, 32, 32, 32>>[i]
      /\ MessagePeerlistShare[1].name = "type" /\ MessagePeerlistShare[14].name = "bootID"
  BY <1>1 DEF F8, F16, F32
<1>3. \A i \in 1..14 : t[i] = NextBegin(MessagePeerlistShare, t, i)
  BY <1>2, Z3 DEF NextBegin
<1>4. Places(MessagePeerlistShare, t)
  BY <1>2, <1>3 DEF Places
<1> QED BY <1>2, <1>4, BeginsPlaces

\* The answer with the state.
LEMMA ServerSubPlaces ==
  /\ DOMAIN MessageServerSub = 1..4 /\ Begins(MessageServerSub) = <<0, 1, 2, 3>>
  /\ \A i \in 1..4 : MessageServerSub[i].bits = 8
  /\ MessageServerSub[1].name = "state"
<1> DEFINE t == <<0, 1, 2, 3>>
<1>1. /\ DOMAIN MessageServerSub = 1..4 /\ Len(MessageServerSub) = 4
      /\ \A i \in 1..4 : MessageServerSub[i].bits = 8
      /\ MessageServerSub[1].name = "state"
  BY DEF MessageServerSub, F8
<1>2. \A i \in 1..4 : t[i] = NextBegin(MessageServerSub, t, i)
  BY <1>1, Z3 DEF NextBegin
<1>3. Places(MessageServerSub, t)
  BY <1>1, <1>2 DEF Places
<1> QED BY <1>1, <1>3, BeginsPlaces

\* The refusal.
LEMMA ErrorPlaces ==
  /\ DOMAIN MessageError = 1..1 /\ Begins(MessageError) = <<0>>
  /\ MessageError[1].bits = 8 /\ MessageError[1].name = "error"
<1> DEFINE t == <<0>>
<1>1. /\ DOMAIN MessageError = 1..1 /\ Len(MessageError) = 1
      /\ MessageError[1].bits = 8 /\ MessageError[1].name = "error"
  BY DEF MessageError, F8
<1>2. \A i \in 1..1 : t[i] = NextBegin(MessageError, t, i)
  BY <1>1, Z3 DEF NextBegin
<1>3. Places(MessageError, t)
  BY <1>1, <1>2 DEF Places
<1> QED BY <1>1, <1>3, BeginsPlaces

-----------------------------------------------------------------------------
(***************************************************************************)
(* A field that was written is read, through header and checksum.           *)
(***************************************************************************)

\* The checksum goes into its own two bytes.
LEMMA IntegrityElsewhere ==
  ASSUME NEW m, NEW b \in DOMAIN m, b # 4, b # 5
  PROVE  SetIntegrity(m)[b] = m[b]
BY DEF SetIntegrity

\* What a layout must be like for its field i to be read back.
Readable(class, layout, i) ==
    /\ class \in Classes /\ Layout[class] = layout /\ i \in DOMAIN layout
    /\ Sound(layout) /\ Alone(layout, i)
    /\ MESSAGE_HEADER_SIZE + Begins(layout)[i] + layout[i].bits \div 8 <= HeaderSize[class]

\* The header of a message says its opcode, and a field has its bytes.
LEMMA MessageBytes ==
  ASSUME NEW class, NEW layout, NEW i, Readable(class, layout, i), NEW data, NEW garbage
  PROVE  LET m == SetIntegrity(New(class, 0, data, garbage))
         IN  /\ GetOpcode(m) = Opcode[class]
             /\ \A k \in Nat : k < layout[i].bits \div 8 =>
                  m[MESSAGE_HEADER_SIZE + Begins(layout)[i] + k]
                    = ByteOf(data[layout[i].name], k)
<1> DEFINE size == HeaderSize[class]
           raw == [b \in 0..(size - 1) |-> garbage[b]]
           header == [opcode |-> Opcode[class], headerSize |-> HeaderSize[class],
                      bodySize |-> 0, checksum |-> 0]
           headed == AssembleHeaderValues(raw, 0, MessageHeader, header)
           filled == AssembleHeaderValues(headed, MESSAGE_HEADER_SIZE, layout, data)
<1>1. size \in 8..102 /\ Opcode[class] \in 0..7 /\ 0 \in 0..(size - 1)
  <2>1. size \in 8..102 /\ Opcode[class] \in 0..7
    BY DEF Readable, Classes, HeaderSize, Opcode
  <2> QED BY <2>1
<1>2. /\ Layout[class] = layout /\ size + 0 = size
      /\ i \in DOMAIN layout /\ Sound(layout) /\ Alone(layout, i)
      /\ MESSAGE_HEADER_SIZE \in Nat /\ 0 < MESSAGE_HEADER_SIZE
  BY <1>1 DEF Readable, MESSAGE_HEADER_SIZE
<1>3. New(class, 0, data, garbage) = filled
  BY <1>2 DEF New
<1>4. DOMAIN headed = 0..(size - 1) /\ DOMAIN filled = 0..(size - 1)
  BY DEF AssembleHeaderValues
<1>5. headed[0] = Opcode[class]
  <2>1. /\ Sound(MessageHeader) /\ Alone(MessageHeader, 1)
        /\ MessageHeader[1].bits \div 8 = 1
    BY HeaderPlaces, Z3 DEF Alone, Sound, F8, F16
  <2>2. /\ 0 \in DOMAIN raw /\ 0 = 0 + Begins(MessageHeader)[1] + 0
        /\ 0 \in Nat /\ 1 \in DOMAIN MessageHeader
    BY <1>1, HeaderPlaces
  <2>3. headed[0] = ByteOf(header[MessageHeader[1].name], 0)
    <3> HIDE DEF raw, header
    <3>1. 0 < MessageHeader[1].bits \div 8
      BY <2>1
    <3> QED BY <2>1, <2>2, <3>1, FieldWritten
  <2>4. ByteOf(Opcode[class], 0) = Opcode[class]
    BY <1>1, Z3 DEF ByteOf
  <2> QED BY <2>3, <2>4, HeaderPlaces DEF F8
<1> HIDE DEF headed, filled, size, raw, header
<1>6. filled[0] = Opcode[class]
  <2>1. 0 \in DOMAIN headed
    BY <1>1, <1>4
  <2>2. AssembleHeaderValues(headed, MESSAGE_HEADER_SIZE, layout, data)[0] = headed[0]
    <3>1. 0 \in Nat
      OBVIOUS
    <3> QED BY <1>2, <2>1, <3>1, BeforeFields
  <2> QED BY <1>5, <2>2 DEF filled
<1>7. ASSUME NEW k \in Nat, k < layout[i].bits \div 8,
             NEW b, b = MESSAGE_HEADER_SIZE + Begins(layout)[i] + k
      PROVE  filled[b] = ByteOf(data[layout[i].name], k) /\ b \in 6..(size - 1)
  <2>1. b \in 6..(size - 1)
    BY <1>1, <1>7 DEF Readable, Sound, MESSAGE_HEADER_SIZE, size
  <2>2. b \in DOMAIN headed
    BY <1>1, <1>4, <2>1
  <2>3. filled[b] = ByteOf(data[layout[i].name], k)
    BY <1>2, <1>7, <2>2, FieldWritten DEF filled
  <2> QED BY <2>1, <2>3
<1>8. SetIntegrity(filled)[0] = filled[0]
  <2>1. 0 \in DOMAIN filled /\ 0 # 4 /\ 0 # 5
    BY <1>1, <1>4
  <2> QED BY <2>1, IntegrityElsewhere
<1>9. ASSUME NEW k \in Nat, k < layout[i].bits \div 8
      PROVE  SetIntegrity(filled)[MESSAGE_HEADER_SIZE + Begins(layout)[i] + k]
               = ByteOf(data[layout[i].name], k)
  <2> DEFINE b == MESSAGE_HEADER_SIZE + Begins(layout)[i] + k
  <2>1. filled[b] = ByteOf(data[layout[i].name], k) /\ b \in 6..(size - 1)
    BY <1>7, <1>9
  <2> HIDE DEF b
  <2>2. b \in DOMAIN filled /\ b # 4 /\ b # 5
    BY <1>1, <1>4, <2>1
  <2>3. SetIntegrity(filled)[b] = filled[b]
    BY <2>2, IntegrityElsewhere
  <2> QED BY <2>1, <2>3 DEF b
<1> QED BY <1>3, <1>6, <1>8, <1>9 DEF GetOpcode

\* What an int holds if it is not negative.
Int31 == {v \in Int : 0 <= v /\ v <= 2147483647}

\* Four bytes give such an int back, and one byte a number of one byte.
LEMMA ByteProperties ==
  /\ \A v \in 0..255 : ByteOf(v, 0) = v
  /\ \A v \in Int31 : Int32(ByteOf(v, 0), ByteOf(v, 1), ByteOf(v, 2), ByteOf(v, 3)) = v
<1>2. ASSUME NEW v \in 0..255 PROVE ByteOf(v, 0) = v
  BY Z3 DEF ByteOf
<1>4. ASSUME NEW v \in Int, 0 <= v, v <= 2147483647
      PROVE  Int32(ByteOf(v, 0), ByteOf(v, 1), ByteOf(v, 2), ByteOf(v, 3)) = v
  <2>1. /\ v % 256 \in Int /\ (v \div 256) % 256 \in Int /\ (v \div 65536) % 256 \in Int
        /\ (v \div 16777216) % 256 \in 0..127 /\ v \div 1 = v
    BY <1>4, SMT
  <2>2. v = (v % 256) + 256 * ((v \div 256) % 256) + 65536 * ((v \div 65536) % 256)
              + 16777216 * ((v \div 16777216) % 256)
    BY <1>4, SMT
  <2>3. Int32(v % 256, (v \div 256) % 256, (v \div 65536) % 256, (v \div 16777216) % 256) = v
    BY <2>1, <2>2, SMT DEF Int32
  <2>4. /\ ByteOf(v, 0) = v % 256 /\ ByteOf(v, 1) = (v \div 256) % 256
        /\ ByteOf(v, 2) = (v \div 65536) % 256 /\ ByteOf(v, 3) = (v \div 16777216) % 256
    BY <2>1, SMT DEF ByteOf
  <2> QED BY <2>3, <2>4, SMT
<1>5. \A v \in Int31 : v \in Int /\ 0 <= v /\ v <= 2147483647
  BY SMT DEF Int31
<1> QED BY <1>2, <1>4, <1>5, SMT

\* Field i has the bytes of v, and v has the width of the field.
Holds(m, layout, i, v) ==
    \A k \in Nat : k < layout[i].bits \div 8 =>
        m[MESSAGE_HEADER_SIZE + Begins(layout)[i] + k] = ByteOf(v, k)
Fits(layout, i, v) ==
    \/ layout[i].bits = 8 /\ v \in 0..255
    \/ layout[i].bits = 32 /\ v \in Int31

\* A field of a byte, or of an int that is not negative, is read as it was meant.
LEMMA FieldRead ==
  ASSUME NEW class, NEW layout, NEW i, Readable(class, layout, i), NEW m, NEW v,
         Holds(m, layout, i, v), Fits(layout, i, v)
  PROVE  SplitHeaderValues(m, MESSAGE_HEADER_SIZE, Layout[class])[i] = v
<1> DEFINE from == MESSAGE_HEADER_SIZE
           b(k) == m[from + Begins(layout)[i] + k]
<1>1. i \in DOMAIN layout /\ Layout[class] = layout
  BY DEF Readable
<1>2. SplitHeaderValues(m, from, Layout[class])[i] =
        CASE layout[i].bits = 8  -> b(0)
          [] layout[i].bits = 16 -> b(0) + 256 * b(1)
          [] layout[i].bits = 32 -> Int32(b(0), b(1), b(2), b(3))
  BY <1>1, Zenon DEF SplitHeaderValues
<1>3. CASE layout[i].bits = 8 /\ v \in 0..255
  <2>1. 0 < layout[i].bits \div 8
    BY <1>3, Z3
  <2>2. b(0) = ByteOf(v, 0)
    BY <2>1 DEF Holds
  <2>3. layout[i].bits # 16 /\ layout[i].bits # 32
    BY <1>3
  <2> HIDE DEF b
  <2>4. SplitHeaderValues(m, from, Layout[class])[i] = b(0)
    BY <1>2, <1>3, <2>3, Zenon
  <2> QED BY <1>3, <2>2, <2>4, ByteProperties
<1>4. CASE layout[i].bits = 32 /\ v \in Int31
  <2>1. layout[i].bits \div 8 = 4
    BY <1>4, Z3
  <2>2. b(0) = ByteOf(v, 0) /\ b(1) = ByteOf(v, 1) /\ b(2) = ByteOf(v, 2) /\ b(3) = ByteOf(v, 3)
    BY <2>1 DEF Holds
  <2>3. layout[i].bits # 8 /\ layout[i].bits # 16
    BY <1>4
  <2> HIDE DEF b
  <2>4. SplitHeaderValues(m, from, Layout[class])[i] = Int32(b(0), b(1), b(2), b(3))
    BY <1>2, <1>4, <2>3, Zenon
  <2> QED BY <1>4, <2>2, <2>4, ByteProperties
<1> QED BY <1>3, <1>4 DEF Fits
-----------------------------------------------------------------------------
\* A field of a message that was written by a class is read as it was meant.
LEMMA FieldTaken ==
  ASSUME NEW class, NEW layout, NEW i, Readable(class, layout, i), NEW data, NEW garbage,
         NEW v, v = data[layout[i].name], Fits(layout, i, v),
         NEW m, m = SetIntegrity(New(class, 0, data, garbage))
  PROVE  /\ GetOpcode(m) = Opcode[class]
         /\ SplitHeaderValues(m, MESSAGE_HEADER_SIZE, Layout[class])[i] = v
<1>1. /\ GetOpcode(m) = Opcode[class]
      /\ Holds(m, layout, i, v)
  BY MessageBytes DEF Holds
<1> QED BY <1>1, FieldRead

\* The fields that the polls look at have places of their own, in the header.
LEMMA ReadableFields ==
  /\ Readable("error", MessageError, 1)
  /\ Readable("serverSub", MessageServerSub, 1)
  /\ Readable("share", MessagePeerlistShare, 1) /\ Readable("share", MessagePeerlistShare, 14)
  /\ Readable("channel", MessageChannel, 1) /\ Readable("channel", MessageChannel, 2)
  /\ Readable("channel", MessageChannel, 7)
<1>1. {"error", "serverSub", "share", "channel"} \subseteq Classes
  BY DEF Classes, Opcode
<1>2. /\ Layout["error"] = MessageError /\ Layout["serverSub"] = MessageServerSub
      /\ Layout["share"] = MessagePeerlistShare /\ Layout["channel"] = MessageChannel
  BY DEF Layout
<1>3. /\ HeaderSize["error"] = 8 /\ HeaderSize["serverSub"] = 32
      /\ HeaderSize["share"] = 42 /\ HeaderSize["channel"] = 26
  BY DEF HeaderSize
<1>4. Readable("error", MessageError, 1)
  BY <1>1, <1>2, <1>3, ErrorPlaces, Z3 DEF Readable, Sound, Alone, MESSAGE_HEADER_SIZE
<1>5. Readable("serverSub", MessageServerSub, 1)
  BY <1>1, <1>2, <1>3, ServerSubPlaces, Z3 DEF Readable, Sound, Alone, MESSAGE_HEADER_SIZE
<1>6. Readable("share", MessagePeerlistShare, 1) /\ Readable("share", MessagePeerlistShare, 14)
  BY <1>1, <1>2, <1>3, SharePlaces, Z3 DEF Readable, Sound, Alone, MESSAGE_HEADER_SIZE
<1>7. ASSUME NEW i \in {1, 2, 7} PROVE Readable("channel", MessageChannel, i)
  <2>1. Sound(MessageChannel)
    BY ChannelPlaces, Z3 DEF Sound
  <2>2. CASE i = 1
    BY <1>1, <1>2, <1>3, <2>1, <2>2, ChannelPlaces, Z3 DEF Readable, Alone, MESSAGE_HEADER_SIZE
  <2>3. CASE i = 2
    BY <1>1, <1>2, <1>3, <2>1, <2>3, ChannelPlaces, Z3 DEF Readable, Alone, MESSAGE_HEADER_SIZE
  <2>4. CASE i = 7
    BY <1>1, <1>2, <1>3, <2>1, <2>4, ChannelPlaces, Z3 DEF Readable, Alone, MESSAGE_HEADER_SIZE
  <2> QED BY <2>2, <2>3, <2>4
<1> QED BY <1>4, <1>5, <1>6, <1>7
-----------------------------------------------------------------------------
(***************************************************************************)
(* What each side takes from the messages of the polls.                     *)
(***************************************************************************)

\* What is taken from a refusal,
LEMMA ErrorTaken ==
  ASSUME NEW garbage, NEW m,
         m = SetIntegrity(New("error", 0, [error |-> ERROR_CHANNEL_UNAVAILABLE], garbage))
  PROVE  GetOpcode(m) = 5 /\ Taken(m, "error").error = ERROR_CHANNEL_UNAVAILABLE
<1> DEFINE data == [error |-> ERROR_CHANNEL_UNAVAILABLE]
<1>1. data[MessageError[1].name] = 3 /\ MessageError[1].bits = 8 /\ 3 \in 0..255
  BY ErrorPlaces DEF ERROR_CHANNEL_UNAVAILABLE
<1> HIDE DEF data
<1>2. /\ GetOpcode(m) = Opcode["error"]
      /\ SplitHeaderValues(m, MESSAGE_HEADER_SIZE, Layout["error"])[1] = 3
  BY <1>1, ReadableFields, FieldTaken DEF data, Fits
<1>3. Taken(m, "error").error = SplitHeaderValues(m, MESSAGE_HEADER_SIZE, Layout["error"])[1]
  BY DEF Taken, Reader, ReadError
<1> QED BY <1>2, <1>3 DEF Opcode, ERROR_CHANNEL_UNAVAILABLE

\* ... from a state,
LEMMA ServerSubTaken ==
  ASSUME NEW garbage, NEW code \in 0..2, NEW m,
         m = SetIntegrity(New("serverSub", 0, [state |-> code, mixType |-> 2, qtPeers |-> 4,
                                               time |-> 200], garbage))
  PROVE  GetOpcode(m) = 6 /\ Taken(m, "serverSub").state = code
<1> DEFINE data == [state |-> code, mixType |-> 2, qtPeers |-> 4, time |-> 200]
<1>1. data[MessageServerSub[1].name] = code /\ MessageServerSub[1].bits = 8 /\ code \in 0..255
  BY ServerSubPlaces
<1> HIDE DEF data
<1>2. /\ GetOpcode(m) = Opcode["serverSub"]
      /\ SplitHeaderValues(m, MESSAGE_HEADER_SIZE, Layout["serverSub"])[1] = code
  BY <1>1, ReadableFields, FieldTaken DEF data, Fits
<1>3. Taken(m, "serverSub").state
        = SplitHeaderValues(m, MESSAGE_HEADER_SIZE, Layout["serverSub"])[1]
  BY DEF Taken, Reader, ReadServerSub
<1> QED BY <1>2, <1>3 DEF Opcode

\* ... from a list of partners with the identity,
LEMMA ShareTaken ==
  ASSUME NEW garbage, NEW id, TimeOfStart(id) \in Int31, NEW m,
         m = SetIntegrity(New("share", 0, ShareValues(id), garbage))
  PROVE  /\ GetOpcode(m) = 1 /\ Taken(m, "share").type = PEERLIST_SHARE
         /\ Taken(m, "share").bootID = TimeOfStart(id)
<1> DEFINE data == ShareValues(id)
<1>1. /\ data[MessagePeerlistShare[1].name] = 1 /\ MessagePeerlistShare[1].bits = 8
      /\ data[MessagePeerlistShare[14].name] = TimeOfStart(id)
      /\ MessagePeerlistShare[14].bits = 32 /\ 1 \in 0..255
  BY SharePlaces DEF ShareValues, PEERLIST_SHARE
<1> HIDE DEF data
<1>2. /\ GetOpcode(m) = Opcode["share"]
      /\ SplitHeaderValues(m, MESSAGE_HEADER_SIZE, Layout["share"])[1] = 1
  BY <1>1, ReadableFields, FieldTaken DEF data, Fits
<1>3. SplitHeaderValues(m, MESSAGE_HEADER_SIZE, Layout["share"])[14] = TimeOfStart(id)
  BY <1>1, ReadableFields, FieldTaken DEF data, Fits
<1>4. /\ Taken(m, "share").type
           = SplitHeaderValues(m, MESSAGE_HEADER_SIZE, Layout["share"])[1]
      /\ Taken(m, "share").bootID
           = SplitHeaderValues(m, MESSAGE_HEADER_SIZE, Layout["share"])[14]
  BY DEF Taken, Reader, ReadPeerlistShare
<1> QED BY <1>2, <1>3, <1>4 DEF Opcode, PEERLIST_SHARE

\* ... from a poll,
LEMMA PollTaken ==
  ASSUME NEW p, punch[p] \in BOOLEAN, NEW garbage
  PROVE  LET m == PollMessage(p, garbage)
             poll == Taken(m, "channel")
         IN  /\ GetOpcode(m) = Opcode.channel /\ poll.flag = CHANNEL_CONNECT
             /\ poll.punch = (IF punch[p] THEN 1 ELSE 0)
             /\ poll.candidate = (IF p \in Candidates THEN 1 ELSE 0)
<1> DEFINE data == [flag |-> CHANNEL_CONNECT, punch |-> IF punch[p] THEN 1 ELSE 0,
                    version |-> VERSION, port |-> 4951, channelId |-> 1, nowTime |-> 1600000000,
                    candidate |-> IF p \in Candidates THEN 1 ELSE 0, channelMode |-> 0,
                    maxOut |-> 20, maxOutFree |-> 300]
           m == PollMessage(p, garbage)
           values == SplitHeaderValues(m, MESSAGE_HEADER_SIZE, Layout["channel"])
<1>0. m = SetIntegrity(New("channel", 0, data, garbage))
  BY SMT DEF PollMessage
<1>1. /\ data[MessageChannel[1].name] = CHANNEL_CONNECT
      /\ data[MessageChannel[2].name] = IF punch[p] THEN 1 ELSE 0
      /\ data[MessageChannel[7].name] = IF p \in Candidates THEN 1 ELSE 0
  BY SMT DEF MessageChannel, F8, F16, F32
<1>2. /\ MessageChannel[1].bits = 8 /\ MessageChannel[2].bits = 8 /\ MessageChannel[7].bits = 8
      /\ CHANNEL_CONNECT \in 0..255 /\ (IF punch[p] THEN 1 ELSE 0) \in 0..255
      /\ (IF p \in Candidates THEN 1 ELSE 0) \in 0..255
  BY ChannelPlaces DEF CHANNEL_CONNECT
<1> HIDE DEF data, m
<1>3. GetOpcode(m) = Opcode["channel"] /\ values[1] = CHANNEL_CONNECT
  BY <1>0, <1>1, <1>2, ReadableFields, FieldTaken DEF Fits
<1>4. values[2] = IF punch[p] THEN 1 ELSE 0
  BY <1>0, <1>1, <1>2, ReadableFields, FieldTaken DEF Fits
<1>5. values[7] = IF p \in Candidates THEN 1 ELSE 0
  BY <1>0, <1>1, <1>2, ReadableFields, FieldTaken DEF Fits
<1> HIDE DEF values
<1>6. /\ Taken(m, "channel").flag = values[1] /\ Taken(m, "channel").punch = values[2]
      /\ Taken(m, "channel").candidate = values[7]
  BY DEF Taken, Reader, ReadChannel, values
<1> QED BY <1>3, <1>4, <1>5, <1>6 DEF m

\* ... and from a list of servers, of which only the opcode matters.
LEMMA ListTaken ==
  ASSUME NEW garbage, NEW id
  PROVE  GetOpcode(SetIntegrity(New("shareList", 0, ShareValues(id), garbage))) = 7
<1>1. "shareList" \in Classes /\ Layout["shareList"] = MessagePeerlistShare
  BY DEF Classes, Opcode, Layout
<1>2. HeaderSize["shareList"] = 42
  BY DEF HeaderSize
<1>3. Readable("shareList", MessagePeerlistShare, 1)
  BY <1>1, <1>2, SharePlaces, Z3 DEF Readable, Sound, Alone, MESSAGE_HEADER_SIZE
<1>4. GetOpcode(SetIntegrity(New("shareList", 0, ShareValues(id), garbage))) = Opcode["shareList"]
  BY <1>3, MessageBytes
<1> QED BY <1>4 DEF Opcode

\* The viewer takes an answer for what the bootstrap meant.
LEMMA AnswerUnderstood ==
  ASSUME NEW r \in Reply, r.type # "none", r.type = "share" => r.id <= MaxBoots, NEW garbage
  PROVE  Understood(AnswerMessage(r, garbage)) = Meant(r)
<1> DEFINE m == AnswerMessage(r, garbage)
<1>1. r.type \in {"unavailable", "serverAux", "serverAuxList", "share"}
  BY DEF Reply
<1>2. CASE r.type = "unavailable"
  <2>1. m = SetIntegrity(New("error", 0, [error |-> ERROR_CHANNEL_UNAVAILABLE], garbage))
    BY <1>2, Zenon DEF AnswerMessage
  <2> HIDE DEF m
  <2>2. GetOpcode(m) = 5 /\ Taken(m, "error").error = ERROR_CHANNEL_UNAVAILABLE
    BY <2>1, ErrorTaken
  <2>3. Understood(m) = <<"unavailable">>
    <3>1. GetOpcode(m) # 6 /\ GetOpcode(m) # 7 /\ GetOpcode(m) # 1
      BY <2>2
    <3> QED BY <2>2, <3>1, Zenon DEF Understood
  <2>4. Meant(r) = <<"unavailable">>
    BY <1>2, Zenon DEF Meant
  <2> QED BY <2>3, <2>4 DEF m
<1>3. CASE r.type = "serverAux"
  <2>1. r.state \in DOMAIN AuxCode
    BY SessionWireAssumption, SMT DEF SessionWireAssumption, Reply
  <2>2. AuxCode[r.state] \in 0..2 /\ AuxName(AuxCode[r.state]) = r.state
    <3>1. /\ AuxCode[r.state] \in 0..2
          /\ \A s \in DOMAIN AuxCode : AuxCode[s] = AuxCode[r.state] => s = r.state
      BY <2>1, SMT DEF AuxCode
    <3> QED BY <2>1, <3>1, Zenon DEF AuxName
  <2>3. m = SetIntegrity(New("serverSub", 0, [state |-> AuxCode[r.state], mixType |-> 2,
                                              qtPeers |-> 4, time |-> 200], garbage))
    BY <1>3, Zenon DEF AnswerMessage
  <2> HIDE DEF m
  <2>4. GetOpcode(m) = 6 /\ Taken(m, "serverSub").state = AuxCode[r.state]
    BY <2>2, <2>3, ServerSubTaken
  <2>5. Understood(m) = <<"serverAux", AuxName(AuxCode[r.state])>>
    <3>1. GetOpcode(m) # 5 /\ GetOpcode(m) # 7 /\ GetOpcode(m) # 1
      BY <2>4
    <3> QED BY <2>4, <3>1, Zenon DEF Understood
  <2>6. Meant(r) = <<"serverAux", r.state>>
    BY <1>3, Zenon DEF Meant
  <2> QED BY <2>2, <2>5, <2>6 DEF m
<1>4. CASE r.type = "serverAuxList"
  <2>1. m = SetIntegrity(New("shareList", 0, ShareValues(r.id), garbage))
    BY <1>4, Zenon DEF AnswerMessage
  <2> HIDE DEF m
  <2>2. GetOpcode(m) = 7
    BY <2>1, ListTaken
  <2>3. Understood(m) = <<"serverAuxList">>
    <3>1. GetOpcode(m) # 5 /\ GetOpcode(m) # 6 /\ GetOpcode(m) # 1
      BY <2>2
    <3> QED BY <2>2, <3>1, Zenon DEF Understood
  <2>4. Meant(r) = <<"serverAuxList">>
    BY <1>4, Zenon DEF Meant
  <2> QED BY <2>3, <2>4 DEF m
<1>5. CASE r.type = "share"
  <2>1. m = SetIntegrity(New("share", 0, ShareValues(r.id), garbage))
    BY <1>5, Zenon DEF AnswerMessage
  <2> HIDE DEF m
  <2>2. TimeOfStart(r.id) \in Int31
    BY <1>5, SessionWireAssumption, SMT DEF SessionWireAssumption, TimeOfStart, Int31, Reply
  <2>3. /\ GetOpcode(m) = 1 /\ Taken(m, "share").type = PEERLIST_SHARE
        /\ Taken(m, "share").bootID = TimeOfStart(r.id)
    BY <2>1, <2>2, ShareTaken
  <2>4. Understood(m) = <<"share", TimeOfStart(r.id)>>
    <3>1. GetOpcode(m) # 5 /\ GetOpcode(m) # 6 /\ GetOpcode(m) # 7
      BY <2>3
    <3> QED BY <2>3, <3>1, Zenon DEF Understood
  <2>5. Meant(r) = <<"share", TimeOfStart(r.id)>>
    BY <1>5, Zenon DEF Meant
  <2> QED BY <2>4, <2>5 DEF m
<1> QED BY <1>1, <1>2, <1>3, <1>4, <1>5 DEF m
-----------------------------------------------------------------------------
(***************************************************************************)
(* Packets are written once and stay what they are.                         *)
(***************************************************************************)

\* What is on a connection was written for what it carries.
PacketOf(p) ==
    /\ conn[p] = "reply" => \E garbage \in Garbage : packet[p] = AnswerMessage(reply[p], garbage)
    /\ conn[p] = "request" => \E garbage \in Garbage : packet[p] = PollMessage(p, garbage)
Packets == \A p \in Viewers : PacketOf(p)

WireIInv == IInv /\ bootStrap_ID <= MaxBoots /\ Packets

\* An answer does not change on its way, nor whether a viewer punches while its
\* request is.
LEMMA OnItsWay ==
  ASSUME TypeOK, [Next]_vars, NEW p \in Viewers
  PROVE  /\ conn'[p] = "reply" /\ conn[p] = "reply" => reply'[p] = reply[p]
         /\ conn'[p] = "request" => punch'[p] = punch[p]
<1> DEFINE G == /\ conn'[p] = "reply" /\ conn[p] = "reply" => reply'[p] = reply[p]
                /\ conn'[p] = "request" => punch'[p] = punch[p]
<1>1. /\ conn \in [Viewers -> {"none", "request", "reply", "broken", "silent"}]
      /\ reply \in [Viewers -> Reply] /\ punch \in [Viewers -> BOOLEAN]
      /\ \A q \in Viewers : conn[q] # "none" => place[q] = "asking"
  BY DEF TypeOK
<1>2. ASSUME UNCHANGED <<conn, reply, punch>> PROVE G
  BY <1>2
<1>3. ASSUME NEW q \in Viewers, Start(q) PROVE G
  BY <1>1, <1>3 DEF Start
<1>4. ASSUME NEW q \in Viewers, Viewer(q) PROVE G
  <2>1. CASE Ask(q)
    BY <1>1, <2>1 DEF Ask
  <2>2. CASE NotConnected(q) \/ OpenThrows(q)
    BY <1>2, <2>2 DEF NotConnected, OpenThrows
  <2>3. CASE NoticeBreak(q)
    BY <1>1, <2>3 DEF NoticeBreak
  <2>4. CASE HandlePeerlistMessage(q)
    BY <1>1, <2>4 DEF HandlePeerlistMessage, Receive, NoReply
  <2>5. CASE HandleMessageServerSub(q) \/ HandleServerAuxListMessage(q) \/ HandleErrorMessage(q)
    BY <1>1, <2>5 DEF HandleMessageServerSub, HandleServerAuxListMessage, HandleErrorMessage,
                      Receive, NoReply
  <2> QED BY <1>4, <2>1, <2>2, <2>3, <2>4, <2>5 DEF Viewer
<1>5. ASSUME NEW q \in Viewers, Kill(q) PROVE G
  BY <1>1, <1>5 DEF Kill, NoReply
<1>6. ASSUME NEW q \in Viewers, Handle(q) PROVE G
  BY <1>1, <1>6 DEF Handle, viewerVars
<1>7. ASSUME NEW q \in Viewers, HandleOrphan(q) \/ Channel(q) PROVE G
  BY <1>2, <1>7 DEF HandleOrphan, Channel, SetState, SetPeerWaitListServer, NotKept, viewerVars
<1>8. ASSUME NEW q \in Viewers, Break(q) PROVE G
  BY <1>1, <1>8 DEF Break, viewerVars, NoReply
<1>9. ASSUME NEW S, NEW channel, CheckPeerList(S, channel) PROVE G
  BY <1>2, <1>9 DEF CheckPeerList, viewerVars
<1>10. ASSUME CreateChannel \/ BootstrapStarts PROVE G
  BY <1>2, <1>10 DEF CreateChannel, BootstrapStarts, viewerVars
<1>11. ASSUME BootstrapDies PROVE G
  BY <1>1, <1>11 DEF BootstrapDies, viewerVars, Carries
<1>12. ASSUME UNCHANGED vars PROVE G
  BY <1>2, <1>12 DEF vars, viewerVars
<1> HIDE DEF G
<1>13. G
  BY <1>3, <1>4, <1>5, <1>6, <1>7, <1>8, <1>9, <1>10, <1>11, <1>12 DEF Next
<1> QED BY <1>13 DEF G

\* The numbers of the starts stay within their bound.
LEMMA BootsStep ==
  TypeOK /\ bootStrap_ID <= MaxBoots /\ [Next]_vars => bootStrap_ID' <= MaxBoots
<1> SUFFICES ASSUME TypeOK, bootStrap_ID <= MaxBoots, [Next]_vars
             PROVE  bootStrap_ID' <= MaxBoots
  OBVIOUS
<1>1. bootStrap_ID' = bootStrap_ID \/ BootstrapStarts
  BY DEF Next, vars, bootVars, Start, Viewer, Ask, NotConnected, OpenThrows, NoticeBreak,
         HandlePeerlistMessage, HandleMessageServerSub, HandleServerAuxListMessage,
         HandleErrorMessage, Receive, Kill, Handle, HandleOrphan, HandleChannelMessage,
         Channel, SetState, SetPeerWaitListServer, NotKept, Break, CheckPeerList,
         CreateChannel, BootstrapDies
<1>2. CASE BootstrapStarts
  BY <1>2 DEF BootstrapStarts, TypeOK
<1> QED BY <1>1, <1>2

\* Every message is written when its connection begins to carry it.
LEMMA PacketStep == WireIInv /\ [WireNext]_wireVars => Packets'
<1> SUFFICES ASSUME WireIInv, [WireNext]_wireVars, NEW p \in Viewers PROVE PacketOf(p)'
  BY DEF Packets
<1>1. /\ PacketOf(p) /\ TypeOK
  BY DEF WireIInv, IInv, Packets
<1>2. CASE UNCHANGED wireVars
  <2>1. packet' = packet /\ conn' = conn /\ reply' = reply /\ punch' = punch
    BY <1>2 DEF wireVars, vars, viewerVars
  <2> QED BY <1>1, <2>1, SMT DEF PacketOf, PollMessage
<1>3. CASE WireNext
  <2>1. PICK garbage \in Garbage : packet'[p] = Written(p, garbage)
    BY <1>3 DEF WireNext
  <2>2. /\ conn'[p] = "reply" /\ conn[p] = "reply" => reply'[p] = reply[p]
        /\ conn'[p] = "request" => punch'[p] = punch[p]
    BY <1>1, <1>3, OnItsWay DEF WireNext
  <2>3. CASE conn'[p] = "reply"
    <3>1. CASE conn[p] = "reply"
      <4>1. packet'[p] = packet[p]
        BY <2>1, <2>3, <3>1, Zenon DEF Written
      <4> QED BY <1>1, <2>2, <2>3, <3>1, <4>1 DEF PacketOf
    <3>2. CASE conn[p] # "reply"
      <4>1. packet'[p] = AnswerMessage(reply'[p], garbage)
        BY <2>1, <2>3, <3>2, Zenon DEF Written
      <4> QED BY <2>3, <4>1 DEF PacketOf
    <3> QED BY <3>1, <3>2
  <2>4. CASE conn'[p] = "request"
    <3>1. \A g : PollMessage(p, g)' = PollMessage(p, g)
      BY <2>2, <2>4, SMT DEF PollMessage
    <3>2. CASE conn[p] = "request"
      <4>1. packet'[p] = packet[p]
        BY <2>1, <2>4, <3>2, Zenon DEF Written
      <4> QED BY <1>1, <2>4, <3>1, <3>2, <4>1 DEF PacketOf
    <3>3. CASE conn[p] # "request"
      <4>1. packet'[p] = PollMessage(p, garbage)
        BY <2>1, <2>4, <3>3, Zenon DEF Written
      <4> QED BY <2>4, <3>1, <4>1 DEF PacketOf
    <3> QED BY <3>2, <3>3
  <2>5. CASE conn'[p] # "reply" /\ conn'[p] # "request"
    BY <2>5 DEF PacketOf
  <2> QED BY <2>3, <2>4, <2>5
<1> QED BY <1>2, <1>3

\* The invariant of the polls with their bytes.
LEMMA WireInvariance == WireSpec => []WireIInv
<1>1. WireInit => WireIInv
  <2> SUFFICES ASSUME WireInit PROVE WireIInv
    OBVIOUS
  <2>1. IInv
    BY InitInv DEF WireInit
  <2>2. bootStrap_ID <= MaxBoots /\ \A p \in Viewers : conn[p] = "none"
    BY DEF WireInit, Init
  <2> QED BY <2>1, <2>2 DEF WireIInv, Packets, PacketOf
<1>2. WireIInv /\ [WireNext]_wireVars => WireIInv'
  <2> SUFFICES ASSUME WireIInv, [WireNext]_wireVars PROVE WireIInv'
    OBVIOUS
  <2>1. [Next]_vars
    BY DEF WireNext, wireVars
  <2>2. TypeOK' /\ TablesEmpty' /\ OneBootstrap'
    BY <2>1, TypeStep, TablesStep, OneBootstrapStep DEF WireIInv, IInv
  <2>3. bootStrap_ID' <= MaxBoots
    BY <2>1, BootsStep DEF WireIInv, IInv
  <2> QED BY <2>2, <2>3, PacketStep DEF WireIInv, IInv
<1> QED BY <1>1, <1>2, PTL DEF WireSpec

\* Whatever memory messages are written in, each side takes from the bytes what
\* the other meant: the layouts of both, with widths, order and alignment, agree.
THEOREM BytesCarry == WireSpec => []WireCarries
<1>1. WireIInv => WireCarries
  <2> SUFFICES ASSUME WireIInv, NEW p \in Viewers
               PROVE  /\ conn[p] = "reply" => Understood(packet[p]) = Meant(reply[p])
                      /\ conn[p] = "request" =>
                           /\ GetOpcode(packet[p]) = Opcode.channel
                           /\ Taken(packet[p], "channel").flag = CHANNEL_CONNECT
                           /\ Taken(packet[p], "channel").punch = 1 <=> punch[p]
                           /\ Taken(packet[p], "channel").candidate = 1 <=> p \in Candidates
    BY Zenon DEF WireCarries
  <2>1. PacketOf(p) /\ TypeOK /\ OneBootstrapOf(p) /\ bootStrap_ID <= MaxBoots
    BY DEF WireIInv, IInv, Packets, OneBootstrap
  <2>2. ASSUME conn[p] = "reply" PROVE Understood(packet[p]) = Meant(reply[p])
    <3>1. PICK garbage \in Garbage : packet[p] = AnswerMessage(reply[p], garbage)
      BY <2>1, <2>2 DEF PacketOf
    <3>2. /\ reply[p] \in Reply /\ reply[p].type # "none"
          /\ reply[p].type = "share" => reply[p].id <= MaxBoots
      BY <2>1, <2>2 DEF TypeOK, OneBootstrapOf
    <3> QED BY <3>1, <3>2, AnswerUnderstood
  <2>3. ASSUME conn[p] = "request"
        PROVE  /\ GetOpcode(packet[p]) = Opcode.channel
               /\ Taken(packet[p], "channel").flag = CHANNEL_CONNECT
               /\ Taken(packet[p], "channel").punch = 1 <=> punch[p]
               /\ Taken(packet[p], "channel").candidate = 1 <=> p \in Candidates
    <3>1. PICK garbage \in Garbage : packet[p] = PollMessage(p, garbage)
      BY <2>1, <2>3 DEF PacketOf
    <3>2. punch[p] \in BOOLEAN
      BY <2>1 DEF TypeOK
    <3>3. /\ GetOpcode(packet[p]) = Opcode.channel
          /\ Taken(packet[p], "channel").flag = CHANNEL_CONNECT
          /\ Taken(packet[p], "channel").punch = (IF punch[p] THEN 1 ELSE 0)
          /\ Taken(packet[p], "channel").candidate = (IF p \in Candidates THEN 1 ELSE 0)
      BY <3>1, <3>2, PollTaken
    <3> QED BY <3>2, <3>3
  <2> QED BY <2>2, <2>3
<1> QED BY <1>1, WireInvariance, PTL

\* The polls with their bytes are the polls: all that is proved of Spec holds of
\* WireSpec too, whatever its fairness.
THEOREM WireKeeps ==
  WireSpec => []TypeOK /\ []ObeysItsBootstrap /\ []Agreement /\ KeepsPromise
<1>1. WireInit => Init
  BY DEF WireInit
<1>2. [WireNext]_wireVars => [Next]_vars
  BY DEF WireNext, wireVars
<1>3. WireSpec => Spec
  BY <1>1, <1>2, PTL DEF WireSpec, Spec
<1> QED BY <1>3, TypeCorrect, OnlyItsBootstrap, Agrees, Refinement, PTL
=============================================================================
