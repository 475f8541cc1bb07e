------------------------------ MODULE Sessions ------------------------------
(***************************************************************************)
(* The polls: a viewer connects to the bootstrap over TCP when it starts     *)
(* and every 20 seconds from then on (PeerRequester, on the timer thread),   *)
(* sends one message, waits for one answer and closes.  Here are the socket   *)
(* of the viewer (client-bootstrap-session), the session of the bootstrap,    *)
(* what either does when the connection or the other process fails, and what  *)
(* the answers change.  What the bootstrap decides about its channel is left  *)
(* open; Bootstrap.tla has it.                                               *)
(***************************************************************************)
EXTENDS Naturals

CONSTANTS
    Viewers,        \* the addresses of clients that watch
    Candidates,     \* those run with --serverCandidate
    AuxStates, NoAux,
    MaxBoots        \* bound on the starts of the bootstrap

ASSUME SessionsAssumption ==
    /\ Candidates \subseteq Viewers
    /\ NoAux \in AuxStates /\ "unreachable" \notin AuxStates
    /\ MaxBoots \in Nat \ {0}

VARIABLES
    up,             \* the bootstrap runs
    bootStrap_ID,   \* the time it was started at
    exists,         \* it has the channel
    hasPeer,        \* the channel has the viewer
    newMode,        \* SubChannelCandidateData::state of the viewer
    waitInform,     \* ... and peerWaitInform
    waitServerList, \* PeerData::waitServerList
    place,          \* where the viewer's program is
    first,          \* no poll has succeeded since it started
    socket,         \* of cbSession
    conn,           \* what the connection carries, or how it failed
    reply,          \* the answer it carries
    orphan,         \* a request of an earlier run of the program is on its way
    punch,          \* perform_udp_punch
    authentic,      \* bootStrapID_Autentic, NoID while configurarBootID
    state,          \* PeerManagerState
    excused         \* the two sides were put apart by a restart or a removal

tableVars  == <<hasPeer, newMode, waitInform, waitServerList>>
bootVars   == <<up, bootStrap_ID, exists, tableVars>>
viewerVars == <<place, first, socket, punch, authentic, state>>
vars == <<bootVars, viewerVars, conn, reply, orphan, excused>>

NoID == 0
NoReply     == [type |-> "none", state |-> NoAux, id |-> NoID]
Unavailable == [type |-> "unavailable", state |-> NoAux, id |-> NoID]
ServerAux(s)     == [type |-> "serverAux", state |-> s, id |-> bootStrap_ID]
ServerAuxList    == [type |-> "serverAuxList", state |-> NoAux, id |-> bootStrap_ID]
PeerlistShare    == [type |-> "share", state |-> NoAux, id |-> bootStrap_ID]
Reply == [type : {"none", "unavailable", "serverAux", "serverAuxList", "share"},
          state : AuxStates, id : Nat]

TypeOK ==
    /\ up \in BOOLEAN /\ exists \in BOOLEAN /\ bootStrap_ID \in Nat \ {NoID}
    /\ hasPeer \in [Viewers -> BOOLEAN] /\ newMode \in [Viewers -> AuxStates]
    /\ waitInform \in [Viewers -> BOOLEAN] /\ waitServerList \in [Viewers -> BOOLEAN]
    /\ place \in [Viewers -> {"off", "ready", "asking"}]
    /\ first \in [Viewers -> BOOLEAN]
    /\ socket \in [Viewers -> {"closed", "open", "stuck"}]
    /\ conn \in [Viewers -> {"none", "request", "reply", "broken", "silent"}]
    /\ reply \in [Viewers -> Reply]
    /\ orphan \in [Viewers -> BOOLEAN] /\ punch \in [Viewers -> BOOLEAN]
    /\ authentic \in [Viewers -> Nat] /\ state \in [Viewers -> AuxStates]
    /\ excused \in [Viewers -> BOOLEAN]
    /\ \A p \in Viewers :
         /\ conn[p] # "none" => place[p] = "asking"
         /\ place[p] = "asking" => socket[p] = "open"
         /\ conn[p] = "reply" <=> reply[p].type # "none"

Init ==
    /\ up = TRUE /\ bootStrap_ID = 1 /\ exists = FALSE
    /\ hasPeer = [p \in Viewers |-> FALSE] /\ newMode = [p \in Viewers |-> NoAux]
    /\ waitInform = [p \in Viewers |-> FALSE]
    /\ waitServerList = [p \in Viewers |-> FALSE]
    /\ place = [p \in Viewers |-> "off"] /\ first = [p \in Viewers |-> TRUE]
    /\ socket = [p \in Viewers |-> "closed"] /\ conn = [p \in Viewers |-> "none"]
    /\ reply = [p \in Viewers |-> NoReply] /\ orphan = [p \in Viewers |-> FALSE]
    /\ punch = [p \in Viewers |-> TRUE] /\ authentic = [p \in Viewers |-> NoID]
    /\ state = [p \in Viewers |-> NoAux] /\ excused = [p \in Viewers |-> FALSE]

\* The viewer runs, and its next or present poll may still succeed.
Reachable(p) ==
    /\ place[p] # "off" /\ socket[p] # "stuck"
    /\ conn[p] \notin {"broken", "silent"}

\* The state the viewer has, or will have from the answer on its way.
Heard(p) ==
    IF ~Reachable(p) THEN "unreachable"
    ELSE IF conn[p] = "reply" /\ reply[p].type = "serverAux" THEN reply[p].state
    ELSE state[p]
-----------------------------------------------------------------------------
(* The viewer: Client::ConnectToBootstrap *)

Start(p) ==
    /\ place[p] = "off"
    /\ place' = [place EXCEPT ![p] = "ready"]
    /\ first' = [first EXCEPT ![p] = TRUE]
    /\ socket' = [socket EXCEPT ![p] = "closed"]
    /\ punch' = [punch EXCEPT ![p] = TRUE]
    /\ authentic' = [authentic EXCEPT ![p] = NoID]
    /\ state' = [state EXCEPT ![p] = NoAux]
    /\ excused' = [excused EXCEPT ![p] = newMode[p] # NoAux]
    /\ UNCHANGED <<bootVars, conn, reply, orphan>>

\* The first poll punches: Bind opens the socket at the port of the UDP socket.
\* Opening an open socket throws; a socket that was left connected does not
\* connect again.
OpenFails(p) == punch[p] /\ socket[p] # "closed"
ConnectFails(p) == ~punch[p] /\ socket[p] = "stuck"

Ask(p) ==
    /\ place[p] = "ready" /\ up /\ ~OpenFails(p) /\ ~ConnectFails(p)
    /\ place' = [place EXCEPT ![p] = "asking"]
    /\ socket' = [socket EXCEPT ![p] = "open"]
    /\ conn' = [conn EXCEPT ![p] = "request"]
    /\ UNCHANGED <<bootVars, first, punch, authentic, state, reply, orphan, excused>>

\* A poll that fails ends the program in ClientInit; from the timer it is
\* ignored.  No failure calls Stop.
Fail(p, s) ==
    /\ place' = [place EXCEPT ![p] = IF first[p] THEN "off" ELSE "ready"]
    /\ socket' = [socket EXCEPT ![p] = s]

Quit(p) == place' = [place EXCEPT ![p] = "off"] /\ UNCHANGED socket

\* The port is taken, or the bootstrap refuses or does not answer.
NotConnected(p) ==
    /\ place[p] = "ready" /\ ~OpenFails(p) /\ ~ConnectFails(p)
    /\ Fail(p, "open")
    /\ UNCHANGED <<bootVars, first, punch, authentic, state, conn, reply, orphan, excused>>

OpenThrows(p) ==
    /\ place[p] = "ready" /\ OpenFails(p) /\ Quit(p)
    /\ UNCHANGED <<bootVars, first, punch, authentic, state, conn, reply, orphan, excused>>

\* DEFECT (TypeOK): the result of the write is ignored, and the poll waits for an
\* answer on a socket that has failed.
WaitsOn(p) ==
    /\ place[p] = "asking" /\ conn[p] = "broken"
    /\ socket' = [socket EXCEPT ![p] = "stuck"]
    /\ conn' = [conn EXCEPT ![p] = "none"]
    /\ UNCHANGED <<bootVars, place, first, punch, authentic, state, reply, orphan, excused>>

\* DEFECT (KeepsPromise): the socket is closed after a failure, so that the next
\* poll may connect, with the news of the lost answer gone.
ClosesAfterBreak(p) ==
    /\ place[p] = "asking" /\ conn[p] = "broken"
    /\ Fail(p, "closed")
    /\ conn' = [conn EXCEPT ![p] = "none"]
    /\ UNCHANGED <<bootVars, first, punch, authentic, state, reply, orphan, excused>>

\* The write or the read fails: the socket stays as it is, connected.  After a
\* failed write Get_address throws if the connection was reset.
NoticeBreak(p) ==
    /\ place[p] = "asking" /\ conn[p] = "broken"
    /\ Fail(p, "stuck") \/ Quit(p)
    /\ conn' = [conn EXCEPT ![p] = "none"]
    /\ UNCHANGED <<bootVars, first, punch, authentic, state, reply, orphan, excused>>

\* DEFECT (ObeysItsBootstrap): the identity is not compared.
AnyBootstrap(p, id) == FALSE

\* "Bootstrap is not my. Shutting down ..."
NotMine(p, id) == authentic[p] # NoID /\ authentic[p] # id

\* HandleTCPMessage, after which the session is stopped.
Receive(p) ==
    /\ place[p] = "asking" /\ conn[p] = "reply"
    /\ conn' = [conn EXCEPT ![p] = "none"]
    /\ reply' = [reply EXCEPT ![p] = NoReply]
    /\ UNCHANGED <<bootVars, orphan, excused>>

Stop(p) ==
    /\ place' = [place EXCEPT ![p] = "ready"]
    /\ socket' = [socket EXCEPT ![p] = "closed"]
    /\ first' = [first EXCEPT ![p] = FALSE]

HandlePeerlistMessage(p) ==
    /\ Receive(p) /\ reply[p].type = "share"
    /\ IF NotMine(p, reply[p].id)
       THEN Quit(p) /\ UNCHANGED <<first, punch, authentic>>
       ELSE /\ Stop(p)
            /\ authentic' = [authentic EXCEPT ![p] = IF @ = NoID THEN reply[p].id ELSE @]
            /\ punch' = [punch EXCEPT ![p] = FALSE]
    /\ UNCHANGED state

\* No identity comes with these two, or it is not looked at.
HandleMessageServerSub(p) ==
    /\ Receive(p) /\ reply[p].type = "serverAux" /\ Stop(p)
    /\ state' = [state EXCEPT ![p] = reply[p].state]
    /\ UNCHANGED <<punch, authentic>>

HandleServerAuxListMessage(p) ==
    /\ Receive(p) /\ reply[p].type = "serverAuxList" /\ Stop(p)
    /\ UNCHANGED <<punch, authentic, state>>

\* ERROR_CHANNEL_UNAVAILABLE ends the program.
HandleErrorMessage(p) ==
    /\ Receive(p) /\ reply[p].type = "unavailable" /\ Quit(p)
    /\ UNCHANGED <<first, punch, authentic, state>>

\* The program is killed; the request it has sent may reach the bootstrap later.
Kill(p) ==
    /\ place[p] # "off"
    /\ place' = [place EXCEPT ![p] = "off"]
    /\ conn' = [conn EXCEPT ![p] = "none"]
    /\ reply' = [reply EXCEPT ![p] = NoReply]
    /\ \E late \in BOOLEAN :
         orphan' = [orphan EXCEPT ![p] = @ \/ (late /\ conn[p] = "request")]
    /\ UNCHANGED <<bootVars, first, socket, punch, authentic, state, excused>>
-----------------------------------------------------------------------------
(* The bootstrap: HandleChannelMessage, under channelListMutex *)

\* DEFECT (NewsArrives): what was handed out still waits.
KeptWaiting(p) == waitInform

Informed(p) == [waitInform EXCEPT ![p] = FALSE]

\* DEFECT (Agreement): the list of servers goes before the news.
ListFirst(p) ==
    IF ~exists THEN Unavailable
    ELSE IF waitServerList[p] THEN ServerAuxList
    ELSE IF waitInform[p] THEN ServerAux(newMode[p])
    ELSE PeerlistShare

\* The answer to the viewer, and what giving it changes.
Answer(p) ==
    IF ~exists THEN Unavailable
    ELSE IF waitInform[p] THEN ServerAux(newMode[p])
    ELSE IF waitServerList[p] THEN ServerAuxList
    ELSE PeerlistShare

\* waitInform is cleared before the answer is written.
HandleChannelMessage(p) ==
    /\ hasPeer' = [hasPeer EXCEPT ![p] = @ \/ exists]
    /\ waitInform' = Informed(p)
    /\ waitServerList' = [waitServerList EXCEPT ![p] = @ /\ waitInform[p]]
    /\ UNCHANGED <<up, bootStrap_ID, exists, newMode>>

Handle(p) ==
    /\ up /\ conn[p] = "request"
    /\ HandleChannelMessage(p)
    /\ conn' = [conn EXCEPT ![p] = "reply"]
    /\ reply' = [reply EXCEPT ![p] = Answer(p)]
    /\ excused' = [excused EXCEPT ![p] = @ /\ ~waitInform[p]]
    /\ UNCHANGED <<viewerVars, orphan>>

\* The answer to a request whose sender is gone goes nowhere.
HandleOrphan(p) ==
    /\ up /\ orphan[p]
    /\ HandleChannelMessage(p)
    /\ orphan' = [orphan EXCEPT ![p] = FALSE]
    /\ excused' = [excused EXCEPT ![p] = @ \/ waitInform[p]]
    /\ UNCHANGED <<viewerVars, conn, reply>>
-----------------------------------------------------------------------------
(* What the channel decides, its sweep, and the process itself *)

\* The master channel changes state: candidates are given another one.
SetState(p, s) ==
    /\ hasPeer[p] /\ p \in Candidates
    /\ newMode' = [newMode EXCEPT ![p] = s]
    /\ waitInform' = [waitInform EXCEPT ![p] = TRUE]
    /\ UNCHANGED <<up, bootStrap_ID, exists, hasPeer, waitServerList, viewerVars,
                   conn, reply, orphan, excused>>

\* ... and the others wait for the list of them.
SetPeerWaitListServer(p) ==
    /\ hasPeer[p]
    /\ waitServerList' = [waitServerList EXCEPT ![p] = TRUE]
    /\ UNCHANGED <<up, bootStrap_ID, exists, hasPeer, newMode, waitInform, viewerVars,
                   conn, reply, orphan, excused>>

\* Entries of candidates go without a word to them.
EraseCandidates(S) ==
    /\ newMode' = [p \in Viewers |-> IF p \in S THEN NoAux ELSE newMode[p]]
    /\ waitInform' = [p \in Viewers |-> p \notin S /\ waitInform[p]]
    /\ excused' = [p \in Viewers |-> IF p \in S THEN Heard(p) # NoAux ELSE excused[p]]

\* A candidate is not among those FLASH_CROWD keeps: it waits for the list too.
NotKept(p) ==
    /\ hasPeer[p] /\ p \in Candidates /\ EraseCandidates({p})
    /\ waitServerList' = [waitServerList EXCEPT ![p] = TRUE]
    /\ UNCHANGED <<up, bootStrap_ID, exists, hasPeer, viewerVars, conn, reply, orphan>>

\* The sweep removes viewers whose pings have not come, or, when it is the
\* server that is silent, the channel.
CheckPeerList(S, channel) ==
    /\ exists /\ exists' = channel
    /\ IF channel THEN S # {} ELSE S = Viewers
    /\ EraseCandidates(S)
    /\ hasPeer' = [p \in Viewers |-> p \notin S /\ hasPeer[p]]
    /\ waitServerList' = [p \in Viewers |-> p \notin S /\ waitServerList[p]]
    /\ UNCHANGED <<up, bootStrap_ID, viewerVars, conn, reply, orphan>>

\* A server's CHANNEL_CREATE.
CreateChannel ==
    /\ up /\ ~exists /\ exists' = TRUE
    /\ UNCHANGED <<up, bootStrap_ID, tableVars, viewerVars, conn, reply, orphan, excused>>

\* A request may come in pieces: if the connection breaks in between the
\* session is left for ever, and if it is reset Get_address throws and the
\* process ends, as it does when it is killed.
Carries(p) == conn[p] \in {"request", "reply"}

BootstrapDies ==
    /\ up /\ up' = FALSE /\ exists' = FALSE
    /\ EraseCandidates(Viewers)
    /\ hasPeer' = [p \in Viewers |-> FALSE]
    /\ waitServerList' = [p \in Viewers |-> FALSE]
    /\ conn' = [p \in Viewers |-> IF Carries(p) THEN "broken" ELSE conn[p]]
    /\ reply' = [p \in Viewers |-> NoReply]
    /\ orphan' = [p \in Viewers |-> FALSE]
    /\ UNCHANGED <<bootStrap_ID, viewerVars>>

BootstrapStarts ==
    /\ ~up /\ up' = TRUE
    /\ bootStrap_ID < MaxBoots /\ bootStrap_ID' = bootStrap_ID + 1
    /\ UNCHANGED <<exists, tableVars, viewerVars, conn, reply, orphan, excused>>

\* The connection fails, with or without the viewer being told: Receive has no
\* time limit, and a viewer that is not told waits for ever.
Break(p) ==
    /\ Carries(p)
    /\ \E how \in {"broken", "silent"} : conn' = [conn EXCEPT ![p] = how]
    /\ reply' = [reply EXCEPT ![p] = NoReply]
    /\ UNCHANGED <<bootVars, viewerVars, orphan, excused>>
-----------------------------------------------------------------------------
Viewer(p) ==
    \/ Ask(p) \/ NotConnected(p) \/ OpenThrows(p) \/ NoticeBreak(p)
    \/ HandlePeerlistMessage(p) \/ HandleMessageServerSub(p)
    \/ HandleServerAuxListMessage(p) \/ HandleErrorMessage(p)

Channel(p) ==
    \/ \E s \in AuxStates : SetState(p, s)
    \/ SetPeerWaitListServer(p) \/ NotKept(p)

Next ==
    \/ \E p \in Viewers : \/ Start(p) \/ Viewer(p) \/ Kill(p)
                          \/ Handle(p) \/ HandleOrphan(p) \/ Channel(p) \/ Break(p)
    \/ \E S \in SUBSET Viewers, channel \in BOOLEAN : CheckPeerList(S, channel)
    \/ CreateChannel \/ BootstrapDies \/ BootstrapStarts

Spec == Init /\ [][Next]_vars

\* The timer polls again and again, and the threads of either side run.  Of the
\* network: polls do not all fail to connect.
Fairness ==
    \A p \in Viewers :
        /\ SF_vars(Ask(p)) /\ WF_vars(OpenThrows(p))
        /\ WF_vars(Handle(p))
        /\ WF_vars(HandlePeerlistMessage(p)) /\ WF_vars(HandleMessageServerSub(p))
        /\ WF_vars(HandleServerAuxListMessage(p)) /\ WF_vars(HandleErrorMessage(p))

FairSpec == Spec /\ Fairness
-----------------------------------------------------------------------------
(* Properties *)

\* What is promised of the states of the candidates, with the answer on its way
\* counted as taken.
Promise == INSTANCE Announcement WITH
    told <- newMode, pending <- waitInform, heard <- [p \in Viewers |-> Heard(p)]

\* The polls keep the promise: each state is taken at most once, never an older
\* one after a newer, and none is lost on a viewer that can still be reached.
KeepsPromise == Promise!Spec

\* A viewer that can be reached has the state that the bootstrap believes it
\* has, or the news waits for its next poll, though waitInform is cleared before
\* the answer is written (bootstrap.cpp:150): a lost answer also leaves its viewer
\* unable to poll.  Only a restart of either program, a request that outlives its
\* sender and a removal put them apart.
Agreement == Promise!Agreement

\* A viewer takes no state from another bootstrap than the one it knows, though
\* the message that carries it has no identity.
ObeysItsBootstrap ==
    \A p \in Viewers :
        (conn[p] = "reply" /\ reply[p].type = "serverAux" /\ authentic[p] # NoID)
            => reply[p].id = authentic[p]

\* News that wait for a viewer are handed to it, unless it ends or is cut off.
NewsArrives ==
    \A p \in Viewers :
        (waitInform[p] /\ Reachable(p)) ~> (~waitInform[p] \/ ~Reachable(p))
=============================================================================
