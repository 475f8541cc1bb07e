----------------------------- MODULE ServerAux -----------------------------
(***************************************************************************)
(* A client that serves a parallel network (client/PeerManagerServerAux):  *)
(* PeerManager plus the states the bootstrap puts it in and the merge that *)
(* hands its partners back to the main network.                            *)
(*                                                                         *)
(*   NO_SERVER_AUX --> SERVER_AUX_ACTIVE --> SERVER_AUX_MESCLAR            *)
(*         ^------------------+---------------------'                      *)
(*                                                                         *)
(* The bootstrap's message and the merge both run on the timer thread.     *)
(***************************************************************************)
EXTENDS PeerManager

CONSTANTS
  MergeModes,     \* merge modes the bootstrap may have been started with
  QT,             \* qt_PeerMergeType: partners dropped per merge step
  TimeDesc        \* timeDescPeerMerge: seconds between merge steps

MergeTypes == {"KILL", "AVOID", "PERMIT", "AVOID_KILLEND", "PERMIT_KILLEND",
               "NONE"}

ASSUME MergeAssumption ==
  /\ MergeModes \subseteq MergeTypes
  /\ QT \in 0..255 /\ TimeDesc \in 0..255

VARIABLES
  mergeMode,  \* the bootstrap's MixType, the same in all its messages
  mergeType,  \* MergeType
  killEnd,    \* mergeAux_KillEnd
  mergeTemp,  \* mergeCSA_Temp, an uint8_t
  exited,     \* ExecMesc called exit
  execDue     \* CheckPeerList ran, and ExecMesc is next

mergeVars == <<mergeMode, mergeType, killEnd, mergeTemp, exited>>
auxVars   == <<vars, mergeVars, execDue>>

AuxInit ==
  /\ Init
  /\ mergeMode \in MergeModes
  /\ mergeType = "NONE" /\ killEnd = FALSE /\ mergeTemp = 0 /\ exited = FALSE
  /\ execDue = FALSE
-----------------------------------------------------------------------------
(***************************************************************************)
(* The bootstrap's messages.                                               *)
(***************************************************************************)

\* DEFECT (AuxTypeOK): the mode is stored as it came.
SetMergeTypeAsIs ==
  mergeType' = mergeMode /\ UNCHANGED <<mergeMode, killEnd, mergeTemp, exited>>

\* Set_MergeType splits the KILLEND modes into a mode and a flag that is never
\* taken back.
SetMergeType ==
  /\ mergeType' = CASE mergeMode = "AVOID_KILLEND"  -> "AVOID"
                    [] mergeMode = "PERMIT_KILLEND" -> "PERMIT"
                    [] OTHER -> mergeMode
  /\ killEnd' = (killEnd \/ mergeMode \in {"AVOID_KILLEND", "PERMIT_KILLEND"})
  /\ UNCHANGED <<mergeMode, mergeTemp, exited>>

\* The map after SetChannelId_Sub(sub[p]) for the partners p of Out.
SubOfOut(sub) ==
  [p \in Peers |-> IF p \in active["Out"]
                   THEN [Entry(p) EXCEPT !.sub = sub[p]]
                   ELSE peerList[p]]

\* DEFECT (ServesOnlyParallel): the partners of the main network stay.
StartParallelFull ==
  IF auxState = "NO_SERVER_AUX"
  THEN /\ rejected' = rejected \cup Known
       /\ auxState' = "SERVER_AUX_ACTIVE"
       /\ UNCHANGED <<peerList, active>>
  ELSE UNCHANGED <<peerList, active, rejected, auxState>>

\* The parallel network starts with no Out partner, and everybody known from
\* the main network is rejected.
StartParallel ==
  IF auxState = "NO_SERVER_AUX"
  THEN /\ active' = [active EXCEPT !["Out"] = {}]
       /\ rejected' = rejected \cup Known
       /\ auxState' = "SERVER_AUX_ACTIVE"
       /\ UNCHANGED peerList
  ELSE UNCHANGED <<peerList, active, rejected, auxState>>

\* The merge starts: nobody is rejected any more, and the partners of the
\* parallel network are marked with a negative channelId_Sub.
StartMerge ==
  IF auxState = "SERVER_AUX_ACTIVE"
  THEN /\ rejected' = {}
       /\ peerList' = SubOfOut([p \in Peers |-> -Entry(p).sub])
       /\ auxState' = "SERVER_AUX_MESCLAR"
       /\ UNCHANGED active
  ELSE UNCHANGED <<peerList, active, rejected, auxState>>

BackToNormal ==
  /\ peerList' = SubOfOut([p \in Peers |-> 0])
  /\ rejected' = {}
  /\ auxState' = "NO_SERVER_AUX"
  /\ UNCHANGED active

\* HandleMessageServerSub: the merge configuration, then SetPeerManagerState
\* under peerListMutex and the mutex of Out.  States come in any order: the
\* bootstrap sends the current one when the client polls, so some are missed.
HandleMessageServerSub(state) ==
  /\ timers.pc = "idle" /\ ~execDue /\ PeerListFree
  /\ SetMergeType
  /\ CASE state = "SERVER_AUX_ACTIVE"  -> StartParallel
       [] state = "SERVER_AUX_MESCLAR" -> StartMerge
       [] OTHER                        -> BackToNormal
  /\ UNCHANGED <<cooldown, removeWorse, recv, timers, alive, crashed, execDue>>
-----------------------------------------------------------------------------
(***************************************************************************)
(* ExecMesc, called by CyclicTimers every second while merging, right      *)
(* after CheckPeerList.                                                    *)
(***************************************************************************)

\* What mergeCSA_Temp becomes: reloaded when 0, then decremented as a byte.
NextTemp == ((IF mergeTemp = 0 THEN TimeDesc ELSE mergeTemp) - 1) % 256

Merging == timers.pc = "idle" /\ execDue /\ execDue' = FALSE

\* DEFECT (OnlyParallelMerged): anybody may be picked.
MergeableAll == active["Out"]

\* Partners that Get_Random_Merge_Peers may choose from, and its choices.
Mergeable == {p \in active["Out"] : Entry(p).sub < 0}
Picks == IF Cardinality(Mergeable) < QT THEN {Mergeable}
         ELSE kSubset(QT, Mergeable)

\* It is not time yet, or the merge is over.
MergeTick ==
  /\ Merging /\ (NextTemp # 0 \/ mergeType = "NONE")
  /\ mergeTemp' = NextTemp
  /\ UNCHANGED <<vars, mergeMode, mergeType, killEnd, exited>>

\* AUTO_KILL_SERVER: the process exits.
MergeKill ==
  /\ Merging /\ NextTemp = 0 /\ mergeType = "KILL"
  /\ exited' = TRUE
  /\ UNCHANGED <<vars, mergeMode, mergeType, killEnd, mergeTemp>>

\* Get_Random_Merge_Peers, under peerListMutex and the mutex of Out; with
\* nobody left to pick the merge ends.
MergePick ==
  /\ Merging /\ NextTemp = 0 /\ mergeType \in {"AVOID", "PERMIT"}
  /\ PeerListFree
  /\ mergeTemp' = 0
  /\ peerList' = Touched(active["Out"])
  /\ \E G \in Picks :
       IF G = {}
       THEN /\ mergeType' = IF killEnd THEN "KILL" ELSE "NONE"
            /\ UNCHANGED timers
       ELSE /\ timers' = [TimersIdle EXCEPT !.pc = "picked", !.del = G]
            /\ UNCHANGED mergeType
  /\ UNCHANGED <<active, cooldown, rejected, removeWorse, auxState, recv, alive,
                 crashed, mergeMode, killEnd, exited>>

\* DEFECT (MergeDrains): the picked partners keep their negative mark.
UnmarkedKept(S) == Touched(S)

\* The map after SetChannelId_Sub(0) for the peers in S.
Unmarked(S) == [p \in Peers |-> IF p \in S THEN [Entry(p) EXCEPT !.sub = 0]
                                ELSE peerList[p]]

\* AUTO_LIVE_PERMIT_CONNECTION: the picked partners are ordinary peers again
\* and lose the connection, all under peerListMutex.
MergePermit ==
  /\ timers.pc = "picked" /\ mergeType = "PERMIT" /\ PeerListFree
  /\ peerList' = Unmarked(timers.del)
  /\ Drop("Out", timers.del)
  /\ timers' = TimersIdle
  /\ UNCHANGED <<rejected, removeWorse, auxState, recv, alive, crashed,
                 mergeVars>>

\* AUTO_LIVE_AVOID_CONNECTION takes peerListRejectedMutexOut for the whole
\* loop ...
MergeAvoid ==
  /\ timers.pc = "picked" /\ mergeType = "AVOID"
  /\ timers' = [timers EXCEPT !.pc = "merge"]
  /\ UNCHANGED <<pmVars, recv, alive, crashed, mergeVars>>

\* ... and in it rejects a partner and disconnects it, which takes the mutex
\* of Out inside the other one.
MergeReject(p) ==
  /\ timers.pc = "merge" /\ timers.peer = NoPeer /\ p \in timers.del
  /\ ActiveFree("Out")
  /\ rejected' = rejected \cup {p}
  /\ active' = [active EXCEPT !["Out"] = @ \ {p}]
  /\ timers' = [timers EXCEPT !.peer = p, !.del = timers.del \ {p}]
  /\ UNCHANGED <<peerList, cooldown, removeWorse, auxState, recv, alive,
                 crashed, mergeVars>>

MergeCooldown ==
  /\ timers.pc = "merge" /\ timers.peer # NoPeer
  /\ cooldown' = [cooldown EXCEPT !["Out"][timers.peer] = COOLDOWN]
  /\ timers' = IF timers.del = {} THEN TimersIdle
               ELSE [timers EXCEPT !.peer = NoPeer]
  /\ UNCHANGED <<peerList, active, rejected, removeWorse, auxState, recv, alive,
                 crashed, mergeVars>>
-----------------------------------------------------------------------------
ExecMesc == \/ MergeTick \/ MergeKill \/ MergePick
            \/ /\ MergePermit \/ MergeAvoid \/ MergeCooldown
                  \/ \E p \in Peers : MergeReject(p)
               /\ UNCHANGED execDue

\* The sweep of CyclicTimers starts.
Sweeping == timers.pc = "idle" /\ timers'.pc = "sweep"

\* A step A of PeerManager.  The timer thread starts nothing else while
\* ExecMesc is due.
Partners(A) ==
  /\ ~exited /\ ~crashed /\ A /\ UNCHANGED mergeVars
  /\ execDue /\ timers.pc = "idle" => UNCHANGED timers
  /\ execDue' = IF Sweeping THEN auxState = "SERVER_AUX_MESCLAR" ELSE execDue

AuxNext ==
  \/ Partners(Next)
  \/ /\ ~exited /\ ~crashed
     /\ ExecMesc \/ \E state \in AuxStates : HandleMessageServerSub(state)

AuxSpec == AuxInit /\ [][AuxNext]_auxVars

\* As in PeerManager; ExecMesc gets the mutexes it waits for.
AuxFairness == /\ WF_auxVars(Partners(Handle))
               /\ SF_auxVars(Partners(Sweep))
               /\ SF_auxVars(Partners(FinishSweep))
               /\ SF_auxVars(~crashed /\ ~exited /\ ExecMesc)

AuxFairSpec == AuxSpec /\ AuxFairness
-----------------------------------------------------------------------------
(***************************************************************************)
(* Properties.                                                             *)
(***************************************************************************)

AuxTypeOK == /\ TypeOK
             /\ mergeMode \in MergeModes
             /\ mergeType \in MergeTypes \ {"AVOID_KILLEND", "PERMIT_KILLEND"}
             /\ killEnd \in BOOLEAN /\ mergeTemp \in 0..255
             /\ exited \in BOOLEAN /\ execDue \in BOOLEAN

\* Whoever is on the rejected list is not served from Out: nobody slips in
\* between the pick, the insertion and the disconnection of a merge step, nor
\* while the parallel network starts.
RejectedNotServed ==
  \A p \in active["Out"] \cap rejected : timers.pc = "merge" /\ p \in timers.del

\* An active auxiliary server feeds from Out only peers of the parallel
\* network, whatever happened to their entries in earlier phases.
ServesOnlyParallel ==
  auxState = "SERVER_AUX_ACTIVE" =>
    \A p \in active["Out"] \cap Known : peerList[p].peer => peerList[p].sub = 1

\* The merge takes from Out nobody but partners of the parallel network: the
\* choice made under the mutexes still holds when it is carried out.
OnlyParallelMerged ==
  [][\A p \in active["Out"] \ active'["Out"] :
       timers.pc \in {"picked", "merge"} /\ timers' # timers
         => p \in Known /\ peerList[p].sub < 0]_auxVars

\* With reconnection permitted, a merge that is not cut short ends: a step
\* finds no partner of the parallel network left in Out, although those it
\* dropped may connect again meanwhile.
MergeDrains ==
  mergeMode = "PERMIT_KILLEND" /\ auxState = "SERVER_AUX_MESCLAR" ~>
    auxState # "SERVER_AUX_MESCLAR" \/ crashed \/ mergeType = "KILL"

\* Defines.hpp:115, of AUTO_LIVE_AVOID_CONNECTION: "ServerAux elimina QT peers
\* a cada TM": the partners a merge step set out to drop are dropped.
MergeCompletes ==
  \A p \in Peers :
    (timers.pc = "merge" /\ p \in timers.del) ~> p \notin active["Out"]
=============================================================================
