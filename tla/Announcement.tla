---------------------------- MODULE Announcement ----------------------------
(***************************************************************************)
(* What the polls of the viewers promise about the states that the          *)
(* bootstrap gives the candidates to auxiliary server, whatever happens to   *)
(* connections and processes.  Sessions shows that the code keeps it.        *)
(***************************************************************************)
CONSTANTS Viewers, AuxStates, NoAux

Unreachable == "unreachable"

VARIABLES
    told,       \* the state the bootstrap last gave each viewer
    pending,    \* it has not been handed out yet
    heard,      \* the state the viewer has taken, or Unreachable
    excused     \* a restart or a removal came between: the two may differ

vars == <<told, pending, heard, excused>>

TypeOK ==
    /\ told \in [Viewers -> AuxStates]
    /\ pending \in [Viewers -> BOOLEAN]
    /\ heard \in [Viewers -> AuxStates \cup {Unreachable}]
    /\ excused \in [Viewers -> BOOLEAN]

Init ==
    /\ told = [p \in Viewers |-> NoAux]
    /\ pending = [p \in Viewers |-> FALSE]
    /\ heard = [p \in Viewers |-> Unreachable]
    /\ excused = [p \in Viewers |-> FALSE]

\* A newer state replaces one that was not handed out.
Announce(p, s) ==
    /\ told' = [told EXCEPT ![p] = s]
    /\ pending' = [pending EXCEPT ![p] = TRUE]
    /\ UNCHANGED <<heard, excused>>

\* The viewer takes exactly the state last given, once.
Hear(p) ==
    /\ pending[p] /\ heard[p] # Unreachable
    /\ heard' = [heard EXCEPT ![p] = told[p]]
    /\ pending' = [pending EXCEPT ![p] = FALSE]
    /\ excused' = [excused EXCEPT ![p] = FALSE]
    /\ UNCHANGED told

\* The viewer ends, or will never hear of the bootstrap again.
Lose(p) ==
    /\ heard' = [heard EXCEPT ![p] = Unreachable]
    /\ UNCHANGED <<told, pending, excused>>

\* A viewer starts, as no auxiliary server.
Join(p) ==
    /\ heard[p] = Unreachable
    /\ heard' = [heard EXCEPT ![p] = NoAux]
    /\ excused' = [excused EXCEPT ![p] = told[p] # NoAux]
    /\ UNCHANGED <<told, pending>>

\* The bootstrap forgets some viewers and hands them nothing.
Withdraw(S) ==
    /\ told' = [p \in Viewers |-> IF p \in S THEN NoAux ELSE told[p]]
    /\ pending' = [p \in Viewers |-> p \notin S /\ pending[p]]
    /\ excused' = [p \in Viewers |-> IF p \in S THEN heard[p] # NoAux ELSE excused[p]]
    /\ UNCHANGED heard

\* An earlier run of the viewer's program is handed what this one should be.
Waste(p) ==
    /\ pending[p]
    /\ pending' = [pending EXCEPT ![p] = FALSE]
    /\ excused' = [excused EXCEPT ![p] = TRUE]
    /\ UNCHANGED <<told, heard>>

\* The bootstrap dies, and with it every connection and all it knows.
Collapse(cut) ==
    /\ told' = [p \in Viewers |-> NoAux]
    /\ pending' = [p \in Viewers |-> FALSE]
    /\ heard' = [p \in Viewers |-> IF p \in cut THEN Unreachable ELSE heard[p]]
    /\ excused' = [p \in Viewers |-> heard[p] # NoAux]

Next ==
    \/ \E p \in Viewers, s \in AuxStates : Announce(p, s)
    \/ \E p \in Viewers : Hear(p) \/ Lose(p) \/ Join(p) \/ Waste(p)
    \/ \E S \in SUBSET Viewers : Withdraw(S) \/ Collapse(S)

Spec == Init /\ [][Next]_vars

\* A viewer that is reached has the state the bootstrap believes it has, or the
\* news is still to be handed out: but for viewers restarted or removed since.
Agreement ==
    \A p \in Viewers :
        heard[p] # Unreachable /\ ~pending[p] /\ ~excused[p] => heard[p] = told[p]
=============================================================================
