----------------------------- MODULE ChunkPlayer -----------------------------
(***************************************************************************)
(* The client of ChunkExchange with its player thread (FeedPlayer), which  *)
(* takes the chunks out of the buffer, and moves the position it plays     *)
(* without a lock while the timer thread may move it too.                  *)
(***************************************************************************)
EXTENDS ChunkExchange

VARIABLES
  playerPosition,  \* playerDeliveryPosition
  player           \* where the player thread is

baseVars == vars
allVars  == <<baseVars, playerPosition, player>>

PlayInit == Init /\ playerPosition = First /\ player = "check"
-----------------------------------------------------------------------------
\* SOFT RESET: a player a whole cycle behind jumps to the latest chunks, and
\* the requests go.
CheckReset ==
  /\ player = "check" /\ player' = "look"
  /\ IF Before(playerPosition, latest) /\ Minus(latest, playerPosition).cycle > 0
     THEN /\ playerPosition' = MinusInt(latest, TipOffset)
          /\ requestList' = <<>>
     ELSE UNCHANGED <<playerPosition, requestList>>
  /\ UNCHANGED <<serverVars, net, chunkMap, dataVars, requestPosition, requester,
                 failures, needTip>>

Playable == NotAfter(playerPosition, latest)
            /\ Available(buffer, playerPosition.position)

\* The chunk goes to the player, which may take its time ...
Deliver == /\ player = "look" /\ Playable /\ player' = "advance"
           /\ UNCHANGED <<baseVars, playerPosition>>

\* DEFECT (PlayerNotAhead): a chunk is given up although none came after it.
Overdue == TRUE

Overtaken == Before(playerPosition, latest)

\* ... or, waited for long enough, is given up if later ones have come (chunk
\* miss) ...
Miss == /\ player = "look" /\ ~Playable /\ Overtaken /\ player' = "advance"
        /\ UNCHANGED <<baseVars, playerPosition>>

\* ... and then the position, whatever it is by now, is incremented.
Advance == /\ player = "advance" /\ player' = "check"
           /\ playerPosition' = IncID(playerPosition)
           /\ UNCHANGED baseVars

Wait == /\ player = "look" /\ ~Playable /\ player' = "check"
        /\ UNCHANGED <<baseVars, playerPosition>>

Player == CheckReset \/ Deliver \/ Miss \/ Advance \/ Wait

\* HandlePeerlistMessage sends the player to the request position.
StartReply == TipReply /\ playerPosition' = requestPosition' /\ UNCHANGED player

PlayNext == \/ Exchange /\ UNCHANGED <<playerPosition, player>>
            \/ StartReply
            \/ Player
PlaySpec == PlayInit /\ [][PlayNext]_allVars

\* The threads keep running, the server keeps generating and telling the
\* bootstrap, and the bootstrap answers; the network owes nothing.
FairSpec == /\ PlaySpec
            /\ WF_allVars(Server /\ UNCHANGED <<playerPosition, player>>)
            /\ WF_allVars(PingBootstrap /\ UNCHANGED <<playerPosition, player>>)
            /\ WF_allVars(Requester /\ UNCHANGED <<playerPosition, player>>)
            /\ WF_allVars(StartReply)
-----------------------------------------------------------------------------
\* The player is never more than one chunk past the latest one received or
\* past the next one to ask for, even when the bootstrap's reply moves it
\* between a delivery or a miss and the step to the next chunk.
PlayerNotAhead ==
  \/ NotAfter(playerPosition, IncID(latest))
  \/ NotAfter(playerPosition, IncID(requestPosition))
==============================================================================
