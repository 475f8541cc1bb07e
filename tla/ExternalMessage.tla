--------------------------- MODULE ExternalMessage ---------------------------
(***************************************************************************)
(* The tool that tells the bootstrap of a change of state (externalMessage) *)
(* and what the bootstrap takes from it.  An option is a pair of a switch   *)
(* and its value.                                                          *)
(***************************************************************************)
EXTENDS Messages

CHANGE_STATE == 2
MODE_FLASH_CROWD == 2
NULL_MODE == 0

Switches == {"-tcpPort", "-peers_udp_port", "-channelId", "-channelMode"}

\* What main() has before it reads the options.
Defaults == [quit |-> FALSE, port |-> 4951, channelId |-> 0, channelMode |-> MODE_FLASH_CROWD]

\* One turn of its loop.  The last `if` has an `else` of its own, which also
\* follows the switches tested before it: any but -channelMode ends the program.
Option(set, option) ==
    CASE set.quit -> set
      [] option[1] = "-channelMode" -> [set EXCEPT !.channelMode = option[2] % 256]
      [] OTHER -> [set EXCEPT !.quit = TRUE]

Options(args) == FoldLeft(Option, Defaults, args)

\* The message that is written to the bootstrap; the sizes are left to their
\* default of -1.
StateMessage(set, version, now, garbage) ==
    SetIntegrity(New("channel", 0,
        [flag |-> CHANGE_STATE, punch |-> 0, version |-> version, port |-> set.port,
         channelId |-> set.channelId, nowTime |-> now, candidate |-> 0,
         channelMode |-> set.channelMode, maxOut |-> -1, maxOutFree |-> -1], garbage))

\* What Bootstrap::HandleChannelMessage does with it: the state of a channel, or
\* none.
ChangedState(message) ==
    LET taken == Taken(message, "channel")
    IN  IF taken.flag = CHANGE_STATE /\ taken.channelMode # NULL_MODE
        THEN {[channelId |-> taken.channelId, mode |-> taken.channelMode]}
        ELSE {}
=============================================================================
