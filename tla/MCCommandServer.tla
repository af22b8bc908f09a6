--------------------------- MODULE MCCommandServer ---------------------------
(* Instances of CommandServer for TLC: model values and small command sets. *)
EXTENDS CommandServer

CONSTANTS c1, c2, c3, d1, d2

\* Commands whose reply ends in a line of its own, and that leave S_sock right.
AnsweringCommands == {"mdsConnect", "mdsOpen", "mdsValueTimed", "help"}
DebugMix == {"mdsConnect", "mdsOpen"}
\* One command of each kind of effect.
EveryEffect == {"mdsConnect", "mdsDisconnect", "mdsSetEvent", "mdsValueFile", "mdsValueFloat",
                "mdsValueStdout", "mdsValuePutFile", "mdsPutStride", "mdsPutStart", "comment", "unknown"}
\* What it takes for S_sock to name another connection.
DisconnectCommands == {"mdsConnect", "mdsDisconnect", "mdsOpen"}
=============================================================================
