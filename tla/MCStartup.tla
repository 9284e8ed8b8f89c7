------------------------------ MODULE MCStartup ------------------------------
(* Two games, five settings files, and the days around a new year: the 31st *)
(* of December 2026, the 1st and the 4th of January 2027.                   *)
EXTENDS Startup

MCYear == [d \in Day |-> IF d = 0 THEN 2026 ELSE 2027]
MCMonth == [d \in Day |-> IF d = 0 THEN 12 ELSE 1]
MCWeek == [d \in Day |-> IF d = 2 THEN 1 ELSE 53]

Filled == [WrittenSettings EXCEPT !.hostname = "host", !.adminName = "name", !.contact = "mail"]
\* A file that leaves out what the default covers, in the manner of the README.
Short == [hostname |-> "host", adminName |-> "name", contact |-> "mail", doUplink |-> FALSE,
          cycle |-> "daily"]
WrongServer == [Filled EXCEPT !.syncServers = Append(@, [DefaultServer EXCEPT !.listenPort = 70000]),
                              !.size = 2]
SizeTooLarge == [Filled EXCEPT !.size = 2]
PortTooLarge == [Filled EXCEPT !.beaconPort = 65536]
MCFiles == {Filled, Short, WrongServer, SizeTooLarge, PortTooLarge}
MCGames == {<<"ut", "unreal">>}
=============================================================================
