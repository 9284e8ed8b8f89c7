------------------------------- MODULE Startup -------------------------------
(***************************************************************************)
(* Core::run: from nothing on disk to a running masterserver, any number   *)
(* of times.  The program may be stopped between any two statements; what  *)
(* is on disk then remains.  A statement may fail (a busy database, a full *)
(* disk), and so may opening a file or a port.                             *)
(***************************************************************************)
EXTENDS Settings, Logger, FiniteSets

CONSTANTS Files,           \* settings files that the operator may write
          Games,           \* contents of the supported games file, in its order
          Answers,         \* lines that a question may read from stdin, "" when it is closed
          MayFail,         \* statements that may fail, MaxFaults times in all
          MaxFaults,
          BUILD_VERSION, DATABASE_VERSION    \* in hundredths

Statement == {"create", "insertVersion", "selectVersion", "count", "delete", "insertGame"}

ASSUME StartupAssumption ==
    /\ BUILD_VERSION \in Nat /\ DATABASE_VERSION \in Nat /\ MaxFaults \in Nat
    /\ BUILD_VERSION >= DATABASE_VERSION /\ DATABASE_VERSION > 0
    /\ MayFail \subseteq Statement
    /\ Games \subseteq Seq(STRING) /\ << >> \notin Games
    /\ \A file \in Files : Readable(file)

VARIABLES settingsFile,    \* the settings file on disk, or NoSettings
          json,            \* the supported games file
          tables,          \* dbi.tables(), in the order of their creation
          version,         \* the row of versioninfo, 0 without one
          gameinfo,        \* gamename of each row of gameinfo
          pc,              \* where Core::run is
          settings,        \* CoreObject::Settings, once accepted
          todo,            \* tables or games that remain to be created or inserted
          log, services, listening,
          today, faults,
          failed,          \* history: 1 once a statement failed in this start
          usable,          \* history: 1 once the program ran and no statement had failed
          refused,         \* history: 1 once a start found the database outdated
          written          \* history: the last message, and the name whose open failed last

disk == <<settingsFile, json, tables, version, gameinfo>>
process == <<pc, settings, todo, log, services, listening>>
history == <<failed, usable, refused, written>>
vars == <<disk, process, today, faults, history>>

NoSettings == [cycle |-> ""]

\* The CREATE statements, in their order.
TableOrder == <<"serverlist", "serverinfo", "playerinfo", "gameinfo", "versioninfo">>

TableName == {"serverlist", "serverinfo", "playerinfo", "gameinfo", "versioninfo"}

HasTable(name) == \E i \in DOMAIN tables : tables[i] = name

Service == {"maintenance", "uplink", "sync", "checker"}

Place == {"off", "settings", "database", "create", "version", "games", "reload", "log",
          "udp", "tcp", "services", "running"}

TypeOK ==
    /\ json \in Games /\ version \in Nat
    /\ tables \in Seq(TableName) /\ gameinfo \in Seq(STRING)
    /\ todo \in IF pc = "create" THEN Seq(TableName) ELSE Seq(STRING)
    /\ {failed, usable, refused} \subseteq {0, 1}
    /\ pc \in Place /\ log \in Logger /\ services \subseteq Service
    /\ listening \subseteq {"udp", "tcp"} /\ today \in Day /\ faults \in 0 .. MaxFaults
    /\ DOMAIN settings \subseteq DOMAIN Default
    /\ pc = "running" => {settings.beaconPort, settings.listenPort} \subseteq 0 .. MaxPort

Init ==
    /\ settingsFile = NoSettings /\ json \in Games
    /\ tables = << >> /\ version = 0 /\ gameinfo = << >>
    /\ pc = "off" /\ settings = NoSettings /\ todo = << >>
    /\ log = ClosedLog /\ services = {} /\ listening = {}
    /\ today = 0 /\ faults = 0
    /\ failed = 0 /\ usable = 0 /\ refused = 0
    /\ written = [file |-> NoFile, unopened |-> NoFile]

\* The result of statement s.
Run(s, r) ==
    /\ r \in IF s \in MayFail /\ faults < MaxFaults THEN {"ok", "error"} ELSE {"ok"}
    /\ faults' = IF r = "error" THEN faults + 1 ELSE faults
    /\ failed' = IF r = "error" THEN 1 ELSE failed

\* "exit(0)", or the end of the process for any other reason.
Stop ==
    /\ pc' = "off" /\ log' = ClosedLog /\ services' = {} /\ listening' = {} /\ todo' = << >>
    /\ settings' = NoSettings

GotoWith(place, rest) ==
    pc' = place /\ todo' = rest /\ UNCHANGED <<settings, log, services, listening>>

Goto(place) == GotoWith(place, todo)
-----------------------------------------------------------------------------
(* The operator and the calendar.                                          *)
Configure(file) ==
    /\ pc = "off" /\ settingsFile' = file
    /\ UNCHANGED <<json, tables, version, gameinfo, process, today, faults, history>>

Crash == pc # "off" /\ Stop /\ UNCHANGED <<disk, today, faults, history>>

Midnight ==
    /\ today + 1 \in Day /\ today' = today + 1
    /\ UNCHANGED <<disk, process, faults, history>>

Start ==
    /\ pc = "off" /\ Goto("settings") /\ failed' = 0
    /\ UNCHANGED <<disk, today, faults, usable, refused, written>>
-----------------------------------------------------------------------------
(* Settings and database.                                                  *)
LoadSettings ==
    /\ pc = "settings"
    /\ IF settingsFile = NoSettings
       THEN /\ Stop
            /\ \E answer \in Answers :
                   settingsFile' = IF answer = "y" THEN WrittenSettings ELSE NoSettings
       ELSE /\ UNCHANGED settingsFile
            /\ IF Accepted(settingsFile)
               THEN /\ settings' = ReadSettings(settingsFile) /\ pc' = "database"
                    /\ UNCHANGED <<todo, log, services, listening>>
               ELSE Stop
    /\ UNCHANGED <<json, tables, version, gameinfo, today, faults, failed, usable, refused, written>>

\* "serverlist exists (and thus the other tables exist) but not version"
Incomplete == HasTable("serverlist") /\ ~HasTable("versioninfo")

RefuseDatabase ==
    /\ pc = "database"
    /\ \/ Incomplete /\ UNCHANGED <<faults, failed>>
       \/ HasTable("versioninfo") /\ version < DATABASE_VERSION /\ Run("selectVersion", "ok")
    /\ Stop /\ refused' = 1
    /\ UNCHANGED <<disk, today, usable, written>>

\* "failed query? (unlikely)"
VersionUnread ==
    /\ pc = "database" /\ HasTable("versioninfo") /\ Run("selectVersion", "error")
    /\ Stop /\ UNCHANGED <<disk, today, usable, refused, written>>

\* The code compares toFloat() of the stored text with a double, which agrees with the
\* comparison in hundredths for the versions there are: (float) 0.28 against 0.27.
AcceptDatabase ==
    /\ pc = "database" /\ HasTable("versioninfo") /\ version >= DATABASE_VERSION
    /\ Run("selectVersion", "ok") /\ Goto("games")
    /\ UNCHANGED <<disk, today, usable, refused, written>>

\* "relevant tables do not exist. ask to generate."
AskForTables ==
    /\ pc = "database" /\ ~HasTable("serverlist") /\ ~HasTable("versioninfo")
    /\ \E answer \in Answers : IF answer = "y" THEN GotoWith("create", TableOrder) ELSE Stop
    /\ UNCHANGED <<disk, today, faults, failed, usable, refused, written>>

AfterCreate == GotoWith(IF Len(todo) = 1 THEN "version" ELSE "create", Tail(todo))

\* Faulty variant: a failed CREATE is reported, as a failed INSERT is.
CreateReported ==
    /\ pc = "create" /\ AfterCreate
    /\ \/ Run("create", "ok") /\ tables' = Append(tables, Head(todo))
       \/ Run("create", "error") /\ UNCHANGED tables
    /\ UNCHANGED <<settingsFile, json, version, gameinfo, today, usable, refused, written>>

\* One CREATE statement of createTables; "return reportQuery(q)" when it fails.
CreateTable ==
    /\ pc = "create"
    /\ \/ Run("create", "ok") /\ AfterCreate /\ tables' = Append(tables, Head(todo))
       \/ Run("create", "error") /\ Stop /\ UNCHANGED tables
    /\ UNCHANGED <<settingsFile, json, version, gameinfo, today, usable, refused, written>>

\* Faulty variant: the version of the last structural change that the comment names.
StoredBefore == 15

Stored == BUILD_VERSION

\* A failed INSERT is reported, and createTables succeeds.
InsertVersion ==
    /\ pc = "version"
    /\ \/ Run("insertVersion", "ok") /\ version' = Stored
       \/ Run("insertVersion", "error") /\ UNCHANGED version
    /\ Goto("games")
    /\ UNCHANGED <<settingsFile, json, tables, gameinfo, today, usable, refused, written>>
-----------------------------------------------------------------------------
(* loadSupportedGames.  The file may be missing, or unreadable as JSON     *)
(* while it is being written: then it has no games.                        *)
GamesMissing ==
    /\ pc = "games" /\ Stop
    /\ UNCHANGED <<disk, today, faults, failed, usable, refused, written>>

\* Faulty variant: the table is filled only when it is empty.
MismatchWhenEmpty(numTotal, games) == numTotal = 0

\* "If database/json data do not match": their counts are compared.
Mismatch(numTotal, games) == numTotal # Len(games)

\* Where the function goes once nothing remains to be inserted.
Loaded(games) == IF games = << >> THEN Stop ELSE Goto("log")

LoadSupportedGames(games) ==
    /\ pc = "games"
    /\ \E counted, deleted \in {"ok", "error"} :
           LET numTotal == IF counted = "ok" THEN Len(gameinfo) ELSE 0
               failing  == {s \in {"count", "delete"} :
                               IF s = "count" THEN counted = "error" ELSE deleted = "error"}
           IN  /\ failing \subseteq MayFail /\ faults + Cardinality(failing) <= MaxFaults
               /\ faults' = faults + Cardinality(failing)
               /\ failed' = IF failing = {} THEN failed ELSE 1
               /\ IF Mismatch(numTotal, games)
                  THEN /\ gameinfo' = IF deleted = "ok" THEN << >> ELSE gameinfo
                       /\ IF games = << >> THEN Stop
                          ELSE GotoWith("reload", games)
                  ELSE /\ deleted = "ok" /\ UNCHANGED gameinfo
                       /\ Loaded(games)
    /\ UNCHANGED <<settingsFile, json, tables, version, today, usable, refused, written>>

InsertGame ==
    /\ pc = "reload"
    /\ \E r \in {"ok", "error"} :
           /\ Run("insertGame", r)
           /\ gameinfo' = IF r = "ok" THEN Append(gameinfo, Head(todo)) ELSE gameinfo
    /\ GotoWith(IF Len(todo) = 1 THEN "log" ELSE "reload", Tail(todo))
    /\ UNCHANGED <<settingsFile, json, tables, version, today, usable, refused, written>>
-----------------------------------------------------------------------------
(* Logger::init and the services.                                          *)

\* writeLogFile, for the settings s; an open that fails leaves the display.
Write(s, opened) ==
    LET name == LogName(s.cycle, today)
        l    == CycleLogFile(log, name, opened)
    IN  /\ log' = l
        /\ written' = [file |-> l.file,
                       unopened |-> IF l # log /\ l.file = NoFile THEN name ELSE written.unopened]

\* The directory may be missing, the file may fail to open.
InitLog ==
    /\ pc = "log"
    /\ \/ /\ log' = CycleLogFile(log, LogName(settings.cycle, today), TRUE)
          /\ pc' = "udp" /\ UNCHANGED <<settings, todo, services, listening>>
       \/ Stop
    /\ UNCHANGED <<disk, today, faults, history>>

\* The result of bind is not looked at.
UdpListen ==
    /\ pc = "udp" /\ pc' = "tcp"
    /\ listening' \in {listening, listening \cup {"udp"}}
    /\ \E opened \in BOOLEAN : Write(settings, opened)
    /\ UNCHANGED <<disk, settings, todo, services, today, faults, failed, usable, refused>>

TcpListen ==
    /\ pc = "tcp"
    /\ \/ /\ listening' = listening \cup {"tcp"} /\ pc' = "services"
          /\ \E opened \in BOOLEAN : Write(settings, opened)
          /\ UNCHANGED <<settings, todo, services>>
       \/ Stop /\ UNCHANGED written
    /\ UNCHANGED <<disk, today, faults, failed, usable, refused>>

Enabled == {s \in Service : CASE s = "maintenance" -> settings.doMaintenance
                              [] s = "uplink"      -> settings.doUplink
                              [] s = "sync"        -> settings.doSync
                              [] s = "checker"     -> settings.doCheck}

StartServices ==
    /\ pc = "services" /\ pc' = "running" /\ services' = Enabled
    /\ \E opened \in BOOLEAN : Write(settings, opened)
    /\ usable' = IF failed = 0 THEN 1 ELSE usable
    /\ UNCHANGED <<disk, settings, todo, listening, today, faults, failed, refused>>

LogEvent ==
    /\ pc = "running"
    /\ \E opened \in BOOLEAN : Write(settings, opened)
    /\ UNCHANGED <<disk, pc, settings, todo, services, listening, today, faults,
                   failed, usable, refused>>

Next ==
    \/ Crash \/ Midnight \/ Start \/ \E file \in Files : Configure(file)
    \/ LoadSettings \/ RefuseDatabase \/ VersionUnread \/ AcceptDatabase \/ AskForTables
    \/ CreateTable \/ InsertVersion
    \/ GamesMissing \/ \E games \in {json, << >>} : LoadSupportedGames(games)
    \/ InsertGame \/ InitLog \/ UdpListen \/ TcpListen \/ StartServices \/ LogEvent

Spec == Init /\ [][Next]_vars
-----------------------------------------------------------------------------
(* What must hold.                                                         *)

\* The services run only on a database with all five tables, wherever an earlier
\* start was stopped while it created them: versioninfo vouches for the others.
RunsOnWholeDatabase ==
    pc \in {"games", "reload", "log", "udp", "tcp", "services", "running"} =>
        \A i \in DOMAIN TableOrder : HasTable(TableOrder[i])

\* After a start in which no statement failed, gameinfo is the file's list again,
\* whatever crashes and failed inserts earlier starts left in it, and although only
\* the counts are compared.
GamesComplete == pc = "running" /\ failed = 0 => gameinfo = json

\* A database the program ran on without a failing statement is accepted by every
\* later start.
StaysUsable == usable = 1 => refused = 0

\* The masterserver runs on real ports and asks the sync servers its file lists, each
\* as it is written there: a file with an element that is missing, incomplete or out of
\* range is refused, and no such element is skipped over or filled with a default.
SettingsSound == pc = "running" =>
    /\ {settings.beaconPort, settings.listenPort} \subseteq 1 .. MaxPort
    /\ DOMAIN settings.syncServers = 1 .. ValueOf(settingsFile, "size")
    /\ \A i \in DOMAIN settings.syncServers :
           LET s == settings.syncServers[i]
           IN  /\ i \in DOMAIN settingsFile.syncServers /\ s = settingsFile.syncServers[i]
               /\ {s.beaconPort, s.listenPort} \subseteq 1 .. MaxPort
               /\ s.fields >= 3 /\ s.remoteAddress # ""

\* A message is written to the file of its own date, across midnight and new cycle
\* periods, and goes to the display only when the file of that period failed to open.
LoggedUnderItsDate == [][LogEvent =>
    LET name == LogName(settings.cycle, today)
    IN  IF written'.file = NoFile THEN written'.unopened = name ELSE written'.file = name]_vars
=============================================================================
