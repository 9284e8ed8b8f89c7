---------------------------- MODULE StartupProofs ----------------------------
(* What every start finds and leaves on disk, however often the program is  *)
(* stopped between two statements and whichever statements fail, and where  *)
(* its messages go.                                                         *)
EXTENDS Startup, SequenceTheorems, FiniteSetTheorems, TLAPS

\* The places behind createTables or the version check, and behind loadSupportedGames.
Behind == {"games", "reload", "log", "udp", "tcp", "services", "running"}
Loading == {"log", "udp", "tcp", "services", "running"}

Whole == Len(tables) = 5
Current == Whole /\ version >= DATABASE_VERSION

\* The tables on disk are the first ones of the order.
TablesInv ==
    /\ tables \in Seq(TableName) /\ Len(tables) <= 5
    /\ \A i \in 1 .. Len(tables) : tables[i] = TableOrder[i]

\* What createTables has still to do is the rest of the order.
CreateInv == pc = "create" =>
    /\ todo \in Seq(TableName) /\ Len(todo) > 0 /\ Len(todo) + Len(tables) = 5
    /\ \A i \in 1 .. Len(todo) : todo[i] = TableOrder[Len(tables) + i]

PlaceInv ==
    /\ pc = "version" => Whole
    /\ pc \in Behind => Whole /\ (failed = 0 => version >= DATABASE_VERSION)

\* A refused database has versioninfo missing or too old, and stays so.
VerdictInv ==
    /\ usable = 1 => Current
    /\ refused = 1 => /\ Len(tables) > 0 /\ ~Current
                      /\ pc \in {"off", "settings", "database"}

DatabaseInv ==
    /\ version \in Int /\ failed \in {0, 1} /\ usable \in {0, 1} /\ refused \in {0, 1}
    /\ TablesInv /\ CreateInv /\ PlaceInv /\ VerdictInv

\* versioninfo, the last of the order, vouches for the other four.
LEMMA TablesFound ==
    ASSUME TablesInv
    PROVE  /\ HasTable("serverlist") <=> Len(tables) > 0
           /\ HasTable("versioninfo") <=> Whole
           /\ Whole => \A i \in DOMAIN TableOrder : HasTable(TableOrder[i])
<1>1. /\ DOMAIN TableOrder = 1 .. 5 /\ TableOrder[1] = "serverlist"
      /\ TableOrder[5] = "versioninfo"
      /\ \A i \in 1 .. 5 : /\ TableOrder[i] = "serverlist" => i = 1
                           /\ TableOrder[i] = "versioninfo" => i = 5
  BY DEF TableOrder
<1>2. DOMAIN tables = 1 .. Len(tables) /\ Len(tables) \in Nat
  BY DEF TablesInv
<1>3. \A i \in DOMAIN tables : i \in 1 .. 5 /\ tables[i] = TableOrder[i]
  BY <1>2 DEF TablesInv
<1>4. HasTable("serverlist") <=> Len(tables) > 0
  BY <1>1, <1>2, <1>3 DEF HasTable
<1>5. HasTable("versioninfo") <=> Whole
  BY <1>1, <1>2, <1>3 DEF HasTable, Whole, TablesInv
<1>6. Whole => \A i \in DOMAIN TableOrder : HasTable(TableOrder[i])
  BY <1>1, <1>2, <1>3 DEF HasTable, Whole
<1> QED
  BY <1>4, <1>5, <1>6

LEMMA DatabaseInit == Init => DatabaseInv
  BY DEF Init, DatabaseInv, TablesInv, CreateInv, PlaceInv, VerdictInv, Behind, Whole, Current

\* One CREATE appends the table whose turn it is.
LEMMA CreateKeeps ==
    ASSUME DatabaseInv, CreateTable
    PROVE  DatabaseInv'
<1>1. /\ pc = "create" /\ todo \in Seq(TableName) /\ Len(todo) > 0
      /\ Len(todo) + Len(tables) = 5 /\ tables \in Seq(TableName)
      /\ \A i \in 1 .. Len(todo) : todo[i] = TableOrder[Len(tables) + i]
      /\ refused = 0
  BY DEF CreateTable, DatabaseInv, CreateInv, TablesInv, VerdictInv
<1>2. failed' \in {0, 1} /\ UNCHANGED <<version, usable, refused>>
  BY DEF CreateTable, DatabaseInv, Run
<1>3. CASE Stop /\ UNCHANGED tables
  BY <1>1, <1>2, <1>3 DEF Stop, DatabaseInv, TablesInv, CreateInv, PlaceInv, VerdictInv, Behind,
                          Whole, Current
<1>4. CASE AfterCreate /\ tables' = Append(tables, Head(todo))
  <2>1. usable = 0
    <3>1. /\ Len(todo) \in Nat /\ Len(tables) \in Nat
          /\ Len(todo) > 0 /\ Len(todo) + Len(tables) = 5
      BY <1>1
    <3>2. ~Whole
      BY SMTT(30), <3>1 DEF Whole
    <3> QED
      BY <3>2 DEF DatabaseInv, VerdictInv, Current
  <2>2. /\ Head(todo) \in TableName /\ Head(todo) = TableOrder[Len(tables) + 1]
        /\ Tail(todo) \in Seq(TableName) /\ Len(Tail(todo)) = Len(todo) - 1
        /\ \A i \in 1 .. Len(Tail(todo)) : Tail(todo)[i] = todo[i + 1]
    BY <1>1
  <2>3. /\ tables' \in Seq(TableName) /\ Len(tables') = Len(tables) + 1
        /\ \A i \in 1 .. Len(tables) : tables'[i] = tables[i]
        /\ tables'[Len(tables) + 1] = Head(todo)
    BY <1>1, <1>4, <2>2
  <2>4. TablesInv'
    BY <1>1, <2>2, <2>3 DEF TablesInv, DatabaseInv
  <2>5. /\ todo' = Tail(todo)
        /\ pc' = IF Len(todo) = 1 THEN "version" ELSE "create"
    BY <1>4 DEF AfterCreate, GotoWith
  <2>6. CreateInv'
    <3>1. Len(todo) \in Nat /\ Len(tables) \in Nat
      BY <1>1
    <3>2. \A i \in 1 .. Len(todo) - 1 : todo[i + 1] = TableOrder[Len(tables) + (i + 1)]
      BY <1>1, <3>1
    <3> QED
      BY <1>1, <2>2, <2>3, <2>5, <3>1, <3>2 DEF CreateInv
  <2>7. PlaceInv'
    BY <1>1, <2>3, <2>5 DEF PlaceInv, Whole, Behind
  <2> QED
    BY <1>1, <1>2, <2>1, <2>4, <2>6, <2>7 DEF DatabaseInv, VerdictInv
<1> QED
  BY <1>3, <1>4 DEF CreateTable

\* The starts that answer "y" for an empty database have found no table at all.
LEMMA AskKeeps ==
    ASSUME DatabaseInv, AskForTables
    PROVE  DatabaseInv'
<1>1. Len(tables) = 0 /\ UNCHANGED <<tables, version, failed, usable, refused>>
  BY TablesFound DEF AskForTables, DatabaseInv, TablesInv, disk
<1>2. usable = 0 /\ refused = 0
  BY <1>1 DEF DatabaseInv, VerdictInv, Current, Whole
<1>3. /\ TableOrder \in Seq(TableName) /\ Len(TableOrder) = 5
  BY DEF TableOrder, TableName
<1>4. \/ pc' = "off"
      \/ pc' = "create" /\ todo' = TableOrder
  BY DEF AskForTables, GotoWith, Stop
<1>5. CreateInv'
  BY <1>1, <1>3, <1>4 DEF CreateInv
<1> QED
  BY <1>1, <1>2, <1>4, <1>5 DEF DatabaseInv, TablesInv, PlaceInv, VerdictInv, Behind

\* The verdict on an existing database depends on what is on disk alone.
LEMMA JudgeKeeps ==
    ASSUME DatabaseInv, RefuseDatabase \/ VersionUnread \/ AcceptDatabase
    PROVE  DatabaseInv'
<1>1. /\ UNCHANGED <<tables, version, usable>> /\ pc = "database"
      /\ failed' \in {0, 1}
  BY DEF RefuseDatabase, VersionUnread, AcceptDatabase, disk, Run, DatabaseInv
<1>2. Len(tables) \in Nat
  BY DEF DatabaseInv, TablesInv
<1>3. CASE RefuseDatabase
  <2>1. pc' = "off" /\ refused' = 1
    BY <1>3 DEF RefuseDatabase, Stop
  <2>2. Len(tables) > 0 /\ ~Current
    BY <1>3, <1>2, TablesFound, StartupAssumption
       DEF RefuseDatabase, Incomplete, DatabaseInv, Current, Whole
  <2> QED
    BY <1>1, <2>1, <2>2, StartupAssumption DEF DatabaseInv, TablesInv, CreateInv, PlaceInv, VerdictInv, Behind, Current, Whole
<1>4. CASE VersionUnread
  <2>1. pc' = "off" /\ refused' = refused
    BY <1>4 DEF VersionUnread, Stop
  <2> QED
    BY <1>1, <2>1 DEF DatabaseInv, TablesInv, CreateInv, PlaceInv, VerdictInv, Behind, Current, Whole
<1>5. CASE AcceptDatabase
  <2>1. pc' = "games" /\ refused' = refused
    BY <1>5 DEF AcceptDatabase, Goto, GotoWith
  <2>2. Current
    BY <1>5, TablesFound DEF AcceptDatabase, DatabaseInv, Current
  <2> QED
    BY <1>1, <2>1, <2>2 DEF DatabaseInv, TablesInv, CreateInv, PlaceInv, VerdictInv, Behind, Current, Whole
<1> QED
  BY <1>3, <1>4, <1>5

LEMMA InsertVersionKeeps ==
    ASSUME DatabaseInv, InsertVersion
    PROVE  DatabaseInv'
<1>1. /\ pc = "version" /\ pc' = "games" /\ UNCHANGED <<tables, usable, refused>>
      /\ Whole
  BY DEF InsertVersion, Goto, GotoWith, DatabaseInv, PlaceInv
<1>2. \/ version' = BUILD_VERSION /\ failed' = failed
      \/ version' = version /\ failed' = 1
  BY DEF InsertVersion, Run, Stored
<1>3. BUILD_VERSION \in Nat /\ DATABASE_VERSION \in Nat /\ BUILD_VERSION >= DATABASE_VERSION
  BY StartupAssumption
<1> QED
  BY <1>1, <1>2, <1>3 DEF DatabaseInv, TablesInv, CreateInv, PlaceInv, VerdictInv, Behind, Current, Whole

\* The other steps neither create tables nor write the version: they stay behind
\* the check, or stop, or have not reached it.
LEMMA OthersKeep ==
    ASSUME DatabaseInv,
           UNCHANGED <<tables, version, refused>>, failed' \in {0, 1}, usable' \in {0, 1},
           \/ pc' \in {"off", "settings", "database"} /\ usable' = usable
           \/ /\ pc \in Behind /\ pc' \in Behind
              /\ failed' = 0 => failed = 0
              /\ usable' = usable \/ failed = 0
           \/ UNCHANGED <<pc, todo, failed, usable>>
    PROVE  DatabaseInv'
  BY DEF DatabaseInv, TablesInv, CreateInv, PlaceInv, VerdictInv, Behind, Current, Whole

LEMMA DatabaseNext == DatabaseInv /\ [Next]_vars => DatabaseInv'
<1> SUFFICES ASSUME DatabaseInv, [Next]_vars PROVE DatabaseInv'
  OBVIOUS
<1>0. failed \in {0, 1} /\ usable \in {0, 1}
  BY DEF DatabaseInv
<1>1. CASE Crash \/ Midnight \/ Start \/ \E file \in Files : Configure(file)
  BY <1>0, <1>1, OthersKeep DEF Crash, Midnight, Start, Configure, Stop, Goto, GotoWith, disk, process, history
<1>2. CASE LoadSettings
  <2>1. UNCHANGED <<tables, version, refused, failed, usable>> /\ pc' \in {"off", "database"}
    BY <1>2 DEF LoadSettings, Stop
  <2> QED
    BY <1>0, <2>1, OthersKeep
<1>3. CASE RefuseDatabase \/ VersionUnread \/ AcceptDatabase
  BY <1>3, JudgeKeeps
<1>4. CASE AskForTables
  BY <1>4, AskKeeps
<1>5. CASE CreateTable
  BY <1>5, CreateKeeps
<1>6. CASE InsertVersion
  BY <1>6, InsertVersionKeeps
<1>7. CASE GamesMissing
  BY <1>0, <1>7, OthersKeep DEF GamesMissing, Stop, disk
<1>8. CASE \E games \in {json, << >>} : LoadSupportedGames(games)
  <2>1. /\ UNCHANGED <<tables, version, refused, usable>>
        /\ pc = "games" /\ pc' \in {"off", "reload", "log"} /\ failed' \in {failed, 1}
    BY <1>8 DEF LoadSupportedGames, Loaded, Stop, Goto, GotoWith
  <2> QED
    BY <1>0, <2>1, OthersKeep DEF Behind
<1>9. CASE InsertGame
  <2>1. /\ UNCHANGED <<tables, version, refused, usable>>
        /\ pc = "reload" /\ pc' \in {"reload", "log"} /\ failed' \in {failed, 1}
    BY <1>9 DEF InsertGame, GotoWith, Run
  <2> QED
    BY <1>0, <2>1, OthersKeep DEF Behind
<1>10. CASE InitLog \/ UdpListen \/ TcpListen \/ LogEvent
  <2>1. /\ UNCHANGED <<tables, version, refused, usable, failed>>
        /\ pc \in Behind /\ pc' \in Behind \cup {"off"}
    BY <1>10 DEF InitLog, UdpListen, TcpListen, LogEvent, Stop, disk, history, Behind
  <2> QED
    BY <1>0, <2>1, OthersKeep
<1>11. CASE StartServices
  BY <1>0, <1>11, OthersKeep DEF StartServices, disk, Behind
<1>12. CASE UNCHANGED vars
  BY <1>0, <1>12, OthersKeep DEF vars, disk, process, history
<1> QED
  BY <1>1, <1>2, <1>3, <1>4, <1>5, <1>6, <1>7, <1>8, <1>9, <1>10, <1>11, <1>12 DEF Next

LEMMA DatabaseInvariant == Spec => []DatabaseInv
  BY DatabaseInit, DatabaseNext, PTL DEF Spec

\* The services only ever run on all five tables, whatever was created before a stop.
THEOREM RunsOnWholeDatabaseHolds == Spec => []RunsOnWholeDatabase
<1>1. DatabaseInv => RunsOnWholeDatabase
  BY TablesFound DEF DatabaseInv, PlaceInv, Behind, RunsOnWholeDatabase
<1> QED
  BY <1>1, DatabaseInvariant, PTL

\* A database the program once ran on without a failing statement is never refused.
THEOREM StaysUsableHolds == Spec => []StaysUsable
<1>1. DatabaseInv => StaysUsable
  BY DEF DatabaseInv, VerdictInv, StaysUsable
<1> QED
  BY <1>1, DatabaseInvariant, PTL
-----------------------------------------------------------------------------
\* gameinfo never has more rows than the file has games, and with as many it is
\* the file's list: this is why comparing the counts is enough.
CountsTell(rows) == Len(rows) <= Len(json) /\ (Len(rows) = Len(json) => rows = json)

\* The games not yet inserted are the last of the file; without a failed insert
\* the rows are the ones before them.
ReloadInv == pc = "reload" =>
    /\ todo \in Seq(STRING) /\ Len(todo) > 0 /\ Len(gameinfo) + Len(todo) <= Len(json)
    /\ \A i \in 1 .. Len(todo) : todo[i] = json[Len(json) - Len(todo) + i]
    /\ failed = 0 => Len(gameinfo) + Len(todo) = Len(json)
    /\ Len(gameinfo) + Len(todo) = Len(json) =>
           \A i \in 1 .. Len(gameinfo) : gameinfo[i] = json[i]

LoadedInv == pc \in Loading /\ failed = 0 => gameinfo = json

GamesInv ==
    /\ json \in Seq(STRING) /\ json # << >> /\ gameinfo \in Seq(STRING) /\ failed \in {0, 1}
    /\ CountsTell(gameinfo) /\ ReloadInv /\ LoadedInv

LEMMA GamesInit == Init => GamesInv
<1> SUFFICES ASSUME Init PROVE GamesInv
  OBVIOUS
<1>1. json \in Seq(STRING) /\ json # << >>
  BY StartupAssumption DEF Init
<1>2. gameinfo = << >> /\ pc = "off" /\ failed = 0
  BY DEF Init
<1> QED
  BY <1>1, <1>2 DEF GamesInv, CountsTell, ReloadInv, LoadedInv, Loading

\* Empty rows tell nothing wrong, and leave everything to be inserted.
LEMMA EmptyTells ==
    ASSUME GamesInv
    PROVE  CountsTell(<< >>) /\ Len(json) > 0 /\ Len(json) \in Nat
  BY DEF GamesInv, CountsTell

LEMMA LoadKeeps ==
    ASSUME GamesInv, "delete" \notin MayFail,
           NEW games \in {json, << >>}, LoadSupportedGames(games)
    PROVE  GamesInv'
<1>1. PICK counted \in {"ok", "error"}, deleted \in {"ok", "error"} :
         LET numTotal == IF counted = "ok" THEN Len(gameinfo) ELSE 0
             failing  == {s \in {"count", "delete"} :
                             IF s = "count" THEN counted = "error" ELSE deleted = "error"}
         IN  /\ failing \subseteq MayFail
             /\ failed' = IF failing = {} THEN failed ELSE 1
             /\ IF Mismatch(numTotal, games)
                THEN /\ gameinfo' = IF deleted = "ok" THEN << >> ELSE gameinfo
                     /\ IF games = << >> THEN Stop ELSE GotoWith("reload", games)
                ELSE UNCHANGED gameinfo /\ Loaded(games)
  BY DEF LoadSupportedGames
<1>2. deleted = "ok"
  BY <1>1
<1>3. pc = "games" /\ json' = json /\ failed' \in {0, 1} /\ (failed' = 0 => counted = "ok")
  <2>1. pc = "games" /\ json' = json
    BY DEF LoadSupportedGames
  <2>2. failed' \in {0, 1}
    BY <1>1 DEF GamesInv
  <2>3. counted = "error" => failed' = 1
    BY <1>1
  <2> QED
    BY <2>1, <2>2, <2>3
<1>4. CASE pc' = "off" /\ gameinfo' \in {<< >>, gameinfo}
  <2>1. CountsTell(gameinfo) /\ CountsTell(<< >>)
    BY EmptyTells DEF GamesInv
  <2>2. CountsTell(gameinfo)'
    BY <1>3, <1>4, <2>1 DEF CountsTell
  <2>3. gameinfo' \in Seq(STRING)
    <3>1. << >> \in Seq(STRING) /\ gameinfo \in Seq(STRING)
      BY DEF GamesInv
    <3> QED
      BY <1>4, <3>1
  <2> QED
    BY <1>3, <1>4, <2>2, <2>3 DEF GamesInv, ReloadInv, LoadedInv, Loading
<1>5. CASE pc' = "reload" /\ gameinfo' = << >> /\ todo' = json
  BY <1>3, <1>5, EmptyTells DEF GamesInv, CountsTell, ReloadInv, LoadedInv, Loading
<1>6. CASE pc' = "log" /\ gameinfo' = json
  BY <1>3, <1>6 DEF GamesInv, CountsTell, ReloadInv, LoadedInv
<1>7. CASE games = << >>
  <2>1. pc' = "off" /\ gameinfo' \in {<< >>, gameinfo}
    BY <1>1, <1>2, <1>7 DEF Stop, Loaded
  <2> QED
    BY <1>4, <2>1
<1>8. CASE games = json
  <2>1. json # << >>
    BY DEF GamesInv
  <2>2. \/ pc' = "reload" /\ gameinfo' = << >> /\ todo' = json
        \/ /\ pc' = "log" /\ gameinfo' = gameinfo
           /\ ~Mismatch(IF counted = "ok" THEN Len(gameinfo) ELSE 0, json)
    BY <1>1, <1>2, <1>8, <2>1 DEF GotoWith, Goto, Loaded
  <2>3. ~Mismatch(IF counted = "ok" THEN Len(gameinfo) ELSE 0, json) => gameinfo = json
    <3>1. CountsTell(gameinfo)
      BY DEF GamesInv
    <3>2. Len(json) # 0
      BY EmptyTells
    <3> QED
      BY <3>1, <3>2 DEF Mismatch, CountsTell
  <2> QED
    BY <1>5, <1>6, <2>2, <2>3
<1> QED
  BY <1>7, <1>8

\* An insert moves the next game of the file to the rows, or skips it for good.
LEMMA InsertGameKeeps ==
    ASSUME GamesInv, InsertGame
    PROVE  GamesInv'
<1>1. /\ pc = "reload" /\ json' = json
      /\ todo \in Seq(STRING) /\ Len(todo) > 0 /\ Len(gameinfo) + Len(todo) <= Len(json)
      /\ failed = 0 => Len(gameinfo) + Len(todo) = Len(json)
      /\ json \in Seq(STRING) /\ gameinfo \in Seq(STRING) /\ failed \in {0, 1}
  BY DEF InsertGame, GamesInv, ReloadInv
<1>2. \A i \in 1 .. Len(todo) : todo[i] = json[Len(json) - Len(todo) + i]
  BY <1>1 DEF GamesInv, ReloadInv
<1>3. Len(gameinfo) + Len(todo) = Len(json) => \A i \in 1 .. Len(gameinfo) : gameinfo[i] = json[i]
  BY <1>1 DEF GamesInv, ReloadInv
<1>4. /\ todo' = Tail(todo) /\ pc' = IF Len(todo) = 1 THEN "log" ELSE "reload"
  BY DEF InsertGame, GotoWith
<1>5. \/ gameinfo' = Append(gameinfo, Head(todo)) /\ failed' = failed
      \/ gameinfo' = gameinfo /\ failed' = 1
  BY DEF InsertGame, Run
<1>6. /\ Len(todo) \in Nat /\ Len(gameinfo) \in Nat /\ Len(json) \in Nat
      /\ Head(todo) \in STRING /\ Head(todo) = todo[1]
      /\ Tail(todo) \in Seq(STRING) /\ Len(Tail(todo)) = Len(todo) - 1
      /\ \A i \in 1 .. Len(todo) - 1 : Tail(todo)[i] = todo[i + 1]
  BY <1>1
<1>7. \A i \in 1 .. Len(todo) - 1 : todo'[i] = json[Len(json) - (Len(todo) - 1) + i]
  <2> TAKE i \in 1 .. Len(todo) - 1
  <2>1. i + 1 \in 1 .. Len(todo) /\ todo'[i] = todo[i + 1]
    BY <1>4, <1>6
  <2>2. todo[i + 1] = json[Len(json) - Len(todo) + (i + 1)]
    BY <1>2, <2>1
  <2>3. Len(json) - Len(todo) + (i + 1) = Len(json) - (Len(todo) - 1) + i
    BY <1>6
  <2> QED
    BY <2>1, <2>2, <2>3
<1>8. CASE gameinfo' = gameinfo /\ failed' = 1
  <2>1. CountsTell(gameinfo)
    BY DEF GamesInv
  <2>2. ReloadInv'
    BY <1>1, <1>4, <1>6, <1>7, <1>8 DEF ReloadInv
  <2> QED
    BY <1>1, <1>8, <2>1, <2>2 DEF GamesInv, CountsTell, LoadedInv
<1>9. CASE gameinfo' = Append(gameinfo, Head(todo)) /\ failed' = failed
  <2>1. /\ gameinfo' \in Seq(STRING) /\ Len(gameinfo') = Len(gameinfo) + 1
        /\ \A i \in 1 .. Len(gameinfo) : gameinfo'[i] = gameinfo[i]
        /\ gameinfo'[Len(gameinfo) + 1] = todo[1]
    BY <1>1, <1>6, <1>9
  <2>2. Len(gameinfo) + Len(todo) = Len(json) =>
           \A i \in 1 .. Len(gameinfo') : gameinfo'[i] = json[i]
    <3> HAVE Len(gameinfo) + Len(todo) = Len(json)
    <3>1. todo[1] = json[Len(gameinfo) + 1]
      <4>1. 1 \in 1 .. Len(todo) /\ Len(json) - Len(todo) + 1 = Len(gameinfo) + 1
        BY <1>1, <1>6
      <4> QED
        BY <1>2, <4>1
    <3>2. \A i \in 1 .. Len(gameinfo') : i \in 1 .. Len(gameinfo) \/ i = Len(gameinfo) + 1
      BY <1>6, <2>1
    <3> QED
      BY <1>3, <2>1, <3>1, <3>2
  <2>3. ReloadInv'
    <3>1. /\ Len(todo') = Len(todo) - 1 /\ todo' \in Seq(STRING)
          /\ Len(gameinfo') + Len(todo') = Len(gameinfo) + Len(todo)
      BY <1>4, <1>6, <2>1
    <3>2. pc' = "reload" => Len(todo') > 0
      BY <1>1, <1>4, <1>6, <3>1
    <3> QED
      BY <1>1, <1>7, <1>9, <2>2, <3>1, <3>2 DEF ReloadInv
  <2>4. Len(gameinfo') = Len(json) => gameinfo' = json
    <3> HAVE Len(gameinfo') = Len(json)
    <3>1. Len(gameinfo) + Len(todo) = Len(json)
      BY <1>1, <1>6, <2>1
    <3>2. \A i \in 1 .. Len(gameinfo') : gameinfo'[i] = json[i]
      BY <2>2, <3>1
    <3> QED
      BY <1>1, <2>1, <3>2, SeqEqual
  <2>5. CountsTell(gameinfo)'
    BY <1>1, <1>6, <2>1, <2>4 DEF CountsTell
  <2>6. LoadedInv'
    <3>1. pc' \in Loading => Len(todo) = 1
      BY <1>4 DEF Loading
    <3> QED
      BY <1>1, <1>6, <1>9, <2>1, <2>4, <3>1 DEF LoadedInv
  <2> QED
    BY <1>1, <1>9, <2>1, <2>3, <2>5, <2>6 DEF GamesInv
<1> QED
  BY <1>5, <1>8, <1>9

\* The other steps leave gameinfo alone, and reach Loading only from there.
LEMMA GamesOthersKeep ==
    ASSUME GamesInv, UNCHANGED <<json, gameinfo>>, failed' \in {0, 1}, pc' # "reload",
           pc' \in Loading => pc \in Loading /\ failed' = failed
    PROVE  GamesInv'
  BY DEF GamesInv, CountsTell, ReloadInv, LoadedInv

LEMMA GamesStutter ==
    ASSUME GamesInv, UNCHANGED <<json, gameinfo, pc, todo, failed>>
    PROVE  GamesInv'
  BY DEF GamesInv, CountsTell, ReloadInv, LoadedInv

LEMMA GamesNext ==
    ASSUME GamesInv, "delete" \notin MayFail, [Next]_vars
    PROVE  GamesInv'
<1>0. failed \in {0, 1}
  BY DEF GamesInv
<1>1. CASE Crash \/ Start \/ LoadSettings \/ GamesMissing
  <2>1. /\ UNCHANGED <<json, gameinfo>> /\ pc' \in {"off", "settings", "database"}
        /\ failed' \in {failed, 0}
    BY <1>1 DEF Crash, Start, LoadSettings, GamesMissing, Stop, Goto, GotoWith, disk, history
  <2> QED
    BY <1>0, <2>1, GamesOthersKeep DEF Loading
<1>2. CASE RefuseDatabase \/ VersionUnread \/ AcceptDatabase
  <2>1. /\ UNCHANGED <<json, gameinfo>> /\ pc' \in {"off", "games"} /\ failed' \in {failed, 1}
    BY <1>2 DEF RefuseDatabase, VersionUnread, AcceptDatabase, Stop, Goto, GotoWith, Run, disk
  <2> QED
    BY <1>0, <2>1, GamesOthersKeep DEF Loading
<1>3. CASE AskForTables \/ CreateTable \/ InsertVersion
  <2>1. /\ UNCHANGED <<json, gameinfo>> /\ pc' \in {"off", "create", "version", "games"}
        /\ failed' \in {failed, 1}
    BY <1>3 DEF AskForTables, CreateTable, AfterCreate, InsertVersion, Stop, Goto, GotoWith, Run, disk
  <2> QED
    BY <1>0, <2>1, GamesOthersKeep DEF Loading
<1>4. CASE \E games \in {json, << >>} : LoadSupportedGames(games)
  BY <1>4, LoadKeeps
<1>5. CASE InsertGame
  BY <1>5, InsertGameKeeps
<1>6. CASE InitLog \/ UdpListen \/ TcpListen \/ StartServices
  <2>1. /\ UNCHANGED <<json, gameinfo, failed>> /\ pc \in Loading /\ pc' \in Loading \cup {"off"}
    BY <1>6 DEF InitLog, UdpListen, TcpListen, StartServices, Stop, disk, history, Loading
  <2> QED
    BY <1>0, <2>1, GamesOthersKeep DEF Loading
<1>7. CASE Midnight \/ LogEvent \/ (\E file \in Files : Configure(file)) \/ UNCHANGED vars
  BY <1>7, GamesStutter DEF Midnight, LogEvent, Configure, vars, disk, process, history
<1> QED
  BY <1>1, <1>2, <1>3, <1>4, <1>5, <1>6, <1>7 DEF Next

\* gameinfo is the file's list after every start without an error, whatever failed
\* or was cut short before, provided that the DELETE never fails.
THEOREM GamesCompleteHolds ==
    ASSUME "delete" \notin MayFail
    PROVE  Spec => []GamesComplete
<1>1. GamesInv /\ [Next]_vars => GamesInv'
  BY GamesNext
<1>2. GamesInv => GamesComplete
  BY DEF GamesInv, LoadedInv, Loading, GamesComplete
<1> QED
  BY <1>1, <1>2, GamesInit, PTL DEF Spec
-----------------------------------------------------------------------------
(* The log.                                                                *)

Logging == {"udp", "tcp", "services", "running"}

\* While the program logs, its file is the one of the last name, or that name is the
\* one whose open failed last.
LogInv ==
    /\ today \in Day
    /\ IF pc \in Logging
       THEN /\ log.name # NoFile
            /\ log.file = log.name \/ (log.file = NoFile /\ written.unopened = log.name)
       ELSE log = ClosedLog

LEMMA LogNameIsName == ASSUME NEW cycle, NEW day \in Day PROVE LogName(cycle, day) # NoFile
<1>1. Year[day] # -1
  BY LoggerAssumption
<1> QED
  BY <1>1 DEF LogName, NoFile

\* One message, in whatever slot it is written.
LEMMA WriteKeeps ==
    ASSUME LogInv, pc \in Logging, NEW s, NEW opened \in BOOLEAN, Write(s, opened)
    PROVE  LET name == LogName(s.cycle, today)
           IN  /\ log'.name = name /\ name # NoFile
               /\ log'.file = name \/ (log'.file = NoFile /\ written'.unopened = name)
               /\ written'.file = log'.file
<1> DEFINE name == LogName(s.cycle, today)
           l == CycleLogFile(log, name, opened)
<1>1. name # NoFile
  BY LogNameIsName DEF LogInv
<1>2. /\ log' = l
      /\ written' = [file |-> l.file,
                     unopened |-> IF l # log /\ l.file = NoFile THEN name ELSE written.unopened]
  BY DEF Write
<1>3. CASE log.name = name
  <2>1. l = log
    BY <1>3 DEF CycleLogFile
  <2> QED
    BY <1>1, <1>2, <1>3, <2>1 DEF LogInv
<1>4. CASE log.name # name
  <2>1. l = [name |-> name, file |-> IF opened THEN name ELSE NoFile]
    BY <1>4 DEF CycleLogFile
  <2> HIDE DEF name, l
  <2>2. l.name = name /\ l # log /\ l.file = IF opened THEN name ELSE NoFile
    BY <1>4, <2>1
  <2>3. written'.file = l.file /\ (l.file = NoFile => written'.unopened = name)
    BY <1>2, <2>2
  <2> QED
    BY <1>1, <1>2, <2>2, <2>3 DEF name
<1> QED
  BY <1>3, <1>4

LEMMA LogStep ==
    ASSUME LogInv, [Next]_vars
    PROVE  LogInv'
<1>1. CASE Stop /\ today' = today
  BY <1>1 DEF Stop, LogInv, Logging
<1>2. CASE UNCHANGED log /\ pc \notin Logging /\ pc' \notin Logging /\ today' = today
  BY <1>2 DEF LogInv
<1>3. CASE UNCHANGED <<log, pc, written>> /\ today' \in Day
  BY <1>3 DEF LogInv
<1>4. CASE pc \in Logging /\ pc' \in Logging /\ today' = today
           /\ \E s : \E opened \in BOOLEAN : Write(s, opened)
  BY <1>4, WriteKeeps DEF LogInv
<1>5. CASE InitLog
  <2> DEFINE name == LogName(settings.cycle, today)
  <2>1. name # NoFile
    BY LogNameIsName DEF LogInv
  <2>2. CASE Stop
    BY <1>1, <1>5, <2>2 DEF InitLog
  <2>3. CASE log' = CycleLogFile(log, name, TRUE) /\ pc' = "udp"
    <3>1. log = ClosedLog
      BY <1>5 DEF InitLog, LogInv, Logging
    <3>2. log' = [name |-> name, file |-> name]
      BY <2>1, <2>3, <3>1 DEF CycleLogFile, ClosedLog
    <3> HIDE DEF name
    <3>3. log'.name = name /\ log'.file = name
      BY <3>2
    <3>4. today' = today /\ pc' \in Logging
      BY <1>5, <2>3 DEF InitLog, Logging
    <3> QED
      BY <2>1, <3>3, <3>4 DEF LogInv
  <2> QED
    BY <1>5, <2>2, <2>3 DEF InitLog
<1>6. CASE UdpListen \/ TcpListen \/ StartServices \/ LogEvent
  <2>1. Stop \/ \E s : \E opened \in BOOLEAN : Write(s, opened)
    BY <1>6 DEF UdpListen, TcpListen, StartServices, LogEvent
  <2>2. today' = today /\ pc \in Logging /\ (Stop \/ pc' \in Logging)
    BY <1>6 DEF UdpListen, TcpListen, StartServices, LogEvent, Logging
  <2> QED
    BY <1>1, <1>4, <2>1, <2>2
<1>7. CASE Midnight \/ UNCHANGED vars \/ \E file \in Files : Configure(file)
  BY <1>3, <1>7 DEF Midnight, Configure, vars, process, history, LogInv
<1>8. CASE Crash
  BY <1>1, <1>8 DEF Crash
<1>9. CASE \/ Start \/ LoadSettings \/ RefuseDatabase \/ VersionUnread \/ AcceptDatabase
           \/ AskForTables \/ CreateTable \/ InsertVersion \/ GamesMissing
           \/ \E games \in {json, << >>} : LoadSupportedGames(games)
  <2>1. today' = today
    BY <1>9 DEF Start, LoadSettings, RefuseDatabase, VersionUnread, AcceptDatabase, AskForTables,
                CreateTable, InsertVersion, GamesMissing, LoadSupportedGames
  <2>2. Stop \/ (UNCHANGED log /\ pc \notin Logging /\ pc' \notin Logging)
           \/ (pc = "games" /\ UNCHANGED log /\ pc' \in {"reload", "log"})
    BY <1>9 DEF Start, LoadSettings, RefuseDatabase, VersionUnread, AcceptDatabase, AskForTables,
                CreateTable, AfterCreate, InsertVersion, GamesMissing, LoadSupportedGames, Loaded,
                Goto, GotoWith, Logging
  <2> QED
    BY <1>1, <1>2, <2>1, <2>2 DEF Logging
<1>10. CASE InsertGame
  BY <1>2, <1>10 DEF InsertGame, GotoWith, Logging
<1> QED
  BY <1>5, <1>6, <1>7, <1>8, <1>9, <1>10 DEF Next

\* A message goes to the file of its own date, for every calendar and cycle period,
\* or to the display when that file failed to open.
THEOREM LoggedUnderItsDateHolds == Spec => LoggedUnderItsDate
<1>1. Init => LogInv
  BY LoggerAssumption DEF Init, LogInv, Logging, Day
<1>2. LogInv /\ [Next]_vars => LogInv'
  BY LogStep
<1>3. LogInv /\ [Next]_vars => [LogEvent =>
        LET name == LogName(settings.cycle, today)
        IN  IF written'.file = NoFile THEN written'.unopened = name ELSE written'.file = name]_vars
  <2> SUFFICES ASSUME LogInv, LogEvent
               PROVE  LET name == LogName(settings.cycle, today)
                      IN  IF written'.file = NoFile THEN written'.unopened = name
                          ELSE written'.file = name
    OBVIOUS
  <2>1. pc \in Logging /\ \E opened \in BOOLEAN : Write(settings, opened)
    BY DEF LogEvent, Logging
  <2> QED
    BY <2>1, WriteKeeps
<1> QED
  BY <1>1, <1>2, <1>3, PTL DEF Spec, LoggedUnderItsDate
-----------------------------------------------------------------------------
(* Types, and the settings that the services run with.                     *)

\* The places that Core::run reaches with accepted settings.
Configured == Behind \cup {"database", "create", "version"}

\* A sync server is the element of the file at its place, and complete.
AsWritten(e, file, i) ==
    /\ i \in DOMAIN file.syncServers /\ e = file.syncServers[i]
    /\ {e.beaconPort, e.listenPort} \subseteq 1 .. MaxPort
    /\ e.fields >= 3 /\ e.remoteAddress # ""

\* What the sanity checks leave of a file.
SoundSettings(s, file) ==
    /\ DOMAIN s = DOMAIN Default
    /\ {s.beaconPort, s.listenPort} \subseteq 1 .. MaxPort
    /\ DOMAIN s.syncServers = 1 .. ValueOf(file, "size")
    /\ \A i \in DOMAIN s.syncServers : AsWritten(s.syncServers[i], file, i)

LEMMA PortsAreNat == MaxPort \in Nat
  BY DEF MaxPort

LEMMA PortCasts ==
    /\ \A n \in Int : UShort(n) \in 0 .. MaxPort
    /\ \A n : ToUShort(n) \in 0 .. MaxPort
<1>1. ASSUME NEW n \in Int PROVE UShort(n) \in 0 .. MaxPort
  BY PortsAreNat DEF UShort
<1>2. ASSUME NEW n PROVE ToUShort(n) \in 0 .. MaxPort
  BY PortsAreNat DEF ToUShort
<1> QED
  BY <1>1, <1>2

\* What the proofs need to know of the defaults.
LEMMA DefaultKeys ==
    /\ IntKey \cup {"syncServers", "cycle"} \subseteq DOMAIN Default
    /\ \A key \in IntKey : Default[key] \in Int
    /\ Default.syncServers = << >>
<1>1. /\ {"beaconPort", "listenPort", "serverttl_s", "syncInterval_s", "size"} \subseteq DOMAIN Default
      /\ {"timeServerInterval_ms", "timeCheckerReset_s", "timeMaintenanceInterval_s"}
             \subseteq DOMAIN Default
      /\ {"syncServers", "cycle"} \subseteq DOMAIN Default
  BY DEF Default
<1>2. /\ Default.beaconPort \in Int /\ Default.listenPort \in Int /\ Default.serverttl_s \in Int
      /\ Default.syncInterval_s \in Int /\ Default.size \in Int
      /\ Default.timeServerInterval_ms \in Int /\ Default.timeCheckerReset_s \in Int
      /\ Default.timeMaintenanceInterval_s \in Int /\ Default.syncServers = << >>
  BY DEF Default
<1> QED
  BY <1>1, <1>2 DEF IntKey

\* A port that is read as a positive number is read as it is written.
LEMMA PositivePort ==
    ASSUME NEW n, ToUShort(n) > 0
    PROVE  ToUShort(n) = n /\ n \in 1 .. MaxPort
<1>1. CASE n \in 0 .. MaxPort
  BY <1>1, PortsAreNat DEF ToUShort
<1>2. CASE n \notin 0 .. MaxPort
  BY <1>2 DEF ToUShort
<1> QED
  BY <1>1, <1>2

\* An element that the loop takes stands in the file, and no default fills it.
LEMMA GoodElement ==
    ASSUME NEW file, Readable(file), NEW i \in DOMAIN Elements(file),
           GoodServer(Elements(file)[i])
    PROVE  AsWritten(Elements(file)[i], file, i)
<1> DEFINE texts == ValueOf(file, "syncServers")
           read == Elements(file)[i]
           e == texts[i]
<1>1. read = IF i \in DOMAIN texts
             THEN [e EXCEPT !.beaconPort = ToUShort(@), !.listenPort = ToUShort(@)]
             ELSE NoServer
  BY DEF Elements
<1>2. read.fields >= 3 /\ read.remoteAddress # "" /\ read.beaconPort > 0 /\ read.listenPort > 0
  BY DEF GoodServer
<1> HIDE DEF texts, read, e
<1>3. i \in DOMAIN texts
  <2>1. ~(NoServer.fields >= 3)
    BY DEF NoServer
  <2> QED
    BY <1>1, <1>2, <2>1
<1>4. "syncServers" \in DOMAIN file /\ texts = file.syncServers
  <2>1. CASE "syncServers" \in DOMAIN file
    BY <2>1, Zenon DEF ValueOf, texts
  <2>2. CASE "syncServers" \notin DOMAIN file
    <3>1. texts = Default.syncServers
      BY <2>2, Zenon DEF ValueOf, texts
    <3>2. DOMAIN texts = {}
      BY <3>1, DefaultKeys
    <3> QED
      BY <1>3, <3>2
  <2> QED
    BY <2>1, <2>2
<1>5. IsElement(e)
  BY <1>3, <1>4, Zenon DEF Readable, e
<1>6. e = [fields |-> e.fields, remoteAddress |-> e.remoteAddress,
           beaconPort |-> e.beaconPort, listenPort |-> e.listenPort]
  BY <1>5 DEF IsElement
<1>7. read = [fields |-> e.fields, remoteAddress |-> e.remoteAddress,
              beaconPort |-> ToUShort(e.beaconPort), listenPort |-> ToUShort(e.listenPort)]
  <2>1. read = [e EXCEPT !.beaconPort = ToUShort(@), !.listenPort = ToUShort(@)]
    BY <1>1, <1>3
  <2> QED
    BY <1>6, <2>1
<1>8. /\ read.beaconPort = ToUShort(e.beaconPort) /\ read.listenPort = ToUShort(e.listenPort)
  BY <1>7
<1>9. /\ ToUShort(e.beaconPort) = e.beaconPort /\ e.beaconPort \in 1 .. MaxPort
      /\ ToUShort(e.listenPort) = e.listenPort /\ e.listenPort \in 1 .. MaxPort
  BY <1>2, <1>8, PositivePort
<1>10. read = e
  BY <1>6, <1>7, <1>9
<1>11. AsWritten(read, file, i)
  BY <1>2, <1>3, <1>4, <1>9, <1>10 DEF AsWritten, e
<1> QED
  BY <1>11 DEF read

\* A list that is read without an error is the whole list of the file.
LEMMA ParsedWhole ==
    ASSUME NEW file, Readable(file), ~SyncServers(file).parseError
    PROVE  /\ DOMAIN SyncServers(file).servers = 1 .. ValueOf(file, "size")
           /\ \A i \in DOMAIN SyncServers(file).servers :
                  AsWritten(SyncServers(file).servers[i], file, i)
<1> DEFINE elements == Elements(file)
           bad == {i \in DOMAIN elements : ~GoodServer(elements[i])}
           first == CHOOSE i \in bad : \A j \in bad : i <= j
           whole == [servers |-> elements, parseError |-> FALSE]
           part == [servers |-> SubSeq(elements, 1, first - 1), parseError |-> TRUE]
<1>1. SyncServers(file) = IF bad = {} THEN whole ELSE part
  BY DEF SyncServers, ParseServers
<1>2. part.parseError /\ whole.servers = elements
  OBVIOUS
<1>3. DOMAIN elements = 1 .. ValueOf(file, "size")
  BY DEF Elements
<1>4. bad = {} => \A i \in DOMAIN elements : AsWritten(elements[i], file, i)
  BY GoodElement
<1> HIDE DEF whole, part, elements, bad
<1> QED
  BY <1>1, <1>2, <1>3, <1>4

LEMMA ReadSound ==
    ASSUME NEW file, Readable(file), Accepted(file)
    PROVE  SoundSettings(ReadSettings(file), file)
<1> DEFINE s == ReadSettings(file)
<1>1. /\ DOMAIN s = DOMAIN Default
      /\ s.beaconPort = UShort(ValueOf(file, "beaconPort"))
      /\ s.listenPort = UShort(ValueOf(file, "listenPort"))
      /\ s.syncServers = SyncServers(file).servers
  BY DefaultKeys DEF ReadSettings, IntKey
<1>2. \A key \in {"beaconPort", "listenPort"} : ValueOf(file, key) \in Int
  <2>1. ASSUME NEW key \in {"beaconPort", "listenPort"}, key \in DOMAIN file
        PROVE  ValueOf(file, key) \in Int
    BY <2>1 DEF Readable, IntKey, ValueOf
  <2>2. ASSUME NEW key \in {"beaconPort", "listenPort"}, key \notin DOMAIN file
        PROVE  ValueOf(file, key) \in Int
    BY <2>2, DefaultKeys DEF ValueOf, IntKey
  <2> QED
    BY <2>1, <2>2
<1> HIDE DEF s
<1>3. s.beaconPort > 0 /\ s.listenPort > 0 /\ ~SyncServers(file).parseError
  BY DEF Accepted, s
<1>4. {s.beaconPort, s.listenPort} \subseteq 1 .. MaxPort
  BY <1>1, <1>2, <1>3, PortCasts, PortsAreNat
<1>5. /\ DOMAIN s.syncServers = 1 .. ValueOf(file, "size")
      /\ \A i \in DOMAIN s.syncServers : AsWritten(s.syncServers[i], file, i)
  BY <1>1, <1>3, ParsedWhole
<1> QED
  BY <1>1, <1>4, <1>5 DEF SoundSettings, s

DiskTypes ==
    /\ settingsFile = NoSettings \/ Readable(settingsFile)
    /\ json \in Games /\ version \in Nat /\ gameinfo \in Seq(STRING)

TodoTypes ==
    /\ todo \in IF pc = "create" THEN Seq(TableName) ELSE Seq(STRING)
    /\ pc = "reload" => todo # << >>

ProcessTypes ==
    /\ {failed, usable, refused} \subseteq {0, 1}
    /\ pc \in Place /\ log \in Logger /\ services \subseteq Service
    /\ listening \subseteq {"udp", "tcp"} /\ today \in Day /\ faults \in 0 .. MaxFaults

SettingsTypes ==
    /\ DOMAIN settings \subseteq DOMAIN Default
    /\ pc \in Configured => SoundSettings(settings, settingsFile)

StartupTypes == DiskTypes /\ TodoTypes /\ ProcessTypes /\ SettingsTypes

LEMMA WrittenReadable == Readable(WrittenSettings)
<1> DEFINE servers == <<DefaultServer>>
<1>1. \A key \in DOMAIN Default :
          WrittenSettings[key] = IF key = "size" THEN 1 ELSE IF key = "syncServers" THEN servers
                                 ELSE Default[key]
  BY DEF WrittenSettings
<1>2. \A key \in IntKey : WrittenSettings[key] \in Int
  <2> TAKE key \in IntKey
  <2>1. key \in DOMAIN Default /\ Default[key] \in Int /\ key # "syncServers"
    BY DefaultKeys DEF IntKey
  <2>2. WrittenSettings[key] = IF key = "size" THEN 1 ELSE Default[key]
    BY <1>1, <2>1, Zenon
  <2> QED
    BY <2>1, <2>2
<1>3. WrittenSettings.syncServers = servers
  BY <1>1, DefaultKeys
<1>4. DOMAIN servers = {1} /\ servers[1] = DefaultServer
  OBVIOUS
<1>5. IsElement(DefaultServer)
  BY DEF DefaultServer, IsElement
<1> HIDE DEF servers
<1> QED
  BY <1>2, <1>3, <1>4, <1>5 DEF Readable

LEMMA NoSettingsKeys == DOMAIN NoSettings \subseteq DOMAIN Default
<1>1. DOMAIN NoSettings = {"cycle"}
  BY DEF NoSettings
<1> QED
  BY <1>1, DefaultKeys

LEMMA DiskStep ==
    ASSUME DiskTypes, TodoTypes, [Next]_vars
    PROVE  DiskTypes'
<1>1. CASE LoadSettings
  <2>1. settingsFile' \in {settingsFile, WrittenSettings, NoSettings}
    BY <1>1 DEF LoadSettings
  <2>2. UNCHANGED <<json, version, gameinfo>>
    BY <1>1 DEF LoadSettings
  <2> QED
    BY <2>1, <2>2, WrittenReadable DEF DiskTypes
<1>2. CASE \E file \in Files : Configure(file)
  BY <1>2, StartupAssumption DEF Configure, DiskTypes
<1>3. CASE InsertVersion
  <2>1. version' \in {version, BUILD_VERSION} /\ UNCHANGED <<settingsFile, json, gameinfo>>
    BY <1>3 DEF InsertVersion, Stored
  <2> QED
    BY <2>1, StartupAssumption DEF DiskTypes
<1>4. CASE \E games \in {json, << >>} : LoadSupportedGames(games)
  <2>1. gameinfo' \in {<< >>, gameinfo} /\ UNCHANGED <<settingsFile, json, version>>
    BY <1>4 DEF LoadSupportedGames
  <2>2. << >> \in Seq(STRING)
    OBVIOUS
  <2> QED
    BY <2>1, <2>2 DEF DiskTypes
<1>5. CASE InsertGame
  <2>1. todo \in Seq(STRING) /\ todo # << >> /\ gameinfo \in Seq(STRING)
    BY <1>5 DEF InsertGame, TodoTypes, DiskTypes
  <2>2. gameinfo' \in {gameinfo, Append(gameinfo, Head(todo))} /\ UNCHANGED <<settingsFile, json, version>>
    BY <1>5 DEF InsertGame
  <2>3. Append(gameinfo, Head(todo)) \in Seq(STRING)
    BY <2>1
  <2> QED
    BY <2>1, <2>2, <2>3 DEF DiskTypes
<1>6. CASE UNCHANGED <<settingsFile, json, version, gameinfo>>
  BY <1>6 DEF DiskTypes
<1>7. CASE \/ Crash \/ Midnight \/ Start \/ RefuseDatabase \/ VersionUnread \/ AcceptDatabase
           \/ AskForTables \/ CreateTable
  BY <1>6, <1>7 DEF Crash, Midnight, Start, RefuseDatabase, VersionUnread, AcceptDatabase,
                    AskForTables, CreateTable, disk
<1>8. CASE \/ GamesMissing \/ InitLog \/ UdpListen \/ TcpListen \/ StartServices \/ LogEvent
           \/ UNCHANGED vars
  BY <1>6, <1>8 DEF GamesMissing, InitLog, UdpListen, TcpListen, StartServices, LogEvent, disk, vars
<1> QED
  BY <1>1, <1>2, <1>3, <1>4, <1>5, <1>7, <1>8 DEF Next

LEMMA LastOne ==
    ASSUME NEW S, NEW seq \in Seq(S), Len(seq) = 1, NEW T
    PROVE  Tail(seq) \in Seq(T)
<1>1. Tail(seq) \in Seq(S) /\ Len(Tail(seq)) = 0
  OBVIOUS
<1>2. Tail(seq) = << >>
  BY <1>1, EmptySeq
<1>3. << >> \in Seq(T)
  BY EmptySeq
<1> QED
  BY <1>2, <1>3, Zenon

\* What remains to be done is never empty where an item of it is done next.
LEMMA TodoStep ==
    ASSUME DiskTypes, TodoTypes, DatabaseInv, [Next]_vars
    PROVE  TodoTypes'
<1>1. CASE Stop
  BY <1>1 DEF Stop, TodoTypes
<1>2. CASE UNCHANGED todo /\ pc # "create" /\ pc' \notin {"create", "reload"}
  BY <1>2 DEF TodoTypes
<1>3. CASE UNCHANGED <<todo, pc>>
  BY <1>3 DEF TodoTypes
<1>4. CASE Crash \/ Midnight \/ Start \/ (\E file \in Files : Configure(file)) \/ UNCHANGED vars
  BY <1>1, <1>2, <1>3, <1>4 DEF Crash, Midnight, Start, Goto, GotoWith, Configure, process, vars
<1>5. CASE LoadSettings \/ RefuseDatabase \/ VersionUnread \/ AcceptDatabase
  BY <1>1, <1>2, <1>5 DEF LoadSettings, RefuseDatabase, VersionUnread, AcceptDatabase, Goto, GotoWith
<1>6. CASE AskForTables
  <2>1. TableOrder \in Seq(TableName)
    BY DEF TableOrder, TableName
  <2> QED
    BY <1>1, <1>6, <2>1 DEF AskForTables, GotoWith, TodoTypes
<1>7. CASE CreateTable
  <2>1. pc = "create" /\ todo \in Seq(TableName) /\ Len(todo) > 0
    BY <1>7 DEF CreateTable, DatabaseInv, CreateInv
  <2>2. Tail(todo) \in Seq(TableName) /\ Len(Tail(todo)) = Len(todo) - 1
    BY <2>1
  <2>3. CASE AfterCreate
    <3>1. todo' = Tail(todo) /\ pc' = IF Len(todo) = 1 THEN "version" ELSE "create"
      BY <2>3 DEF AfterCreate, GotoWith
    <3>2. CASE Len(todo) = 1
      <4>1. todo' \in Seq(STRING)
        BY <2>1, <3>1, <3>2, LastOne
      <4> QED
        BY <3>1, <3>2, <4>1 DEF TodoTypes
    <3> QED
      BY <2>2, <3>1, <3>2 DEF TodoTypes
  <2> QED
    BY <1>1, <1>7, <2>3 DEF CreateTable
<1>8. CASE InsertVersion \/ GamesMissing
  BY <1>1, <1>2, <1>8 DEF InsertVersion, GamesMissing, Goto, GotoWith
<1>9. CASE \E games \in {json, << >>} : LoadSupportedGames(games)
  <2>1. PICK games \in {json, << >>} : LoadSupportedGames(games)
    BY <1>9
  <2>2. pc = "games" /\ (Stop \/ Goto("log") \/ (games # << >> /\ GotoWith("reload", games)))
    BY <2>1 DEF LoadSupportedGames, Loaded
  <2>3. games \in Seq(STRING)
    <3>1. json \in Seq(STRING) /\ << >> \in Seq(STRING)
      BY StartupAssumption DEF DiskTypes
    <3> QED
      BY <2>1, <3>1
  <2> QED
    BY <1>1, <1>2, <2>2, <2>3 DEF Goto, GotoWith, TodoTypes
<1>10. CASE InsertGame
  <2>1. todo \in Seq(STRING) /\ todo # << >>
    BY <1>10 DEF InsertGame, TodoTypes
  <2>2. /\ Tail(todo) \in Seq(STRING) /\ Len(Tail(todo)) = Len(todo) - 1
        /\ Len(todo) \in Nat
    BY <2>1
  <2>3. Len(todo) # 1 => Tail(todo) # << >>
    BY <2>2
  <2>4. todo' = Tail(todo) /\ pc' = IF Len(todo) = 1 THEN "log" ELSE "reload"
    BY <1>10 DEF InsertGame, GotoWith
  <2> QED
    BY <2>2, <2>3, <2>4 DEF TodoTypes
<1>11. CASE InitLog \/ UdpListen \/ TcpListen \/ StartServices \/ LogEvent
  BY <1>1, <1>2, <1>11 DEF InitLog, UdpListen, TcpListen, StartServices, LogEvent
<1> QED
  BY <1>4, <1>5, <1>6, <1>7, <1>8, <1>9, <1>10, <1>11 DEF Next

LEMMA LogType ==
    ASSUME log \in Logger, today \in Day, NEW cycle, NEW opened \in BOOLEAN
    PROVE  CycleLogFile(log, LogName(cycle, today), opened) \in Logger
<1>1. /\ Year[today] \in Int /\ Month[today] \in Int /\ Week[today] \in Int /\ today \in Int
  BY LoggerAssumption DEF Day
<1>2. /\ <<Year[today]>> \in Seq(Int)
      /\ <<Year[today], Month[today]>> \in Seq(Int)
      /\ <<Year[today], Week[today]>> \in Seq(Int)
      /\ <<Year[today], Month[today], today>> \in Seq(Int)
      /\ << >> \in Seq(Int)
  BY <1>1
<1>3. LogName(cycle, today) \in Seq(Int) /\ NoFile \in Seq(Int)
  BY <1>2 DEF LogName, NoFile
<1> QED
  BY <1>3 DEF CycleLogFile, Logger

LEMMA ProcessStep ==
    ASSUME ProcessTypes, DatabaseInv, DatabaseInv', [Next]_vars
    PROVE  ProcessTypes'
<1>1. {failed, usable, refused}' \subseteq {0, 1}
  BY DEF DatabaseInv
<1>2. MaxFaults \in Nat /\ ClosedLog \in Logger
  BY StartupAssumption DEF ClosedLog, Logger, NoFile
<1>3. CASE /\ pc' \in Place /\ log' \in Logger /\ services' \subseteq Service
           /\ listening' \subseteq {"udp", "tcp"} /\ today' \in Day /\ faults' \in 0 .. MaxFaults
  BY <1>1, <1>3 DEF ProcessTypes
<1>4. CASE Stop /\ today' = today /\ faults' \in 0 .. MaxFaults
  BY <1>2, <1>3, <1>4 DEF Stop, ProcessTypes, Place
<1>5. CASE /\ pc' \in Place /\ UNCHANGED <<log, services, listening, today>>
           /\ faults' \in 0 .. MaxFaults
  BY <1>3, <1>5 DEF ProcessTypes
<1>6. faults \in 0 .. MaxFaults
  BY DEF ProcessTypes
<1>7. ASSUME NEW s, NEW r, Run(s, r) PROVE faults' \in 0 .. MaxFaults
  <2>1. r = "error" => faults < MaxFaults
    BY <1>7 DEF Run
  <2>2. faults' = IF r = "error" THEN faults + 1 ELSE faults
    BY <1>7 DEF Run
  <2> QED
    BY <1>2, <1>6, <2>1, <2>2
<1>8. CASE Crash \/ Start \/ LoadSettings \/ (\E file \in Files : Configure(file)) \/ UNCHANGED vars
  <2>1. UNCHANGED <<today, faults>>
    BY <1>8 DEF Crash, Start, LoadSettings, Configure, vars
  <2>2. \/ Stop
        \/ pc' \in {"settings", "database", pc} /\ UNCHANGED <<log, services, listening>>
    BY <1>8 DEF Crash, Start, LoadSettings, Configure, vars, process, Goto, GotoWith
  <2> QED
    BY <1>4, <1>5, <1>6, <2>1, <2>2 DEF ProcessTypes, Place
<1>9. CASE Midnight
  BY <1>3, <1>6, <1>9 DEF Midnight, process, ProcessTypes
<1>10. CASE RefuseDatabase \/ VersionUnread \/ AcceptDatabase
  <2>1. today' = today /\ faults' \in 0 .. MaxFaults
    BY <1>6, <1>7, <1>10 DEF RefuseDatabase, VersionUnread, AcceptDatabase
  <2>2. Stop \/ Goto("games")
    BY <1>10 DEF RefuseDatabase, VersionUnread, AcceptDatabase
  <2> QED
    BY <1>4, <1>5, <2>1, <2>2 DEF Goto, GotoWith, Place
<1>11. CASE AskForTables
  <2>1. UNCHANGED <<today, faults>> /\ (Stop \/ GotoWith("create", TableOrder))
    BY <1>11 DEF AskForTables
  <2> QED
    BY <1>4, <1>5, <1>6, <2>1 DEF GotoWith, Place
<1>12. CASE CreateTable \/ InsertVersion \/ InsertGame
  <2>1. today' = today /\ \E s, r : Run(s, r)
    BY <1>12 DEF CreateTable, InsertVersion, InsertGame
  <2>2. \/ Stop
        \/ /\ pc' \in {"version", "create", "games", "log", "reload"}
           /\ UNCHANGED <<log, services, listening>>
    BY <1>12 DEF CreateTable, AfterCreate, InsertVersion, InsertGame, Goto, GotoWith
  <2> QED
    BY <1>4, <1>5, <1>7, <2>1, <2>2 DEF Place
<1>13. CASE GamesMissing
  BY <1>4, <1>6, <1>13 DEF GamesMissing
<1>14. CASE \E games \in {json, << >>} : LoadSupportedGames(games)
  <2>1. PICK games : LoadSupportedGames(games)
    BY <1>14
  <2>2. PICK failing \in SUBSET {"count", "delete"} :
           /\ faults + Cardinality(failing) <= MaxFaults
           /\ faults' = faults + Cardinality(failing)
    BY <2>1 DEF LoadSupportedGames
  <2>3. Cardinality(failing) \in Nat
    <3>1. IsFiniteSet({"count", "delete"})
      <4>1. IsFiniteSet({"count"}) /\ {"count", "delete"} = {"count"} \cup {"delete"}
        BY FS_Singleton
      <4> QED
        BY <4>1, FS_AddElement
    <3> QED
      BY <3>1, FS_Subset, FS_CardinalityType
  <2>4. faults' \in 0 .. MaxFaults
    BY <1>2, <1>6, <2>2, <2>3
  <2>5. today' = today /\ (Stop \/ Goto("log") \/ GotoWith("reload", games))
    BY <2>1 DEF LoadSupportedGames, Loaded
  <2> QED
    BY <1>4, <1>5, <2>4, <2>5 DEF Goto, GotoWith, Place
<1>15. ASSUME NEW s, NEW opened \in BOOLEAN, Write(s, opened) PROVE log' \in Logger
  BY <1>15, LogType DEF Write, ProcessTypes
<1>16. CASE InitLog
  <2>1. CASE /\ log' = CycleLogFile(log, LogName(settings.cycle, today), TRUE)
             /\ pc' = "udp" /\ UNCHANGED <<services, listening>>
    <3>1. log' \in Logger
      BY <2>1, LogType DEF ProcessTypes
    <3> QED
      BY <1>3, <1>6, <1>16, <2>1, <3>1 DEF InitLog, ProcessTypes, Place
  <2> QED
    BY <1>4, <1>6, <1>16, <2>1 DEF InitLog
<1>17. CASE UdpListen \/ TcpListen \/ StartServices \/ LogEvent
  <2>1. /\ UNCHANGED <<today, faults>>
        /\ Stop \/ \E s : \E opened \in BOOLEAN : Write(s, opened)
    BY <1>17 DEF UdpListen, TcpListen, StartServices, LogEvent
  <2>2. \/ Stop
        \/ /\ pc' \in {"tcp", "services", "running", pc}
           /\ services' \in {services, Enabled}
           /\ listening' \in {listening, listening \cup {"udp"}, listening \cup {"tcp"}}
    BY <1>17 DEF UdpListen, TcpListen, StartServices, LogEvent
  <2>3. Enabled \subseteq Service
    BY DEF Enabled
  <2> QED
    BY <1>3, <1>4, <1>6, <1>15, <2>1, <2>2, <2>3 DEF ProcessTypes, Place
<1> QED
  BY <1>8, <1>9, <1>10, <1>11, <1>12, <1>13, <1>14, <1>16, <1>17 DEF Next

\* The settings are replaced only by accepted ones, and forgotten only in a stop.
LEMMA SettingsStep ==
    ASSUME DiskTypes, SettingsTypes, [Next]_vars
    PROVE  SettingsTypes'
<1>1. CASE Stop
  BY <1>1, NoSettingsKeys DEF Stop, SettingsTypes, Configured, Behind
<1>2. CASE /\ UNCHANGED settings
           /\ pc' \in Configured => pc \in Configured /\ UNCHANGED settingsFile
  BY <1>2 DEF SettingsTypes
<1>3. CASE LoadSettings
  <2>1. CASE /\ settingsFile # NoSettings /\ Accepted(settingsFile)
             /\ settings' = ReadSettings(settingsFile) /\ UNCHANGED settingsFile
    <3>1. Readable(settingsFile)
      BY <2>1 DEF DiskTypes
    <3>2. SoundSettings(ReadSettings(settingsFile), settingsFile)
      BY <2>1, <3>1, ReadSound
    <3> QED
      BY <2>1, <3>2 DEF SettingsTypes, SoundSettings
  <2>2. \/ Stop
        \/ /\ settingsFile # NoSettings /\ Accepted(settingsFile)
           /\ settings' = ReadSettings(settingsFile) /\ UNCHANGED settingsFile
    BY <1>3 DEF LoadSettings
  <2> QED
    BY <1>1, <2>1, <2>2
<1>4. CASE Crash \/ Midnight \/ Start \/ (\E file \in Files : Configure(file)) \/ UNCHANGED vars
  <2>1. CASE Crash
    BY <1>1, <2>1 DEF Crash
  <2>2. CASE Midnight \/ Start \/ (\E file \in Files : Configure(file)) \/ UNCHANGED vars
    <3>1. /\ UNCHANGED settings
          /\ \/ UNCHANGED <<pc, settingsFile>>
             \/ pc' \in {"off", "settings"}
      BY <2>2 DEF Midnight, Start, Goto, GotoWith, Configure, process, disk, vars
    <3> QED
      BY <1>2, <3>1 DEF Configured, Behind
  <2> QED
    BY <1>4, <2>1, <2>2
<1>5. CASE RefuseDatabase \/ VersionUnread \/ AcceptDatabase \/ AskForTables \/ CreateTable
           \/ InsertVersion
  <2>1. \/ Stop
        \/ UNCHANGED <<settings, settingsFile>> /\ pc \in {"database", "create", "version"}
    BY <1>5 DEF RefuseDatabase, VersionUnread, AcceptDatabase, AskForTables, CreateTable,
                AfterCreate, InsertVersion, Goto, GotoWith, disk
  <2> QED
    BY <1>1, <1>2, <2>1 DEF Configured
<1>6. CASE GamesMissing \/ InsertGame \/ \E games \in {json, << >>} : LoadSupportedGames(games)
  <2>1. \/ Stop
        \/ UNCHANGED <<settings, settingsFile>> /\ pc \in {"games", "reload"}
    BY <1>6 DEF GamesMissing, InsertGame, LoadSupportedGames, Loaded, Goto, GotoWith, disk
  <2> QED
    BY <1>1, <1>2, <2>1 DEF Configured, Behind
<1>7. CASE InitLog \/ UdpListen \/ TcpListen \/ StartServices \/ LogEvent
  <2>1. \/ Stop
        \/ UNCHANGED <<settings, settingsFile>> /\ pc \in {"log", "udp", "tcp", "services", "running"}
    BY <1>7 DEF InitLog, UdpListen, TcpListen, StartServices, LogEvent, disk
  <2> QED
    BY <1>1, <1>2, <2>1 DEF Configured, Behind
<1> QED
  BY <1>3, <1>4, <1>5, <1>6, <1>7 DEF Next

LEMMA StartupTypesInvariant == Spec => []StartupTypes
<1>1. Init => StartupTypes
  <2> SUFFICES ASSUME Init PROVE StartupTypes
    OBVIOUS
  <2>1. DiskTypes /\ TodoTypes
    BY StartupAssumption DEF Init, DiskTypes, TodoTypes
  <2>2. ProcessTypes
    BY StartupAssumption, LoggerAssumption
       DEF Init, ProcessTypes, Place, Logger, ClosedLog, NoFile, Day
  <2>3. SettingsTypes
    BY NoSettingsKeys DEF Init, SettingsTypes, Configured, Behind
  <2> QED
    BY <2>1, <2>2, <2>3 DEF StartupTypes
<1>2. StartupTypes /\ DatabaseInv /\ DatabaseInv' /\ [Next]_vars => StartupTypes'
  BY DiskStep, TodoStep, ProcessStep, SettingsStep DEF StartupTypes
<1> QED
  BY <1>1, <1>2, DatabaseInvariant, PTL DEF Spec

\* Every variable keeps its type, wherever the program is stopped and whatever fails.
THEOREM StartupTypeCorrect == Spec => []TypeOK
<1>1. StartupTypes /\ DatabaseInv => TypeOK
  <2> SUFFICES ASSUME StartupTypes, DatabaseInv PROVE TypeOK
    OBVIOUS
  <2>1. tables \in Seq(TableName)
    BY DEF DatabaseInv, TablesInv
  <2>2. pc = "running" => {settings.beaconPort, settings.listenPort} \subseteq 0 .. MaxPort
    BY DEF StartupTypes, SettingsTypes, SoundSettings, Configured, Behind
  <2> QED
    BY <2>1, <2>2 DEF StartupTypes, DiskTypes, TodoTypes, ProcessTypes, SettingsTypes, TypeOK
<1> QED
  BY <1>1, StartupTypesInvariant, DatabaseInvariant, PTL

\* The services run on real ports and ask the sync servers of the file, each as it is
\* written, whatever the operator wrote in it.
THEOREM SettingsSoundHolds == Spec => []SettingsSound
<1>1. StartupTypes => SettingsSound
  BY DEF StartupTypes, SettingsTypes, SoundSettings, AsWritten, Configured,
     Behind, SettingsSound
<1> QED
  BY <1>1, StartupTypesInvariant, PTL
=============================================================================
