----------------------------- MODULE Maintenance -----------------------------
(***************************************************************************)
(* The maintenance task: every Interval it recounts the servers per game   *)
(* and prunes beacons, server details and players.  It shares the tables   *)
(* with the heartbeat receiver and the status checker, whose statements    *)
(* are the actions Announced and Checked; only the columns that maintenance *)
(* reads are kept for serverinfo and playerinfo.                           *)
(***************************************************************************)
EXTENDS ServerList, FiniteSets

CONSTANTS GameInfo,      \* games with a row in gameinfo (SupportedGames.json)
          Interval,      \* MaintainRate_s
          Ttl,           \* serverttl_s
          BeaconAge,     \* 600 s in pruneBeacons
          PlayerAge,     \* 7200 s in prunePlayers
          SqlMayFail,    \* may a statement report an error (database busy)?
          MaxTime

ASSUME MaintenanceAssumption ==
    /\ GameInfo \subseteq GameName
    /\ Interval \in Nat \ {0} /\ Ttl \in Nat /\ BeaconAge \in Nat /\ PlayerAge \in Nat
    /\ SqlMayFail \in BOOLEAN

VARIABLES now, nextMaintenance,  \* the clock and the deadline of _maintenanceTimer
          serverlist, serverinfo, playerinfo,
          gameinfo,              \* num_total and num_direct per game
          missed,                \* history: which Ageing steps failed in the last round
          replied                \* history: per address, its last reply since it was outdated

vars == <<now, nextMaintenance, serverlist, serverinfo, playerinfo, gameinfo,
          missed, replied>>

history == <<missed, replied>>

PruneStep == {"beacons", "serverinfo", "players"}
Ageing == {"beacons", "players"}       \* those that go by the age of a row

\* When the last reply came, and whether it named players.
Reply == [time : Nat, players : BOOLEAN]
NoReply == <<>>

Count == [num_total : Nat, num_direct : Nat]

TypeOK ==
    /\ now \in Nat /\ nextMaintenance \in Nat
    /\ serverlist \in Table
    /\ serverinfo \subseteq [sid : Nat, dt_serverinfo : Nat]
    /\ playerinfo \subseteq [sid : Nat, dt_player : Nat]
    /\ gameinfo \in [GameInfo -> Count] /\ missed \subseteq Ageing
    /\ replied \in [Address -> Reply \cup {NoReply}]

Init ==
    /\ now = 0 /\ nextMaintenance = Interval
    /\ serverlist = << >> /\ serverinfo = {} /\ playerinfo = {}
    /\ gameinfo = [g \in GameInfo |-> [num_total |-> 0, num_direct |-> 0]]
    /\ missed = {} /\ replied = [a \in Address |-> NoReply]

Tick ==
    /\ now < MaxTime /\ now < nextMaintenance
    /\ now' = now + 1
    /\ UNCHANGED <<nextMaintenance, serverlist, serverinfo, playerinfo, gameinfo, history>>

\* Outdated otherwise; the lists and the counts leave such a row out.
Alive(row) == row.dt_updated > now - Ttl

\* A heartbeat, which names a supported game: the table statements of processHeartbeatGamespy0.
Announced(a, g) ==
    /\ serverlist' = UpsertServer(serverlist, a, g, 1, now, "ok", "ok")
    /\ replied' = IF \E id \in RowsOf(serverlist, a) : Alive(serverlist[id]) THEN replied
                  ELSE [replied EXCEPT ![a] = NoReply]
    /\ UNCHANGED <<now, nextMaintenance, serverinfo, playerinfo, gameinfo, missed>>

\* A complete status reply, with players: the table statements of onUdpResponseRead.
Checked(a, g, hasPlayers) ==
    /\ serverlist' = UpsertServer(serverlist, a, g, 0, now, "ok", "ok")
    /\ LET ids == RowsOf(serverlist', a)
       IN  /\ serverinfo' = {r \in serverinfo : r.sid \notin ids}
                            \cup [sid : ids, dt_serverinfo : {now}]
           /\ playerinfo' = {r \in playerinfo : r.sid \notin ids}
                            \cup (IF hasPlayers THEN [sid : ids, dt_player : {now}] ELSE {})
    /\ replied' = [replied EXCEPT ![a] = [time |-> now, players |-> hasPlayers]]
    /\ UNCHANGED <<now, nextMaintenance, gameinfo, missed>>
-----------------------------------------------------------------------------
(* The four steps of onMaintenanceTimerAction, in their order.             *)
Servers(g) == {id \in DOMAIN serverlist : serverlist[id].gamename = g /\ Alive(serverlist[id])}

Direct(g) == {id \in Servers(g) : serverlist[id].f_direct = 1}

Counted(g) == [num_total |-> Cardinality(Servers(g)), num_direct |-> Cardinality(Direct(g))]

\* Faulty variant: a game without a row in gameinfo gets one.
UpsertStats(names) ==
    gameinfo' = [g \in GameInfo \cup names |-> IF g \in names THEN Counted(g) ELSE gameinfo[g]]

\* updateStats: one UPDATE for each of the names in the table, until one fails.
UpdateStats(names) ==
    gameinfo' = [g \in GameInfo |-> IF g \in names THEN Counted(g) ELSE gameinfo[g]]

\* Faulty variant: only beacons that became too old since the last round.
StaleSinceLast(row) == row.f_direct = 1 /\ row.dt_beacon < now - BeaconAge
    /\ row.dt_beacon >= now - BeaconAge - Interval

StaleBeacon(row) == row.f_direct = 1 /\ row.dt_beacon < now - BeaconAge

PruneBeacons ==
    serverlist' = [id \in DOMAIN serverlist |->
        IF StaleBeacon(serverlist[id]) THEN [serverlist[id] EXCEPT !.f_direct = 0]
        ELSE serverlist[id]]

\* Faulty variant: details go by their own age, as players do.
PruneAgedInfo == serverinfo' =
    {r \in serverinfo : r.sid \in DOMAIN serverlist /\ r.dt_serverinfo >= now - Ttl}

\* Details of servers without a row in the server list.
PruneServerInfo == serverinfo' = {r \in serverinfo : r.sid \in DOMAIN serverlist}

\* Faulty variant: only players that are both orphaned and too old go.
PruneOldOrphans ==
    playerinfo' = {r \in playerinfo :
        \/ \E i \in serverinfo' : i.sid = r.sid
        \/ r.dt_player >= now - PlayerAge}

\* Runs after PruneServerInfo: players without details, and players too old.
PrunePlayers ==
    playerinfo' = {r \in playerinfo :
        /\ \E i \in serverinfo' : i.sid = r.sid
        /\ r.dt_player >= now - PlayerAge}

\* A step that reports an error leaves its table alone; the others still run.
OnMaintenanceTimerAction ==
    /\ now = nextMaintenance
    /\ nextMaintenance' = now + Interval
    /\ \E names \in IF SqlMayFail THEN SUBSET GameNames(serverlist)
                    ELSE {GameNames(serverlist)} : UpdateStats(names)
    /\ \E failing \in IF SqlMayFail THEN SUBSET PruneStep ELSE {{}} :
           /\ missed' = failing \cap Ageing
           /\ IF "beacons" \in failing THEN UNCHANGED serverlist ELSE PruneBeacons
           /\ IF "serverinfo" \in failing THEN UNCHANGED serverinfo ELSE PruneServerInfo
           /\ IF "players" \in failing THEN UNCHANGED playerinfo ELSE PrunePlayers
    /\ UNCHANGED <<now, replied>>
-----------------------------------------------------------------------------
Next ==
    \/ Tick
    \/ \E a \in Address, g \in GameInfo : Announced(a, g)
    \/ \E a \in Address, g \in GameName, p \in BOOLEAN : Checked(a, g, p)
    \/ OnMaintenanceTimerAction

Spec == Init /\ [][Next]_vars
-----------------------------------------------------------------------------
(* What must hold.                                                         *)

\* A server that stopped sending heartbeats is no longer counted as a direct uplink one
\* maintenance interval after its last beacon is too old (README), although checks keep
\* it listed; a round in which this statement fails only puts it off, as the next one
\* that succeeds makes up for any number of failed ones.
DirectIsRecent == "beacons" \notin missed => \A id \in DOMAIN serverlist :
    serverlist[id].f_direct = 1 => serverlist[id].dt_beacon + BeaconAge + Interval >= now

\* Players are kept no longer than PlayerAge and one interval, and only for servers that
\* have details: the two tables are pruned by separate statements.  Here too a failed
\* round is made up for by the next one that succeeds.
PlayersRecent == "players" \notin missed => \A r \in playerinfo :
    /\ r.dt_player + PlayerAge + Interval >= now
    /\ \E i \in serverinfo : i.sid = r.sid

\* A server that has been up to date since its last reply has the details and, while
\* they are fresh, the players of that reply: neither rounds nor the statements that
\* fail in them take what belongs to a listed server, also when only heartbeats keep
\* it alive.  Of the details of an outdated server nothing is said.
KeepsCurrentData == \A a \in Address : \A id \in RowsOf(serverlist, a) :
    Alive(serverlist[id]) /\ replied[a] # NoReply =>
        /\ [sid |-> id, dt_serverinfo |-> replied[a].time] \in serverinfo
        /\ replied[a].players /\ replied[a].time >= now - PlayerAge =>
               [sid |-> id, dt_player |-> replied[a].time] \in playerinfo

\* "server info entries for servers that are no longer in the server list (outdated or
\* otherwise) are removed from the database" (README), one interval later at most.
DetailsRecent == \A r \in serverinfo :
    /\ r.sid \in DOMAIN serverlist
    /\ serverlist[r.sid].dt_updated + Ttl + Interval >= now
=============================================================================
