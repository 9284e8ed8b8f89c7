-------------------------- MODULE MaintenanceProofs --------------------------
(* What the maintenance rounds guarantee between them, for any ages and any *)
(* interval.                                                                *)
EXTENDS Maintenance, SharedProofs, FiniteSetTheorems

\* A row of the upserted table counts as direct on a beacon of now or on its old one.
LEMMA UpsertDirect ==
    ASSUME NEW t \in Table, NEW a \in Address, NEW g \in GameName,
           NEW direct \in Bit, NEW time \in Nat
    PROVE  LET u == UpsertServer(t, a, g, direct, time, "ok", "ok")
           IN  /\ u \in Table /\ DOMAIN t \subseteq DOMAIN u
               /\ \A id \in DOMAIN u : u[id].f_direct = 1 =>
                     \/ u[id].dt_beacon = time
                     \/ /\ id \in DOMAIN t /\ t[id].f_direct = 1
                        /\ u[id].dt_beacon = t[id].dt_beacon
<1> DEFINE u == UpdateServer(t, a, g, direct, 0, time)
           v == InsertServer(t, a, g, direct, time)
           new == [addr |-> a, gamename |-> g, f_auth |-> 0,
                   f_direct |-> direct, dt_added |-> time,
                   dt_beacon |-> time, dt_sync |-> time, dt_updated |-> time]
           Good(w) == /\ w \in Table /\ DOMAIN t \subseteq DOMAIN w
                      /\ \A id \in DOMAIN w : w[id].f_direct = 1 =>
                           \/ w[id].dt_beacon = time
                           \/ /\ id \in DOMAIN t /\ t[id].f_direct = 1
                              /\ w[id].dt_beacon = t[id].dt_beacon
<1>1. \A row \in Row : LET r == UpdatedRow(row, g, direct, 0, time) IN
          r.f_direct = 1 => \/ r.dt_beacon = time
                            \/ /\ row.f_direct = 1
                               /\ r.dt_beacon = row.dt_beacon
  BY DEF UpdatedRow, Row, Bit
<1>2. Good(u)
  <2>1. /\ u \in Table /\ DOMAIN u = DOMAIN t
        /\ \A id \in DOMAIN t :
             u[id] = IF t[id].addr = a THEN UpdatedRow(t[id], g, direct, 0, time) ELSE t[id]
    BY 0 \in Bit, UpdateServerKeeps DEF Bit
  <2>2. \A id \in DOMAIN t : t[id] \in Row
    BY DEF Table
  <2> HIDE DEF u
  <2> QED
    BY <1>1, <2>1, <2>2
<1>3. Good(v)
  <2>1. new \in Row /\ new.dt_beacon = time
    BY DEF Row, Bit
  <2>2. v = Append(t, new)
    BY DEF InsertServer
  <2> HIDE DEF new
  <2>3. /\ Append(t, new) \in Table
        /\ DOMAIN Append(t, new) = DOMAIN t \cup {Len(t) + 1}
        /\ \A id \in DOMAIN t : Append(t, new)[id] = t[id]
        /\ Append(t, new)[Len(t) + 1] = new
    BY <2>1, AppendKeeps
  <2>4. Good(Append(t, new))
    BY <2>1, <2>3
  <2> HIDE DEF v, Good
  <2> QED
    BY <2>2, <2>4
<1>4. UpsertServer(t, a, g, direct, time, "ok", "ok") \in {u, v}
  BY DEF UpsertServer
<1> HIDE DEF u, v
<1> QED
  BY <1>2, <1>3, <1>4

\* Update-or-insert finds the rows of an address where they were, or makes one.
LEMMA UpsertFinds ==
    ASSUME NEW t \in Table, NEW a \in Address, NEW g \in GameName,
           NEW direct \in Bit, NEW time \in Nat
    PROVE  LET u == UpsertServer(t, a, g, direct, time, "ok", "ok")
           IN  /\ RowsOf(u, a) # {}
               /\ \A b \in Address : (b # a \/ RowsOf(t, b) # {}) => RowsOf(u, b) = RowsOf(t, b)
<1> DEFINE u == UpdateServer(t, a, g, direct, 0, time)
           v == InsertServer(t, a, g, direct, time)
           w == UpsertServer(t, a, g, direct, time, "ok", "ok")
<1>1. w = IF RowsOf(t, a) # {} THEN u ELSE v
  BY DEF UpsertServer, ExistServer
<1>2. \A b : RowsOf(u, b) = RowsOf(t, b)
  <2>1. DOMAIN u = DOMAIN t /\ \A id \in DOMAIN t : u[id].addr = t[id].addr
    BY 0 \in Bit, UpdateServerKeeps DEF Bit
  <2> HIDE DEF u
  <2> QED
    BY <2>1 DEF RowsOf
<1>3. RowsOf(v, a) # {} /\ \A b : b # a => RowsOf(v, b) = RowsOf(t, b)
  <2>1. PICK row \in Row : v = Append(t, row) /\ row.addr = a
    BY InsertServerAppends
  <2>2. /\ DOMAIN v = DOMAIN t \cup {Len(t) + 1} /\ v[Len(t) + 1] = row
        /\ \A id \in DOMAIN t : v[id] = t[id]
    BY <2>1, AppendKeeps
  <2>3. Len(t) + 1 \notin DOMAIN t
    BY DEF Table
  <2> HIDE DEF v
  <2> QED
    BY <2>1, <2>2, <2>3 DEF RowsOf
<1> HIDE DEF u, v, w
<1>4. /\ RowsOf(w, a) # {}
      /\ \A b \in Address : (b # a \/ RowsOf(t, b) # {}) => RowsOf(w, b) = RowsOf(t, b)
  BY <1>1, <1>2, <1>3
<1> QED
  BY <1>4 DEF w

\* The counts of updateStats are numbers, as the table is finite.
LEMMA CountedIsCount ==
    ASSUME serverlist \in Table, NEW g
    PROVE  Counted(g) \in Count
<1>1. IsFiniteSet(DOMAIN serverlist)
  <2>1. DOMAIN serverlist = 1 .. Len(serverlist) /\ Len(serverlist) \in Nat
    BY DEF Table
  <2> QED
    BY <2>1, FS_Interval
<1>2. Servers(g) \subseteq DOMAIN serverlist /\ Direct(g) \subseteq DOMAIN serverlist
  BY DEF Servers, Direct
<1>3. Cardinality(Servers(g)) \in Nat /\ Cardinality(Direct(g)) \in Nat
  BY <1>1, <1>2, FS_Subset, FS_CardinalityType
<1> QED
  BY <1>3 DEF Counted, Count

\* Clearing stale flags keeps a table a table.
LEMMA PruneBeaconsKeeps ==
    ASSUME serverlist \in Table, PruneBeacons
    PROVE  /\ serverlist' \in Table /\ DOMAIN serverlist' = DOMAIN serverlist
           /\ \A id \in DOMAIN serverlist : serverlist'[id].addr = serverlist[id].addr
           /\ \A id \in DOMAIN serverlist : serverlist'[id].f_direct = 1 =>
                 /\ serverlist'[id] = serverlist[id] /\ ~StaleBeacon(serverlist[id])
<1> DEFINE Cleared(row) == [row EXCEPT !.f_direct = 0]
<1>1. \A row \in Row : Cleared(row) \in Row /\ Cleared(row).f_direct = 0
                       /\ Cleared(row).addr = row.addr
  BY DEF Row, Bit
<1>2. \A id \in DOMAIN serverlist : serverlist[id] \in Row
  BY DEF Table
<1>3. /\ DOMAIN serverlist' = DOMAIN serverlist
      /\ \A id \in DOMAIN serverlist : serverlist'[id] =
            IF StaleBeacon(serverlist[id]) THEN Cleared(serverlist[id]) ELSE serverlist[id]
  BY DEF PruneBeacons
<1> HIDE DEF Cleared
<1>4. \A id \in DOMAIN serverlist : serverlist'[id] \in Row
  BY <1>1, <1>2, <1>3
<1>5. serverlist' \in Table
  <2>1. serverlist' \in [1 .. Len(serverlist) -> Row]
    <3>1. DOMAIN serverlist = 1 .. Len(serverlist)
      BY DEF Table
    <3>2. serverlist' = [id \in DOMAIN serverlist |-> serverlist'[id]]
      BY DEF PruneBeacons
    <3> QED
      BY <1>4, <3>1, <3>2
  <2> QED
    BY <2>1 DEF Table
<1> QED
  BY <1>1, <1>2, <1>3, <1>5

-----------------------------------------------------------------------------
\* The deadline of the round is the next one.
OnTime == now <= nextMaintenance /\ nextMaintenance <= now + Interval

LEMMA MaintenanceInit == Init => TypeOK /\ OnTime
  BY MaintenanceAssumption DEF Init, TypeOK, OnTime, Table, Count

LEMMA MaintenanceTypes ==
    ASSUME TypeOK, OnTime, [Next]_vars
    PROVE  TypeOK' /\ OnTime'
<1>0. /\ now \in Nat /\ nextMaintenance \in Nat /\ serverlist \in Table
      /\ Interval \in Nat \ {0} /\ GameInfo \subseteq GameName /\ 0 \in Bit /\ 1 \in Bit
  BY MaintenanceAssumption DEF TypeOK, Bit
<1>1. CASE Tick
  BY <1>0, <1>1 DEF Tick, history, TypeOK, OnTime
<1>2. ASSUME NEW a \in Address, NEW g \in GameInfo, Announced(a, g)
      PROVE  TypeOK' /\ OnTime'
  <2>1. serverlist' \in Table
    BY <1>0, <1>2, UpsertDirect DEF Announced
  <2>2. replied' \in [Address -> Reply \cup {NoReply}]
    BY <1>2 DEF Announced, TypeOK
  <2> QED
    BY <1>2, <2>1, <2>2 DEF Announced, TypeOK, OnTime
<1>3. ASSUME NEW a \in Address, NEW g \in GameName, NEW p \in BOOLEAN, Checked(a, g, p)
      PROVE  TypeOK' /\ OnTime'
  <2>1. serverlist' \in Table
    BY <1>0, <1>3, UpsertDirect DEF Checked
  <2>2. RowsOf(serverlist', a) \subseteq Nat
    BY <2>1 DEF RowsOf, Table
  <2>3. /\ serverinfo' \subseteq [sid : Nat, dt_serverinfo : Nat]
        /\ playerinfo' \subseteq [sid : Nat, dt_player : Nat]
    <3>1. /\ serverinfo \subseteq [sid : Nat, dt_serverinfo : Nat]
          /\ playerinfo \subseteq [sid : Nat, dt_player : Nat]
      BY DEF TypeOK
    <3>2. /\ [sid : RowsOf(serverlist', a), dt_serverinfo : {now}] \subseteq [sid : Nat, dt_serverinfo : Nat]
          /\ [sid : RowsOf(serverlist', a), dt_player : {now}] \subseteq [sid : Nat, dt_player : Nat]
      BY <1>0, <2>2
    <3> QED
      BY <1>3, <3>1, <3>2 DEF Checked
  <2>4. replied' \in [Address -> Reply \cup {NoReply}]
    <3>1. [time |-> now, players |-> p] \in Reply
      BY <1>0 DEF Reply
    <3> QED
      BY <1>3, <3>1 DEF Checked, TypeOK
  <2> QED
    BY <1>3, <2>1, <2>3, <2>4 DEF Checked, TypeOK, OnTime
<1>4. CASE OnMaintenanceTimerAction
  <2>1. serverlist' \in Table
    BY <1>0, <1>4, PruneBeaconsKeeps DEF OnMaintenanceTimerAction
  <2>2. /\ serverinfo' \subseteq serverinfo /\ playerinfo' \subseteq playerinfo
    BY <1>4 DEF OnMaintenanceTimerAction, PruneServerInfo, PrunePlayers
  <2>3. gameinfo' \in [GameInfo -> Count]
    <3>1. \A g : Counted(g) \in Count
      BY <1>0, CountedIsCount
    <3>2. \A g \in GameInfo : gameinfo[g] \in Count
      BY DEF TypeOK
    <3>3. PICK names : UpdateStats(names)
      BY <1>4 DEF OnMaintenanceTimerAction
    <3> QED
      BY <3>1, <3>2, <3>3 DEF UpdateStats
  <2>4. missed' \subseteq Ageing /\ replied' = replied
    BY <1>4 DEF OnMaintenanceTimerAction
  <2>5. now' = now /\ now = nextMaintenance /\ nextMaintenance' = now + Interval
    BY <1>4 DEF OnMaintenanceTimerAction
  <2> QED
    BY <1>0, <2>1, <2>2, <2>3, <2>4, <2>5 DEF TypeOK, OnTime
<1>5. CASE UNCHANGED vars
  BY <1>5 DEF vars, history, TypeOK, OnTime
<1> QED
  BY <1>1, <1>2, <1>3, <1>4, <1>5 DEF Next

\* The tables and the counters keep their types.
THEOREM TypeCorrect == Spec => [](TypeOK /\ OnTime)
<1>1. TypeOK /\ OnTime /\ [Next]_vars => TypeOK' /\ OnTime'
  BY MaintenanceTypes
<1> QED
  BY <1>1, MaintenanceInit, PTL DEF Spec
-----------------------------------------------------------------------------
\* With the deadline in place of the clock the two properties are inductive: a row
\* that survives a round is young enough until the next one, whatever was left by the
\* rounds before it.
FreshUntilRound ==
    /\ "beacons" \notin missed => \A id \in DOMAIN serverlist : serverlist[id].f_direct = 1 =>
           serverlist[id].dt_beacon + BeaconAge + Interval >= nextMaintenance
    /\ "players" \notin missed => \A r \in playerinfo :
           r.dt_player + PlayerAge + Interval >= nextMaintenance

\* Every beacon time is a number, as the arithmetic below needs.
LEMMA TimesAreNumbers ==
    ASSUME TypeOK
    PROVE  /\ \A id \in DOMAIN serverlist : serverlist[id].dt_beacon \in Nat
           /\ \A r \in playerinfo : r.dt_player \in Nat /\ r.sid \in Nat
           /\ \A r \in serverinfo : r.sid \in Nat
           /\ now \in Nat /\ nextMaintenance \in Nat
           /\ Interval \in Nat /\ BeaconAge \in Nat /\ PlayerAge \in Nat
<1>1. \A id \in DOMAIN serverlist : serverlist[id] \in Row
  BY DEF TypeOK, Table
<1>2. \A row \in Row : row.dt_beacon \in Nat
  BY DEF Row
<1>3. /\ serverinfo \subseteq [sid : Nat, dt_serverinfo : Nat]
      /\ playerinfo \subseteq [sid : Nat, dt_player : Nat]
  BY DEF TypeOK
<1> QED
  BY <1>1, <1>2, <1>3, MaintenanceAssumption DEF TypeOK

\* What the upsert of a heartbeat or a check leaves direct is direct long enough.
LEMMA UpsertFresh ==
    ASSUME TypeOK, OnTime, FreshUntilRound, "beacons" \notin missed,
           NEW a \in Address, NEW g \in GameName, NEW direct \in Bit,
           serverlist' = UpsertServer(serverlist, a, g, direct, now, "ok", "ok")
    PROVE  \A id \in DOMAIN serverlist' : serverlist'[id].f_direct = 1 =>
               serverlist'[id].dt_beacon + BeaconAge + Interval >= nextMaintenance
<1>1. serverlist \in Table /\ now \in Nat
  BY DEF TypeOK
<1>2. \A id \in DOMAIN serverlist' : serverlist'[id].f_direct = 1 =>
         \/ serverlist'[id].dt_beacon = now
         \/ /\ id \in DOMAIN serverlist /\ serverlist[id].f_direct = 1
            /\ serverlist'[id].dt_beacon = serverlist[id].dt_beacon
  BY <1>1, UpsertDirect
<1>3. now + BeaconAge + Interval >= nextMaintenance
  BY TimesAreNumbers DEF OnTime
<1> QED
  BY <1>2, <1>3 DEF FreshUntilRound

LEMMA FreshStep ==
    ASSUME TypeOK, OnTime, FreshUntilRound, [Next]_vars
    PROVE  FreshUntilRound'
<1>0. GameInfo \subseteq GameName /\ 0 \in Bit /\ 1 \in Bit
  BY MaintenanceAssumption DEF Bit
<1>1. CASE Tick \/ UNCHANGED vars
  BY <1>1 DEF Tick, vars, history, FreshUntilRound
<1>2. ASSUME NEW a \in Address, NEW g \in GameInfo, Announced(a, g)
      PROVE  FreshUntilRound'
  <2>1. UNCHANGED <<nextMaintenance, playerinfo, missed>>
    BY <1>2 DEF Announced
  <2>2. "beacons" \notin missed => \A id \in DOMAIN serverlist' : serverlist'[id].f_direct = 1 =>
               serverlist'[id].dt_beacon + BeaconAge + Interval >= nextMaintenance
    BY <1>0, <1>2, UpsertFresh DEF Announced
  <2> QED
    BY <2>1, <2>2 DEF FreshUntilRound
<1>3. ASSUME NEW a \in Address, NEW g \in GameName, NEW p \in BOOLEAN, Checked(a, g, p)
      PROVE  FreshUntilRound'
  <2>1. UNCHANGED <<nextMaintenance, missed>>
    BY <1>3 DEF Checked
  <2>2. "beacons" \notin missed => \A id \in DOMAIN serverlist' : serverlist'[id].f_direct = 1 =>
               serverlist'[id].dt_beacon + BeaconAge + Interval >= nextMaintenance
    BY <1>0, <1>3, UpsertFresh DEF Checked
  <2>3. ASSUME "players" \notin missed, NEW r \in playerinfo'
        PROVE  r.dt_player + PlayerAge + Interval >= nextMaintenance
    <3>1. r \in playerinfo \/ r.dt_player = now
      BY <1>3 DEF Checked
    <3>2. now + PlayerAge + Interval >= nextMaintenance
      BY TimesAreNumbers DEF OnTime
    <3> QED
      BY <2>3, <3>1, <3>2 DEF FreshUntilRound
  <2> QED
    BY <2>1, <2>2, <2>3 DEF FreshUntilRound
<1>4. CASE OnMaintenanceTimerAction
  <2>1. /\ nextMaintenance' = now + Interval
        /\ "beacons" \notin missed' => PruneBeacons
        /\ "players" \notin missed' => PrunePlayers
    BY <1>4 DEF OnMaintenanceTimerAction, Ageing
  <2>2. ASSUME "beacons" \notin missed', NEW id \in DOMAIN serverlist', serverlist'[id].f_direct = 1
        PROVE  serverlist'[id].dt_beacon + BeaconAge + Interval >= nextMaintenance'
    <3>1. /\ id \in DOMAIN serverlist /\ serverlist'[id] = serverlist[id]
          /\ ~StaleBeacon(serverlist[id])
      BY <2>1, <2>2, PruneBeaconsKeeps DEF TypeOK
    <3>2. serverlist[id].f_direct = 1 /\ serverlist[id].dt_beacon \in Nat
      BY <2>2, <3>1, TimesAreNumbers
    <3>3. serverlist[id].dt_beacon >= now - BeaconAge
      BY <3>1, <3>2, TimesAreNumbers DEF StaleBeacon
    <3> QED
      BY <2>1, <3>1, <3>2, <3>3, TimesAreNumbers
  <2>3. ASSUME "players" \notin missed', NEW r \in playerinfo'
        PROVE  r.dt_player + PlayerAge + Interval >= nextMaintenance'
    <3>1. r \in playerinfo /\ r.dt_player >= now - PlayerAge
      BY <2>1, <2>3 DEF PrunePlayers
    <3>2. r.dt_player \in Nat
      BY <3>1, TimesAreNumbers
    <3> QED
      BY <2>1, <3>1, <3>2, TimesAreNumbers
  <2> QED
    BY <2>2, <2>3 DEF FreshUntilRound
<1> QED
  BY <1>1, <1>2, <1>3, <1>4 DEF Next

LEMMA FreshInvariant == Spec => []FreshUntilRound
<1>1. Init => FreshUntilRound
  BY DEF Init, FreshUntilRound
<1>2. TypeOK /\ OnTime /\ FreshUntilRound /\ [Next]_vars => FreshUntilRound'
  BY FreshStep
<1> QED
  BY <1>1, <1>2, TypeCorrect, PTL DEF Spec

\* A silent server loses its uplink flag within one interval, whatever else is stored and
\* however many rounds failed before the last.
THEOREM DirectIsRecentHolds == Spec => []DirectIsRecent
<1>1. TypeOK /\ OnTime /\ FreshUntilRound => DirectIsRecent
  <2> SUFFICES ASSUME TypeOK, OnTime, FreshUntilRound, "beacons" \notin missed,
                      NEW id \in DOMAIN serverlist, serverlist[id].f_direct = 1
               PROVE  serverlist[id].dt_beacon + BeaconAge + Interval >= now
    BY DEF DirectIsRecent
  <2>1. serverlist[id].dt_beacon + BeaconAge + Interval >= nextMaintenance
    BY DEF FreshUntilRound
  <2> QED
    BY <2>1, TimesAreNumbers DEF OnTime
<1> QED
  BY <1>1, FreshInvariant, TypeCorrect, PTL

-----------------------------------------------------------------------------
\* No statement deletes from serverlist, so details never lose their row and players
\* never lose their details, whether statements fail or not.
Attached ==
    /\ \A r \in serverinfo : r.sid \in DOMAIN serverlist
    /\ \A r \in playerinfo : \E i \in serverinfo : i.sid = r.sid

LEMMA AttachedStep ==
    ASSUME TypeOK, Attached, [Next]_vars
    PROVE  Attached'
<1>0. /\ serverlist \in Table /\ now \in Nat /\ GameInfo \subseteq GameName
      /\ 0 \in Bit /\ 1 \in Bit
  BY MaintenanceAssumption DEF TypeOK, Bit
<1>1. CASE Tick \/ UNCHANGED vars
  BY <1>1 DEF Tick, vars, history, Attached
<1>2. ASSUME NEW a \in Address, NEW g \in GameInfo, Announced(a, g)
      PROVE  Attached'
  <2>1. DOMAIN serverlist \subseteq DOMAIN serverlist'
    BY <1>0, <1>2, UpsertDirect DEF Announced
  <2> QED
    BY <1>2, <2>1 DEF Announced, Attached
<1>3. ASSUME NEW a \in Address, NEW g \in GameName, NEW p \in BOOLEAN, Checked(a, g, p)
      PROVE  Attached'
  <2> DEFINE ids == RowsOf(serverlist', a)
  <2>1. DOMAIN serverlist \subseteq DOMAIN serverlist'
    BY <1>0, <1>3, UpsertDirect DEF Checked
  <2>2. ids \subseteq DOMAIN serverlist'
    BY DEF RowsOf
  <2>3. /\ serverinfo' = {r \in serverinfo : r.sid \notin ids} \cup [sid : ids, dt_serverinfo : {now}]
        /\ \A r \in playerinfo' : \/ r \in playerinfo /\ r.sid \notin ids
                                  \/ r \in [sid : ids, dt_player : {now}]
    BY <1>3 DEF Checked
  <2> HIDE DEF ids
  <2>4. \A r \in serverinfo' : r.sid \in DOMAIN serverlist'
    BY <2>1, <2>2, <2>3 DEF Attached
  <2>5. ASSUME NEW r \in playerinfo' PROVE \E i \in serverinfo' : i.sid = r.sid
    <3>1. CASE r \in playerinfo /\ r.sid \notin ids
      <4>1. PICK i \in serverinfo : i.sid = r.sid
        BY <3>1 DEF Attached
      <4> QED
        BY <2>3, <3>1, <4>1
    <3>2. CASE r \in [sid : ids, dt_player : {now}]
      <4>1. [sid |-> r.sid, dt_serverinfo |-> now] \in serverinfo'
        BY <2>3, <3>2
      <4> QED
        BY <4>1
    <3> QED
      BY <2>3, <3>1, <3>2
  <2> QED
    BY <2>4, <2>5 DEF Attached
<1>4. CASE OnMaintenanceTimerAction
  <2>1. DOMAIN serverlist' = DOMAIN serverlist
    BY <1>0, <1>4, PruneBeaconsKeeps DEF OnMaintenanceTimerAction
  <2>2. serverinfo' = serverinfo /\ playerinfo' \subseteq playerinfo
    BY <1>4 DEF OnMaintenanceTimerAction, PruneServerInfo, PrunePlayers, Attached
  <2> QED
    BY <2>1, <2>2 DEF Attached
<1> QED
  BY <1>1, <1>2, <1>3, <1>4 DEF Next


LEMMA AttachedInvariant == Spec => []Attached
<1>1. Init => Attached
  BY DEF Init, Attached
<1>2. TypeOK /\ Attached /\ [Next]_vars => Attached'
  BY AttachedStep
<1> QED
  BY <1>1, <1>2, TypeCorrect, PTL DEF Spec

\* Players outlive neither their age by more than an interval nor their server's details.
THEOREM PlayersRecentHolds == Spec => []PlayersRecent
<1>1. TypeOK /\ OnTime /\ FreshUntilRound /\ Attached => PlayersRecent
  <2> SUFFICES ASSUME TypeOK, OnTime, FreshUntilRound, Attached,
                      "players" \notin missed, NEW r \in playerinfo
               PROVE  /\ r.dt_player + PlayerAge + Interval >= now
                      /\ \E i \in serverinfo : i.sid = r.sid
    BY DEF PlayersRecent
  <2>1. r.dt_player + PlayerAge + Interval >= nextMaintenance
    BY DEF FreshUntilRound
  <2> QED
    BY <2>1, TimesAreNumbers DEF OnTime, Attached
<1> QED
  BY <1>1, FreshInvariant, AttachedInvariant, TypeCorrect, PTL

-----------------------------------------------------------------------------
\* What the last reply of row id said is stored, its players while they are fresh.
Stored(id, reply) ==
    /\ [sid |-> id, dt_serverinfo |-> reply.time] \in serverinfo
    /\ reply.players /\ reply.time >= now - PlayerAge =>
           [sid |-> id, dt_player |-> reply.time] \in playerinfo

\* An address that has replied has a row, so that no heartbeat adds another one, and
\* each of its rows has what the reply said.
Held == \A a \in Address : replied[a] # NoReply =>
    RowsOf(serverlist, a) # {} /\ \A id \in RowsOf(serverlist, a) : Stored(id, replied[a])

LEMMA HeldStep ==
    ASSUME TypeOK, Attached, Held, [Next]_vars
    PROVE  Held'
<1>0. /\ serverlist \in Table /\ now \in Nat /\ GameInfo \subseteq GameName
      /\ 0 \in Bit /\ 1 \in Bit /\ PlayerAge \in Nat
  BY MaintenanceAssumption DEF TypeOK, Bit
<1>1. ASSUME NEW b \in Address, replied[b] # NoReply PROVE replied[b].time \in Nat
  <2>1. replied[b] \in Reply
    BY <1>1 DEF TypeOK
  <2> QED
    BY <2>1 DEF Reply
<1>2. CASE Tick
  <2> SUFFICES ASSUME NEW b \in Address, replied[b] # NoReply, NEW id \in RowsOf(serverlist, b)
               PROVE  Stored(id, replied[b])'
    BY <1>2 DEF Tick, history, Held
  <2>1. /\ UNCHANGED <<serverinfo, playerinfo, replied>> /\ now' = now + 1
    BY <1>2 DEF Tick, history
  <2>2. Stored(id, replied[b])
    BY DEF Held
  <2>3. replied[b].time >= now' - PlayerAge => replied[b].time >= now - PlayerAge
    <3>1. replied[b].time \in Nat
      BY <1>1
    <3> QED
      BY <1>0, <2>1, <3>1
  <2>4. replied'[b] = replied[b] /\ serverinfo' = serverinfo /\ playerinfo' = playerinfo
    BY <2>1
  <2> QED
    BY <2>2, <2>3, <2>4 DEF Stored
<1>3. ASSUME NEW a \in Address, NEW g \in GameInfo, Announced(a, g)
      PROVE  Held'
  <2> SUFFICES ASSUME NEW b \in Address, replied'[b] # NoReply
               PROVE  /\ RowsOf(serverlist, b)' # {}
                      /\ \A id \in RowsOf(serverlist, b)' : Stored(id, replied[b])'
    BY DEF Held
  <2>1. UNCHANGED <<now, serverinfo, playerinfo>> /\ replied'[b] = replied[b]
    BY <1>3 DEF Announced, TypeOK
  <2>2. RowsOf(serverlist, b) # {} /\ \A id \in RowsOf(serverlist, b) : Stored(id, replied[b])
    BY <2>1 DEF Held
  <2>3. RowsOf(serverlist', b) = RowsOf(serverlist, b)
    BY <1>0, <1>3, <2>2, UpsertFinds DEF Announced
  <2> QED
    BY <2>1, <2>2, <2>3 DEF Stored
<1>4. ASSUME NEW a \in Address, NEW g \in GameName, NEW p \in BOOLEAN, Checked(a, g, p)
      PROVE  Held'
  <2> SUFFICES ASSUME NEW b \in Address, replied'[b] # NoReply
               PROVE  /\ RowsOf(serverlist, b)' # {}
                      /\ \A id \in RowsOf(serverlist, b)' : Stored(id, replied[b])'
    BY DEF Held
  <2> DEFINE ids == RowsOf(serverlist', a)
  <2>1. /\ serverinfo' = {r \in serverinfo : r.sid \notin ids} \cup [sid : ids, dt_serverinfo : {now}]
        /\ playerinfo' = {r \in playerinfo : r.sid \notin ids}
                         \cup (IF p THEN [sid : ids, dt_player : {now}] ELSE {})
        /\ replied' = [replied EXCEPT ![a] = [time |-> now, players |-> p]]
        /\ now' = now
    BY <1>4 DEF Checked
  <2>2. ids # {} /\ (b # a => RowsOf(serverlist', b) = RowsOf(serverlist, b))
    BY <1>0, <1>4, UpsertFinds DEF Checked
  <2>3. b # a => \A id \in RowsOf(serverlist', b) : id \notin ids
    BY DEF RowsOf
  <2> HIDE DEF ids
  <2>4. CASE b = a
    <3>1. replied'[b] = [time |-> now, players |-> p]
      BY <2>1, <2>4 DEF TypeOK
    <3>2. \A id \in ids : /\ [sid |-> id, dt_serverinfo |-> now] \in serverinfo'
                          /\ p => [sid |-> id, dt_player |-> now] \in playerinfo'
      BY <2>1
    <3>3. \A id \in ids : Stored(id, replied[b])'
      BY <3>1, <3>2 DEF Stored
    <3> QED
      BY <2>2, <2>4, <3>3 DEF ids
  <2>5. CASE b # a
    <3>1. replied'[b] = replied[b]
      BY <2>1, <2>5 DEF TypeOK
    <3>2. /\ RowsOf(serverlist, b) # {} /\ RowsOf(serverlist', b) = RowsOf(serverlist, b)
          /\ \A id \in RowsOf(serverlist, b) : Stored(id, replied[b]) /\ id \notin ids
      BY <2>2, <2>3, <2>5, <3>1 DEF Held
    <3>3. ASSUME NEW id \in RowsOf(serverlist, b) PROVE Stored(id, replied[b])'
      <4>1. Stored(id, replied[b]) /\ id \notin ids
        BY <3>2
      <4> QED
        BY <2>1, <3>1, <4>1 DEF Stored
    <3> QED
      BY <3>2, <3>3
  <2> QED
    BY <2>4, <2>5
<1>5. CASE OnMaintenanceTimerAction
  <2> SUFFICES ASSUME NEW b \in Address, replied'[b] # NoReply
               PROVE  /\ RowsOf(serverlist, b)' # {}
                      /\ \A id \in RowsOf(serverlist, b)' : Stored(id, replied[b])'
    BY DEF Held
  <2>1. UNCHANGED <<now, replied, serverinfo>>
    BY <1>5 DEF OnMaintenanceTimerAction, PruneServerInfo, Attached
  <2>2. RowsOf(serverlist', b) = RowsOf(serverlist, b)
    <3>1. /\ DOMAIN serverlist' = DOMAIN serverlist
          /\ \A id \in DOMAIN serverlist : serverlist'[id].addr = serverlist[id].addr
      BY <1>0, <1>5, PruneBeaconsKeeps DEF OnMaintenanceTimerAction
    <3> QED
      BY <3>1 DEF RowsOf
  <2>3. RowsOf(serverlist, b) # {} /\ \A id \in RowsOf(serverlist, b) : Stored(id, replied[b])
    BY <2>1 DEF Held
  <2>4. \A r \in playerinfo : r.dt_player >= now - PlayerAge => r \in playerinfo'
    BY <1>5, <2>1 DEF OnMaintenanceTimerAction, PrunePlayers, Attached
  <2>5. ASSUME NEW id \in RowsOf(serverlist, b) PROVE Stored(id, replied[b])'
    <3>1. Stored(id, replied[b])
      BY <2>3
    <3>2. replied[b].time >= now - PlayerAge /\ [sid |-> id, dt_player |-> replied[b].time] \in playerinfo
              => [sid |-> id, dt_player |-> replied[b].time] \in playerinfo'
      BY <2>4
    <3> QED
      BY <2>1, <3>1, <3>2 DEF Stored
  <2> QED
    BY <2>1, <2>2, <2>3, <2>5
<1>6. CASE UNCHANGED vars
  BY <1>6 DEF vars, history, Held, Stored
<1> QED
  BY <1>2, <1>3, <1>4, <1>5, <1>6 DEF Next

\* What a reply said of a server stays stored as long as the server is listed, and its
\* players as long as they are fresh, whichever statements fail.
THEOREM KeepsCurrentDataHolds == Spec => []KeepsCurrentData
<1>1. Init => Held
  BY DEF Init, Held
<1>2. TypeOK /\ Attached /\ Held /\ [Next]_vars => Held'
  BY HeldStep
<1>3. Held => KeepsCurrentData
  BY DEF Held, Stored, KeepsCurrentData
<1> QED
  BY <1>1, <1>2, <1>3, AttachedInvariant, TypeCorrect, PTL DEF Spec
=============================================================================
