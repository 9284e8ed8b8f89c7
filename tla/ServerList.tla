----------------------------- MODULE ServerList -----------------------------
(***************************************************************************)
(* The database table "serverlist" and the statements the tasks run on it. *)
(* The table has no UNIQUE key on (ip, queryport) and no statement deletes *)
(* from it, so it is a sequence of rows and the AUTOINCREMENT id of a row  *)
(* is its index.  Each statement is a function from the table, its         *)
(* parameters and the current time (whole seconds) to the next table.      *)
(* Flags are 0 or 1, as the INTEGER columns of the schema.                 *)
(***************************************************************************)
EXTENDS Integers, Sequences

CONSTANTS Ip,          \* the hosts of game servers
          Port,        \* the ports they query and answer from, without 0
          GameName     \* every value the gamename column may take

Address == Ip \X Port

Bit == {0, 1}

Result == {"ok", "error"}    \* what q.exec() reports

\* The columns the code reads or writes after CREATE TABLE.
Row == [addr : Address, gamename : GameName, f_auth : Bit, f_direct : Bit,
        dt_added : Nat, dt_beacon : Nat, dt_sync : Nat, dt_updated : Nat]

Table == Seq(Row)

\* "WHERE ip = :ip AND queryport = :queryport"
RowsOf(t, a) == {id \in DOMAIN t : t[id].addr = a}

ExistServer(t, a) == RowsOf(t, a) # {}

\* Faulty variant: flags are written as passed.
OverwrittenRow(row, g, direct, auth, now) ==
    [row EXCEPT !.f_direct   = IF direct = 1 THEN 1 ELSE @,
                !.dt_beacon  = IF direct = 1 THEN now ELSE @,
                !.f_auth     = IF auth = 1 THEN 1 ELSE 0,
                !.gamename   = g,
                !.dt_updated = now]

\* The SET clause of updateServer: a flag passed as 0 (false) keeps its value.
UpdatedRow(row, g, direct, auth, now) ==
    [row EXCEPT !.f_direct   = IF direct = 1 THEN 1 ELSE @,
                !.dt_beacon  = IF direct = 1 THEN now ELSE @,
                !.f_auth     = IF auth = 1 THEN 1 ELSE @,
                !.gamename   = g,
                !.dt_updated = now]

UpdateServer(t, a, g, direct, auth, now) ==
    [id \in DOMAIN t |-> IF id \in RowsOf(t, a)
                         THEN UpdatedRow(t[id], g, direct, auth, now) ELSE t[id]]

\* Faulty variant: "never synchronised" is written as -1.
InsertUnsynced(t, a, g, direct, now) ==
    Append(t, [addr |-> a, gamename |-> g, f_auth |-> 0, f_direct |-> direct, dt_added |-> now,
               dt_beacon |-> now, dt_sync |-> IF direct = 1 THEN -1 ELSE now, dt_updated |-> now])

\* INSERT names four columns; the rest take the defaults of CREATE TABLE.
InsertServer(t, a, g, direct, now) ==
    Append(t, [addr |-> a, gamename |-> g, f_auth |-> 0,
               f_direct |-> direct, dt_added |-> now,
               dt_beacon |-> now, dt_sync |-> now, dt_updated |-> now])

\* Faulty variant: the row is looked up by its gamename too.
UpsertByGame(t, a, g, direct, now, upd, ins) ==
    IF upd = "ok" /\ \E id \in RowsOf(t, a) : t[id].gamename = g
    THEN UpdateServer(t, a, g, direct, 0, now)
    ELSE IF ins = "ok" THEN InsertServer(t, a, g, direct, now) ELSE t

\* "UPDATE, and INSERT when no row was updated".  upd and ins are "error"
\* when q.exec() reports an error, which updateServer cannot tell from "no row".
UpsertServer(t, a, g, direct, now, upd, ins) ==
    IF upd = "ok" /\ ExistServer(t, a)
    THEN UpdateServer(t, a, g, direct, 0, now)
    ELSE IF ins = "ok" THEN InsertServer(t, a, g, direct, now) ELSE t

\* "dt_updated > :timestamp OR dt_sync > :timestamp"
Recent(row, age, now) == row.dt_updated > now - age \/ row.dt_sync > now - age

\* Faulty variant: the list without the servers known through synchronisation.
SelectUpdated(t, g, age, withSyncData, now) ==
    {id \in DOMAIN t : t[id].gamename = g /\ t[id].dt_updated > now - age}

\* selectServerList: the rows of a game for a client, or for another masterserver.
SelectServerList(t, g, age, withSyncData, now) ==
    {id \in DOMAIN t : /\ t[id].gamename = g
                       /\ \/ t[id].dt_updated > now - age
                          \/ withSyncData = 1 /\ t[id].dt_sync > now - age}

\* getGamenames, for the sync option "all".
ActiveGames(t, age, now) == {t[id].gamename : id \in {i \in DOMAIN t : t[i].dt_updated > now - age}}

\* Faulty variant: the row is refreshed as if its server had been heard from.
UpdateAsHeard(t, a, now) ==
    [id \in DOMAIN t |-> IF id \in RowsOf(t, a)
        THEN [t[id] EXCEPT !.dt_sync = now, !.dt_updated = now] ELSE t[id]]

\* updateSyncedServer: only dt_sync is set.
UpdateSyncedServer(t, a, now) ==
    [id \in DOMAIN t |-> IF id \in RowsOf(t, a) THEN [t[id] EXCEPT !.dt_sync = now] ELSE t[id]]

\* "if it does not exist in the db, insert", for an address of a sync list.
SyncServer(t, a, g, now) ==
    IF ExistServer(t, a) THEN UpdateSyncedServer(t, a, now) ELSE InsertServer(t, a, g, 0, now)

GameNames(t) == {t[id].gamename : id \in DOMAIN t}

\* The address is listed at most once.
UniqueIn(t) == \A i, j \in DOMAIN t : t[i].addr = t[j].addr => i = j
=============================================================================
