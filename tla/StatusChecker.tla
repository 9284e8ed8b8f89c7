---------------------------- MODULE StatusChecker ----------------------------
(***************************************************************************)
(* The UDP task that queries the listed servers, one per ticker interval,  *)
(* and stores their replies.  The clock counts ticker intervals; a cycle   *)
(* is CycleTicks of them, after which the reset timer starts over.         *)
(*                                                                         *)
(* A status reply arrives in Parts datagrams: the first carries the        *)
(* gamename (when the request is \status\), the last one the players and   *)
(* \final\.  A poll is known by its tick, and so is the challenge sent     *)
(* with it.  serverinfo remembers, per part, the poll its fields are from. *)
(***************************************************************************)
EXTENDS ServerList, SecureValidate, FiniteSets, FiniteSetsExt

CONSTANTS Listed,         \* addresses of the rows in the table at start, by id
          Runs,           \* address -> game of the server that runs there
          ReplyFrom,      \* address -> address from which that server replies
          Extended,       \* request \status\ (TRUE) or \info\
          Parts,          \* datagrams in a status reply
          CycleTicks,     \* CycleInterval_s / ServerCheckInterval_ms
          Ttl,            \* serverttl_s in ticks
          Reorder, Duplicate, Lossy,  \* what the network may do to replies
          LateReplies,    \* may replies be under way when the cycle ends?
          LoseSignal,     \* may an arrival go unsignalled (readyRead missed)?
          SqlMayFail,     \* may a statement report an error (database busy)?
          MaxTime, MaxPending, MaxRows

ASSUME CheckerAssumption ==
    /\ Listed \in Seq(Address)
    /\ \A i, j \in DOMAIN Listed : Listed[i] = Listed[j] => i = j
    /\ DOMAIN Runs \subseteq Address
    /\ \A a \in DOMAIN Runs : Runs[a] \in GameName /\ Runs[a] \in DOMAIN Cipher
    /\ ReplyFrom \in [Address -> Address]
    /\ Parts \in Nat \ {0} /\ CycleTicks \in Nat \ {0, 1} /\ Ttl \in Nat \ {0}
    /\ {"", "unknown"} \subseteq GameName
    /\ \A f \in {Extended, Reorder, Duplicate, Lossy, LateReplies, LoseSignal, SqlMayFail} :
          f \in BOOLEAN

VARIABLES now, cycleStart, nextReset,  \* the clock and the timer of the cycle
          serverlist, serverinfo, playerinfo,  \* database tables
          dbIndex,        \* _dbIndex: id of the last server queried
          dataBuffer,     \* _dataBuffer: reply fragments, by sender
          secureBuffer,   \* _secureBuffer: pending challenge, by address
          missedReadCalls,
          net,            \* replies under way, by sender
          socket,         \* replies in the receive buffer
          slot,           \* "reading" while the read slot is due or in its loop
          polled,         \* history: id queried at each tick, 0 for none
          unread,         \* history: queries since the socket was last read or empty
          failed          \* history: a statement reported an error

tables == <<serverlist, serverinfo, playerinfo>>
clocks == <<now, cycleStart, nextReset>>
vars == <<clocks, tables, dbIndex, dataBuffer, secureBuffer, missedReadCalls,
          net, socket, slot, polled, unread, failed>>

Part == 1 .. Parts
\* copies: how often the network may still deliver the datagram a second time.
Reply == [type : {"validate"}, addr : Address, answer : Answer, copies : Bit]
    \cup [type : {"status"}, addr : Address, game : GameName, poll : Nat, part : Part,
          copies : Bit]
Secure == [secure : Nat, game : GameName]
NoData == [secure |-> NoSecure, game |-> ""]    \* QHash::value of an absent label
InfoRow == [sid : Nat, poll : [Part -> Nat]]

Slot == {"idle", "reading"}

TypeOK ==
    /\ now \in Nat /\ cycleStart \in Nat /\ nextReset \in Nat
    /\ serverlist \in Table /\ serverinfo \in Seq(InfoRow)
    /\ playerinfo \subseteq [sid : Nat \cup {-1}, poll : Nat]
    /\ dbIndex \in DOMAIN serverlist \cup {-1} /\ missedReadCalls \in Nat
    /\ dataBuffer \in [Address -> Seq(Reply)]
    /\ secureBuffer \in [Address -> Secure]
    /\ net \in [Address -> Seq(Reply)] /\ socket \in Seq(Reply)
    /\ slot \in Slot
    /\ polled \in Seq(Nat) /\ unread \in Nat /\ failed \in BOOLEAN

\* Rows left by an earlier run of the program or just added by another task.
ListedRow(a, auth) ==
    [addr |-> a, gamename |-> IF a \in DOMAIN Runs THEN Runs[a] ELSE "unknown",
     f_auth |-> auth, f_direct |-> 0,
     dt_added |-> 0, dt_beacon |-> 0, dt_sync |-> 0, dt_updated |-> 0]

NoFragments == [a \in Address |-> << >>]
NoChallenges == [a \in Address |-> NoData]

Init ==
    /\ now = 0 /\ cycleStart = 0 /\ nextReset = CycleTicks
    /\ \E auth \in [DOMAIN Listed -> Bit] :
          serverlist = [id \in DOMAIN Listed |-> ListedRow(Listed[id], auth[id])]
    /\ serverinfo = << >> /\ playerinfo = {}
    /\ dbIndex = -1 /\ dataBuffer = NoFragments /\ secureBuffer = NoChallenges
    /\ missedReadCalls = 0 /\ slot = "idle"
    /\ net = [a \in Address |-> << >>] /\ socket = << >>
    /\ polled = << >> /\ unread = 0 /\ failed = FALSE
-----------------------------------------------------------------------------
(* The network between the game servers and the socket.                    *)

Copies == IF Duplicate THEN 1 ELSE 0

StatusReply(a, poll) ==
    [p \in Part |-> [type |-> "status", addr |-> ReplyFrom[a], poll |-> poll, part |-> p,
                     game |-> IF p = 1 /\ Extended THEN Runs[a] ELSE "",
                     copies |-> Copies]]

ValidateReply(a, secure) ==
    [type |-> "validate", addr |-> ReplyFrom[a], copies |-> Copies,
     answer |-> GenerateValidateString(Cipher[Runs[a]], secure)]

\* What a server sends back to the requests of one tick, the challenge first.
Responses(a, challenged, t) ==
    (IF challenged THEN <<ValidateReply(a, t)>> ELSE << >>) \o StatusReply(a, t)

Without(s, i) == SubSeq(s, 1, i - 1) \o SubSeq(s, i + 1, Len(s))

\* Reply i from address a reaches the socket; a lossy network drops it when full.
Deliver(a, i) ==
    /\ Len(socket) < MaxPending \/ Lossy
    /\ i \in (IF Reorder THEN DOMAIN net[a] ELSE DOMAIN net[a] \cap {1})
    /\ net' \in {[net EXCEPT ![a] = Without(@, i)]} \cup
            (IF net[a][i].copies = 1 THEN {[net EXCEPT ![a][i].copies = 0]} ELSE {})
    /\ IF Len(socket) < MaxPending
       THEN /\ socket' = Append(socket, [net[a][i] EXCEPT !.copies = 0])
            /\ slot' \in IF LoseSignal THEN {slot, "reading"} ELSE {"reading"}
       ELSE UNCHANGED <<socket, slot>>
    /\ UNCHANGED <<clocks, tables, dbIndex, dataBuffer, secureBuffer, missedReadCalls,
                   polled, unread, failed>>

Lose(a) ==
    /\ Lossy /\ net[a] # << >>
    /\ net' = [net EXCEPT ![a] = Tail(@)]
    /\ UNCHANGED <<clocks, tables, dbIndex, dataBuffer, secureBuffer, missedReadCalls,
                   socket, slot, polled, unread, failed>>

NothingUnderWay == socket = << >> /\ \A a \in Address : net[a] = << >>
-----------------------------------------------------------------------------
(* onTicker.                                                               *)

\* Faulty variant: "id >= :current".
NextServerAgain(t, current, age, time) ==
    LET due == {id \in DOMAIN t : id >= current /\ Recent(t[id], age, time)}
    IN  IF due = {} THEN 0 ELSE Min(due)

\* Faulty variant: the newest row first.
NextServerNewest(t, current, age, time) ==
    LET due == {id \in DOMAIN t : id > current /\ Recent(t[id], age, time)}
    IN  IF due = {} THEN 0 ELSE Max(due)

\* getNextServer: "id > :current ... LIMIT 1", 0 when no row qualifies.  SQLite
\* walks the table in rowid order, so the row it returns is the lowest.
NextServer(t, current, age, time) ==
    LET due == {id \in DOMAIN t : id > current /\ Recent(t[id], age, time)}
    IN  IF due = {} THEN 0 ELSE Min(due)

\* Faulty variant: the signal is repeated only after more than two missed calls.
CountMissedReadLate ==
    IF socket # << >>
    THEN /\ missedReadCalls' = missedReadCalls + 1
         /\ slot' = IF missedReadCalls' > 2 THEN "reading" ELSE slot
    ELSE UNCHANGED <<missedReadCalls, slot>>

\* The readyRead workaround, at the end of a tick that queried a server.
CountMissedRead ==
    IF socket # << >>
    THEN /\ missedReadCalls' = missedReadCalls + 1
         /\ slot' = IF missedReadCalls' >= 2 THEN "reading" ELSE slot
    ELSE UNCHANGED <<missedReadCalls, slot>>

\* Faulty variant: the index stays before the row that was queried.
IndexBefore(id) == id - 1

IndexOf(id) == id

Query(id, t) ==
    LET row == serverlist[id]
        challenged == row.f_auth = 0
    IN  /\ dbIndex' = IndexOf(id)
        /\ secureBuffer' = IF challenged
               THEN [secureBuffer EXCEPT ![row.addr] = [secure |-> t, game |-> row.gamename]]
               ELSE secureBuffer
        /\ net' \in {net} \cup IF row.addr \in DOMAIN Runs
               THEN {[net EXCEPT ![ReplyFrom[row.addr]] = @ \o Responses(row.addr, challenged, t)]}
               ELSE {}
        /\ CountMissedRead

OnTicker ==
    /\ now < MaxTime /\ now < nextReset /\ slot = "idle"
    /\ now' = now + 1
    /\ LET id == NextServer(serverlist, dbIndex, Ttl, now + 1)
       IN  /\ polled' = Append(polled, id)
           /\ unread' = IF socket = << >> THEN 0 ELSE IF id # 0 THEN unread + 1 ELSE unread
           /\ IF id # 0 THEN Query(id, now + 1)
              ELSE UNCHANGED <<dbIndex, secureBuffer, net, missedReadCalls, slot>>
    /\ UNCHANGED <<cycleStart, nextReset, tables, dataBuffer, socket, failed>>
-----------------------------------------------------------------------------
(* The reset timer.  Its period is a multiple of the ticker's, so the two  *)
(* are due together and either may come first.                             *)
\* Faulty variant: challenges of the last cycle stay valid.
ClearFragments == dbIndex' = -1 /\ dataBuffer' = NoFragments /\ UNCHANGED secureBuffer

ClearBuffers == dbIndex' = -1 /\ dataBuffer' = NoFragments /\ secureBuffer' = NoChallenges

OnReset ==
    /\ now \in {nextReset - 1, nextReset} /\ slot = "idle"
    /\ LateReplies \/ NothingUnderWay
    /\ cycleStart' = now /\ nextReset' = nextReset + CycleTicks
    /\ ClearBuffers
    /\ UNCHANGED <<now, tables, missedReadCalls, net, socket, slot, polled, unread, failed>>
-----------------------------------------------------------------------------
(* onUdpResponseRead.  Each statement may fail on its own.                 *)
Statement == {"update", "insert", "updateInfo", "insertInfo", "updateAgain",
              "deletePlayers", "insertPlayers"}

\* Errors are bounded by MaxRows, the rows they can add to either table, and to the
\* statements of one reply, any of them.
SqlOutcome == IF SqlMayFail /\ ~failed /\ Len(serverlist) < MaxRows /\ Len(serverinfo) < MaxRows
              THEN [Statement -> Result] ELSE {[s \in Statement |-> "ok"]}

FailedIn(ok) == failed' = (failed \/ \E s \in Statement : ok[s] = "error")

Ids(a) == RowsOf(serverlist', a)

\* Faulty variant: only the last datagram is parsed.
UpdateFromLast(info, a, buf) ==
    [i \in DOMAIN info |->
        IF info[i].sid \in Ids(a)
        THEN [info[i] EXCEPT !.poll[buf[Len(buf)].part] = buf[Len(buf)].poll]
        ELSE info[i]]

\* updateServerInfo: only the fields the reply carries are set.
UpdateServerInfo(info, a, buf) ==
    [i \in DOMAIN info |->
        IF info[i].sid \in Ids(a)
        THEN [info[i] EXCEPT !.poll = [p \in Part |->
                LET got == {k \in DOMAIN buf : buf[k].part = p}
                IN  IF got = {} THEN @[p] ELSE buf[Max(got)].poll]]
        ELSE info[i]]

HasInfo(a) == \E i \in DOMAIN serverinfo : serverinfo[i].sid \in Ids(a)

\* insertServerInfo: an empty row for each id with this address.
InsertServerInfo(info, a) ==
    info \o [k \in 1 .. Cardinality(Ids(a)) |->
        [sid |-> CHOOSE id \in Ids(a) : Cardinality({j \in Ids(a) : j < id}) = k - 1,
         poll |-> [p \in Part |-> 0]]]

\* Faulty variant: a row is inserted on every reply.
InsertEveryTime(a, buf, ok) ==
    serverinfo' = UpdateServerInfo(InsertServerInfo(serverinfo, a), a, buf)

StoreServerInfo(a, buf, ok) ==
    LET inserted == IF ok["insertInfo"] = "ok" THEN InsertServerInfo(serverinfo, a) ELSE serverinfo
    IN  serverinfo' =
            IF ok["updateInfo"] = "ok" /\ HasInfo(a) THEN UpdateServerInfo(serverinfo, a, buf)
            ELSE IF ok["updateAgain"] = "ok" THEN UpdateServerInfo(inserted, a, buf)
            ELSE inserted

\* insertPlayerInfo: the players of the first row with this address, or of sid -1.
StorePlayers(a, buf, ok) ==
    LET sid  == IF Ids(a) = {} THEN -1 ELSE Min(Ids(a))
        kept == {r \in playerinfo : r.sid # sid}
        new  == {[sid |-> sid, poll |-> buf[k].poll] :
                    k \in {j \in DOMAIN buf : Extended /\ buf[j].part = Parts}}
    IN  playerinfo' = IF ok["deletePlayers"] = "error" THEN playerinfo
                      ELSE IF ok["insertPlayers"] = "error" THEN kept ELSE kept \cup new

\* Faulty variant: the gamename is looked up in the last datagram.
GameOfLast(buf) == IF buf[Len(buf)].game = "" THEN "unknown" ELSE buf[Len(buf)].game

\* receiveData.value("gamename", "unknown") of the buffered fragments.
BufferedGame(buf) ==
    LET named == {k \in DOMAIN buf : buf[k].game # ""}
    IN  IF named = {} THEN "unknown" ELSE buf[Max(named)].game

\* The while loop goes on as long as datagrams are pending.
After(buffer) == IF buffer = << >> THEN "idle" ELSE "reading"

Take ==
    /\ slot = "reading" /\ socket # << >>
    /\ socket' = Tail(socket) /\ slot' = After(Tail(socket))
    /\ missedReadCalls' = 0 /\ unread' = 0
    /\ UNCHANGED <<clocks, dbIndex, net, polled>>

\* The \validate\ branch; a failed answer is stored under the gamename on record.
ReadValidate ==
    /\ Take
    /\ LET m    == Head(socket)
           s    == secureBuffer[m.addr]
           auth == IF ValidateGamename(FALSE, s.game, m.answer, s.secure) THEN 1 ELSE 0
       IN  /\ m.type = "validate"
           /\ \E ok \in SqlOutcome :
                /\ FailedIn(ok)
                /\ serverlist' = IF ok["update"] = "ok"
                       THEN UpdateServer(serverlist, m.addr, s.game, 0, auth, now)
                       ELSE serverlist
           /\ secureBuffer' = IF auth = 1 THEN [secureBuffer EXCEPT ![m.addr] = NoData]
                              ELSE secureBuffer
           /\ dataBuffer' = [dataBuffer EXCEPT ![m.addr] = << >>]
    /\ UNCHANGED <<serverinfo, playerinfo>>

\* A fragment without \final\ waits for the rest.
ReadFragment ==
    /\ Take
    /\ LET m == Head(socket)
       IN  /\ m.type = "status" /\ m.part # Parts
           /\ dataBuffer' = [dataBuffer EXCEPT ![m.addr] = Append(@, m)]
    /\ UNCHANGED <<tables, secureBuffer, failed>>

\* The fragment with \final\: whatever is buffered is taken for the reply.
ReadFinal ==
    /\ Take
    /\ LET m   == Head(socket)
           buf == Append(dataBuffer[m.addr], m)
       IN  /\ m.type = "status" /\ m.part = Parts
           /\ \E ok \in SqlOutcome :
                /\ FailedIn(ok)
                /\ serverlist' = UpsertServer(serverlist, m.addr, BufferedGame(buf), 0,
                                              now, ok["update"], ok["insert"])
                /\ StoreServerInfo(m.addr, buf, ok)
                /\ StorePlayers(m.addr, buf, ok)
           /\ dataBuffer' = [dataBuffer EXCEPT ![m.addr] = << >>]
    /\ UNCHANGED secureBuffer
-----------------------------------------------------------------------------
\* The bounded clock stops here, the program does not.
Horizon == now = MaxTime /\ UNCHANGED vars

Next ==
    \/ OnTicker \/ OnReset \/ Horizon
    \/ ReadValidate \/ ReadFragment \/ ReadFinal
    \/ \E a \in Address : Lose(a) \/ \E i \in DOMAIN net[a] : Deliver(a, i)

Spec == Init /\ [][Next]_vars
-----------------------------------------------------------------------------
(* What must hold.                                                         *)

\* The gamename stored for a server stays the one the server runs, through any
\* number of polls, failed or successful: it decides in which list it appears.
GamenameTrue == \A id \in DOMAIN serverlist :
    serverlist[id].addr \in DOMAIN Runs => serverlist[id].gamename = Runs[serverlist[id].addr]

\* All details stored for a server come from one reply, a reply of that server,
\* and its players from the same reply: serverinfo and playerinfo are updated by
\* statements of their own, field by field.
InfoFromOneReply == \A i \in DOMAIN serverinfo :
    LET r == serverinfo[i]
    IN  /\ \A p \in Part : r.poll[p] = r.poll[Parts]
        /\ polled[r.poll[Parts]] = r.sid
        /\ \A q \in playerinfo : q.sid = r.sid => q.poll = r.poll[Parts]

\* As long as no statement failed, a server has at most one serverinfo row, the row
\* belongs to a listed server, and players belong to a server with a row: none of the
\* tables declares a key.
OneInfoPerServer == ~failed =>
    /\ \A i, j \in DOMAIN serverinfo : serverinfo[i].sid = serverinfo[j].sid => i = j
    /\ \A i \in DOMAIN serverinfo : serverinfo[i].sid \in DOMAIN serverlist
    /\ \A r \in playerinfo : \E i \in DOMAIN serverinfo : serverinfo[i].sid = r.sid

\* As long as no statement failed, the list has one row per address, also when servers
\* answer from another port than the one they are queried on and those answers insert
\* rows.
UniqueAddress == ~failed => UniqueIn(serverlist)

\* f_auth is set only by the right answer to the challenge that was sent to that
\* address in the current cycle (any answer, for the games that need not answer),
\* whatever the network delays, repeats or reorders.
Earned(id, m) == \E t \in (cycleStart + 1) .. now :
    /\ polled[t] \in RowsOf(serverlist, m.addr)
    /\ m.type = "validate" /\ m.addr = serverlist[id].addr
    /\ \/ serverlist'[id].gamename \in OverrideClient
       \/ m.answer = ReturnValidate(serverlist'[id].gamename, t)

AuthEarned == [][\A id \in DOMAIN serverlist :
    serverlist[id].f_auth = 0 /\ serverlist'[id].f_auth = 1 => Earned(id, Head(socket))]_vars

\* No server is asked twice in one cycle, even when rows are inserted or revived
\* while the ticker walks the table.
AskedOnce == \A t, u \in (cycleStart + 1) .. now :
    t < u /\ polled[t] # 0 /\ polled[u] # 0 => polled[t] < polled[u]

\* When a cycle ends, every live server that was not heard from during the cycle
\* has been asked (README: "query all game servers periodically").
Silent(row) == row.dt_updated <= cycleStart /\ row.dt_sync <= cycleStart

CycleCoversAll == [][cycleStart' # cycleStart =>
    \A id \in DOMAIN serverlist :
        Silent(serverlist[id]) /\ Recent(serverlist[id], Ttl, now)
            => \E t \in (cycleStart + 1) .. now : polled[t] = id]_vars

\* Data that stays in the socket over two queries is read, although its readyRead
\* signal was missed (the workaround at the end of onTicker).
ReadAfterTwoQueries == unread >= 2 => slot = "reading"
=============================================================================
