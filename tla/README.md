# A TLA+ model of the 333networks Masterserver-Qt5

The program keeps a list of game servers in one SQLite table and serves it to game
clients. Servers announce themselves over UDP, are challenged to prove which game they
run, are queried periodically, and the list is exchanged with other masterservers. This
directory holds TLA+ modules of the tasks that read and write the list and of the start of
the program, TLC configurations that model-check them, and TLAPS proofs about them.

Paths below are relative to `src/src/` of the repository.

## 1. Inventory

The program is one process with one Qt event loop. A slot runs to its end before the next
signal is delivered; nothing runs in parallel. What interleaves is the order of timers,
datagrams, TCP fragments and database statements of *different* tasks, and no task holds
a transaction over its statements (the sync client's batch is the one exception).

| Component | State | Operations | Talks to |
|---|---|---|---|
| Server list table `Database/` | `serverlist`, no UNIQUE key, rows never deleted | `updateServer`, `insertServer`, `existServer`, selections | every task |
| Secure/validate `Protocols/GameSpy0/` | none | `validateGamename`, `returnValidate`, `generateValidateString` | beacon server, checker, TCP tasks |
| Beacon server `UdpTasks/BeaconServer/Receive`, `udplisten.cpp` | `_beaconList`, `_queryId`, `_sweepTimer`, the UDP socket | `onUdpRead`, `processHeartbeatGamespy0`, `replyQuery`, `onUdpTimedOut` | table; game servers |
| Beacon uplink `UdpTasks/BeaconServer/Uplink` | `_uplinkTimer` | `onUplinkTimer` | other masterservers |
| Status checker `UdpTasks/StatusChecker` | `_dbIndex`, `_dataBuffer`, `_secureBuffer`, `_missedReadCalls`, two timers, the UDP socket | `onTicker`, reset lambda, `onUdpResponseRead` | table, `serverinfo`, `playerinfo`; game servers |
| Maintenance `Maintenance/` | `_maintenanceTimer` | `updateStats`, `pruneBeacons`, `pruneServerInfo`, `prunePlayers` | all tables |
| TCP list server `TcpTasks/ListenServer`, `ListenClientHandler` | per client `_rxBuffer`, `_hasValidated`, `_secure`, `_requestEnctype2`, `_timeOut`, the socket | read, disconnect, timeout, compile list | table; clients, masterservers |
| TCP sync client `TcpTasks/SyncClient` | per connection `_rxBuffer`, `_timeOut`, the socket | connect, read, disconnect, timeout, `updateSyncedServer` | table; other list servers |
| Sync updater `TcpTasks/Updater` | `_syncIndex`, `_syncTicker`, `_updaterTimer` | `scheduleUpdater`, `onSyncTickerAction` | sync client |
| Start-up `Core/`, `Database/initdatabase.cpp`, `loadsupportedgames.cpp` | tables on disk | check the version, create tables, fill `gameinfo`, start services | database |
| Parser and overrides `Protocols/GameSpy0/gamespy0.cpp`, `overrides.cpp` | none | `parseGameSpy0Buffer` | all network tasks |
| enctype2 `Protocols/enctype2.cpp` | none | encrypt a list | list server |
| Settings `Settings/` | the file; the struct, read once | `loadSettings`, `writeSettings` | all |
| Logger `Logger/` | name and handle of the log file | `init`, `logEvent`, `cycleLogFile` | all |

What is hard about it, and what correct means, per component:

* **Table.** Update-or-insert is two statements and the only thing that keeps addresses
  unique; `updateServer` returns `false` for "no such row" and for "error" alike.
  Correct: one row per address, flags are never taken back, time stamps never go backwards.
* **Beacon server.** A challenge is pending between two datagrams of a sender, while the
  same host announces other ports and games, the sweep timer drops old challenges at an
  arbitrary phase, and `readyRead` may be missed (the code works around it). Correct:
  `f_auth` is earned by an answer to the last challenge, in time; waits are bounded.
* **Status checker.** Requests and replies are matched by address only; replies come in
  fragments that are lost, repeated or reordered, or come after the cycle's reset; the
  statements of one reply fail independently. Correct: stored data is that of one reply of
  that server, a cycle asks each live server once, authentication belongs to this cycle.
* **Maintenance.** Four independent statements against tables that change between rounds.
  Correct: stale flags and players go in time, current data stays, a later round
  makes up for one that failed.
* **TCP list server and sync client.** TCP fragments of a request or list; several
  requests on one connection; timeouts against late data. Correct: no list without
  validation, a complete list is applied whole and once, every connection ends.
* **Sync updater.** Two timers, an index, dead peers, and masterservers that tell each
  other what they heard from each other. Correct: every masterserver is reached in every
  interval, and a server that stopped is forgotten by all of them.
* **Start-up.** Statements on disk with a stop or an error at any of them, on the next
  start only the traces on disk. Correct: the services run on a whole database, games
  are complete, the settings are those of the file, a good database is never refused.
* **Logger.** A file per period of the calendar, whose open may fail. Correct: a message
  goes to the file of its own date.

`PROJECT.json` lists under `hazards` each place in the code where these bite, with the
property that covers it, or the reason why none does.

## 2. Modules

| Module | Models | Code |
|---|---|---|
| `ServerList` | the table as a sequence of rows; each statement a function on it | `Database/Common/*`, `createtables.cpp`, `updatesyncedserver.cpp` |
| `SecureValidate` | challenge and answer, overrides, illegal answers | `Protocols/GameSpy0/securevalidate.cpp`, `algorithm.cpp` |
| `Messages` | `\key\value\` text: split, parse, overrides, look-up | `Protocols/GameSpy0/gamespy0.cpp`, `overrides.cpp` |
| `BeaconServer` | receiver of heartbeats | `UdpTasks/BeaconServer/*` |
| `StatusChecker` | ticker, reset timer, reader and the network between them | `UdpTasks/StatusChecker/*` |
| `Maintenance` | one round, and what other tasks write between rounds | `Maintenance/*` |
| `ListClientHandler` | one connection of the list server | `TcpTasks/ListenServer/*`, `ListenClientHandler/*` |
| `ListSession` | that connection and a client that follows a script | |
| `SyncExchange` | abstract: a list is composed, then applied whole or lost | |
| `SyncSession` | sync client and list server over two streams; implements `SyncExchange` | `TcpTasks/SyncClient/*` |
| `SyncNetwork` | updaters and tables of several masterservers, exchanging lists as `SyncExchange` does | `TcpTasks/Updater/*` |
| `Settings`, `Logger` | the settings file and its checks; the log file and its cycle | `Settings/*`, `Logger/*` |
| `Startup` | `Core::run` on what earlier starts left on disk; extends the two above | `Core/*`, `Database/*` |
| `SharedProofs` | lemmas on the table's functions, the lists made from it, and the parser | |
| `BeaconServerProofs`, `StatusCheckerProofs`, `MaintenanceProofs`, `ListSessionProofs`, `SyncSessionProofs`, `SyncNetworkProofs`, `StartupProofs` | theorems on the module in their name | |
| `MC*` | values of the constants for TLC | |

Definitions have the names of the code: `serverlist`, `beaconList`, `dbIndex`,
`secureBuffer` and so on are the members with that name, and the actions are the slots.
A definition whose comment begins with "Faulty variant" is not part of the system: it is
how the definition after it would read with a plausible mistake, and exists to show that a
property notices the mistake (`mutants` in `PROJECT.json`).

**`ServerList`.** A row's id is its index, because nothing deletes from the table and the
id is AUTOINCREMENT. `UpsertServer(t, a, g, direct, now, upd, ins)` is the caller's
"UPDATE, and if no row was updated INSERT"; `upd` and `ins` say whether `q.exec()`
reported an error. An error is the same value to the caller as "no row", as in the code.
Columns nobody reads are left out.

**`SecureValidate`.** A challenge is a number and the answer is the pair of cipher and
challenge. This takes two facts as given: six random letters do not repeat while they
matter, and different ciphers give different answers.

**`Messages`.** A buffer is a sequence of symbols, the backslash and words; a field is a
sequence of words. `ParseGameSpy0Buffer` is the loop of the code on that: it gives the
entries in the order they are inserted into the `QMultiHash`, and `Value` and `Values`
return the most recent first, as Qt does.

**`BeaconServer`.**

| Action | Code |
|---|---|
| `ReadHeartbeat` | one turn of the loop in `onUdpRead` with a `heartbeat`: port and game checks, update and return, or insert and challenge |
| `ReadValidate` | ... with a `validate`: compare, update the row, drop the entry on success, keep it on failure |
| `ReadQuery` | ... with a status query: `replyQuery`, of which only the numbering of replies changes state |
| `ReadOther` | ... with an empty or unknown payload |
| `OnUdpTimedOut` | the sweep timer: drop old entries, emit `readyRead` |
| `Arrive`, `Tick` | network and clock |

The read slot is a loop over pending datagrams; `slot = "reading"` while it is due or in
the loop. Neither the clock nor the sweep timer moves in the middle of a slot, but
datagrams may arrive. `issued` is a history of the challenges sent, which no action reads
except to let a game server answer one of its own.

**`StatusChecker`.** The clock counts ticker intervals. `OnTicker` is the whole slot with
`getNextServer` and the `readyRead` workaround; `OnReset` is the lambda of the reset timer;
`ReadValidate`, `ReadFragment` and `ReadFinal` are the turns of the reader's loop. A game
server answers each request with `Parts` datagrams after the answer to a challenge, and
the constants `Lossy`, `Duplicate`, `Reorder`, `LateReplies`, `LoseSignal` and
`SqlMayFail` choose what may go wrong. Each field stored in `serverinfo` is represented by
the poll whose reply it comes from, so that mixed replies are visible. `ReplyFrom` lets a
server answer from another port than the one it was queried on.

**`Maintenance`.** `OnMaintenanceTimerAction` is the slot with its four calls in their
order; with `SqlMayFail` each statement may fail and the others go on. `Announced` and
`Checked` are what a heartbeat and a complete check write in between. Two histories that no
action reads: `missed`, which prunings failed in the last round, and `replied`, per address
the last reply since the server was outdated, which says what the tables have to hold.

**`ListClientHandler` and `ListSession`.** The stream to the handler is `toServer`, a
sequence of symbols, of which a read takes any number (`network = "cut"`) or exactly one
write of the client (`"whole"`).

| Action | Code |
|---|---|
| `Read` (`OnListenClientRead`) | `onListenClientRead`: timer, buffer, and when the *fragment* holds `\final\`, `Interaction`: `Validate`, `ServeList`, `ServeSync`, `ServeEcho` are its parts 1, 2, 2b and the optional echo, with the same returns between them |
| `TimeOut` | `onListenClientTimeOut` |
| `Disconnected` | `onListenClientDisconnect`, on the client's end of stream |
| `Drain` (`Flush`) | the socket's write buffer; `disconnectFromHost` closes only when it is empty |
| `Send`, `HangUp` | the client |

`Write` keeps both the text written and an entry of `served`, a history that says what it
was. Replies are compared as those entries; their text matters to the sync client.

**`SyncSession` and `SyncExchange`.** `OnSyncConnect`, `OnSyncRead`, `OnSyncTimeOut` and
`OnSyncDisconnect` are the slots of the sync client; `ServerReads`, `ServerTimeOut`,
`ServerDisconnected` and `ServerFlush` are the handler's, unchanged. Both buffers are
parsed by the same `Messages`. The refinement mapping reads the phase of the exchange off
the two ends: `applied` once the batch of inserts ran, `failed` when the client closed
without, `listed` when the handler has composed a list, `asked` before. `SyncExchange`
promises that the table changes in one step, only by rows of the composed list, and that
servers known before keep everything but `dt_sync`.

**`SyncNetwork`.** `OnUpdaterTimer` and `OnSyncTickerAction` are the two timers of each
masterserver; an exchange goes through the phases of `SyncExchange` (`Compose`, `Apply`,
`Fail`) while time passes, and ends by its own timer after `MaxDelay`. `Restart` keeps the
table and loses timers, index and connections. Time is in units of the ticker.

**`Startup`, `Settings`, `Logger`.** `pc` names the next statement of `Core::run`. Each
statement that touches the disk is an action, so that `Crash` can fall between any two;
those of `MayFail` may report an error, `MaxFaults` times.

| Action | Code |
|---|---|
| `LoadSettings` | `loadSettings`, `writeSettings` and all sanity checks (`ReadSettings`, `Accepted`) |
| `RefuseDatabase`, `VersionUnread`, `AcceptDatabase`, `AskForTables` | the branches of `initDatabase` |
| `CreateTable`, `InsertVersion` | the statements of `createTables` |
| `GamesMissing`, `LoadSupportedGames`, `InsertGame` | `loadSupportedGames`: count, delete, one insert per game |
| `InitLog`, `UdpListen`, `TcpListen`, `StartServices` | the rest of `Core::run` |
| `LogEvent` | `logEvent` of the running program, with `cycleLogFile` |
| `Configure`, `Midnight`, `Crash`, `Start` | operator, calendar, operating system |

## 3. Runs

Each run finishes in at most a few minutes with two workers; the properties are stated in
the modules, each with the behaviour it is about.

| Run | Configuration | Shows |
|---|---|---|
| `BeaconServer` | one host, two ports, two games, missed signals, clock 0..3 | rows unique, authentication earned, pending challenges are for unauthenticated rows, waits bounded, nothing taken back |
| `CheckerReliable` | three servers, replies of two parts, two full cycles | stored gamename and details are those of one reply; each server asked once per cycle, none forgotten |
| `CheckerUnreliable` | one server answering from another port; loss, duplicates, reordering, late replies, missed signals, failing statements | `f_auth` only by an answer of this cycle; one row per address in each table until a statement fails; unsignalled data read within two queries |
| `Maintenance` | two servers, three rounds, statements may fail | stale flags and players go in one interval, also after failed rounds; servers that are up to date keep what their last reply brought |
| `ListSession` | 21 client scripts, streams whole and cut | no list without validation, at most one list, whole writes get what they ask for, every connection ends |
| `SyncSession` | sync client and list server, both streams whole and cut, both timers | the exchange implements `SyncExchange`; a whole exchange succeeds and brings every due row, new ones under the game of the remote; both ends close |
| `SyncNetwork` | two masterservers, a dead peer, lost exchanges, one restart | a stopped server is forgotten by both in bounded time; every peer contacted in every interval |
| `Startup` | stops anywhere, two failing statements, five settings files, three days around new year | services run on a whole database, complete games and the sync servers the file lists; a good database is not refused; messages under their date |
| `BeaconRechallenge` | one server | *violation:* a server whose one challenge is lost is never challenged again |
| `ListSplit` | one client, cut stream | *violation:* a terminator split over two reads leaves a complete request unanswered |
| `SyncVerified` | the network of `SyncNetwork` | *violation:* a server known through synchronisation only is passed on as verified |
| `MaintenanceOutdated` | the servers of `Maintenance`, four rounds, no failing statement | *violation:* the details of an outdated server are not pruned |

**Bounds.** `MaxTime` bounds the clock, `MaxPending` a receive buffer (a full buffer
drops, as the operating system's does), `MaxRows` the rows that failed statements may add,
`MaxFaults` and `MaxRestarts` the faults. They reach the cases the properties are about:

* `BeaconServer`: with `Timeout = 1` a clock of 3 reaches a challenge that is refreshed,
  one that is swept, an answer just before and just after the sweep, and a datagram that
  waits for the signal of the next sweep. Two ports and four announcements (with and
  without a port, a game that needs no challenge, one without default port; the unknown
  game is announced in the violation run) let each port announce the other while the
  other's challenge is pending. One datagram in the buffer is enough for ordering, since
  arrival order is free. Longer timeouts are covered by the theorems.
* `CheckerReliable`: three servers in a cycle of four ticks give a full cycle, an idle
  tick, and a reset on either side of the tick that is due with it; a clock of 9 passes
  the second reset. `Ttl = 4` lets servers expire and be revived. Two parts per reply
  allow a status to be read half, and the buffer holds both.
* `CheckerUnreliable`: one server, so that successive polls of the same address meet;
  a clock of 3 with `CycleTicks = 2` has a reply of the first cycle arrive in the second.
  The answers come from an address nobody announced, so that the update fails, the row is
  inserted beside the one that was asked. The statements of one reply may fail in any
  combination; what only needs one failure is reached, and failures of several replies are
  covered by the theorem for `AuthEarned`.
* `Maintenance`: ages and interval of 1 and a clock of 3 give three rounds: one in which
  nothing is too old, one that should prune and fails, and one that has to make up for it.
  With `Ttl = 2` a server is outdated within the run and may come back with a heartbeat. The
  two hosts are interchangeable and the symmetry is used; there is no liveness property.
* `MaintenanceOutdated`: the fourth round is the first one a whole interval after a
  server that replied at the start became outdated.
* `ListSession`: each script is a sequence of writes; together they put right, wrong,
  foreign and unsupported answers before, after and together with each kind of request.
  The table has a row that is known through synchronisation only and one that is too old.
* `SyncSession`: the remote table is empty or holds two rows due and one not; the local
  one is empty or knows one of them under another game. The sync client asks for two
  games and one that is not supported.
* `SyncNetwork`: `A` has a dead peer before `B`, so that the walk has to step over it; the
  bound of `StaleForgotten` is reached after the last heartbeat with two hops to spare
  (`MaxTime = 8`, `Ttl = 2`, `MaxDelay = 1`).
* `Startup`: the days are the 31st of December, the 1st and the 4th of January, where
  year, month and ISO week change on different days. `MayFail` leaves out the
  DELETE of `loadSupportedGames` (see section 5); two faults are one in each of two starts,
  or an error and a failed reaction to it.

`StatusChecker` and `SyncNetwork` have the action `Horizon`, which lets the model stutter
when the bounded clock ends; the sessions stutter when both ends are closed, and a refused
start can always be repeated. Deadlock is checked in every run.

**Time and fairness.** Fairness is only assumed in `ListSession` and `SyncSession`, and
weakly: of the timeouts (Qt fires a running timer) and of the end-of-connection signals,
and in `ListSession` also of `Drain`, that is, of a client that reads what it is sent.
`SyncSession` assumes nothing of `ServerFlush`: the client's own timer closes its end, and
the handler sees that. Nothing is assumed of reads, of the client's writes or of the
network, so a client that stops in the middle is included. Elsewhere what must happen eventually is stated with a deadline, as a safety
property (`BoundedWait`, `ReadInTime`, `ReadAfterTwoQueries`, `CycleCoversAll`,
`DirectIsRecent`, `PlayersRecent`, `StaleForgotten`, `EveryPeerContacted`): the clock cannot
pass the deadline of a timer that is due. That is what a running event loop gives; a loop
that blocks for whole seconds, and the five per cent by which Qt's coarse timers may be
late, are not modelled. Time is counted in the units the code compares.

## 4. What is proved

TLAPS checks these for every value of the constants:

| Module | Theorem | States | Rests on |
|---|---|---|---|
| `BeaconServerProofs` | `TypeCorrect` | `[]TypeOK` | induction on `TypeOK`; the table functions keep the type |
| | `BoundedWaitHolds` | `[]BoundedWait` | `SweptInTime`: the next sweep comes at most two timeouts after each pending challenge |
| | `ReadInTimeHolds` | `[]ReadInTime` | `SignalledInTime`: while the slot is idle the next sweep comes at most one timeout after each waiting datagram |
| | `AuthEarnedHolds` | `AuthEarned` | `Recorded`: a pending entry is the last challenge issued to its sender; `SweptInTime` |
| | `UniqueAddressHolds` | `[]UniqueAddress` | `UpsertServerUnique`; needs `SqlMayFail = FALSE` |
| | `PendingUnauthenticatedHolds` | `[]PendingUnauthenticated` | `PendingInv`, with `OneChallengeEach`; needs `SqlMayFail = FALSE` |
| | `RowsKeptHolds` | `RowsKept` | `RowTimes`: no time stamp lies in the future |
| `SharedProofs` | `UpsertServerUnique` | update-or-insert keeps addresses unique | nothing |
| `StatusCheckerProofs` | `CheckerTypeCorrect` | `[]TypeOK` | `CheckerTypes`, with `PollInv` and `Typed`; the rows a batch inserts are numbered without gaps |
| | `AskedOnceHolds` | `[]AskedOnce` | `PollInv`: rows asked in this cycle lie at or before `_dbIndex` |
| | `ReadAfterTwoQueriesHolds` | `[]ReadAfterTwoQueries` | `Unread`: what `_missedReadCalls` counts |
| | `AuthEarnedHolds` | `AuthEarned` | `Typed`, `Challenged`: a buffered challenge was sent in this cycle to the row of its address; needs that the empty name is no override |
| | `UniqueAddressHolds` | `[]UniqueAddress` | `Typed`, `UpsertServerUnique` |
| | `OneInfoPerServerHolds` | `[]OneInfoPerServer` | `StoredOnce`: what the three statements of a reply leave for its server; `UniqueAddress` |
| | `GamenameTrueHolds`, `InfoFromOneReplyHolds` | the invariants of these names | `InOrder`: network, socket and buffer hold, for each address, the rest of one reply in its order; needs `Orderly` |
| | `CycleCoversAllHolds` | `CycleCoversAll` | `WalkInv`: with the ticks left in the cycle `_dbIndex` still reaches every row; needs `EnoughTicks` |
| `MaintenanceProofs` | `TypeCorrect` | `[]TypeOK` | with `OnTime`: the clock stops at the deadline of the round |
| | `DirectIsRecentHolds`, `PlayersRecentHolds` | the invariants of these names | `FreshUntilRound`: the same bound, with the deadline of the round in place of the clock; `Attached`: players belong to stored details |
| | `KeepsCurrentDataHolds` | `[]KeepsCurrentData` | `Held`: the tables hold the last reply of each server since it was outdated, under the id its row still has; `Attached` |
| `ListSessionProofs` | `OneListPerConnectionHolds` | `[]OneListPerConnection` | `Earlier`: a connection that is open has been given no list yet |
| | `ListsFollowAnswersHolds` | a list is written only after an answer the handler accepts for some game the client named | `Following`: the buffer and the stream are one text, in which each key has only values the requests gave it; `Trusting`: `_hasValidated` follows such an answer |
| | `ListsAreEarnedHolds` | `[]ListsAreEarned` | the same; needs `AnswerAssumption` |
| | `AnsweredWhenWholeHolds` | `[]AnsweredWhenWhole` | `Whole`: the handler is where the outcome of the turns it has read says, and the stream holds the rest; needs `TurnAssumption` and `RowsAssumption` |
| `SyncSessionProofs` | `SessionIsAtomic` | `ExchangeIsAtomic`: the session implements `SyncExchange` | `SessionInv`: what the two ends hold and what is in the two streams at each stage; the parser's lemmas |
| | `WholeExchangeHolds` | `[]WholeExchangeSucceeds` | `WholeInv`: the stages of a session that nothing cuts and no timer ends |
| | `SyncCompleteHolds` | `SyncComplete` | `SessionInv`, whose lists of whole requests are `Complete`; `SessionStep`: the one step that applies a list is the abstract `Apply`; needs `RemoteSupports` and another masterserver's identity |
| `SyncNetworkProofs` | `NetworkTypeCorrect` | `[]TypeOK` | `WalkInv` and `StaleInv` |
| | `EveryPeerContactedHolds` | `[]EveryPeerContacted` | `WalkInv`: index and deadlines tell when each peer was and will be contacted |
| | `StaleForgottenHolds` | `[]StaleForgotten` | `StaleInv`: no row is renewed later than its last heartbeat plus one hop for each masterserver that lists the address |
| `StartupProofs` | `StartupTypeCorrect` | `[]TypeOK` | `StartupTypes`, with `DatabaseInv` |
| | `SettingsSoundHolds` | `[]SettingsSound` | `SoundSettings` at each place after the checks; `ParsedWhole`, `GoodElement`: a list without a parse error has every element of the file as it is written; `ReadSound` |
| | `RunsOnWholeDatabaseHolds`, `StaysUsableHolds` | the invariants of these names | `DatabaseInv`: which tables exist at each statement, after any stop or error |
| | `GamesCompleteHolds` | `[]GamesComplete` | `GamesInv`: as many games as in the file are the games of the file; needs that the DELETE does not fail |
| | `LoggedUnderItsDateHolds` | `LoggedUnderItsDate` | `LogInv`: the open file is that of the last name, unless its open failed |

Types aside, none of the properties is inductive as it is stated. Some examples:

* `BoundedWait` speaks of the clock and a challenge, but it is the deadline of the sweep
  timer that keeps the clock back, so the induction needs where that deadline lies for
  each entry. `DirectIsRecent`, `PlayersRecent` and `EveryPeerContacted` are of this kind.
* `AuthEarned` of the beacon server speaks of the history of challenges, and the entry in
  `_beaconList` is all the code has; the induction needs that the two agree. In the checker
  the same holds for `_secureBuffer`, which the reset timer clears, and late answers
  find it empty.
* `PendingUnauthenticated` would break if two senders had a challenge pending for one
  address, since the answer to one authenticates the row of both; that this cannot happen
  (a challenge is only issued with a new row) is a conjunct of `PendingInv`.
* `GamesComplete` holds after the load that completes, but the next start only compares
  counts: between DELETE and the last INSERT the table must hold fewer games than the
  file, wherever the program stops.
* `StaleForgotten` speaks of all masterservers at once, since they may ask each other in
  circles. A row may be renewed by a peer that itself only heard of the server; but a list
  only adds time when it makes a masterserver list the address that did not, so the
  allowance of an address grows with the set of its holders, which is finite.
* `GamenameTrue` and `InfoFromOneReply` depend on where the parts of a reply are: some
  still in the network, some in the socket, some in `_dataBuffer`. `InOrder` says which
  part is next, for one poll at a time.
* `CycleCoversAll` needs how far the walk can still get: rows that are inserted, expire or
  are revived during the cycle move it, but never by more than one row per address.
* `ExchangeIsAtomic` says nothing of fragments, and its proof is about little else. A stream
  and the buffer behind it are always one text in two parts, so `SessionInv` says which text:
  the greeting, an answer with the request behind it, or a list. A greeting that is cut in
  its challenge is answered wrongly, or without an answer, and such a session only
  fails. The slot that finds `\final\` in a fragment has the whole answer and some prefix
  of the request, `RequestUnderstood` says what the parser makes of each prefix, and
  `RightAnswer` that it is ignored or answered with a list of games that were asked for.
  The client applies a list when its buffer holds the word `final`, which may be before the
  last backslash has come, and then once more: the second time changes nothing
  (`MarkedStays`).
* `AnsweredWhenWhole` compares a state machine with an outcome that is computed from the
  requests alone, so its proof goes through the whole of the slot. `Whole` says that
  between two turns the buffer is empty or holds a complete interaction, so that the next
  turn is parsed alone, and that the handler has the flags of the outcome so far. The
  parser then puts the pairs of each request in its place (`ScanRequests`); each look-up of
  the slot finds what the request that gives it says, through the overrides, and nothing
  where no request does (`Finds`); each branch of the slot writes what is due; and
  the outcome is a fold that the next turn continues (`ExpectedIsOutcome`). A closing
  socket reads no further turn, and the outcome says the same of a refused client.

The named assumptions on the constants are `CipherAssumption`, `BeaconAssumption`,
`CheckerAssumption`, `MaintenanceAssumption`, `HandlerAssumption`, `OverrideAssumption`,
`SessionAssumption`, `ScriptAssumption`, `AnswerAssumption`, `TurnAssumption`,
`RowsAssumption`, `NetworkAssumption`, `LoggerAssumption` and `StartupAssumption`; TLC
evaluates each of them. Apart from types they say that no cipher is the placeholder for noise, that port 0
is no port, that intervals and timeouts are positive, that there are finitely many
masterservers, that each value in a settings file has a type `QSettings` can return
(`Readable`: `toInt()` gives an integer for any text), and, in `NetworkAssumption`, that
the interval of the updater is longer than the list of its peers; the code accepts a
shorter one, with which the peers at the end would never be contacted. `SessionAssumption`
says that the words of a sync session can be told apart: no name of a game, address,
cipher or identity is one of the exchange's keys, no override renames them, and `all`
stands alone in the setting (behind other games the code would take it for the name of a
game; before them, a cut after it would ask for all games). `ScriptAssumption` says the
same of a client's requests: whatever words a client chooses for values and options, none
of them is one of the handler's keys in a place where a cut could make a key of it, the
game it writes is the game it means after the overrides, and `enctype` is given once.
`AnswerAssumption` says that no client sends, as its only answer, one that is right for
another game it names. The handler holds the answer against the oldest game in its
buffer, so a client that asks for the list of `ut` and, in the same write, answers for
`unreal` with what is right for `ut`, is let through (section 5); it has shown the answer of
a game it named, which is what `ListsFollowAnswersHolds` says without the assumption.
`TurnAssumption` is needed by `AnsweredWhenWholeHolds` alone, and says what it is to ask in
turn: one write holds at most one answer, one request for a list and one for a sync list,
since the slot looks up each key once; the list comes after the answer, since its game is
the later `gamename`; a wrong answer is not right by chance (a supported game without a
cipher accepts `invalid!`, section 5); and a wrong answer that may find an echo reply
unwritten comes alone, since the socket is only closing then and the slot would go on to the
list. `RowsAssumption` types the rows of the table, as the columns do.

Some theorems have hypotheses of their own, without which the property is false:

* `SqlMayFail = FALSE` where addresses are said to be unique: a failed UPDATE really leads
  to two rows of one address (section 5). The checker's `UniqueAddress` and
  `OneInfoPerServer` state this themselves, they speak of the time until a statement fails.
* `Orderly`: the network neither loses, repeats nor reorders, no reply comes after the
  cycle in which it was asked for, servers answer from the address they were asked on and
  no statement fails; the status query is sent (`Extended`). Where a part of a reply is
  missing or comes twice, the code stores what it has (section 5). The signal may still be
  missed, and any number of servers, parts and cycles is allowed.
* `EnoughTicks`: fewer addresses can have a row than a cycle has ticks, and no statement
  fails. The code does not check it; with more servers the last ones are not asked.
* That DELETE of `loadSupportedGames` does not fail, for `GamesComplete`.
* `RemoteSupports`, for `SyncComplete`: the games whose servers the remote heard from are
  games it supports. It holds while the list of games stays the same: heartbeats of other
  games are dropped (`heartbeatgamespy0.cpp:26`), but rows outlive a start with another list,
  and the checker stores the name a server gives (`oncheckerresponseread.cpp`). And a
  masterserver that asks itself is sent nothing.

**Model-checked only.** `TypeOK` of `ListSession` and of `SyncSession`. They say that the
streams are sequences of strings, and no backend proves that a string literal is in
`STRING`; `SessionInv`, `Following` and `Whole` give the types the steps of a session need,
with the words of the exchange in place of all strings.

**Out of the prover's reach.** Liveness under fairness (`ConnectionEnds`, `SessionEnds`) and
ENABLED; induction over data with the library's theorems, because they take an operator as a
parameter. What a fold does to a list of rows is proved instead from the recursive function
that defines it and induction on a set of naturals (the lemmas at the head of
`SyncNetworkProofs` and `SharedProofs`). `SharedProofs` does so for the parser: a chain of
states for each fold (`Split`, the loop over the fields, `Pick`, `FlattenSeq`), then what
`\key\value` adds to a text that has been read (`ReadsPair`) and what a text that ends
inside a pair is read as (`PairPrefix`). `OneListPerConnectionHolds` treats the parser as
opaque: it holds whatever it returns. `AnsweredWhenWholeHolds` also needs that `SetToSeq`, a
CHOOSE over injections, returns a sequence of all the games that `all` asks for;
`SetToSeqLists` proves it for every finite set. No module of the project declares a
RECURSIVE operator.

## 5. What the model showed about the code

The four violation runs are disagreements between the code and what its comments,
documentation or changelog say; `PROJECT.json` quotes both sides. Further behaviours that
showed up while modelling, which are limits of the approach and not claims of the code:

* Table: `updateServer` answers `false` for an error too, so a failed UPDATE is followed by
  an INSERT and the address has two rows (`updateserver.cpp:43`).
* Checker: with more live servers than ticks in a cycle the last ones are never queried.
  An answer that comes after the reset finds no gamename and is stored under the
  empty one (`oncheckerresponseread.cpp:67`). A reply without a gamename, as to an
  `\info\` request, renames the row to `unknown` (`:89`). The `readyRead` workaround runs
  only on ticks that found a server. A datagram with `\final\` that overtakes an earlier
  part ends the reply without it.
* Maintenance: details of servers that are outdated are never pruned
  (`pruneserverinfo.cpp:6`, the run `MaintenanceOutdated`). `KeepsCurrentData` does not say
  that they stay: a pruning of outdated details, as the documentation has it, would satisfy
  both. A game whose last server was renamed keeps its counts in `gameinfo`.
* List server: a closing socket is only closed when its data is read, and its timer is
  stopped by then. A wrong answer closes the socket and the slot goes on: while an echo
  reply is still to be written the socket is only closing, and a client that had validated
  before is written the list it asks for in the same request. The answer is held against the oldest
  game in the buffer, so when the stream is cut between pipelined requests, the answer for
  one game may count for another. A supported game without a cipher is answered by the
  text `invalid!`, which the handler then accepts (`securevalidate.cpp:44`). A sync request is
  only answered when some `\final\` comes with it.
* Sync client: a failing COMMIT is not noticed. A server that is known under one game keeps
  it when another masterserver lists it under a different one (`updatesyncedserver.cpp:11`).
* Start-up: a program stopped between the CREATE TABLE of `serverlist` and the version's
  INSERT leaves a database that every later start refuses, as does a failed INSERT of the version. Equal counts are
  taken for equal games, so a failed DELETE followed by a stop may leave wrong ones.
  `Dockerfile:22` says that `AUTO_CREATE_DB=y` skips the question for the tables; nothing
  reads it, and `initDatabase` always asks (`AskForTables`).
* Settings: an interval in seconds times 1000 may overflow an `int`, `MaintainRate_s` is
  not checked at all, and an array size smaller than its entries hides the rest.
  `SettingsSound` therefore speaks of ports and sync servers, and of no interval.
* Logger: the weekly name combines the calendar year with the ISO week, so that the 30th
  of December 2024 is logged as week 1 of 2024; a file that could not be opened is not
  tried again before the next period.
* The result of `bind` on the UDP socket is not used (`udplisten.cpp:10`), and `_queryId`
  starts with an indeterminate value.

## 6. What is not modelled, and the plan

Left out for good:

* the beacon uplink, a timer that sends one fixed datagram and reacts to nothing;
* the byte permutation of enctype2 (third-party arithmetic without state), and the
  cipher's own arithmetic: both are functions the model knows by what they promise;
* the contents of the replies of `replyQuery`, except their numbering;
* characters inside a word: trimming and case, except for the look-ups they
  decide;
* which messages are suppressed by the settings, and the wording of all of them;
* datagrams to the checker that are empty or do not begin with a backslash, which it
  ignores, and the parsing of datagrams: the two UDP models start from their fields;
* the comparison of a `float` with a `double` in `initDatabase`: versions are compared as
  exact hundredths, which decides alike for the versions there are;
* Qt's own sockets, timers and event queue, an event loop that blocks, coarse timers.

What could follow, in this order:

1. `ServerDirectory`: an abstract directory (announce, prove, seen, forget) over one table
   that beacon server, checker, maintenance and sync client implement together.
2. `TypeOK` of the two sessions as theorems, with the words of the exchange as the type of
   the streams in place of `STRING`.
