----------------------------- MODULE SyncNetwork -----------------------------
(***************************************************************************)
(* Several masterservers that synchronise with each other: the sync        *)
(* updater of each, their tables, and the exchanges under way, each of     *)
(* them as SyncExchange abstracts it: a list is composed, then applied or  *)
(* lost.  Time is counted in grace times of the updater (30 s).            *)
(***************************************************************************)
EXTENDS ServerList, FiniteSets, SequencesExt

CONSTANTS Masters,       \* the masterservers
          Peers,         \* master -> syncServers of its settings, some perhaps dead
          GameOf,        \* address -> the game of the server there
          Uplinks,       \* address -> the masterservers it sends heartbeats to
          Interval,      \* syncInterval_s
          MaxDelay,      \* how long an exchange lasts before its timers end it
          Ttl, MaxTime, MaxRestarts

NoTimer == -1

ASSUME NetworkAssumption ==
    /\ IsFiniteSet(Masters)
    /\ Peers \in [Masters -> Seq(STRING)]
    /\ GameOf \in [Address -> GameName] /\ Uplinks \in [Address -> SUBSET Masters]
    /\ Interval \in Nat \ {0} /\ MaxDelay \in Nat \ {0}
    /\ Ttl \in Nat \ {0}
    \* The code accepts any interval; with a shorter one the walk is cut short.
    /\ \A m \in Masters : Interval > Len(Peers[m])

VARIABLES now,
          table,         \* the serverlist of each masterserver
          syncIndex,     \* _syncIndex of each, servers asked since the walk began
          ticker,        \* deadline of _syncTicker, or NoTimer
          updater,       \* deadline of _updaterTimer
          exchanges,     \* the connections of sync clients
          restarts,      \* crashes so far
          heard,         \* history: when a masterserver last heard from the server itself
          contacted      \* history: when each peer was last contacted, or the program started

timers == <<syncIndex, ticker, updater>>
vars == <<now, table, timers, exchanges, restarts, heard, contacted>>

Exchange == [by : Masters, of : STRING, phase : {"asked", "listed"}, list : SUBSET Address,
             since : Nat]

TypeOK ==
    /\ now \in Nat /\ restarts \in Nat
    /\ table \in [Masters -> Table]
    /\ \A m \in Masters : syncIndex[m] \in 0 .. Len(Peers[m])
    /\ ticker \in [Masters -> Nat \cup {NoTimer}] /\ updater \in [Masters -> Nat]
    /\ exchanges \subseteq Exchange
    /\ heard \in [Address -> Int]

Started(m) == [i \in DOMAIN Peers[m] |-> now]

\* scheduleUpdater: "run immediately at startup".
Init ==
    /\ now = 0 /\ table = [m \in Masters |-> << >>]
    /\ syncIndex = [m \in Masters |-> 0]
    /\ ticker = [m \in Masters |-> 1] /\ updater = [m \in Masters |-> Interval]
    /\ exchanges = {} /\ restarts = 0
    /\ heard = [a \in Address |-> -1]
    /\ contacted = [m \in Masters |-> Started(m)]

Due == {ticker[m] : m \in Masters} \cup {updater[m] : m \in Masters}
       \cup {x.since + MaxDelay : x \in exchanges}

Tick ==
    /\ now < MaxTime /\ now \notin Due
    /\ now' = now + 1
    /\ UNCHANGED <<table, timers, exchanges, restarts, heard, contacted>>

\* A heartbeat of a server that is alive, as BeaconServer stores it.
Hear(m, a) ==
    /\ m \in Uplinks[a]
    /\ table' = [table EXCEPT ![m] = UpsertServer(@, a, GameOf[a], 1, now, "ok", "ok")]
    /\ heard' = [heard EXCEPT ![a] = now]
    /\ UNCHANGED <<now, timers, exchanges, restarts, contacted>>
-----------------------------------------------------------------------------
(* The updater.                                                            *)

\* Faulty variant: the index keeps its value.
StartWalkOn(m) == UNCHANGED syncIndex /\ ticker' = [ticker EXCEPT ![m] = now + 1]

\* "reset and start ticker"
StartWalk(m) ==
    /\ syncIndex' = [syncIndex EXCEPT ![m] = 0]
    /\ ticker' = [ticker EXCEPT ![m] = now + 1]

OnUpdaterTimer(m) ==
    /\ updater[m] = now
    /\ StartWalk(m) /\ updater' = [updater EXCEPT ![m] = now + Interval]
    /\ UNCHANGED <<now, table, exchanges, restarts, heard, contacted>>

EntryLeft(m) == syncIndex[m] < Len(Peers[m])

OnSyncTickerAction(m) ==
    /\ ticker[m] = now
    /\ IF EntryLeft(m)
       THEN /\ syncIndex' = [syncIndex EXCEPT ![m] = @ + 1]
            /\ ticker' = [ticker EXCEPT ![m] = now + 1]
            /\ exchanges' = exchanges \cup
                   {[by |-> m, of |-> Peers[m][syncIndex[m] + 1], phase |-> "asked",
                     list |-> {}, since |-> now]}
            /\ contacted' = [contacted EXCEPT ![m][syncIndex[m] + 1] = now]
       ELSE /\ ticker' = [ticker EXCEPT ![m] = NoTimer]
            /\ UNCHANGED <<syncIndex, exchanges, contacted>>
    /\ UNCHANGED <<now, table, updater, restarts, heard>>
-----------------------------------------------------------------------------
(* The exchanges.                                                          *)
Listed(m) == UNION {{table[m][id].addr : id \in SelectServerList(table[m], g, Ttl, 0, now)} :
                        g \in GameName}

Compose(x) ==
    /\ x.phase = "asked" /\ x.of \in Masters
    /\ exchanges' = (exchanges \ {x})
           \cup {[x EXCEPT !.phase = "listed", !.list = Listed(x.of)]}
    /\ UNCHANGED <<now, table, timers, restarts, heard, contacted>>

\* Each server of a list in turn.
StoreList(t, order) == FoldLeft(LAMBDA u, a : SyncServer(u, a, GameOf[a], now), t, order)

\* A set does not keep the order of the message.
Apply(x) ==
    /\ x.phase = "listed"
    /\ exchanges' = exchanges \ {x}
    /\ \E order \in SetToSeqs(x.list) :
           table' = [table EXCEPT ![x.by] = StoreList(@, order)]
    /\ UNCHANGED <<now, timers, restarts, heard, contacted>>

Fail(x) ==
    /\ exchanges' = exchanges \ {x}
    /\ UNCHANGED <<now, table, timers, restarts, heard, contacted>>

\* A masterserver stops and is started again: the database remains, connections and
\* timers do not.
Restart(m) ==
    /\ restarts < MaxRestarts /\ restarts' = restarts + 1
    /\ syncIndex' = [syncIndex EXCEPT ![m] = 0]
    /\ ticker' = [ticker EXCEPT ![m] = now + 1]
    /\ updater' = [updater EXCEPT ![m] = now + Interval]
    /\ exchanges' = {x \in exchanges : m # x.by /\ m # x.of}
    /\ contacted' = [contacted EXCEPT ![m] = Started(m)]
    /\ UNCHANGED <<now, table, heard>>

\* The bounded clock stops here, the program does not.
Horizon == now = MaxTime /\ UNCHANGED vars

Next ==
    \/ Tick \/ Horizon
    \/ \E m \in Masters, a \in Address : Hear(m, a)
    \/ \E m \in Masters : OnUpdaterTimer(m) \/ OnSyncTickerAction(m) \/ Restart(m)
    \/ \E x \in exchanges : Compose(x) \/ Apply(x) \/ Fail(x)

Spec == Init /\ [][Next]_vars
-----------------------------------------------------------------------------
(* What must hold.                                                         *)

\* The most that passes from a row's dt_updated to the end of an exchange that lists it.
HopTime == Ttl - 1 + MaxDelay

Forgotten == Cardinality(Masters) * HopTime + Ttl

\* A server that stopped disappears from every list after a bounded time, although
\* masterservers tell each other of it in circles: a list repeats only what is in
\* dt_updated, and synchronisation sets that column once per masterserver, on insert.
StaleForgotten == \A m \in Masters : \A id \in DOMAIN table[m] :
    Recent(table[m][id], Ttl, now) => now - heard[table[m][id].addr] < Forgotten

\* Every configured server is contacted within one interval after the last contact or
\* the start, also when the ticker and the updater's timer are due together, when
\* other peers are dead and when the program is restarted.
EveryPeerContacted == \A m \in Masters : \A i \in DOMAIN Peers[m] :
    now - contacted[m][i] <= Interval

\* "only verified, not from other syncs": a list for another masterserver names only
\* servers that its sender heard from itself within the life time of a row.
SyncListVerified == [][\A x \in exchanges' \ exchanges :
    x.phase = "listed" =>
        \A a \in x.list : \E id \in RowsOf(table[x.of], a) : table[x.of][id].f_direct = 1]_vars
=============================================================================
