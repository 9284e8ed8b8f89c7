----------------------------- MODULE SyncSession -----------------------------
(***************************************************************************)
(* A connection between two masterservers: the sync client of the local    *)
(* one and the list server of the remote one.  Both ends read fragments    *)
(* that the network cuts from the streams, both have a timer of 15 s.      *)
(* Requests and lists are text; the keys of the client's answer that the   *)
(* list server does not look at are left out.                              *)
(***************************************************************************)
EXTENDS ListClientHandler

CONSTANTS SelfGame,        \* TYPE_GAMENAME, the game a masterserver validates for
          SyncGames,       \* the setting, a sequence of games or <<"all">>
          Msid,            \* identity of the local masterserver
          RemoteTables, LocalTables,   \* tables to start from
          MayCut           \* what the network may do: a subset of {"whole", "cut"}

\* The words the two ends know each other's messages by.
SessionKeys == {"basic", "secure", "validate", "gamename", "final", "sync", "msid"}

SyncWords == {SyncGames[i] : i \in DOMAIN SyncGames}

\* The local masterserver validates for a game with a cipher; the parser reads the
\* keys of the exchange and the names of games as they are written, and no name,
\* address, cipher or identity is one of those keys.
ASSUME SessionAssumption ==
    /\ RemoteTables \subseteq Table /\ LocalTables \subseteq Table /\ Now \in Nat /\ Ttl \in Nat
    /\ SyncGames \in Seq(SyncWords)
    /\ SyncGames = <<"all">> \/ "all" \notin SyncWords
    /\ SelfGame \in DOMAIN Cipher \ OverrideClient /\ Cipher[SelfGame] # "invalid!"
    /\ \A k \in SessionKeys \cup GameName \cup SyncWords : k \notin DOMAIN LowerCase \cup DOMAIN ValidKeys
    /\ \A g \in SyncWords \cup {SelfGame} : g \notin DOMAIN LowerCase \cup DOMAIN ValidGamenames
    /\ \A w \in {SelfGame, Cipher[SelfGame], Msid} \cup {AddressText[a] : a \in Address}
                 \cup GameName \cup SyncWords : w \notin SessionKeys \cup {Backslash}

VARIABLES client,          \* the SyncClient and its socket
          toClient,        \* what the handler wrote and the client has not read
          local,           \* the database table of the local masterserver
          network,         \* "whole" or "cut"
          applied, expired \* history: was a list applied, did a timer expire

vars == <<connection, serverlist, client, toClient, local, network, applied, expired>>

Client == [state : {"connecting", "open", "closed"}, timer : Timer, rxBuffer : Seq(STRING)]

TypeOK ==
    /\ handler \in Handler /\ client \in Client
    /\ toServer \in Seq(STRING) /\ toClient \in Seq(STRING) /\ peer \in {"open", "closed"}
    /\ serverlist \in Table /\ local \in Table
    /\ applied \in Bit /\ expired \in Bit

Init ==
    /\ client = [state |-> "connecting", timer |-> "running", rxBuffer |-> << >>]
    /\ handler = [NewHandler EXCEPT !.state = "closed", !.timer = "stopped"]
    /\ toServer = << >> /\ toClient = << >> /\ peer = "open"
    /\ serverlist \in RemoteTables /\ local \in LocalTables
    /\ network \in MayCut /\ applied = 0 /\ expired = 0
-----------------------------------------------------------------------------
(* The client.                                                             *)

\* The connection is made and accepted: onSyncConnect, onListenConnection.
OnSyncConnect ==
    /\ client.state = "connecting"
    /\ client' = [client EXCEPT !.state = "open", !.timer = "running"]
    /\ handler' = NewHandler /\ toClient' = Greeting
    /\ UNCHANGED <<toServer, peer, serverlist, local, network, applied, expired>>

\* The answer to a challenge; a part of the challenge is too short for one.
Answers(data) ==
    LET whole == Value(data, "secure", << >>) = ChallengeText
        answer == ReturnValidate(SelfGame, IF whole THEN Challenge ELSE NoSecure)
    IN  IF HasKey(data, "secure") /\ SelfGame \in SupportedGames
        THEN Text(<< <<"validate", <<answer[1]>> >> >>) ELSE << >>

\* replyQuery
Reply(data) == Answers(data)
    \o (IF HasKey(data, "basic") THEN Text(<< <<"gamename", <<SelfGame>> >> >>) ELSE << >>)
    \o Final

SyncRequest == Text(<< <<"sync", SyncGames>>, <<"msid", <<Msid>> >> >>)

\* Valid addresses of a field; the port and host are checked after the split.
AddressesIn(field) ==
    LET valid == Pick(field, {i \in DOMAIN field : \E a \in Address : AddressText[a] = field[i]})
    IN  [i \in DOMAIN valid |-> CHOOSE a \in Address : AddressText[a] = valid[i]]

\* The rows of a list in the order the hash gives the games: any.
Rows(data, order) ==
    FlattenSeq([k \in DOMAIN order |->
        LET entry == data[order[k]]
            addresses == AddressesIn(entry.value)
        IN  [i \in DOMAIN addresses |-> <<Word(entry.key), addresses[i]>>]])

SyncAll(table, rows) ==
    FoldLeft(LAMBDA t, row : SyncServer(t, row[2], row[1], Now), table, rows)

Games(data) == {i \in DOMAIN data : data[i].key # <<"final">>}

\* Faulty variant: rows are stored before the terminator has arrived.
ReadList(rxBuffer) ==
    LET data == ParseGameSpy0Buffer(rxBuffer)
    IN  /\ \E order \in SetToSeqs(Games(data)) : local' = SyncAll(local, Rows(data, order))
        /\ applied' = 1

\* The "final" branch: one transaction for all rows of the list.
ReadFinal(rxBuffer) ==
    LET data == ParseGameSpy0Buffer(rxBuffer)
    IN  IF Holds(rxBuffer, <<"final">>)
        THEN /\ \E order \in SetToSeqs(Games(data)) : local' = SyncAll(local, Rows(data, order))
             /\ applied' = 1
        ELSE UNCHANGED <<local, applied>>

\* Faulty variant: the challenge stays in the buffer.
KeepGreeting(rxBuffer) == rxBuffer

\* "all relevant information received. clear buffer for next interaction"
ClearGreeting(rxBuffer) == << >>

OnSyncRead(n) ==
    /\ client.state = "open" /\ n \in 1 .. Len(toClient)
    /\ LET rxBuffer == client.rxBuffer \o SubSeq(toClient, 1, n)
       IN  IF Holds(rxBuffer, <<"secure">>)
           THEN /\ toServer' = toServer \o Reply(ParseGameSpy0Buffer(rxBuffer)) \o SyncRequest
                /\ client' = [client EXCEPT !.rxBuffer = ClearGreeting(rxBuffer), !.timer = "running"]
                /\ UNCHANGED <<local, applied>>
           ELSE /\ ReadFinal(rxBuffer)
                /\ client' = [client EXCEPT !.rxBuffer = rxBuffer, !.timer = "running"]
                /\ UNCHANGED toServer
    /\ toClient' = SubSeq(toClient, n + 1, Len(toClient))
    /\ UNCHANGED <<handler, peer, serverlist, network, expired>>

\* Faulty variant: the timer is stopped and the socket left to itself.
StopTimer ==
    /\ client' = [client EXCEPT !.timer = "stopped"]
    /\ UNCHANGED <<handler, toServer, toClient, peer, serverlist, local, network, applied>>

CloseClient ==
    /\ client' = [client EXCEPT !.state = "closed", !.timer = "stopped"]
    /\ peer' = "closed" /\ toClient' = << >>
    /\ UNCHANGED <<handler, toServer, serverlist, local, network, applied>>

OnSyncTimeOut == client.timer = "running" /\ CloseClient /\ expired' = 1

\* The remote has closed its end and what it sent has been read.
OnSyncDisconnect ==
    /\ client.state = "open" /\ handler.state = "closed" /\ toClient = << >>
    /\ CloseClient /\ UNCHANGED expired
-----------------------------------------------------------------------------
(* The handler and the network.                                            *)
Cuts(stream) == IF network = "cut" THEN 1 .. Len(stream) ELSE {Len(stream)}

ClientReads == \E n \in Cuts(toClient) : OnSyncRead(n)

ServerReads ==
    /\ \E n \in Cuts(toServer) : OnListenClientRead(n)
    /\ UNCHANGED <<client, toClient, local, network, applied, expired>>

ServerTimeOut ==
    /\ OnListenClientTimeOut /\ expired' = 1
    /\ UNCHANGED <<client, toClient, local, network, applied>>

ServerDisconnected ==
    /\ OnListenClientDisconnect
    /\ UNCHANGED <<client, toClient, local, network, applied, expired>>

ServerFlush ==
    /\ \E n \in Cuts(handler.out) :
           /\ Flush(n)
           /\ toClient' = IF peer = "open" THEN toClient \o SubSeq(handler.out, 1, n) ELSE toClient
    /\ UNCHANGED <<client, local, network, applied, expired>>

\* A socket that is closed with unread data resets the connection: what is under
\* way to the client may be lost.
Reset ==
    /\ client.state = "open" /\ handler.state = "closed"
    /\ toServer # << >> /\ toClient # << >> /\ toClient' = << >>
    /\ UNCHANGED <<connection, serverlist, client, local, network, applied, expired>>

Over == client.state = "closed" /\ handler.state = "closed" /\ UNCHANGED vars

Next == OnSyncConnect \/ ClientReads \/ OnSyncTimeOut \/ OnSyncDisconnect
        \/ ServerReads \/ ServerTimeOut \/ ServerDisconnected \/ ServerFlush \/ Reset \/ Over

\* Both timers expire unless they are stopped, and the ends of a connection are signalled.
Fairness == /\ WF_vars(OnSyncTimeOut) /\ WF_vars(OnSyncDisconnect)
            /\ WF_vars(ServerTimeOut) /\ WF_vars(ServerDisconnected)

Spec == Init /\ [][Next]_vars /\ Fairness
-----------------------------------------------------------------------------
(* What must hold.                                                         *)

\* The list under way, as the pairs of game and address that were composed.
SyncsServed == {i \in DOMAIN handler.served : handler.served[i].type \in {"sync", "self"}}

Composed ==
    LET games == IF SyncsServed = {} THEN {}
                 ELSE UNION {{handler.served[i].games[k] : k \in DOMAIN handler.served[i].games} : i \in SyncsServed}
    IN  UNION {{<<g, serverlist[id].addr>> : id \in SelectServerList(serverlist, g, Ttl, 0, Now)} : g \in games}

Phase == IF applied = 1 THEN "applied" ELSE IF client.state = "closed" THEN "failed"
         ELSE IF SyncsServed # {} THEN "listed" ELSE "asked"

WantedGames == IF SyncGames = <<"all">> THEN GameName ELSE SyncWords

Exchange == INSTANCE SyncExchange WITH
    Wanted <- WantedGames, phase <- Phase, remote <- serverlist,
    list <- IF Phase = "listed" THEN Composed ELSE {}

\* Wherever both streams are cut and whichever timer expires, the exchange is the
\* abstract one: a list of servers the remote heard from itself, of games that were
\* asked for, is applied whole and once, or the table is left alone.
ExchangeIsAtomic == Exchange!Spec

\* Both ends of the connection end, each by its own timer if need be.
SessionEnds == <>(client.state = "closed" /\ handler.state = "closed")

\* When answer and request reach the remote in one piece and no timer expires, the
\* list is applied: the request carries no terminator of its own and is processed
\* only with the answer's.
WholeExchangeSucceeds ==
    network = "whole" /\ expired = 0 /\ client.state = "closed" => applied = 1

\* The rows of the requested games that the remote heard from itself.
HeardOf == {id \in DOMAIN serverlist :
    serverlist[id].gamename \in WantedGames /\ serverlist[id].dt_updated > Now - Ttl}

\* A row that the local table had keeps its game; a new one has the remote's.
Brings(a) ==
    /\ ExistServer(local', a)
    /\ \A r \in RowsOf(local', a) :
        /\ local'[r].dt_sync = Now
        /\ IF r \in DOMAIN local THEN local'[r].gamename = local[r].gamename
           ELSE \E id \in HeardOf : serverlist[id].addr = a /\ local'[r].gamename = serverlist[id].gamename

\* A sync that nothing cut brings every server of the requested games that the remote
\* heard from itself: as a row of the game the remote lists it for, or by marking the
\* rows the local masterserver had for its address, whose game stays what it was.
SyncComplete ==
    [][network = "whole" /\ applied' # applied =>
           \A id \in HeardOf : Brings(serverlist[id].addr)]_vars
=============================================================================
