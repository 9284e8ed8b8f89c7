-------------------------- MODULE ListClientHandler --------------------------
(***************************************************************************)
(* One TCP connection of the list server: the object that challenges the   *)
(* client, buffers what it sends and answers list, sync and echo requests. *)
(* A readyRead slot reads a fragment, cut from the stream wherever TCP     *)
(* likes.  Who the client is, is left to the modules that extend this one. *)
(* The table does not change and no time is counted while a connection     *)
(* lasts; the timer may expire whenever it runs.                           *)
(***************************************************************************)
EXTENDS ServerList, SecureValidate, Messages, FiniteSets

CONSTANTS SupportedGames,   \* games of SupportedGames.json
          AddressText,      \* address -> the word it is written as
          Identity,         \* masterserverIdentity
          Ttl, Now          \* serverttl_s and the current time

ASSUME HandlerAssumption ==
    /\ DOMAIN Cipher \subseteq SupportedGames
    /\ \A a, b \in Address : AddressText[a] = AddressText[b] => a = b

VARIABLES handler,     \* the ListClientHandler and its socket
          toServer,    \* what the client sent and the handler has not read
          peer,        \* has the client closed its end?
          serverlist   \* the database table of this masterserver

connection == <<handler, toServer, peer>>

SocketState == {"open", "closing", "closed"}
Timer == {"running", "stopped"}
Served == [type : {"list", "sync", "self", "echo"}, games : Seq(GameName), enctype2 : Bit]

\* out is the socket's write buffer; served is a history of what was written to it.
Handler == [state : SocketState, timer : Timer, rxBuffer : Seq(STRING), hasValidated : Bit,
            requestEnctype2 : Bit, out : Seq(STRING), served : Seq(Served)]

\* The challenge of the connection and the two words it is written as.
Challenge == 1
ChallengeText == <<"SEC", "RET">>
Greeting == <<Backslash, "basic", Backslash, Backslash, "secure", Backslash>> \o ChallengeText

\* The constructor flushes its challenge.
NewHandler == [state |-> "open", timer |-> "running", rxBuffer |-> << >>, hasValidated |-> 0,
               requestEnctype2 |-> 0, out |-> << >>, served |-> << >>]
-----------------------------------------------------------------------------
(* What is written.                                                        *)

\* The addresses of a set of rows, in the order of the table.
Addresses(ids) == LET rows == Pick(serverlist, ids)
                  IN  [i \in DOMAIN rows |-> AddressText[rows[i].addr]]

\* compileServerlist: packed ("cmp") or as "\ip\address" for each server.
CompileServerlist(game, cmp) ==
    LET list == Addresses(SelectServerList(serverlist, game, Ttl, 1, Now))
    IN  (IF cmp THEN list
         ELSE FlattenSeq([i \in DOMAIN list |-> <<Backslash, "ip", Backslash, list[i]>>])) \o Final

\* compileSyncList: "\gamename\address address ..." for each game.
CompileSyncList(games) ==
    FlattenSeq([i \in DOMAIN games |-> <<Backslash, games[i], Backslash>>
        \o Addresses(SelectServerList(serverlist, games[i], Ttl, 0, Now))]) \o Final

\* enctype2_encoder: one word that only a client with the cipher can read.
Encrypt(text) == <<"#">> \o text

Write(h, text, entry) ==
    IF h.state = "closed" THEN h
    ELSE [h EXCEPT !.out = @ \o text, !.served = Append(@, entry)]

\* disconnectFromHost: the socket closes when its write buffer is empty.
Disconnect(h) ==
    [h EXCEPT !.timer = "stopped", !.state = IF h.out = << >> THEN "closed"
                                             ELSE IF @ = "open" THEN "closing" ELSE @]
-----------------------------------------------------------------------------
(* The parts of onListenClientRead that process a request.                 *)
Word(field) == IF Len(field) = 1 THEN field[1] ELSE ""

\* The oldest gamename of a combined query is the one to authenticate for.
GameToValidate(data) ==
    LET games == Values(data, "gamename")
    IN  IF Len(games) >= 2 THEN Word(Last(games)) ELSE Word(Value(data, "gamename", << >>))

\* A word stands for the answer computed from this cipher and this challenge.
AnswerOf(word) ==
    IF \E g \in DOMAIN Cipher : Cipher[g] = word THEN GenerateValidateString(word, Challenge)
    ELSE IF word = Invalid[1] THEN Invalid ELSE GenerateValidateString(Noise, Challenge)

Passes(data) ==
    /\ GameToValidate(data) \in SupportedGames
    /\ ValidateGamename(FALSE, GameToValidate(data), AnswerOf(Word(Value(data, "validate", << >>))),
                        Challenge)

\* Faulty variant: the flag takes the value that was sent.
EnctypeAsSent(data) == IF Value(data, "enctype", << >>) = <<"2">> THEN 2 ELSE 0

WantsEnctype2(data) == IF Value(data, "enctype", << >>) = <<"2">> THEN 1 ELSE 0

\* Part 1: the answer to the challenge.
Validate(h, data) ==
    LET asked == [h EXCEPT !.requestEnctype2 = WantsEnctype2(data)]
    IN  IF ~HasKey(data, "validate") THEN h
        ELSE IF Passes(data) THEN [asked EXCEPT !.hasValidated = 1] ELSE Disconnect(asked)

\* Faulty variant: the client has to hang up itself.
ServeListOpen(h, data) ==
    LET game == Word(Value(data, "gamename", << >>))
        list == CompileServerlist(game, ToLower(Value(data, "list", << >>)) = <<"cmp">>)
    IN  Write(h, IF h.requestEnctype2 = 1 THEN Encrypt(list) ELSE list,
              [type |-> "list", games |-> <<game>>, enctype2 |-> h.requestEnctype2])

\* Part 2: the list of one game.
ServeList(h, data) ==
    LET game == Word(Value(data, "gamename", << >>))
        list == CompileServerlist(game, ToLower(Value(data, "list", << >>)) = <<"cmp">>)
    IN  Disconnect(Write(h, IF h.requestEnctype2 = 1 THEN Encrypt(list) ELSE list,
            [type |-> "list", games |-> <<game>>, enctype2 |-> h.requestEnctype2]))

\* Faulty variant: unsupported games are asked for as well.
NamedGames(data) ==
    LET wanted == ToLower(Value(data, "sync", << >>))
    IN  IF wanted = <<"all">> THEN SetToSeq(ActiveGames(serverlist, Ttl, Now))
        ELSE [i \in DOMAIN wanted |-> Word(OverrideGamename(<<wanted[i]>>))]

\* Faulty variant: the list of names is not split.
FirstGame(data) ==
    LET wanted == ToLower(Value(data, "sync", << >>))
    IN  IF wanted = <<"all">> THEN SetToSeq(ActiveGames(serverlist, Ttl, Now))
        ELSE Pick(wanted, {i \in DOMAIN wanted \cap {1} : wanted[i] \in SupportedGames})

\* "all", or those of the named games that are supported.
GamesToSync(data) ==
    LET wanted == ToLower(Value(data, "sync", << >>))
        named == [i \in DOMAIN wanted |-> Word(OverrideGamename(<<wanted[i]>>))]
    IN  IF wanted = <<"all">> THEN SetToSeq(ActiveGames(serverlist, Ttl, Now))
        ELSE Pick(named, {i \in DOMAIN named : named[i] \in SupportedGames})

\* Part 2b: the list for another masterserver, empty when it is ourself.
ServeSync(h, data) ==
    LET games == GamesToSync(data)
    IN  IF Value(data, "msid", << >>) = <<Identity>>
        THEN Disconnect(Write(h, Final, [type |-> "self", games |-> << >>, enctype2 |-> 0]))
        ELSE Disconnect(Write(h, CompileSyncList(games),
                              [type |-> "sync", games |-> games, enctype2 |-> 0]))

ServeEcho(h, data) ==
    IF HasKey(data, "echo")
    THEN Write(h, <<Backslash, "echo_reply", Backslash>> \o Value(data, "echo", << >>),
               [type |-> "echo", games |-> << >>, enctype2 |-> 0])
    ELSE h

Known(data) == \E key \in {"validate", "list", "sync", "echo"} : HasKey(data, key)

\* Faulty variant: an earlier answer is not asked for.
InteractionUnchecked(h, data) ==
    LET validated == Validate(h, data)
        listed == IF HasKey(data, "list") THEN ServeList(validated, data) ELSE validated
        synced == IF HasKey(data, "sync") THEN ServeSync(listed, data) ELSE listed
        echoed == ServeEcho(synced, data)
    IN  IF Known(data) THEN echoed ELSE Disconnect(echoed)

\* The parts in their order; "return" ends the slot where a request is refused
\* and after the answer to ourself.
Interaction(h, data) ==
    LET validated == Validate(h, data)
        listed == IF HasKey(data, "list") THEN ServeList(validated, data) ELSE validated
        synced == IF HasKey(data, "sync") THEN ServeSync(listed, data) ELSE listed
        echoed == ServeEcho(synced, data)
        refused == validated.hasValidated = 0 /\ (HasKey(data, "list") \/ HasKey(data, "sync"))
        self == HasKey(data, "sync") /\ Value(data, "msid", << >>) = <<Identity>>
    IN  IF refused THEN Disconnect(validated)
        ELSE IF self THEN synced
        ELSE IF Known(data) THEN echoed ELSE Disconnect(echoed)
-----------------------------------------------------------------------------
(* The slots.                                                              *)

\* Faulty variant: a completed request stays in the buffer.
BufferKept(h) == h.rxBuffer

\* A buffer that holds a whole terminator is of an earlier interaction.
BufferOf(h) == IF Holds(h.rxBuffer, Final) THEN << >> ELSE h.rxBuffer

\* Faulty variant: the timer is not started again.
ReceivedUntimed(h, fragment) ==
    [h EXCEPT !.rxBuffer = BufferOf(h) \o fragment, !.timer = "stopped"]

Received(h, fragment) == [h EXCEPT !.rxBuffer = BufferOf(h) \o fragment, !.timer = "running"]

\* The next n words are read; a closing socket no longer reads.
OnListenClientRead(n) ==
    /\ handler.state = "open" /\ n \in 1 .. Len(toServer)
    /\ LET fragment == SubSeq(toServer, 1, n)
           h == Received(handler, fragment)
       IN  handler' = IF Holds(fragment, Final)
                      THEN Interaction(h, ParseGameSpy0Buffer(h.rxBuffer)) ELSE h
    /\ toServer' = SubSeq(toServer, n + 1, Len(toServer))
    /\ UNCHANGED <<peer, serverlist>>

OnListenClientTimeOut ==
    /\ handler.timer = "running"
    /\ handler' = Disconnect(handler)
    /\ UNCHANGED <<toServer, peer, serverlist>>

\* The client has closed its end and everything it sent has been read, or the
\* handler no longer reads.
OnListenClientDisconnect ==
    /\ peer = "closed" /\ handler.state # "closed"
    /\ toServer = << >> \/ handler.state = "closing"
    /\ handler' = [handler EXCEPT !.state = "closed", !.timer = "stopped"]
    /\ UNCHANGED <<toServer, peer, serverlist>>

\* The socket hands n words to the network; a closing socket closes after the last.
Flush(n) ==
    /\ handler.state # "closed" /\ n \in 1 .. Len(handler.out)
    /\ handler' = [handler EXCEPT
            !.out = SubSeq(@, n + 1, Len(@)),
            !.state = IF @ = "closing" /\ n = Len(handler.out) THEN "closed" ELSE @]
    /\ UNCHANGED <<toServer, peer, serverlist>>
=============================================================================
