----------------------------- MODULE ListSession -----------------------------
(***************************************************************************)
(* A connection between the list server and a game client, which writes a  *)
(* script of requests without waiting for answers.  Each turn of the       *)
(* script is one write of one or more requests.  When the network keeps    *)
(* writes whole, a fragment is one turn; when it does not, the stream is   *)
(* cut anywhere.                                                           *)
(***************************************************************************)
EXTENDS ListClientHandler

CONSTANTS Scripts,     \* the scripts that clients may follow
          Rows,        \* rows of the table, by id: address, game, last update, last sync
          MayCut       \* what the network may do: a subset of {"whole", "cut"}

\* The keys the handler looks at.
HandlerKeys == {"validate", "gamename", "enctype", "list", "sync", "msid", "echo"}

\* Requests; name is the game that is meant by the game as written, enctype2 says
\* whether the options ask for an encrypted list.
Request ==
    [type : {"validate"}, game : STRING, name : GameName, answer : STRING,
     options : Seq(STRING \X Seq(STRING)), enctype2 : Bit]
    \cup [type : {"list"}, game : STRING, name : GameName, option : Seq(STRING)]
    \cup [type : {"sync"}, games : Seq(GameName \cup {"all"}), msid : STRING]
    \cup [type : {"echo", "other"}, word : STRING]

\* The keys and values of a request, without the terminator.
Pairs(r) ==
    CASE r.type = "validate" -> << <<"gamename", <<r.game>> >>, <<"validate", <<r.answer>> >> >>
                                     \o r.options
      [] r.type = "list" -> << <<"list", r.option>>, <<"gamename", <<r.game>> >> >>
      [] r.type = "sync" -> << <<"sync", r.games>>, <<"msid", <<r.msid>> >> >>
      [] OTHER           -> << <<r.type, <<r.word>> >> >>

RequestText(r) == Text(Pairs(r)) \o Final

TurnText(turn) == FlattenSeq([i \in DOMAIN turn |-> RequestText(turn[i])])

\* A word that the parser takes for none of the keys, wherever the stream is cut
\* before it, and an option that is none of them but perhaps "enctype".
Innocent(w) == w # Backslash /\ \A k \in HandlerKeys : OverrideKey(<<w>>) # <<k>>

Optional(w) == w # Backslash /\ \A k \in HandlerKeys \ {"enctype"} : OverrideKey(<<w>>) # <<k>>

\* The parser reads the words of a request as they are meant.
Meant(r) ==
    /\ \A i \in DOMAIN Pairs(r) : \A j \in DOMAIN Pairs(r)[i][2] : Innocent(Pairs(r)[i][2][j])
    /\ r.type \in {"validate", "list"} => OverrideGamename(<<r.game>>) = <<r.name>>
    /\ r.type = "validate" =>
           /\ \A i \in DOMAIN r.options : Optional(r.options[i][1])
           /\ r.enctype2 = 1 <=> \E i \in DOMAIN r.options :
                  OverrideKey(<<r.options[i][1]>>) = <<"enctype">> /\ r.options[i][2] = <<"2">>
           /\ \A i, j \in DOMAIN r.options :
                  OverrideKey(<<r.options[i][1]>>) = <<"enctype">>
                  /\ OverrideKey(<<r.options[j][1]>>) = <<"enctype">> => i = j
    /\ r.type = "sync" =>
           \A i \in DOMAIN r.games : r.games[i] \notin DOMAIN LowerCase \cup DOMAIN ValidGamenames

ASSUME ScriptAssumption ==
    /\ Scripts \subseteq Seq(Seq(Request) \ {<< >>})
    /\ \A s \in Scripts : \A n \in DOMAIN s : \A i \in DOMAIN s[n] : Meant(s[n][i])
    /\ \A k \in HandlerKeys \cup {Backslash} : k \notin DOMAIN LowerCase \cup DOMAIN ValidKeys
    /\ Innocent("final") /\ Innocent("other")
    /\ "" \notin SupportedGames /\ \A g \in DOMAIN Cipher : Cipher[g] # ""

RightAnswer(r) == r.type = "validate" /\ r.name \in SupportedGames
    /\ (r.name \in OverrideClient \/ (r.name \in DOMAIN Cipher /\ r.answer = Cipher[r.name]))

\* The requests of the first n turns of a script, and whether the handler accepts an
\* answer for a game.
RequestsOf(s, n) == UNION {{s[m][i] : i \in DOMAIN s[m]} : m \in 1 .. n}

Accepted(answer, name) ==
    name \in SupportedGames /\ ValidateGamename(FALSE, name, AnswerOf(answer), Challenge)

\* When one fragment holds parts of several requests, the answer is held against the
\* oldest game in it.  A client that names a game has no answer that is right for it
\* but meant for another game, unless it sends a right one as well.
ASSUME AnswerAssumption ==
    \A s \in Scripts : \A n \in DOMAIN s : \A r, q \in RequestsOf(s, n) :
        r.type = "validate" /\ q.type \in {"validate", "list"} /\ Accepted(r.answer, q.name)
            => \E right \in RequestsOf(s, n) : RightAnswer(right)

\* A client asks for each thing once in a turn, for the list of a game after it has
\* answered for one, and a wrong answer comes alone when it has asked for an echo
\* before: what a socket that closes has still to write may be followed by more.
ASSUME TurnAssumption == \A s \in Scripts : \A n \in DOMAIN s : \A i \in DOMAIN s[n] :
    /\ \A j \in DOMAIN s[n] :
           /\ s[n][i].type = s[n][j].type /\ s[n][i].type \in {"validate", "list", "sync"} => i = j
           /\ s[n][i].type = "validate" /\ s[n][j].type = "list" => i < j
    /\ s[n][i].type = "validate" /\ ~RightAnswer(s[n][i]) =>
           /\ ~Accepted(s[n][i].answer, s[n][i].name)
           /\ (\E m \in 1 .. n - 1 : \E k \in DOMAIN s[m] : s[m][k].type = "echo")
                  => \A j \in DOMAIN s[n] : s[n][j].type \in {"validate", "other"}

\* The table of this masterserver holds rows as the database does.
ASSUME RowsAssumption == Rows \in Seq(Address \X GameName \X Nat \X Nat)

VARIABLES script, sent,    \* the client's script and how many turns it has written
          network,         \* "whole" or "cut"
          taken            \* history: words the handler has read

vars == <<connection, serverlist, script, sent, network, taken>>

InitialList == [id \in DOMAIN Rows |->
    [addr |-> Rows[id][1], gamename |-> Rows[id][2], f_auth |-> 0, f_direct |-> 0,
     dt_added |-> 0, dt_beacon |-> 0, dt_updated |-> Rows[id][3], dt_sync |-> Rows[id][4]]]

SentText(n) == FlattenSeq([i \in 1 .. n |-> TurnText(script[i])])

TypeOK ==
    /\ handler \in Handler
    /\ toServer \in Seq(STRING) /\ peer \in {"open", "closed"}
    /\ serverlist \in Table
    /\ sent \in 0 .. Len(script) /\ taken \in Nat

Init ==
    /\ handler = NewHandler /\ toServer = << >> /\ peer = "open"
    /\ serverlist = InitialList
    /\ script \in Scripts /\ sent = 0
    /\ network \in MayCut /\ taken = 0

\* The client writes its next turn, or hangs up.
Send ==
    /\ peer = "open" /\ sent < Len(script)
    /\ sent' = sent + 1
    /\ toServer' = toServer \o TurnText(script[sent + 1])
    /\ UNCHANGED <<handler, peer, serverlist, script, network, taken>>

HangUp ==
    /\ peer = "open" /\ peer' = "closed"
    /\ UNCHANGED <<handler, toServer, serverlist, script, sent, network, taken>>

\* Turns of which every word has been read.
TurnsTaken == Cardinality({n \in 1 .. sent : Len(SentText(n)) <= taken})

\* Where the network may cut what is under way.
Fragments == IF network = "cut" THEN 1 .. Len(toServer)
             ELSE IF toServer = << >> THEN {}
             ELSE {Len(TurnText(script[TurnsTaken + 1]))}

Read ==
    /\ \E n \in Fragments : OnListenClientRead(n) /\ taken' = taken + n
    /\ UNCHANGED <<script, sent, network>>

TimeOut    == OnListenClientTimeOut /\ UNCHANGED <<script, sent, network, taken>>
Disconnected == OnListenClientDisconnect /\ UNCHANGED <<script, sent, network, taken>>
Drain      == Flush(Len(handler.out)) /\ UNCHANGED <<script, sent, network, taken>>

\* The connection is over; the handler deletes itself.
Over == handler.state = "closed" /\ UNCHANGED vars

Next == Send \/ HangUp \/ Read \/ TimeOut \/ Disconnected \/ Drain \/ Over

\* The timer of 15 s expires unless it is stopped, a client reads what it is sent,
\* and the event loop signals the end of a connection.  A client need not send
\* anything, and what it sends need not arrive.
Fairness == WF_vars(TimeOut) /\ WF_vars(Drain) /\ WF_vars(Disconnected)

Spec == Init /\ [][Next]_vars /\ Fairness
-----------------------------------------------------------------------------
(* What must hold.                                                         *)
Turns(n) == FlattenSeq(SubSeq(script, 1, n))

\* However the stream is cut, a list or a sync list is written only to a client
\* that has sent the right answer to this connection's challenge for some game,
\* or named a game that needs none (comment: "only granted after validation").
Guarded == \E i \in DOMAIN handler.served : handler.served[i].type \in {"list", "sync", "self"}

ListsAreEarned == Guarded =>
    \E i \in DOMAIN Turns(sent) : RightAnswer(Turns(sent)[i])

\* However requests are pipelined, a connection gets at most one list and one sync
\* list: the first of them ends the conversation.
Count(type) == Cardinality({i \in DOMAIN handler.served : handler.served[i].type = type})

OneListPerConnection == Count("list") <= 1 /\ Count("sync") + Count("self") <= 1

\* What the requests ask for, one turn after the other, each processed as a whole:
\* the reference the parser, the buffer and the slot are held against.
InTurn(turn, type) == {i \in DOMAIN turn : turn[i].type = type}

AskedSync(r) == IF r.msid = Identity
    THEN [type |-> "self", games |-> << >>, enctype2 |-> 0]
    ELSE [type |-> "sync", enctype2 |-> 0,
          games |-> IF r.games = <<"all">> THEN SetToSeq(ActiveGames(InitialList, Ttl, Now))
                    ELSE Pick(r.games, {i \in DOMAIN r.games : r.games[i] \in SupportedGames})]

Expected(turn, o) ==
    LET v == InTurn(turn, "validate")
        l == InTurn(turn, "list")
        s == InTurn(turn, "sync")
        answer == turn[CHOOSE i \in v : TRUE]
        passed == v # {} /\ RightAnswer(answer)
        validated == o.validated \/ passed
        encrypted == IF v # {} THEN answer.enctype2 ELSE o.enctype2
        list == IF validated /\ l # {}
                THEN << [type |-> "list", enctype2 |-> encrypted,
                         games |-> <<turn[CHOOSE i \in l : TRUE].name>>] >> ELSE << >>
        sync == IF validated /\ s # {} THEN <<AskedSync(turn[CHOOSE i \in s : TRUE])>> ELSE << >>
        ourself == \E i \in s : turn[i].msid = Identity
        echo == IF InTurn(turn, "echo") = {} \/ ourself THEN << >>
                ELSE << [type |-> "echo", games |-> << >>, enctype2 |-> 0] >>
        refused == (v # {} /\ ~passed) \/ (~validated /\ l \cup s # {})
    IN  IF ~o.open THEN o
        ELSE [validated |-> validated, enctype2 |-> encrypted,
              open |-> ~refused /\ l \cup s = {} /\ v \cup InTurn(turn, "echo") # {},
              served |-> IF refused THEN o.served ELSE o.served \o list \o sync \o echo]

ExpectedAfter(n) ==
    FoldLeft(LAMBDA o, turn : Expected(turn, o),
             [validated |-> FALSE, enctype2 |-> 0, open |-> TRUE, served |-> << >>],
             SubSeq(script, 1, n))

\* When the network keeps writes whole, every request that was read is answered with
\* what it asks for, whatever was asked before over the same connection.
AnsweredWhenWhole == network = "whole" => handler.served = ExpectedAfter(TurnsTaken).served

\* "add data to buffer and wait for the interaction to be complete": when all the
\* client wrote has been read, wherever the stream was cut, it has been answered.
RequestAnswered ==
    handler.state = "open" /\ sent = Len(script) /\ toServer = << >>
        => handler.served = ExpectedAfter(sent).served

\* Every connection ends, whatever the client sends, or if it sends nothing: each
\* refusal, each answer and each silence leads to the end of it.
ConnectionEnds == <>(handler.state = "closed")
=============================================================================
