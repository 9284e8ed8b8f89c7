---------------------------- MODULE MCListSession ----------------------------
(* Three servers: two of "ut", one of them known through synchronisation    *)
(* only, and one outdated of "deusex", a game that needs no answer.  The    *)
(* scripts combine right, wrong and foreign answers with every request.     *)
EXTENDS ListSession

MCCipher == [g \in {"ut", "unreal"} |-> IF g = "ut" THEN "Z5Nfb0" ELSE "DAncRK"]
At(p) == <<"h", p>>
MCAddressText == [a \in Address |-> CASE a[2] = 1 -> "h:1" [] a[2] = 2 -> "h:2" [] OTHER -> "h:3"]
MCRows == << <<At(1), "ut", 2, 2>>, <<At(2), "ut", 0, 2>>, <<At(3), "deusex", 0, 0>> >>
MCLowerCase == [w \in {"UTGame", "CMP", "Enctype"} |->
    CASE w = "UTGame" -> "utgame" [] w = "CMP" -> "cmp" [] OTHER -> "enctype"]
MCValidKeys == [w \in {"version"} |-> "gamever"]
MCValidGamenames == [w \in {"utgame"} |-> "ut"]

Ask(g, answer) == [type |-> "validate", game |-> g, name |-> g, answer |-> answer,
                   options |-> << >>, enctype2 |-> 0]
List(g) == [type |-> "list", game |-> g, name |-> g, option |-> << >>]
Sync(games, msid) == [type |-> "sync", games |-> games, msid |-> msid]
Echo == [type |-> "echo", word |-> "ping"]
Other == [type |-> "other", word |-> "x"]

Right == Ask("ut", "Z5Nfb0")
Encrypted == [Right EXCEPT !.options = << <<"Enctype", <<"2">> >> >>, !.enctype2 = 1]
Packed == [List("ut") EXCEPT !.option = <<"CMP">>]
Wrong == Ask("ut", "DAncRK")
Free  == Ask("deusex", "none")
Unsupported == Ask("doom", "Z5Nfb0")

\* The same game under the name some of its clients use.
Alias(r) == [r EXCEPT !.game = "UTGame", !.name = "ut"]

MCScripts == {
    << <<Right, List("ut")>> >>,              \* combined query
    << <<Right, List("deusex")>> >>,          \* ... for two games
    << <<Right>>, <<Packed>> >>,
    << <<Encrypted>>, <<List("ut")>> >>,
    << <<Encrypted>>, <<Alias(Right), Alias(List("ut"))>> >>,
    << <<Free>>, <<List("ut")>>, <<List("ut")>> >>,
    << <<Wrong, List("ut")>>, <<Right>> >>,
    << <<List("ut")>>, <<Right>> >>,
    << <<Right>>, <<Wrong, List("ut")>> >>,
    << <<Unsupported>>, <<Right, List("ut")>> >>,
    << <<Right, Sync(<<"all">>, "other")>> >>,
    << <<Right>>, <<Sync(<<"doom", "ut", "deusex">>, "other")>> >>,
    << <<Right, Sync(<<"all">>, "me")>>, <<List("ut")>> >>,
    << <<Right, List("ut"), Sync(<<"ut">>, "other")>> >>,
    << <<Echo>>, <<Other>>, <<Right>> >>,
    << <<Echo>>, <<Wrong>>, <<List("ut")>> >>,
    << <<Right>>, <<Echo>>, <<List("ut"), Echo>> >>,
    << <<Echo, List("ut")>>, <<Right>> >>,
    << <<Right, Sync(<<"ut">>, "me"), Echo>> >>,
    << <<Right, Other>>, <<List("ut")>> >>,
    << >> }

MCSplitScripts == { << <<Right>>, <<List("ut")>> >> }
=============================================================================
