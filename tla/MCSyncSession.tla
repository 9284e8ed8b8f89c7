---------------------------- MODULE MCSyncSession ----------------------------
(* The remote knows three servers, one of them through synchronisation      *)
(* only; the local one knows none, or one of them under another game.  It    *)
(* asks for two supported games and one that is not.                        *)
EXTENDS SyncSession

MCCipher == [g \in {"333networks"} |-> "fLWp5K"]
At(p) == <<"h", p>>
MCAddressText == [a \in Address |-> CASE a[2] = 1 -> "h:1" [] a[2] = 2 -> "h:2" [] OTHER -> "h:3"]
MCNone == [w \in {} |-> ""]

MCRow(a, g, updated, sync) ==
    [addr |-> a, gamename |-> g, f_auth |-> 1, f_direct |-> 1,
     dt_added |-> 0, dt_beacon |-> 0, dt_updated |-> updated, dt_sync |-> sync]
MCRemote == { << MCRow(At(1), "ut", 2, 0), MCRow(At(2), "rune", 2, 0), MCRow(At(3), "ut", 0, 2) >>, << >> }
MCLocal == { << >>, << MCRow(At(2), "ut", 1, 0) >> }
MCSome == <<"ut", "rune", "doom">>
=============================================================================
