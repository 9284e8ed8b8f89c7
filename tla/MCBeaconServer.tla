--------------------------- MODULE MCBeaconServer ---------------------------
(* One host that runs two servers, or one behind a NAT: a heartbeat from   *)
(* either port may announce either port.  "ut" is challenged and has a     *)
(* default port; "deusex" is never challenged and has none.                *)
EXTENDS BeaconServer

MCCipher == [g \in {"ut"} |-> "Z5Nfb0"]
MCDefaultPort == [g \in {"ut", "deusex"} |-> IF g = "ut" THEN 1 ELSE 0]
MCAnnouncement == {<<"ut", 0>>, <<"ut", 2>>, <<"deusex", 0>>, <<"deusex", 2>>}
MCOneServer == {<<"ut", 0>>, <<"unknown", 1>>}
=============================================================================
