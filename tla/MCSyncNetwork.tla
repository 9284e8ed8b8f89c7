---------------------------- MODULE MCSyncNetwork ----------------------------
(* Two masterservers that synchronise with each other; the first one has a  *)
(* dead server before the other in its settings.                            *)
EXTENDS SyncNetwork

MCPeers == [m \in Masters |-> IF m = "A" THEN <<"dead", "B">> ELSE <<"A">>]
MCGameOf == [a \in Address |-> "ut"]
MCUplinks == [a \in Address |-> {"A"}]
=============================================================================
