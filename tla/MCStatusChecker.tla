--------------------------- MODULE MCStatusChecker ---------------------------
(* Servers of one host on ports 1 to 3, all running "ut"; the one on port 2  *)
(* of MCReplyFrom answers from port 3, which nobody announced.               *)
EXTENDS StatusChecker

MCCipher == [g \in {"ut"} |-> "Z5Nfb0"]
At(p) == <<"h", p>>
MCRuns == [a \in Address |-> "ut"]
MCSamePort == [a \in Address |-> a]
MCReplyFrom == [a \in Address |-> IF a = At(2) THEN At(3) ELSE a]
MCListedOther == <<At(2)>>
MCListed3 == <<At(1), At(2), At(3)>>
=============================================================================
