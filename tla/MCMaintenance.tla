--------------------------- MODULE MCMaintenance ---------------------------
(* Two servers, whose names can be exchanged, that may change the game they *)
(* report ("unknown" is what the checker stores when a reply carries no     *)
(* gamename); one game has a row in gameinfo.  Beacons and players grow old *)
(* in one interval, and a server is outdated after two.                     *)
EXTENDS Maintenance, TLC

Symmetry == Permutations(Ip)
=============================================================================
