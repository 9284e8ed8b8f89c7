---------------------------- MODULE SyncExchange ----------------------------
(***************************************************************************)
(* What one synchronisation promises, without connections and fragments:   *)
(* the remote masterserver composes a list of servers it heard from itself *)
(* and the local one applies all of it, once, or nothing.                  *)
(***************************************************************************)
EXTENDS ServerList, FiniteSets

CONSTANTS Wanted,      \* the games to synchronise
          Ttl, Now

VARIABLES phase,       \* "asked", "listed", "applied" or "failed"
          list,        \* the <<game, address>> pairs under way
          remote, local    \* the tables of the two masterservers

vars == <<phase, list, remote, local>>

Init == phase = "asked" /\ list = {} /\ remote \in Table /\ local \in Table

ListOf(games) == {<<g, remote[id].addr>> : g \in games, id \in DOMAIN remote}
    \cap UNION {{<<g, remote[id].addr>> : id \in SelectServerList(remote, g, Ttl, 0, Now)} : g \in games}

\* The remote may have understood only some of the games.
Compose ==
    /\ phase = "asked" /\ phase' = "listed"
    /\ \E games \in SUBSET Wanted : list' = ListOf(games)
    /\ UNCHANGED <<remote, local>>

Listed == {pair[2] : pair \in list}

NewRow(pair) == InsertServer(<< >>, pair[2], pair[1], 0, Now)[1]

\* A listed server that is known is marked, any other gets one row; the rest stays.
Apply ==
    /\ phase = "listed" /\ phase' = "applied"
    /\ local' \in Table /\ list' = {}
    /\ \A id \in DOMAIN local : id \in DOMAIN local' /\ local'[id] =
           IF local[id].addr \in Listed THEN [local[id] EXCEPT !.dt_sync = Now] ELSE local[id]
    /\ \A id \in DOMAIN local' \ DOMAIN local : \E pair \in list : local'[id] = NewRow(pair)
    /\ \A a \in Listed : ExistServer(local', a)
    /\ UniqueIn(local) => UniqueIn(local')
    /\ UNCHANGED remote

Fail ==
    /\ phase \in {"asked", "listed"} /\ phase' = "failed" /\ list' = {}
    /\ UNCHANGED <<remote, local>>

Next == Compose \/ Apply \/ Fail

Spec == Init /\ [][Next]_vars
=============================================================================
