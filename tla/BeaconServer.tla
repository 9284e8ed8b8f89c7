---------------------------- MODULE BeaconServer ----------------------------
(***************************************************************************)
(* The UDP task that receives heartbeats.  Game servers announce a query   *)
(* port and a game; a server that is new to the table is challenged, and   *)
(* its answer sets f_auth.  Everything runs in one event loop: a slot runs *)
(* to its end, timers and datagrams interleave between slots.              *)
(*                                                                         *)
(* The clock counts the whole seconds the code compares.  It cannot pass   *)
(* the sweep timer's deadline, nor advance while the read slot still has   *)
(* datagrams to take.  MaxTime, MaxPending and MaxRows bound the clock,    *)
(* the socket's receive buffer and the table when statements fail.         *)
(***************************************************************************)
EXTENDS ServerList, SecureValidate

CONSTANTS DefaultPort,     \* supported game -> its default port, 0 if none
          Timeout,         \* _timeOutTime_ms: sweep interval and age of a challenge
          MaxQueryId,      \* reply ids run from 1 to MaxQueryId + 1
          InitQueryId,     \* values the uninitialised _queryId may start with
          SqlMayFail,      \* may a statement report an error (database busy)?
          LoseSignal,      \* may an arrival go unsignalled (readyRead missed)?
          Announcement,    \* the <<game, port>> pairs that heartbeats carry
          NoBeacon,        \* a label without an entry in _beaconList
          MaxTime, MaxPending, MaxRows

Source == Ip \X Port
SupportedGames == DOMAIN DefaultPort

Beacon == [addr : Address, game : GameName, secure : Nat, time : Nat]

Heartbeat == [type : {"heartbeat"}, src : Source, port : Port \cup {0},
              game : GameName, at : Nat]
Validate  == [type : {"validate"}, src : Source, answer : Answer, at : Nat]
OtherMsg  == [type : {"query", "other"}, src : Source, at : Nat]
Datagram  == Heartbeat \cup Validate \cup OtherMsg

ASSUME BeaconAssumption ==
    /\ Timeout \in Nat \ {0}
    /\ SupportedGames \subseteq GameName
    /\ DefaultPort \in [SupportedGames -> Port \cup {0}]
    /\ MaxQueryId \in Nat /\ InitQueryId \subseteq Int
    /\ SqlMayFail \in BOOLEAN /\ LoseSignal \in BOOLEAN
    /\ NoBeacon \notin Beacon
    /\ Announcement \subseteq GameName \X (Port \cup {0})
    /\ 0 \notin Port

VARIABLES now, nextSweep,  \* the clock and the deadline of _sweepTimer
          serverlist,      \* the database table
          beaconList,      \* _beaconList, by ip:port label of the sender
          socket,          \* datagrams in the receive buffer, oldest first
          slot,            \* "reading" while the read slot is due or in its loop
          queryId,         \* _queryId
          issued           \* history: every challenge sent, indexed by its number

vars == <<now, nextSweep, serverlist, beaconList, socket, slot, queryId, issued>>

Issue == [src : Source, addr : Address, game : GameName, time : Nat]

Slot == {"idle", "reading"}

TypeOK ==
    /\ now \in Nat /\ nextSweep \in Nat
    /\ serverlist \in Table
    /\ beaconList \in [Source -> Beacon \cup {NoBeacon}]
    /\ socket \in Seq(Datagram)
    /\ slot \in Slot
    /\ queryId \in Int
    /\ issued \in Seq(Issue)

Init ==
    /\ now = 0 /\ nextSweep = Timeout
    /\ serverlist = << >>
    /\ beaconList = [s \in Source |-> NoBeacon]
    /\ socket = << >> /\ slot = "idle"
    /\ queryId \in InitQueryId
    /\ issued = << >>

Pending(s) == beaconList[s] # NoBeacon

\* Errors are bounded by MaxRows, the rows and challenges they can add.
SqlOutcome == IF /\ SqlMayFail
                 /\ Len(serverlist) < MaxRows /\ Len(issued) < MaxRows
              THEN Result ELSE {"ok"}
-----------------------------------------------------------------------------
(* The network: what may reach the socket.                                 *)

\* A server answers a challenge that was sent to it, sooner or later, with the
\* cipher of the game it runs; a server without the cipher answers with noise.
Answers(s) == {<<Noise, 1>>} \cup
    {GenerateValidateString(Cipher[g], n) :
        g \in DOMAIN Cipher, n \in {m \in DOMAIN issued : issued[m].src = s}}

Arrivals ==
    {[type |-> "heartbeat", src |-> s, port |-> a[2], game |-> a[1], at |-> now] :
        s \in Source, a \in Announcement}
    \cup (UNION {[type : {"validate"}, src : {s}, answer : Answers(s), at : {now}] : s \in Source})
    \cup [type : {"query", "other"}, src : Source, at : {now}]

\* A full buffer drops the datagram.
Arrive(d) ==
    /\ IF Len(socket) < MaxPending
       THEN /\ socket' = Append(socket, d)
            /\ slot' \in IF LoseSignal THEN {slot, "reading"} ELSE {"reading"}
       ELSE UNCHANGED <<socket, slot>>
    /\ UNCHANGED <<now, nextSweep, serverlist, beaconList, queryId, issued>>

Tick ==
    /\ now < MaxTime /\ now < nextSweep /\ slot = "idle"
    /\ now' = now + 1
    /\ UNCHANGED <<nextSweep, serverlist, beaconList, socket, slot, queryId, issued>>
-----------------------------------------------------------------------------
(* onUdpRead and processHeartbeatGamespy0.                                 *)

\* The while loop goes on as long as datagrams are pending.
After(buffer) == IF buffer = << >> THEN "idle" ELSE "reading"

\* One turn of "while hasPendingDatagrams": the slot returns on an empty buffer.
Take ==
    /\ slot = "reading" /\ socket # << >>
    /\ socket' = Tail(socket)
    /\ slot' = After(Tail(socket))
    /\ UNCHANGED <<now, nextSweep>>

\* Faulty variant: port 0 is stored as announced.
AnnouncedPort(d) == d.port

QueryPort(d) == IF d.port # 0 THEN d.port ELSE DefaultPort[d.game]

Acceptable(d) == d.game \in SupportedGames /\ (d.port # 0 \/ DefaultPort[d.game] # 0)

BeaconAddress(d) == <<d.src[1], QueryPort(d)>>

\* Faulty variant: a sender with a pending challenge is not sent a new one.
ChallengeReused(d) ==
    /\ issued' = Append(issued, [src |-> d.src, addr |-> BeaconAddress(d),
                                 game |-> d.game, time |-> now])
    /\ beaconList' = [beaconList EXCEPT ![d.src] =
            [addr |-> BeaconAddress(d), game |-> d.game, time |-> now,
             secure |-> IF Pending(d.src) THEN beaconList[d.src].secure ELSE Len(issued) + 1]]

Challenge(d) ==
    /\ issued' = Append(issued, [src |-> d.src, addr |-> BeaconAddress(d),
                                 game |-> d.game, time |-> now])
    /\ beaconList' = [beaconList EXCEPT ![d.src] =
            [addr |-> BeaconAddress(d), game |-> d.game,
             secure |-> Len(issued) + 1, time |-> now]]

\* The "heartbeat" branch: update and return, or insert and challenge.
OnHeartbeat(d, upd, ins) ==
    /\ d.type = "heartbeat"
    /\ UNCHANGED queryId
    /\ IF Acceptable(d)
       THEN /\ serverlist' = UpsertServer(serverlist, BeaconAddress(d), d.game,
                                          1, now, upd, ins)
            /\ IF \/ upd = "ok" /\ ExistServer(serverlist, BeaconAddress(d))
                  \/ d.game \in OverrideBeacon
               THEN UNCHANGED <<beaconList, issued>>
               ELSE Challenge(d)
       ELSE UNCHANGED <<serverlist, beaconList, issued>>

\* Faulty variant: a successful answer leaves its challenge pending.
StillPending(s, auth) == beaconList

Answered(s, auth) == IF auth = 1 THEN [beaconList EXCEPT ![s] = NoBeacon] ELSE beaconList

\* The "validate" branch: a failed answer refreshes the row and keeps the entry.
OnValidate(d, upd) ==
    /\ d.type = "validate"
    /\ UNCHANGED <<queryId, issued>>
    /\ LET b    == beaconList[d.src]
           auth == IF ValidateGamename(TRUE, b.game, d.answer, b.secure) THEN 1 ELSE 0
       IN  IF Pending(d.src)
           THEN /\ serverlist' = IF upd = "ok"
                    THEN UpdateServer(serverlist, b.addr, b.game, 0, auth, now)
                    ELSE serverlist
                /\ beaconList' = Answered(d.src, auth)
           ELSE UNCHANGED <<serverlist, beaconList>>

\* A status query is answered; replyQuery numbers the reply.
OnQuery(d) ==
    /\ d.type = "query"
    /\ queryId' = IF queryId > MaxQueryId THEN 1 ELSE queryId + 1
    /\ UNCHANGED <<serverlist, beaconList, issued>>

\* Empty or foreign payload, trailing \final\, unknown keys.
OnOther(d) ==
    /\ d.type = "other"
    /\ UNCHANGED <<serverlist, beaconList, queryId, issued>>

ReadHeartbeat == Take /\ \E upd, ins \in SqlOutcome : OnHeartbeat(Head(socket), upd, ins)
ReadValidate  == Take /\ \E upd \in SqlOutcome : OnValidate(Head(socket), upd)
ReadQuery     == Take /\ OnQuery(Head(socket))
ReadOther     == Take /\ OnOther(Head(socket))
-----------------------------------------------------------------------------
(* onUdpTimedOut: drop the entries that are too old, then emit readyRead.  *)
\* Faulty variant: an entry survives one second longer.
ExpiredLate(b) == b.time < now - Timeout - 1

Expired(b) == b.time < now - Timeout

Swept == [s \in Source |-> IF Pending(s) /\ Expired(beaconList[s])
                           THEN NoBeacon ELSE beaconList[s]]

\* Faulty variant: the sweep does not emit readyRead.
NoEmit == UNCHANGED slot

\* The emitted signal calls the read slot, which returns at once without data.
EmitReadyRead == slot' = After(socket)

OnUdpTimedOut ==
    /\ now = nextSweep /\ slot = "idle"
    /\ nextSweep' = now + Timeout
    /\ beaconList' = Swept
    /\ EmitReadyRead
    /\ UNCHANGED <<now, serverlist, socket, queryId, issued>>
-----------------------------------------------------------------------------
Next ==
    \/ Tick
    \/ \E d \in Arrivals : Arrive(d)
    \/ ReadHeartbeat \/ ReadValidate \/ ReadQuery \/ ReadOther
    \/ OnUdpTimedOut

Spec == Init /\ [][Next]_vars
-----------------------------------------------------------------------------
(* What must hold.                                                         *)

\* No two rows of the table carry the same address: the table has no key, so it
\* rests on update-before-insert, and fails when an UPDATE reports an error.
UniqueAddress == UniqueIn(serverlist)

\* A challenge waits for its answer for at most twice the timeout (the comment
\* above onUdpTimedOut), whatever the phase of the sweep timer.
BoundedWait == \A s \in Source : Pending(s) => now - beaconList[s].time <= 2 * Timeout

\* A datagram whose readyRead signal was missed is read within one timeout,
\* because the sweep timer emits the signal again.
ReadInTime == \A i \in DOMAIN socket : now - socket[i].at <= Timeout

\* While a challenge is pending, the server it is for is in the table and not
\* yet authenticated: the answer finds a row, and only the answer sets f_auth.
PendingUnauthenticated ==
    \A s \in Source : Pending(s) =>
        \E id \in RowsOf(serverlist, beaconList[s].addr) : serverlist[id].f_auth = 0

\* f_auth of a row is set only by the right answer, from the host and port that
\* announced the server, to the last challenge issued to them, for this address
\* and this game, before that challenge is too old.
Earned(row, d) ==
    \E n \in DOMAIN issued :
        /\ d.type = "validate" /\ d.src = issued[n].src
        /\ d.answer = ReturnValidate(issued[n].game, n)
        /\ row.addr = issued[n].addr /\ row.gamename = issued[n].game
        /\ now - issued[n].time <= 2 * Timeout
        /\ \A m \in DOMAIN issued : m > n => issued[m].src # d.src

AuthEarned == [][\A id \in DOMAIN serverlist :
    serverlist[id].f_auth = 0 /\ serverlist'[id].f_auth = 1
        => Earned(serverlist'[id], Head(socket))]_vars

\* No step deletes a row, gives an id another address, takes back a flag or
\* moves a time stamp backwards ("direct/auth set to false will NOT override").
NothingTakenBack(old, new) ==
    /\ new.addr = old.addr /\ new.f_auth >= old.f_auth /\ new.f_direct >= old.f_direct
    /\ new.dt_beacon >= old.dt_beacon /\ new.dt_updated >= old.dt_updated

RowsKept == [][/\ DOMAIN serverlist \subseteq DOMAIN serverlist'
               /\ \A id \in DOMAIN serverlist :
                      NothingTakenBack(serverlist[id], serverlist'[id])]_vars

\* The comment on the heartbeat branch: a heartbeat from a server that is not
\* authenticated gets a challenge, or one for that server is still pending.
ChallengedFor(a) == \E s \in Source : Pending(s)' /\ beaconList'[s].addr = a

MustChallenge(row, d) ==
    /\ Acceptable(d) /\ d.game \notin OverrideBeacon
    /\ row.addr = BeaconAddress(d) /\ row.f_auth = 0

UnauthenticatedChallenged == [][
    \A id \in DOMAIN serverlist :
        ReadHeartbeat /\ MustChallenge(serverlist[id], Head(socket))
            => ChallengedFor(serverlist[id].addr)]_vars
=============================================================================
