------------------------- MODULE StatusCheckerProofs -------------------------
(* The walk of the ticker over the table, the rows, their authentication and *)
(* what is stored about them, for any table and any network.                 *)
EXTENDS StatusChecker, SharedProofs, FiniteSetTheorems

\* The rows are numbered from 1, whatever they hold.
Numbered == \E S : serverlist \in Seq(S)

\* The queries of the cycle so far lie behind the index.
PollInv ==
    /\ now \in Nat /\ cycleStart \in Nat /\ cycleStart <= now
    /\ Numbered /\ dbIndex \in Int
    /\ polled \in Seq(Nat) /\ Len(polled) = now
    /\ \A t \in (cycleStart + 1) .. now : polled[t] # 0 => polled[t] <= dbIndex

\* getNextServer returns a row behind the index, or none.
LEMMA NextIsBehind ==
    ASSUME Numbered, NEW current \in Int, NEW time \in Nat
    PROVE  LET id == NextServer(serverlist, current, Ttl, time)
           IN  id \in Nat /\ (id # 0 => id > current /\ id \in DOMAIN serverlist)
<1> DEFINE due == {id \in DOMAIN serverlist : id > current /\ Recent(serverlist[id], Ttl, time)}
<1>1. due \subseteq Nat
  BY DEF Numbered
<1>2. CASE due = {}
  BY <1>2 DEF NextServer
<1>3. CASE due # {}
  <2>1. Min(due) \in due
    BY <1>1, <1>3, MinIsLowest
  <2>2. NextServer(serverlist, current, Ttl, time) = Min(due)
    BY <1>3 DEF NextServer
  <2> QED
    BY <1>1, <2>1, <2>2
<1> QED
  BY <1>2, <1>3

\* The statements of a reply replace rows or append one.
LEMMA UpdateNumbered ==
    ASSUME NEW t, NEW S, t \in Seq(S), NEW a, NEW g, NEW direct, NEW auth, NEW time
    PROVE  \E T : UpdateServer(t, a, g, direct, auth, time) \in Seq(T)
<1> DEFINE new(id) == IF id \in RowsOf(t, a) THEN UpdatedRow(t[id], g, direct, auth, time) ELSE t[id]
           T == {new(id) : id \in DOMAIN t}
<1>1. DOMAIN t = 1 .. Len(t) /\ Len(t) \in Nat
  OBVIOUS
<1>2. UpdateServer(t, a, g, direct, auth, time) = [id \in 1 .. Len(t) |-> new(id)]
  BY <1>1 DEF UpdateServer
<1>3. \A id \in 1 .. Len(t) : new(id) \in T
  BY <1>1
<1> HIDE DEF new, T
<1>4. [id \in 1 .. Len(t) |-> new(id)] \in Seq(T)
  BY <1>1, <1>3
<1> QED
  BY <1>2, <1>4

LEMMA UpsertNumbered ==
    ASSUME NEW t, NEW S, t \in Seq(S), NEW a, NEW g, NEW time, NEW upd, NEW ins
    PROVE  \E T : UpsertServer(t, a, g, 0, time, upd, ins) \in Seq(T)
<1> DEFINE row == [addr |-> a, gamename |-> g, f_auth |-> 0, f_direct |-> 0, dt_added |-> time,
                   dt_beacon |-> time, dt_sync |-> time, dt_updated |-> time]
<1>1. InsertServer(t, a, g, 0, time) = Append(t, row)
  BY DEF InsertServer
<1> HIDE DEF row
<1>2. InsertServer(t, a, g, 0, time) \in Seq(S \cup {row})
  <2>1. t \in Seq(S \cup {row}) /\ row \in S \cup {row}
    OBVIOUS
  <2> QED
    BY <1>1, <2>1
<1>3. UpsertServer(t, a, g, 0, time, upd, ins) \in
        {UpdateServer(t, a, g, 0, 0, time), InsertServer(t, a, g, 0, time), t}
  BY DEF UpsertServer
<1> QED
  BY <1>2, <1>3, UpdateNumbered

LEMMA PollInit == Init => PollInv
<1> SUFFICES ASSUME Init PROVE PollInv
  OBVIOUS
<1>1. PICK auth \in [DOMAIN Listed -> Bit] :
         serverlist = [id \in DOMAIN Listed |-> ListedRow(Listed[id], auth[id])]
  BY DEF Init
<1>2. Listed \in Seq(Address)
  BY CheckerAssumption
<1> DEFINE S == {ListedRow(Listed[id], auth[id]) : id \in DOMAIN Listed}
<1>3. serverlist \in Seq(S)
  BY <1>1, <1>2
<1> QED
  BY <1>3 DEF Init, PollInv, Numbered

\* Only the ticker moves the index and the record of queries, and only the reset
\* starts a cycle.
LEMMA PollKept ==
    ASSUME PollInv, UNCHANGED <<clocks, dbIndex, polled>>, Numbered'
    PROVE  PollInv'
  BY DEF PollInv, clocks

LEMMA TickerKeeps ==
    ASSUME PollInv, OnTicker
    PROVE  PollInv'
<1> DEFINE id == NextServer(serverlist, dbIndex, Ttl, now + 1)
<1>1. /\ now \in Nat /\ cycleStart \in Nat /\ dbIndex \in Int
      /\ polled \in Seq(Nat) /\ Len(polled) = now
  BY DEF PollInv
<1>2. id \in Nat /\ (id # 0 => id > dbIndex)
  <2>1. Numbered /\ now + 1 \in Nat
    BY <1>1 DEF PollInv
  <2> QED
    BY <1>1, <2>1, NextIsBehind
<1>3. /\ now' = now + 1 /\ cycleStart' = cycleStart /\ serverlist' = serverlist
      /\ polled' = Append(polled, id)
      /\ dbIndex' = IF id # 0 THEN id ELSE dbIndex
  BY DEF OnTicker, Query, IndexOf, tables
<1> HIDE DEF id
<1>4. /\ polled' \in Seq(Nat) /\ Len(polled') = now + 1 /\ polled'[now + 1] = id
      /\ \A t \in 1 .. now : polled'[t] = polled[t]
  BY <1>1, <1>2, <1>3
<1>5. \A t \in (cycleStart + 1) .. now : t \in 1 .. now
  BY <1>1
<1>6. \A t \in (cycleStart + 1) .. (now + 1) : t \in (cycleStart + 1) .. now \/ t = now + 1
  BY <1>1
<1>7. \A t \in (cycleStart + 1) .. now : polled[t] \in Nat /\ (polled[t] # 0 => polled[t] <= dbIndex)
  BY <1>1, <1>5 DEF PollInv
<1>8. \A t \in (cycleStart + 1) .. (now + 1) : polled'[t] # 0 => polled'[t] <= dbIndex'
  BY <1>1, <1>2, <1>3, <1>4, <1>5, <1>6, <1>7
<1> QED
  BY <1>1, <1>2, <1>3, <1>4, <1>8 DEF PollInv, Numbered

LEMMA PollNext ==
    ASSUME PollInv, [Next]_vars
    PROVE  PollInv'
<1>1. CASE OnTicker
  BY <1>1, TickerKeeps
<1>2. CASE OnReset
  BY <1>2 DEF OnReset, ClearBuffers, PollInv, Numbered, tables
<1>3. CASE ReadValidate
  <2>1. UNCHANGED <<clocks, dbIndex, polled>>
    BY <1>3 DEF ReadValidate, Take, clocks
  <2>2. \/ serverlist' = serverlist
        \/ \E a, g, auth : serverlist' = UpdateServer(serverlist, a, g, 0, auth, now)
    BY <1>3 DEF ReadValidate
  <2>3. PICK S : serverlist \in Seq(S)
    BY DEF PollInv, Numbered
  <2>4. Numbered'
    BY <2>2, <2>3, UpdateNumbered DEF Numbered
  <2> QED
    BY <2>1, <2>4, PollKept
<1>4. CASE ReadFinal
  <2>1. UNCHANGED <<clocks, dbIndex, polled>>
    BY <1>4 DEF ReadFinal, Take, clocks
  <2>2. \E a, g, upd, ins : serverlist' = UpsertServer(serverlist, a, g, 0, now, upd, ins)
    BY <1>4 DEF ReadFinal
  <2>3. PICK S : serverlist \in Seq(S)
    BY DEF PollInv, Numbered
  <2>4. Numbered'
    BY <2>2, <2>3, UpsertNumbered DEF Numbered
  <2> QED
    BY <2>1, <2>4, PollKept
<1>5. CASE ReadFragment \/ Horizon \/ UNCHANGED vars
           \/ \E a \in Address : Lose(a) \/ \E i \in DOMAIN net[a] : Deliver(a, i)
  <2>1. UNCHANGED <<clocks, dbIndex, polled, serverlist>>
    BY <1>5 DEF ReadFragment, Take, Horizon, vars, Lose, Deliver, tables, clocks
  <2> QED
    BY <2>1, PollKept DEF PollInv, Numbered
<1> QED
  BY <1>1, <1>2, <1>3, <1>4, <1>5 DEF Next

LEMMA PollInvariant == Spec => []PollInv
  BY PollInit, PollNext, PTL DEF Spec

LEMMA AskedOnceStep ==
    ASSUME PollInv, AskedOnce, [Next]_vars
    PROVE  AskedOnce'
<1>0. /\ now \in Nat /\ cycleStart \in Nat /\ dbIndex \in Int
      /\ polled \in Seq(Nat) /\ Len(polled) = now
  BY DEF PollInv
<1>1. CASE OnTicker
  <2> DEFINE id == NextServer(serverlist, dbIndex, Ttl, now + 1)
  <2>1. id \in Nat /\ (id # 0 => id > dbIndex)
    <3>1. Numbered /\ now + 1 \in Nat
      BY <1>0 DEF PollInv
    <3> QED
      BY <1>0, <3>1, NextIsBehind
  <2>2. now' = now + 1 /\ cycleStart' = cycleStart /\ polled' = Append(polled, id)
    BY <1>1 DEF OnTicker
  <2> HIDE DEF id
  <2>3. polled'[now + 1] = id /\ \A t \in 1 .. now : polled'[t] = polled[t]
    BY <1>0, <2>1, <2>2
  <2> SUFFICES ASSUME NEW t \in (cycleStart + 1) .. (now + 1), NEW u \in (cycleStart + 1) .. (now + 1),
                      t < u, polled'[t] # 0, polled'[u] # 0
               PROVE  polled'[t] < polled'[u]
    BY <2>2 DEF AskedOnce
  <2>4. t \in (cycleStart + 1) .. now /\ t \in 1 .. now
    BY <1>0
  <2>5. CASE u = now + 1
    <3>1. polled[t] # 0 /\ polled[t] <= dbIndex /\ polled[t] \in Nat
      BY <1>0, <2>3, <2>4 DEF PollInv
    <3> QED
      BY <1>0, <2>1, <2>3, <2>4, <2>5, <3>1
  <2>6. CASE u # now + 1
    <3>1. u \in (cycleStart + 1) .. now /\ u \in 1 .. now
      BY <1>0, <2>6
    <3> QED
      BY <2>3, <2>4, <3>1 DEF AskedOnce
  <2> QED
    BY <2>5, <2>6
<1>2. CASE OnReset
  <2>1. now' = now /\ cycleStart' = now
    BY <1>2 DEF OnReset
  <2> QED
    BY <1>0, <2>1 DEF AskedOnce
<1>3. CASE UNCHANGED <<clocks, polled>>
  BY <1>3 DEF AskedOnce, clocks
<1>4. OnTicker \/ OnReset \/ UNCHANGED <<clocks, polled>>
  BY DEF Next, ReadValidate, ReadFinal, ReadFragment, Take, Horizon, vars, Lose, Deliver
<1> QED
  BY <1>1, <1>2, <1>3, <1>4

\* No server is asked twice in a cycle: the index only grows until the reset, however
\* rows are inserted, renamed or revived behind or ahead of it.
THEOREM AskedOnceHolds == Spec => []AskedOnce
<1>1. Init => AskedOnce
  BY DEF Init, AskedOnce
<1>2. PollInv /\ AskedOnce /\ [Next]_vars => AskedOnce'
  BY AskedOnceStep
<1> QED
  BY <1>1, <1>2, PollInvariant, PTL DEF Spec
-----------------------------------------------------------------------------
\* Every query that finds the socket unread is counted by the workaround.
Unread == unread \in Nat /\ missedReadCalls \in Nat /\ unread <= missedReadCalls

LEMMA UnreadStep ==
    ASSUME Unread, ReadAfterTwoQueries, [Next]_vars
    PROVE  Unread' /\ ReadAfterTwoQueries'
<1>1. CASE OnTicker
  <2>1. slot = "idle" /\ unread < 2
    BY <1>1 DEF OnTicker, ReadAfterTwoQueries, Unread
  <2>2. \/ unread' = 0 /\ UNCHANGED missedReadCalls
        \/ UNCHANGED <<unread, missedReadCalls>>
        \/ /\ unread' = unread + 1 /\ missedReadCalls' = missedReadCalls + 1
           /\ slot' = IF missedReadCalls' >= 2 THEN "reading" ELSE slot
    BY <1>1 DEF OnTicker, Query, CountMissedRead
  <2> QED
    BY <2>1, <2>2 DEF Unread, ReadAfterTwoQueries
<1>2. CASE ReadValidate \/ ReadFragment \/ ReadFinal
  <2>1. unread' = 0 /\ missedReadCalls' = 0
    BY <1>2 DEF ReadValidate, ReadFragment, ReadFinal, Take
  <2> QED
    BY <2>1 DEF Unread, ReadAfterTwoQueries
<1>3. CASE \E a \in Address : \E i \in DOMAIN net[a] : Deliver(a, i)
  <2>1. UNCHANGED <<unread, missedReadCalls>> /\ slot' \in {slot, "reading"}
    BY <1>3 DEF Deliver
  <2> QED
    BY <2>1 DEF Unread, ReadAfterTwoQueries
<1>4. CASE OnReset \/ Horizon \/ UNCHANGED vars \/ \E a \in Address : Lose(a)
  <2>1. UNCHANGED <<unread, missedReadCalls, slot>>
    BY <1>4 DEF OnReset, Horizon, vars, Lose
  <2> QED
    BY <2>1 DEF Unread, ReadAfterTwoQueries
<1> QED
  BY <1>1, <1>2, <1>3, <1>4 DEF Next

\* The workaround works: two queries after its signal was missed a reply is read.
THEOREM ReadAfterTwoQueriesHolds == Spec => []ReadAfterTwoQueries
<1>1. Init => Unread /\ ReadAfterTwoQueries
  BY DEF Init, Unread, ReadAfterTwoQueries
<1>2. Unread /\ ReadAfterTwoQueries /\ [Next]_vars => Unread' /\ ReadAfterTwoQueries'
  BY UnreadStep
<1> QED
  BY <1>1, <1>2, PTL DEF Spec
-----------------------------------------------------------------------------
(* The rows and the buffers.                                               *)

\* Only computed answers are under way.
GoodReply == {r \in Reply : r.type = "validate" => r.answer[2] # NoSecure}

Fragment == {r \in Reply : r.type = "status"}

Typed ==
    /\ serverlist \in Table
    /\ dataBuffer \in [Address -> Seq(Fragment)]
    /\ secureBuffer \in [Address -> Secure]
    /\ net \in [Address -> Seq(GoodReply)] /\ socket \in Seq(GoodReply)

LEMMA TypedInit == Init => Typed
<1> SUFFICES ASSUME Init PROVE Typed
  OBVIOUS
<1>1. PICK auth \in [DOMAIN Listed -> Bit] :
         serverlist = [id \in DOMAIN Listed |-> ListedRow(Listed[id], auth[id])]
  BY DEF Init
<1>2. \A id \in DOMAIN Listed : ListedRow(Listed[id], auth[id]) \in Row
  <2>1. Listed \in Seq(Address) /\ "unknown" \in GameName
        /\ \A a \in DOMAIN Runs : Runs[a] \in GameName
    BY CheckerAssumption
  <2>2. \A id \in DOMAIN Listed : Listed[id] \in Address /\ auth[id] \in Bit
    BY <2>1
  <2> QED
    BY <2>1, <2>2 DEF ListedRow, Row, Bit
<1>3. serverlist \in Table
  <2>1. Listed \in Seq(Address)
    BY CheckerAssumption
  <2>2. serverlist \in [1 .. Len(Listed) -> Row] /\ Len(Listed) \in Nat
    BY <1>1, <1>2, <2>1
  <2> QED
    BY <2>2 DEF Table
<1>4. NoData \in Secure
  BY CheckerAssumption DEF NoData, Secure, NoSecure
<1> QED
  BY <1>3, <1>4 DEF Init, Typed, NoFragments, NoChallenges

\* What a server answers is computed from its cipher and the challenge of the tick.
LEMMA ResponsesGood ==
    ASSUME NEW a \in DOMAIN Runs, NEW challenged \in BOOLEAN, NEW t \in Nat, t # 0
    PROVE  Responses(a, challenged, t) \in Seq(GoodReply)
<1>1. ReplyFrom[a] \in Address /\ Runs[a] \in GameName /\ "" \in GameName
      /\ Cipher[Runs[a]] \in {Cipher[g] : g \in DOMAIN Cipher} /\ Parts \in Nat
  BY CheckerAssumption
<1>2. ValidateReply(a, t) \in GoodReply
  <2>1. <<Cipher[Runs[a]], t>> \in Answer
    BY <1>1 DEF Answer
  <2> QED
    BY <1>1, <2>1 DEF ValidateReply, GenerateValidateString, GoodReply, Reply, Copies, Bit, NoSecure
<1>3. StatusReply(a, t) \in Seq(GoodReply)
  <2>1. \A p \in Part : StatusReply(a, t)[p] \in GoodReply
    BY <1>1 DEF StatusReply, GoodReply, Reply, Copies, Bit
  <2>2. StatusReply(a, t) \in [1 .. Parts -> GoodReply]
    BY <2>1 DEF StatusReply, Part
  <2>3. Parts \in Nat
    BY <1>1
  <2> QED
    BY <2>2, <2>3
<1> QED
  BY <1>2, <1>3 DEF Responses

\* A query's challenge and the replies to it go where the row's server is.
LEMMA TickerTyped ==
    ASSUME PollInv, Typed, OnTicker
    PROVE  /\ Typed' /\ UNCHANGED serverlist
           /\ \/ UNCHANGED secureBuffer
              \/ \E id \in DOMAIN serverlist :
                    /\ id = polled'[now'] /\ now' = now + 1
                    /\ secureBuffer' = [secureBuffer EXCEPT ![serverlist[id].addr] =
                            [secure |-> now + 1, game |-> serverlist[id].gamename]]
<1> DEFINE id == NextServer(serverlist, dbIndex, Ttl, now + 1)
           row == serverlist[id]
<1>1. /\ now \in Nat /\ polled \in Seq(Nat) /\ Len(polled) = now
      /\ now' = now + 1 /\ UNCHANGED <<serverlist, dataBuffer, socket>>
      /\ polled' = Append(polled, id)
      /\ IF id # 0 THEN Query(id, now + 1) ELSE UNCHANGED <<secureBuffer, net>>
  BY DEF OnTicker, PollInv, tables
<1>2. id \in Nat /\ (id # 0 => id \in DOMAIN serverlist)
  <2>1. Numbered /\ dbIndex \in Int /\ now + 1 \in Nat
    BY DEF PollInv
  <2> QED
    BY <2>1, NextIsBehind
<1> HIDE DEF id
<1>3. CASE id = 0
  BY <1>1, <1>3 DEF Typed
<1>4. CASE id # 0
  <2>1. row.addr \in Address /\ row.gamename \in GameName
    <3>1. serverlist \in Seq(Row) /\ id \in DOMAIN serverlist
      BY <1>2, <1>4 DEF Typed, Table
    <3>2. row \in Row
      BY <3>1
    <3> QED
      BY <3>2 DEF Row
  <2>2. \/ UNCHANGED secureBuffer
        \/ secureBuffer' = [secureBuffer EXCEPT ![row.addr] =
                               [secure |-> now + 1, game |-> row.gamename]]
    BY <1>1, <1>4 DEF Query
  <2>3. secureBuffer' \in [Address -> Secure]
    <3>1. [secure |-> now + 1, game |-> row.gamename] \in Secure
      BY <1>1, <2>1 DEF Secure
    <3> QED
      BY <2>2, <3>1 DEF Typed
  <2>4. net' \in [Address -> Seq(GoodReply)]
    <3>1. CASE net' = net
      BY <3>1 DEF Typed
    <3>2. CASE net' # net
      <4> DEFINE sent == Responses(row.addr, row.f_auth = 0, now + 1)
                 to == ReplyFrom[row.addr]
      <4>1. row.addr \in DOMAIN Runs /\ net' = [net EXCEPT ![to] = @ \o sent]
        BY <1>1, <1>4, <3>2 DEF Query
      <4>2. sent \in Seq(GoodReply)
        <5>1. (row.f_auth = 0) \in BOOLEAN /\ now + 1 \in Nat /\ now + 1 # 0
          BY <1>1
        <5> QED
          BY <4>1, <5>1, ResponsesGood
      <4>3. to \in Address
        BY <2>1, CheckerAssumption
      <4> HIDE DEF sent, to
      <4> QED
        BY <4>1, <4>2, <4>3 DEF Typed
    <3> QED
      BY <3>1, <3>2
  <2>5. polled'[now'] = id
    BY <1>1, <1>2
  <2> QED
    BY <1>1, <1>2, <1>4, <2>2, <2>3, <2>4, <2>5 DEF Typed
<1> QED
  BY <1>3, <1>4

\* The network neither invents nor changes answers.
LEMMA DeliverTyped ==
    ASSUME Typed, NEW a \in Address, NEW i \in DOMAIN net[a], Deliver(a, i)
    PROVE  Typed'
<1> DEFINE r == net[a][i]
           s == net[a]
<1>1. s \in Seq(GoodReply) /\ r \in GoodReply /\ i \in 1 .. Len(s)
  BY DEF Typed
<1>2. [r EXCEPT !.copies = 0] \in GoodReply
  BY <1>1 DEF GoodReply, Reply, Bit
<1>3. Without(s, i) \in Seq(GoodReply)
  BY <1>1 DEF Without
<1>4. [s EXCEPT ![i].copies = 0] \in Seq(GoodReply)
  <2>1. [s EXCEPT ![i].copies = 0] = [s EXCEPT ![i] = [r EXCEPT !.copies = 0]]
    OBVIOUS
  <2> QED
    BY <1>1, <1>2, <2>1
<1>5. \/ net' = [net EXCEPT ![a] = Without(s, i)]
      \/ net' = [net EXCEPT ![a] = [s EXCEPT ![i].copies = 0]]
  BY DEF Deliver
<1>6. net' \in [Address -> Seq(GoodReply)]
  BY <1>3, <1>4, <1>5 DEF Typed
<1>7. socket' \in Seq(GoodReply)
  <2>1. socket' = socket \/ socket' = Append(socket, [r EXCEPT !.copies = 0])
    BY DEF Deliver
  <2>2. socket \in Seq(GoodReply)
    BY DEF Typed
  <2> HIDE DEF r
  <2> QED
    BY <1>2, <2>1, <2>2
<1> QED
  BY <1>6, <1>7 DEF Deliver, Typed, tables

\* The slot takes one datagram, from an address.
LEMMA TakeTyped ==
    ASSUME Typed, Take
    PROVE  /\ Head(socket) \in GoodReply /\ Head(socket).addr \in Address
           /\ socket' \in Seq(GoodReply) /\ UNCHANGED <<net, clocks, polled>>
<1>1. Head(socket) \in GoodReply /\ socket' \in Seq(GoodReply)
  BY DEF Take, Typed
<1> QED
  BY <1>1 DEF Take, GoodReply, Reply

\* A buffered gamename is one of the column's values.
LEMMA BufferedTyped ==
    ASSUME NEW buf \in Seq(Fragment)
    PROVE  BufferedGame(buf) \in GameName
<1> DEFINE named == {k \in DOMAIN buf : buf[k].game # ""}
<1>1. /\ DOMAIN buf = 1 .. Len(buf) /\ Len(buf) \in Nat
      /\ \A k \in DOMAIN buf : buf[k] \in Fragment
  OBVIOUS
<1>2. \A f \in Fragment : f.game \in GameName
  BY DEF Fragment, Reply
<1>3. CASE named = {}
  BY <1>3, CheckerAssumption DEF BufferedGame
<1>4. CASE named # {}
  <2>1. Max(named) \in named
    BY <1>1, <1>4, MaxIsHighest
  <2>2. BufferedGame(buf) = buf[Max(named)].game
    BY <1>4 DEF BufferedGame
  <2> QED
    BY <1>1, <1>2, <2>1, <2>2
<1> QED
  BY <1>3, <1>4

\* What the two branches that write do to the rows.
LEMMA ValidateStep ==
    ASSUME Typed, ReadValidate
    PROVE  \/ serverlist' = serverlist
           \/ \E a \in Address, g \in GameName, auth \in Bit :
                 serverlist' = UpdateServer(serverlist, a, g, 0, auth, now)
<1> DEFINE m == Head(socket)
<1>1. m.addr \in Address
  BY TakeTyped DEF ReadValidate
<1>2. secureBuffer[m.addr].game \in GameName
  BY <1>1 DEF Typed, Secure
<1>3. \/ serverlist' = serverlist
      \/ \E auth \in Bit :
            serverlist' = UpdateServer(serverlist, m.addr, secureBuffer[m.addr].game, 0, auth, now)
  BY DEF ReadValidate, Bit
<1> HIDE DEF m
<1> QED
  BY <1>1, <1>2, <1>3

LEMMA FinalStep ==
    ASSUME Typed, ReadFinal
    PROVE  \E a \in Address, g \in GameName, upd, ins \in Result :
              /\ serverlist' = UpsertServer(serverlist, a, g, 0, now, upd, ins)
              /\ ~failed' => ~failed /\ upd = "ok"
<1> DEFINE m == Head(socket)
           buf == Append(dataBuffer[m.addr], m)
<1>1. m \in Fragment /\ m.addr \in Address
  BY TakeTyped DEF ReadFinal, Fragment, GoodReply
<1>2. BufferedGame(buf) \in GameName
  <2>1. buf \in Seq(Fragment)
    BY <1>1 DEF Typed
  <2> QED
    BY <2>1, BufferedTyped
<1>3. PICK ok \in SqlOutcome :
        /\ FailedIn(ok)
        /\ serverlist' = UpsertServer(serverlist, m.addr, BufferedGame(buf), 0, now,
                                      ok["update"], ok["insert"])
  BY DEF ReadFinal
<1>4. ok["update"] \in Result /\ ok["insert"] \in Result
  BY DEF SqlOutcome, Statement, Result
<1>5. ~failed' => ~failed /\ ok["update"] = "ok"
  BY <1>3, <1>4 DEF FailedIn, Statement, Result
<1> HIDE DEF buf, m
<1> QED
  BY <1>1, <1>2, <1>3, <1>4, <1>5

LEMMA ReadTyped ==
    ASSUME PollInv, Typed, ReadValidate \/ ReadFragment \/ ReadFinal
    PROVE  Typed'
<1> DEFINE m == Head(socket)
<1>1. /\ m \in GoodReply /\ m.addr \in Address
      /\ socket' \in Seq(GoodReply) /\ net' = net
  BY TakeTyped DEF ReadValidate, ReadFragment, ReadFinal
<1>2. now \in Nat /\ 0 \in Bit
  BY DEF PollInv, Bit
<1> HIDE DEF m
<1>3. CASE ReadValidate
  <2>1. NoData \in Secure
    BY CheckerAssumption DEF NoData, Secure, NoSecure
  <2>2. secureBuffer' \in [Address -> Secure]
    BY <1>3, <2>1 DEF ReadValidate, Typed
  <2>3. dataBuffer' \in [Address -> Seq(Fragment)]
    <3>1. dataBuffer' = [dataBuffer EXCEPT ![m.addr] = << >>]
      BY <1>3 DEF ReadValidate, m
    <3>2. dataBuffer \in [Address -> Seq(Fragment)] /\ << >> \in Seq(Fragment)
      BY DEF Typed
    <3> QED
      BY <3>1, <3>2
  <2>4. serverlist' \in Table
    BY <1>2, <1>3, ValidateStep, UpdateServerKeeps DEF Typed
  <2> QED
    BY <1>1, <2>2, <2>3, <2>4 DEF Typed
<1>4. CASE ReadFragment
  <2>1. m \in Fragment /\ dataBuffer' = [dataBuffer EXCEPT ![m.addr] = Append(@, m)]
    BY <1>1, <1>4 DEF ReadFragment, Fragment, GoodReply, m
  <2>2. dataBuffer' \in [Address -> Seq(Fragment)]
    BY <1>1, <2>1 DEF Typed
  <2> QED
    BY <1>1, <1>4, <2>2 DEF ReadFragment, Typed, tables
<1>5. CASE ReadFinal
  <2>1. serverlist' \in Table
    BY <1>2, <1>5, FinalStep, UpsertServerKeeps DEF Typed
  <2>2. dataBuffer' \in [Address -> Seq(Fragment)] /\ UNCHANGED secureBuffer
    <3>1. dataBuffer' = [dataBuffer EXCEPT ![m.addr] = << >>]
      BY <1>5 DEF ReadFinal, m
    <3>2. dataBuffer \in [Address -> Seq(Fragment)] /\ << >> \in Seq(Fragment)
      BY DEF Typed
    <3> QED
      BY <1>5, <3>1, <3>2 DEF ReadFinal
  <2> QED
    BY <1>1, <2>1, <2>2 DEF Typed
<1> QED
  BY <1>3, <1>4, <1>5

LEMMA TypedNext ==
    ASSUME PollInv, Typed, [Next]_vars
    PROVE  Typed'
<1>1. CASE OnTicker
  BY <1>1, TickerTyped
<1>2. CASE OnReset
  <2>1. NoData \in Secure
    BY CheckerAssumption DEF NoData, Secure, NoSecure
  <2> QED
    BY <1>2, <2>1 DEF OnReset, ClearBuffers, NoFragments, NoChallenges, Typed, tables
<1>3. CASE ReadValidate \/ ReadFragment \/ ReadFinal
  BY <1>3, ReadTyped
<1>4. CASE \E a \in Address : \E i \in DOMAIN net[a] : Deliver(a, i)
  BY <1>4, DeliverTyped
<1>5. CASE \E a \in Address : Lose(a)
  <2>1. net' \in [Address -> Seq(GoodReply)]
    BY <1>5 DEF Lose, Typed
  <2> QED
    BY <1>5, <2>1 DEF Lose, Typed, tables
<1>6. CASE Horizon \/ UNCHANGED vars
  BY <1>6 DEF Horizon, vars, Typed, tables
<1> QED
  BY <1>1, <1>2, <1>3, <1>4, <1>5, <1>6 DEF Next

LEMMA TypedInvariant == Spec => []Typed
  BY TypedInit, TypedNext, PollInvariant, PTL DEF Spec
-----------------------------------------------------------------------------
(* Authentication.                                                         *)

\* A challenge in the buffer was sent in this cycle to the row of its address.
Challenged == \A a \in Address : secureBuffer[a] = NoData
    \/ LET t == secureBuffer[a].secure
       IN  t \in (cycleStart + 1) .. now /\ polled[t] \in RowsOf(serverlist, a)

\* No step moves a row to another address or drops one.
LEMMA RowsStay ==
    ASSUME PollInv, Typed, [Next]_vars
    PROVE  \A a \in Address : RowsOf(serverlist, a) \subseteq RowsOf(serverlist', a)
<1>0. now \in Nat /\ 0 \in Bit
  BY DEF PollInv, Bit
<1>1. CASE UNCHANGED serverlist
  BY <1>1
<1>2. CASE ReadValidate
  BY <1>0, <1>2, ValidateStep, UpdateServerKeeps DEF Typed, RowsOf
<1>3. CASE ReadFinal
  BY <1>0, <1>3, FinalStep, UpsertServerKeeps DEF Typed, RowsOf
<1>4. ReadValidate \/ ReadFinal \/ UNCHANGED serverlist
  BY TickerTyped DEF Next, ReadFragment, Horizon, vars, Lose, Deliver, OnReset, OnTicker, tables
<1> QED
  BY <1>1, <1>2, <1>3, <1>4

LEMMA ChallengedStep ==
    ASSUME PollInv, Typed, Challenged, [Next]_vars
    PROVE  Challenged'
<1>0. /\ now \in Nat /\ cycleStart \in Nat /\ polled \in Seq(Nat) /\ Len(polled) = now
  BY DEF PollInv
<1>1. CASE OnTicker
  <2> SUFFICES ASSUME NEW a \in Address, secureBuffer'[a] # NoData
               PROVE  LET t == secureBuffer'[a].secure
                      IN  /\ t \in (cycleStart' + 1) .. now'
                          /\ polled'[t] \in RowsOf(serverlist', a)
    BY DEF Challenged
  <2>1. now' = now + 1 /\ cycleStart' = cycleStart /\ UNCHANGED serverlist
    BY <1>1, TickerTyped DEF OnTicker
  <2>2. \A t \in 1 .. now : polled'[t] = polled[t]
    <3>1. PICK id \in Nat : polled' = Append(polled, id)
      <4>1. Numbered /\ dbIndex \in Int /\ now + 1 \in Nat
        BY DEF PollInv
      <4> QED
        BY <1>1, <4>1, NextIsBehind DEF OnTicker
    <3> QED
      BY <1>0, <3>1
  <2>3. CASE secureBuffer'[a] = secureBuffer[a]
    <3> DEFINE t == secureBuffer[a].secure
    <3>1. t \in (cycleStart + 1) .. now /\ polled[t] \in RowsOf(serverlist, a)
      BY <2>3 DEF Challenged
    <3>2. t \in 1 .. now /\ t \in (cycleStart + 1) .. (now + 1)
      BY <1>0, <3>1
    <3> QED
      BY <2>1, <2>2, <2>3, <3>1, <3>2
  <2>4. CASE secureBuffer'[a] # secureBuffer[a]
    <3>1. PICK id \in DOMAIN serverlist :
            /\ id = polled'[now'] /\ now' = now + 1
            /\ secureBuffer' = [secureBuffer EXCEPT ![serverlist[id].addr] =
                    [secure |-> now + 1, game |-> serverlist[id].gamename]]
      BY <1>1, <2>4, TickerTyped
    <3>2. a = serverlist[id].addr /\ secureBuffer'[a].secure = now + 1
      BY <2>4, <3>1 DEF Typed
    <3>3. now + 1 \in (cycleStart + 1) .. (now + 1)
      <4>1. cycleStart <= now
        BY DEF PollInv
      <4> QED
        BY <1>0, <4>1
    <3> QED
      BY <2>1, <3>1, <3>2, <3>3 DEF RowsOf
  <2> QED
    BY <2>3, <2>4
<1>2. CASE OnReset
  BY <1>2 DEF OnReset, ClearBuffers, NoChallenges, Challenged
<1>3. CASE /\ UNCHANGED <<clocks, polled>>
           /\ \A a \in Address : secureBuffer'[a] \in {secureBuffer[a], NoData}
  <2>1. \A a \in Address : RowsOf(serverlist, a) \subseteq RowsOf(serverlist', a)
    BY RowsStay
  <2> QED
    BY <1>3, <2>1 DEF Challenged, clocks
<1>4. CASE ReadValidate
  <2>1. \A a \in Address : secureBuffer'[a] \in {secureBuffer[a], NoData}
    BY <1>4 DEF ReadValidate, Typed
  <2> QED
    BY <1>3, <1>4, <2>1 DEF ReadValidate, Take
<1>5. OnTicker \/ OnReset \/ ReadValidate \/ UNCHANGED <<clocks, polled, secureBuffer>>
  BY DEF Next, ReadFragment, ReadFinal, Take, Horizon, vars, Lose, Deliver
<1> QED
  BY <1>1, <1>2, <1>3, <1>4, <1>5

\* Only the answer to a challenge sets f_auth of a row.
LEMMA OnlyAnswersAuthenticate ==
    ASSUME PollInv, Typed, [Next]_vars, NEW id \in DOMAIN serverlist,
           serverlist[id].f_auth = 0, serverlist'[id].f_auth = 1
    PROVE  ReadValidate
<1>1. CASE ReadFinal
  <2>1. now \in Nat /\ 0 \in Bit
    BY DEF PollInv, Bit
  <2>2. serverlist'[id].f_auth = serverlist[id].f_auth
    BY <1>1, <2>1, FinalStep, UpsertServerKeeps DEF Typed
  <2> QED
    BY <2>2
<1>2. ReadValidate \/ ReadFinal \/ UNCHANGED serverlist
  BY DEF Next, ReadFragment, Horizon, vars, Lose, Deliver, OnReset, OnTicker, tables
<1> QED
  BY <1>1, <1>2

\* f_auth is set only by the answer to a challenge of this cycle, whatever is lost,
\* repeated, late or unsignalled and whichever statements fail.  The empty name stands
\* for no challenge, so it must not be one that needs no answer.
THEOREM AuthEarnedHolds ==
    ASSUME NoData.game \notin OverrideClient
    PROVE  Spec => AuthEarned
<1>1. Init => Challenged
  BY DEF Init, Challenged, NoChallenges
<1>2. PollInv /\ Typed /\ Challenged /\ [Next]_vars => Challenged'
  BY ChallengedStep
<1>3. PollInv /\ Typed /\ Challenged /\ [Next]_vars =>
        [\A id \in DOMAIN serverlist : serverlist[id].f_auth = 0 /\ serverlist'[id].f_auth = 1
            => Earned(id, Head(socket))]_vars
  <2> SUFFICES ASSUME PollInv, Typed, Challenged, [Next]_vars, NEW id \in DOMAIN serverlist,
                      serverlist[id].f_auth = 0, serverlist'[id].f_auth = 1
               PROVE  Earned(id, Head(socket))
    OBVIOUS
  <2> DEFINE m == Head(socket)
             s == secureBuffer[m.addr]
             auth == IF ValidateGamename(FALSE, s.game, m.answer, s.secure) THEN 1 ELSE 0
  <2>1. ReadValidate
    BY OnlyAnswersAuthenticate
  <2>2. m \in GoodReply /\ m.addr \in Address /\ m.type = "validate"
    BY <2>1, TakeTyped DEF ReadValidate
  <2>3. serverlist' = UpdateServer(serverlist, m.addr, s.game, 0, auth, now)
    <3>1. serverlist' # serverlist
      OBVIOUS
    <3> QED
      BY <2>1, <3>1 DEF ReadValidate
  <2>4. s \in Secure /\ s.game \in GameName /\ now \in Nat /\ 0 \in Bit
    BY <2>2 DEF Typed, Secure, PollInv, Bit
  <2> auth \in Bit
    BY DEF Bit
  <2>8. auth = 1 => s.game \in OverrideClient \/ m.answer = ReturnValidate(s.game, s.secure)
    BY DEF ValidateGamename
  <2> HIDE DEF m, s, auth
  <2>5. serverlist[id] \in Row
    <3>1. serverlist \in Seq(Row)
      BY DEF Typed, Table
    <3> QED
      BY <3>1
  <2>6. serverlist'[id] = IF serverlist[id].addr = m.addr
                          THEN UpdatedRow(serverlist[id], s.game, 0, auth, now)
                          ELSE serverlist[id]
    BY <2>2, <2>3, <2>4, UpdateServerKeeps DEF Typed
  <2>7. auth = 1 /\ serverlist[id].addr = m.addr /\ serverlist'[id].gamename = s.game
    BY <2>5, <2>6 DEF UpdatedRow, Row
  <2>9. s # NoData
    <3>1. m.answer[2] # NoSecure
      BY <2>2 DEF GoodReply
    <3>2. m.answer # Invalid
      BY <3>1 DEF Invalid
    <3>3. s = NoData => s.game = NoData.game /\ ReturnValidate(s.game, s.secure) = Invalid
      <4>1. NoData.secure = NoSecure
        BY DEF NoData
      <4> QED
        BY <4>1 DEF ReturnValidate
    <3> QED
      BY <2>7, <2>8, <3>2, <3>3
  <2>10. s.secure \in (cycleStart + 1) .. now /\ polled[s.secure] \in RowsOf(serverlist, m.addr)
    BY <2>2, <2>9 DEF Challenged, s
  <2> QED
    <3> DEFINE t == s.secure
    <3>1. /\ t \in (cycleStart + 1) .. now /\ polled[t] \in RowsOf(serverlist, m.addr)
          /\ m.type = "validate" /\ m.addr = serverlist[id].addr
          /\ \/ serverlist'[id].gamename \in OverrideClient
             \/ m.answer = ReturnValidate(serverlist'[id].gamename, t)
      BY <2>2, <2>7, <2>8, <2>10
    <3> HIDE DEF t
    <3> QED
      BY <3>1 DEF Earned, m
<1> QED
  BY <1>1, <1>2, <1>3, PollInvariant, TypedInvariant, PTL DEF Spec, AuthEarned
-----------------------------------------------------------------------------
\* Replies from addresses nobody listed insert rows, and none of them twice.
THEOREM UniqueAddressHolds == Spec => []UniqueAddress
<1>1. Init => UniqueAddress
  <2> SUFFICES ASSUME Init PROVE UniqueIn(serverlist)
    BY DEF UniqueAddress
  <2>1. \A i, j \in DOMAIN Listed : Listed[i] = Listed[j] => i = j
    BY CheckerAssumption
  <2>2. DOMAIN serverlist = DOMAIN Listed
        /\ \A id \in DOMAIN Listed : serverlist[id].addr = Listed[id]
    BY DEF Init, ListedRow
  <2> QED
    BY <2>1, <2>2 DEF UniqueIn
<1>2. PollInv /\ Typed /\ UniqueAddress /\ [Next]_vars => UniqueAddress'
  <2> SUFFICES ASSUME PollInv, Typed, UniqueAddress, [Next]_vars, ~failed'
               PROVE  UniqueIn(serverlist')
    BY DEF UniqueAddress
  <2>0. now \in Nat /\ 0 \in Bit
    BY DEF PollInv, Bit
  <2>1. CASE UNCHANGED <<serverlist, failed>>
    BY <2>1 DEF UniqueAddress
  <2>2. CASE ReadValidate
    <3>1. ~failed
      BY <2>2 DEF ReadValidate, FailedIn
    <3>2. DOMAIN serverlist' = DOMAIN serverlist
          /\ \A id \in DOMAIN serverlist : serverlist'[id].addr = serverlist[id].addr
      BY <2>0, <2>2, ValidateStep, UpdateServerKeeps DEF Typed
    <3> QED
      BY <3>1, <3>2 DEF UniqueAddress, UniqueIn
  <2>3. CASE ReadFinal
    <3>1. PICK a \in Address, g \in GameName, upd, ins \in Result :
            /\ serverlist' = UpsertServer(serverlist, a, g, 0, now, upd, ins)
            /\ ~failed' => ~failed /\ upd = "ok"
      BY <2>3, FinalStep
    <3> QED
      BY <2>0, <3>1, UpsertServerUnique DEF Typed, UniqueAddress
  <2>4. ReadValidate \/ ReadFinal \/ UNCHANGED <<serverlist, failed>>
    BY DEF Next, ReadFragment, Horizon, vars, Lose, Deliver, OnReset, OnTicker, tables
  <2> QED
    BY <2>1, <2>2, <2>3, <2>4
<1> QED
  BY <1>1, <1>2, PollInvariant, TypedInvariant, PTL DEF Spec
-----------------------------------------------------------------------------
(* The rows of serverinfo and playerinfo.                                  *)

\* The k-th element of a set of ids, which insertServerInfo's loop visits, exists.
LEMMA RankExists ==
    ASSUME NEW n \in Nat, NEW S \in SUBSET (1 .. n), NEW k \in 1 .. Cardinality(S)
    PROVE  \E id \in S : Cardinality({j \in S : j < id}) = k - 1
<1> DEFINE upTo(m) == {j \in S : j <= m}
           T == {m \in Nat : Cardinality(upTo(m)) >= k}
<1>0. /\ IsFiniteSet(S) /\ Cardinality(S) \in Nat
      /\ \A j \in S : j \in Nat /\ 1 <= j /\ j <= n
  <2>1. IsFiniteSet(1 .. n)
    BY FS_Interval
  <2>2. IsFiniteSet(S)
    BY <2>1, FS_Subset
  <2>3. Cardinality(S) \in Nat
    BY <2>2, FS_CardinalityType
  <2> QED
    BY <2>2, <2>3
<1>1. \A m \in Nat : IsFiniteSet(upTo(m)) /\ Cardinality(upTo(m)) \in Nat
  <2> SUFFICES ASSUME NEW m \in Nat PROVE IsFiniteSet(upTo(m)) /\ Cardinality(upTo(m)) \in Nat
    OBVIOUS
  <2>1. upTo(m) \in SUBSET S
    OBVIOUS
  <2> HIDE DEF upTo
  <2> QED
    BY <1>0, <2>1, FS_Subset, FS_CardinalityType
<1>2. upTo(0) = {} /\ upTo(n) = S
  <2>1. \A j \in S : ~(j <= 0) /\ j <= n
    BY <1>0
  <2> QED
    BY <2>1
<1>3. n \in T
  BY <1>0, <1>2
<1>4. Min(T) \in T /\ \A m \in T : Min(T) <= m
  <2> T \in SUBSET Nat /\ T # {}
    BY <1>3
  <2> HIDE DEF T
  <2> QED
    BY MinIsLowest
<1> DEFINE m == Min(T)
<1> HIDE DEF m
<1>5. m \in Nat /\ Cardinality(upTo(m)) >= k /\ \A i \in Nat : Cardinality(upTo(i)) >= k => m <= i
  BY <1>4 DEF m
<1> HIDE DEF T
<1>6. m # 0
  <2>1. Cardinality(upTo(0)) = 0
    BY <1>2, FS_EmptySet
  <2> HIDE DEF upTo
  <2> QED
    BY <1>0, <1>5, <2>1
<1>7. m - 1 \in Nat /\ m \notin upTo(m - 1)
  BY <1>5, <1>6
<1>8. Cardinality(upTo(m - 1)) < k
  <2> HIDE DEF upTo
  <2>1. ~ (Cardinality(upTo(m - 1)) >= k)
    BY <1>5, <1>7
  <2>2. Cardinality(upTo(m - 1)) \in Nat /\ k \in Nat
    BY <1>0, <1>1, <1>7
  <2> QED
    BY <2>1, <2>2
<1>9. m \in S
  <2> SUFFICES ASSUME m \notin S PROVE FALSE
    OBVIOUS
  <2>1. upTo(m) = upTo(m - 1)
    <3>1. \A j \in S : j <= m <=> j <= m - 1
      BY <1>0, <1>5, <1>7
    <3> QED
      BY <3>1
  <2>2. Cardinality(upTo(m)) = Cardinality(upTo(m - 1))
    BY <2>1
  <2>3. Cardinality(upTo(m - 1)) \in Nat /\ k \in Nat
    BY <1>0, <1>1, <1>7
  <2> HIDE DEF upTo
  <2> QED
    BY <1>5, <1>8, <2>2, <2>3
<1>10. upTo(m) = upTo(m - 1) \cup {m} /\ {j \in S : j < m} = upTo(m - 1)
  <2>1. \A j \in S : /\ j <= m <=> j <= m - 1 \/ j = m
                     /\ j < m <=> j <= m - 1
    BY <1>0, <1>5, <1>7
  <2>2. m <= m
    BY <1>5
  <2> QED
    BY <1>9, <2>1, <2>2
<1>11. Cardinality(upTo(m)) = Cardinality(upTo(m - 1)) + 1
  <2> HIDE DEF upTo
  <2>1. IsFiniteSet(upTo(m - 1))
    BY <1>1, <1>7
  <2> QED
    BY <1>7, <1>10, <2>1, FS_AddElement
<1>12. Cardinality(upTo(m - 1)) = k - 1
  <2>1. Cardinality(upTo(m - 1)) \in Nat /\ k \in Nat
    BY <1>0, <1>1, <1>7
  <2> HIDE DEF upTo
  <2> QED
    BY <1>5, <1>8, <1>11, <2>1
<1> QED
  BY <1>9, <1>10, <1>12

InfoTyped == serverinfo \in Seq(InfoRow) /\ playerinfo \subseteq [sid : Nat \cup {-1}, poll : Nat]

LEMMA IdsType ==
    ASSUME serverlist' \in Table, NEW a
    PROVE  /\ Ids(a) \in SUBSET (1 .. Len(serverlist')) /\ Len(serverlist') \in Nat
           /\ Ids(a) \in SUBSET Nat
           /\ IsFiniteSet(Ids(a)) /\ Cardinality(Ids(a)) \in Nat
<1>1. Ids(a) \in SUBSET (1 .. Len(serverlist')) /\ Len(serverlist') \in Nat
  BY DEF Ids, RowsOf, Table
<1>2. Ids(a) \in SUBSET Nat
  BY <1>1
<1>3. IsFiniteSet(1 .. Len(serverlist'))
  BY <1>1, FS_Interval
<1> QED
  BY <1>1, <1>2, <1>3, FS_Subset, FS_CardinalityType

\* insertServerInfo appends rows of this address, one for each id.
LEMMA InsertInfo ==
    ASSUME serverlist' \in Table, NEW a, NEW info \in Seq(InfoRow)
    PROVE  LET new == InsertServerInfo(info, a)
           IN  /\ new \in Seq(InfoRow) /\ Len(new) = Len(info) + Cardinality(Ids(a))
               /\ \A i \in 1 .. Len(info) : new[i] = info[i]
               /\ \A i \in DOMAIN new : i \notin 1 .. Len(info) => new[i].sid \in Ids(a)
<1> DEFINE S == Ids(a)
           n == Cardinality(S)
           at(k) == CHOOSE id \in S : Cardinality({j \in S : j < id}) = k - 1
           row(k) == [sid |-> at(k), poll |-> [p \in Part |-> 0]]
           added == [k \in 1 .. n |-> row(k)]
<1>1. S \in SUBSET Nat /\ n \in Nat
  BY IdsType
<1>2. \A k \in 1 .. n : at(k) \in S
  <2> SUFFICES ASSUME NEW k \in 1 .. n PROVE at(k) \in S
    OBVIOUS
  <2>1. \E id \in S : Cardinality({j \in S : j < id}) = k - 1
    BY IdsType, RankExists
  <2> HIDE DEF S
  <2> QED
    BY <2>1
<1> HIDE DEF S, n, at
<1>3. \A k \in 1 .. n : row(k) \in InfoRow /\ row(k).sid \in S
  BY <1>1, <1>2 DEF InfoRow
<1>4. InsertServerInfo(info, a) = info \o added
  BY DEF InsertServerInfo, S, n, at
<1> HIDE DEF row
<1>5. added \in Seq(InfoRow) /\ Len(added) = n /\ \A k \in 1 .. n : added[k].sid \in S
  <2>1. added \in [1 .. n -> InfoRow]
    BY <1>3
  <2> QED
    BY <1>1, <1>3, <2>1
<1> HIDE DEF added
<1> DEFINE new == info \o added
<1>6. /\ new \in Seq(InfoRow) /\ Len(new) = Len(info) + n
      /\ \A i \in 1 .. Len(info) : new[i] = info[i]
      /\ \A i \in DOMAIN new : i \notin 1 .. Len(info) => i - Len(info) \in 1 .. n /\ new[i] = added[i - Len(info)]
  BY <1>1, <1>5
<1>7. \A i \in DOMAIN new : i \notin 1 .. Len(info) => new[i].sid \in S
  BY <1>5, <1>6
<1> QED
  BY <1>4, <1>6, <1>7 DEF S, n

\* updateServerInfo writes the parts of the reply it was given, no other row or column.
LEMMA UpdateInfoAll ==
    ASSUME NEW a, NEW info \in Seq(InfoRow), NEW buf \in Seq(Fragment)
    PROVE  LET new == UpdateServerInfo(info, a, buf)
           IN  /\ new \in Seq(InfoRow) /\ Len(new) = Len(info) /\ DOMAIN new = DOMAIN info
               /\ \A i \in DOMAIN info : new[i].sid = info[i].sid
               /\ \A i \in DOMAIN info : info[i].sid \notin Ids(a) => new[i] = info[i]
               /\ \A i \in DOMAIN info : info[i].sid \in Ids(a) =>
                      \A p \in Part : \A k \in DOMAIN buf :
                          buf[k].part = p /\ (\A j \in DOMAIN buf : buf[j].part = p => j = k)
                              => new[i].poll[p] = buf[k].poll
<1> DEFINE got(p) == {k \in DOMAIN buf : buf[k].part = p}
           poll(i) == [p \in Part |-> IF got(p) = {} THEN info[i].poll[p] ELSE buf[Max(got(p))].poll]
           row(i) == [info[i] EXCEPT !.poll = poll(i)]
           new == [i \in DOMAIN info |-> IF info[i].sid \in Ids(a) THEN row(i) ELSE info[i]]
<1>1. /\ DOMAIN buf = 1 .. Len(buf) /\ Len(buf) \in Nat
      /\ \A k \in DOMAIN buf : buf[k] \in Fragment
      /\ DOMAIN info = 1 .. Len(info) /\ Len(info) \in Nat
      /\ \A i \in DOMAIN info : info[i] \in InfoRow
  OBVIOUS
<1>2. \A f \in Fragment : f.poll \in Nat
  BY DEF Fragment, Reply
<1>3. \A p : got(p) # {} => Max(got(p)) \in got(p)
  <2> SUFFICES ASSUME NEW p, got(p) # {} PROVE Max(got(p)) \in got(p)
    OBVIOUS
  <2>1. got(p) \in SUBSET (1 .. Len(buf))
    BY <1>1
  <2> HIDE DEF got
  <2> QED
    BY <1>1, <2>1, MaxIsHighest
<1>4. \A i \in DOMAIN info : poll(i) \in [Part -> Nat]
  <2> SUFFICES ASSUME NEW i \in DOMAIN info, NEW p \in Part
               PROVE  (IF got(p) = {} THEN info[i].poll[p] ELSE buf[Max(got(p))].poll) \in Nat
    OBVIOUS
  <2>1. info[i].poll[p] \in Nat
    BY <1>1 DEF InfoRow
  <2>2. got(p) # {} => buf[Max(got(p))].poll \in Nat
    BY <1>1, <1>2, <1>3
  <2> HIDE DEF got
  <2> QED
    BY <2>1, <2>2
<1>5. \A i \in DOMAIN info : \A p \in Part : \A k \in DOMAIN buf :
        buf[k].part = p /\ (\A j \in DOMAIN buf : buf[j].part = p => j = k)
            => poll(i)[p] = buf[k].poll
  <2> SUFFICES ASSUME NEW i \in DOMAIN info, NEW p \in Part, NEW k \in DOMAIN buf,
                      buf[k].part = p, \A j \in DOMAIN buf : buf[j].part = p => j = k
               PROVE  poll(i)[p] = buf[k].poll
    OBVIOUS
  <2>1. got(p) # {} /\ \A j \in got(p) : j = k
    OBVIOUS
  <2>2. Max(got(p)) = k
    BY <1>3, <2>1
  <2> HIDE DEF got
  <2> QED
    BY <2>1, <2>2
<1> HIDE DEF got, poll
<1>6. \A i \in DOMAIN info : row(i) \in InfoRow /\ row(i).sid = info[i].sid /\ row(i).poll = poll(i)
  BY <1>1, <1>4 DEF InfoRow
<1>7. UpdateServerInfo(info, a, buf) = new
  BY DEF UpdateServerInfo, poll, got
<1> HIDE DEF row
<1>8. new \in Seq(InfoRow) /\ Len(new) = Len(info)
  <2>1. new \in [1 .. Len(info) -> InfoRow]
    BY <1>1, <1>6
  <2> QED
    BY <1>1, <2>1
<1> QED
  BY <1>5, <1>6, <1>7, <1>8

LEMMA UpdateInfo ==
    ASSUME NEW a, NEW info \in Seq(InfoRow), NEW buf \in Seq(Fragment)
    PROVE  /\ UpdateServerInfo(info, a, buf) \in Seq(InfoRow)
           /\ DOMAIN UpdateServerInfo(info, a, buf) = DOMAIN info
<1> DEFINE new == UpdateServerInfo(info, a, buf)
<1>1. new \in Seq(InfoRow) /\ DOMAIN new = DOMAIN info
  BY UpdateInfoAll
<1> QED
  BY <1>1

LEMMA UpdateInfoSids ==
    ASSUME NEW a, NEW info \in Seq(InfoRow), NEW buf \in Seq(Fragment), NEW i \in DOMAIN info
    PROVE  /\ UpdateServerInfo(info, a, buf)[i].sid = info[i].sid
           /\ info[i].sid \notin Ids(a) => UpdateServerInfo(info, a, buf)[i] = info[i]
<1> DEFINE new == UpdateServerInfo(info, a, buf)
<1>1. new[i].sid = info[i].sid /\ (info[i].sid \notin Ids(a) => new[i] = info[i])
  BY UpdateInfoAll
<1> QED
  BY <1>1

\* What a final fragment stores: the row of the reply, then its details and players.
LEMMA FinalStores ==
    ASSUME Typed, ReadFinal
    PROVE  \E a \in Address, buf \in Seq(Fragment), ok \in [Statement -> Result] :
              /\ a = Head(socket).addr /\ buf = Append(dataBuffer[a], Head(socket))
              /\ Head(socket) \in Fragment /\ Head(socket).part = Parts
              /\ dataBuffer' = [dataBuffer EXCEPT ![a] = << >>]
              /\ BufferedGame(buf) \in GameName
              /\ serverlist' = UpsertServer(serverlist, a, BufferedGame(buf), 0, now,
                                            ok["update"], ok["insert"])
              /\ StoreServerInfo(a, buf, ok) /\ StorePlayers(a, buf, ok)
              /\ ~failed' => ~failed /\ \A s \in Statement : ok[s] = "ok"
              /\ failed' => failed \/ SqlMayFail
<1> DEFINE m == Head(socket)
           buf == Append(dataBuffer[m.addr], m)
<1>1. m \in Fragment /\ m.addr \in Address /\ m.part = Parts
  BY TakeTyped DEF ReadFinal, Fragment, GoodReply
<1>2. buf \in Seq(Fragment)
  BY <1>1 DEF Typed
<1>3. BufferedGame(buf) \in GameName
  BY <1>2, BufferedTyped
<1>4. PICK ok \in SqlOutcome :
        /\ FailedIn(ok)
        /\ serverlist' = UpsertServer(serverlist, m.addr, BufferedGame(buf), 0, now,
                                      ok["update"], ok["insert"])
        /\ StoreServerInfo(m.addr, buf, ok) /\ StorePlayers(m.addr, buf, ok)
  BY DEF ReadFinal
<1>5. ok \in [Statement -> Result]
  BY DEF SqlOutcome, Result
<1>6. failed' = (failed \/ \E s \in Statement : ok[s] = "error")
  BY <1>4 DEF FailedIn
<1>7. ~failed' => ~failed /\ \A s \in Statement : ok[s] = "ok"
  BY <1>5, <1>6 DEF Result
<1>8. failed' => failed \/ SqlMayFail
  <2> SUFFICES ASSUME ~SqlMayFail PROVE failed' => failed
    OBVIOUS
  <2>1. \A s \in Statement : ok[s] = "ok"
    BY DEF SqlOutcome
  <2>2. ~ \E s \in Statement : ok[s] = "error"
    BY <2>1
  <2> QED
    BY <1>6, <2>2
<1>9. dataBuffer' = [dataBuffer EXCEPT ![m.addr] = << >>]
  BY DEF ReadFinal
<1> QED
  BY <1>1, <1>2, <1>3, <1>4, <1>5, <1>7, <1>8, <1>9

LEMMA StoreServerInfoTyped ==
    ASSUME serverlist' \in Table, serverinfo \in Seq(InfoRow), NEW a \in Address,
           NEW buf \in Seq(Fragment), NEW ok \in [Statement -> Result], StoreServerInfo(a, buf, ok)
    PROVE  serverinfo' \in Seq(InfoRow)
<1> DEFINE ins == InsertServerInfo(serverinfo, a)
<1>1. ins \in Seq(InfoRow)
  BY InsertInfo
<1>2. serverinfo' \in {UpdateServerInfo(serverinfo, a, buf), UpdateServerInfo(ins, a, buf),
                       ins, serverinfo}
      \/ serverinfo' = UpdateServerInfo(serverinfo, a, buf)
  BY DEF StoreServerInfo
<1> HIDE DEF ins
<1>3. UpdateServerInfo(serverinfo, a, buf) \in Seq(InfoRow)
  BY UpdateInfo
<1>4. UpdateServerInfo(ins, a, buf) \in Seq(InfoRow)
  BY <1>1, UpdateInfo
<1> QED
  BY <1>1, <1>2, <1>3, <1>4

LEMMA StorePlayersTyped ==
    ASSUME serverlist' \in Table, playerinfo \subseteq [sid : Nat \cup {-1}, poll : Nat],
           NEW a \in Address, NEW buf \in Seq(Fragment), NEW ok, StorePlayers(a, buf, ok)
    PROVE  playerinfo' \subseteq [sid : Nat \cup {-1}, poll : Nat]
<1> DEFINE sid == IF Ids(a) = {} THEN -1 ELSE Min(Ids(a))
           kept == {r \in playerinfo : r.sid # sid}
           new  == {[sid |-> sid, poll |-> buf[k].poll] :
                       k \in {j \in DOMAIN buf : Extended /\ buf[j].part = Parts}}
<1>1. sid \in Nat \cup {-1}
  <2>1. Ids(a) \in SUBSET Nat
    BY IdsType
  <2>2. Ids(a) # {} => Min(Ids(a)) \in Ids(a)
    BY <2>1, MinIsLowest
  <2> QED
    BY <2>1, <2>2
<1>2. \A k \in DOMAIN buf : buf[k].poll \in Nat
  <2>1. \A k \in DOMAIN buf : buf[k] \in Fragment
    OBVIOUS
  <2> QED
    BY <2>1 DEF Fragment, Reply
<1>3. playerinfo' \in {playerinfo, kept, kept \cup new}
  BY DEF StorePlayers
<1> HIDE DEF sid
<1> QED
  BY <1>1, <1>2, <1>3

CheckerTypes ==
    /\ InfoTyped /\ nextReset \in Nat /\ missedReadCalls \in Nat /\ slot \in Slot
    /\ dbIndex \in DOMAIN serverlist \cup {-1} /\ unread \in Nat /\ failed \in BOOLEAN

LEMMA CheckerTypesInit == Init => CheckerTypes
<1> SUFFICES ASSUME Init PROVE CheckerTypes
  OBVIOUS
<1>1. CycleTicks \in Nat
  BY CheckerAssumption
<1>2. InfoTyped
  BY DEF Init, InfoTyped
<1>3. /\ nextReset = CycleTicks /\ missedReadCalls = 0 /\ slot = "idle" /\ dbIndex = -1
      /\ unread = 0 /\ failed = FALSE
  BY DEF Init
<1> QED
  BY <1>1, <1>2, <1>3 DEF CheckerTypes, Slot

LEMMA RowsGrow ==
    ASSUME PollInv, Typed, [Next]_vars
    PROVE  DOMAIN serverlist \subseteq DOMAIN serverlist'
<1>0. now \in Nat /\ 0 \in Bit
  BY DEF PollInv, Bit
<1>1. CASE UNCHANGED serverlist
  BY <1>1
<1>2. CASE ReadValidate
  BY <1>0, <1>2, ValidateStep, UpdateServerKeeps DEF Typed
<1>3. CASE ReadFinal
  BY <1>0, <1>3, FinalStep, UpsertServerKeeps DEF Typed
<1>4. ReadValidate \/ ReadFinal \/ UNCHANGED serverlist
  BY TickerTyped DEF Next, ReadFragment, Horizon, vars, Lose, Deliver, OnReset, OnTicker, tables
<1> QED
  BY <1>1, <1>2, <1>3, <1>4

LEMMA CheckerTypesNext ==
    ASSUME PollInv, Typed, CheckerTypes, [Next]_vars
    PROVE  CheckerTypes'
<1>0. serverlist' \in Table /\ DOMAIN serverlist \subseteq DOMAIN serverlist'
  BY TypedNext, RowsGrow DEF Typed
<1>1. InfoTyped'
  <2>1. CASE ReadFinal
    <3>1. PICK a \in Address, buf \in Seq(Fragment), ok \in [Statement -> Result] :
             StoreServerInfo(a, buf, ok) /\ StorePlayers(a, buf, ok)
      BY <2>1, FinalStores
    <3>2. serverinfo' \in Seq(InfoRow)
      BY <1>0, <3>1, StoreServerInfoTyped DEF CheckerTypes, InfoTyped
    <3>3. playerinfo' \subseteq [sid : Nat \cup {-1}, poll : Nat]
      BY <1>0, <3>1, StorePlayersTyped DEF CheckerTypes, InfoTyped
    <3> QED
      BY <3>2, <3>3 DEF InfoTyped
  <2>2. ReadFinal \/ UNCHANGED <<serverinfo, playerinfo>>
    BY DEF Next, ReadFragment, ReadValidate, Horizon, vars, Lose, Deliver, OnReset, OnTicker, tables
  <2> QED
    BY <2>1, <2>2 DEF CheckerTypes, InfoTyped
<1>2. nextReset' \in Nat
  <2>1. nextReset' = nextReset \/ nextReset' = nextReset + CycleTicks
    BY DEF Next, ReadFragment, ReadValidate, ReadFinal, Take, Horizon, vars, Lose, Deliver, OnReset,
           OnTicker, clocks
  <2>2. CycleTicks \in Nat
    BY CheckerAssumption
  <2> QED
    BY <2>1, <2>2 DEF CheckerTypes
<1>3. dbIndex' \in DOMAIN serverlist' \cup {-1}
  <2>1. CASE OnTicker
    <3> DEFINE id == NextServer(serverlist, dbIndex, Ttl, now + 1)
    <3>1. id \in Nat /\ (id # 0 => id \in DOMAIN serverlist)
      <4>1. Numbered /\ dbIndex \in Int /\ now + 1 \in Nat
        BY DEF PollInv
      <4> QED
        BY <4>1, NextIsBehind
    <3>2. dbIndex' = IF id # 0 THEN id ELSE dbIndex
      BY <2>1 DEF OnTicker, Query, IndexOf
    <3> HIDE DEF id
    <3> QED
      BY <1>0, <3>1, <3>2 DEF CheckerTypes
  <2>2. OnTicker \/ dbIndex' = -1 \/ dbIndex' = dbIndex
    BY DEF Next, ReadFragment, ReadValidate, ReadFinal, Take, Horizon, vars, Lose, Deliver, OnReset,
           ClearBuffers
  <2> QED
    BY <1>0, <2>1, <2>2 DEF CheckerTypes
<1>4. missedReadCalls' \in Nat /\ slot' \in Slot /\ unread' \in Nat
  <2>1. CASE OnTicker
    <3>1. unread' \in {0, unread, unread + 1}
      BY <2>1 DEF OnTicker
    <3>2. UNCHANGED <<missedReadCalls, slot>> \/ CountMissedRead
      BY <2>1 DEF OnTicker, Query
    <3>3. missedReadCalls' \in {missedReadCalls, missedReadCalls + 1} /\ slot' \in {slot, "reading"}
      BY <3>2 DEF CountMissedRead
    <3> QED
      BY <3>1, <3>3 DEF CheckerTypes, Slot
  <2>2. CASE ReadValidate \/ ReadFragment \/ ReadFinal
    <3>1. Take
      BY <2>2 DEF ReadValidate, ReadFragment, ReadFinal
    <3> QED
      BY <3>1 DEF Take, After, Slot
  <2>3. CASE \E a \in Address : \E i \in DOMAIN net[a] : Deliver(a, i)
    BY <2>3 DEF Deliver, CheckerTypes, Slot
  <2>4. CASE OnReset \/ Horizon \/ UNCHANGED vars \/ \E a \in Address : Lose(a)
    BY <2>4 DEF OnReset, Horizon, vars, Lose, CheckerTypes
  <2> QED
    BY <2>1, <2>2, <2>3, <2>4 DEF Next
<1>5. failed' \in BOOLEAN
  <2>1. (failed' = failed) \/ \E ok \in SqlOutcome : FailedIn(ok)
    BY DEF Next, ReadFragment, ReadValidate, ReadFinal, Take, Horizon, vars, Lose, Deliver, OnReset,
           OnTicker
  <2> QED
    BY <2>1 DEF FailedIn, CheckerTypes
<1> QED
  BY <1>1, <1>2, <1>3, <1>4, <1>5 DEF CheckerTypes

LEMMA CheckerTypesInvariant == Spec => []CheckerTypes
  BY CheckerTypesInit, CheckerTypesNext, PollInvariant, TypedInvariant, PTL DEF Spec

\* The tables, buffers, replies and counters of the checker stay of their types, on any
\* network and whichever statements fail.
THEOREM CheckerTypeCorrect == Spec => []TypeOK
<1>1. PollInv /\ Typed /\ CheckerTypes => TypeOK
  <2> SUFFICES ASSUME PollInv, Typed, CheckerTypes PROVE TypeOK
    OBVIOUS
  <2>1. Fragment \subseteq Reply /\ GoodReply \subseteq Reply
    BY DEF Fragment, GoodReply
  <2>2. \A S, T : S \subseteq T => Seq(S) \subseteq Seq(T)
    OBVIOUS
  <2>3. Seq(Fragment) \subseteq Seq(Reply) /\ Seq(GoodReply) \subseteq Seq(Reply)
    BY <2>1, <2>2
  <2>4. /\ dataBuffer \in [Address -> Seq(Reply)] /\ net \in [Address -> Seq(Reply)]
        /\ socket \in Seq(Reply)
    BY <2>3 DEF Typed
  <2> QED
    BY <2>4 DEF PollInv, Typed, CheckerTypes, InfoTyped, TypeOK
<1> QED
  BY <1>1, PollInvariant, TypedInvariant, CheckerTypesInvariant, PTL
-----------------------------------------------------------------------------
(* One row of details for each server.                                     *)

\* A reply stored without an error: its address has one row in the list, and
\* serverinfo holds as many rows as before or one more, for that id.
StoredOnce(a, buf, id, info) ==
    /\ a = Head(socket).addr /\ buf = Append(dataBuffer[a], Head(socket)) /\ Ids(a) = {id}
    /\ serverlist' = UpsertServer(serverlist, a, BufferedGame(buf), 0, now, "ok", "ok")
    /\ \A i \in DOMAIN serverinfo : i \in DOMAIN info /\ info[i] = serverinfo[i]
    /\ \A i \in DOMAIN info : i \notin DOMAIN serverinfo => info[i].sid = id
    /\ \A i, j \in DOMAIN info : info[i].sid = info[j].sid => i = j
    /\ \E i \in DOMAIN info : info[i].sid = id
    /\ serverinfo' = UpdateServerInfo(info, a, buf)
    /\ playerinfo' = {r \in playerinfo : r.sid # id}
           \cup {[sid |-> id, poll |-> buf[k].poll] :
                    k \in {j \in DOMAIN buf : Extended /\ buf[j].part = Parts}}

LEMMA FinalUnfailed ==
    ASSUME PollInv, Typed, CheckerTypes, UniqueIn(serverlist), ReadFinal, ~failed',
           \A i, j \in DOMAIN serverinfo : serverinfo[i].sid = serverinfo[j].sid => i = j
    PROVE  \E a \in Address, buf \in Seq(Fragment), id \in DOMAIN serverlist', info \in Seq(InfoRow) :
              ~failed /\ StoredOnce(a, buf, id, info)
<1>1. PICK a \in Address, buf \in Seq(Fragment), ok \in [Statement -> Result] :
         /\ a = Head(socket).addr /\ buf = Append(dataBuffer[a], Head(socket))
         /\ BufferedGame(buf) \in GameName
         /\ serverlist' = UpsertServer(serverlist, a, BufferedGame(buf), 0, now,
                                       ok["update"], ok["insert"])
         /\ StoreServerInfo(a, buf, ok) /\ StorePlayers(a, buf, ok)
         /\ ~failed' => ~failed /\ \A s \in Statement : ok[s] = "ok"
  BY FinalStores
<1>2. /\ ~failed /\ ok["update"] = "ok" /\ ok["insert"] = "ok" /\ ok["updateInfo"] = "ok"
      /\ ok["insertInfo"] = "ok" /\ ok["updateAgain"] = "ok"
      /\ ok["deletePlayers"] = "ok" /\ ok["insertPlayers"] = "ok"
  BY <1>1 DEF Statement
<1>3. /\ now \in Nat /\ 0 \in Bit /\ serverlist \in Table /\ "ok" \in Result
      /\ serverlist' = UpsertServer(serverlist, a, BufferedGame(buf), 0, now, "ok", "ok")
  BY <1>1, <1>2 DEF PollInv, Bit, Typed, Result
<1>4. serverlist' \in Table /\ UniqueIn(serverlist')
  BY <1>1, <1>3, UpsertServerKeeps, UpsertServerUnique
<1>5. PICK id \in DOMAIN serverlist' : Ids(a) = {id}
  <2>1. \E id \in DOMAIN serverlist' : serverlist'[id].addr = a
    <3>1. CASE ExistServer(serverlist, a)
      BY <1>1, <1>3, <3>1, UpsertServerKeeps DEF ExistServer, RowsOf
    <3>2. CASE ~ExistServer(serverlist, a)
      <4>1. serverlist' = InsertServer(serverlist, a, BufferedGame(buf), 0, now)
        BY <1>3, <3>2 DEF UpsertServer
      <4>2. PICK row \in Row : serverlist' = Append(serverlist, row) /\ row.addr = a
        BY <1>1, <1>3, <4>1, InsertServerAppends
      <4> QED
        BY <1>3, <4>2, AppendKeeps
    <3> QED
      BY <3>1, <3>2
  <2> QED
    BY <1>4, <2>1 DEF Ids, RowsOf, UniqueIn
<1>6. serverinfo \in Seq(InfoRow)
  BY DEF CheckerTypes, InfoTyped
<1>7. PICK info \in Seq(InfoRow) :
         /\ \A i \in DOMAIN serverinfo : i \in DOMAIN info /\ info[i] = serverinfo[i]
         /\ \A i \in DOMAIN info : i \notin DOMAIN serverinfo => info[i].sid = id
         /\ \A i, j \in DOMAIN info : info[i].sid = info[j].sid => i = j
         /\ \E i \in DOMAIN info : info[i].sid = id
         /\ serverinfo' = UpdateServerInfo(info, a, buf)
  <2>1. CASE HasInfo(a)
    <3>1. serverinfo' = UpdateServerInfo(serverinfo, a, buf)
      BY <1>1, <1>2, <2>1 DEF StoreServerInfo
    <3>2. \E i \in DOMAIN serverinfo : serverinfo[i].sid = id
      BY <1>5, <2>1 DEF HasInfo
    <3> QED
      BY <1>6, <3>1, <3>2
  <2>2. CASE ~HasInfo(a)
    <3> DEFINE ins == InsertServerInfo(serverinfo, a)
    <3>1. serverinfo' = UpdateServerInfo(ins, a, buf)
      BY <1>1, <1>2, <2>2 DEF StoreServerInfo
    <3>2. Cardinality(Ids(a)) = 1
      BY <1>5, FS_Singleton
    <3>3a. /\ ins \in Seq(InfoRow) /\ Len(ins) = Len(serverinfo) + Cardinality(Ids(a))
           /\ \A i \in 1 .. Len(serverinfo) : ins[i] = serverinfo[i]
           /\ \A i \in DOMAIN ins : i \notin 1 .. Len(serverinfo) => ins[i].sid \in Ids(a)
      BY <1>4, <1>6, InsertInfo
    <3> HIDE DEF ins
    <3>3. /\ ins \in Seq(InfoRow) /\ Len(ins) = Len(serverinfo) + 1
          /\ \A i \in 1 .. Len(serverinfo) : ins[i] = serverinfo[i]
          /\ \A i \in DOMAIN ins : i \notin 1 .. Len(serverinfo) => ins[i].sid = id
      BY <1>5, <3>2, <3>3a
    <3>4. /\ DOMAIN serverinfo = 1 .. Len(serverinfo) /\ Len(serverinfo) \in Nat
          /\ DOMAIN ins = 1 .. Len(serverinfo) + 1
      BY <1>6, <3>3
    <3>5. \A i \in DOMAIN serverinfo : serverinfo[i].sid # id
      BY <1>5, <2>2 DEF HasInfo
    <3>6. \A i \in DOMAIN ins : i \in DOMAIN serverinfo \/ (i = Len(serverinfo) + 1 /\ ins[i].sid = id)
      BY <3>3, <3>4
    <3>7. Len(serverinfo) + 1 \in DOMAIN ins
      BY <3>4
    <3>8. \A i, j \in DOMAIN ins : ins[i].sid = ins[j].sid => i = j
      BY <3>3, <3>4, <3>5, <3>6
    <3>9. \A i \in DOMAIN serverinfo : i \in DOMAIN ins
      BY <3>4
    <3>10. \E i \in DOMAIN ins : ins[i].sid = id
      <4>1. Len(serverinfo) + 1 \notin 1 .. Len(serverinfo)
        BY <3>4
      <4> QED
        BY <3>3, <3>7, <4>1
    <3> QED
      BY <3>1, <3>3, <3>4, <3>8, <3>9, <3>10
  <2> QED
    BY <2>1, <2>2
<1>8. playerinfo' = {r \in playerinfo : r.sid # id}
         \cup {[sid |-> id, poll |-> buf[k].poll] :
                  k \in {j \in DOMAIN buf : Extended /\ buf[j].part = Parts}}
  <2>1. Min(Ids(a)) = id
    <3>1. Ids(a) \in SUBSET Nat
      BY <1>4, IdsType
    <3> QED
      BY <1>5, <3>1, MinIsLowest
  <2>2. (IF Ids(a) = {} THEN -1 ELSE Min(Ids(a))) = id
    BY <1>5, <2>1
  <2>3. ok["deletePlayers"] # "error" /\ ok["insertPlayers"] # "error"
    BY <1>2
  <2>4. StorePlayers(a, buf, ok)
    BY <1>1
  <2> QED
    BY <2>2, <2>3, <2>4, Zenon DEF StorePlayers
<1>9. StoredOnce(a, buf, id, info)
  BY <1>1, <1>3, <1>5, <1>7, <1>8 DEF StoredOnce
<1> QED
  BY <1>2, <1>9

LEMMA OneInfoStep ==
    ASSUME PollInv, Typed, CheckerTypes, UniqueAddress, OneInfoPerServer, [Next]_vars
    PROVE  OneInfoPerServer'
<1> SUFFICES ASSUME ~failed' PROVE OneInfoPerServer'
  BY DEF OneInfoPerServer
<1>1. CASE ReadFinal
  <2>0. ~failed
    BY <1>1, FinalStores
  <2>1a. PICK a \in Address, buf \in Seq(Fragment), id \in DOMAIN serverlist', info \in Seq(InfoRow) :
            ~failed /\ StoredOnce(a, buf, id, info)
    BY SMTT(30), <1>1, <2>0, FinalUnfailed DEF UniqueAddress, OneInfoPerServer
  <2>1. /\ \A i \in DOMAIN serverinfo : i \in DOMAIN info /\ info[i] = serverinfo[i]
        /\ \A i \in DOMAIN info : i \notin DOMAIN serverinfo => info[i].sid = id
        /\ \A i, j \in DOMAIN info : info[i].sid = info[j].sid => i = j
        /\ \E i \in DOMAIN info : info[i].sid = id
        /\ serverinfo' = UpdateServerInfo(info, a, buf)
        /\ \A r \in playerinfo' : r \in playerinfo \/ r.sid = id
    BY <2>1a DEF StoredOnce
  <2>2. DOMAIN serverinfo' = DOMAIN info /\ \A i \in DOMAIN info : serverinfo'[i].sid = info[i].sid
    <3> DEFINE u == UpdateServerInfo(info, a, buf)
    <3>1. DOMAIN u = DOMAIN info
      BY UpdateInfo
    <3>2. \A i \in DOMAIN info : u[i].sid = info[i].sid
      BY UpdateInfoSids
    <3> HIDE DEF u
    <3> QED
      BY <2>1, <3>1, <3>2 DEF u
  <2>3. DOMAIN serverlist \subseteq DOMAIN serverlist'
    BY RowsGrow
  <2>4. \A i, j \in DOMAIN serverinfo' : serverinfo'[i].sid = serverinfo'[j].sid => i = j
    BY <2>1, <2>2
  <2>5. \A i \in DOMAIN serverinfo' : serverinfo'[i].sid \in DOMAIN serverlist'
    BY <2>0, <2>1, <2>2, <2>3 DEF OneInfoPerServer
  <2>6. ASSUME NEW r \in playerinfo' PROVE \E i \in DOMAIN serverinfo' : serverinfo'[i].sid = r.sid
    <3>1. CASE r \in playerinfo
      <4>1. PICK i \in DOMAIN serverinfo : serverinfo[i].sid = r.sid
        BY <2>0, <3>1 DEF OneInfoPerServer
      <4> QED
        BY <2>1, <2>2, <4>1
    <3>2. CASE r \notin playerinfo
      <4>1. r.sid = id
        BY <2>1, <3>2
      <4> QED
        BY <2>1, <2>2, <4>1
    <3> QED
      BY <3>1, <3>2
  <2> QED
    BY <2>4, <2>5, <2>6 DEF OneInfoPerServer
<1>2. CASE UNCHANGED <<serverinfo, playerinfo>> /\ ~failed
  <2>1. DOMAIN serverlist \subseteq DOMAIN serverlist'
    BY RowsGrow
  <2> QED
    BY <1>2, <2>1 DEF OneInfoPerServer
<1>3. ReadFinal \/ (UNCHANGED <<serverinfo, playerinfo>> /\ ~failed)
  BY DEF Next, ReadFragment, ReadValidate, FailedIn, Horizon, vars, Lose, Deliver, OnReset, OnTicker, tables
<1> QED
  BY <1>1, <1>2, <1>3

\* No server gets a second row of details, and no player row outlives the details of its
\* server, on any network, as long as no statement fails.
THEOREM OneInfoPerServerHolds == Spec => []OneInfoPerServer
<1>1. Init => OneInfoPerServer
  BY DEF Init, OneInfoPerServer
<1>2. PollInv /\ Typed /\ CheckerTypes /\ UniqueAddress /\ OneInfoPerServer /\ [Next]_vars
        => OneInfoPerServer'
  BY OneInfoStep
<1> QED
  BY <1>1, <1>2, PollInvariant, TypedInvariant, CheckerTypesInvariant, UniqueAddressHolds, PTL DEF Spec
-----------------------------------------------------------------------------
(* What is stored, when the network neither loses, repeats nor reorders.   *)

\* Servers reply to \status\ in time and from the port they are queried on, the network
\* keeps every datagram and its place, and no statement fails.
Orderly ==
    /\ Extended /\ ~Reorder /\ ~Duplicate /\ ~Lossy /\ ~LateReplies /\ ~SqlMayFail
    /\ \A a \in DOMAIN Runs : ReplyFrom[a] = a /\ Runs[a] # ""

\* A reply is made of the answer to the challenge, if there is one, and the parts.
Rank(m) == IF m.type = "validate" THEN 0 ELSE m.part

IsPiece(m, a, r, t) ==
    IF r = 0 THEN m.type = "validate" /\ m.addr = a /\ m.copies = 0
    ELSE r \in Part /\ m = StatusReply(a, t)[r]

\* Of the reply of a to poll t, the pieces from first on are still with the network.
First(flow) == Parts + 1 - Len(flow)

FlowOK(a, t, flow) ==
    Len(flow) <= Parts + 1 /\ \A k \in DOMAIN flow : IsPiece(flow[k], a, First(flow) + k - 1, t)

\* The pieces from n up to those are in the socket, once and in their order.
SocketOK(a, t, n, first, sock) ==
    /\ \A i \in DOMAIN sock : sock[i].addr = a =>
          n <= Rank(sock[i]) /\ Rank(sock[i]) < first /\ IsPiece(sock[i], a, Rank(sock[i]), t)
    /\ \A i, j \in DOMAIN sock :
          i < j /\ sock[i].addr = a /\ sock[j].addr = a => Rank(sock[i]) < Rank(sock[j])
    /\ \A r \in n .. (first - 1) : \E i \in DOMAIN sock : sock[i].addr = a /\ Rank(sock[i]) = r

\* The parts before n are buffered.
BufferOK(a, t, n, buf) ==
    /\ Len(buf) = IF n \in Part THEN n - 1 ELSE 0
    /\ \A k \in DOMAIN buf : buf[k] = StatusReply(a, t)[k]

\* Poll t of this cycle, to which a still owes pieces, was for a row of a.
Owed(a, t, n) == n <= Parts =>
    /\ a \in DOMAIN Runs
    /\ t \in (cycleStart + 1) .. now /\ polled[t] \in RowsOf(serverlist, a)
    /\ n = 0 => secureBuffer[a].game = Runs[a]

Stage(a, t, n) ==
    /\ n <= First(net[a])
    /\ FlowOK(a, t, net[a]) /\ SocketOK(a, t, n, First(net[a]), socket)
    /\ BufferOK(a, t, n, dataBuffer[a]) /\ Owed(a, t, n)

InOrder == \A a \in Address : \E t \in 0 .. now, n \in 0 .. (Parts + 1) : Stage(a, t, n)

LEMMA RankType == \A g \in GoodReply : Rank(g) \in Nat
<1>1. Parts \in Nat
  BY CheckerAssumption
<1>2. \A g \in GoodReply : g.type = "validate" \/ g.part \in Part
  BY DEF GoodReply, Reply
<1> QED
  BY <1>1, <1>2 DEF Rank, Part

\* The parts of a reply, spelt out.
LEMMA PartOf ==
    ASSUME Orderly, NEW a \in DOMAIN Runs, NEW t, NEW r \in Part
    PROVE  StatusReply(a, t)[r] =
               [type |-> "status", addr |-> a, poll |-> t, part |-> r,
                game |-> IF r = 1 THEN Runs[a] ELSE "", copies |-> 0]
  BY DEF Orderly, StatusReply, Copies

\* A piece is known by its sender and rank, and is not delivered twice.
LEMMA PieceRank ==
    ASSUME Orderly, NEW a \in DOMAIN Runs, NEW t, NEW r \in 0 .. Parts, NEW m,
           IsPiece(m, a, r, t)
    PROVE  m.addr = a /\ Rank(m) = r /\ m.copies = 0
<1>1. CASE r = 0
  BY <1>1 DEF IsPiece, Rank
<1>2. CASE r # 0
  <2>1. r \in Part /\ m = StatusReply(a, t)[r]
    BY <1>2 DEF IsPiece
  <2>2. m = [type |-> "status", addr |-> a, poll |-> t, part |-> r,
             game |-> IF r = 1 THEN Runs[a] ELSE "", copies |-> 0]
    BY <2>1, PartOf
  <2> QED
    BY <2>2 DEF Rank
<1> QED
  BY <1>1, <1>2

LEMMA PieceHas ==
    ASSUME Orderly, NEW a \in DOMAIN Runs, NEW t, NEW r \in 0 .. Parts, NEW m \in GoodReply,
           IsPiece(m, a, r, t)
    PROVE  IsPiece([m EXCEPT !.copies = 0], a, r, t)
<1>1. CASE r = 0
  <2>1. m.type = "validate" /\ m.addr = a
    BY <1>1 DEF IsPiece
  <2>2. [m EXCEPT !.copies = 0].type = m.type /\ [m EXCEPT !.copies = 0].addr = m.addr
        /\ [m EXCEPT !.copies = 0].copies = 0
    BY DEF GoodReply, Reply
  <2> QED
    BY <1>1, <2>1, <2>2 DEF IsPiece
<1>2. CASE r # 0
  <2>1. r \in Part /\ m = StatusReply(a, t)[r]
    BY <1>2 DEF IsPiece
  <2>2. m = [type |-> "status", addr |-> a, poll |-> t, part |-> r,
             game |-> IF r = 1 THEN Runs[a] ELSE "", copies |-> 0]
    BY <2>1, PartOf
  <2>3. \E game : m = [type |-> "status", addr |-> a, poll |-> t, part |-> r,
                      game |-> game, copies |-> 0]
    BY <2>2
  <2>4. [m EXCEPT !.copies = 0] = m
    BY <2>3
  <2> QED
    BY <1>2, <2>1, <2>4 DEF IsPiece
<1> QED
  BY <1>1, <1>2

\* What leaves the network is the first of the pieces it has.
LEMMA FlowHead ==
    ASSUME NEW a, NEW t, NEW flow \in Seq(GoodReply), flow # << >>, FlowOK(a, t, flow)
    PROVE  /\ First(flow) \in 0 .. Parts /\ First(Tail(flow)) = First(flow) + 1
           /\ IsPiece(Head(flow), a, First(flow), t) /\ FlowOK(a, t, Tail(flow))
<1>1. /\ Parts \in Nat /\ Len(flow) \in Nat /\ Len(flow) > 0 /\ Len(flow) <= Parts + 1
      /\ DOMAIN flow = 1 .. Len(flow) /\ Head(flow) = flow[1]
  <2>1. Parts \in Nat
    BY CheckerAssumption
  <2> QED
    BY <2>1 DEF FlowOK
<1>2. /\ Tail(flow) \in Seq(GoodReply) /\ Len(Tail(flow)) = Len(flow) - 1
      /\ DOMAIN Tail(flow) = 1 .. (Len(flow) - 1)
      /\ \A k \in 1 .. (Len(flow) - 1) : Tail(flow)[k] = flow[k + 1]
  BY <1>1
<1>3. First(flow) \in 0 .. Parts /\ First(Tail(flow)) = First(flow) + 1
  BY <1>1, <1>2 DEF First
<1>4. IsPiece(flow[1], a, First(flow), t)
  <2>1. 1 \in DOMAIN flow /\ First(flow) + 1 - 1 = First(flow)
    BY <1>1, <1>3
  <2> QED
    BY <2>1 DEF FlowOK
<1>5. ASSUME NEW k \in 1 .. (Len(flow) - 1)
      PROVE  IsPiece(Tail(flow)[k], a, First(Tail(flow)) + k - 1, t)
  <2>1. k + 1 \in DOMAIN flow /\ First(flow) + (k + 1) - 1 = First(Tail(flow)) + k - 1
    BY <1>1, <1>3
  <2>2. IsPiece(flow[k + 1], a, First(flow) + (k + 1) - 1, t)
    BY <2>1 DEF FlowOK
  <2> QED
    BY <1>2, <2>1, <2>2
<1> QED
  BY <1>1, <1>2, <1>3, <1>4, <1>5 DEF FlowOK

\* The socket appends what arrives; other senders' pieces are not affected.
LEMMA SocketAppend ==
    ASSUME NEW a, NEW t, NEW n \in Nat, NEW first \in Nat, n <= first,
           NEW sock \in Seq(GoodReply), SocketOK(a, t, n, first, sock),
           NEW m \in GoodReply, m.addr = a => Rank(m) = first /\ IsPiece(m, a, first, t)
    PROVE  SocketOK(a, t, n, IF m.addr = a THEN first + 1 ELSE first, Append(sock, m))
<1> DEFINE s == Append(sock, m)
           l == Len(sock) + 1
<1>1. /\ DOMAIN sock = 1 .. Len(sock) /\ Len(sock) \in Nat /\ DOMAIN s = 1 .. l
      /\ s[l] = m /\ \A i \in 1 .. Len(sock) : s[i] = sock[i]
  OBVIOUS
<1> HIDE DEF s
<1>2. \A i \in DOMAIN s : i = l \/ (i \in DOMAIN sock /\ i < l /\ s[i] = sock[i])
  BY <1>1
<1>3. \A i \in DOMAIN sock : sock[i].addr = a =>
         n <= Rank(sock[i]) /\ Rank(sock[i]) < first /\ IsPiece(sock[i], a, Rank(sock[i]), t)
  BY DEF SocketOK
<1>4. \A i, j \in DOMAIN sock :
         i < j /\ sock[i].addr = a /\ sock[j].addr = a => Rank(sock[i]) < Rank(sock[j])
  BY DEF SocketOK
<1>5. \A r \in n .. (first - 1) : \E i \in DOMAIN sock : sock[i].addr = a /\ Rank(sock[i]) = r
  BY DEF SocketOK
<1>6. \A g \in GoodReply : Rank(g) \in Nat
  BY RankType
<1>7. \A i \in DOMAIN sock : Rank(sock[i]) \in Nat /\ i \in DOMAIN s /\ s[i] = sock[i]
  BY <1>1, <1>6
<1>8. l \in DOMAIN s
  BY <1>1
<1>9. CASE m.addr = a
  <2>1. \A i \in DOMAIN s : s[i].addr = a =>
           n <= Rank(s[i]) /\ Rank(s[i]) < first + 1 /\ IsPiece(s[i], a, Rank(s[i]), t)
    BY <1>1, <1>2, <1>3, <1>7, <1>9
  <2>2. \A i, j \in DOMAIN s :
           i < j /\ s[i].addr = a /\ s[j].addr = a => Rank(s[i]) < Rank(s[j])
    BY <1>1, <1>2, <1>3, <1>4, <1>7, <1>9
  <2>3. \A r \in n .. first : \E i \in DOMAIN s : s[i].addr = a /\ Rank(s[i]) = r
    <3> TAKE r \in n .. first
    <3>1. CASE r = first
      BY <1>1, <1>8, <1>9, <3>1
    <3>2. CASE r # first
      <4>1. r \in n .. (first - 1)
        BY <3>2
      <4> QED
        BY <1>5, <1>7, <4>1
    <3> QED
      BY <3>1, <3>2
  <2>4. first + 1 - 1 = first
    OBVIOUS
  <2>5. SocketOK(a, t, n, first + 1, s)
    BY <2>1, <2>2, <2>3, <2>4 DEF SocketOK
  <2> QED
    BY <1>9, <2>5 DEF s
<1>10. CASE m.addr # a
  <2>1. \A i \in DOMAIN s : s[i].addr = a => i \in DOMAIN sock /\ s[i] = sock[i]
    BY <1>1, <1>2, <1>10
  <2>2. \A r \in n .. (first - 1) : \E i \in DOMAIN s : s[i].addr = a /\ Rank(s[i]) = r
    BY <1>5, <1>7
  <2>3. SocketOK(a, t, n, first, s)
    BY <1>3, <1>4, <2>1, <2>2 DEF SocketOK
  <2> QED
    BY <1>10, <2>3 DEF s
<1> QED
  BY <1>9, <1>10

\* The socket's first datagram is the next piece of its sender.
LEMMA SocketHead ==
    ASSUME NEW a, NEW t, NEW n \in Nat, NEW first \in Nat,
           NEW sock \in Seq(GoodReply), sock # << >>, SocketOK(a, t, n, first, sock)
    PROVE  /\ Head(sock).addr = a =>
                 Rank(Head(sock)) = n /\ n < first /\ IsPiece(Head(sock), a, n, t)
           /\ SocketOK(a, t, IF Head(sock).addr = a THEN n + 1 ELSE n, first, Tail(sock))
<1> DEFINE s == Tail(sock)
           m == Head(sock)
<1>1. /\ DOMAIN sock = 1 .. Len(sock) /\ Len(sock) \in Nat /\ Len(sock) > 0
      /\ m = sock[1] /\ 1 \in DOMAIN sock /\ m \in GoodReply
      /\ DOMAIN s = 1 .. (Len(sock) - 1) /\ \A i \in 1 .. (Len(sock) - 1) : s[i] = sock[i + 1]
  OBVIOUS
<1> HIDE DEF s, m
<1>2. \A i \in DOMAIN s : i \in Nat /\ i + 1 \in DOMAIN sock /\ i + 1 > 1 /\ s[i] = sock[i + 1]
  BY <1>1
<1>3. \A i \in DOMAIN sock : i = 1 \/ (i - 1 \in DOMAIN s /\ s[i - 1] = sock[i] /\ i > 1)
  BY <1>1
<1>4. \A i \in DOMAIN sock : sock[i].addr = a =>
         n <= Rank(sock[i]) /\ Rank(sock[i]) < first /\ IsPiece(sock[i], a, Rank(sock[i]), t)
  BY DEF SocketOK
<1>5. \A i, j \in DOMAIN sock :
         i < j /\ sock[i].addr = a /\ sock[j].addr = a => Rank(sock[i]) < Rank(sock[j])
  BY DEF SocketOK
<1>6. \A r \in n .. (first - 1) : \E i \in DOMAIN sock : sock[i].addr = a /\ Rank(sock[i]) = r
  BY DEF SocketOK
<1>7. \A g \in GoodReply : Rank(g) \in Nat
  BY RankType
<1>8. \A i \in DOMAIN sock : Rank(sock[i]) \in Nat
  BY <1>7
<1>9. CASE m.addr = a
  <2>1. n <= Rank(m) /\ Rank(m) < first /\ Rank(m) \in Nat
    BY <1>1, <1>4, <1>8, <1>9
  <2>2. n \in n .. (first - 1)
    BY <2>1
  <2>3. PICK i \in DOMAIN sock : sock[i].addr = a /\ Rank(sock[i]) = n
    BY <1>6, <2>2
  <2>4. i = 1
    <3>1. i > 1 => Rank(m) < n
      BY <1>1, <1>5, <1>9, <2>3
    <3> QED
      BY <1>1, <2>1, <2>3, <3>1
  <2>5. Rank(m) = n /\ n < first /\ IsPiece(m, a, n, t)
    BY <1>1, <1>4, <1>9, <2>1, <2>3, <2>4
  <2>6. \A j \in DOMAIN s : s[j].addr = a => Rank(s[j]) \in Nat /\ n < Rank(s[j])
    BY <1>1, <1>2, <1>5, <1>8, <1>9, <2>5
  <2>7. \A j \in DOMAIN s : s[j].addr = a =>
           n + 1 <= Rank(s[j]) /\ Rank(s[j]) < first /\ IsPiece(s[j], a, Rank(s[j]), t)
    BY <1>2, <1>4, <2>6
  <2>8. \A j, k \in DOMAIN s :
           j < k /\ s[j].addr = a /\ s[k].addr = a => Rank(s[j]) < Rank(s[k])
    <3> TAKE j, k \in DOMAIN s
    <3>1. j < k => j + 1 < k + 1
      BY <1>2
    <3> QED
      BY <1>2, <1>5, <3>1
  <2>9. \A r \in (n + 1) .. (first - 1) : \E j \in DOMAIN s : s[j].addr = a /\ Rank(s[j]) = r
    <3> TAKE r \in (n + 1) .. (first - 1)
    <3>1. r \in n .. (first - 1) /\ r # n
      OBVIOUS
    <3>2. PICK j \in DOMAIN sock : sock[j].addr = a /\ Rank(sock[j]) = r
      BY <1>6, <3>1
    <3>3. j # 1
      BY <1>1, <2>5, <3>1, <3>2
    <3> QED
      BY <1>3, <3>2, <3>3
  <2>10. SocketOK(a, t, n + 1, first, s)
    BY <2>7, <2>8, <2>9 DEF SocketOK
  <2> QED
    BY <1>9, <2>5, <2>10 DEF s, m
<1>10. CASE m.addr # a
  <2>1. \A j \in DOMAIN s : s[j].addr = a =>
           n <= Rank(s[j]) /\ Rank(s[j]) < first /\ IsPiece(s[j], a, Rank(s[j]), t)
    BY <1>2, <1>4
  <2>2. \A j, k \in DOMAIN s :
           j < k /\ s[j].addr = a /\ s[k].addr = a => Rank(s[j]) < Rank(s[k])
    <3> TAKE j, k \in DOMAIN s
    <3>1. j < k => j + 1 < k + 1
      BY <1>2
    <3> QED
      BY <1>2, <1>5, <3>1
  <2>3. \A r \in n .. (first - 1) : \E j \in DOMAIN s : s[j].addr = a /\ Rank(s[j]) = r
    BY SMTT(30), <1>1, <1>3, <1>6, <1>10
  <2>4. SocketOK(a, t, n, first, s)
    BY <2>1, <2>2, <2>3 DEF SocketOK
  <2> QED
    BY <1>10, <2>4 DEF s, m
<1> QED
  BY <1>9, <1>10

LEMMA PartsType == Parts \in Nat /\ Parts > 0 /\ Part = 1 .. Parts
<1>1. Parts \in Nat \ {0}
  BY CheckerAssumption
<1> QED
  BY <1>1 DEF Part

LEMMA LastPart == Parts \in Part
  BY PartsType

LEMMA FirstOf ==
    ASSUME NEW flow \in Seq(GoodReply), Len(flow) <= Parts + 1
    PROVE  First(flow) \in 0 .. (Parts + 1) /\ (First(flow) = Parts + 1 => flow = << >>)
<1>1. Len(flow) \in Nat /\ Parts \in Nat
  BY PartsType
<1>2. First(flow) = Parts + 1 => Len(flow) = 0
  BY <1>1 DEF First
<1> QED
  BY <1>1, <1>2 DEF First

LEMMA FirstType ==
    ASSUME Typed, NEW a \in Address, NEW t, NEW n \in Nat, Stage(a, t, n)
    PROVE  /\ net[a] \in Seq(GoodReply) /\ socket \in Seq(GoodReply)
           /\ dataBuffer[a] \in Seq(Fragment)
           /\ First(net[a]) \in 0 .. (Parts + 1) /\ n <= First(net[a])
<1>1. /\ net[a] \in Seq(GoodReply) /\ socket \in Seq(GoodReply) /\ dataBuffer[a] \in Seq(Fragment)
  BY DEF Typed
<1>2. n <= First(net[a]) /\ Len(net[a]) <= Parts + 1
  BY DEF Stage, FlowOK
<1>4. First(net[a]) \in 0 .. (Parts + 1)
  BY <1>1, <1>2, FirstOf
<1> QED
  BY <1>1, <1>2, <1>4

\* With nothing owed, nothing is under way or buffered, and the other way round.
LEMMA StageDone ==
    ASSUME Typed, NEW a \in Address, NEW t \in Nat, NEW n \in 0 .. (Parts + 1), Stage(a, t, n),
           n = Parts + 1
    PROVE  /\ net[a] = << >> /\ dataBuffer[a] = << >>
           /\ \A i \in DOMAIN socket : socket[i].addr # a
<1>1. Parts \in Nat
  BY PartsType
<1>2. /\ net[a] \in Seq(GoodReply) /\ dataBuffer[a] \in Seq(Fragment) /\ socket \in Seq(GoodReply)
      /\ First(net[a]) \in 0 .. (Parts + 1) /\ n <= First(net[a])
  BY FirstType
<1>3a. Len(net[a]) = 0
  <2>1. First(net[a]) = Parts + 1 /\ Len(net[a]) <= Parts + 1
    BY <1>1, <1>2 DEF Stage, FlowOK
  <2>2. net[a] = << >>
    BY <1>2, <2>1, FirstOf
  <2> QED
    BY <2>2
<1>3b. n \notin Part
  BY PartsType
<1>3. Len(net[a]) = 0 /\ Len(dataBuffer[a]) = 0
  BY <1>3a, <1>3b DEF Stage, BufferOK
<1>4. First(net[a]) = Parts + 1
  BY <1>1, <1>3 DEF First
<1>5. ASSUME NEW i \in DOMAIN socket, socket[i].addr = a PROVE FALSE
  <2>1. n <= Rank(socket[i]) /\ Rank(socket[i]) < Parts + 1
    BY <1>4, <1>5 DEF Stage, SocketOK
  <2>2. Rank(socket[i]) \in Nat
    BY <1>2, RankType
  <2> QED
    BY <1>1, <2>1, <2>2
<1> QED
  BY <1>2, <1>3, <1>5

LEMMA NothingOwed ==
    ASSUME Typed, NEW a \in Address, NEW t \in Nat, NEW n \in 0 .. (Parts + 1), Stage(a, t, n),
           NothingUnderWay
    PROVE  n = Parts + 1
<1>1. Parts \in Nat
  BY PartsType
<1>2. net[a] = << >> /\ socket = << >>
  BY DEF NothingUnderWay
<1>3. First(net[a]) = Parts + 1
  BY <1>1, <1>2 DEF First
<1>4. ASSUME n # Parts + 1 PROVE FALSE
  <2>1. n \in n .. (Parts + 1 - 1)
    BY <1>1, <1>4
  <2>2. SocketOK(a, t, n, Parts + 1, socket)
    BY <1>3 DEF Stage
  <2>3. \E i \in DOMAIN socket : socket[i].addr = a
    <3>1. \A r \in n .. (Parts + 1 - 1) : \E i \in DOMAIN socket : socket[i].addr = a /\ Rank(socket[i]) = r
      BY <1>1, <2>2 DEF SocketOK
    <3> QED
      BY <2>1, <3>1
  <2> QED
    BY <1>2, <2>3
<1> QED
  BY <1>4

\* What a owes stays owed while its rows, its challenge and the record stay.
LEMMA OwedKept ==
    ASSUME PollInv, NEW a \in Address, NEW t \in Nat, NEW n \in 0 .. (Parts + 1), Owed(a, t, n),
           cycleStart' = cycleStart, now' \in {now, now + 1},
           \A u \in 1 .. now : polled'[u] = polled[u],
           RowsOf(serverlist, a) \subseteq RowsOf(serverlist', a),
           n = 0 => secureBuffer'[a].game = secureBuffer[a].game
    PROVE  Owed(a, t, n)'
<1>1. now \in Nat /\ cycleStart \in Nat
  BY DEF PollInv
<1>2. t \in (cycleStart + 1) .. now => t \in 1 .. now /\ t \in (cycleStart' + 1) .. now'
  BY <1>1
<1> QED
  BY <1>2 DEF Owed

\* The slot takes the next piece of its sender, nobody else's.
LEMMA TakeStage ==
    ASSUME Orderly, Typed, Take, NEW a \in Address, NEW t \in Nat, NEW n \in 0 .. (Parts + 1),
           Stage(a, t, n)
    PROVE  /\ net' = net /\ FlowOK(a, t, net'[a])
           /\ Head(socket).addr # a => n <= First(net'[a]) /\ SocketOK(a, t, n, First(net'[a]), socket')
           /\ Head(socket).addr = a =>
                 /\ n <= Parts /\ IsPiece(Head(socket), a, n, t) /\ Rank(Head(socket)) = n
                 /\ n + 1 <= First(net'[a]) /\ SocketOK(a, t, n + 1, First(net'[a]), socket')
<1>1. /\ net' = net /\ socket # << >> /\ socket' = Tail(socket)
  BY DEF Take
<1>2a. /\ Parts \in Nat /\ net[a] \in Seq(GoodReply) /\ socket \in Seq(GoodReply)
      /\ n \in Nat /\ First(net[a]) \in Nat /\ First(net[a]) <= Parts + 1
  BY PartsType, FirstType
<1>2. /\ n <= First(net[a]) /\ FlowOK(a, t, net[a]) /\ SocketOK(a, t, n, First(net[a]), socket)
  BY DEF Stage
<1>3. /\ Head(socket).addr = a =>
            Rank(Head(socket)) = n /\ n < First(net[a]) /\ IsPiece(Head(socket), a, n, t)
      /\ SocketOK(a, t, IF Head(socket).addr = a THEN n + 1 ELSE n, First(net[a]), Tail(socket))
  BY <1>1, <1>2, <1>2a, SocketHead
<1>4. n < First(net[a]) => n <= Parts /\ n + 1 <= First(net[a])
  BY <1>2a
<1> QED
  BY <1>1, <1>2, <1>3, <1>4

\* An address whose datagrams the step does not touch keeps its stage.
LEMMA OthersTake ==
    ASSUME Orderly, PollInv, Typed, [Next]_vars, Take, NEW a \in Address, NEW t \in Nat,
           NEW n \in 0 .. (Parts + 1), Stage(a, t, n), a # Head(socket).addr,
           dataBuffer'[a] = dataBuffer[a], secureBuffer'[a] = secureBuffer[a]
    PROVE  Stage(a, t, n)'
<1>1. /\ net' = net /\ FlowOK(a, t, net'[a])
      /\ n <= First(net'[a]) /\ SocketOK(a, t, n, First(net'[a]), socket')
  BY TakeStage
<1>2. BufferOK(a, t, n, dataBuffer'[a])
  BY DEF Stage
<1>3. Owed(a, t, n)'
  <2>1. RowsOf(serverlist, a) \subseteq RowsOf(serverlist', a)
    BY RowsStay
  <2>2. cycleStart' = cycleStart /\ now' = now /\ polled' = polled
    BY DEF Take, clocks
  <2> QED
    BY <2>1, <2>2, OwedKept DEF Stage
<1> QED
  BY <1>1, <1>2, <1>3 DEF Stage

\* A server answers a request with all the pieces, the challenge first.
LEMMA ResponsesPieces ==
    ASSUME Orderly, NEW a \in DOMAIN Runs, NEW challenged \in BOOLEAN, NEW t \in Nat, t # 0
    PROVE  /\ Responses(a, challenged, t) \in Seq(GoodReply)
           /\ First(Responses(a, challenged, t)) = IF challenged THEN 0 ELSE 1
           /\ FlowOK(a, t, Responses(a, challenged, t))
<1> DEFINE v == ValidateReply(a, t)
           s == StatusReply(a, t)
<1>1. Responses(a, challenged, t) \in Seq(GoodReply)
  BY ResponsesGood
<1>2. v.type = "validate" /\ v.addr = a /\ v.copies = 0
  BY DEF ValidateReply, Orderly, Copies
<1>3. s = [p \in 1 .. Parts |-> s[p]] /\ Parts \in Nat /\ Parts > 0 /\ Part = 1 .. Parts
  BY PartsType DEF StatusReply
<1> HIDE DEF v, s
<1>4. s \in Seq({s[p] : p \in 1 .. Parts}) /\ Len(s) = Parts /\ DOMAIN s = 1 .. Parts
  <2> DEFINE S == {s[p] : p \in 1 .. Parts}
  <2>1. \A p \in 1 .. Parts : s[p] \in S
    OBVIOUS
  <2> HIDE DEF S
  <2>2. s \in [1 .. Parts -> S]
    BY <1>3, <2>1
  <2> QED
    BY <1>3, <2>2 DEF S
<1>5. CASE challenged
  <2> DEFINE f == <<v>> \o s
  <2>1. Responses(a, challenged, t) = f
    BY <1>5 DEF Responses, v, s
  <2>2. /\ Len(f) = Parts + 1 /\ DOMAIN f = 1 .. (Parts + 1) /\ f[1] = v
        /\ \A k \in 2 .. (Parts + 1) : f[k] = s[k - 1]
    BY <1>3, <1>4
  <2> HIDE DEF f
  <2>3. First(f) = 0
    BY <1>3, <2>2 DEF First
  <2>4. ASSUME NEW k \in 1 .. (Parts + 1) PROVE IsPiece(f[k], a, First(f) + k - 1, t)
    <3>1. CASE k = 1
      <4>1. First(f) + k - 1 = 0
        BY <2>3, <3>1
      <4> QED
        BY <1>2, <2>2, <3>1, <4>1 DEF IsPiece
    <3>2. CASE k # 1
      <4>0. k \in 2 .. (Parts + 1) /\ k \in Nat
        BY <1>3, <3>2
      <4>1. First(f) + k - 1 = k - 1 /\ k - 1 \in 1 .. Parts /\ k - 1 # 0 /\ f[k] = s[k - 1]
        <5>1. f[k] = s[k - 1]
          BY <2>2, <4>0
        <5>2. k - 1 \in 1 .. Parts /\ k - 1 # 0
          BY <1>3, <4>0
        <5>3. First(f) + k - 1 = k - 1
          BY <2>3, <4>0
        <5> QED
          BY <5>1, <5>2, <5>3
      <4> QED
        BY <1>3, <4>1 DEF IsPiece, s
    <3> QED
      BY <3>1, <3>2
  <2>5. FlowOK(a, t, f)
    BY <2>2, <2>4, <1>3 DEF FlowOK
  <2> QED
    BY <1>1, <1>5, <2>1, <2>3, <2>5
<1>6. CASE ~challenged
  <2>1. Responses(a, challenged, t) = s
    <3>1. Responses(a, challenged, t) = << >> \o s
      BY <1>6 DEF Responses, s
    <3> QED
      BY <1>4, <3>1
  <2>2. First(s) = 1
    BY <1>3, <1>4 DEF First
  <2>3. ASSUME NEW k \in 1 .. Parts PROVE IsPiece(s[k], a, First(s) + k - 1, t)
    <3>1. First(s) + k - 1 = k /\ k \in Part /\ k # 0
      BY <1>3, <2>2
    <3> QED
      BY <3>1 DEF IsPiece, s
  <2>4. FlowOK(a, t, s)
    BY <1>3, <1>4, <2>3 DEF FlowOK
  <2> QED
    BY <1>1, <1>6, <2>1, <2>2, <2>4
<1> QED
  BY <1>5, <1>6

\* When a row is queried, its address owes nothing: it was not asked in this cycle.
LEMMA QueriedOwesNothing ==
    ASSUME PollInv, UniqueIn(serverlist), NEW id \in DOMAIN serverlist, id > dbIndex, id # 0,
           NEW t \in Nat, NEW n \in 0 .. (Parts + 1), Owed(serverlist[id].addr, t, n)
    PROVE  n = Parts + 1
<1> SUFFICES ASSUME n # Parts + 1 PROVE FALSE
  OBVIOUS
<1>1. n <= Parts
  BY PartsType
<1>2. t \in (cycleStart + 1) .. now /\ polled[t] \in RowsOf(serverlist, serverlist[id].addr)
  BY <1>1 DEF Owed
<1>3. polled[t] = id
  BY <1>2 DEF RowsOf, UniqueIn
<1>4. polled[t] <= dbIndex
  BY <1>2, <1>3 DEF PollInv
<1>5. dbIndex \in Int /\ id \in Int
  BY DEF PollInv, Numbered
<1> QED
  BY <1>3, <1>4, <1>5

LEMMA OrderTicker ==
    ASSUME Orderly, PollInv, Typed, UniqueIn(serverlist), GamenameTrue, InOrder, OnTicker
    PROVE  InOrder'
<1> DEFINE id == NextServer(serverlist, dbIndex, Ttl, now + 1)
<1>1. /\ now \in Nat /\ cycleStart \in Nat /\ cycleStart <= now /\ dbIndex \in Int /\ Numbered
      /\ polled \in Seq(Nat) /\ Len(polled) = now
  BY DEF PollInv
<1>2. id \in Nat /\ (id # 0 => id > dbIndex /\ id \in DOMAIN serverlist)
  <2>1. now + 1 \in Nat
    BY <1>1
  <2> QED
    BY <1>1, <2>1, NextIsBehind
<1>3. /\ now' = now + 1 /\ cycleStart' = cycleStart /\ serverlist' = serverlist
      /\ polled' = Append(polled, id) /\ dataBuffer' = dataBuffer /\ socket' = socket
      /\ id = 0 => secureBuffer' = secureBuffer /\ net' = net
      /\ id # 0 => Query(id, now + 1)
  BY DEF OnTicker, tables
<1> HIDE DEF id
<1>4. (\A u \in 1 .. now : polled'[u] = polled[u]) /\ polled'[now + 1] = id
  BY <1>1, <1>2, <1>3
<1>5. ASSUME NEW a \in Address, id # 0 => serverlist[id].addr # a
      PROVE  \E t \in 0 .. now', n \in 0 .. (Parts + 1) : Stage(a, t, n)'
  <2>1. PICK t \in 0 .. now, n \in 0 .. (Parts + 1) : Stage(a, t, n)
    BY DEF InOrder
  <2>2. net'[a] = net[a] /\ secureBuffer'[a] = secureBuffer[a]
    <3>1. CASE id = 0
      BY SMTT(30), <1>3, <3>1
    <3>2. CASE id # 0
      <4>1. serverlist[id].addr \in DOMAIN Runs => ReplyFrom[serverlist[id].addr] = serverlist[id].addr
        BY DEF Orderly
      <4> QED
        BY <1>3, <1>5, <3>2, <4>1 DEF Query, Typed
    <3> QED
      BY <3>1, <3>2
  <2>3. Owed(a, t, n)'
    <3>1. t \in Nat /\ Owed(a, t, n)
      BY <1>1, <2>1 DEF Stage
    <3> QED
      BY <1>3, <1>4, <2>2, <3>1, OwedKept
  <2>4. t \in 0 .. now'
    BY <1>1, <1>3
  <2>5. Stage(a, t, n)'
    BY <1>3, <2>1, <2>2, <2>3 DEF Stage
  <2> QED
    BY <2>4, <2>5
<1>6. ASSUME NEW a \in Address, id # 0, serverlist[id].addr = a
      PROVE  \E t \in 0 .. now', n \in 0 .. (Parts + 1) : Stage(a, t, n)'
  <2> DEFINE row == serverlist[id]
             challenged == row.f_auth = 0
  <2>1. PICK t \in 0 .. now, n \in 0 .. (Parts + 1) : Stage(a, t, n)
    BY DEF InOrder
  <2>2. n = Parts + 1
    <3>1. t \in Nat /\ Owed(serverlist[id].addr, t, n)
      BY <1>1, <1>6, <2>1 DEF Stage
    <3> QED
      BY <1>2, <1>6, <3>1, QueriedOwesNothing
  <2>3. /\ net[a] = << >> /\ dataBuffer[a] = << >>
        /\ \A i \in DOMAIN socket : socket[i].addr # a
    BY <1>1, <2>1, <2>2, StageDone
  <2>4. CASE net' = net
    <3>1. ~(Parts + 1 <= Parts)
      BY PartsType
    <3>2. Owed(a, t, n)'
      BY <2>2, <3>1 DEF Owed
    <3>3. t \in 0 .. now'
      BY <1>1, <1>3
    <3>4. Stage(a, t, n)'
      BY <1>3, <2>1, <2>4, <3>2 DEF Stage
    <3> QED
      BY <3>3, <3>4
  <2>5. CASE net' # net
    <3> DEFINE flow == Responses(a, row.f_auth = 0, now + 1)
    <3>0. PICK p \in Nat : p = now + 1
      BY <1>1
    <3>1. /\ a \in DOMAIN Runs
          /\ net' = [net EXCEPT ![ReplyFrom[a]] = @ \o flow]
      BY <1>3, <1>6, <2>5 DEF Query
    <3>2a. (row.f_auth = 0) \in BOOLEAN
      OBVIOUS
    <3>2b. p # 0
      BY <1>1, <3>0
    <3>2. ReplyFrom[a] = a
      BY <3>1 DEF Orderly
    <3>k. PICK k \in {0, 1} : k = IF row.f_auth = 0 THEN 0 ELSE 1
      OBVIOUS
    <3>3. /\ flow \in Seq(GoodReply) /\ First(flow) = k /\ FlowOK(a, p, flow)
      BY <3>0, <3>1, <3>2a, <3>2b, <3>k, ResponsesPieces
    <3>4. secureBuffer' = IF row.f_auth = 0
                          THEN [secureBuffer EXCEPT ![a] = [secure |-> now + 1, game |-> row.gamename]]
                          ELSE secureBuffer
      BY <1>3, <1>6 DEF Query
    <3> HIDE DEF flow
    <3>5. net'[a] = flow
      BY <2>3, <3>1, <3>2, <3>3 DEF Typed
    <3>6. k \in 0 .. (Parts + 1) /\ k \in Nat /\ (k \in Part => k - 1 = 0) /\ (k \notin Part => k = 0)
      BY PartsType
    <3>7. SocketOK(a, p, k, k, socket)
      <4>1. k .. (k - 1) = {}
        BY <3>6
      <4> QED
        BY <2>3, <4>1 DEF SocketOK
    <3>8. BufferOK(a, p, k, dataBuffer[a])
      BY <2>3, <3>6 DEF BufferOK
    <3>9. Owed(a, p, k)'
      <4>1. p \in (cycleStart' + 1) .. now'
        BY <1>1, <1>3, <3>0
      <4>2. polled'[p] \in RowsOf(serverlist', a)
        BY <1>2, <1>3, <1>4, <1>6, <3>0 DEF RowsOf
      <4>3. row.gamename = Runs[a]
        BY <1>2, <1>6, <3>1 DEF GamenameTrue
      <4>4. k = 0 => secureBuffer'[a].game = Runs[a]
        BY <3>4, <3>k, <4>3 DEF Typed
      <4> QED
        BY <3>1, <4>1, <4>2, <4>4 DEF Owed
    <3>10. Stage(a, p, k)'
      <4>1. k <= First(flow)
        BY <3>3, <3>6
      <4>2. SocketOK(a, p, k, First(flow), socket)
        BY <3>3, <3>7
      <4> QED
        BY <1>3, <3>3, <3>5, <3>8, <3>9, <4>1, <4>2 DEF Stage
    <3>11. p \in 0 .. now'
      BY <1>1, <1>3, <3>0
    <3> QED
      BY <3>6, <3>10, <3>11
  <2> QED
    BY <2>4, <2>5
<1> QED
  BY <1>5, <1>6 DEF InOrder

LEMMA OrderDeliver ==
    ASSUME Orderly, PollInv, Typed, InOrder, [Next]_vars,
           NEW b \in Address, NEW i \in DOMAIN net[b], Deliver(b, i)
    PROVE  InOrder'
<1>1. now \in Nat /\ net[b] \in Seq(GoodReply) /\ socket \in Seq(GoodReply)
  BY DEF PollInv, Typed
<1>2. PICK u \in 0 .. now, l \in 0 .. (Parts + 1) : Stage(b, u, l)
  BY DEF InOrder
<1> DEFINE flow == net[b]
           m == Head(flow)
           r == [m EXCEPT !.copies = 0]
<1>3. i = 1 /\ flow # << >> /\ flow[1] = m /\ m \in GoodReply
  <2>1. ~Reorder
    BY DEF Orderly
  <2>2. i = 1
    BY <2>1 DEF Deliver
  <2> QED
    BY <1>1, <2>2
<1>4. /\ First(flow) \in 0 .. Parts /\ First(Tail(flow)) = First(flow) + 1
      /\ IsPiece(m, b, First(flow), u) /\ FlowOK(b, u, Tail(flow))
  BY <1>1, <1>2, <1>3, FlowHead DEF Stage
<1>5. b \in DOMAIN Runs
  <2>1. l <= First(flow)
    BY <1>2 DEF Stage
  <2>2. l <= Parts
    BY <1>4, <2>1, PartsType
  <2> QED
    BY <1>2, <2>2 DEF Stage, Owed
<1>6. /\ m.addr = b /\ Rank(m) = First(flow) /\ m.copies = 0
      /\ IsPiece(r, b, First(flow), u)
  BY <1>3, <1>4, <1>5, PieceHas, PieceRank
<1>7. r \in GoodReply /\ r.addr = b /\ Rank(r) = First(flow)
  <2>1. r \in GoodReply /\ r.addr = m.addr /\ r.type = m.type /\ r.copies = 0
    BY <1>3 DEF GoodReply, Reply, Bit
  <2>2. IsPiece(r, b, First(flow), u)
    BY <1>6
  <2> HIDE DEF r
  <2>3. Rank(r) = First(flow)
    BY <1>4, <1>5, <2>2, PieceRank
  <2> QED
    BY <1>6, <2>1, <2>3
<1>8. net' = [net EXCEPT ![b] = Tail(flow)] /\ socket' = Append(socket, r)
  <2>1. ~Lossy
    BY DEF Orderly
  <2>2. socket' = Append(socket, r)
    BY <1>3, <2>1 DEF Deliver
  <2>3. Without(flow, 1) = Tail(flow)
    <3>1. SubSeq(flow, 1, 0) = << >> /\ SubSeq(flow, 2, Len(flow)) = Tail(flow)
      BY <1>1, <1>3
    <3>2. Tail(flow) \in Seq(GoodReply)
      BY <1>1, <1>3
    <3> QED
      BY <3>1, <3>2 DEF Without
  <2>4. net' = [net EXCEPT ![b] = Without(flow, 1)]
    BY <1>3, <1>6 DEF Deliver
  <2> QED
    BY <2>2, <2>3, <2>4
<1>9. /\ UNCHANGED <<cycleStart, now, polled, serverlist, secureBuffer, dataBuffer>>
  BY DEF Deliver, clocks, tables
<1> HIDE DEF r, m
<1>10. ASSUME NEW a \in Address
       PROVE  \E t \in 0 .. now', n \in 0 .. (Parts + 1) : Stage(a, t, n)'
  <2>1. PICK t \in 0 .. now, n \in 0 .. (Parts + 1) : Stage(a, t, n) /\ (a = b => t = u /\ n = l)
    BY <1>2 DEF InOrder
  <2>2. t \in Nat /\ n \in Nat
    BY <1>1, PartsType
  <2>3. Owed(a, t, n)'
    BY <1>9, <2>1, <2>2, OwedKept DEF Stage
  <2>4. First(net[a]) \in 0 .. (Parts + 1) /\ n <= First(net[a])
    BY <2>1, <2>2, FirstType
  <2>5. First(net[a]) \in Nat
    BY <2>4, PartsType
  <2>6. SocketOK(a, t, n, First(net[a]), socket)
    BY <2>1 DEF Stage
  <2>7. r.addr = a => Rank(r) = First(net[a]) /\ IsPiece(r, a, First(net[a]), t)
    BY <1>6, <1>7, <2>1
  <2>8. SocketOK(a, t, n, IF r.addr = a THEN First(net[a]) + 1 ELSE First(net[a]), Append(socket, r))
    BY <1>1, <1>7, <2>2, <2>4, <2>5, <2>6, <2>7, SocketAppend
  <2>9. CASE a = b
    <3>1. net'[a] = Tail(flow) /\ First(net'[a]) = First(net[a]) + 1
      BY <1>4, <1>8, <2>9 DEF Typed
    <3>2. n <= First(net'[a])
      BY <2>2, <2>4, <2>5, <3>1
    <3>3. FlowOK(a, t, net'[a])
      BY <1>4, <2>1, <2>9, <3>1
    <3>4. SocketOK(a, t, n, First(net'[a]), socket')
      BY <1>7, <1>8, <2>8, <2>9, <3>1
    <3>5. Stage(a, t, n)'
      BY <1>9, <2>1, <2>3, <3>2, <3>3, <3>4 DEF Stage
    <3> QED
      BY <1>9, <3>5
  <2>10. CASE a # b
    <3>1. net'[a] = net[a]
      BY <1>8, <2>10 DEF Typed
    <3>2. SocketOK(a, t, n, First(net'[a]), socket')
      BY <1>7, <1>8, <2>8, <2>10, <3>1
    <3>3. Stage(a, t, n)'
      BY <1>9, <2>1, <2>3, <3>1, <3>2 DEF Stage
    <3> QED
      BY <1>9, <3>3
  <2> QED
    BY <2>9, <2>10
<1> QED
  BY <1>10 DEF InOrder

LEMMA OrderReset ==
    ASSUME Orderly, PollInv, Typed, InOrder, OnReset
    PROVE  InOrder'
<1>1. NothingUnderWay /\ UNCHANGED <<now, net, socket>> /\ dataBuffer' = NoFragments
  BY DEF OnReset, Orderly, ClearBuffers
<1>2. ASSUME NEW a \in Address
      PROVE  \E t \in 0 .. now', n \in 0 .. (Parts + 1) : Stage(a, t, n)'
  <2>1. PICK t \in 0 .. now, n \in 0 .. (Parts + 1) : Stage(a, t, n)
    BY DEF InOrder
  <2>2. now \in Nat /\ t \in Nat
    BY DEF PollInv
  <2>3. n = Parts + 1
    BY <1>1, <2>1, <2>2, NothingOwed
  <2>4. dataBuffer[a] = << >>
    BY <2>1, <2>2, <2>3, StageDone
  <2>5. dataBuffer'[a] = dataBuffer[a]
    BY <1>1, <2>4 DEF NoFragments
  <2>6. ~(n <= Parts)
    BY <2>3, PartsType
  <2>7. Owed(a, t, n)'
    BY <2>6 DEF Owed
  <2>8. Stage(a, t, n)'
    BY <1>1, <2>1, <2>5, <2>7 DEF Stage
  <2> QED
    BY <1>1, <2>8
<1> QED
  BY <1>2 DEF InOrder

\* What the reply of the socket's first datagram looks like to the slot.
HeadStage(a, t, n) ==
    /\ a = Head(socket).addr /\ a \in DOMAIN Runs /\ Stage(a, t, n) /\ n <= Parts
    /\ IsPiece(Head(socket), a, n, t) /\ Rank(Head(socket)) = n
    /\ polled[t] \in RowsOf(serverlist, a) /\ t \in 1 .. now
    /\ n = 0 => secureBuffer[a].game = Runs[a]

LEMMA HeadIsNext ==
    ASSUME Orderly, PollInv, Typed, InOrder, Take
    PROVE  \E a \in Address, t \in 0 .. now, n \in 0 .. (Parts + 1) : HeadStage(a, t, n)
<1>1. Head(socket).addr \in Address
  BY TakeTyped
<1>2. PICK a \in Address : a = Head(socket).addr
  BY <1>1
<1>3. PICK t \in 0 .. now, n \in 0 .. (Parts + 1) : Stage(a, t, n)
  BY DEF InOrder
<1>4. now \in Nat /\ cycleStart \in Nat /\ t \in Nat
  BY DEF PollInv
<1>5. n <= Parts /\ IsPiece(Head(socket), a, n, t) /\ Rank(Head(socket)) = n
  BY <1>2, <1>3, <1>4, TakeStage
<1>6. /\ a \in DOMAIN Runs /\ t \in (cycleStart + 1) .. now
      /\ polled[t] \in RowsOf(serverlist, a)
      /\ n = 0 => secureBuffer[a].game = Runs[a]
  BY <1>3, <1>5 DEF Stage, Owed
<1>7. t \in 1 .. now
  BY <1>4, <1>6
<1>8. HeadStage(a, t, n)
  BY <1>2, <1>3, <1>5, <1>6, <1>7 DEF HeadStage
<1> QED
  BY <1>8

\* A reply that is taken up to its next piece.
LEMMA HeadTaken ==
    ASSUME Orderly, PollInv, Typed, Take, [Next]_vars, NEW a \in Address, NEW t \in 0 .. now,
           NEW n \in 0 .. (Parts + 1), HeadStage(a, t, n), BufferOK(a, t, n + 1, dataBuffer'[a])
    PROVE  Stage(a, t, n + 1)'
<1>1. now \in Nat /\ n \in Nat /\ t \in Nat
  BY PartsType DEF PollInv
<1>2. /\ net' = net /\ FlowOK(a, t, net'[a])
      /\ n + 1 <= First(net'[a]) /\ SocketOK(a, t, n + 1, First(net'[a]), socket')
  BY <1>1, TakeStage DEF HeadStage
<1>3. Owed(a, t, n + 1)'
  <2>1. RowsOf(serverlist, a) \subseteq RowsOf(serverlist', a)
    BY RowsStay
  <2>2. cycleStart' = cycleStart /\ now' = now /\ polled' = polled
    BY DEF Take, clocks
  <2>3. Owed(a, t, n)
    BY DEF HeadStage, Stage
  <2>4. n + 1 # 0 /\ n <= Parts
    BY <1>1 DEF HeadStage
  <2> QED
    BY <2>1, <2>2, <2>3, <2>4 DEF Owed
<1> QED
  BY <1>2, <1>3 DEF Stage

LEMMA OrderReads ==
    ASSUME Orderly, PollInv, Typed, InOrder, [Next]_vars, ReadValidate \/ ReadFragment \/ ReadFinal
    PROVE  InOrder'
<1>0. Take /\ now \in Nat /\ now' = now
  BY DEF ReadValidate, ReadFragment, ReadFinal, PollInv, Take, clocks
<1>1. PICK b \in Address, u \in 0 .. now, l \in 0 .. (Parts + 1) : HeadStage(b, u, l)
  BY <1>0, HeadIsNext
<1>2. ASSUME NEW a \in Address, a # b
      PROVE  \E t \in 0 .. now', n \in 0 .. (Parts + 1) : Stage(a, t, n)'
  <2>1. PICK t \in 0 .. now, n \in 0 .. (Parts + 1) : Stage(a, t, n)
    BY DEF InOrder
  <2>2. dataBuffer'[a] = dataBuffer[a] /\ secureBuffer'[a] = secureBuffer[a]
    BY <1>1, <1>2 DEF HeadStage, Typed, ReadValidate, ReadFragment, ReadFinal
  <2>3. a # Head(socket).addr /\ t \in Nat
    BY <1>0, <1>1, <1>2 DEF HeadStage
  <2>4. Stage(a, t, n)'
    BY <1>0, <2>1, <2>2, <2>3, OthersTake
  <2> QED
    BY <1>0, <2>4
<1> DEFINE m == Head(socket)
           buf == dataBuffer[b]
<1>3. /\ m.addr = b /\ m \in GoodReply /\ l <= Parts /\ l \in Nat /\ l + 1 \in 0 .. (Parts + 1)
      /\ IsPiece(m, b, l, u) /\ Rank(m) = l /\ BufferOK(b, u, l, buf) /\ buf \in Seq(Fragment)
  <2>1. m \in GoodReply
    BY <1>0, TakeTyped
  <2>2. l <= Parts /\ m.addr = b /\ IsPiece(m, b, l, u) /\ Rank(m) = l /\ BufferOK(b, u, l, buf)
    BY <1>1 DEF HeadStage, Stage
  <2>3. l \in Nat /\ l + 1 \in 0 .. (Parts + 1)
    BY <2>2, PartsType
  <2> QED
    BY <2>1, <2>2, <2>3 DEF Typed
<1> HIDE DEF m
<1>4. BufferOK(b, u, l + 1, dataBuffer'[b])
  <2>1. CASE ReadValidate
    <3>1. m.type = "validate" /\ dataBuffer'[b] = << >>
      BY <1>3, <2>1 DEF ReadValidate, m, Typed
    <3>2. l = 0
      BY <1>3, <3>1 DEF Rank
    <3>3. l + 1 \in Part => l + 1 - 1 = 0
      BY <3>2
    <3> QED
      BY <3>1, <3>3 DEF BufferOK
  <2>2. CASE ReadFinal
    <3>1. m.type = "status" /\ m.part = Parts /\ dataBuffer'[b] = << >>
      BY <1>3, <2>2 DEF ReadFinal, m, Typed
    <3>2. l = Parts
      BY <1>3, <3>1 DEF Rank
    <3>3. l + 1 \notin Part
      BY <3>2, PartsType
    <3> QED
      BY <3>1, <3>3 DEF BufferOK
  <2>3. CASE ReadFragment
    <3>1. m.type = "status" /\ m.part # Parts /\ dataBuffer'[b] = Append(buf, m)
      BY <1>3, <2>3 DEF ReadFragment, m, Typed
    <3>2. m.part = l /\ l # Parts
      BY <1>3, <3>1 DEF Rank
    <3>3. l \in Part /\ m = StatusReply(b, u)[l]
      <4>1. l # 0
        BY <1>3, <3>1 DEF IsPiece
      <4> QED
        BY <1>3, <4>1 DEF IsPiece
    <3>4. Len(buf) = l - 1 /\ \A k \in DOMAIN buf : buf[k] = StatusReply(b, u)[k]
      BY <1>3, <3>3 DEF BufferOK
    <3>5. l + 1 \in Part /\ l + 1 - 1 = l
      BY <1>3, <3>2, <3>3, PartsType
    <3> DEFINE new == Append(buf, m)
    <3>6. /\ Len(new) = Len(buf) + 1 /\ DOMAIN new = 1 .. (Len(buf) + 1) /\ Len(buf) \in Nat
          /\ DOMAIN buf = 1 .. Len(buf)
          /\ new[Len(buf) + 1] = m /\ \A k \in 1 .. Len(buf) : new[k] = buf[k]
      BY <1>3
    <3> HIDE DEF new
    <3>7. Len(new) = l /\ \A k \in DOMAIN new : k = l \/ k \in DOMAIN buf
      BY <1>3, <3>4, <3>6
    <3>8. new[l] = m
      BY <1>3, <3>4, <3>6
    <3>9. \A k \in DOMAIN new : new[k] = StatusReply(b, u)[k]
      BY <3>3, <3>4, <3>6, <3>7, <3>8
    <3>10. dataBuffer'[b] = new
      BY <3>1 DEF new
    <3>11. BufferOK(b, u, l + 1, new)
      BY <3>5, <3>7, <3>9 DEF BufferOK
    <3> QED
      BY <3>10, <3>11
  <2> QED
    BY <2>1, <2>2, <2>3
<1>5. Stage(b, u, l + 1)'
  BY <1>0, <1>1, <1>4, HeadTaken
<1>6. \A a \in Address : \E t \in 0 .. now', n \in 0 .. (Parts + 1) : Stage(a, t, n)'
  BY <1>0, <1>2, <1>3, <1>5
<1> QED
  BY <1>6 DEF InOrder

LEMMA OrderNext ==
    ASSUME Orderly, PollInv, Typed, UniqueIn(serverlist), GamenameTrue, InOrder, [Next]_vars
    PROVE  InOrder'
<1>1. CASE OnTicker
  BY <1>1, OrderTicker
<1>2. CASE OnReset
  BY <1>2, OrderReset
<1>3. CASE ReadValidate \/ ReadFragment \/ ReadFinal
  BY <1>3, OrderReads
<1>4. CASE \E a \in Address : \E i \in DOMAIN net[a] : Deliver(a, i)
  BY <1>4, OrderDeliver
<1>5. ~\E a \in Address : Lose(a)
  BY DEF Lose, Orderly
<1>6. CASE Horizon \/ UNCHANGED vars
  <2>1. UNCHANGED vars
    BY <1>6 DEF Horizon
  <2> QED
    BY <2>1 DEF vars, clocks, tables, InOrder, Stage, Owed
<1> QED
  BY <1>1, <1>2, <1>3, <1>4, <1>5, <1>6 DEF Next

\* The reply that ends has all its parts, in order and from one poll.
Whole(a, t, buf) ==
    /\ a \in DOMAIN Runs /\ t \in 1 .. now /\ polled[t] \in RowsOf(serverlist, a)
    /\ Len(buf) = Parts /\ \A k \in Part : buf[k] = StatusReply(a, t)[k]

LEMMA FinalIsWhole ==
    ASSUME Orderly, PollInv, Typed, InOrder, ReadFinal
    PROVE  \E t \in Nat :
              LET a == Head(socket).addr IN Whole(a, t, Append(dataBuffer[a], Head(socket)))
<1>0. Take /\ now \in Nat
  BY DEF ReadFinal, PollInv
<1>1. PICK a \in Address, t \in 0 .. now, n \in 0 .. (Parts + 1) : HeadStage(a, t, n)
  BY <1>0, HeadIsNext
<1> DEFINE m == Head(socket)
           buf == dataBuffer[a]
           new == Append(buf, m)
<1>2. /\ m.addr = a /\ a \in DOMAIN Runs /\ IsPiece(m, a, n, t) /\ Rank(m) = n
      /\ polled[t] \in RowsOf(serverlist, a) /\ t \in 1 .. now /\ BufferOK(a, t, n, buf)
  BY <1>1 DEF HeadStage, Stage
<1>3. m.type = "status" /\ m.part = Parts /\ buf \in Seq(Fragment)
  BY DEF ReadFinal, Typed
<1>4. n = Parts
  BY <1>2, <1>3 DEF Rank
<1>5. m = StatusReply(a, t)[Parts]
  BY <1>2, <1>4, PartsType DEF IsPiece
<1>6. Len(buf) = Parts - 1 /\ \A k \in DOMAIN buf : buf[k] = StatusReply(a, t)[k]
  BY <1>2, <1>4, PartsType DEF BufferOK
<1> HIDE DEF m
<1>7. /\ Len(new) = Len(buf) + 1 /\ DOMAIN buf = 1 .. Len(buf) /\ Len(buf) \in Nat
      /\ new[Len(buf) + 1] = m /\ \A k \in 1 .. Len(buf) : new[k] = buf[k]
  BY <1>3
<1> HIDE DEF new
<1>8. \A k \in Part : new[k] = StatusReply(a, t)[k]
  <2> TAKE k \in Part
  <2>1. CASE k = Parts
    <3>1. Len(buf) + 1 = Parts
      BY <1>6, PartsType
    <3> QED
      BY <1>5, <1>7, <2>1, <3>1
  <2>2. CASE k # Parts
    <3>1. k \in 1 .. Len(buf)
      BY <1>6, <2>2, PartsType
    <3> QED
      BY <1>6, <1>7, <3>1
  <2> QED
    BY <2>1, <2>2
<1>9. Len(new) = Parts
  BY <1>6, <1>7, PartsType
<1>10. Whole(a, t, new)
  BY <1>2, <1>8, <1>9 DEF Whole
<1>11. t \in Nat
  BY <1>2
<1> QED
  BY <1>2, <1>10, <1>11 DEF new, m

\* The gamename of a whole reply is that of its server.
LEMMA WholeGame ==
    ASSUME Orderly, NEW a, NEW t, NEW buf \in Seq(Fragment), Whole(a, t, buf)
    PROVE  BufferedGame(buf) = Runs[a]
<1> DEFINE named == {k \in DOMAIN buf : buf[k].game # ""}
<1>1. DOMAIN buf = Part /\ 1 \in Part /\ a \in DOMAIN Runs
  BY PartsType DEF Whole
<1>2. \A k \in Part : buf[k].game = IF k = 1 THEN Runs[a] ELSE ""
  <2> TAKE k \in Part
  <2>1. buf[k] = StatusReply(a, t)[k]
    BY DEF Whole
  <2>2. StatusReply(a, t)[k].game = IF k = 1 THEN Runs[a] ELSE ""
    BY DEF StatusReply, Orderly
  <2> QED
    BY <2>1, <2>2, Zenon
<1>3. Runs[a] # ""
  BY <1>1 DEF Orderly
<1>4. named = {1}
  BY <1>1, <1>2, <1>3
<1>5. Max({1}) = 1
  <2>1. {1} \in SUBSET (1 .. 1) /\ {1} # {} /\ 1 \in Nat
    OBVIOUS
  <2>2. Max({1}) \in {1}
    BY <2>1, MaxIsHighest
  <2> QED
    BY <2>2
<1> QED
  BY <1>1, <1>2, <1>4, <1>5 DEF BufferedGame

LEMMA GamenameStep ==
    ASSUME Orderly, PollInv, Typed, InOrder, GamenameTrue, [Next]_vars
    PROVE  GamenameTrue'
<1>0. now \in Nat /\ 0 \in Bit /\ serverlist \in Table
  BY DEF PollInv, Bit, Typed
<1>1. CASE ReadValidate
  <2>1. Take
    BY <1>1 DEF ReadValidate
  <2>2. PICK a \in Address, t \in 0 .. now, n \in 0 .. (Parts + 1) : HeadStage(a, t, n)
    BY <2>1, HeadIsNext
  <2>3. Head(socket).type = "validate"
    BY <1>1 DEF ReadValidate
  <2>4. Head(socket).addr = a /\ secureBuffer[a].game = Runs[a] /\ a \in DOMAIN Runs
    BY <2>2, <2>3 DEF HeadStage, Rank
  <2>5. \/ serverlist' = serverlist
        \/ \E auth \in Bit : serverlist' = UpdateServer(serverlist, a, Runs[a], 0, auth, now)
    BY <1>1, <2>4 DEF ReadValidate, Bit
  <2>6. Runs[a] \in GameName
    BY <2>4, CheckerAssumption
  <2>7. ASSUME NEW auth \in Bit, serverlist' = UpdateServer(serverlist, a, Runs[a], 0, auth, now)
        PROVE  GamenameTrue'
    <3>1. /\ DOMAIN serverlist' = DOMAIN serverlist
          /\ \A id \in DOMAIN serverlist : serverlist'[id] =
                IF serverlist[id].addr = a THEN UpdatedRow(serverlist[id], Runs[a], 0, auth, now)
                ELSE serverlist[id]
      BY <1>0, <2>6, <2>7, UpdateServerKeeps
    <3>2. \A row \in Row : /\ UpdatedRow(row, Runs[a], 0, auth, now).addr = row.addr
                           /\ UpdatedRow(row, Runs[a], 0, auth, now).gamename = Runs[a]
      BY DEF UpdatedRow, Row
    <3>3. \A id \in DOMAIN serverlist : serverlist[id] \in Row
      BY <1>0 DEF Table
    <3> QED
      BY <3>1, <3>2, <3>3 DEF GamenameTrue
  <2> QED
    BY <2>5, <2>7 DEF GamenameTrue
<1>2. CASE ReadFinal
  <2>1. PICK a \in Address, buf \in Seq(Fragment), ok \in [Statement -> Result] :
          /\ a = Head(socket).addr /\ buf = Append(dataBuffer[a], Head(socket))
          /\ BufferedGame(buf) \in GameName
          /\ serverlist' = UpsertServer(serverlist, a, BufferedGame(buf), 0, now,
                                        ok["update"], ok["insert"])
    BY <1>2, FinalStores
  <2>2. PICK t \in Nat : Whole(a, t, buf)
    BY <1>2, <2>1, FinalIsWhole
  <2>3. BufferedGame(buf) = Runs[a]
    BY <2>2, WholeGame
  <2>4. ok["update"] \in Result /\ ok["insert"] \in Result
    BY DEF Statement
  <2>5. \A id \in DOMAIN serverlist' :
           \/ id \in DOMAIN serverlist /\ serverlist'[id] = serverlist[id]
           \/ serverlist'[id].addr = a /\ serverlist'[id].gamename = Runs[a]
    <3> DEFINE u == UpsertServer(serverlist, a, BufferedGame(buf), 0, now, ok["update"], ok["insert"])
    <3>1. \A id \in DOMAIN u :
             \/ id \in DOMAIN serverlist /\ u[id] = serverlist[id]
             \/ u[id].addr = a /\ u[id].gamename = BufferedGame(buf)
      BY <1>0, <2>1, <2>4, UpsertServerRows
    <3> QED
      BY <2>1, <2>3, <3>1
  <2> QED
    BY <2>5 DEF GamenameTrue
<1>3. ReadValidate \/ ReadFinal \/ UNCHANGED serverlist
  BY TickerTyped DEF Next, ReadFragment, Horizon, vars, Lose, Deliver, OnReset, OnTicker, tables
<1>4. CASE UNCHANGED serverlist
  BY <1>4 DEF GamenameTrue
<1> QED
  BY <1>1, <1>2, <1>3, <1>4

\* Without failing statements the history says so.
LEMMA StaysUnfailed == ASSUME ~SqlMayFail, ~failed, [Next]_vars PROVE ~failed'
<1>1. \A ok \in SqlOutcome : \A s \in Statement : ok[s] = "ok"
  BY DEF SqlOutcome
<1>2. ~\E ok \in SqlOutcome : \E s \in Statement : ok[s] = "error"
  BY <1>1
<1> QED
  BY <1>2 DEF Next, ReadFragment, ReadFinal, ReadValidate, FailedIn, Horizon, vars, Lose, Deliver,
              OnReset, OnTicker

LEMMA NeverFails == ASSUME ~SqlMayFail PROVE Spec => []~failed
<1>1. Init => ~failed
  BY DEF Init
<1>2. ~failed /\ [Next]_vars => ~failed'
  BY StaysUnfailed
<1> QED
  BY <1>1, <1>2, PTL DEF Spec

LEMMA OrderInit == ASSUME Orderly, Init PROVE InOrder /\ GamenameTrue
<1>1. GamenameTrue
  <2>1. PICK auth \in [DOMAIN Listed -> Bit] :
           serverlist = [id \in DOMAIN Listed |-> ListedRow(Listed[id], auth[id])]
    BY DEF Init
  <2> QED
    BY <2>1 DEF GamenameTrue, ListedRow
<1>2. ASSUME NEW a \in Address PROVE Stage(a, 0, Parts + 1)
  <2>1. net[a] = << >> /\ socket = << >> /\ dataBuffer[a] = << >>
    BY DEF Init, NoFragments
  <2>2. First(<< >>) = Parts + 1 /\ Parts + 1 \notin Part /\ ~(Parts + 1 <= Parts)
        /\ (Parts + 1) .. (Parts + 1 - 1) = {} /\ 0 <= Parts + 1 /\ Parts + 1 <= Parts + 1
    BY PartsType DEF First
  <2>3. FlowOK(a, 0, << >>)
    BY <2>2 DEF FlowOK
  <2>4. SocketOK(a, 0, Parts + 1, Parts + 1, << >>)
    <3>1. PICK q \in Nat : q = Parts + 1
      BY PartsType
    <3>2. q .. (q - 1) = {} /\ DOMAIN << >> = {}
      OBVIOUS
    <3>3. SocketOK(a, 0, q, q, << >>)
      BY <3>2 DEF SocketOK
    <3> QED
      BY <3>1, <3>3
  <2>5. BufferOK(a, 0, Parts + 1, << >>)
    BY <2>2 DEF BufferOK
  <2>6. Owed(a, 0, Parts + 1)
    BY <2>2 DEF Owed
  <2> QED
    BY <2>1, <2>2, <2>3, <2>4, <2>5, <2>6 DEF Stage
<1>3. 0 \in 0 .. now /\ Parts + 1 \in 0 .. (Parts + 1)
  BY PartsType DEF Init
<1> QED
  BY <1>1, <1>2, <1>3 DEF InOrder

LEMMA OrderInvariant == ASSUME Orderly PROVE Spec => [](InOrder /\ GamenameTrue)
<1>1. Init => InOrder /\ GamenameTrue
  BY OrderInit
<1>2. PollInv /\ Typed /\ UniqueAddress /\ ~failed /\ InOrder /\ GamenameTrue /\ [Next]_vars
         => InOrder' /\ GamenameTrue'
  BY OrderNext, GamenameStep DEF UniqueAddress
<1>3. Spec => []~failed
  BY NeverFails DEF Orderly
<1> QED
  BY <1>1, <1>2, PollInvariant, TypedInvariant, UniqueAddressHolds, <1>3, PTL DEF Spec

\* On an orderly network no poll, no challenge and no reset costs a server its game: the
\* parts of a reply meet in the buffer whole, and the answer to a challenge finds the name
\* it was sent under.
THEOREM GamenameTrueHolds == ASSUME Orderly PROVE Spec => []GamenameTrue
  BY OrderInvariant, PTL
-----------------------------------------------------------------------------
\* What the details of a row say: one poll of its own server, the players' too.
OnePoll(r, players) ==
    /\ \A p \in Part : r.poll[p] = r.poll[Parts]
    /\ r.poll[Parts] \in 1 .. now /\ polled[r.poll[Parts]] = r.sid
    /\ \A q \in players : q.sid = r.sid => q.poll = r.poll[Parts]

InfoInv == \A i \in DOMAIN serverinfo : OnePoll(serverinfo[i], playerinfo)

LEMMA InfoFinal ==
    ASSUME Orderly, PollInv, Typed, CheckerTypes, UniqueIn(serverlist), OneInfoPerServer, ~failed,
           InOrder, InfoInv, [Next]_vars, ReadFinal, ~failed'
    PROVE  InfoInv'
<1>1. PICK a \in Address, buf \in Seq(Fragment), id \in DOMAIN serverlist', info \in Seq(InfoRow) :
         ~failed /\ StoredOnce(a, buf, id, info)
  BY FinalUnfailed DEF OneInfoPerServer
<1>2. /\ a = Head(socket).addr /\ buf = Append(dataBuffer[a], Head(socket)) /\ Ids(a) = {id}
      /\ \A i \in DOMAIN serverinfo : i \in DOMAIN info /\ info[i] = serverinfo[i]
      /\ \A i \in DOMAIN info : i \notin DOMAIN serverinfo => info[i].sid = id
      /\ serverinfo' = UpdateServerInfo(info, a, buf)
      /\ playerinfo' = {r \in playerinfo : r.sid # id}
             \cup {[sid |-> id, poll |-> buf[k].poll] :
                      k \in {j \in DOMAIN buf : Extended /\ buf[j].part = Parts}}
  BY <1>1 DEF StoredOnce
<1>3. PICK t \in Nat : Whole(a, t, buf)
  BY <1>2, FinalIsWhole
<1>4. DOMAIN buf = Part /\ a \in DOMAIN Runs /\ t \in 1 .. now /\ polled[t] \in RowsOf(serverlist, a)
  BY <1>3, PartsType DEF Whole
<1>5. \A k \in Part : buf[k].poll = t /\ buf[k].part = k
  <2> TAKE k \in Part
  <2>1. buf[k] = StatusReply(a, t)[k]
    BY <1>3 DEF Whole
  <2>2. StatusReply(a, t)[k].poll = t /\ StatusReply(a, t)[k].part = k
    BY DEF StatusReply
  <2> QED
    BY <2>1, <2>2, Zenon
<1>6. polled[t] = id
  <2>1. RowsOf(serverlist, a) \subseteq RowsOf(serverlist', a)
    BY RowsStay
  <2>2. RowsOf(serverlist', a) = {id}
    BY <1>2 DEF Ids
  <2> QED
    BY <1>4, <2>1, <2>2
<1>7. now' = now /\ polled' = polled
  BY DEF ReadFinal, Take, clocks
<1>8. /\ DOMAIN serverinfo' = DOMAIN info
      /\ \A i \in DOMAIN info : serverinfo'[i].sid = info[i].sid
      /\ \A i \in DOMAIN info : info[i].sid # id => serverinfo'[i] = info[i]
      /\ \A i \in DOMAIN info : info[i].sid = id => \A p \in Part : serverinfo'[i].poll[p] = t
  <2> DEFINE u == UpdateServerInfo(info, a, buf)
  <2>1. /\ DOMAIN u = DOMAIN info
        /\ \A i \in DOMAIN info : u[i].sid = info[i].sid
        /\ \A i \in DOMAIN info : info[i].sid \notin Ids(a) => u[i] = info[i]
        /\ \A i \in DOMAIN info : info[i].sid \in Ids(a) =>
               \A p \in Part : \A k \in DOMAIN buf :
                   buf[k].part = p /\ (\A j \in DOMAIN buf : buf[j].part = p => j = k)
                       => u[i].poll[p] = buf[k].poll
    BY SMTT(30), UpdateInfoAll
  <2> HIDE DEF u
  <2>2. ASSUME NEW i \in DOMAIN info, info[i].sid = id, NEW p \in Part PROVE u[i].poll[p] = t
    <3>1. p \in DOMAIN buf /\ buf[p].part = p /\ \A j \in DOMAIN buf : buf[j].part = p => j = p
      BY <1>4, <1>5
    <3>2. info[i].sid \in Ids(a)
      BY <1>2, <2>2
    <3>2a. \A k \in DOMAIN buf :
               buf[k].part = p /\ (\A j \in DOMAIN buf : buf[j].part = p => j = k)
                   => u[i].poll[p] = buf[k].poll
      BY <2>1, <3>2
    <3>3. u[i].poll[p] = buf[p].poll
      BY <3>1, <3>2a
    <3> QED
      BY <1>5, <3>3
  <2>3. serverinfo' = u
    BY SMTT(30), <1>2 DEF u
  <2>4. \A i \in DOMAIN info : info[i].sid # id => u[i] = info[i]
    BY <1>2, <2>1
  <2>5. \A i \in DOMAIN info : info[i].sid = id => \A p \in Part : u[i].poll[p] = t
    BY <2>2
  <2>6. DOMAIN u = DOMAIN info /\ \A i \in DOMAIN info : u[i].sid = info[i].sid
    BY <2>1
  <2> QED
    BY <2>3, <2>4, <2>5, <2>6
<1>9. Parts \in Part
  BY LastPart, Zenon
<1>10. \A q \in playerinfo' : IF q.sid = id THEN q.poll = t ELSE q \in playerinfo
  <2> TAKE q \in playerinfo'
  <2>1. CASE q \in {r \in playerinfo : r.sid # id}
    BY <2>1
  <2>2. CASE q \in {[sid |-> id, poll |-> buf[k].poll] :
                     k \in {j \in DOMAIN buf : Extended /\ buf[j].part = Parts}}
    <3>1. PICK k \in DOMAIN buf : q = [sid |-> id, poll |-> buf[k].poll]
      BY <2>2
    <3>2. buf[k].poll = t
      BY <1>4, <1>5
    <3> QED
      BY <3>1, <3>2
  <2> QED
    BY <1>2, <2>1, <2>2
<1>11. ASSUME NEW i \in DOMAIN info PROVE OnePoll(serverinfo'[i], playerinfo')
  <2>1. CASE info[i].sid = id
    <3>1. /\ \A p \in Part : serverinfo'[i].poll[p] = t
          /\ serverinfo'[i].poll[Parts] = t /\ serverinfo'[i].sid = id
      BY <1>8, <1>9, <2>1
    <3>2. \A q \in playerinfo' : q.sid = id => q.poll = t
      BY <1>10
    <3> QED
      BY <1>4, <1>6, <3>1, <3>2 DEF OnePoll
  <2>2. CASE info[i].sid # id
    <3>1. i \in DOMAIN serverinfo /\ serverinfo'[i] = serverinfo[i] /\ serverinfo[i].sid # id
      BY <1>2, <1>8, <2>2
    <3>2. OnePoll(serverinfo[i], playerinfo)
      BY <3>1 DEF InfoInv
    <3>3. \A q \in playerinfo' : q.sid = serverinfo[i].sid => q \in playerinfo
      BY <1>10, <3>1
    <3> QED
      BY SMTT(30), <3>1, <3>2, <3>3 DEF OnePoll
  <2> QED
    BY <2>1, <2>2
<1>12. ASSUME NEW i \in DOMAIN serverinfo' PROVE OnePoll(serverinfo[i], playerinfo)'
  BY <1>7, <1>8, <1>11 DEF OnePoll
<1> QED
  BY <1>12 DEF InfoInv

LEMMA InfoStep ==
    ASSUME Orderly, PollInv, Typed, CheckerTypes, UniqueIn(serverlist), OneInfoPerServer, ~failed,
           InOrder, InfoInv, [Next]_vars
    PROVE  InfoInv'
<1>1. CASE ReadFinal
  <2>1. ~failed'
    BY StaysUnfailed DEF Orderly
  <2> QED
    BY <1>1, <2>1, InfoFinal
<1>2. CASE UNCHANGED <<serverinfo, playerinfo>>
  <2>1. now \in Nat /\ polled \in Seq(Nat) /\ Len(polled) = now
    BY SMTT(30) DEF PollInv
  <2>2. \/ now' = now /\ polled' = polled
        \/ now' = now + 1 /\ polled' = Append(polled, NextServer(serverlist, dbIndex, Ttl, now + 1))
    BY DEF Next, ReadFinal, ReadFragment, ReadValidate, Take, Horizon, vars, Lose, Deliver, OnReset,
           OnTicker, clocks
  <2>3. now' >= now /\ \A u \in 1 .. now : polled'[u] = polled[u]
    BY <2>1, <2>2
  <2>4. now' \in Nat
    BY <2>1, <2>2
  <2>5. \A i \in DOMAIN serverinfo : OnePoll(serverinfo[i], playerinfo)'
    <3> TAKE i \in DOMAIN serverinfo
    <3>1. OnePoll(serverinfo[i], playerinfo)
      BY DEF InfoInv
    <3>2. \A u \in 1 .. now : u \in 1 .. now'
      BY <2>1, <2>3, <2>4
    <3> QED
      BY <1>2, <2>3, <3>1, <3>2 DEF OnePoll
  <2> QED
    BY <1>2, <2>5 DEF InfoInv
<1>3. ReadFinal \/ UNCHANGED <<serverinfo, playerinfo>>
  BY DEF Next, ReadFragment, ReadValidate, Horizon, vars, Lose, Deliver, OnReset, OnTicker, tables
<1> QED
  BY <1>1, <1>2, <1>3

\* On an orderly network the details and the players of a server are those of one reply
\* to one poll of that server, although three statements write them field by field.
THEOREM InfoFromOneReplyHolds == ASSUME Orderly PROVE Spec => []InfoFromOneReply
<1>1. Init => InfoInv
  BY DEF Init, InfoInv
<1>2. PollInv /\ Typed /\ CheckerTypes /\ UniqueAddress /\ OneInfoPerServer /\ ~failed /\ InOrder
         /\ InfoInv /\ [Next]_vars => InfoInv'
  BY InfoStep DEF UniqueAddress
<1>3. InfoInv => InfoFromOneReply
  BY DEF InfoInv, OnePoll, InfoFromOneReply
<1>4. Spec => []~failed
  BY NeverFails DEF Orderly
<1> QED
  BY <1>1, <1>2, <1>3, PollInvariant, TypedInvariant, CheckerTypesInvariant, UniqueAddressHolds,
     OneInfoPerServerHolds, <1>4, OrderInvariant, PTL DEF Spec
-----------------------------------------------------------------------------
(* The cycle.                                                              *)

\* The addresses in the table: those listed at start and those that reply.
Known == {Listed[id] : id \in DOMAIN Listed} \cup {ReplyFrom[a] : a \in DOMAIN Runs}

\* The cycle has a tick for each of them, also when the reset timer is due first, and no
\* statement fails.
EnoughTicks == ~SqlMayFail /\ IsFiniteSet(Known) /\ Cardinality(Known) < CycleTicks

KnownReply == {r \in GoodReply : r.addr \in Known}

FromKnown ==
    /\ \A id \in DOMAIN serverlist : serverlist[id].addr \in Known
    /\ socket \in Seq(KnownReply) /\ net \in [Address -> Seq(KnownReply)]

Asked(id) == \E t \in (cycleStart + 1) .. now : polled[t] = id

\* A row that nobody heard from in this cycle, but not too long ago.
Due(id) == Silent(serverlist[id]) /\ Recent(serverlist[id], Ttl, now)

\* The walk asks what it passes, and passes a row on every tick, until none is left.
WalkInv ==
    /\ nextReset \in Nat /\ nextReset - cycleStart >= CycleTicks
    /\ now = cycleStart => dbIndex = -1
    /\ \A id \in DOMAIN serverlist : Due(id) /\ ~Asked(id) => id > dbIndex
    /\ \/ now = cycleStart
       \/ dbIndex >= now - cycleStart
       \/ \A id \in DOMAIN serverlist : Due(id) => id <= dbIndex

\* A step leaves a row alone or writes it with the time, and in a slot that writes the
\* clock stands still.
LEMMA RowsHeard ==
    ASSUME PollInv, Typed, [Next]_vars, NEW id \in DOMAIN serverlist'
    PROVE  \/ id \in DOMAIN serverlist /\ serverlist'[id] = serverlist[id]
           \/ /\ ReadValidate \/ ReadFinal
              /\ UNCHANGED <<now, cycleStart, nextReset, dbIndex, polled>>
              /\ serverlist'[id].dt_updated = now
              /\ \/ serverlist'[id].addr = Head(socket).addr
                 \/ id \in DOMAIN serverlist /\ serverlist'[id].addr = serverlist[id].addr
<1>0. now \in Nat /\ 0 \in Bit /\ serverlist \in Table
  BY DEF PollInv, Bit, Typed
<1>1. CASE UNCHANGED serverlist
  BY <1>1
<1>2. CASE ReadValidate
  <2>1. CASE serverlist' = serverlist
    BY <2>1
  <2>2. ASSUME NEW a \in Address, NEW g \in GameName, NEW auth \in Bit,
               serverlist' = UpdateServer(serverlist, a, g, 0, auth, now)
        PROVE  \/ id \in DOMAIN serverlist /\ serverlist'[id] = serverlist[id]
               \/ id \in DOMAIN serverlist /\ serverlist'[id].addr = serverlist[id].addr
                    /\ serverlist'[id].dt_updated = now
    <3>1. /\ DOMAIN serverlist' = DOMAIN serverlist
          /\ serverlist'[id] = IF serverlist[id].addr = a
                               THEN UpdatedRow(serverlist[id], g, 0, auth, now) ELSE serverlist[id]
      BY <1>0, <2>2, UpdateServerKeeps
    <3>2. \A row \in Row : /\ UpdatedRow(row, g, 0, auth, now).addr = row.addr
                           /\ UpdatedRow(row, g, 0, auth, now).dt_updated = now
      BY DEF UpdatedRow, Row
    <3>3. serverlist[id] \in Row
      BY <1>0, <3>1 DEF Table
    <3> QED
      BY <3>1, <3>2, <3>3
  <2>3. UNCHANGED <<now, cycleStart, nextReset, dbIndex, polled>>
    BY <1>2 DEF ReadValidate, Take, clocks
  <2> QED
    BY <1>2, <2>1, <2>2, <2>3, ValidateStep
<1>3. CASE ReadFinal
  <2>1. PICK a \in Address, buf \in Seq(Fragment), ok \in [Statement -> Result] :
          /\ a = Head(socket).addr /\ BufferedGame(buf) \in GameName
          /\ serverlist' = UpsertServer(serverlist, a, BufferedGame(buf), 0, now,
                                        ok["update"], ok["insert"])
    BY <1>3, FinalStores
  <2>2. ok["update"] \in Result /\ ok["insert"] \in Result
    BY DEF Statement
  <2>3. \/ id \in DOMAIN serverlist /\ serverlist'[id] = serverlist[id]
        \/ serverlist'[id].addr = a /\ serverlist'[id].dt_updated = now
    <3> DEFINE u == UpsertServer(serverlist, a, BufferedGame(buf), 0, now, ok["update"], ok["insert"])
    <3>1. \A k \in DOMAIN u :
             \/ k \in DOMAIN serverlist /\ u[k] = serverlist[k]
             \/ u[k].addr = a /\ u[k].dt_updated = now
      BY <1>0, <2>1, <2>2, UpsertServerRows
    <3> QED
      BY <2>1, <3>1
  <2>4. UNCHANGED <<now, cycleStart, nextReset, dbIndex, polled>>
    BY <1>3 DEF ReadFinal, Take, clocks
  <2> QED
    BY <1>3, <2>1, <2>3, <2>4
<1>4. ReadValidate \/ ReadFinal \/ UNCHANGED serverlist
  BY TickerTyped DEF Next, ReadFragment, Horizon, vars, Lose, Deliver, OnReset, OnTicker, tables
<1> QED
  BY <1>1, <1>2, <1>3, <1>4

LEMMA KnownInit == Init => FromKnown
<1> SUFFICES ASSUME Init PROVE FromKnown
  OBVIOUS
<1>1. PICK auth \in [DOMAIN Listed -> Bit] :
         serverlist = [id \in DOMAIN Listed |-> ListedRow(Listed[id], auth[id])]
  BY DEF Init
<1>2. \A id \in DOMAIN serverlist : serverlist[id].addr \in Known
  BY <1>1 DEF ListedRow, Known
<1>3. socket \in Seq(KnownReply) /\ net \in [Address -> Seq(KnownReply)]
  BY DEF Init
<1> QED
  BY <1>2, <1>3 DEF FromKnown

LEMMA KnownTicker ==
    ASSUME PollInv, Typed, FromKnown, OnTicker
    PROVE  net' \in [Address -> Seq(KnownReply)]
<1> DEFINE id == NextServer(serverlist, dbIndex, Ttl, now + 1)
           row == serverlist[id]
           flow == Responses(row.addr, row.f_auth = 0, now + 1)
<1>1. net \in [Address -> Seq(KnownReply)] /\ now \in Nat
  BY DEF FromKnown, PollInv
<1>2. CASE net' = net
  BY <1>1, <1>2
<1>3. CASE net' # net
  <2>1. row.addr \in DOMAIN Runs /\ net' = [net EXCEPT ![ReplyFrom[row.addr]] = @ \o flow]
    BY <1>3 DEF OnTicker, Query
  <2>2. PICK a \in DOMAIN Runs : a = row.addr
    BY <2>1
  <2>3. ReplyFrom[a] \in Known
    BY DEF Known
  <2>4. (row.f_auth = 0) \in BOOLEAN /\ now + 1 \in Nat /\ now + 1 # 0
    BY <1>1
  <2>5. flow \in Seq(GoodReply)
    BY <2>2, <2>4, ResponsesGood
  <2>6. \A i \in DOMAIN flow : flow[i].addr = ReplyFrom[a]
    <3> DEFINE v == ValidateReply(a, now + 1)
               s == StatusReply(a, now + 1)
    <3>1. v.addr = ReplyFrom[a] /\ \A p \in 1 .. Parts : s[p].addr = ReplyFrom[a]
      BY PartsType DEF ValidateReply, StatusReply
    <3>2. s \in [1 .. Parts -> {s[p] : p \in 1 .. Parts}]
      BY PartsType DEF StatusReply
    <3>3. flow = (IF row.f_auth = 0 THEN <<v>> ELSE << >>) \o s
      BY <2>2 DEF Responses
    <3> HIDE DEF v, s, flow
    <3>4. Parts \in Nat
      BY PartsType
    <3>5. s \in Seq({s[p] : p \in 1 .. Parts}) /\ Len(s) = Parts
      BY <3>2, <3>4
    <3>6. CASE row.f_auth = 0
      <4>1. flow = <<v>> \o s
        BY <3>3, <3>6
      <4> QED
        BY <3>1, <3>4, <3>5, <4>1
    <3>7. CASE row.f_auth # 0
      <4>1. flow = << >> \o s
        BY <3>3, <3>7
      <4> QED
        BY <3>1, <3>4, <3>5, <4>1
    <3> QED
      BY <3>6, <3>7
  <2> HIDE DEF flow
  <2>7. flow \in Seq(KnownReply)
    <3>1. \A i \in 1 .. Len(flow) : flow[i] \in KnownReply
      BY <2>3, <2>5, <2>6 DEF KnownReply
    <3> QED
      BY <2>5, <3>1
  <2>8. ReplyFrom[a] \in Address
    BY CheckerAssumption
  <2>9. PICK b \in Address : b = ReplyFrom[row.addr]
    BY <2>2, <2>8
  <2>10. net[b] \o flow \in Seq(KnownReply)
    BY <1>1, <2>7
  <2>11. net' = [net EXCEPT ![b] = net[b] \o flow]
    BY <2>1, <2>9
  <2> QED
    BY SMTT(30), <1>1, <2>10, <2>11
<1> QED
  BY <1>2, <1>3

LEMMA KnownStep ==
    ASSUME PollInv, Typed, FromKnown, [Next]_vars
    PROVE  FromKnown'
<1>0. socket \in Seq(KnownReply) /\ net \in [Address -> Seq(KnownReply)]
  BY DEF FromKnown
<1>1. \A id \in DOMAIN serverlist' : serverlist'[id].addr \in Known
  <2> TAKE id \in DOMAIN serverlist'
  <2>1. CASE id \in DOMAIN serverlist /\ serverlist'[id].addr = serverlist[id].addr
    BY <2>1 DEF FromKnown
  <2>2. CASE (ReadValidate \/ ReadFinal) /\ serverlist'[id].addr = Head(socket).addr
    <3>1. socket # << >>
      BY <2>2 DEF ReadValidate, ReadFinal, Take
    <3>2. Head(socket) \in KnownReply
      BY <1>0, <3>1
    <3> QED
      BY <2>2, <3>2 DEF KnownReply
  <2> QED
    BY <2>1, <2>2, RowsHeard
<1>2. socket' \in Seq(KnownReply) /\ net' \in [Address -> Seq(KnownReply)]
  <2>1. CASE OnTicker
    BY <1>0, <2>1, KnownTicker DEF OnTicker
  <2>2. CASE Take
    BY <1>0, <2>2 DEF Take
  <2>3. ASSUME NEW a \in Address, NEW i \in DOMAIN net[a], Deliver(a, i)
        PROVE  socket' \in Seq(KnownReply) /\ net' \in [Address -> Seq(KnownReply)]
    <3> DEFINE s == net[a]
               r == s[i]
               d == [r EXCEPT !.copies = 0]
    <3>1. s \in Seq(KnownReply) /\ r \in KnownReply /\ i \in 1 .. Len(s)
      BY <1>0, <2>3
    <3>2. d \in KnownReply
      BY <3>1 DEF KnownReply, GoodReply, Reply, Bit
    <3>3. Without(s, i) \in Seq(KnownReply)
      BY <3>1 DEF Without
    <3>4. [s EXCEPT ![i].copies = 0] \in Seq(KnownReply)
      <4>1. [s EXCEPT ![i].copies = 0] = [s EXCEPT ![i] = d]
        OBVIOUS
      <4> HIDE DEF d
      <4> QED
        BY <3>1, <3>2, <4>1
    <3>5. \/ net' = [net EXCEPT ![a] = Without(s, i)]
          \/ net' = [net EXCEPT ![a] = [s EXCEPT ![i].copies = 0]]
      BY <2>3 DEF Deliver
    <3>6. socket' = socket \/ socket' = Append(socket, d)
      BY <2>3 DEF Deliver
    <3>7. net' \in [Address -> Seq(KnownReply)]
      <4>1. PICK rest \in Seq(KnownReply) : net' = [net EXCEPT ![a] = rest]
        BY <3>3, <3>4, <3>5
      <4> QED
        BY <1>0, <4>1
    <3> HIDE DEF d
    <3>8. socket' \in Seq(KnownReply)
      <4>1. socket \in Seq(KnownReply)
        BY <1>0
      <4>2. Append(socket, d) \in Seq(KnownReply)
        BY <3>2, <4>1
      <4> QED
        BY <3>6, <4>1, <4>2
    <3> QED
      BY <3>7, <3>8
  <2>4. ASSUME NEW a \in Address, Lose(a)
        PROVE  socket' \in Seq(KnownReply) /\ net' \in [Address -> Seq(KnownReply)]
    <3>1. net[a] \in Seq(KnownReply) /\ net[a] # << >>
      BY <1>0, <2>4 DEF Lose
    <3>2. Tail(net[a]) \in Seq(KnownReply)
      BY <3>1
    <3>3. socket' = socket /\ net' = [net EXCEPT ![a] = Tail(net[a])]
      BY <2>4 DEF Lose
    <3> QED
      BY <1>0, <3>2, <3>3
  <2>5. CASE UNCHANGED <<socket, net>>
    BY <1>0, <2>5
  <2> QED
    BY <2>1, <2>2, <2>3, <2>4, <2>5
    DEF Next, ReadValidate, ReadFragment, ReadFinal, OnReset, Horizon, vars
<1> QED
  BY <1>1, <1>2 DEF FromKnown

\* With one row for each address, the table has no more rows than there are addresses.
LEMMA RowsBounded ==
    ASSUME Typed, FromKnown, UniqueIn(serverlist), IsFiniteSet(Known), NEW id \in DOMAIN serverlist
    PROVE  Cardinality(Known) \in Nat /\ id <= Cardinality(Known)
<1> DEFINE n == Len(serverlist)
           f == [i \in 1 .. n |-> serverlist[i].addr]
<1>1. n \in Nat /\ DOMAIN serverlist = 1 .. n
  BY DEF Typed, Table
<1> HIDE DEF n
<1>2. \A i \in 1 .. n : serverlist[i].addr \in Known
  BY <1>1 DEF FromKnown
<1>3. \A i, j \in 1 .. n : serverlist[i].addr = serverlist[j].addr => i = j
  BY <1>1 DEF UniqueIn
<1>4. f \in Injection(1 .. n, Known)
  BY <1>2, <1>3 DEF Injection, IsInjective
<1>5. Cardinality(1 .. n) <= Cardinality(Known)
  BY <1>4, FS_Injection
<1>6. Cardinality(1 .. n) = n
  BY <1>1, FS_Interval
<1>7. Cardinality(Known) \in Nat
  BY FS_CardinalityType
<1> QED
  BY <1>1, <1>5, <1>6, <1>7

LEMMA WalkInit == Init => WalkInv
<1>1. CycleTicks \in Nat
  BY CheckerAssumption
<1> QED
  BY <1>1 DEF Init, WalkInv

\* The row the ticker asks is the first behind the index that is recent.
LEMMA NextIsFirst ==
    ASSUME Numbered, NEW current \in Int, NEW time \in Nat
    PROVE  LET id == NextServer(serverlist, current, Ttl, time)
           IN  \A k \in DOMAIN serverlist : k > current /\ Recent(serverlist[k], Ttl, time)
                  => id # 0 /\ id <= k
<1> DEFINE due == {id \in DOMAIN serverlist : id > current /\ Recent(serverlist[id], Ttl, time)}
<1>1. due \subseteq Nat
  BY DEF Numbered
<1>2. ASSUME NEW k \in due
      PROVE  NextServer(serverlist, current, Ttl, time) = Min(due) /\ Min(due) <= k /\ Min(due) # 0
  <2>1. due # {}
    OBVIOUS
  <2>2. Min(due) \in due /\ Min(due) <= k
    BY <1>1, <2>1, MinIsLowest
  <2>3. Min(due) # 0
    BY <2>2 DEF Numbered
  <2> QED
    BY <2>1, <2>2, <2>3 DEF NextServer
<1> QED
  BY <1>2

LEMMA RecentBefore ==
    ASSUME NEW row \in Row, NEW time \in Nat, Recent(row, Ttl, time + 1)
    PROVE  Recent(row, Ttl, time)
<1>1. Ttl \in Nat
  BY CheckerAssumption
<1> QED
  BY <1>1 DEF Recent, Row

LEMMA WalkTicker ==
    ASSUME PollInv, Typed, WalkInv, OnTicker
    PROVE  WalkInv'
<1>1. /\ now \in Nat /\ cycleStart \in Nat /\ cycleStart <= now /\ dbIndex \in Int /\ Numbered
      /\ polled \in Seq(Nat) /\ Len(polled) = now /\ now + 1 \in Nat
  BY DEF PollInv
<1>2. PICK id \in Nat :
         /\ id = NextServer(serverlist, dbIndex, Ttl, now + 1)
         /\ id # 0 => id > dbIndex /\ id \in DOMAIN serverlist
  BY <1>1, NextIsBehind
<1>3. \A k \in DOMAIN serverlist : k > dbIndex /\ Recent(serverlist[k], Ttl, now + 1)
         => id # 0 /\ id <= k
  BY <1>1, <1>2, NextIsFirst
<1>4. /\ now' = now + 1 /\ cycleStart' = cycleStart /\ nextReset' = nextReset
      /\ serverlist' = serverlist /\ polled' = Append(polled, id)
      /\ dbIndex' = IF id # 0 THEN id ELSE dbIndex
  BY <1>2 DEF OnTicker, Query, IndexOf, tables
<1>5. \A k \in DOMAIN serverlist : k \in Nat /\ serverlist[k] \in Row
  BY DEF Typed, Table
<1>6. (\A u \in 1 .. now : polled'[u] = polled[u]) /\ polled'[now + 1] = id
  BY <1>1, <1>2, <1>4
<1>7. ASSUME NEW k \in DOMAIN serverlist, Due(k)'
      PROVE  /\ Due(k) /\ Silent(serverlist[k]) /\ Recent(serverlist[k], Ttl, now + 1)
             /\ (k > dbIndex => id # 0 /\ id <= k)
  <2>1. Silent(serverlist[k]) /\ Recent(serverlist[k], Ttl, now + 1)
    BY <1>4, <1>7 DEF Due, Silent
  <2>2. Recent(serverlist[k], Ttl, now)
    BY <1>1, <1>5, <2>1, RecentBefore
  <2> QED
    BY <1>3, <2>1, <2>2 DEF Due
<1>8. ASSUME NEW k \in DOMAIN serverlist, Asked(k) PROVE Asked(k)'
  <2>1. PICK t \in (cycleStart + 1) .. now : polled[t] = k
    BY <1>8 DEF Asked
  <2>2. t \in (cycleStart' + 1) .. now' /\ t \in 1 .. now
    BY <1>1, <1>4
  <2> QED
    BY <1>6, <2>1, <2>2 DEF Asked
<1>9. id # 0 => Asked(id)'
  <2>1. now + 1 \in (cycleStart' + 1) .. now'
    BY <1>1, <1>4
  <2> QED
    BY <1>6, <2>1 DEF Asked
<1>10. ASSUME NEW k \in DOMAIN serverlist, Due(k)', ~Asked(k)' PROVE k > dbIndex'
  <2>1. k > dbIndex
    BY <1>7, <1>8, <1>10 DEF WalkInv
  <2>2. id # 0 /\ id <= k /\ id # k
    BY <1>7, <1>9, <1>10, <2>1
  <2> QED
    BY <1>2, <1>4, <1>5, <2>2
<1>11. \/ dbIndex' >= now' - cycleStart'
       \/ \A k \in DOMAIN serverlist : Due(k)' => k <= dbIndex'
  <2>1. CASE id = 0
    <3>1. \A k \in DOMAIN serverlist : Due(k)' => ~(k > dbIndex)
      BY <1>7, <2>1
    <3> QED
      BY <1>1, <1>4, <1>5, <2>1, <3>1
  <2>2. CASE id # 0
    <3>1. CASE now = cycleStart
      <4>1. id \in Nat /\ id > 0 /\ dbIndex' = id /\ now' - cycleStart' = 1
        BY <1>1, <1>2, <1>4, <2>2, <3>1
      <4> QED
        BY <4>1
    <3>2. CASE dbIndex >= now - cycleStart
      BY <1>1, <1>2, <1>4, <2>2, <3>2
    <3>3. CASE \A k \in DOMAIN serverlist : Due(k) => k <= dbIndex
      <4>1. \A k \in DOMAIN serverlist : Due(k)' => k <= dbIndex
        BY <1>7, <3>3
      <4> QED
        BY <1>1, <1>2, <1>4, <1>5, <2>2, <4>1
    <3> QED
      BY <3>1, <3>2, <3>3 DEF WalkInv
  <2> QED
    BY <2>1, <2>2
<1>12. now' # cycleStart'
  BY <1>1, <1>4
<1>13. nextReset' \in Nat /\ nextReset' - cycleStart' >= CycleTicks
  BY <1>4 DEF WalkInv
<1>14. \A k \in DOMAIN serverlist' : Due(k)' /\ ~Asked(k)' => k > dbIndex'
  BY <1>4, <1>10
<1>15. \/ dbIndex' >= now' - cycleStart'
       \/ \A k \in DOMAIN serverlist' : Due(k)' => k <= dbIndex'
  BY <1>4, <1>11
<1> QED
  BY <1>12, <1>13, <1>14, <1>15 DEF WalkInv

LEMMA WalkStep ==
    ASSUME PollInv, Typed, WalkInv, [Next]_vars
    PROVE  WalkInv'
<1>1. CASE OnTicker
  BY <1>1, WalkTicker
<1>2. CASE OnReset
  <2>1. /\ now' = now /\ cycleStart' = now /\ nextReset' = nextReset + CycleTicks /\ dbIndex' = -1
        /\ serverlist' = serverlist /\ now \in {nextReset - 1, nextReset}
    BY <1>2 DEF OnReset, ClearBuffers, tables
  <2>2. now \in Nat /\ nextReset \in Nat
    BY DEF PollInv, WalkInv
  <2>3. CycleTicks \in Nat
    BY CheckerAssumption
  <2>4. nextReset' \in Nat /\ nextReset' - cycleStart' >= CycleTicks
    BY <2>1, <2>2, <2>3
  <2>5. \A k \in DOMAIN serverlist' : k > dbIndex'
    BY <2>1 DEF Typed, Table
  <2> QED
    BY <2>1, <2>4, <2>5 DEF WalkInv
<1>3. CASE UNCHANGED <<now, cycleStart, nextReset, dbIndex, polled>>
  <2>1. /\ now \in Nat /\ cycleStart \in Nat /\ cycleStart <= now /\ dbIndex \in Int
    BY DEF PollInv
  <2>2. CASE now = cycleStart
    <3>1. serverlist' \in Table
      BY TypedNext DEF Typed
    <3>2. \A k \in DOMAIN serverlist' : k > dbIndex'
      BY <1>3, <2>2, <3>1 DEF WalkInv, Table
    <3>3. nextReset' \in Nat /\ nextReset' - cycleStart' >= CycleTicks /\ now' = cycleStart' /\ dbIndex' = -1
      BY <1>3, <2>2 DEF WalkInv
    <3> QED
      BY <3>2, <3>3 DEF WalkInv
  <2>3. CASE now # cycleStart
    <3>1. ASSUME NEW k \in DOMAIN serverlist', Due(k)'
          PROVE  k \in DOMAIN serverlist /\ Due(k)
      <4>1. CASE serverlist'[k].dt_updated = now
        BY <1>3, <2>1, <2>3, <3>1, <4>1 DEF Due, Silent
      <4>2. CASE k \in DOMAIN serverlist /\ serverlist'[k] = serverlist[k]
        BY <1>3, <3>1, <4>2 DEF Due, Silent
      <4> QED
        BY <4>1, <4>2, RowsHeard
    <3>2. \A k : Asked(k) => Asked(k)'
      BY <1>3 DEF Asked
    <3>3. \A k \in DOMAIN serverlist' : Due(k)' /\ ~Asked(k)' => k > dbIndex'
      BY <1>3, <3>1, <3>2 DEF WalkInv
    <3>4. \/ dbIndex' >= now' - cycleStart'
          \/ \A k \in DOMAIN serverlist' : Due(k)' => k <= dbIndex'
      BY <1>3, <2>3, <3>1 DEF WalkInv
    <3>5. nextReset' \in Nat /\ nextReset' - cycleStart' >= CycleTicks /\ now' # cycleStart'
      BY <1>3, <2>3 DEF WalkInv
    <3> QED
      BY <3>3, <3>4, <3>5 DEF WalkInv
  <2> QED
    BY <2>2, <2>3
<1> QED
  BY <1>1, <1>2, <1>3 DEF Next, ReadFinal, ReadFragment, ReadValidate, Take, Horizon, vars, Lose,
                          Deliver, clocks

\* With a tick for every address that can have a row, a cycle does not end before each
\* live server that was silent in it has been asked, wherever the walk stood when rows
\* were added, renewed or expired, and whichever of the two timers came first.
THEOREM CycleCoversAllHolds == ASSUME EnoughTicks PROVE Spec => CycleCoversAll
<1>1. Init => FromKnown /\ WalkInv
  BY KnownInit, WalkInit
<1>2. PollInv /\ Typed /\ FromKnown /\ WalkInv /\ [Next]_vars => FromKnown' /\ WalkInv'
  BY KnownStep, WalkStep
<1>3. ~failed /\ PollInv /\ Typed /\ UniqueAddress /\ FromKnown /\ WalkInv /\ [Next]_vars
         => [cycleStart' # cycleStart => \A id \in DOMAIN serverlist :
                Silent(serverlist[id]) /\ Recent(serverlist[id], Ttl, now)
                   => \E t \in (cycleStart + 1) .. now : polled[t] = id]_vars
  <2> SUFFICES ASSUME ~failed, PollInv, Typed, UniqueAddress, FromKnown, WalkInv, [Next]_vars,
                      cycleStart' # cycleStart, NEW id \in DOMAIN serverlist, Due(id), ~Asked(id)
               PROVE  FALSE
    BY SMTT(30) DEF Due, Asked
  <2>1. OnReset
    BY DEF Next, OnTicker, ReadFinal, ReadFragment, ReadValidate, Take, Horizon, vars, Lose,
           Deliver, clocks
  <2>2. now \in {nextReset - 1, nextReset}
    BY <2>1 DEF OnReset
  <2>3. /\ nextReset \in Nat /\ nextReset - cycleStart >= CycleTicks /\ id > dbIndex
        /\ \/ now = cycleStart
           \/ dbIndex >= now - cycleStart
    BY DEF WalkInv, PollInv, Typed, Table
  <2>4. now \in Nat /\ cycleStart \in Nat /\ dbIndex \in Int /\ id \in Nat
    BY DEF PollInv, Typed, Table
  <2>5. CycleTicks \in Nat /\ CycleTicks > 1
    <3>1. CycleTicks \in Nat \ {0, 1}
      BY CheckerAssumption
    <3> QED
      BY <3>1
  <2>6. Cardinality(Known) \in Nat /\ id <= Cardinality(Known)
    BY RowsBounded DEF UniqueAddress, EnoughTicks
  <2>7. Cardinality(Known) < CycleTicks
    BY DEF EnoughTicks
  <2>8. now - cycleStart >= CycleTicks - 1
    BY <2>2, <2>3, <2>4, <2>5
  <2> QED
    BY <2>3, <2>4, <2>5, <2>6, <2>7, <2>8
<1>4. Spec => []~failed
  BY NeverFails DEF EnoughTicks
<1> QED
  BY <1>1, <1>2, <1>3, PollInvariant, TypedInvariant, UniqueAddressHolds, <1>4, PTL
  DEF Spec, CycleCoversAll
=============================================================================
