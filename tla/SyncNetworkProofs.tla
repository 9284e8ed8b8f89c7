-------------------------- MODULE SyncNetworkProofs --------------------------
(***************************************************************************)
(* Every peer is contacted within one interval, and a server that stopped  *)
(* is forgotten, for any number of masterservers, peers and servers.       *)
(***************************************************************************)
EXTENDS SyncNetwork, SharedProofs, FiniteSetTheorems

\* When the walk of m that is under way, or the last one, began.
WalkStart(m) == updater[m] - Interval

\* Timers and clock never pass each other; while the ticker runs it is one grace
\* time ahead of the last contact.
TimersOK(m) ==
    /\ now \in Nat /\ updater[m] \in Nat /\ ticker[m] \in Nat \cup {NoTimer}
    /\ syncIndex[m] \in 0 .. Len(Peers[m])
    /\ now <= updater[m] /\ WalkStart(m) <= now
    /\ ticker[m] # NoTimer =>
           ticker[m] = WalkStart(m) + 1 + syncIndex[m] /\ now <= ticker[m]
    /\ ticker[m] = NoTimer => syncIndex[m] = Len(Peers[m])

\* The peers before the index were contacted in this walk, each at its turn; the
\* others at the earliest at their turn of the walk before.
ContactsOK(m) ==
    /\ contacted[m] \in [1 .. Len(Peers[m]) -> Int]
    /\ \A i \in 1 .. Len(Peers[m]) :
           IF i <= syncIndex[m] THEN contacted[m][i] = WalkStart(m) + i
           ELSE contacted[m][i] >= WalkStart(m) - Interval + i

Shape ==
    /\ updater \in [Masters -> Nat] /\ ticker \in [Masters -> Nat \cup {NoTimer}]
    /\ syncIndex \in [Masters -> Nat] /\ DOMAIN contacted = Masters
    /\ contacted = [m \in Masters |-> contacted[m]]

WalkInv == Shape /\ \A m \in Masters : TimersOK(m) /\ ContactsOK(m)

LEMMA PeersType ==
    ASSUME NEW m \in Masters
    PROVE  /\ Len(Peers[m]) \in Nat /\ DOMAIN Peers[m] = 1 .. Len(Peers[m])
           /\ Interval \in Nat /\ Interval > Len(Peers[m])
<1>1. Peers[m] \in Seq(STRING) BY NetworkAssumption
<1>2. Interval > Len(Peers[m]) BY NetworkAssumption
<1> QED BY <1>1, <1>2, NetworkAssumption

LEMMA WalkInit == Init => WalkInv
<1> SUFFICES ASSUME Init PROVE WalkInv OBVIOUS
<1>1. Interval \in Nat BY NetworkAssumption
<1>2. Shape BY <1>1 DEF Init, Shape, Started
<1>3. ASSUME NEW m \in Masters PROVE TimersOK(m) /\ ContactsOK(m)
  <2>1. contacted[m] = [i \in 1 .. Len(Peers[m]) |-> 0]
    BY PeersType DEF Init, Started
  <2>2. TimersOK(m) BY PeersType DEF Init, TimersOK, WalkStart, NoTimer
  <2>3. ContactsOK(m) BY <2>1, PeersType DEF Init, ContactsOK, WalkStart
  <2> QED BY <2>2, <2>3
<1> QED BY <1>2, <1>3 DEF WalkInv

\* A step that leaves the updater of m alone keeps its part of the invariant.
LEMMA Undisturbed ==
    ASSUME NEW m \in Masters, TimersOK(m), ContactsOK(m),
           now' = now, updater'[m] = updater[m], ticker'[m] = ticker[m],
           syncIndex'[m] = syncIndex[m], contacted'[m] = contacted[m]
    PROVE  TimersOK(m)' /\ ContactsOK(m)'
<1>1. TimersOK(m)' BY DEF TimersOK, WalkStart
<1>2. ContactsOK(m)' BY DEF ContactsOK, WalkStart
<1> QED BY <1>1, <1>2

LEMMA WalkTick == WalkInv /\ Tick => WalkInv'
<1> SUFFICES ASSUME WalkInv, Tick PROVE WalkInv' OBVIOUS
<1>1. UNCHANGED <<syncIndex, ticker, updater, contacted>> BY DEF Tick, timers
<1>2. Shape' BY <1>1 DEF WalkInv, Shape
<1>3. ASSUME NEW m \in Masters PROVE TimersOK(m)' /\ ContactsOK(m)'
  <2>1. TimersOK(m) /\ ContactsOK(m) BY DEF WalkInv
  <2>2. now # updater[m] /\ (ticker[m] # NoTimer => now # ticker[m]) /\ now' = now + 1
    BY DEF Tick, Due
  <2>3. TimersOK(m)' BY <1>1, <2>1, <2>2, PeersType DEF TimersOK, WalkStart
  <2>4. ContactsOK(m)' BY <1>1, <2>1 DEF ContactsOK, WalkStart
  <2> QED BY <2>3, <2>4
<1> QED BY <1>2, <1>3 DEF WalkInv

\* A walk begins when the one before has passed all peers.
LEMMA WalkUpdater ==
    ASSUME WalkInv, NEW m \in Masters, OnUpdaterTimer(m)
    PROVE  WalkInv'
<1>0. /\ updater[m] = now /\ now' = now /\ contacted' = contacted
      /\ syncIndex' = [syncIndex EXCEPT ![m] = 0]
      /\ ticker' = [ticker EXCEPT ![m] = now + 1]
      /\ updater' = [updater EXCEPT ![m] = now + Interval]
  BY DEF OnUpdaterTimer, StartWalk
<1>1. /\ now \in Nat /\ Interval \in Nat
  BY NetworkAssumption DEF WalkInv, TimersOK
<1>2. Shape' BY <1>0, <1>1 DEF WalkInv, Shape
<1>3. ASSUME NEW n \in Masters PROVE TimersOK(n)' /\ ContactsOK(n)'
  <2>0. TimersOK(n) /\ ContactsOK(n) /\ Shape BY DEF WalkInv
  <2>1. CASE n # m
    BY <1>0, <2>0, <2>1, Undisturbed DEF Shape
  <2>2. CASE n = m
    <3>1. syncIndex'[m] = 0 /\ ticker'[m] = now + 1 /\ updater'[m] = now + Interval
      BY <1>0, <2>0 DEF Shape
    <3>2. syncIndex[m] = Len(Peers[m])
      BY <1>0, <2>0, <2>2, PeersType DEF TimersOK, WalkStart
    <3>3. TimersOK(m)' BY <1>0, <1>1, <3>1, PeersType DEF TimersOK, WalkStart, NoTimer
    <3>4. ContactsOK(m)'
      BY <1>0, <1>1, <2>0, <2>2, <3>1, <3>2, PeersType DEF ContactsOK, WalkStart
    <3> QED BY <2>2, <3>3, <3>4
  <2> QED BY <2>1, <2>2
<1> QED BY <1>2, <1>3 DEF WalkInv

LEMMA WalkTicker ==
    ASSUME WalkInv, NEW m \in Masters, OnSyncTickerAction(m)
    PROVE  WalkInv'
<1>0. ticker[m] = now /\ now' = now /\ updater' = updater BY DEF OnSyncTickerAction
<1>1. TimersOK(m) /\ ContactsOK(m) /\ Shape BY DEF WalkInv
<1>2. now \in Nat /\ now # NoTimer BY <1>1 DEF TimersOK, NoTimer
<1>3. CASE EntryLeft(m)
  <2>1. /\ syncIndex' = [syncIndex EXCEPT ![m] = @ + 1]
        /\ ticker' = [ticker EXCEPT ![m] = now + 1]
        /\ contacted' = [contacted EXCEPT ![m][syncIndex[m] + 1] = now]
    BY <1>3 DEF OnSyncTickerAction
  <2>2. Shape'
    <3>1. syncIndex' \in [Masters -> Nat] BY <1>1, <2>1 DEF Shape
    <3>2. ticker' \in [Masters -> Nat \cup {NoTimer}] BY <1>1, <1>2, <2>1 DEF Shape
    <3>3. updater' \in [Masters -> Nat] BY <1>0, <1>1 DEF Shape
    <3>4. DOMAIN contacted' = Masters /\ contacted' = [x \in Masters |-> contacted'[x]]
      BY <1>1, <2>1 DEF Shape
    <3> QED BY <3>1, <3>2, <3>3, <3>4 DEF Shape
  <2>3. ASSUME NEW n \in Masters PROVE TimersOK(n)' /\ ContactsOK(n)'
    <3>0. TimersOK(n) /\ ContactsOK(n) BY DEF WalkInv
    <3>1. CASE n # m
      BY <1>0, <1>1, <2>1, <3>0, <3>1, Undisturbed DEF Shape
    <3>2. CASE n = m
      <4>1. /\ syncIndex'[m] = syncIndex[m] + 1 /\ ticker'[m] = now + 1
            /\ contacted'[m] = [contacted[m] EXCEPT ![syncIndex[m] + 1] = now]
            /\ updater'[m] = updater[m]
        BY <1>0, <1>1, <2>1 DEF Shape
      <4>2. syncIndex[m] < Len(Peers[m]) BY <1>3 DEF EntryLeft
      <4>3. now = WalkStart(m) + syncIndex[m] + 1
        BY <1>0, <1>1, <1>2, PeersType DEF TimersOK, WalkStart
      <4>4. TimersOK(m)'
        <5>1. WalkStart(m)' = WalkStart(m) BY <4>1 DEF WalkStart
        <5>2. syncIndex'[m] \in 0 .. Len(Peers[m])
          BY <1>1, <4>1, <4>2, PeersType DEF TimersOK
        <5>3. now + 1 # NoTimer BY <1>2 DEF NoTimer
        <5>4. /\ WalkStart(m) \in Int /\ syncIndex[m] \in Nat /\ updater[m] \in Nat
              /\ WalkStart(m) <= now /\ now <= updater[m]
          BY <1>1, PeersType DEF TimersOK, WalkStart
        <5>5. ticker'[m] = WalkStart(m)' + 1 + syncIndex'[m] /\ now' <= ticker'[m]
          BY <1>0, <1>2, <4>1, <4>3, <5>1, <5>4
        <5>6. ticker'[m] \in Nat /\ ticker'[m] # NoTimer BY <1>2, <4>1, <5>3
        <5> QED BY <1>0, <1>2, <4>1, <5>1, <5>2, <5>4, <5>5, <5>6 DEF TimersOK
      <4>5. ContactsOK(m)'
        <5>0. WalkStart(m)' = WalkStart(m) BY <4>1 DEF WalkStart
        <5>1. contacted'[m] \in [1 .. Len(Peers[m]) -> Int]
          <6>1. now \in Int BY <1>2
          <6>2. contacted[m] \in [1 .. Len(Peers[m]) -> Int] BY <1>1 DEF ContactsOK
          <6> QED BY <4>1, <6>1, <6>2
        <5>2. ASSUME NEW i \in 1 .. Len(Peers[m])
              PROVE  IF i <= syncIndex'[m] THEN contacted'[m][i] = WalkStart(m)' + i
                     ELSE contacted'[m][i] >= WalkStart(m)' - Interval + i
          <6>1. /\ contacted[m] \in [1 .. Len(Peers[m]) -> Int]
                /\ syncIndex[m] \in Nat /\ i \in Nat /\ WalkStart(m) \in Int /\ Interval \in Nat
            BY <1>1, PeersType DEF ContactsOK, TimersOK, WalkStart
          <6>2. CASE i = syncIndex[m] + 1
            BY <1>2, <4>1, <4>3, <5>0, <6>1, <6>2
          <6>3. CASE i # syncIndex[m] + 1
            <7>1. contacted'[m][i] = contacted[m][i] BY <4>1, <6>1, <6>3
            <7>2. IF i <= syncIndex[m] THEN contacted[m][i] = WalkStart(m) + i
                  ELSE contacted[m][i] >= WalkStart(m) - Interval + i
              BY <1>1 DEF ContactsOK
            <7> QED BY <4>1, <5>0, <6>1, <6>3, <7>1, <7>2
          <6> QED BY <6>2, <6>3
        <5> QED BY <5>1, <5>2 DEF ContactsOK
      <4> QED BY <3>2, <4>4, <4>5
    <3> QED BY <3>1, <3>2
  <2> QED BY <2>2, <2>3 DEF WalkInv
<1>4. CASE ~EntryLeft(m)
  <2>1. /\ ticker' = [ticker EXCEPT ![m] = NoTimer]
        /\ syncIndex' = syncIndex /\ contacted' = contacted
    BY <1>4 DEF OnSyncTickerAction
  <2>2. Shape' BY <1>0, <1>1, <2>1 DEF Shape, NoTimer
  <2>3. ASSUME NEW n \in Masters PROVE TimersOK(n)' /\ ContactsOK(n)'
    <3>0. TimersOK(n) /\ ContactsOK(n) BY DEF WalkInv
    <3>1. CASE n # m
      BY <1>0, <1>1, <2>1, <3>0, <3>1, Undisturbed DEF Shape
    <3>2. CASE n = m
      <4>1. ticker'[m] = NoTimer BY <1>1, <2>1 DEF Shape
      <4>2. TimersOK(m)'
        BY <1>0, <1>1, <1>4, <2>1, <4>1, PeersType DEF TimersOK, WalkStart, EntryLeft
      <4>3. ContactsOK(m)' BY <1>0, <1>1, <2>1 DEF ContactsOK, WalkStart
      <4> QED BY <3>2, <4>2, <4>3
    <3> QED BY <3>1, <3>2
  <2> QED BY <2>2, <2>3 DEF WalkInv
<1> QED BY <1>3, <1>4

LEMMA WalkRestart ==
    ASSUME WalkInv, NEW m \in Masters, Restart(m)
    PROVE  WalkInv'
<1>0. /\ now' = now
      /\ syncIndex' = [syncIndex EXCEPT ![m] = 0]
      /\ ticker' = [ticker EXCEPT ![m] = now + 1]
      /\ updater' = [updater EXCEPT ![m] = now + Interval]
      /\ contacted' = [contacted EXCEPT ![m] = Started(m)]
  BY DEF Restart
<1>1. /\ now \in Nat /\ Interval \in Nat /\ Shape
  BY NetworkAssumption DEF WalkInv, TimersOK
<1>2. Shape' BY <1>0, <1>1 DEF Shape
<1>3. ASSUME NEW n \in Masters PROVE TimersOK(n)' /\ ContactsOK(n)'
  <2>0. TimersOK(n) /\ ContactsOK(n) BY DEF WalkInv
  <2>1. CASE n # m
    BY <1>0, <1>1, <2>0, <2>1, Undisturbed DEF Shape
  <2>2. CASE n = m
    <3>1. /\ syncIndex'[m] = 0 /\ ticker'[m] = now + 1 /\ updater'[m] = now + Interval
          /\ contacted'[m] = [i \in 1 .. Len(Peers[m]) |-> now]
      BY <1>0, <1>1, PeersType DEF Shape, Started
    <3>2. TimersOK(m)' BY <1>0, <1>1, <3>1, PeersType DEF TimersOK, WalkStart, NoTimer
    <3>3. ContactsOK(m)' BY <1>0, <1>1, <3>1, PeersType DEF ContactsOK, WalkStart
    <3> QED BY <2>2, <3>2, <3>3
  <2> QED BY <2>1, <2>2
<1> QED BY <1>2, <1>3 DEF WalkInv

\* Servers and exchanges do not touch the updater.
LEMMA WalkUntouched ==
    ASSUME WalkInv, UNCHANGED <<now, timers, contacted>>
    PROVE  WalkInv'
<1>1. UNCHANGED <<now, syncIndex, ticker, updater, contacted>> BY DEF timers
<1>2. Shape' BY <1>1 DEF WalkInv, Shape
<1>3. ASSUME NEW m \in Masters PROVE TimersOK(m)' /\ ContactsOK(m)'
  BY <1>1, Undisturbed DEF WalkInv
<1> QED BY <1>2, <1>3 DEF WalkInv

LEMMA WalkStep == WalkInv /\ [Next]_vars => WalkInv'
<1> SUFFICES ASSUME WalkInv, [Next]_vars PROVE WalkInv' OBVIOUS
<1>1. CASE Tick BY <1>1, WalkTick
<1>2. ASSUME NEW m \in Masters, OnUpdaterTimer(m) PROVE WalkInv' BY <1>2, WalkUpdater
<1>3. ASSUME NEW m \in Masters, OnSyncTickerAction(m) PROVE WalkInv' BY <1>3, WalkTicker
<1>4. ASSUME NEW m \in Masters, Restart(m) PROVE WalkInv' BY <1>4, WalkRestart
<1>5. ASSUME NEW m \in Masters, NEW a \in Address, Hear(m, a) PROVE WalkInv'
  BY <1>5, WalkUntouched DEF Hear
<1>6. ASSUME NEW x \in exchanges, Compose(x) \/ Apply(x) \/ Fail(x) PROVE WalkInv'
  <2>1. UNCHANGED <<now, timers, contacted>> BY <1>6 DEF Compose, Apply, Fail
  <2> QED BY <2>1, WalkUntouched
<1>7. CASE UNCHANGED vars
  <2>1. UNCHANGED <<now, timers, contacted>> BY <1>7 DEF vars
  <2> QED BY <2>1, WalkUntouched
<1> QED BY <1>1, <1>2, <1>3, <1>4, <1>5, <1>6, <1>7 DEF Next, Horizon

LEMMA WalkBound == WalkInv => EveryPeerContacted
<1> SUFFICES ASSUME WalkInv, NEW m \in Masters, NEW i \in DOMAIN Peers[m]
             PROVE  now - contacted[m][i] <= Interval
  BY DEF EveryPeerContacted
<1>1. TimersOK(m) /\ ContactsOK(m) /\ i \in 1 .. Len(Peers[m]) BY PeersType DEF WalkInv
<1>2. CASE i <= syncIndex[m]
  BY SMTT(30), <1>1, <1>2, PeersType DEF TimersOK, ContactsOK, WalkStart
<1>3. CASE ~(i <= syncIndex[m])
  <2>1. ticker[m] # NoTimer BY <1>1, <1>3, PeersType DEF TimersOK
  <2>2. now <= WalkStart(m) + 1 + syncIndex[m] BY <1>1, <2>1 DEF TimersOK
  <2>3. contacted[m][i] >= WalkStart(m) - Interval + i /\ contacted[m][i] \in Int
    BY <1>1, <1>3 DEF ContactsOK
  <2>4. i >= syncIndex[m] + 1 /\ now \in Nat /\ WalkStart(m) \in Int
    BY <1>1, <1>3, PeersType DEF TimersOK, WalkStart
  <2> QED BY <1>1, <2>2, <2>3, <2>4, PeersType DEF TimersOK
<1> QED BY <1>2, <1>3

\* Every configured peer is contacted within one interval after the last contact or
\* the start, for any number of masterservers, peers and restarts, as long as the
\* interval has more grace times than there are peers.
THEOREM EveryPeerContactedHolds == Spec => []EveryPeerContacted
<1>1. Spec => []WalkInv BY WalkInit, WalkStep, PTL DEF Spec
<1> QED BY <1>1, WalkBound, PTL
-----------------------------------------------------------------------------
(* Lists and tables.                                                       *)

\* What one list does to a table, whatever its length.
LEMMA StoreListSynced ==
    ASSUME NEW t \in Table, NEW order \in Seq(Address), now \in Nat
    PROVE  Synced(t, StoreList(t, order), order, [k \in 1 .. Len(order) |-> GameOf[order[k]]],
                  Len(order), now)
<1> DEFINE n == Len(order)
           g == [k \in 1 .. n |-> GameOf[order[k]]]
           step == [k \in 1 .. n |-> [u \in Table |-> SyncServer(u, order[k], g[k], now)]]
           eq(iter) == iter = [s \in SUBSET (1 .. n) |-> IF s = {} THEN t
                     ELSE SyncServer(iter[s \ {Max(s)}], order[Max(s)], GameOf[order[Max(s)]], now)]
<1>1. /\ n \in Nat /\ DOMAIN order = 1 .. n /\ order \in [1 .. n -> Address]
      /\ g \in [1 .. n -> GameName]
  BY NetworkAssumption
<1>2. StoreList(t, order) = (CHOOSE iter : eq(iter))[1 .. n]
  <2>1. StoreList(t, order) = (CHOOSE iter : iter = [s \in SUBSET DOMAIN order |-> IF s = {} THEN t
                     ELSE SyncServer(iter[s \ {Max(s)}], order[Max(s)], GameOf[order[Max(s)]], now)])[DOMAIN order]
    BY DEF StoreList, FoldLeft, MapThenFoldSet
  <2> QED
    BY <1>1, <2>1
<1>3. \E iter : eq(iter)
  <2>1. step \in [1 .. n -> [Table -> Table]]
    <3>1. \A k \in 1 .. n : order[k] \in Address /\ g[k] \in GameName
      BY <1>1
    <3>2. \A k \in 1 .. n, u \in Table : SyncServer(u, order[k], g[k], now) \in Table
      BY <3>1, SyncServerInTable
    <3> HIDE DEF n, g
    <3> QED
      BY <3>2
  <2>2. PICK iter : FoldsUpTo(iter, Table, t, step, n)
    <3> HIDE DEF step, n
    <3> QED
      BY <1>1, <2>1, FoldExists
  <2>3. ASSUME NEW s \in SUBSET (1 .. n), s # {}
        PROVE  step[Max(s)][iter[s \ {Max(s)}]]
                 = SyncServer(iter[s \ {Max(s)}], order[Max(s)], GameOf[order[Max(s)]], now)
    <3>1. Max(s) \in s
      BY <1>1, <2>3, MaxIsHighest
    <3>2. Max(s) \in 1 .. n /\ s \ {Max(s)} \in SUBSET (1 .. n)
      BY <3>1
    <3>3. iter[s \ {Max(s)}] \in Table
      BY <2>2, <3>2 DEF FoldsUpTo
    <3> QED
      BY <3>2, <3>3
  <2>4. eq(iter)
    <3> HIDE DEF step, n
    <3> QED
      BY <2>2, <2>3 DEF FoldsUpTo
  <2> QED
    BY <2>4
<1> DEFINE f == CHOOSE iter : eq(iter)
           r == [k \in 0 .. n |-> f[1 .. k]]
<1>4. eq(f)
  <2> HIDE DEF eq
  <2> QED
    BY <1>3
<1> HIDE DEF f
<1>5. r[0] = t
  <2>1. 1 .. 0 = {} /\ 0 \in 0 .. n
    BY <1>1
  <2> QED
    BY <1>4, <2>1
<1>6. ASSUME NEW k \in 1 .. n PROVE r[k] = SyncServer(r[k - 1], order[k], g[k], now)
  <2>1. k \in 0 .. n /\ k - 1 \in 0 .. n /\ k # 0
    BY <1>1
  <2>2. /\ 1 .. k \in SUBSET (1 .. n) /\ 1 .. k # {} /\ Max(1 .. k) = k
        /\ (1 .. k) \ {k} = 1 .. k - 1
    BY <1>1, <2>1, FoldSteps
  <2>3. f[1 .. k] = SyncServer(f[(1 .. k) \ {k}], order[k], GameOf[order[k]], now)
    BY <1>4, <2>2
  <2> QED
    BY <2>1, <2>2, <2>3
<1>7. Synced(t, r[n], order, g, n, now)
  <2> HIDE DEF n, g, r
  <2> QED
    BY <1>1, <1>5, <1>6, SyncChain
<1>8. r[n] = StoreList(t, order)
  BY <1>1, <1>2 DEF f
<1> QED
  BY <1>7, <1>8

LEMMA ListedIsFinite ==
    ASSUME NEW m \in Masters, table[m] \in Table
    PROVE  Listed(m) \in SUBSET Address /\ IsFiniteSet(Listed(m))
<1> DEFINE t == table[m]
           f == [id \in DOMAIN t |-> t[id].addr]
           S == {t[id].addr : id \in DOMAIN t}
<1>1. Len(t) \in Nat /\ DOMAIN t = 1 .. Len(t) /\ \A id \in DOMAIN t : t[id] \in Row
  BY DEF Table
<1>2. IsFiniteSet(DOMAIN t)
  BY <1>1, FS_Interval
<1>3. IsFiniteSet(S)
  <2>1. f \in Surjection(DOMAIN t, S)
    BY DEF Surjection
  <2> QED
    BY <1>2, <2>1, FS_Surjection DEF ExistsSurjection
<1>4. Listed(m) \subseteq S
  BY DEF Listed, SelectServerList
<1>5. S \subseteq Address
  BY <1>1 DEF Row
<1> QED
  BY <1>3, <1>4, <1>5, FS_Subset

\* The lines of a list are at most Ttl - 1 old.
LEMMA ListedIsRecent ==
    ASSUME NEW m \in Masters, NEW a \in Listed(m)
    PROVE  \E id \in RowsOf(table[m], a) : table[m][id].dt_updated > now - Ttl
  BY DEF Listed, SelectServerList, RowsOf

LEMMA OrderIsSequence ==
    ASSUME NEW S \in SUBSET Address, IsFiniteSet(S), NEW order \in SetToSeqs(S)
    PROVE  order \in Seq(Address) /\ \A k \in 1 .. Len(order) : order[k] \in S
<1>1. Cardinality(S) \in Nat
  BY FS_CardinalityType
<1>2. order \in [1 .. Cardinality(S) -> S]
  BY DEF SetToSeqs
<1>3. order \in Seq(Address) /\ Len(order) = Cardinality(S)
  BY <1>1, <1>2
<1> QED
  BY <1>2, <1>3
-----------------------------------------------------------------------------
(* A server that stopped.                                                  *)

\* The masterservers that have a row for a.
Holders(a) == {m \in Masters : ExistServer(table[m], a)}

\* The last time at which a row for a may be refreshed when nobody hears from a any
\* more.  It moves when a is heard from, or by one hop when one more masterserver
\* inserts a: that happens once for each of them, rows are never deleted.
Allowance == [a \in Address |-> heard[a] + Cardinality(Holders(a)) * HopTime]

DataOK ==
    /\ now \in Nat /\ restarts \in Nat
    /\ table \in [Masters -> Table]
    /\ heard \in [Address -> Int] /\ \A a \in Address : heard[a] <= now
    /\ exchanges \subseteq Exchange /\ \A x \in exchanges : IsFiniteSet(x.list)

\* A row that another masterserver may still be told of leaves it a hop.
RowOK(row, allowance) ==
    /\ row.dt_updated + HopTime <= allowance[row.addr]
    /\ row.dt_sync <= allowance[row.addr]

RowsOK == \A m \in Masters : \A id \in DOMAIN table[m] : RowOK(table[m][id], Allowance)

\* An exchange is over before the allowance of the servers it lists.
ExchangeOK(x) ==
    /\ x.since <= now /\ now <= x.since + MaxDelay
    /\ \A a \in x.list : x.since + MaxDelay <= Allowance[a]

StaleInv == DataOK /\ RowsOK /\ \A x \in exchanges : ExchangeOK(x)

LEMMA HopTimeType == HopTime \in Nat /\ HopTime = Ttl - 1 + MaxDelay /\ Ttl \in Nat /\ MaxDelay \in Nat
  BY NetworkAssumption DEF HopTime

LEMMA HoldersFinite ==
    \A a : /\ IsFiniteSet(Holders(a)) /\ Cardinality(Holders(a)) \in Nat
           /\ Cardinality(Holders(a)) <= Cardinality(Masters)
           /\ Cardinality(Masters) \in Nat
<1> TAKE a
<1>1. Holders(a) \subseteq Masters /\ IsFiniteSet(Masters)
  BY NetworkAssumption DEF Holders
<1> QED
  BY <1>1, FS_Subset, FS_CardinalityType

LEMMA Multiples ==
    ASSUME NEW i \in Nat, NEW j \in Nat, i <= j, NEW h \in Nat
    PROVE  i * h \in Nat /\ j * h \in Nat /\ i * h <= j * h /\ (i + 1) * h = i * h + h
<1>1. PICK d \in Nat : j = i + d
  <2>1. j - i \in Nat /\ j = i + (j - i)
    OBVIOUS
  <2> QED
    BY <2>1
<1>2. i * h \in Nat /\ d * h \in Nat /\ j * h \in Nat
  OBVIOUS
<1>3. j * h = i * h + d * h
  BY <1>1, <1>2
<1> QED
  BY <1>2, <1>3

\* Allowances are never taken back, and the insertion at m adds a hop.
LEMMA AllowanceGrows ==
    ASSUME NEW a \in Address, heard \in [Address -> Int], heard' \in [Address -> Int],
           heard[a] <= heard'[a], Holders(a) \subseteq Holders(a)'
    PROVE  /\ Allowance[a] \in Int /\ Allowance'[a] \in Int
           /\ Allowance[a] <= Allowance'[a]
           /\ heard'[a] <= Allowance'[a]
           /\ Holders(a)' # {} => heard'[a] + HopTime <= Allowance'[a]
           /\ \A m \in Holders(a)' \ Holders(a) : Allowance[a] + HopTime <= Allowance'[a]
<1> DEFINE i == Cardinality(Holders(a))
           j == Cardinality(Holders(a)')
<1>1. /\ i \in Nat /\ IsFiniteSet(Holders(a))
  BY HoldersFinite
<1>2. Holders(a)' \subseteq Masters /\ IsFiniteSet(Masters)
  BY NetworkAssumption DEF Holders
<1>3. IsFiniteSet(Holders(a)') /\ j \in Nat
  BY <1>2, FS_Subset, FS_CardinalityType
<1>4. i <= j
  BY <1>3, FS_Subset
<1>5. Holders(a)' # {} => 1 <= j
  BY <1>3, FS_EmptySet
<1>6. ASSUME NEW m \in Holders(a)' \ Holders(a) PROVE i + 1 <= j
  <2>1. Holders(a) \cup {m} \subseteq Holders(a)'
    OBVIOUS
  <2>2. Cardinality(Holders(a) \cup {m}) = i + 1
    BY <1>1, FS_AddElement
  <2> QED
    BY <1>3, <2>1, <2>2, FS_Subset
<1>7. /\ Allowance[a] = heard[a] + i * HopTime /\ Allowance'[a] = heard'[a] + j * HopTime
      /\ heard[a] \in Int /\ heard'[a] \in Int
  BY DEF Allowance, HopTime
<1> HIDE DEF i, j
<1>8. /\ i * HopTime \in Nat /\ j * HopTime \in Nat /\ i * HopTime <= j * HopTime
      /\ i + 1 <= j => i * HopTime + HopTime <= j * HopTime
      /\ 1 <= j => HopTime <= j * HopTime
  <2>1. /\ i * HopTime \in Nat /\ j * HopTime \in Nat /\ i * HopTime <= j * HopTime
        /\ (i + 1) * HopTime = i * HopTime + HopTime
    BY <1>1, <1>3, <1>4, HopTimeType, Multiples
  <2>2. i + 1 <= j => (i + 1) * HopTime <= j * HopTime
    <3>1. i + 1 \in Nat
      BY <1>1
    <3> QED
      BY <1>3, <3>1, HopTimeType, Multiples
  <2>3. 1 <= j => 1 * HopTime <= j * HopTime
    <3>1. 1 \in Nat
      OBVIOUS
    <3> QED
      BY <1>3, <3>1, HopTimeType, Multiples
  <2>4. 1 * HopTime = HopTime
    BY HopTimeType
  <2> QED
    BY <2>1, <2>2, <2>3, <2>4
<1> QED
  BY <1>5, <1>6, <1>7, <1>8, HopTimeType

LEMMA StaleInit == Init => StaleInv
<1> SUFFICES ASSUME Init PROVE StaleInv
  OBVIOUS
<1>1. << >> \in Table
  BY DEF Table
<1>2. DataOK
  BY <1>1 DEF Init, DataOK
<1>3. RowsOK
  <2>1. \A m \in Masters : DOMAIN table[m] = {}
    BY DEF Init
  <2> QED
    BY <2>1 DEF RowsOK
<1>4. exchanges = {}
  BY DEF Init
<1> QED
  BY <1>2, <1>3, <1>4 DEF StaleInv

\* Nothing is stored: the clock, the updater, the end of an exchange, a list composed.
LEMMA StaleNothingStored ==
    ASSUME StaleInv, UNCHANGED <<table, heard>>, restarts' \in Nat, now' \in Nat, now <= now',
           exchanges' \subseteq Exchange,
           \A x \in exchanges' : IsFiniteSet(x.list) /\ ExchangeOK(x)'
    PROVE  StaleInv'
<1>1. Allowance' = Allowance
  BY DEF Allowance, Holders, HopTime
<1>2. now \in Nat /\ \A a \in Address : heard[a] \in Int /\ heard[a] <= now
  BY DEF StaleInv, DataOK
<1>3. DataOK'
  BY <1>2 DEF StaleInv, DataOK
<1>4. RowsOK'
  BY <1>1 DEF StaleInv, RowsOK, RowOK, HopTime
<1> QED
  BY <1>3, <1>4 DEF StaleInv

LEMMA ExchangeStays ==
    ASSUME NEW x, ExchangeOK(x), UNCHANGED <<table, heard, now>>
    PROVE  ExchangeOK(x)'
<1>1. Allowance' = Allowance
  BY DEF Allowance, Holders, HopTime
<1> QED
  BY <1>1 DEF ExchangeOK

LEMMA StaleTick ==
    ASSUME StaleInv, Tick
    PROVE  StaleInv'
<1>0. now \in Nat /\ now' = now + 1 /\ UNCHANGED <<table, heard, exchanges, restarts>>
  BY DEF StaleInv, DataOK, Tick
<1>1. Allowance' = Allowance
  BY <1>0 DEF Allowance, Holders, HopTime
<1>2. ASSUME NEW x \in exchanges PROVE ExchangeOK(x)'
  <2>1. /\ x.since \in Nat /\ now # x.since + MaxDelay /\ ExchangeOK(x)
    BY DEF StaleInv, DataOK, Exchange, Tick, Due
  <2> QED
    BY <1>0, <1>1, <2>1, HopTimeType DEF ExchangeOK
<1>3. \A x \in exchanges : IsFiniteSet(x.list)
  BY DEF StaleInv, DataOK
<1>4. exchanges \subseteq Exchange /\ restarts \in Nat
  BY DEF StaleInv, DataOK
<1> QED
  BY <1>0, <1>2, <1>3, <1>4, StaleNothingStored

\* Exchanges end, or a new one without a list begins.
LEMMA StaleExchanges ==
    ASSUME StaleInv, UNCHANGED <<table, heard, now>>, restarts' \in Nat, exchanges' \subseteq Exchange,
           \A x \in exchanges' \ exchanges : x.list = {} /\ x.since = now
    PROVE  StaleInv'
<1>0. now \in Nat /\ \A x \in exchanges : IsFiniteSet(x.list) /\ ExchangeOK(x)
  BY DEF StaleInv, DataOK
<1>1. \A x \in exchanges : ExchangeOK(x)'
  BY <1>0, ExchangeStays
<1>2. ASSUME NEW x \in exchanges' \ exchanges PROVE IsFiniteSet(x.list) /\ ExchangeOK(x)'
  <2>1. x.list = {} /\ x.since = now
    BY <1>2
  <2>2. ExchangeOK(x)'
    BY <1>0, <2>1, HopTimeType DEF ExchangeOK
  <2> QED
    BY <2>1, <2>2, FS_EmptySet
<1> QED
  BY <1>0, <1>1, <1>2, StaleNothingStored

LEMMA StaleTicker ==
    ASSUME StaleInv, NEW m \in Masters, syncIndex[m] \in Nat, OnSyncTickerAction(m)
    PROVE  StaleInv'
<1>0. UNCHANGED <<now, table, restarts, heard>> /\ restarts \in Nat /\ now \in Nat
  BY DEF StaleInv, DataOK, OnSyncTickerAction
<1> DEFINE new == [by |-> m, of |-> Peers[m][syncIndex[m] + 1], phase |-> "asked",
                   list |-> {}, since |-> now]
<1>1. exchanges' = exchanges \/ (exchanges' = exchanges \cup {new} /\ EntryLeft(m))
  BY DEF OnSyncTickerAction
<1>2. EntryLeft(m) => new \in Exchange
  <2> SUFFICES ASSUME EntryLeft(m) PROVE new \in Exchange
    OBVIOUS
  <2>1. syncIndex[m] + 1 \in DOMAIN Peers[m]
    BY PeersType DEF EntryLeft
  <2>2. Peers[m] \in Seq(STRING)
    BY NetworkAssumption
  <2>3. Peers[m][syncIndex[m] + 1] \in STRING
    BY <2>1, <2>2
  <2> QED
    BY <1>0, <2>3 DEF Exchange
<1>3. exchanges \subseteq Exchange
  BY DEF StaleInv, DataOK
<1>4. new.list = {} /\ new.since = now
  OBVIOUS
<1> HIDE DEF new
<1>5. exchanges' \subseteq Exchange
  BY <1>1, <1>2, <1>3
<1>6. \A x \in exchanges' \ exchanges : x.list = {} /\ x.since = now
  BY <1>1, <1>4
<1> QED
  BY <1>0, <1>5, <1>6, StaleExchanges

\* What is composed is at most Ttl - 1 old, and the allowance a hop away.
LEMMA StaleCompose ==
    ASSUME StaleInv, NEW x \in exchanges, Compose(x)
    PROVE  StaleInv'
<1> DEFINE y == [x EXCEPT !.phase = "listed", !.list = Listed(x.of)]
<1>0. /\ UNCHANGED <<now, table, restarts, heard>> /\ x.of \in Masters
      /\ exchanges' = (exchanges \ {x}) \cup {y}
  BY DEF Compose
<1>1. /\ now \in Nat /\ restarts \in Nat /\ x \in Exchange /\ exchanges \subseteq Exchange
      /\ table[x.of] \in Table /\ ExchangeOK(x) /\ RowsOK
      /\ \A z \in exchanges : IsFiniteSet(z.list) /\ ExchangeOK(z)
  BY <1>0 DEF StaleInv, DataOK
<1>2. Listed(x.of) \in SUBSET Address /\ IsFiniteSet(Listed(x.of))
  BY <1>0, <1>1, ListedIsFinite
<1>3. y \in Exchange /\ y.since = x.since /\ y.list = Listed(x.of)
  BY <1>1, <1>2 DEF Exchange
<1> HIDE DEF y
<1>4. ASSUME NEW a \in Listed(x.of) PROVE x.since + MaxDelay <= Allowance[a]
  <2>1. PICK id \in RowsOf(table[x.of], a) : table[x.of][id].dt_updated > now - Ttl
    BY <1>0, ListedIsRecent
  <2> DEFINE row == table[x.of][id]
  <2>2. row \in Row /\ row.addr = a /\ RowOK(row, Allowance)
    BY <1>0, <1>1 DEF RowsOf, RowsOK, Table
  <2>3. row.dt_updated \in Nat /\ x.since \in Nat
    BY <1>1, <2>2 DEF Row, Exchange
  <2>4. a \in Address /\ heard[a] \in Int
    BY <1>2 DEF StaleInv, DataOK
  <2>5. Allowance[a] \in Int
    BY <2>4, HopTimeType, HoldersFinite DEF Allowance
  <2>6. row.dt_updated + HopTime <= Allowance[a]
    BY <2>2 DEF RowOK
  <2>7. x.since <= now
    BY <1>1 DEF ExchangeOK
  <2>8. row.dt_updated > now - Ttl
    BY <2>1
  <2> HIDE DEF row
  <2> QED
    BY <1>1, <2>3, <2>5, <2>6, <2>7, <2>8, HopTimeType
<1>5. ExchangeOK(y)
  BY <1>1, <1>3, <1>4 DEF ExchangeOK
<1>6. \A z \in exchanges' : IsFiniteSet(z.list) /\ ExchangeOK(z)
  BY <1>0, <1>1, <1>2, <1>3, <1>5
<1>7. \A z \in exchanges' : ExchangeOK(z)'
  BY <1>0, <1>6, ExchangeStays
<1>8. exchanges' \subseteq Exchange
  BY <1>0, <1>1, <1>3
<1> QED
  BY <1>0, <1>1, <1>6, <1>7, <1>8, StaleNothingStored

\* Rows of table[m] change, nobody is forgotten, allowances grow.
LEMMA StaleStored ==
    ASSUME StaleInv, UNCHANGED <<now, restarts>>, exchanges' \subseteq exchanges,
           NEW m \in Masters, NEW t \in Table, table' = [table EXCEPT ![m] = t],
           heard' \in [Address -> Int],
           \A a \in Address : heard[a] <= heard'[a] /\ heard'[a] <= now,
           \A id \in DOMAIN table[m] : id \in DOMAIN t /\ t[id].addr = table[m][id].addr,
           \A id \in DOMAIN t : RowOK(t[id], Allowance')
    PROVE  StaleInv'
<1>1. /\ now \in Nat /\ restarts \in Nat /\ table \in [Masters -> Table]
      /\ heard \in [Address -> Int] /\ exchanges \subseteq Exchange
      /\ \A x \in exchanges : IsFiniteSet(x.list) /\ ExchangeOK(x)
      /\ RowsOK
  BY DEF StaleInv, DataOK
<1>2. /\ table' \in [Masters -> Table] /\ table'[m] = t
      /\ \A n \in Masters : n # m => table'[n] = table[n]
  BY <1>1
<1>3. ASSUME NEW a \in Address
      PROVE  /\ Allowance[a] \in Int /\ Allowance'[a] \in Int /\ Allowance[a] <= Allowance'[a]
  <2>1. Holders(a) \subseteq Holders(a)'
    <3>1. ASSUME NEW n \in Masters, ExistServer(table[n], a) PROVE ExistServer(table'[n], a)
      BY <1>2, <3>1 DEF ExistServer, RowsOf
    <3> QED
      BY <3>1 DEF Holders
  <2> QED
    BY <1>1, <2>1, AllowanceGrows
<1>4. DataOK'
  BY <1>1, <1>2 DEF DataOK
<1>5. RowsOK'
  <2> SUFFICES ASSUME NEW n \in Masters, NEW id \in DOMAIN table'[n] PROVE RowOK(table'[n][id], Allowance')
    BY DEF RowsOK
  <2>1. CASE n = m
    BY <1>2, <2>1
  <2>2. CASE n # m
    <3>1. table'[n] = table[n] /\ id \in DOMAIN table[n]
      BY <1>2, <2>2
    <3> DEFINE row == table[n][id]
    <3>2. row \in Row /\ RowOK(row, Allowance)
      BY <1>1, <3>1 DEF RowsOK, Table
    <3>3. row.addr \in Address /\ row.dt_updated \in Nat /\ row.dt_sync \in Nat
      BY <3>2 DEF Row
    <3> HIDE DEF row
    <3>4. RowOK(row, Allowance')
      BY <1>3, <3>2, <3>3, HopTimeType DEF RowOK, HopTime
    <3> QED
      BY <3>1, <3>4 DEF row
  <2> QED
    BY <2>1, <2>2
<1>6. ASSUME NEW x \in exchanges PROVE ExchangeOK(x)'
  <2>1. x.since \in Nat /\ x.list \subseteq Address /\ ExchangeOK(x)
    BY <1>1 DEF Exchange
  <2> QED
    BY <1>3, <2>1, HopTimeType DEF ExchangeOK
<1> QED
  BY <1>4, <1>5, <1>6 DEF StaleInv

LEMMA StaleHear ==
    ASSUME StaleInv, NEW m \in Masters, NEW a \in Address, Hear(m, a)
    PROVE  StaleInv'
<1> DEFINE t == table[m]
<1>0. PICK u : u = UpsertServer(t, a, GameOf[a], 1, now, "ok", "ok")
  OBVIOUS
<1>1. /\ now \in Nat /\ t \in Table /\ heard \in [Address -> Int] /\ GameOf[a] \in GameName
      /\ \A b \in Address : heard[b] <= now
      /\ RowsOK
  BY NetworkAssumption DEF StaleInv, DataOK
<1>2. /\ UNCHANGED <<now, exchanges, restarts>> /\ table' = [table EXCEPT ![m] = u]
      /\ heard' = [heard EXCEPT ![a] = now]
  BY <1>0 DEF Hear
<1>3. /\ u \in Table /\ DOMAIN t \subseteq DOMAIN u
      /\ \A id \in DOMAIN t : u[id].addr = t[id].addr
      /\ \A id \in DOMAIN u :
            \/ id \in DOMAIN t /\ u[id] = t[id]
            \/ /\ u[id].addr = a /\ u[id].dt_updated = now
               /\ u[id].dt_sync = now \/ (id \in DOMAIN t /\ u[id].dt_sync = t[id].dt_sync)
  <2>1. 1 \in Bit /\ "ok" \in Result
    BY DEF Bit, Result
  <2> DEFINE v == UpsertServer(t, a, GameOf[a], 1, now, "ok", "ok")
  <2>2. v \in Table /\ DOMAIN t \subseteq DOMAIN v
    BY <1>1, <2>1, UpsertServerRows
  <2>3. \A id \in DOMAIN t : v[id].addr = t[id].addr
    BY <1>1, <2>1, UpsertServerRows
  <2>4. \A id \in DOMAIN v :
            \/ id \in DOMAIN t /\ v[id] = t[id]
            \/ /\ v[id].addr = a /\ v[id].dt_updated = now
               /\ v[id].dt_sync = now \/ (id \in DOMAIN t /\ v[id].dt_sync = t[id].dt_sync)
    BY <1>1, <2>1, UpsertServerRows
  <2>5. u = v
    BY <1>0
  <2> HIDE DEF v
  <2> QED
    BY <2>2, <2>3, <2>4, <2>5
<1>4. /\ heard' \in [Address -> Int] /\ heard'[a] = now
      /\ \A b \in Address : heard[b] <= heard'[b] /\ heard'[b] <= now
  BY <1>1, <1>2
<1>5. table' \in [Masters -> Table] /\ table'[m] = u /\ \A n \in Masters : n # m => table'[n] = table[n]
  BY <1>2, <1>3 DEF StaleInv, DataOK
<1>6. ASSUME NEW b \in Address
      PROVE  /\ Allowance[b] \in Int /\ Allowance'[b] \in Int /\ Allowance[b] <= Allowance'[b]
             /\ heard'[b] <= Allowance'[b]
             /\ Holders(b)' # {} => heard'[b] + HopTime <= Allowance'[b]
  <2>1. Holders(b) \subseteq Holders(b)'
    <3>1. ASSUME NEW n \in Masters, ExistServer(table[n], b) PROVE ExistServer(table'[n], b)
      BY <1>3, <1>5, <3>1 DEF ExistServer, RowsOf
    <3> QED
      BY <3>1 DEF Holders
  <2> QED
    BY <1>1, <1>4, <2>1, AllowanceGrows
<1>7. ASSUME NEW id \in DOMAIN u PROVE RowOK(u[id], Allowance')
  <2>1. u[id] \in Row /\ u[id].addr \in Address /\ u[id].dt_updated \in Nat /\ u[id].dt_sync \in Nat
    <3>1. u[id] \in Row
      BY <1>3 DEF Table
    <3> QED
      BY <3>1 DEF Row
  <2>2. id \in DOMAIN t => RowOK(t[id], Allowance) /\ t[id].addr = u[id].addr
    BY <1>1, <1>3 DEF RowsOK
  <2>3. CASE id \in DOMAIN t /\ u[id] = t[id]
    BY <1>6, <2>1, <2>2, <2>3, HopTimeType DEF RowOK
  <2>4. CASE u[id].addr = a /\ u[id].dt_updated = now
             /\ (u[id].dt_sync = now \/ (id \in DOMAIN t /\ u[id].dt_sync = t[id].dt_sync))
    <3>1. m \in Holders(a)'
      BY <1>5, <2>4 DEF Holders, ExistServer, RowsOf
    <3>2. now + HopTime <= Allowance'[a] /\ now <= Allowance'[a]
      BY <1>4, <1>6, <3>1
    <3>3. u[id].dt_sync <= Allowance'[a]
      BY <1>6, <2>1, <2>2, <2>4, <3>2 DEF RowOK
    <3> QED
      BY <2>4, <3>2, <3>3 DEF RowOK
  <2> QED
    BY <1>3, <2>3, <2>4
<1> QED
  BY <1>2, <1>3, <1>4, <1>7, StaleStored

\* A known server is only marked; one that is not gets its row here, and the allowance
\* a hop for it.
LEMMA StaleApply ==
    ASSUME StaleInv, NEW x \in exchanges, Apply(x)
    PROVE  StaleInv'
<1> DEFINE t == table[x.by]
<1>0. PICK order \in SetToSeqs(x.list) : table' = [table EXCEPT ![x.by] = StoreList(t, order)]
  BY DEF Apply
<1>2a. PICK u : u = StoreList(t, order)
  OBVIOUS
<1> DEFINE g == [k \in 1 .. Len(order) |-> GameOf[order[k]]]
<1>1. /\ now \in Nat /\ x \in Exchange /\ x.by \in Masters /\ t \in Table /\ ExchangeOK(x)
      /\ heard \in [Address -> Int] /\ \A b \in Address : heard[b] <= now
      /\ RowsOK /\ x.list \in SUBSET Address /\ IsFiniteSet(x.list) /\ x.since \in Nat
  BY DEF StaleInv, DataOK, Exchange
<1>2. UNCHANGED <<now, restarts, heard>> /\ exchanges' \subseteq exchanges
  BY DEF Apply
<1>3. order \in Seq(Address) /\ \A k \in 1 .. Len(order) : order[k] \in x.list
  BY <1>1, OrderIsSequence
<1>4. Synced(t, u, order, g, Len(order), now)
  BY <1>1, <1>3, <1>2a, StoreListSynced
<1> HIDE DEF g
<1>5. u \in Table /\ DOMAIN t \subseteq DOMAIN u
  BY <1>4 DEF Synced
<1>6. \A id \in DOMAIN t : t[id] \in Row
  BY <1>1 DEF Table
<1>7. \A id \in DOMAIN t : \/ u[id] = t[id]
                           \/ u[id] = [t[id] EXCEPT !.dt_sync = now] /\ t[id].addr \in x.list
  BY <1>3, <1>4 DEF Synced
<1>8. \A row \in Row : LET new == [row EXCEPT !.dt_sync = now]
        IN  new.addr = row.addr /\ new.dt_updated = row.dt_updated /\ new.dt_sync = now
  BY DEF Row
<1>9. \A id \in DOMAIN t : u[id].addr = t[id].addr /\ u[id].dt_updated = t[id].dt_updated
                           /\ (u[id].dt_sync = t[id].dt_sync
                               \/ (u[id].dt_sync = now /\ t[id].addr \in x.list))
  <2> TAKE id \in DOMAIN t
  <2>1. CASE u[id] = t[id]
    BY <2>1
  <2>2. CASE u[id] = [t[id] EXCEPT !.dt_sync = now] /\ t[id].addr \in x.list
    <3>1. t[id] \in Row
      BY <1>6
    <3> QED
      BY <1>8, <2>2, <3>1, Zenon
  <2> QED
    BY <1>7, <2>1, <2>2
<1>10. \A id \in DOMAIN u \ DOMAIN t :
          /\ u[id].addr \in x.list /\ ~ExistServer(t, u[id].addr)
          /\ u[id].dt_updated = now /\ u[id].dt_sync = now
  <2> SUFFICES ASSUME NEW id \in DOMAIN u \ DOMAIN t
               PROVE  /\ u[id].addr \in x.list /\ ~ExistServer(t, u[id].addr)
                      /\ u[id].dt_updated = now /\ u[id].dt_sync = now
    OBVIOUS
  <2>1. PICK k \in 1 .. Len(order) : u[id] = SyncedRow(order[k], g[k], now) /\ ~ExistServer(t, order[k])
    BY <1>4 DEF Synced
  <2> QED
    BY <1>3, <2>1 DEF SyncedRow
<1>11. /\ table' = [table EXCEPT ![x.by] = u] /\ table' \in [Masters -> Table] /\ table'[x.by] = u
       /\ \A n \in Masters : n # x.by => table'[n] = table[n]
  BY <1>0, <1>2a, <1>1, <1>5 DEF StaleInv, DataOK
<1>12. ASSUME NEW b \in Address
      PROVE  /\ Allowance[b] \in Int /\ Allowance'[b] \in Int /\ Allowance[b] <= Allowance'[b]
             /\ \A m \in Holders(b)' \ Holders(b) : Allowance[b] + HopTime <= Allowance'[b]
  <2>1. Holders(b) \subseteq Holders(b)'
    <3>1. ASSUME NEW n \in Masters, ExistServer(table[n], b) PROVE ExistServer(table'[n], b)
      BY <1>5, <1>9, <1>11, <3>1 DEF ExistServer, RowsOf
    <3> QED
      BY <3>1 DEF Holders
  <2>2. heard' = heard /\ heard[b] <= heard'[b]
    BY <1>1, <1>2
  <2> QED
    BY <1>1, <2>1, <2>2, AllowanceGrows
<1>13. \A b \in x.list : now <= Allowance[b]
  <2>1. \A b \in x.list : Allowance[b] \in Int /\ x.since + MaxDelay <= Allowance[b]
    BY <1>1, <1>12 DEF ExchangeOK
  <2>2. now <= x.since + MaxDelay
    BY <1>1 DEF ExchangeOK
  <2> QED
    BY <1>1, <2>1, <2>2, HopTimeType
<1>14. ASSUME NEW id \in DOMAIN u PROVE RowOK(u[id], Allowance')
  <2>1. u[id].addr \in Address /\ u[id].dt_updated \in Nat /\ u[id].dt_sync \in Nat
    <3>1. u[id] \in Row
      BY <1>5 DEF Table
    <3> QED
      BY <3>1 DEF Row
  <2>2. CASE id \in DOMAIN t
    <3>1. RowOK(t[id], Allowance)
      BY <1>1, <2>2 DEF RowsOK
    <3> QED
      BY <1>1, <1>9, <1>12, <1>13, <2>1, <2>2, <3>1, HopTimeType DEF RowOK
  <2>3. CASE id \notin DOMAIN t
    <3>1. u[id].addr \in x.list /\ ~ExistServer(t, u[id].addr) /\ u[id].dt_updated = now /\ u[id].dt_sync = now
      BY <1>10, <2>3
    <3>2. x.by \in Holders(u[id].addr)'
      <4>1. ExistServer(u, u[id].addr)
        BY DEF ExistServer, RowsOf
      <4>2. ExistServer(table'[x.by], u[id].addr)
        BY <1>11, <4>1
      <4> QED
        BY <1>1, <4>2 DEF Holders
    <3>3. x.by \notin Holders(u[id].addr)
      BY <3>1 DEF Holders
    <3>4. Allowance[u[id].addr] + HopTime <= Allowance'[u[id].addr]
      BY <1>12, <2>1, <3>2, <3>3
    <3>5. now <= Allowance[u[id].addr]
      BY <1>13, <3>1
    <3> QED
      BY <1>1, <1>12, <2>1, <3>1, <3>4, <3>5, HopTimeType DEF RowOK
  <2> QED
    BY <2>2, <2>3
<1>15. \A id \in DOMAIN table[x.by] : id \in DOMAIN u /\ u[id].addr = table[x.by][id].addr
  BY <1>5, <1>9
<1>16. heard' \in [Address -> Int] /\ \A b \in Address : heard[b] <= heard'[b] /\ heard'[b] <= now
  BY <1>1, <1>2
<1> QED
  BY <1>1, <1>2, <1>5, <1>11, <1>14, <1>15, <1>16, StaleStored

LEMMA StaleStep == WalkInv /\ StaleInv /\ [Next]_vars => StaleInv'
<1> SUFFICES ASSUME WalkInv, StaleInv, [Next]_vars PROVE StaleInv'
  OBVIOUS
<1>0. restarts \in Nat /\ exchanges \subseteq Exchange
  BY DEF StaleInv, DataOK
<1>1. CASE Tick
  BY <1>1, StaleTick
<1>2. ASSUME NEW m \in Masters, NEW a \in Address, Hear(m, a) PROVE StaleInv'
  BY <1>2, StaleHear
<1>3. ASSUME NEW m \in Masters, OnSyncTickerAction(m) PROVE StaleInv'
  <2>1. syncIndex[m] \in Nat
    BY DEF WalkInv, Shape
  <2> QED
    BY <1>3, <2>1, StaleTicker
<1>4. ASSUME NEW m \in Masters, OnUpdaterTimer(m) \/ Restart(m) PROVE StaleInv'
  <2>1. /\ UNCHANGED <<table, heard, now>> /\ exchanges' \subseteq exchanges
        /\ restarts' = restarts \/ restarts' = restarts + 1
    BY <1>4 DEF OnUpdaterTimer, Restart
  <2> QED
    BY <1>0, <2>1, StaleExchanges
<1>5. ASSUME NEW x \in exchanges, Compose(x) PROVE StaleInv'
  BY <1>5, StaleCompose
<1>6. ASSUME NEW x \in exchanges, Apply(x) PROVE StaleInv'
  BY <1>6, StaleApply
<1>7. ASSUME NEW x \in exchanges, Fail(x) PROVE StaleInv'
  <2>1. UNCHANGED <<table, heard, now, restarts>> /\ exchanges' \subseteq exchanges
    BY <1>7 DEF Fail
  <2> QED
    BY <1>0, <2>1, StaleExchanges
<1>8. CASE UNCHANGED vars
  <2>1. UNCHANGED <<table, heard, now, restarts, exchanges>>
    BY <1>8 DEF vars
  <2> QED
    BY <1>0, <2>1, StaleExchanges
<1> QED
  BY <1>1, <1>2, <1>3, <1>4, <1>5, <1>6, <1>7, <1>8 DEF Next, Horizon

LEMMA StaleBound == StaleInv => StaleForgotten
<1> SUFFICES ASSUME StaleInv, NEW m \in Masters, NEW id \in DOMAIN table[m],
                    Recent(table[m][id], Ttl, now)
             PROVE  now - heard[table[m][id].addr] < Forgotten
  BY DEF StaleForgotten
<1> DEFINE row == table[m][id]
           a == row.addr
           k == Cardinality(Holders(a))
           n == Cardinality(Masters)
<1>1. row \in Row /\ RowOK(row, Allowance) /\ now \in Nat
  BY DEF StaleInv, DataOK, RowsOK, Table
<1>2. a \in Address /\ row.dt_updated \in Nat /\ row.dt_sync \in Nat
  BY <1>1 DEF Row
<1>3. heard[a] \in Int
  BY <1>2 DEF StaleInv, DataOK
<1>4. k \in Nat /\ n \in Nat /\ k <= n
  BY HoldersFinite
<1>5. Allowance[a] = heard[a] + k * HopTime
  BY <1>2 DEF Allowance
<1>6. Forgotten = n * HopTime + Ttl
  BY DEF Forgotten
<1>7. row.dt_updated + HopTime <= Allowance[a] /\ row.dt_sync <= Allowance[a]
  BY <1>1 DEF RowOK
<1>8. row.dt_updated > now - Ttl \/ row.dt_sync > now - Ttl
  BY DEF Recent
<1> HIDE DEF row, a, k, n
<1>9. k * HopTime \in Nat /\ n * HopTime \in Nat /\ k * HopTime <= n * HopTime
  BY <1>4, HopTimeType, Multiples
<1>10. now - heard[a] < Forgotten
  BY <1>1, <1>2, <1>3, <1>5, <1>6, <1>7, <1>8, <1>9, HopTimeType
<1> QED
  BY <1>10 DEF a, row

LEMMA NetworkTypes == WalkInv /\ StaleInv => TypeOK
  BY DEF WalkInv, StaleInv, Shape, TimersOK, DataOK, TypeOK

LEMMA NetworkInv == Spec => [](WalkInv /\ StaleInv)
<1>1. Init => WalkInv /\ StaleInv
  BY WalkInit, StaleInit
<1>2. WalkInv /\ StaleInv /\ [Next]_vars => (WalkInv /\ StaleInv)'
  BY WalkStep, StaleStep
<1> QED
  BY <1>1, <1>2, PTL DEF Spec

\* The tables, timers and exchanges of any number of masterservers stay of their types.
THEOREM NetworkTypeCorrect == Spec => []TypeOK
  BY NetworkInv, NetworkTypes, PTL

\* A server that stopped disappears from the lists of all masterservers within one hop
\* for each of them, for any number of masterservers, peers, servers and restarts, in
\* whatever circles they ask each other.
THEOREM StaleForgottenHolds == Spec => []StaleForgotten
  BY NetworkInv, StaleBound, PTL
=============================================================================
