------------------------- MODULE BeaconServerProofs -------------------------
(* Theorems about the heartbeat receiver, for any hosts, games, timeout and *)
(* bounds, and whatever arrives at the socket.                              *)
EXTENDS BeaconServer, SharedProofs

-----------------------------------------------------------------------------
(* Type correctness.                                                       *)

LEMMA AnswersTyped ==
    ASSUME NEW s \in Source, issued \in Seq(Issue)
    PROVE  Answers(s) \subseteq Answer
<1> SUFFICES ASSUME NEW x \in Answers(s) PROVE x \in Answer
  OBVIOUS
<1>1. CASE x = <<Noise, 1>>
  BY <1>1 DEF Answer
<1>2. ASSUME NEW g \in DOMAIN Cipher, NEW n \in DOMAIN issued, x = <<Cipher[g], n>>
      PROVE  x \in Answer
  BY <1>2 DEF Answer
<1> QED
  BY <1>1, <1>2 DEF Answers, GenerateValidateString

LEMMA ArrivalsTyped ==
    ASSUME TypeOK
    PROVE  Arrivals \subseteq Datagram
<1> SUFFICES ASSUME NEW d \in Arrivals PROVE d \in Datagram
  OBVIOUS
<1>1. CASE \E s \in Source, a \in Announcement :
             d = [type |-> "heartbeat", src |-> s, port |-> a[2], game |-> a[1], at |-> now]
  <2>1. \A a \in Announcement : a[1] \in GameName /\ a[2] \in Port \cup {0}
    BY BeaconAssumption
  <2>2. d \in Heartbeat
    BY <1>1, <2>1 DEF Heartbeat, TypeOK
  <2> QED
    BY <2>2 DEF Datagram
<1>2. CASE \E s \in Source : d \in [type : {"validate"}, src : {s}, answer : Answers(s), at : {now}]
  <2>1. issued \in Seq(Issue) /\ now \in Nat
    BY DEF TypeOK
  <2>2. d \in Validate
    BY <1>2, <2>1, AnswersTyped DEF Validate
  <2> QED
    BY <2>2 DEF Datagram
<1>3. CASE d \in [type : {"query", "other"}, src : Source, at : {now}]
  BY <1>3 DEF Datagram, OtherMsg, TypeOK
<1>4. \/ \E s \in Source, a \in Announcement :
         d = [type |-> "heartbeat", src |-> s, port |-> a[2], game |-> a[1], at |-> now]
      \/ \E s \in Source : d \in [type : {"validate"}, src : {s}, answer : Answers(s), at : {now}]
      \/ d \in [type : {"query", "other"}, src : Source, at : {now}]
  BY DEF Arrivals
<1> QED
  BY <1>1, <1>2, <1>3, <1>4

\* A datagram is stamped with the time of its arrival.
LEMMA ArrivesNow ==
    ASSUME NEW d \in Arrivals
    PROVE  d.at = now
<1>1. CASE d \in UNION {[type : {"validate"}, src : {s}, answer : Answers(s), at : {now}] : s \in Source}
  BY <1>1
<1>2. CASE d \in [type : {"query", "other"}, src : Source, at : {now}]
  BY <1>2
<1>3. CASE \E s \in Source, a \in Announcement :
         d = [type |-> "heartbeat", src |-> s, port |-> a[2], game |-> a[1], at |-> now]
  BY <1>3
<1> QED
  BY <1>1, <1>2, <1>3 DEF Arrivals

\* What the branches may assume of the datagram they handle.
LEMMA HeartbeatTyped ==
    ASSUME NEW d \in Datagram, d.type = "heartbeat"
    PROVE  /\ d.src \in Source /\ d.game \in GameName
           /\ Acceptable(d) => BeaconAddress(d) \in Address
<1>1. d \in Heartbeat
  BY DEF Datagram, Heartbeat, Validate, OtherMsg
<1>2. d.src \in Source /\ d.game \in GameName /\ d.port \in Port \cup {0}
  BY <1>1 DEF Heartbeat
<1>3. Acceptable(d) => QueryPort(d) \in Port
  BY <1>2, BeaconAssumption DEF Acceptable, QueryPort
<1> QED
  BY <1>2, <1>3 DEF BeaconAddress, Address, Source

LEMMA DatagramTyped ==
    ASSUME NEW d \in Datagram
    PROVE  d.src \in Source
  BY DEF Datagram, Heartbeat, Validate, OtherMsg

LEMMA TakeTyped ==
    ASSUME TypeOK, Take
    PROVE  /\ Head(socket) \in Datagram
           /\ socket' \in Seq(Datagram) /\ slot' \in Slot
           /\ now' \in Nat /\ nextSweep' \in Nat
  BY DEF TypeOK, Take, After, Slot

LEMMA HeartbeatKeepsType ==
    ASSUME TypeOK, ReadHeartbeat
    PROVE  TypeOK'
<1> DEFINE d == Head(socket)
           a == BeaconAddress(d)
<1>1. /\ d \in Datagram /\ d.type = "heartbeat"
      /\ socket' \in Seq(Datagram) /\ slot' \in Slot /\ now' \in Nat /\ nextSweep' \in Nat
  BY TakeTyped DEF ReadHeartbeat, OnHeartbeat
<1>2. PICK upd \in Result, ins \in Result : OnHeartbeat(d, upd, ins)
  BY DEF ReadHeartbeat, SqlOutcome, Result
<1>3. /\ d.src \in Source /\ d.game \in GameName
      /\ Acceptable(d) => a \in Address
  BY <1>1, HeartbeatTyped
<1>4. queryId' \in Int
  BY <1>2 DEF OnHeartbeat, TypeOK
<1> HIDE DEF d
<1>5. CASE ~Acceptable(d)
  BY <1>1, <1>2, <1>4, <1>5 DEF OnHeartbeat, TypeOK
<1>6. CASE Acceptable(d)
  <2>1. serverlist' \in Table
    BY <1>2, <1>3, <1>6, UpsertServerKeeps DEF OnHeartbeat, TypeOK, Bit
  <2>2. Challenge(d) => /\ beaconList' \in [Source -> Beacon \cup {NoBeacon}]
                        /\ issued' \in Seq(Issue)
    <3>1. [src |-> d.src, addr |-> a, game |-> d.game, time |-> now] \in Issue
      BY <1>3, <1>6 DEF Issue, TypeOK
    <3>2. [addr |-> a, game |-> d.game, secure |-> Len(issued) + 1, time |-> now] \in Beacon
      BY <1>3, <1>6 DEF Beacon, TypeOK
    <3>3. PICK i \in Issue, b \in Beacon :
            Challenge(d) => /\ issued' = Append(issued, i)
                            /\ beaconList' = [beaconList EXCEPT ![d.src] = b]
      BY <3>1, <3>2 DEF Challenge
    <3>4. Challenge(d) => issued' \in Seq(Issue)
      BY <3>3 DEF TypeOK
    <3>5. Challenge(d) => beaconList' \in [Source -> Beacon \cup {NoBeacon}]
      BY <3>3 DEF TypeOK
    <3> QED
      BY <3>4, <3>5
  <2>3. /\ beaconList' \in [Source -> Beacon \cup {NoBeacon}]
        /\ issued' \in Seq(Issue)
    BY <1>2, <1>6, <2>2 DEF OnHeartbeat, TypeOK
  <2> QED
    BY <1>1, <1>4, <2>1, <2>3 DEF TypeOK
<1> QED
  BY <1>5, <1>6

LEMMA ValidateKeepsType ==
    ASSUME TypeOK, ReadValidate
    PROVE  TypeOK'
<1> DEFINE d == Head(socket)
           b == beaconList[d.src]
           auth == IF ValidateGamename(TRUE, b.game, d.answer, b.secure) THEN 1 ELSE 0
<1>1. /\ d.src \in Source
      /\ socket' \in Seq(Datagram) /\ slot' \in Slot /\ now' \in Nat /\ nextSweep' \in Nat
  BY TakeTyped, DatagramTyped DEF ReadValidate
<1>2. PICK upd \in Result : OnValidate(d, upd)
  BY DEF ReadValidate, SqlOutcome, Result
<1>3. queryId' \in Int /\ issued' \in Seq(Issue)
  BY <1>2 DEF OnValidate, TypeOK
<1>4. auth \in Bit
  BY DEF Bit
<1>5. CASE Pending(d.src)
  <2>1. b \in Beacon
    BY <1>1, <1>5 DEF Pending, TypeOK
  <2>2. UpdateServer(serverlist, b.addr, b.game, 0, auth, now) \in Table
    <3> HIDE DEF auth
    <3> QED
      BY <1>4, <2>1, 0 \in Bit, UpdateServerKeeps DEF Beacon, TypeOK, Bit
  <2>3. serverlist' \in Table
    BY <1>2, <1>5, <2>2 DEF OnValidate, TypeOK
  <2>4. beaconList' \in [Source -> Beacon \cup {NoBeacon}]
    BY <1>1, <1>2, <1>5 DEF OnValidate, Answered, TypeOK
  <2> QED
    BY <1>1, <1>3, <2>3, <2>4 DEF TypeOK
<1>6. CASE ~Pending(d.src)
  BY <1>1, <1>2, <1>3, <1>6 DEF OnValidate, TypeOK
<1> QED
  BY <1>5, <1>6

LEMMA TypeStep ==
    ASSUME TypeOK, [Next]_vars
    PROVE  TypeOK'
<1>1. CASE Tick
  BY <1>1 DEF Tick, TypeOK
<1>2. ASSUME NEW d \in Arrivals, Arrive(d) PROVE TypeOK'
  <2>1. d \in Datagram
    BY ArrivalsTyped
  <2>2. socket' \in Seq(Datagram)
    BY <1>2, <2>1 DEF Arrive, TypeOK
  <2>3. slot' \in Slot
    BY <1>2 DEF Arrive, TypeOK, Slot
  <2> QED
    BY <1>2, <2>2, <2>3 DEF Arrive, TypeOK
<1>3. CASE ReadHeartbeat
  BY <1>3, HeartbeatKeepsType
<1>4. CASE ReadValidate
  BY <1>4, ValidateKeepsType
<1>5. CASE ReadQuery
  BY <1>5, TakeTyped DEF ReadQuery, OnQuery, TypeOK
<1>6. CASE ReadOther
  BY <1>6, TakeTyped DEF ReadOther, OnOther, TypeOK
<1>7. CASE OnUdpTimedOut
  BY <1>7, BeaconAssumption DEF OnUdpTimedOut, EmitReadyRead, After, Slot, Swept, TypeOK
<1>8. CASE UNCHANGED vars
  BY <1>8 DEF vars, TypeOK
<1> QED
  BY <1>1, <1>2, <1>3, <1>4, <1>5, <1>6, <1>7, <1>8 DEF Next

\* Every variable keeps its type: in particular each pending challenge and each row
\* carries an address with a real port, also for heartbeats that announce port 0.
THEOREM TypeCorrect == Spec => []TypeOK
<1>1. Init => TypeOK
  <2> SUFFICES ASSUME Init PROVE TypeOK
    OBVIOUS
  <2>1. now \in Nat /\ nextSweep \in Nat /\ queryId \in Int
    BY BeaconAssumption DEF Init
  <2>2. serverlist \in Table /\ socket \in Seq(Datagram) /\ issued \in Seq(Issue)
    BY DEF Init, Table
  <2>3. beaconList \in [Source -> Beacon \cup {NoBeacon}] /\ slot \in Slot
    BY DEF Init, Slot
  <2> QED
    BY <2>1, <2>2, <2>3 DEF TypeOK
<1>2. TypeOK /\ [Next]_vars => TypeOK'
  BY TypeStep
<1> QED
  BY <1>1, <1>2, PTL DEF Spec

-----------------------------------------------------------------------------
(* Time.  The sweep is never overdue, and what the two properties bound is  *)
(* tied to the next sweep instead of the clock, which makes them inductive. *)

Sweep == now <= nextSweep /\ nextSweep <= now + Timeout

SweptInTime ==
    /\ Sweep
    /\ \A s \in Source : Pending(s) =>
          /\ beaconList[s].time <= now
          /\ nextSweep <= beaconList[s].time + 2 * Timeout

\* An idle slot leaves a datagram to the next sweep at the latest.
SignalledInTime ==
    /\ Sweep
    /\ \A i \in DOMAIN socket :
          /\ socket[i].at <= now /\ now <= socket[i].at + Timeout
          /\ slot = "idle" => nextSweep <= socket[i].at + Timeout

\* What a step may do to the pending challenges: keep, drop, or add one of now.
LEMMA BeaconListStep ==
    ASSUME TypeOK, ReadHeartbeat \/ ReadValidate \/ ReadQuery \/ ReadOther,
           NEW s \in Source, Pending(s)'
    PROVE  \/ beaconList'[s] = beaconList[s] /\ Pending(s)
           \/ beaconList'[s].time = now
<1>1. CASE ReadHeartbeat
  <2>1. PICK d \in Datagram, upd, ins \in Result : OnHeartbeat(d, upd, ins)
    BY <1>1, TakeTyped DEF ReadHeartbeat, SqlOutcome, Result
  <2>2. CASE UNCHANGED beaconList
    BY <2>2 DEF Pending
  <2>3. CASE Challenge(d)
    BY <2>3 DEF Challenge, Pending, TypeOK
  <2> QED
    BY <2>1, <2>2, <2>3 DEF OnHeartbeat
<1>2. CASE ReadValidate
  <2>1. PICK d \in Datagram, upd \in Result : OnValidate(d, upd)
    BY <1>2, TakeTyped DEF ReadValidate, SqlOutcome, Result
  <2>2. beaconList' = beaconList \/ beaconList' = [beaconList EXCEPT ![d.src] = NoBeacon]
    BY <2>1 DEF OnValidate, Answered
  <2> QED
    BY <2>2 DEF Pending, TypeOK
<1>3. CASE ReadQuery \/ ReadOther
  BY <1>3 DEF ReadQuery, ReadOther, OnQuery, OnOther, Pending
<1> QED
  BY <1>1, <1>2, <1>3

LEMMA SweptInTimeStep ==
    ASSUME TypeOK, SweptInTime, [Next]_vars
    PROVE  SweptInTime'
<1>1. CASE Tick
  BY <1>1, BeaconAssumption DEF Tick, SweptInTime, Sweep, Pending, TypeOK, Beacon
<1>2. CASE \E d \in Arrivals : Arrive(d)
  BY <1>2 DEF Arrive, SweptInTime, Sweep, Pending
<1>3. CASE ReadHeartbeat \/ ReadValidate \/ ReadQuery \/ ReadOther
  <2>1. UNCHANGED <<now, nextSweep>>
    BY <1>3 DEF ReadHeartbeat, ReadValidate, ReadQuery, ReadOther, Take
  <2>2. Sweep'
    BY <2>1 DEF SweptInTime, Sweep
  <2>3. ASSUME NEW s \in Source, Pending(s)'
        PROVE  beaconList'[s].time <= now' /\ nextSweep' <= beaconList'[s].time + 2 * Timeout
    <3>1. CASE beaconList'[s] = beaconList[s] /\ Pending(s)
      BY <3>1, <2>1 DEF SweptInTime
    <3>2. CASE beaconList'[s].time = now
      BY <3>2, <2>1, BeaconAssumption DEF SweptInTime, Sweep, TypeOK
    <3> QED
      BY <1>3, <2>3, <3>1, <3>2, BeaconListStep
  <2> QED
    BY <2>2, <2>3 DEF SweptInTime
<1>4. CASE OnUdpTimedOut
  <2>1. Sweep'
    BY <1>4, BeaconAssumption DEF OnUdpTimedOut, Sweep, TypeOK
  <2>2. ASSUME NEW s \in Source, Pending(s)'
        PROVE  beaconList'[s].time <= now' /\ nextSweep' <= beaconList'[s].time + 2 * Timeout
    <3>1. Pending(s) /\ ~Expired(beaconList[s]) /\ beaconList'[s] = beaconList[s]
      BY <1>4, <2>2 DEF OnUdpTimedOut, Swept, Pending
    <3>2. beaconList[s].time \in Nat
      BY <3>1 DEF Pending, TypeOK, Beacon
    <3> QED
      BY <1>4, <3>1, <3>2, BeaconAssumption DEF OnUdpTimedOut, Expired, SweptInTime, TypeOK
  <2> QED
    BY <2>1, <2>2 DEF SweptInTime
<1>5. CASE UNCHANGED vars
  BY <1>5 DEF vars, SweptInTime, Sweep, Pending
<1> QED
  BY <1>1, <1>2, <1>3, <1>4, <1>5 DEF Next

\* A challenge waits at most twice the timeout: the entry that onUdpTimedOut keeps
\* because it is not yet too old is dropped by the sweep after it.
THEOREM BoundedWaitHolds == Spec => []BoundedWait
<1>1. Init => SweptInTime
  BY BeaconAssumption DEF Init, SweptInTime, Sweep, Pending
<1>2. TypeOK /\ SweptInTime /\ [Next]_vars => SweptInTime'
  BY SweptInTimeStep
<1>3. TypeOK /\ SweptInTime => BoundedWait
  BY BeaconAssumption DEF TypeOK, SweptInTime, Sweep, BoundedWait, Pending, Beacon
<1> QED
  BY <1>1, <1>2, <1>3, TypeCorrect, PTL DEF Spec

LEMMA SignalledInTimeStep ==
    ASSUME TypeOK, SignalledInTime, [Next]_vars
    PROVE  SignalledInTime'
<1>1. CASE Tick
  BY <1>1, BeaconAssumption DEF Tick, SignalledInTime, Sweep, TypeOK, Datagram, Heartbeat, Validate, OtherMsg
<1>2. ASSUME NEW d \in Arrivals, Arrive(d) PROVE SignalledInTime'
  <2>1. d \in Datagram /\ d.at = now
    BY ArrivalsTyped, ArrivesNow
  <2>2. Sweep'
    BY <1>2 DEF Arrive, SignalledInTime, Sweep
  <2>3. CASE UNCHANGED <<socket, slot>>
    BY <1>2, <2>2, <2>3 DEF Arrive, SignalledInTime
  <2>4. CASE socket' = Append(socket, d) /\ slot' \in {slot, "reading"}
    <3>1. DOMAIN socket' = DOMAIN socket \cup {Len(socket) + 1}
      BY <2>1, <2>4 DEF TypeOK
    <3>2. \A i \in DOMAIN socket : socket'[i] = socket[i]
      BY <2>1, <2>4 DEF TypeOK
    <3>3. socket'[Len(socket) + 1] = d
      BY <2>1, <2>4 DEF TypeOK
    <3> QED
      BY <1>2, <2>1, <2>2, <2>4, <3>1, <3>2, <3>3, BeaconAssumption
         DEF Arrive, SignalledInTime, Sweep, TypeOK
  <2> QED
    BY <1>2, <2>3, <2>4 DEF Arrive
<1>3. CASE ReadHeartbeat \/ ReadValidate \/ ReadQuery \/ ReadOther
  <2>1. Take
    BY <1>3 DEF ReadHeartbeat, ReadValidate, ReadQuery, ReadOther
  <2>2. \A i \in DOMAIN socket' : i + 1 \in DOMAIN socket /\ socket'[i] = socket[i + 1]
    BY <2>1 DEF Take, TypeOK
  <2>3. slot' = "idle" => socket' = << >>
    BY <2>1 DEF Take, After
  <2> QED
    BY <2>1, <2>2, <2>3 DEF Take, SignalledInTime, Sweep
<1>4. CASE OnUdpTimedOut
  <2>1. Sweep'
    BY <1>4, BeaconAssumption DEF OnUdpTimedOut, Sweep, TypeOK
  <2>2. slot' = "idle" => socket' = << >>
    BY <1>4 DEF OnUdpTimedOut, EmitReadyRead, After
  <2> QED
    BY <1>4, <2>1, <2>2 DEF OnUdpTimedOut, SignalledInTime
<1>5. CASE UNCHANGED vars
  BY <1>5 DEF vars, SignalledInTime, Sweep
<1> QED
  BY <1>1, <1>2, <1>3, <1>4, <1>5 DEF Next

\* A datagram whose signal was missed waits at most one timeout, because every sweep
\* emits readyRead again: the workaround does what it is for, for any arrival order.
THEOREM ReadInTimeHolds == Spec => []ReadInTime
<1>1. Init => SignalledInTime
  BY BeaconAssumption DEF Init, SignalledInTime, Sweep
<1>2. TypeOK /\ SignalledInTime /\ [Next]_vars => SignalledInTime'
  BY SignalledInTimeStep
<1>3. TypeOK /\ SignalledInTime => ReadInTime
  BY BeaconAssumption DEF TypeOK, SignalledInTime, ReadInTime, Datagram, Heartbeat, Validate, OtherMsg
<1> QED
  BY <1>1, <1>2, <1>3, TypeCorrect, PTL DEF Spec
-----------------------------------------------------------------------------
(* Authentication and the rows of the table, from what one turn of the read   *)
(* loop may do.                                                            *)

\* Challenge(d), with the parts of the datagram named.
Issues(s, a, g) ==
    /\ issued' = Append(issued, [src |-> s, addr |-> a, game |-> g, time |-> now])
    /\ beaconList' = [beaconList EXCEPT ![s] =
            [addr |-> a, game |-> g, secure |-> Len(issued) + 1, time |-> now]]

\* A heartbeat is ignored, or it upserts one row; only a server without a row (or
\* one whose update reported an error) is challenged, and only when its game is.
LEMMA HeartbeatStep ==
    ASSUME TypeOK, ReadHeartbeat
    PROVE  \/ UNCHANGED <<serverlist, beaconList, issued>>
           \/ \E s \in Source, a \in Address, g \in GameName, upd, ins \in SqlOutcome :
                /\ serverlist' = UpsertServer(serverlist, a, g, 1, now, upd, ins)
                /\ \/ UNCHANGED <<beaconList, issued>>
                   \/ /\ ~(upd = "ok" /\ ExistServer(serverlist, a))
                      /\ g \notin OverrideBeacon /\ Issues(s, a, g)
<1>1. PICK d \in Datagram, upd, ins \in SqlOutcome : OnHeartbeat(d, upd, ins)
  BY TakeTyped DEF ReadHeartbeat
<1>2. d.src \in Source /\ d.game \in GameName /\ (Acceptable(d) => BeaconAddress(d) \in Address)
  BY <1>1, HeartbeatTyped DEF OnHeartbeat
<1>3. Challenge(d) => Issues(d.src, BeaconAddress(d), d.game)
  BY DEF Challenge, Issues
<1>4. CASE ~Acceptable(d)
  BY <1>1, <1>4 DEF OnHeartbeat
<1>5. CASE Acceptable(d)
  <2> DEFINE a == BeaconAddress(d)
  <2>1. serverlist' = UpsertServer(serverlist, a, d.game, 1, now, upd, ins)
    BY <1>1, <1>5 DEF OnHeartbeat
  <2>2. \/ UNCHANGED <<beaconList, issued>>
        \/ /\ ~(upd = "ok" /\ ExistServer(serverlist, a))
           /\ d.game \notin OverrideBeacon /\ Issues(d.src, a, d.game)
    BY <1>1, <1>3, <1>5 DEF OnHeartbeat
  <2>3. a \in Address
    BY <1>2, <1>5
  <2> HIDE DEF a
  <2> QED
    BY <1>2, <2>1, <2>2, <2>3
<1> QED
  BY <1>4, <1>5

\* An answer is ignored, or it updates the rows of the pending challenge; it sets
\* f_auth and drops the challenge together, when it is right.
LEMMA ValidateStep ==
    ASSUME TypeOK, ReadValidate
    PROVE  LET d == Head(socket)
               b == beaconList[d.src]
           IN  /\ d.type = "validate" /\ d.src \in Source /\ UNCHANGED issued
               /\ \/ UNCHANGED <<serverlist, beaconList>>
                  \/ \E auth \in Bit :
                       /\ Pending(d.src) /\ b \in Beacon
                       /\ \/ serverlist' = UpdateServer(serverlist, b.addr, b.game, 0, auth, now)
                          \/ serverlist' = serverlist /\ SqlOutcome # {"ok"}
                       /\ beaconList' = Answered(d.src, auth)
                       /\ auth = 1 => ValidateGamename(TRUE, b.game, d.answer, b.secure)
<1> DEFINE d == Head(socket)
           b == beaconList[d.src]
           auth == IF ValidateGamename(TRUE, b.game, d.answer, b.secure) THEN 1 ELSE 0
<1>1. d.src \in Source
  BY TakeTyped, DatagramTyped DEF ReadValidate
<1>2. PICK upd \in SqlOutcome : OnValidate(d, upd)
  BY DEF ReadValidate
<1>3. d.type = "validate" /\ UNCHANGED issued
  BY <1>2 DEF OnValidate
<1>4. CASE ~Pending(d.src)
  BY <1>1, <1>2, <1>3, <1>4 DEF OnValidate
<1>5. CASE Pending(d.src)
  <2>1. b \in Beacon
    BY <1>1, <1>5 DEF Pending, TypeOK
  <2>2. auth \in Bit /\ (auth = 1 => ValidateGamename(TRUE, b.game, d.answer, b.secure))
    <3>1. CASE ValidateGamename(TRUE, b.game, d.answer, b.secure)
      BY <3>1 DEF Bit
    <3>2. CASE ~ValidateGamename(TRUE, b.game, d.answer, b.secure)
      <4>1. auth = 0
        BY <3>2
      <4>2. 0 \in Bit /\ 0 # 1
        BY DEF Bit
      <4> QED
        BY <4>1, <4>2
    <3> QED
      BY <3>1, <3>2
  <2>3. /\ serverlist' = IF upd = "ok"
                         THEN UpdateServer(serverlist, b.addr, b.game, 0, auth, now)
                         ELSE serverlist
        /\ beaconList' = Answered(d.src, auth)
    BY <1>2, <1>5 DEF OnValidate
  <2>4. upd = "ok" \/ SqlOutcome # {"ok"}
    OBVIOUS
  <2> HIDE DEF auth, b, d
  <2>5. /\ Pending(d.src) /\ b \in Beacon
        /\ \/ serverlist' = UpdateServer(serverlist, b.addr, b.game, 0, auth, now)
           \/ serverlist' = serverlist /\ SqlOutcome # {"ok"}
        /\ beaconList' = Answered(d.src, auth)
        /\ auth = 1 => ValidateGamename(TRUE, b.game, d.answer, b.secure)
    BY <1>5, <2>1, <2>2, <2>3, <2>4
  <2> QED
    BY <1>1, <1>3, <2>2, <2>5 DEF b, d
<1> QED
  BY <1>4, <1>5

-----------------------------------------------------------------------------
(* Every pending challenge is the last one issued to its sender.           *)

LastIssued(s) ==
    LET b == beaconList[s]
    IN  /\ b.secure \in DOMAIN issued
        /\ issued[b.secure] = [src |-> s, addr |-> b.addr, game |-> b.game, time |-> b.time]
        /\ \A m \in DOMAIN issued : m > b.secure => issued[m].src # s
        /\ b.game \notin OverrideBeacon

Recorded == \A s \in Source : Pending(s) => LastIssued(s)

LEMMA IssuesRecorded ==
    ASSUME TypeOK, Recorded, NEW s \in Source, NEW a \in Address, NEW g \in GameName,
           g \notin OverrideBeacon, Issues(s, a, g)
    PROVE  Recorded'
<1> DEFINE i == [src |-> s, addr |-> a, game |-> g, time |-> now]
           b == [addr |-> a, game |-> g, secure |-> Len(issued) + 1, time |-> now]
<1>1. i \in Issue /\ i.src = s
  BY DEF Issue, TypeOK
<1>2. /\ issued \in Seq(Issue) /\ issued' = Append(issued, i)
      /\ beaconList \in [Source -> Beacon \cup {NoBeacon}]
      /\ beaconList' = [beaconList EXCEPT ![s] = b]
  BY DEF Issues, TypeOK
<1>3. /\ DOMAIN issued = 1 .. Len(issued) /\ DOMAIN issued' = 1 .. Len(issued) + 1
      /\ Len(issued) \in Nat /\ issued'[Len(issued) + 1] = i
      /\ \A m \in DOMAIN issued : issued'[m] = issued[m]
  <2> HIDE DEF i, b
  <2> QED
    BY <1>1, <1>2
<1>4. LastIssued(s)'
  <2>1. beaconList'[s] = b
    BY <1>2
  <2> QED
    BY <1>3, <2>1 DEF LastIssued
<1>5. ASSUME NEW t \in Source, t # s, Pending(t)' PROVE LastIssued(t)'
  <2>1. beaconList'[t] = beaconList[t]
    BY <1>2, <1>5
  <2>2. LastIssued(t) /\ beaconList[t] \in Beacon
    BY <1>5, <2>1 DEF Pending, Recorded, TypeOK
  <2> HIDE DEF i, b
  <2> QED
    BY <1>1, <1>3, <1>5, <2>1, <2>2 DEF LastIssued, Beacon
<1> QED
  BY <1>4, <1>5 DEF Recorded

\* Dropping challenges keeps the rest recorded.
LEMMA DropRecorded ==
    ASSUME Recorded, UNCHANGED issued,
           \A s \in Source : Pending(s)' => beaconList'[s] = beaconList[s] /\ Pending(s)
    PROVE  Recorded'
  BY DEF Recorded, LastIssued

LEMMA RecordedStep ==
    ASSUME TypeOK, Recorded, [Next]_vars
    PROVE  Recorded'
<1>1. CASE ReadHeartbeat
  <2>1. CASE UNCHANGED <<beaconList, issued>>
    BY <2>1, DropRecorded DEF Pending
  <2> QED
    BY <1>1, <2>1, HeartbeatStep, IssuesRecorded
<1>2. CASE ReadValidate
  <2>1. \A s \in Source : Pending(s)' => beaconList'[s] = beaconList[s] /\ Pending(s)
    BY <1>2, ValidateStep DEF Answered, Pending, TypeOK
  <2>2. UNCHANGED issued
    BY <1>2, ValidateStep
  <2> QED
    BY <2>1, <2>2, DropRecorded
<1>3. CASE OnUdpTimedOut
  <2>1. \A s \in Source : Pending(s)' => beaconList'[s] = beaconList[s] /\ Pending(s)
    BY <1>3 DEF OnUdpTimedOut, Swept, Pending
  <2> QED
    BY <1>3, <2>1, DropRecorded DEF OnUdpTimedOut
<1>4. CASE UNCHANGED <<beaconList, issued>>
  BY <1>4, DropRecorded DEF Pending
<1> QED
  BY <1>1, <1>2, <1>3, <1>4
     DEF Next, vars, Tick, Arrive, ReadQuery, ReadOther, OnQuery, OnOther

\* Only an answer sets f_auth.
LEMMA OnlyAnswersAuthenticate ==
    ASSUME TypeOK, [Next]_vars, NEW id \in DOMAIN serverlist,
           serverlist[id].f_auth = 0, serverlist'[id].f_auth = 1
    PROVE  ReadValidate
<1>1. CASE ReadHeartbeat
  <2>1. \/ UNCHANGED serverlist
        \/ \E a \in Address, g \in GameName, upd, ins \in Result :
             serverlist' = UpsertServer(serverlist, a, g, 1, now, upd, ins)
    BY <1>1, HeartbeatStep DEF SqlOutcome, Result
  <2>2. serverlist'[id].f_auth = serverlist[id].f_auth
    BY <2>1, 1 \in Bit, UpsertServerKeeps DEF TypeOK, Bit
  <2> QED
    BY <2>2
<1>2. CASE UNCHANGED serverlist
  BY <1>2
<1> QED
  BY <1>1, <1>2
     DEF Next, vars, Tick, Arrive, ReadQuery, ReadOther, OnQuery, OnOther, OnUdpTimedOut

\* f_auth is set only by the right answer to the last challenge issued to its sender,
\* for this address and game, while that challenge is not too old.
THEOREM AuthEarnedHolds == Spec => AuthEarned
<1>1. Init => Recorded
  BY DEF Init, Recorded, Pending
<1>2. TypeOK /\ Recorded /\ [Next]_vars => Recorded'
  BY RecordedStep
<1>3. TypeOK /\ Recorded /\ BoundedWait /\ [Next]_vars =>
        [\A id \in DOMAIN serverlist :
            serverlist[id].f_auth = 0 /\ serverlist'[id].f_auth = 1
                => Earned(serverlist'[id], Head(socket))]_vars
  <2> SUFFICES ASSUME TypeOK, Recorded, BoundedWait, [Next]_vars,
                      NEW id \in DOMAIN serverlist,
                      serverlist[id].f_auth = 0, serverlist'[id].f_auth = 1
               PROVE  Earned(serverlist'[id], Head(socket))
    OBVIOUS
  <2> DEFINE d == Head(socket)
             b == beaconList[d.src]
  <2>1. ReadValidate
    BY OnlyAnswersAuthenticate
  <2>2. d.type = "validate" /\ d.src \in Source /\ UNCHANGED issued
    BY <2>1, ValidateStep
  <2> serverlist' # serverlist
    OBVIOUS
  <2>3. PICK auth \in Bit :
          /\ Pending(d.src) /\ b \in Beacon
          /\ serverlist' = UpdateServer(serverlist, b.addr, b.game, 0, auth, now)
          /\ auth = 1 => ValidateGamename(TRUE, b.game, d.answer, b.secure)
    BY <2>1, ValidateStep
  <2>4. LastIssued(d.src) /\ now - b.time <= 2 * Timeout
    BY <2>2, <2>3 DEF Recorded, BoundedWait
  <2> HIDE DEF b
  <2>5. serverlist[id] \in Row
    BY DEF TypeOK, Table
  <2>6. serverlist'[id] = IF serverlist[id].addr = b.addr
                          THEN UpdatedRow(serverlist[id], b.game, 0, auth, now)
                          ELSE serverlist[id]
    BY <2>3, 0 \in Bit, UpdateServerKeeps DEF TypeOK, Beacon, Bit
  <2>7. /\ auth = 1 /\ serverlist'[id].addr = b.addr
        /\ serverlist'[id].gamename = b.game
    BY <2>5, <2>6 DEF UpdatedRow, Row
  <2>8. d.answer = ReturnValidate(b.game, b.secure)
    BY <2>3, <2>4, <2>7 DEF ValidateGamename, LastIssued, b
  <2> QED
    BY <2>2, <2>4, <2>7, <2>8 DEF Earned, LastIssued, b
<1> QED
  BY <1>1, <1>2, <1>3, TypeCorrect, BoundedWaitHolds, PTL DEF Spec, AuthEarned

-----------------------------------------------------------------------------
(* One row per address, and the row of a pending challenge, when no        *)
(* statement reports an error.                                             *)

LEMMA TableStep ==
    ASSUME TypeOK, [Next]_vars
    PROVE  ReadHeartbeat \/ ReadValidate \/ UNCHANGED serverlist
  BY DEF Next, vars, Tick, Arrive, ReadQuery, ReadOther, OnQuery, OnOther, OnUdpTimedOut

\* As long as no statement reports an error, update-or-insert keeps addresses unique.
THEOREM UniqueAddressHolds ==
    ASSUME SqlMayFail = FALSE
    PROVE  Spec => []UniqueAddress
<1>1. Init => UniqueAddress
  BY DEF Init, UniqueAddress, UniqueIn
<1>2. TypeOK /\ UniqueAddress /\ [Next]_vars => UniqueAddress'
  <2> SUFFICES ASSUME TypeOK, UniqueAddress, [Next]_vars PROVE UniqueAddress'
    OBVIOUS
  <2>1. SqlOutcome = {"ok"}
    BY DEF SqlOutcome
  <2>2. CASE ReadHeartbeat
    <3>1. \/ UNCHANGED serverlist
          \/ \E a \in Address, g \in GameName :
               serverlist' = UpsertServer(serverlist, a, g, 1, now, "ok", "ok")
      BY <2>1, <2>2, HeartbeatStep
    <3>2. 1 \in Bit /\ "ok" \in Result /\ serverlist \in Table /\ now \in Nat
      BY DEF Bit, Result, TypeOK
    <3> QED
      BY <3>1, <3>2, UpsertServerUnique DEF UniqueAddress
  <2>3. CASE ReadValidate
    <3>1. \/ UNCHANGED serverlist
          \/ \E b \in Beacon, auth \in Bit :
               serverlist' = UpdateServer(serverlist, b.addr, b.game, 0, auth, now)
      BY <2>3, ValidateStep
    <3>2. \/ UNCHANGED serverlist
          \/ /\ DOMAIN serverlist' = DOMAIN serverlist
             /\ \A id \in DOMAIN serverlist : serverlist'[id].addr = serverlist[id].addr
      BY <3>1, 0 \in Bit, UpdateServerKeeps DEF TypeOK, Beacon, Bit
    <3> QED
      BY <3>2 DEF UniqueAddress, UniqueIn
  <2>4. CASE UNCHANGED serverlist
    BY <2>4 DEF UniqueAddress, UniqueIn
  <2> QED
    BY <2>2, <2>3, <2>4, TableStep
<1> QED
  BY <1>1, <1>2, TypeCorrect, PTL DEF Spec

\* The invariant behind PendingUnauthenticated: no two senders are challenged for the
\* same address, so no answer can authenticate a row somebody else is challenged for.
OneChallengeEach ==
    \A s, t \in Source :
        Pending(s) /\ Pending(t) /\ beaconList[s].addr = beaconList[t].addr => s = t

PendingInv == PendingUnauthenticated /\ OneChallengeEach

\* Pending challenges may be dropped, and rows updated without setting f_auth.
LEMMA PendingInvKept ==
    ASSUME PendingInv,
           \A s \in Source : Pending(s)' => beaconList'[s] = beaconList[s] /\ Pending(s),
           \A s \in Source, id \in DOMAIN serverlist :
              Pending(s)' /\ serverlist[id].addr = beaconList[s].addr =>
                /\ id \in DOMAIN serverlist'
                /\ serverlist'[id].addr = serverlist[id].addr
                /\ serverlist'[id].f_auth = serverlist[id].f_auth
    PROVE  PendingInv'
<1>1. OneChallengeEach'
  BY DEF PendingInv, OneChallengeEach
<1>2. ASSUME NEW s \in Source, Pending(s)'
      PROVE  \E id \in RowsOf(serverlist', beaconList'[s].addr) : serverlist'[id].f_auth = 0
  <2>1. PICK id \in RowsOf(serverlist, beaconList[s].addr) : serverlist[id].f_auth = 0
    BY <1>2 DEF PendingInv, PendingUnauthenticated
  <2> QED
    BY <1>2, <2>1 DEF RowsOf
<1> QED
  BY <1>1, <1>2 DEF PendingInv, PendingUnauthenticated

\* A challenge goes to a server that had no row, and so no challenge either.
LEMMA PendingInvIssues ==
    ASSUME TypeOK, PendingInv, NEW s \in Source, NEW a \in Address, NEW g \in GameName,
           ~ExistServer(serverlist, a), Issues(s, a, g),
           serverlist' = InsertServer(serverlist, a, g, 1, now)
    PROVE  PendingInv'
<1>1. PICK row \in Row : serverlist' = Append(serverlist, row) /\ row.addr = a /\ row.f_auth = 0
  BY InsertServerAppends DEF TypeOK, Bit
<1>2. /\ DOMAIN serverlist' = DOMAIN serverlist \cup {Len(serverlist) + 1}
      /\ serverlist'[Len(serverlist) + 1] = row
      /\ \A id \in DOMAIN serverlist : serverlist'[id] = serverlist[id]
  <2>1. serverlist \in Table
    BY DEF TypeOK
  <2>2. /\ DOMAIN Append(serverlist, row) = DOMAIN serverlist \cup {Len(serverlist) + 1}
        /\ \A id \in DOMAIN serverlist : Append(serverlist, row)[id] = serverlist[id]
        /\ Append(serverlist, row)[Len(serverlist) + 1] = row
    BY <2>1, AppendKeeps
  <2> QED
    BY <1>1, <2>2, Zenon
<1>3. \A t \in Source : Pending(t) => beaconList[t].addr # a
  BY DEF PendingInv, PendingUnauthenticated, ExistServer
<1>4. /\ beaconList'[s].addr = a
      /\ \A t \in Source : t # s => beaconList'[t] = beaconList[t]
  BY DEF Issues, TypeOK
<1>5. OneChallengeEach'
  BY <1>3, <1>4 DEF PendingInv, OneChallengeEach, Pending
<1>6. ASSUME NEW t \in Source, Pending(t)'
      PROVE  \E id \in RowsOf(serverlist', beaconList'[t].addr) : serverlist'[id].f_auth = 0
  <2>1. CASE t = s
    BY <1>1, <1>2, <1>4, <2>1 DEF RowsOf
  <2>2. CASE t # s
    <3>1. PICK id \in RowsOf(serverlist, beaconList[t].addr) : serverlist[id].f_auth = 0
      BY <1>4, <1>6, <2>2 DEF PendingInv, PendingUnauthenticated, Pending
    <3> QED
      BY <1>2, <1>4, <2>2, <3>1 DEF RowsOf
  <2> QED
    BY <2>1, <2>2
<1> QED
  BY <1>5, <1>6 DEF PendingInv, PendingUnauthenticated

LEMMA PendingInvStep ==
    ASSUME SqlMayFail = FALSE, TypeOK, PendingInv, [Next]_vars
    PROVE  PendingInv'
<1>1. SqlOutcome = {"ok"}
  BY DEF SqlOutcome
<1>2. CASE ReadHeartbeat
  <2>1. CASE UNCHANGED <<serverlist, beaconList>>
    BY <2>1, PendingInvKept DEF Pending
  <2>2. CASE \E s \in Source, a \in Address, g \in GameName :
               /\ serverlist' = UpsertServer(serverlist, a, g, 1, now, "ok", "ok")
               /\ \/ UNCHANGED beaconList
                  \/ ~ExistServer(serverlist, a) /\ Issues(s, a, g)
    <3>1. PICK s \in Source, a \in Address, g \in GameName :
               /\ serverlist' = UpsertServer(serverlist, a, g, 1, now, "ok", "ok")
               /\ \/ UNCHANGED beaconList
                  \/ ~ExistServer(serverlist, a) /\ Issues(s, a, g)
      BY <2>2
    <3>2. CASE UNCHANGED beaconList
      <4>1. 1 \in Bit /\ "ok" \in Result /\ serverlist \in Table /\ now \in Nat
        BY DEF Bit, Result, TypeOK
      <4>2. /\ DOMAIN serverlist \subseteq DOMAIN serverlist'
            /\ \A id \in DOMAIN serverlist :
                  /\ serverlist'[id].addr = serverlist[id].addr
                  /\ serverlist'[id].f_auth = serverlist[id].f_auth
        BY <3>1, <4>1, UpsertServerKeeps
      <4> QED
        BY <3>2, <4>2, PendingInvKept DEF Pending
    <3>3. CASE ~ExistServer(serverlist, a) /\ Issues(s, a, g)
      BY <3>1, <3>3, PendingInvIssues DEF UpsertServer
    <3> QED
      BY <3>1, <3>2, <3>3
  <2> QED
    BY <1>1, <1>2, <2>1, <2>2, HeartbeatStep
<1>3. CASE ReadValidate
  <2> DEFINE d == Head(socket)
             b == beaconList[d.src]
  <2>1. CASE UNCHANGED <<serverlist, beaconList>>
    BY <2>1, PendingInvKept DEF Pending
  <2>2. CASE \E auth \in Bit :
               /\ d.src \in Source /\ Pending(d.src) /\ b \in Beacon
               /\ serverlist' = UpdateServer(serverlist, b.addr, b.game, 0, auth, now)
               /\ beaconList' = Answered(d.src, auth)
    <3>1. PICK auth \in Bit :
               /\ d.src \in Source /\ Pending(d.src) /\ b \in Beacon
               /\ serverlist' = UpdateServer(serverlist, b.addr, b.game, 0, auth, now)
               /\ beaconList' = Answered(d.src, auth)
      BY <2>2
    <3> DEFINE s == d.src
    <3>2. /\ DOMAIN serverlist' = DOMAIN serverlist
          /\ \A id \in DOMAIN serverlist :
               /\ serverlist'[id].addr = serverlist[id].addr
               /\ serverlist'[id] = IF serverlist[id].addr = b.addr
                     THEN UpdatedRow(serverlist[id], b.game, 0, auth, now) ELSE serverlist[id]
      BY <3>1, 0 \in Bit, UpdateServerKeeps DEF TypeOK, Beacon, Bit
    <3>3. \A id \in DOMAIN serverlist : serverlist[id] \in Row
      BY DEF TypeOK, Table
    <3>4. \A row \in Row :
             UpdatedRow(row, b.game, 0, auth, now).f_auth = IF auth = 1 THEN 1 ELSE row.f_auth
      BY DEF UpdatedRow, Row
    <3>5. \A id \in DOMAIN serverlist :
             serverlist[id].addr # b.addr \/ auth = 0 =>
                serverlist'[id].f_auth = serverlist[id].f_auth
      BY <3>2, <3>3, <3>4
    <3>6. \A t \in Source : Pending(t)' => beaconList'[t] = beaconList[t] /\ Pending(t)
      BY <3>1 DEF Answered, Pending, TypeOK
    <3>7. \A t \in Source : Pending(t)' => auth = 0 \/ t # d.src
      BY <3>1 DEF Answered, Pending, TypeOK, Bit
    <3>8. \A t \in Source : Pending(t)' => auth = 0 \/ beaconList[t].addr # b.addr
      BY <3>1, <3>6, <3>7 DEF PendingInv, OneChallengeEach
    <3> HIDE DEF b, d
    <3> QED
      BY <3>2, <3>5, <3>6, <3>8, PendingInvKept
  <2> QED
    BY <1>1, <1>3, <2>1, <2>2, ValidateStep
<1>4. CASE OnUdpTimedOut
  <2>1. \A s \in Source : Pending(s)' => beaconList'[s] = beaconList[s] /\ Pending(s)
    BY <1>4 DEF OnUdpTimedOut, Swept, Pending
  <2> QED
    BY <1>4, <2>1, PendingInvKept DEF OnUdpTimedOut
<1>5. CASE UNCHANGED <<serverlist, beaconList>>
  BY <1>5, PendingInvKept DEF Pending
<1> QED
  BY <1>2, <1>3, <1>4, <1>5
     DEF Next, vars, Tick, Arrive, ReadQuery, ReadOther, OnQuery, OnOther

\* As long as no statement reports an error, a pending challenge is for a row of the
\* table that is not authenticated yet.
THEOREM PendingUnauthenticatedHolds ==
    ASSUME SqlMayFail = FALSE
    PROVE  Spec => []PendingUnauthenticated
<1>1. Init => PendingInv
  BY DEF Init, PendingInv, PendingUnauthenticated, OneChallengeEach, Pending
<1>2. TypeOK /\ PendingInv /\ [Next]_vars => PendingInv'
  BY PendingInvStep
<1>3. PendingInv => PendingUnauthenticated
  BY DEF PendingInv
<1> QED
  BY <1>1, <1>2, <1>3, TypeCorrect, PTL DEF Spec

-----------------------------------------------------------------------------
(* What a step does to the rows of the table.                              *)

RowTimes == \A id \in DOMAIN serverlist :
    serverlist[id].dt_beacon <= now /\ serverlist[id].dt_updated <= now

LEMMA UpdatedRowKeeps ==
    ASSUME NEW row \in Row, NEW g \in GameName, NEW direct \in Bit, NEW auth \in Bit,
           NEW time \in Nat, row.dt_beacon <= time, row.dt_updated <= time
    PROVE  LET new == UpdatedRow(row, g, direct, auth, time)
           IN  /\ NothingTakenBack(row, new)
               /\ new.dt_beacon <= time /\ new.dt_updated <= time
<1> DEFINE new == UpdatedRow(row, g, direct, auth, time)
<1>1. /\ new.addr = row.addr /\ new.dt_updated = time
      /\ new.dt_beacon = IF direct = 1 THEN time ELSE row.dt_beacon
      /\ new.f_direct = IF direct = 1 THEN 1 ELSE row.f_direct
      /\ new.f_auth = IF auth = 1 THEN 1 ELSE row.f_auth
  BY DEF UpdatedRow, Row
<1>2. row.f_auth \in Bit /\ row.f_direct \in Bit /\ row.dt_beacon \in Nat
  BY DEF Row
<1> HIDE DEF new
<1>3. NothingTakenBack(row, new) /\ new.dt_beacon <= time /\ new.dt_updated <= time
  BY <1>1, <1>2 DEF NothingTakenBack, Bit
<1> QED
  BY <1>3 DEF new

LEMMA SameRowKeeps ==
    ASSUME NEW row \in Row
    PROVE  NothingTakenBack(row, row)
  BY DEF NothingTakenBack, Row, Bit

\* A step leaves a row alone or runs the SET clause of updateServer on it, and a row
\* it adds is stamped with the current time.
LEMMA RowStep ==
    ASSUME TypeOK, [Next]_vars
    PROVE  /\ DOMAIN serverlist \subseteq DOMAIN serverlist'
           /\ \A id \in DOMAIN serverlist :
                \/ serverlist'[id] = serverlist[id]
                \/ \E g \in GameName, direct, auth \in Bit :
                     serverlist'[id] = UpdatedRow(serverlist[id], g, direct, auth, now)
           /\ \A id \in DOMAIN serverlist' \ DOMAIN serverlist :
                serverlist'[id].dt_beacon = now /\ serverlist'[id].dt_updated = now
<1>1. 0 \in Bit /\ 1 \in Bit /\ serverlist \in Table /\ now \in Nat
  BY DEF Bit, TypeOK
<1>2. ASSUME NEW a \in Address, NEW g \in GameName, NEW direct \in Bit, NEW auth \in Bit,
             serverlist' = UpdateServer(serverlist, a, g, direct, auth, now)
      PROVE  /\ DOMAIN serverlist' = DOMAIN serverlist
             /\ \A id \in DOMAIN serverlist :
                  \/ serverlist'[id] = serverlist[id]
                  \/ serverlist'[id] = UpdatedRow(serverlist[id], g, direct, auth, now)
  BY <1>1, <1>2, UpdateServerKeeps
<1>3. ASSUME NEW a \in Address, NEW g \in GameName,
             serverlist' = InsertServer(serverlist, a, g, 1, now)
      PROVE  /\ DOMAIN serverlist' = DOMAIN serverlist \cup {Len(serverlist) + 1}
             /\ \A id \in DOMAIN serverlist : serverlist'[id] = serverlist[id]
             /\ serverlist'[Len(serverlist) + 1].dt_beacon = now
             /\ serverlist'[Len(serverlist) + 1].dt_updated = now
  <2>1. PICK row \in Row : /\ serverlist' = Append(serverlist, row)
                           /\ row.dt_beacon = now /\ row.dt_updated = now
    <3> DEFINE row == [addr |-> a, gamename |-> g, f_auth |-> 0,
                       f_direct |-> 1, dt_added |-> now,
                       dt_beacon |-> now, dt_sync |-> now, dt_updated |-> now]
    <3>1. row \in Row /\ row.dt_beacon = now /\ row.dt_updated = now
      BY <1>1 DEF Row
    <3>2. serverlist' = Append(serverlist, row)
      BY <1>3 DEF InsertServer
    <3> HIDE DEF row
    <3> QED
      BY <3>1, <3>2
  <2>2. /\ DOMAIN Append(serverlist, row) = DOMAIN serverlist \cup {Len(serverlist) + 1}
        /\ \A id \in DOMAIN serverlist : Append(serverlist, row)[id] = serverlist[id]
        /\ Append(serverlist, row)[Len(serverlist) + 1] = row
    BY <1>1, AppendKeeps
  <2> QED
    BY <2>1, <2>2, Zenon
<1>4. CASE ReadHeartbeat
  <2>1. \/ UNCHANGED serverlist
        \/ \E a \in Address, g \in GameName :
             \/ serverlist' = UpdateServer(serverlist, a, g, 1, 0, now)
             \/ serverlist' = InsertServer(serverlist, a, g, 1, now)
    BY <1>4, HeartbeatStep DEF UpsertServer
  <2> QED
    BY <1>1, <1>2, <1>3, <2>1
<1>5. CASE ReadValidate
  <2>1. \/ UNCHANGED serverlist
        \/ \E b \in Beacon, auth \in Bit :
             serverlist' = UpdateServer(serverlist, b.addr, b.game, 0, auth, now)
    BY <1>5, ValidateStep
  <2> QED
    BY <1>1, <1>2, <2>1 DEF Beacon
<1>6. CASE UNCHANGED serverlist
  BY <1>6
<1> QED
  BY <1>4, <1>5, <1>6, TableStep

\* Rows are never lost, moved to another address, or set back: neither a flag nor a
\* time stamp, although heartbeats and answers of several senders may share a row.
THEOREM RowsKeptHolds == Spec => RowsKept
<1>1. Init => RowTimes
  BY DEF Init, RowTimes
<1>2. TypeOK /\ RowTimes /\ [Next]_vars => now <= now' /\ now' \in Nat
  <2> SUFFICES ASSUME TypeOK, [Next]_vars PROVE now <= now' /\ now' \in Nat
    OBVIOUS
  <2> QED
    BY DEF Next, vars, Tick, Arrive, ReadHeartbeat, ReadValidate, ReadQuery, ReadOther, Take,
           OnUdpTimedOut, TypeOK
<1>3. TypeOK /\ RowTimes /\ [Next]_vars =>
        /\ DOMAIN serverlist \subseteq DOMAIN serverlist'
        /\ \A id \in DOMAIN serverlist :
              /\ NothingTakenBack(serverlist[id], serverlist'[id])
              /\ serverlist'[id].dt_beacon <= now /\ serverlist'[id].dt_updated <= now
  <2> SUFFICES ASSUME TypeOK, RowTimes, [Next]_vars, NEW id \in DOMAIN serverlist
               PROVE  /\ NothingTakenBack(serverlist[id], serverlist'[id])
                      /\ serverlist'[id].dt_beacon <= now
                      /\ serverlist'[id].dt_updated <= now
    BY RowStep
  <2>1. /\ serverlist[id] \in Row /\ now \in Nat
        /\ serverlist[id].dt_beacon <= now /\ serverlist[id].dt_updated <= now
    BY DEF TypeOK, Table, RowTimes
  <2>2. CASE serverlist'[id] = serverlist[id]
    BY <2>1, <2>2, SameRowKeeps
  <2>3. CASE \E g \in GameName, direct, auth \in Bit :
               serverlist'[id] = UpdatedRow(serverlist[id], g, direct, auth, now)
    BY <2>1, <2>3, UpdatedRowKeeps
  <2> QED
    BY <2>2, <2>3, RowStep
<1>4. TypeOK /\ RowTimes /\ [Next]_vars => RowTimes'
  <2> SUFFICES ASSUME TypeOK, TypeOK', RowTimes, [Next]_vars, NEW id \in DOMAIN serverlist'
               PROVE  serverlist'[id].dt_beacon <= now' /\ serverlist'[id].dt_updated <= now'
    BY TypeStep DEF RowTimes
  <2>1. serverlist'[id].dt_beacon <= now /\ serverlist'[id].dt_updated <= now
    BY <1>3, RowStep DEF TypeOK
  <2>2. serverlist'[id].dt_beacon \in Nat /\ serverlist'[id].dt_updated \in Nat
    <3>1. serverlist' \in Seq(Row)
      BY DEF TypeOK, Table
    <3>2. serverlist'[id] \in Row
      BY <3>1
    <3> QED
      BY <3>2 DEF Row
  <2> QED
    BY <1>2, <2>1, <2>2 DEF TypeOK
<1>5. TypeOK /\ RowTimes /\ [Next]_vars =>
        [/\ DOMAIN serverlist \subseteq DOMAIN serverlist'
         /\ \A id \in DOMAIN serverlist :
                NothingTakenBack(serverlist[id], serverlist'[id])]_vars
  BY <1>3
<1> QED
  BY <1>1, <1>4, <1>5, TypeCorrect, PTL DEF Spec, RowsKept
=============================================================================
