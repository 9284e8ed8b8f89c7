---------------------------- MODULE SharedProofs ----------------------------
(***************************************************************************)
(* What the components share: first the table, what its statements         *)
(* preserve; then the \key\value\ text, what the parser makes of it.       *)
(***************************************************************************)
EXTENDS ServerList, Messages, SequenceTheorems, FiniteSetTheorems, WellFoundedInduction, TLAPS

\* updateServer writes in place: the table keeps its length and every row its
\* address, and the result is again a table.
LEMMA UpdateServerKeeps ==
    ASSUME NEW t \in Table, NEW a \in Address, NEW g \in GameName,
           NEW direct \in Bit, NEW auth \in Bit, NEW time \in Nat
    PROVE  LET u == UpdateServer(t, a, g, direct, auth, time)
           IN  /\ u \in Table
               /\ Len(u) = Len(t)
               /\ DOMAIN u = DOMAIN t
               /\ \A id \in DOMAIN t :
                    u[id] = IF t[id].addr = a
                            THEN UpdatedRow(t[id], g, direct, auth, time) ELSE t[id]
               /\ \A id \in DOMAIN t : u[id].addr = t[id].addr
<1> DEFINE u == UpdateServer(t, a, g, direct, auth, time)
<1>1. \A id \in DOMAIN t : t[id] \in Row
  BY DEF Table
<1>2. \A row \in Row : /\ UpdatedRow(row, g, direct, auth, time) \in Row
                       /\ UpdatedRow(row, g, direct, auth, time).addr = row.addr
  BY DEF UpdatedRow, Row, Bit
<1>3. DOMAIN u = DOMAIN t
  BY DEF UpdateServer
<1>4. \A id \in DOMAIN t : u[id] = IF t[id].addr = a
                                   THEN UpdatedRow(t[id], g, direct, auth, time) ELSE t[id]
  BY DEF UpdateServer, RowsOf
<1>5. \A id \in DOMAIN t : u[id] \in Row /\ u[id].addr = t[id].addr
  BY <1>1, <1>2, <1>4
<1>6. u \in Table /\ Len(u) = Len(t)
  <2>1. u \in [1 .. Len(t) -> Row]
    BY <1>3, <1>5 DEF UpdateServer, Table
  <2> QED
    BY <2>1 DEF Table
<1> QED
  BY <1>3, <1>4, <1>5, <1>6

\* insertServer appends one row, without f_auth.
LEMMA InsertServerAppends ==
    ASSUME NEW t \in Table, NEW a \in Address, NEW g \in GameName,
           NEW direct \in Bit, NEW time \in Nat
    PROVE  \E row \in Row : /\ InsertServer(t, a, g, direct, time) = Append(t, row)
                            /\ row.addr = a /\ row.f_auth = 0
<1> DEFINE new == [addr |-> a, gamename |-> g, f_auth |-> 0,
                   f_direct |-> direct, dt_added |-> time,
                   dt_beacon |-> time, dt_sync |-> time, dt_updated |-> time]
<1>1. new \in Row /\ new.addr = a /\ new.f_auth = 0
  BY DEF Row, Bit
<1>2. InsertServer(t, a, g, direct, time) = Append(t, new)
  BY DEF InsertServer
<1> HIDE DEF new
<1> QED
  BY <1>1, <1>2

LEMMA AppendKeeps ==
    ASSUME NEW t \in Table, NEW row \in Row
    PROVE  /\ Append(t, row) \in Table
           /\ DOMAIN Append(t, row) = DOMAIN t \cup {Len(t) + 1}
           /\ \A id \in DOMAIN t : Append(t, row)[id] = t[id]
           /\ Append(t, row)[Len(t) + 1] = row
  BY DEF Table

\* Update-before-insert keeps addresses unique, provided that the UPDATE does not
\* report an error; an error of the INSERT does no harm.
LEMMA UpsertServerUnique ==
    ASSUME NEW t \in Table, NEW a \in Address, NEW g \in GameName,
           NEW direct \in Bit, NEW time \in Nat, NEW ins \in Result,
           UniqueIn(t)
    PROVE  UniqueIn(UpsertServer(t, a, g, direct, time, "ok", ins))
<1> DEFINE u == UpdateServer(t, a, g, direct, 0, time)
           v == InsertServer(t, a, g, direct, time)
<1>1. DOMAIN u = DOMAIN t /\ \A id \in DOMAIN t : u[id].addr = t[id].addr
  BY 0 \in Bit, UpdateServerKeeps DEF Bit
<1>2. PICK row \in Row : v = Append(t, row) /\ row.addr = a
  BY InsertServerAppends
<1>3. UpsertServer(t, a, g, direct, time, "ok", ins) =
        IF ExistServer(t, a) THEN u ELSE IF ins = "ok" THEN v ELSE t
  BY DEF UpsertServer
<1> HIDE DEF u, v
<1>4. UniqueIn(u)
  BY <1>1 DEF UniqueIn
<1>5. ~ExistServer(t, a) => UniqueIn(v)
  <2>1. ~ExistServer(t, a) => \A id \in DOMAIN t : t[id].addr # a
    BY DEF ExistServer, RowsOf
  <2> QED
    BY <1>2, <2>1, AppendKeeps DEF UniqueIn
<1> QED
  BY <1>3, <1>4, <1>5

\* Update-or-insert yields a table that keeps the rows, whatever fails.
LEMMA UpsertServerKeeps ==
    ASSUME NEW t \in Table, NEW a \in Address, NEW g \in GameName, NEW direct \in Bit,
           NEW time \in Nat, NEW upd \in Result, NEW ins \in Result
    PROVE  LET u == UpsertServer(t, a, g, direct, time, upd, ins)
           IN  /\ u \in Table
               /\ DOMAIN t \subseteq DOMAIN u
               /\ \A id \in DOMAIN t : /\ u[id].addr = t[id].addr
                                       /\ u[id].f_auth = t[id].f_auth
<1> DEFINE u == UpdateServer(t, a, g, direct, 0, time)
           v == InsertServer(t, a, g, direct, time)
<1>1. \A id \in DOMAIN t : t[id] \in Row
  BY DEF Table
<1>2. \A row \in Row : UpdatedRow(row, g, direct, 0, time).f_auth = row.f_auth
  BY DEF UpdatedRow, Row
<1>3. /\ u \in Table /\ DOMAIN u = DOMAIN t
      /\ \A id \in DOMAIN t :
            /\ u[id] = IF t[id].addr = a THEN UpdatedRow(t[id], g, direct, 0, time)
                       ELSE t[id]
            /\ u[id].addr = t[id].addr
  BY 0 \in Bit, UpdateServerKeeps DEF Bit
<1>4. PICK row \in Row : v = Append(t, row)
  BY InsertServerAppends
<1>5. UpsertServer(t, a, g, direct, time, upd, ins) =
        IF upd = "ok" /\ ExistServer(t, a) THEN u ELSE IF ins = "ok" THEN v ELSE t
  BY DEF UpsertServer
<1> HIDE DEF u, v
<1>6. \A id \in DOMAIN t : u[id].f_auth = t[id].f_auth
  BY <1>1, <1>2, <1>3
<1> QED
  BY <1>3, <1>4, <1>5, <1>6, AppendKeeps

\* Update-or-insert leaves a row as it was or writes the time of the call to it, and it
\* does not move what is known from synchronisation.
LEMMA UpsertServerRows ==
    ASSUME NEW t \in Table, NEW a \in Address, NEW g \in GameName, NEW direct \in Bit,
           NEW time \in Nat, NEW upd \in Result, NEW ins \in Result
    PROVE  LET u == UpsertServer(t, a, g, direct, time, upd, ins)
           IN  /\ u \in Table /\ DOMAIN t \subseteq DOMAIN u
               /\ \A id \in DOMAIN t : u[id].addr = t[id].addr
               /\ \A id \in DOMAIN u :
                      \/ id \in DOMAIN t /\ u[id] = t[id]
                      \/ /\ u[id].addr = a /\ u[id].dt_updated = time /\ u[id].gamename = g
                         /\ \/ u[id].dt_sync = time
                            \/ id \in DOMAIN t /\ u[id].dt_sync = t[id].dt_sync
<1> DEFINE u == UpsertServer(t, a, g, direct, time, upd, ins)
           changed == UpdateServer(t, a, g, direct, 0, time)
           grown == InsertServer(t, a, g, direct, time)
<1>1. 0 \in Bit
  BY DEF Bit
<1>2. /\ u \in Table /\ DOMAIN t \subseteq DOMAIN u
      /\ \A id \in DOMAIN t : u[id].addr = t[id].addr
  BY <1>1, UpsertServerKeeps
<1>3. /\ DOMAIN changed = DOMAIN t
      /\ \A id \in DOMAIN t :
            changed[id] = IF t[id].addr = a THEN UpdatedRow(t[id], g, direct, 0, time) ELSE t[id]
  BY <1>1, UpdateServerKeeps
<1>4. \A row \in Row : /\ UpdatedRow(row, g, direct, 0, time).addr = row.addr
                       /\ UpdatedRow(row, g, direct, 0, time).dt_updated = time
                       /\ UpdatedRow(row, g, direct, 0, time).gamename = g
                       /\ UpdatedRow(row, g, direct, 0, time).dt_sync = row.dt_sync
  BY DEF UpdatedRow, Row
<1>5. \A id \in DOMAIN t : t[id] \in Row
  BY DEF Table
<1> DEFINE new == [addr |-> a, gamename |-> g, f_auth |-> 0,
                   f_direct |-> direct, dt_added |-> time,
                   dt_beacon |-> time, dt_sync |-> time, dt_updated |-> time]
<1>6. new \in Row /\ new.addr = a /\ new.dt_updated = time /\ new.dt_sync = time /\ new.gamename = g
  BY <1>1 DEF Row
<1>7. grown = Append(t, new)
  BY DEF InsertServer
<1>8. /\ DOMAIN grown = DOMAIN t \cup {Len(t) + 1} /\ \A id \in DOMAIN t : grown[id] = t[id]
      /\ grown[Len(t) + 1] = new
  <2> HIDE DEF new, grown
  <2> QED
    BY <1>6, <1>7, AppendKeeps
<1>9. u = changed \/ u = grown \/ u = t
  BY DEF UpsertServer
<1> HIDE DEF u, changed, grown, new
<1>10. ASSUME NEW id \in DOMAIN u
       PROVE  \/ id \in DOMAIN t /\ u[id] = t[id]
              \/ /\ u[id].addr = a /\ u[id].dt_updated = time /\ u[id].gamename = g
                 /\ \/ u[id].dt_sync = time
                    \/ id \in DOMAIN t /\ u[id].dt_sync = t[id].dt_sync
  <2>1. CASE u = changed
    BY <1>3, <1>4, <1>5, <2>1
  <2>2. CASE u = grown
    BY <1>6, <1>8, <2>2
  <2> QED
    BY <1>9, <2>1, <2>2
<1> QED
  BY <1>2, <1>10 DEF u
-----------------------------------------------------------------------------
(* Induction and folds.  A fold is a function on the sets of positions, chosen   *)
(* by its recursion equation; a solution is shown to exist, from then on folds   *)
(* are reasoned about one step at a time.                                       *)

\* Induction over the naturals for a set, which the provers can be given.
LEMMA NatSetInduction ==
    ASSUME NEW T, 0 \in T, \A k \in Nat : k \in T => k + 1 \in T
    PROVE  Nat \subseteq T
<1> SUFFICES ASSUME NEW j \in Nat, j \notin T PROVE FALSE
  OBVIOUS
<1>1. PICK k \in Nat \ T : \A i \in Nat \ T : ~ (<<i, k>> \in OpToRel(<, Nat))
  <2> Nat \ T # {} /\ Nat \ T \subseteq Nat
    OBVIOUS
  <2> QED
    BY NatLessThanWellFounded, WFMin
<1>2. k # 0 /\ k - 1 \in Nat
  OBVIOUS
<1>3. <<k - 1, k>> \in OpToRel(<, Nat)
  BY <1>2 DEF OpToRel
<1>4. k - 1 \in T
  BY <1>1, <1>2, <1>3
<1>5. (k - 1) + 1 \in T
  BY <1>2, <1>4
<1> QED
  BY <1>5

\* A non-empty set of natural numbers has a lowest element, which Min chooses.
LEMMA MinIsLowest ==
    ASSUME NEW S \in SUBSET Nat, S # {}
    PROVE  Min(S) \in S /\ \A y \in S : Min(S) <= y
<1>1. PICK x \in S : \A y \in S : ~ (<<y, x>> \in OpToRel(<, Nat))
  BY NatLessThanWellFounded, WFMin
<1>2. \A y, z \in Nat : y < z => <<y, z>> \in OpToRel(<, Nat)
  BY DEF OpToRel
<1>3. \A y \in S : ~ (y < x)
  BY <1>1, <1>2
<1>4. \A y \in S : x <= y
  BY <1>3
<1> QED
  BY <1>4 DEF Min

\* ... and a highest one when it is bounded, which Max chooses.
LEMMA MaxIsHighest ==
    ASSUME NEW n \in Nat, NEW S \in SUBSET (1 .. n), S # {}
    PROVE  Max(S) \in S /\ \A y \in S : Max(S) >= y
<1> DEFINE T == {n - x : x \in S}
<1>0. \A x \in S : x \in Nat /\ n - x \in Nat
  OBVIOUS
<1>1. T \in SUBSET Nat /\ T # {}
  BY <1>0
<1>2. Min(T) \in T /\ \A y \in T : Min(T) <= y
  <2> HIDE DEF T
  <2> QED
    BY <1>1, MinIsLowest
<1>3. PICK x \in S : \A y \in S : x >= y
  <2>1. PICK x \in S : Min(T) = n - x
    BY <1>2
  <2>2. \A y \in S : n - x <= n - y
    BY <1>2, <2>1
  <2> QED
    BY <1>0, <2>2
<1> QED
  BY <1>3 DEF Max

LEMMA MaxOfInterval ==
    ASSUME NEW k \in Nat, NEW s \in SUBSET (1 .. k + 1), k + 1 \in s
    PROVE  Max(s) = k + 1
<1>1. \A y \in s : k + 1 >= y
  OBVIOUS
<1>2. \A x \in s : (\A y \in s : x >= y) => x = k + 1
  OBVIOUS
<1> QED
  BY <1>1, <1>2 DEF Max

\* The function a fold is defined by exists, whatever is folded.
FoldsUpTo(g, X, base, step, k) ==
    /\ g \in [SUBSET (1 .. k) -> X]
    /\ \A s \in SUBSET (1 .. k) :
          g[s] = IF s = {} THEN base ELSE step[Max(s)][g[s \ {Max(s)}]]

LEMMA FoldExists ==
    ASSUME NEW X, NEW base \in X, NEW n \in Nat, NEW step \in [1 .. n -> [X -> X]]
    PROVE  \E g : FoldsUpTo(g, X, base, step, n)
<1> DEFINE T == {k \in Nat : k <= n => \E g : FoldsUpTo(g, X, base, step, k)}
<1>1. 0 \in T
  <2> DEFINE g == [s \in SUBSET (1 .. 0) |-> base]
  <2>1. 1 .. 0 = {}
    OBVIOUS
  <2>2. FoldsUpTo(g, X, base, step, 0)
    BY <2>1 DEF FoldsUpTo
  <2> QED
    BY <2>2
<1>2. ASSUME NEW k \in Nat, k \in T PROVE k + 1 \in T
  <2> SUFFICES ASSUME k + 1 <= n PROVE \E h : FoldsUpTo(h, X, base, step, k + 1)
    OBVIOUS
  <2>1. PICK g : FoldsUpTo(g, X, base, step, k)
    BY <1>2
  <2> DEFINE h == [s \in SUBSET (1 .. k + 1) |->
                     IF k + 1 \in s THEN step[k + 1][g[s \ {k + 1}]] ELSE g[s]]
  <2>2. ASSUME NEW s \in SUBSET (1 .. k + 1), k + 1 \in s
        PROVE  /\ s \ {k + 1} \in SUBSET (1 .. k) /\ s # {} /\ Max(s) = k + 1
               /\ h[s] = step[k + 1][g[s \ {k + 1}]]
               /\ h[s \ {k + 1}] = g[s \ {k + 1}]
               /\ h[s] \in X
    <3>1. s \ {k + 1} \in SUBSET (1 .. k)
      BY <2>2
    <3>2. s \ {k + 1} \in SUBSET (1 .. k + 1) /\ k + 1 \notin s \ {k + 1}
      OBVIOUS
    <3>3. Max(s) = k + 1
      BY <2>2, MaxOfInterval
    <3>4. g[s \ {k + 1}] \in X
      BY <2>1, <3>1 DEF FoldsUpTo
    <3>5. step[k + 1][g[s \ {k + 1}]] \in X
      BY <3>4
    <3> QED
      BY <2>2, <3>1, <3>2, <3>3, <3>5
  <2>3. ASSUME NEW s \in SUBSET (1 .. k + 1), k + 1 \notin s
        PROVE  s \in SUBSET (1 .. k) /\ h[s] = g[s] /\ h[s] \in X
    <3>1. s \in SUBSET (1 .. k)
      BY <2>3
    <3> QED
      BY <2>1, <2>3, <3>1 DEF FoldsUpTo
  <2>4. h \in [SUBSET (1 .. k + 1) -> X]
    BY <2>2, <2>3
  <2>5. ASSUME NEW s \in SUBSET (1 .. k + 1)
        PROVE  h[s] = IF s = {} THEN base ELSE step[Max(s)][h[s \ {Max(s)}]]
    <3>1. CASE k + 1 \in s
      BY <2>2, <3>1
    <3>2. CASE k + 1 \notin s
      <4>1. s \in SUBSET (1 .. k) /\ h[s] = g[s]
        BY <2>3, <3>2
      <4>2. s \ {Max(s)} \in SUBSET (1 .. k + 1) /\ k + 1 \notin s \ {Max(s)}
        BY <3>2
      <4>3. h[s \ {Max(s)}] = g[s \ {Max(s)}]
        BY <2>3, <4>2
      <4> QED
        BY <2>1, <4>1, <4>3 DEF FoldsUpTo
    <3> QED
      BY <3>1, <3>2
  <2> HIDE DEF h
  <2> QED
    BY <2>4, <2>5 DEF FoldsUpTo
<1> HIDE DEF T
<1>3. n \in T
  BY <1>1, <1>2, NatSetInduction
<1> QED
  BY <1>3 DEF T

\* The graph of a fold, read off at the intervals.
LEMMA FoldSteps ==
    ASSUME NEW n \in Nat, NEW k \in 0 .. n
    PROVE  /\ 1 .. k \in SUBSET (1 .. n)
           /\ k # 0 => /\ 1 .. k # {} /\ Max(1 .. k) = k /\ (1 .. k) \ {k} = 1 .. k - 1
           /\ k = 0 => 1 .. k = {}
<1>1. 1 .. k \in SUBSET (1 .. n) /\ (k = 0 => 1 .. k = {})
  OBVIOUS
<1>2. ASSUME k # 0 PROVE 1 .. k # {} /\ Max(1 .. k) = k /\ (1 .. k) \ {k} = 1 .. k - 1
  <2>1. k \in 1 .. k /\ k - 1 \in Nat /\ (k - 1) + 1 = k
    BY <1>2
  <2>2. 1 .. k \in SUBSET (1 .. (k - 1) + 1)
    BY <2>1
  <2>3. Max(1 .. k) = k
    BY <2>1, <2>2, MaxOfInterval
  <2>4. (1 .. k) \ {k} = 1 .. k - 1
    BY <2>1
  <2> QED
    BY <2>1, <2>3, <2>4
<1> QED
  BY <1>1, <1>2
-----------------------------------------------------------------------------
(* Lists of other masterservers.                                           *)

\* The row insertServer adds for a server of a sync list.
SyncedRow(a, g, time) ==
    [addr |-> a, gamename |-> g, f_auth |-> 0, f_direct |-> 0, dt_added |-> time,
     dt_beacon |-> time, dt_sync |-> time, dt_updated |-> time]

\* u is t after the servers a[1], g[1] .. a[n], g[n] of a list have been stored: known
\* servers are marked and nothing else, the others have one new row each.
Synced(t, u, a, g, n, time) ==
    /\ u \in Table /\ DOMAIN t \subseteq DOMAIN u
    /\ \A id \in DOMAIN t : u[id] = IF \E k \in 1 .. n : a[k] = t[id].addr
                                    THEN [t[id] EXCEPT !.dt_sync = time] ELSE t[id]
    /\ \A id \in DOMAIN u \ DOMAIN t : \E k \in 1 .. n :
           u[id] = SyncedRow(a[k], g[k], time) /\ ~ExistServer(t, a[k])
    /\ \A k \in 1 .. n : ExistServer(u, a[k])
    /\ UniqueIn(t) => UniqueIn(u)

LEMMA SyncServerStep ==
    ASSUME NEW t \in Table, NEW a \in Address, NEW g \in GameName, NEW time \in Nat
    PROVE  LET u == SyncServer(t, a, g, time)
           IN  /\ u \in Table /\ DOMAIN t \subseteq DOMAIN u
               /\ \A id \in DOMAIN t : u[id] = IF t[id].addr = a
                                THEN [t[id] EXCEPT !.dt_sync = time] ELSE t[id]
               /\ \A id \in DOMAIN u \ DOMAIN t :
                      u[id] = SyncedRow(a, g, time) /\ ~ExistServer(t, a)
               /\ ExistServer(u, a)
               /\ \A id, j \in DOMAIN u \ DOMAIN t : id = j
<1> DEFINE u == UpdateSyncedServer(t, a, time)
           v == Append(t, SyncedRow(a, g, time))
<1>1. \A id \in DOMAIN t : t[id] \in Row
  BY DEF Table
<1>2. SyncServer(t, a, g, time) = IF ExistServer(t, a) THEN u ELSE v
  BY DEF SyncServer, InsertServer, SyncedRow
<1>3. \A row \in Row : /\ [row EXCEPT !.dt_sync = time] \in Row
                       /\ [row EXCEPT !.dt_sync = time].addr = row.addr
  BY DEF Row
<1>4. DOMAIN u = DOMAIN t /\ \A id \in DOMAIN t : u[id] = IF t[id].addr = a
                                THEN [t[id] EXCEPT !.dt_sync = time] ELSE t[id]
  BY DEF UpdateSyncedServer, RowsOf
<1>5. u \in Table
  <2>1. u \in [1 .. Len(t) -> Row]
    BY <1>1, <1>3, <1>4 DEF UpdateSyncedServer, Table
  <2> QED
    BY <2>1 DEF Table
<1>6. ExistServer(t, a) => ExistServer(u, a)
  <2>1. \A id \in DOMAIN t : t[id].addr = a => u[id].addr = a
    BY <1>1, <1>3, <1>4
  <2> QED
    BY <1>4, <2>1 DEF ExistServer, RowsOf
<1>7. SyncedRow(a, g, time) \in Row /\ SyncedRow(a, g, time).addr = a
  BY DEF SyncedRow, Row, Bit
<1>8. /\ v \in Table /\ DOMAIN v = DOMAIN t \cup {Len(t) + 1} /\ Len(t) + 1 \notin DOMAIN t
      /\ \A id \in DOMAIN t : v[id] = t[id]
      /\ v[Len(t) + 1] = SyncedRow(a, g, time)
  BY <1>7, AppendKeeps DEF Table
<1>9. ExistServer(v, a)
  BY <1>7, <1>8 DEF ExistServer, RowsOf
<1>10. ~ExistServer(t, a) => \A id \in DOMAIN t : t[id].addr # a
  BY DEF ExistServer, RowsOf
<1> HIDE DEF u, v
<1>11. CASE ExistServer(t, a)
  BY <1>2, <1>4, <1>5, <1>6, <1>11
<1>12. CASE ~ExistServer(t, a)
  BY <1>2, <1>8, <1>9, <1>10, <1>12
<1> QED
  BY <1>11, <1>12

\* One more server of the list.
LEMMA SyncedOneMore ==
    ASSUME NEW t \in Table, NEW n \in Nat, NEW time \in Nat,
           NEW a, NEW g, a[n + 1] \in Address, g[n + 1] \in GameName,
           NEW u, Synced(t, u, a, g, n, time)
    PROVE  Synced(t, SyncServer(u, a[n + 1], g[n + 1], time), a, g, n + 1, time)
<1> DEFINE w == SyncServer(u, a[n + 1], g[n + 1], time)
           new == SyncedRow(a[n + 1], g[n + 1], time)
<1>0. n + 1 \in 1 .. n + 1 /\ 1 .. n + 1 = (1 .. n) \cup {n + 1}
  OBVIOUS
<1>1. /\ u \in Table /\ n + 1 \in 1 .. n + 1 /\ 1 .. n + 1 = (1 .. n) \cup {n + 1}
      /\ a[n + 1] \in Address /\ g[n + 1] \in GameName
  BY <1>0 DEF Synced
<1>2. /\ w \in Table /\ DOMAIN u \subseteq DOMAIN w
      /\ \A id \in DOMAIN u : w[id] = IF u[id].addr = a[n + 1]
                       THEN [u[id] EXCEPT !.dt_sync = time] ELSE u[id]
      /\ \A id \in DOMAIN w \ DOMAIN u : w[id] = new /\ ~ExistServer(u, a[n + 1])
      /\ ExistServer(w, a[n + 1])
      /\ \A id, j \in DOMAIN w \ DOMAIN u : id = j
  BY <1>1, SyncServerStep
<1> HIDE DEF w
<1>3. \A id \in DOMAIN t : t[id] \in Row
  BY DEF Table
<1>4. \A id \in DOMAIN u : u[id] \in Row
  BY <1>1 DEF Table
<1>5. \A row \in Row : /\ [row EXCEPT !.dt_sync = time].addr = row.addr
                       /\ [[row EXCEPT !.dt_sync = time] EXCEPT !.dt_sync = time]
                              = [row EXCEPT !.dt_sync = time]
  BY DEF Row
<1>6. ASSUME NEW id \in DOMAIN t
      PROVE  w[id] = IF \E k \in 1 .. n + 1 : a[k] = t[id].addr
                     THEN [t[id] EXCEPT !.dt_sync = time] ELSE t[id]
  <2>1. /\ id \in DOMAIN u
        /\ u[id] = IF \E k \in 1 .. n : a[k] = t[id].addr
                   THEN [t[id] EXCEPT !.dt_sync = time] ELSE t[id]
    BY DEF Synced
  <2>2. u[id].addr = t[id].addr
    BY <1>3, <1>5, <2>1
  <2>3. w[id] = IF t[id].addr = a[n + 1] THEN [u[id] EXCEPT !.dt_sync = time] ELSE u[id]
    BY <1>2, <2>1, <2>2
  <2>4. (\E k \in 1 .. n + 1 : a[k] = t[id].addr)
          <=> (\E k \in 1 .. n : a[k] = t[id].addr) \/ a[n + 1] = t[id].addr
    BY <1>1
  <2>5. [[t[id] EXCEPT !.dt_sync = time] EXCEPT !.dt_sync = time] = [t[id] EXCEPT !.dt_sync = time]
    BY <1>3, <1>5
  <2> QED
    BY <2>1, <2>3, <2>4, <2>5
<1>7. \A aa, gg : [SyncedRow(aa, gg, time) EXCEPT !.dt_sync = time] = SyncedRow(aa, gg, time)
  BY DEF SyncedRow
<1>8. ASSUME NEW id \in DOMAIN w \ DOMAIN t
      PROVE  \E k \in 1 .. n + 1 : w[id] = SyncedRow(a[k], g[k], time) /\ ~ExistServer(t, a[k])
  <2>1. CASE id \in DOMAIN u
    <3>1. PICK k \in 1 .. n : u[id] = SyncedRow(a[k], g[k], time) /\ ~ExistServer(t, a[k])
      BY <2>1 DEF Synced
    <3>2. w[id] = u[id]
      BY <1>2, <1>7, <2>1, <3>1
    <3> QED
      BY <1>1, <3>1, <3>2
  <2>2. CASE id \notin DOMAIN u
    <3>1. w[id] = new /\ ~ExistServer(u, a[n + 1])
      BY <1>2, <2>2
    <3>2. \A i \in DOMAIN t : i \in DOMAIN u /\ u[i].addr = t[i].addr
      BY <1>3, <1>5 DEF Synced
    <3>3. ~ExistServer(t, a[n + 1])
      BY <3>1, <3>2 DEF ExistServer, RowsOf
    <3> QED
      BY <1>1, <3>1, <3>3
  <2> QED
    BY <2>1, <2>2
<1>9. \A id \in DOMAIN u : w[id].addr = u[id].addr
  BY <1>2, <1>4, <1>5
<1>10. ASSUME NEW k \in 1 .. n + 1 PROVE ExistServer(w, a[k])
  <2>1. CASE k \in 1 .. n
    <3>1. ExistServer(u, a[k])
      BY <2>1 DEF Synced
    <3> QED
      BY <1>2, <1>9, <3>1 DEF ExistServer, RowsOf
  <2> QED
    BY <1>1, <1>2, <2>1
<1>11. UniqueIn(t) => UniqueIn(w)
  <2> SUFFICES ASSUME UniqueIn(u), NEW i \in DOMAIN w, NEW j \in DOMAIN w, w[i].addr = w[j].addr
               PROVE  i = j
    BY DEF UniqueIn, Synced
  <2>1. \A id \in DOMAIN w \ DOMAIN u : w[id].addr = a[n + 1] /\ \A x \in DOMAIN u : u[x].addr # a[n + 1]
    BY <1>2 DEF SyncedRow, ExistServer, RowsOf
  <2>2. CASE i \in DOMAIN u /\ j \in DOMAIN u
    BY <1>9, <2>2 DEF UniqueIn
  <2>3. CASE i \in DOMAIN u /\ j \notin DOMAIN u
    BY <1>9, <2>1, <2>3
  <2>4. CASE i \notin DOMAIN u /\ j \in DOMAIN u
    BY <1>9, <2>1, <2>4
  <2>5. CASE i \notin DOMAIN u /\ j \notin DOMAIN u
    BY <1>2, <2>5
  <2> QED
    BY <2>2, <2>3, <2>4, <2>5
<1>12. DOMAIN t \subseteq DOMAIN w
  BY <1>2 DEF Synced
<1> QED
  BY <1>2, <1>6, <1>8, <1>10, <1>11, <1>12 DEF Synced, w

\* The whole list, where r[k] is the table after k servers.
LEMMA SyncChain ==
    ASSUME NEW t \in Table, NEW n \in Nat, NEW time \in Nat,
           NEW a \in [1 .. n -> Address], NEW g \in [1 .. n -> GameName], NEW r, r[0] = t,
           \A k \in 1 .. n : r[k] = SyncServer(r[k - 1], a[k], g[k], time)
    PROVE  Synced(t, r[n], a, g, n, time)
<1> DEFINE T == {k \in Nat : k <= n => Synced(t, r[k], a, g, k, time)}
<1>1. 0 \in T
  <2>1. \A id \in DOMAIN t : ~ \E k \in 1 .. 0 : a[k] = t[id].addr
    OBVIOUS
  <2>2. Synced(t, t, a, g, 0, time)
    BY <2>1 DEF Synced
  <2> QED
    BY <2>2
<1>2. ASSUME NEW k \in Nat, k \in T PROVE k + 1 \in T
  <2> SUFFICES ASSUME k + 1 <= n PROVE Synced(t, r[k + 1], a, g, k + 1, time)
    OBVIOUS
  <2>1. Synced(t, r[k], a, g, k, time)
    BY <1>2
  <2>2. k + 1 \in 1 .. n /\ (k + 1) - 1 = k
    OBVIOUS
  <2>3. a[k + 1] \in Address /\ g[k + 1] \in GameName
    BY <2>2
  <2>4. r[k + 1] = SyncServer(r[k], a[k + 1], g[k + 1], time)
    BY <2>2
  <2> QED
    BY <2>1, <2>3, <2>4, SyncedOneMore
<1> HIDE DEF T
<1>3. n \in T
  BY <1>1, <1>2, NatSetInduction
<1> QED
  BY <1>3 DEF T

LEMMA SyncServerInTable ==
    ASSUME NEW t \in Table, NEW a \in Address, NEW g \in GameName, NEW time \in Nat
    PROVE  SyncServer(t, a, g, time) \in Table
  BY SyncServerStep
-----------------------------------------------------------------------------
(* Chains: what a recursion over a sequence passes through.                *)

\* Induction over sequences for a set.
LEMMA SeqSetInduction ==
    ASSUME NEW S, NEW T, << >> \in T,
           \A s \in Seq(S), e \in S : s \in T => Append(s, e) \in T
    PROVE  Seq(S) \subseteq T
<1> DEFINE N == {n \in Nat : \A s \in Seq(S) : Len(s) = n => s \in T}
<1>1. 0 \in N
  <2>1. \A s \in Seq(S) : Len(s) = 0 => s = << >>
    BY EmptySeq
  <2> QED
    BY <2>1
<1>2. ASSUME NEW n \in Nat, n \in N PROVE n + 1 \in N
  <2> SUFFICES ASSUME NEW s \in Seq(S), Len(s) = n + 1 PROVE s \in T
    OBVIOUS
  <2>1. s # << >>
    BY EmptySeq
  <2>2. PICK u \in Seq(S), e \in S : s = Append(u, e)
    BY <2>1, SequenceEmptyOrAppend
  <2>3. Len(u) = n
    BY <2>2, AppendProperties, LenProperties
  <2> QED
    BY <1>2, <2>2, <2>3
<1> HIDE DEF N
<1>3. Nat \subseteq N
  BY <1>1, <1>2, NatSetInduction
<1> QED
  BY <1>3, LenProperties DEF N

\* r passes through the values of a recursion over 1 .. n.
Chain(r, X, base, step, n) ==
    /\ r \in [0 .. n -> X] /\ r[0] = base
    /\ \A k \in 1 .. n : r[k] = step[k][r[k - 1]]

LEMMA ChainExists ==
    ASSUME NEW X, NEW base \in X, NEW n \in Nat, NEW step \in [1 .. n -> [X -> X]]
    PROVE  \E r : Chain(r, X, base, step, n)
<1>1. PICK g : FoldsUpTo(g, X, base, step, n)
  BY FoldExists
<1> DEFINE r == [k \in 0 .. n |-> g[1 .. k]]
<1>2. ASSUME NEW k \in 0 .. n PROVE g[1 .. k] \in X
  BY <1>1, FoldSteps DEF FoldsUpTo
<1>3. r[0] = base
  <2>1. 1 .. 0 = {} /\ 0 \in 0 .. n /\ 1 .. 0 \in SUBSET (1 .. n)
    OBVIOUS
  <2> QED
    BY <1>1, <2>1 DEF FoldsUpTo
<1>4. ASSUME NEW k \in 1 .. n PROVE r[k] = step[k][r[k - 1]]
  <2>1. k \in 0 .. n /\ k - 1 \in 0 .. n /\ k # 0
    OBVIOUS
  <2>2. /\ 1 .. k \in SUBSET (1 .. n) /\ 1 .. k # {} /\ Max(1 .. k) = k
        /\ (1 .. k) \ {k} = 1 .. k - 1
    BY <2>1, FoldSteps
  <2>3. g[1 .. k] = step[k][g[(1 .. k) \ {k}]]
    BY <1>1, <2>2 DEF FoldsUpTo
  <2> QED
    BY <2>1, <2>2, <2>3
<1> QED
  BY <1>2, <1>3, <1>4 DEF Chain
-----------------------------------------------------------------------------
(* Splitting.                                                              *)

Fields(W) == Seq(Seq(W)) \ {<< >>}

LEMMA SplitSymbolField ==
    ASSUME NEW W, NEW F \in Fields(W), NEW s \in W
    PROVE  SplitSymbol(F, s) \in Fields(W)
<1>1. F \in Seq(Seq(W)) /\ Len(F) \in 1 .. Len(F) /\ << >> \in Seq(W)
  BY EmptySeq DEF Fields
<1>2. CASE s = Backslash
  BY <1>1, <1>2, AppendProperties DEF SplitSymbol, Fields
<1>3. CASE s # Backslash
  <2>1. F[Len(F)] \in Seq(W)
    BY <1>1, ElementOfSeq
  <2>2. Append(F[Len(F)], s) \in Seq(W)
    BY <2>1, AppendProperties
  <2>3. [F EXCEPT ![Len(F)] = Append(F[Len(F)], s)] \in Seq(Seq(W))
    BY <1>1, <2>2, ExceptSeq
  <2>4. Len([F EXCEPT ![Len(F)] = Append(F[Len(F)], s)]) = Len(F)
    BY <1>1, <2>2, ExceptSeq
  <2> QED
    BY <1>1, <1>3, <2>3, <2>4, EmptySeq DEF SplitSymbol, Fields
<1> QED
  BY <1>2, <1>3

\* The fold of Split, one symbol at a time.
SplitChain(r, b) ==
    /\ r[0] = << << >> >>
    /\ \A k \in 1 .. Len(b) : r[k] = SplitSymbol(r[k - 1], b[k])

LEMMA SplitPasses ==
    ASSUME NEW W, NEW b \in Seq(W)
    PROVE  \E r : SplitChain(r, b) /\ r[Len(b)] = Split(b)
<1> DEFINE n == Len(b)
           X == Fields(W)
           step == [k \in 1 .. n |-> [F \in X |-> SplitSymbol(F, b[k])]]
           eq(iter) == iter = [s \in SUBSET (1 .. n) |-> IF s = {} THEN << << >> >>
                                  ELSE SplitSymbol(iter[s \ {Max(s)}], b[Max(s)])]
<1>1. n \in Nat /\ DOMAIN b = 1 .. n /\ \A k \in 1 .. n : b[k] \in W
  OBVIOUS
<1>2. Split(b) = (CHOOSE iter : eq(iter))[1 .. n]
  <2>1. Split(b) = (CHOOSE iter : iter = [s \in SUBSET DOMAIN b |-> IF s = {} THEN << << >> >>
                     ELSE SplitSymbol(iter[s \ {Max(s)}], b[Max(s)])])[DOMAIN b]
    BY DEF Split, FoldLeft, MapThenFoldSet
  <2> QED
    BY <1>1, <2>1
<1>3. << << >> >> \in X
  BY EmptySeq DEF Fields
<1>4. step \in [1 .. n -> [X -> X]]
  <2>1. \A k \in 1 .. n, F \in X : SplitSymbol(F, b[k]) \in X
    BY <1>1, SplitSymbolField
  <2> HIDE DEF n, X
  <2> QED
    BY <2>1
<1> DEFINE f == CHOOSE iter : eq(iter)
<1>5. eq(f)
  <2>1. PICK iter : FoldsUpTo(iter, X, << << >> >>, step, n)
    <3> HIDE DEF step, n, X
    <3> QED
      BY <1>1, <1>3, <1>4, FoldExists
  <2>2. ASSUME NEW s \in SUBSET (1 .. n), s # {}
        PROVE  step[Max(s)][iter[s \ {Max(s)}]] = SplitSymbol(iter[s \ {Max(s)}], b[Max(s)])
    <3>1. Max(s) \in s
      BY <1>1, <2>2, MaxIsHighest
    <3>2. Max(s) \in 1 .. n /\ s \ {Max(s)} \in SUBSET (1 .. n)
      BY <3>1
    <3>3. iter[s \ {Max(s)}] \in X
      BY <2>1, <3>2 DEF FoldsUpTo
    <3> HIDE DEF X
    <3> QED
      BY <3>2, <3>3
  <2>3. eq(iter)
    <3> HIDE DEF step, n, X
    <3> QED
      BY <2>1, <2>2 DEF FoldsUpTo
  <2> HIDE DEF eq
  <2> QED
    BY <2>3
<1> DEFINE r == [k \in 0 .. n |-> f[1 .. k]]
<1> HIDE DEF f, step
<1>6. r[0] = << << >> >>
  <2>1. 1 .. 0 = {} /\ 0 \in 0 .. n
    BY <1>1
  <2> QED
    BY <1>5, <2>1
<1>7. ASSUME NEW k \in 1 .. n PROVE r[k] = SplitSymbol(r[k - 1], b[k])
  <2>1. k \in 0 .. n /\ k - 1 \in 0 .. n /\ k # 0
    BY <1>1
  <2>2. /\ 1 .. k \in SUBSET (1 .. n) /\ 1 .. k # {} /\ Max(1 .. k) = k
        /\ (1 .. k) \ {k} = 1 .. k - 1
    BY <1>1, <2>1, FoldSteps
  <2>3. f[1 .. k] = SplitSymbol(f[(1 .. k) \ {k}], b[k])
    BY <1>5, <2>2
  <2> QED
    BY <2>1, <2>2, <2>3
<1>8. r[n] = Split(b)
  BY <1>1, <1>2 DEF f
<1> HIDE DEF r
<1>9. SplitChain(r, b)
  BY <1>6, <1>7 DEF SplitChain
<1> HIDE DEF n
<1> QED
  BY <1>8, <1>9 DEF n

LEMMA SplitChainTyped ==
    ASSUME NEW W, NEW b \in Seq(W), NEW r, SplitChain(r, b), NEW k \in 0 .. Len(b)
    PROVE  r[k] \in Fields(W)
<1> DEFINE T == {j \in Nat : j <= Len(b) => r[j] \in Fields(W)}
<1>1. 0 \in T
  <2>1. << << >> >> \in Fields(W)
    BY EmptySeq DEF Fields
  <2> QED
    BY <2>1 DEF SplitChain
<1>2. ASSUME NEW j \in Nat, j \in T PROVE j + 1 \in T
  <2> SUFFICES ASSUME j + 1 <= Len(b) PROVE r[j + 1] \in Fields(W)
    OBVIOUS
  <2>1. j + 1 \in 1 .. Len(b) /\ (j + 1) - 1 = j /\ r[j] \in Fields(W) /\ b[j + 1] \in W
    BY <1>2
  <2> QED
    BY <2>1, SplitSymbolField DEF SplitChain
<1> HIDE DEF T
<1>3. Nat \subseteq T
  BY <1>1, <1>2, NatSetInduction
<1> QED
  BY <1>3 DEF T

\* Two chains of texts that agree as far as k agree as far as k.
LEMMA SplitChainsAgree ==
    ASSUME NEW W, NEW b \in Seq(W), NEW c \in Seq(W), NEW r, NEW q,
           SplitChain(r, b), SplitChain(q, c),
           NEW k \in Nat, k <= Len(b), k <= Len(c), \A i \in 1 .. k : b[i] = c[i]
    PROVE  r[k] = q[k]
<1> DEFINE T == {j \in Nat : j <= k => r[j] = q[j]}
<1>1. 0 \in T
  BY DEF SplitChain
<1>2. ASSUME NEW j \in Nat, j \in T PROVE j + 1 \in T
  <2> SUFFICES ASSUME j + 1 <= k PROVE r[j + 1] = q[j + 1]
    OBVIOUS
  <2>1. j + 1 \in 1 .. k /\ j + 1 \in 1 .. Len(b) /\ j + 1 \in 1 .. Len(c) /\ (j + 1) - 1 = j
    OBVIOUS
  <2> QED
    BY <1>2, <2>1 DEF SplitChain
<1> HIDE DEF T
<1>3. Nat \subseteq T
  BY <1>1, <1>2, NatSetInduction
<1> QED
  BY <1>3 DEF T

LEMMA SplitOfNothing == Split(<< >>) = << << >> >>
<1>1. << >> \in Seq({}) /\ Len(<< >>) = 0
  BY EmptySeq
<1>2. PICK r : SplitChain(r, << >>) /\ r[Len(<< >>)] = Split(<< >>)
  BY <1>1, SplitPasses
<1> QED
  BY <1>1, <1>2 DEF SplitChain

LEMMA SplitTyped == ASSUME NEW W, NEW b \in Seq(W) PROVE Split(b) \in Fields(W)
<1>1. PICK r : SplitChain(r, b) /\ r[Len(b)] = Split(b)
  BY SplitPasses
<1>2. Len(b) \in 0 .. Len(b)
  OBVIOUS
<1> QED
  BY <1>1, <1>2, SplitChainTyped

\* Splitting a longer text.
LEMMA SplitOneMore ==
    ASSUME NEW W, NEW b \in Seq(W), NEW s \in W
    PROVE  Split(Append(b, s)) = SplitSymbol(Split(b), s)
<1> DEFINE c == Append(b, s)
<1>1. /\ c \in Seq(W) /\ Len(c) = Len(b) + 1 /\ Len(b) \in Nat
      /\ \A i \in 1 .. Len(b) : c[i] = b[i]
      /\ c[Len(b) + 1] = s
  BY AppendProperties, LenProperties
<1> HIDE DEF c
<1>2. PICK r : SplitChain(r, b) /\ r[Len(b)] = Split(b)
  BY SplitPasses
<1>3. PICK q : SplitChain(q, c) /\ q[Len(c)] = Split(c)
  BY <1>1, SplitPasses
<1>4. r[Len(b)] = q[Len(b)]
  <2>1. Len(b) <= Len(b) /\ Len(b) <= Len(c) /\ \A i \in 1 .. Len(b) : b[i] = c[i]
    BY <1>1
  <2> QED
    BY <1>1, <1>2, <1>3, <2>1, SplitChainsAgree
<1>5. q[Len(c)] = SplitSymbol(q[Len(b)], s)
  BY <1>1, <1>3 DEF SplitChain
<1> QED
  BY <1>2, <1>3, <1>4, <1>5 DEF c

\* A backslash and the words after it are one more field.
LEMMA SplitField ==
    ASSUME NEW W, NEW b \in Seq(W), Backslash \in W, NEW ws \in Seq(W \ {Backslash})
    PROVE  Split((b \o <<Backslash>>) \o ws) = Append(Split(b), ws)
<1> DEFINE c == b \o <<Backslash>>
           F == Split(b)
           T == {v \in Seq(W \ {Backslash}) : Split(c \o v) = Append(F, v)}
<1>1. c = Append(b, Backslash) /\ c \in Seq(W)
  BY AppendIsConcat, AppendProperties
<1>2. F \in Seq(Seq(W)) /\ F \in Fields(W)
  BY SplitTyped DEF Fields
<1> HIDE DEF c, F
<1>3. << >> \in T
  <2>1. c \o << >> = c
    BY <1>1, ConcatEmptySeq
  <2>2. Split(c) = Append(F, << >>)
    BY <1>1, SplitOneMore DEF SplitSymbol, F
  <2> QED
    BY <2>1, <2>2, EmptySeq
<1>4. ASSUME NEW v \in Seq(W \ {Backslash}), NEW s \in W \ {Backslash}, v \in T
      PROVE  Append(v, s) \in T
  <2>1. v \in Seq(W)
    BY SeqMonotonic
  <2>2. c \o Append(v, s) = Append(c \o v, s) /\ c \o v \in Seq(W)
    <3>1. <<s>> \in Seq(W) /\ c \o v \in Seq(W) /\ s \in W
      BY <1>1, <2>1, ConcatProperties
    <3>2. Append(v, s) = v \o <<s>> /\ Append(c \o v, s) = (c \o v) \o <<s>>
      BY <2>1, <3>1, AppendIsConcat
    <3> QED
      BY <1>1, <2>1, <3>1, <3>2, ConcatAssociative
  <2>3. Split(c \o Append(v, s)) = SplitSymbol(Append(F, v), s)
    BY <1>4, <2>2, SplitOneMore
  <2>4. SplitSymbol(Append(F, v), s) = Append(F, Append(v, s))
    <3>1. /\ Append(F, v) \in Seq(Seq(W)) /\ Len(Append(F, v)) = Len(F) + 1 /\ Append(F, v)[Len(F) + 1] = v
          /\ \A i \in 1 .. Len(F) : Append(F, v)[i] = F[i]
      BY <1>2, <2>1, AppendProperties
    <3>2. SplitSymbol(Append(F, v), s) = [Append(F, v) EXCEPT ![Len(F) + 1] = Append(v, s)]
      BY <3>1 DEF SplitSymbol
    <3>3. Append(v, s) \in Seq(W)
      BY <2>1
    <3>4. /\ [Append(F, v) EXCEPT ![Len(F) + 1] = Append(v, s)] \in Seq(Seq(W))
          /\ Len([Append(F, v) EXCEPT ![Len(F) + 1] = Append(v, s)]) = Len(F) + 1
          /\ \A j \in 1 .. Len(F) + 1 : [Append(F, v) EXCEPT ![Len(F) + 1] = Append(v, s)][j]
                                           = IF j = Len(F) + 1 THEN Append(v, s) ELSE Append(F, v)[j]
      <4> DEFINE G == Append(F, v)
      <4>1. G \in Seq(Seq(W)) /\ Len(G) = Len(F) + 1 /\ Len(F) + 1 \in 1 .. Len(G)
        BY <1>2, <3>1, LenProperties
      <4> HIDE DEF G
      <4>2. /\ [G EXCEPT ![Len(F) + 1] = Append(v, s)] \in Seq(Seq(W))
            /\ Len([G EXCEPT ![Len(F) + 1] = Append(v, s)]) = Len(G)
            /\ \A j \in 1 .. Len(G) : [G EXCEPT ![Len(F) + 1] = Append(v, s)][j]
                                         = IF j = Len(F) + 1 THEN Append(v, s) ELSE G[j]
        BY <3>3, <4>1, ExceptSeq
      <4> QED
        BY <4>1, <4>2 DEF G
    <3>5. /\ Append(F, Append(v, s)) \in Seq(Seq(W)) /\ Len(Append(F, Append(v, s))) = Len(F) + 1
          /\ Append(F, Append(v, s))[Len(F) + 1] = Append(v, s)
          /\ \A i \in 1 .. Len(F) : Append(F, Append(v, s))[i] = F[i]
      BY <1>2, <3>3, AppendProperties
    <3>6. \A j \in 1 .. Len(F) + 1 : [Append(F, v) EXCEPT ![Len(F) + 1] = Append(v, s)][j]
                                           = Append(F, Append(v, s))[j]
      BY <1>2, <3>1, <3>4, <3>5
    <3> QED
      BY <3>2, <3>4, <3>5, <3>6, SeqEqual, ZenonT(30)
  <2> QED
    BY <2>3, <2>4, AppendProperties
<1> HIDE DEF T
<1>5. Seq(W \ {Backslash}) \subseteq T
  BY <1>3, <1>4, SeqSetInduction
<1> QED
  BY <1>5 DEF T, c, F
-----------------------------------------------------------------------------
(* Parsing.                                                                *)

\* W has the words that overrides put in.
Closed(W) == /\ \A w \in DOMAIN LowerCase : LowerCase[w] \in W
             /\ \A w \in DOMAIN ValidKeys : ValidKeys[w] \in W

Entries(W) == [key : Seq(W), value : Seq(W)]

States(W) == [key : Seq(W), entries : Seq(Entries(W))]

Start == [key |-> << >>, entries |-> << >>]

\* What the loop of parseGameSpy0Buffer makes of fields.
StoreAll(G) == FoldLeft(StoreField, Start, G)

Scan(b) == StoreAll(Tail(Split(b)))

LEMMA OverrideKeyTyped ==
    ASSUME NEW W, Closed(W), NEW raw \in Seq(W)
    PROVE  OverrideKey(raw) \in Seq(W)
<1> DEFINE key == ToLower(raw)
<1>1. key \in Seq(W)
  <2>1. \A i \in 1 .. Len(raw) :
           (IF raw[i] \in DOMAIN LowerCase THEN LowerCase[raw[i]] ELSE raw[i]) \in W
    BY DEF Closed
  <2> QED
    BY <2>1, LenProperties DEF ToLower
<1> HIDE DEF key
<1>2. ASSUME Len(key) = 1 \/ Len(key) = 2, key[1] \in DOMAIN ValidKeys
      PROVE  <<ValidKeys[key[1]]>> \o Tail(key) \in Seq(W)
  <2>1. key # << >> /\ ValidKeys[key[1]] \in W
    BY <1>1, <1>2, EmptySeq DEF Closed
  <2>2. Tail(key) \in Seq(W) /\ <<ValidKeys[key[1]]>> \in Seq(W)
    BY <1>1, <2>1, HeadTailProperties
  <2> QED
    BY <2>2, ConcatProperties
<1>3. \/ OverrideKey(raw) = key
      \/ /\ Len(key) = 1 \/ Len(key) = 2
         /\ key[1] \in DOMAIN ValidKeys
         /\ OverrideKey(raw) = <<ValidKeys[key[1]]>> \o Tail(key)
  BY DEF OverrideKey, key
<1> QED
  BY <1>1, <1>2, <1>3

LEMMA StoreFieldTyped ==
    ASSUME NEW W, Closed(W), NEW state \in States(W), NEW field \in Seq(W)
    PROVE  StoreField(state, field) \in States(W)
<1>1. state.key \in Seq(W) /\ state.entries \in Seq(Entries(W)) /\ << >> \in Seq(W)
  BY EmptySeq DEF States
<1>2. OverrideKey(field) \in Seq(W)
  BY OverrideKeyTyped
<1>3. CASE state.key = << >>
  BY <1>2, <1>3 DEF StoreField, States
<1>4. CASE state.key # << >>
  <2>1. [key |-> state.key, value |-> field] \in Entries(W)
    BY <1>1 DEF Entries
  <2>2. Append(state.entries, [key |-> state.key, value |-> field]) \in Seq(Entries(W))
    BY <1>1, <2>1, AppendProperties
  <2> QED
    BY <1>1, <1>4, <2>2 DEF StoreField, States
<1> QED
  BY <1>3, <1>4

\* The fold over the fields, one field at a time.
StoreChain(r, G) ==
    /\ r[0] = Start
    /\ \A k \in 1 .. Len(G) : r[k] = StoreField(r[k - 1], G[k])

LEMMA StartTyped == \A W : Start \in States(W)
  BY EmptySeq DEF Start, States

LEMMA StorePasses ==
    ASSUME NEW W, Closed(W), NEW b \in Seq(Seq(W))
    PROVE  \E r : StoreChain(r, b) /\ r[Len(b)] = StoreAll(b)
<1> DEFINE n == Len(b)
           X == States(W)
           step == [k \in 1 .. n |-> [F \in X |-> StoreField(F, b[k])]]
           eq(iter) == iter = [s \in SUBSET (1 .. n) |-> IF s = {} THEN Start
                                  ELSE StoreField(iter[s \ {Max(s)}], b[Max(s)])]
<1>1. n \in Nat /\ DOMAIN b = 1 .. n /\ \A k \in 1 .. n : b[k] \in Seq(W)
  BY LenProperties, ElementOfSeq
<1>2. StoreAll(b) = (CHOOSE iter : eq(iter))[1 .. n]
  <2>1. StoreAll(b) = (CHOOSE iter : iter = [s \in SUBSET DOMAIN b |-> IF s = {} THEN Start
                     ELSE StoreField(iter[s \ {Max(s)}], b[Max(s)])])[DOMAIN b]
    BY DEF StoreAll, FoldLeft, MapThenFoldSet
  <2> QED
    BY <1>1, <2>1
<1>3. Start \in X
  BY StartTyped
<1>4. step \in [1 .. n -> [X -> X]]
  <2>1. \A k \in 1 .. n, F \in X : StoreField(F, b[k]) \in X
    BY <1>1, StoreFieldTyped
  <2> HIDE DEF n, X
  <2> QED
    BY <2>1
<1> DEFINE f == CHOOSE iter : eq(iter)
<1>5. eq(f)
  <2>1. PICK iter : FoldsUpTo(iter, X, Start, step, n)
    <3> HIDE DEF step, n, X
    <3> QED
      BY <1>1, <1>3, <1>4, FoldExists
  <2>2. ASSUME NEW s \in SUBSET (1 .. n), s # {}
        PROVE  step[Max(s)][iter[s \ {Max(s)}]] = StoreField(iter[s \ {Max(s)}], b[Max(s)])
    <3>1. Max(s) \in s
      BY <1>1, <2>2, MaxIsHighest
    <3>2. Max(s) \in 1 .. n /\ s \ {Max(s)} \in SUBSET (1 .. n)
      BY <3>1
    <3>3. iter[s \ {Max(s)}] \in X
      BY <2>1, <3>2 DEF FoldsUpTo
    <3> HIDE DEF X
    <3> QED
      BY <3>2, <3>3
  <2>3. eq(iter)
    <3> HIDE DEF step, n, X
    <3> QED
      BY <2>1, <2>2 DEF FoldsUpTo
  <2> HIDE DEF eq
  <2> QED
    BY <2>3
<1> DEFINE r == [k \in 0 .. n |-> f[1 .. k]]
<1> HIDE DEF f, step
<1>6. r[0] = Start
  <2>1. 1 .. 0 = {} /\ 0 \in 0 .. n
    BY <1>1
  <2> QED
    BY <1>5, <2>1
<1>7. ASSUME NEW k \in 1 .. n PROVE r[k] = StoreField(r[k - 1], b[k])
  <2>1. k \in 0 .. n /\ k - 1 \in 0 .. n /\ k # 0
    BY <1>1
  <2>2. /\ 1 .. k \in SUBSET (1 .. n) /\ 1 .. k # {} /\ Max(1 .. k) = k
        /\ (1 .. k) \ {k} = 1 .. k - 1
    BY <1>1, <2>1, FoldSteps
  <2>3. f[1 .. k] = StoreField(f[(1 .. k) \ {k}], b[k])
    BY <1>5, <2>2
  <2> QED
    BY <2>1, <2>2, <2>3
<1>8. r[n] = StoreAll(b)
  BY <1>1, <1>2 DEF f
<1> HIDE DEF r
<1>9. StoreChain(r, b)
  BY <1>6, <1>7 DEF StoreChain
<1> HIDE DEF n
<1> QED
  BY <1>8, <1>9 DEF n

LEMMA StoreChainTyped ==
    ASSUME NEW W, Closed(W), NEW b \in Seq(Seq(W)), NEW r, StoreChain(r, b), NEW k \in 0 .. Len(b)
    PROVE  r[k] \in States(W)
<1> DEFINE T == {j \in Nat : j <= Len(b) => r[j] \in States(W)}
<1>1. 0 \in T
  BY StartTyped DEF StoreChain
<1>2. ASSUME NEW j \in Nat, j \in T PROVE j + 1 \in T
  <2> SUFFICES ASSUME j + 1 <= Len(b) PROVE r[j + 1] \in States(W)
    OBVIOUS
  <2>1. j + 1 \in 1 .. Len(b) /\ (j + 1) - 1 = j /\ r[j] \in States(W) /\ b[j + 1] \in Seq(W)
    BY <1>2, ElementOfSeq, LenProperties
  <2> QED
    BY <2>1, StoreFieldTyped DEF StoreChain
<1> HIDE DEF T
<1>3. Nat \subseteq T
  BY <1>1, <1>2, NatSetInduction
<1> QED
  BY <1>3, LenProperties DEF T

LEMMA StoreChainsAgree ==
    ASSUME NEW S, NEW b \in Seq(S), NEW c \in Seq(S), NEW r, NEW q,
           StoreChain(r, b), StoreChain(q, c),
           NEW k \in Nat, k <= Len(b), k <= Len(c), \A i \in 1 .. k : b[i] = c[i]
    PROVE  r[k] = q[k]
<1> DEFINE T == {j \in Nat : j <= k => r[j] = q[j]}
<1>1. 0 \in T
  BY DEF StoreChain
<1>2. ASSUME NEW j \in Nat, j \in T PROVE j + 1 \in T
  <2> SUFFICES ASSUME j + 1 <= k PROVE r[j + 1] = q[j + 1]
    OBVIOUS
  <2>1. j + 1 \in 1 .. k /\ j + 1 \in 1 .. Len(b) /\ j + 1 \in 1 .. Len(c) /\ (j + 1) - 1 = j
    BY LenProperties
  <2> QED
    BY <1>2, <2>1 DEF StoreChain
<1> HIDE DEF T
<1>3. Nat \subseteq T
  BY <1>1, <1>2, NatSetInduction
<1> QED
  BY <1>3 DEF T

LEMMA StoreOfNothing == ASSUME NEW W, Closed(W) PROVE StoreAll(<< >>) = Start
<1>1. << >> \in Seq(Seq(W)) /\ Len(<< >>) = 0
  BY EmptySeq
<1>2. PICK r : StoreChain(r, << >>) /\ r[Len(<< >>)] = StoreAll(<< >>)
  BY <1>1, StorePasses
<1> QED
  BY <1>1, <1>2 DEF StoreChain

LEMMA StoreTyped ==
    ASSUME NEW W, Closed(W), NEW b \in Seq(Seq(W))
    PROVE  StoreAll(b) \in States(W)
<1>1. PICK r : StoreChain(r, b) /\ r[Len(b)] = StoreAll(b)
  BY StorePasses
<1>2. Len(b) \in 0 .. Len(b)
  BY LenProperties
<1> QED
  BY <1>1, <1>2, StoreChainTyped

LEMMA StoreOneMore ==
    ASSUME NEW W, Closed(W), NEW b \in Seq(Seq(W)), NEW s \in Seq(W)
    PROVE  StoreAll(Append(b, s)) = StoreField(StoreAll(b), s)
<1> DEFINE c == Append(b, s)
<1>1. /\ c \in Seq(Seq(W)) /\ Len(c) = Len(b) + 1 /\ Len(b) \in Nat
      /\ \A i \in 1 .. Len(b) : c[i] = b[i]
      /\ c[Len(b) + 1] = s
  BY AppendProperties, LenProperties
<1> HIDE DEF c
<1>2. PICK r : StoreChain(r, b) /\ r[Len(b)] = StoreAll(b)
  BY StorePasses
<1>3. PICK q : StoreChain(q, c) /\ q[Len(c)] = StoreAll(c)
  BY <1>1, StorePasses
<1>4. r[Len(b)] = q[Len(b)]
  <2>1. /\ b \in Seq(Seq(W)) /\ c \in Seq(Seq(W)) /\ StoreChain(r, b) /\ StoreChain(q, c)
        /\ Len(b) \in Nat /\ Len(b) <= Len(b) /\ Len(b) <= Len(c)
        /\ \A i \in 1 .. Len(b) : b[i] = c[i]
    BY <1>1, <1>2, <1>3
  <2> QED
    BY <2>1, StoreChainsAgree
<1>5. q[Len(c)] = StoreField(q[Len(b)], s)
  BY <1>1, <1>3 DEF StoreChain
<1> QED
  BY <1>2, <1>3, <1>4, <1>5 DEF c

LEMMA ScanTyped ==
    ASSUME NEW W, Closed(W), NEW b \in Seq(W)
    PROVE  Scan(b) \in States(W)
<1>1. Split(b) \in Seq(Seq(W)) /\ Split(b) # << >>
  BY SplitTyped DEF Fields
<1> QED
  BY <1>1, HeadTailProperties, StoreTyped DEF Scan

LEMMA ScanOfNothing == ASSUME NEW W, Closed(W) PROVE Scan(<< >>) = Start
<1>1. Tail(<< << >> >>) = << >>
  <2>1. << << >> >> \in Seq(Seq({})) /\ Len(<< << >> >>) = 1
    <3>1. << >> \in Seq({})
      BY EmptySeq
    <3> QED
      BY <3>1
  <2>. << << >> >> # << >>
    BY <2>1, EmptySeq
  <2>2. Tail(<< << >> >>) \in Seq(Seq({})) /\ Len(Tail(<< << >> >>)) = 0
    BY <2>1, HeadTailProperties
  <2> QED
    BY <2>2, EmptySeq
<1> QED
  BY <1>1, SplitOfNothing, StoreOfNothing DEF Scan

\* A backslash and a field are one turn of the parser's loop.
LEMMA ScanField ==
    ASSUME NEW W, Closed(W), Backslash \in W, NEW b \in Seq(W), NEW ws \in Seq(W \ {Backslash})
    PROVE  Scan((b \o <<Backslash>>) \o ws) = StoreField(Scan(b), ws)
<1> DEFINE F == Split(b)
<1>1. F \in Seq(Seq(W)) /\ F # << >> /\ ws \in Seq(W)
  BY SplitTyped, SeqMonotonic DEF Fields
<1>2. Split((b \o <<Backslash>>) \o ws) = Append(F, ws)
  BY SplitField
<1> HIDE DEF F
<1>3. Tail(Append(F, ws)) = Append(Tail(F), ws) /\ Tail(F) \in Seq(Seq(W))
  BY <1>1, HeadTailAppend, HeadTailProperties
<1> QED
  BY <1>1, <1>2, <1>3, StoreOneMore DEF Scan, F

\* A word that no override replaces.
Plain(k) == k # Backslash /\ k \notin DOMAIN LowerCase /\ k \notin DOMAIN ValidKeys

LEMMA PlainKey ==
    ASSUME NEW k, Plain(k)
    PROVE  ToLower(<<k>>) = <<k>> /\ OverrideKey(<<k>>) = <<k>>
<1>1. ToLower(<<k>>) = <<k>>
  BY DEF ToLower, Plain
<1> QED
  BY <1>1 DEF OverrideKey, Plain

Pair(k, v) == <<Backslash, k, Backslash>> \o v

Entry(k, v) == [key |-> <<k>>, value |-> v]

\* Between two pairs the parser waits for a key.
LEMMA ScanKey ==
    ASSUME NEW W, Closed(W), Backslash \in W, NEW b \in Seq(W), Scan(b).key = << >>,
           NEW k \in W, Plain(k)
    PROVE  Scan(b \o <<Backslash, k>>) = [key |-> <<k>>, entries |-> Scan(b).entries]
<1>1. <<k>> \in Seq(W \ {Backslash}) /\ <<k>> \in Seq(W) /\ <<Backslash>> \in Seq(W)
  BY DEF Plain
<1>2. b \o <<Backslash, k>> = (b \o <<Backslash>>) \o <<k>>
  <2>1. <<Backslash, k>> = <<Backslash>> \o <<k>>
    OBVIOUS
  <2>2. (b \o <<Backslash>>) \o <<k>> = b \o (<<Backslash>> \o <<k>>)
    BY <1>1, ConcatAssociative
  <2> QED
    BY <2>1, <2>2
<1>3. Scan((b \o <<Backslash>>) \o <<k>>) = StoreField(Scan(b), <<k>>)
  BY <1>1, ScanField
<1>4. Scan(b) \in States(W)
  BY ScanTyped
<1>5. StoreField(Scan(b), <<k>>) = [key |-> <<k>>, entries |-> Scan(b).entries]
  BY <1>4, PlainKey DEF StoreField, States
<1> QED
  BY <1>2, <1>3, <1>5

LEMMA ScanPair ==
    ASSUME NEW W, Closed(W), Backslash \in W, NEW b \in Seq(W), Scan(b).key = << >>,
           NEW k \in W, Plain(k), NEW v \in Seq(W \ {Backslash})
    PROVE  Scan(b \o Pair(k, v)) = [key |-> << >>, entries |-> Append(Scan(b).entries, Entry(k, v))]
<1> DEFINE c == b \o <<Backslash, k>>
<1>1. /\ <<Backslash, k>> \in Seq(W) /\ <<Backslash>> \in Seq(W) /\ v \in Seq(W)
      /\ c \in Seq(W) /\ c \o <<Backslash>> \in Seq(W)
  BY SeqMonotonic, ConcatProperties
<1>2. b \o Pair(k, v) = (c \o <<Backslash>>) \o v
  <2>1. <<Backslash, k, Backslash>> = <<Backslash, k>> \o <<Backslash>>
    OBVIOUS
  <2>2. <<Backslash, k>> \o <<Backslash>> \in Seq(W)
    BY <1>1, ConcatProperties
  <2>3. b \o Pair(k, v) = (b \o (<<Backslash, k>> \o <<Backslash>>)) \o v
    BY <1>1, <2>1, <2>2, ConcatAssociative, SMTT(30) DEF Pair
  <2>4. b \o (<<Backslash, k>> \o <<Backslash>>) = c \o <<Backslash>>
    BY <1>1, ConcatAssociative
  <2> QED
    BY <2>3, <2>4
<1>3. Scan(c) = [key |-> <<k>>, entries |-> Scan(b).entries]
  BY ScanKey
<1> HIDE DEF c
<1>4. Scan((c \o <<Backslash>>) \o v) = StoreField(Scan(c), v)
  BY <1>1, ScanField
<1>5. StoreField(Scan(c), v) = [key |-> << >>, entries |-> Append(Scan(b).entries, Entry(k, v))]
  BY <1>3 DEF StoreField, Entry
<1> QED
  BY <1>2, <1>4, <1>5

\* An empty key is passed over.
LEMMA ScanBlank ==
    ASSUME NEW W, Closed(W), Backslash \in W, NEW b \in Seq(W), Scan(b).key = << >>
    PROVE  Scan(b \o <<Backslash>>) = Scan(b)
<1>1. << >> \in Seq(W \ {Backslash}) /\ b \o <<Backslash>> \in Seq(W)
  BY EmptySeq, ConcatProperties
<1>2. (b \o <<Backslash>>) \o << >> = b \o <<Backslash>>
  BY <1>1, ConcatEmptySeq
<1>3. OverrideKey(<< >>) = << >>
  <2>1. ToLower(<< >>) = << >>
    BY DEF ToLower
  <2>2. Len(<< >>) = 0
    BY EmptySeq
  <2> QED
    BY <2>1, <2>2 DEF OverrideKey
<1>4. Scan(b) \in States(W)
  BY ScanTyped
<1>5. StoreField(Scan(b), << >>) = Scan(b)
  BY <1>3, <1>4 DEF StoreField, States
<1> QED
  BY <1>1, <1>2, <1>5, ScanField
-----------------------------------------------------------------------------
(* Picking.                                                                *)

Taken(found, seq, ids, i) == IF i \in ids THEN Append(found, seq[i]) ELSE found

PickChain(r, seq, ids) ==
    /\ r[0] = << >>
    /\ \A k \in 1 .. Len(seq) : r[k] = Taken(r[k - 1], seq, ids, k)

LEMMA PickPasses ==
    ASSUME NEW S, NEW seq \in Seq(S), NEW ids
    PROVE  \E r : PickChain(r, seq, ids) /\ r[Len(seq)] = Pick(seq, ids)
<1> DEFINE n == Len(seq)
           X == Seq(S)
           step == [k \in 1 .. n |-> [F \in X |-> Taken(F, seq, ids, k)]]
           id == [i \in DOMAIN seq |-> i]
           eq(iter) == iter = [s \in SUBSET (1 .. n) |-> IF s = {} THEN << >>
                   ELSE IF id[Max(s)] \in ids THEN Append(iter[s \ {Max(s)}], seq[id[Max(s)]])
                        ELSE iter[s \ {Max(s)}]]
<1>1. n \in Nat /\ DOMAIN seq = 1 .. n /\ \A k \in 1 .. n : seq[k] \in S
  BY LenProperties, ElementOfSeq
<1>2. Pick(seq, ids) = (CHOOSE iter : eq(iter))[1 .. n]
  <2>1. Pick(seq, ids) = (CHOOSE iter : iter = [s \in SUBSET DOMAIN id |-> IF s = {} THEN << >>
           ELSE IF id[Max(s)] \in ids THEN Append(iter[s \ {Max(s)}], seq[id[Max(s)]])
                ELSE iter[s \ {Max(s)}]])[DOMAIN id]
    BY DEF Pick, FoldLeftDomain, FoldLeft, MapThenFoldSet
  <2>2. DOMAIN id = 1 .. n
    BY <1>1
  <2> HIDE DEF id, n
  <2> QED
    BY <2>1, <2>2
<1>3. << >> \in X
  BY EmptySeq
<1>4. step \in [1 .. n -> [X -> X]]
  <2>1. \A k \in 1 .. n, F \in X : Taken(F, seq, ids, k) \in X
    BY <1>1, AppendProperties DEF Taken
  <2> HIDE DEF n, X
  <2> QED
    BY <2>1
<1> DEFINE f == CHOOSE iter : eq(iter)
<1>5. eq(f)
  <2>1. PICK iter : FoldsUpTo(iter, X, << >>, step, n)
    <3> HIDE DEF step, n, X
    <3> QED
      BY <1>1, <1>3, <1>4, FoldExists
  <2>2. ASSUME NEW s \in SUBSET (1 .. n), s # {}
        PROVE  step[Max(s)][iter[s \ {Max(s)}]]
                 = IF id[Max(s)] \in ids THEN Append(iter[s \ {Max(s)}], seq[id[Max(s)]])
                   ELSE iter[s \ {Max(s)}]
    <3>1. Max(s) \in s
      BY <1>1, <2>2, MaxIsHighest
    <3>2. Max(s) \in 1 .. n /\ s \ {Max(s)} \in SUBSET (1 .. n) /\ id[Max(s)] = Max(s)
      BY <1>1, <3>1
    <3>3. iter[s \ {Max(s)}] \in X
      BY <2>1, <3>2 DEF FoldsUpTo
    <3> HIDE DEF X, id, n
    <3> QED
      BY <3>2, <3>3 DEF Taken
  <2>3. eq(iter)
    <3> HIDE DEF step, n, X, id
    <3> QED
      BY <2>1, <2>2 DEF FoldsUpTo
  <2> HIDE DEF eq
  <2> QED
    BY <2>3
<1> DEFINE r == [k \in 0 .. n |-> f[1 .. k]]
<1> HIDE DEF f, step
<1>6. r[0] = << >>
  <2>1. 1 .. 0 = {} /\ 0 \in 0 .. n
    BY <1>1
  <2> QED
    BY <1>5, <2>1
<1>7. ASSUME NEW k \in 1 .. n PROVE r[k] = Taken(r[k - 1], seq, ids, k)
  <2>1. k \in 0 .. n /\ k - 1 \in 0 .. n /\ k # 0
    BY <1>1
  <2>2. /\ 1 .. k \in SUBSET (1 .. n) /\ 1 .. k # {} /\ Max(1 .. k) = k
        /\ (1 .. k) \ {k} = 1 .. k - 1
    BY <1>1, <2>1, FoldSteps
  <2>3. f[1 .. k] = IF id[k] \in ids THEN Append(f[(1 .. k) \ {k}], seq[id[k]])
                    ELSE f[(1 .. k) \ {k}]
    <3> HIDE DEF id
    <3> QED
      BY <1>5, <2>2
  <2> QED
    BY <1>1, <2>1, <2>2, <2>3 DEF Taken
<1>8. r[n] = Pick(seq, ids)
  BY <1>1, <1>2 DEF f
<1> HIDE DEF r
<1>9. PickChain(r, seq, ids)
  BY <1>6, <1>7 DEF PickChain
<1> HIDE DEF n
<1> QED
  BY <1>8, <1>9 DEF n

\* The members of found are the elements of the first j positions that are in ids.
PickedUpTo(found, seq, ids, j) ==
    /\ \A i \in DOMAIN found : \E k \in 1 .. j : k \in ids /\ found[i] = seq[k]
    /\ \A k \in 1 .. j : k \in ids => \E i \in DOMAIN found : found[i] = seq[k]

LEMMA PickMembers ==
    ASSUME NEW S, NEW seq \in Seq(S), NEW ids
    PROVE  Pick(seq, ids) \in Seq(S) /\ PickedUpTo(Pick(seq, ids), seq, ids, Len(seq))
<1>1. PICK r : PickChain(r, seq, ids) /\ r[Len(seq)] = Pick(seq, ids)
  BY PickPasses
<1> DEFINE T == {j \in Nat : j <= Len(seq) => r[j] \in Seq(S) /\ PickedUpTo(r[j], seq, ids, j)}
<1>2. 0 \in T
  <2>1. r[0] = << >> /\ DOMAIN << >> = {} /\ 1 .. 0 = {} /\ << >> \in Seq(S)
    BY <1>1, EmptySeq DEF PickChain
  <2> QED
    BY <2>1 DEF PickedUpTo
<1>3. ASSUME NEW j \in Nat, j \in T PROVE j + 1 \in T
  <2> SUFFICES ASSUME j + 1 <= Len(seq)
               PROVE  r[j + 1] \in Seq(S) /\ PickedUpTo(r[j + 1], seq, ids, j + 1)
    OBVIOUS
  <2>1. /\ j + 1 \in 1 .. Len(seq) /\ (j + 1) - 1 = j /\ seq[j + 1] \in S
        /\ r[j] \in Seq(S) /\ PickedUpTo(r[j], seq, ids, j)
    BY <1>3, LenProperties, ElementOfSeq
  <2>2. r[j + 1] = Taken(r[j], seq, ids, j + 1)
    BY <1>1, <2>1 DEF PickChain
  <2>3. 1 .. j + 1 = (1 .. j) \cup {j + 1}
    OBVIOUS
  <2>4. CASE j + 1 \in ids
    <3>1. r[j + 1] = Append(r[j], seq[j + 1])
      BY <2>2, <2>4 DEF Taken
    <3>2. /\ r[j + 1] \in Seq(S) /\ DOMAIN r[j + 1] = 1 .. Len(r[j]) + 1 /\ Len(r[j]) \in Nat
          /\ DOMAIN r[j] = 1 .. Len(r[j])
          /\ \A i \in 1 .. Len(r[j]) : r[j + 1][i] = r[j][i]
          /\ r[j + 1][Len(r[j]) + 1] = seq[j + 1]
      BY <2>1, <3>1, AppendProperties, LenProperties
    <3>3. DOMAIN r[j + 1] = DOMAIN r[j] \cup {Len(r[j]) + 1}
      BY <3>2
    <3>4. ASSUME NEW i \in DOMAIN r[j + 1]
          PROVE  \E k \in 1 .. j + 1 : k \in ids /\ r[j + 1][i] = seq[k]
      <4>1. CASE i = Len(r[j]) + 1
        BY <2>3, <2>4, <3>2, <4>1
      <4>2. CASE i \in DOMAIN r[j]
        <5>1. PICK k \in 1 .. j : k \in ids /\ r[j][i] = seq[k]
          BY <2>1, <4>2 DEF PickedUpTo
        <5> QED
          BY <2>3, <3>2, <4>2, <5>1
      <4> QED
        BY <3>3, <4>1, <4>2
    <3>5. ASSUME NEW k \in 1 .. j + 1, k \in ids
          PROVE  \E i \in DOMAIN r[j + 1] : r[j + 1][i] = seq[k]
      <4>1. CASE k = j + 1
        BY <3>2, <3>3, <4>1
      <4>2. CASE k \in 1 .. j
        <5>1. PICK i \in DOMAIN r[j] : r[j][i] = seq[k]
          BY <2>1, <3>5, <4>2 DEF PickedUpTo
        <5> QED
          BY <3>2, <3>3, <5>1
      <4> QED
        BY <2>3, <4>1, <4>2
    <3> QED
      BY <3>2, <3>4, <3>5 DEF PickedUpTo
  <2>5. CASE j + 1 \notin ids
    BY <2>1, <2>2, <2>3, <2>5 DEF Taken, PickedUpTo
  <2> QED
    BY <2>4, <2>5
<1> HIDE DEF T
<1>4. Nat \subseteq T
  BY <1>2, <1>3, NatSetInduction
<1> QED
  BY <1>1, <1>4, LenProperties DEF T

\* The values of a key are those of its entries.
LEMMA ValuesOfKey ==
    ASSUME NEW S, NEW data \in Seq(S), NEW key
    PROVE  /\ Values(data, key) \in Seq({data[i].value : i \in 1 .. Len(data)})
           /\ \A j \in 1 .. Len(Values(data, key)) : \E i \in 1 .. Len(data) :
                  data[i].key = <<key>> /\ Values(data, key)[j] = data[i].value
           /\ HasKey(data, key) <=> \E i \in 1 .. Len(data) : data[i].key = <<key>>
<1> DEFINE ids == {i \in DOMAIN data : data[i].key = <<key>>}
           p == Pick(data, ids)
           n == Len(p)
           v == Values(data, key)
<1>0. DOMAIN data = 1 .. Len(data)
  BY LenProperties
<1>1. /\ p \in Seq(S) /\ PickedUpTo(p, data, ids, Len(data)) /\ n \in Nat /\ DOMAIN p = 1 .. n
  BY PickMembers, LenProperties
<1>2. v = [j \in 1 .. n |-> p[(n - j) + 1].value]
  <2>1. Reverse(p) = [j \in 1 .. n |-> p[(n - j) + 1]]
    BY DEF Reverse
  <2> HIDE DEF p, n
  <2>2. v = [i \in DOMAIN Reverse(p) |-> Reverse(p)[i].value]
    BY DEF Values, p
  <2> QED
    BY <2>1, <2>2
<1>3. ASSUME NEW j \in 1 .. n
      PROVE  \E i \in 1 .. Len(data) : i \in ids /\ v[j] = data[i].value
  <2>1. (n - j) + 1 \in DOMAIN p
    BY <1>1
  <2>2. v[j] = p[(n - j) + 1].value
    BY <1>2
  <2> HIDE DEF p, n, v, ids
  <2>3. PICK i \in 1 .. Len(data) : i \in ids /\ p[(n - j) + 1] = data[i]
    BY <1>1, <2>1 DEF PickedUpTo
  <2> QED
    BY <2>2, <2>3
<1>4. v \in [1 .. n -> {data[i].value : i \in 1 .. Len(data)}]
  BY <1>2, <1>3
<1>5. v \in Seq({data[i].value : i \in 1 .. Len(data)}) /\ Len(v) = n
  <2> DEFINE V == {data[i].value : i \in 1 .. Len(data)}
  <2> HIDE DEF V, v, n
  <2>1. v \in [1 .. n -> V] /\ n \in Nat
    BY <1>1, <1>4 DEF V
  <2>2. v \in Seq(V) /\ Len(v) = n
    BY <2>1
  <2> QED
    BY <2>2 DEF V
<1>6. n = 0 <=> ~ \E i \in 1 .. Len(data) : i \in ids
  <2>1. n = 0 => DOMAIN p = {}
    BY <1>1
  <2>2. n # 0 => 1 \in DOMAIN p
    BY <1>1
  <2> HIDE DEF p, n, ids
  <2> QED
    BY <1>1, <2>1, <2>2 DEF PickedUpTo
<1> HIDE DEF v, n
<1>7. v = << >> <=> n = 0
  BY <1>5, EmptySeq
<1>8. \A i : i \in ids <=> i \in 1 .. Len(data) /\ data[i].key = <<key>>
  BY <1>0
<1> HIDE DEF ids
<1> QED
  BY <1>3, <1>5, <1>6, <1>7, <1>8 DEF v, HasKey

\* The key is there, with the value v each time.
OnlyValue(data, key, v) ==
    /\ \E i \in 1 .. Len(data) : data[i].key = <<key>>
    /\ \A i \in 1 .. Len(data) : data[i].key = <<key>> => data[i].value = v

LEMMA ValueOf ==
    ASSUME NEW S, NEW data \in Seq(S), NEW key, NEW v, NEW default, OnlyValue(data, key, v)
    PROVE  /\ HasKey(data, key) /\ Value(data, key, default) = v
           /\ Len(Values(data, key)) \in Nat \ {0}
           /\ \A j \in 1 .. Len(Values(data, key)) : Values(data, key)[j] = v
<1> DEFINE vs == Values(data, key)
           V == {data[i].value : i \in 1 .. Len(data)}
<1>1. /\ vs \in Seq(V)
      /\ \A j \in 1 .. Len(vs) : \E i \in 1 .. Len(data) : data[i].key = <<key>> /\ vs[j] = data[i].value
      /\ HasKey(data, key)
  BY ValuesOfKey DEF OnlyValue
<1>2. vs # << >>
  BY <1>1 DEF HasKey
<1>3. Value(data, key, default) = Head(vs)
  BY <1>1 DEF Value
<1> HIDE DEF vs, V
<1>4. Len(vs) \in Nat \ {0} /\ Head(vs) = vs[1]
  BY <1>1, <1>2
<1>5. \A j \in 1 .. Len(vs) : vs[j] = v
  BY <1>1 DEF OnlyValue
<1> QED
  BY <1>1, <1>3, <1>4, <1>5 DEF vs

LEMMA NoKey ==
    ASSUME NEW S, NEW data \in Seq(S), NEW key, \A i \in 1 .. Len(data) : data[i].key # <<key>>
    PROVE  ~HasKey(data, key)
  BY ValuesOfKey

\* In short, of each value.
FromEntries(data, key) == \A j \in 1 .. Len(Values(data, key)) : \E i \in 1 .. Len(data) :
    data[i].key = <<key>> /\ Values(data, key)[j] = data[i].value

LEMMA ValueOfKey ==
    ASSUME NEW S, NEW data \in Seq(S), NEW key
    PROVE  FromEntries(data, key) /\ \E T : Values(data, key) \in Seq(T)
<1> DEFINE vs == Values(data, key)
           V == {data[i].value : i \in 1 .. Len(data)}
<1>1. /\ vs \in Seq(V)
      /\ \A k \in 1 .. Len(vs) : \E i \in 1 .. Len(data) : data[i].key = <<key>> /\ vs[k] = data[i].value
      /\ HasKey(data, key) <=> \E i \in 1 .. Len(data) : data[i].key = <<key>>
  BY ValuesOfKey
<1>2. FromEntries(data, key)
  BY <1>1 DEF FromEntries
<1> HIDE DEF V
<1> QED
  BY <1>1, <1>2

-----------------------------------------------------------------------------
(* Texts.                                                                  *)

FlattenChain(r, seqs) ==
    /\ r[0] = << >>
    /\ \A k \in 1 .. Len(seqs) : r[k] = r[k - 1] \o seqs[k]

LEMMA FlattenPasses ==
    ASSUME NEW S, NEW seqs \in Seq(Seq(S))
    PROVE  \E r : /\ FlattenChain(r, seqs) /\ r[Len(seqs)] = FlattenSeq(seqs)
                  /\ \A k \in 0 .. Len(seqs) : r[k] \in Seq(S)
<1> DEFINE n == Len(seqs)
           step == [k \in 1 .. n |-> [u \in Seq(S) |-> u \o seqs[k]]]
           eq(f) == f = [i \in 1 .. n |-> IF i = 1 THEN seqs[i] ELSE f[i - 1] \o seqs[i]]
<1>1. n \in Nat /\ \A k \in 1 .. n : seqs[k] \in Seq(S)
  BY LenProperties, ElementOfSeq
<1>2. << >> \in Seq(S) /\ step \in [1 .. n -> [Seq(S) -> Seq(S)]]
  <2>1. \A k \in 1 .. n, u \in Seq(S) : u \o seqs[k] \in Seq(S)
    BY <1>1, ConcatProperties
  <2> HIDE DEF n
  <2> QED
    BY <2>1, EmptySeq
<1>3. PICK c : Chain(c, Seq(S), << >>, step, n)
  <2> HIDE DEF step, n
  <2> QED
    BY <1>1, <1>2, ChainExists
<1>4. ASSUME NEW k \in 1 .. n
      PROVE  c[k] = c[k - 1] \o seqs[k] /\ c[k] \in Seq(S) /\ (k = 1 => c[k] = seqs[k])
  <2>1. k - 1 \in 0 .. n /\ k \in 0 .. n
    BY <1>1
  <2>2. c[k - 1] \in Seq(S) /\ c[k] \in Seq(S)
    BY <1>3, <2>1 DEF Chain
  <2>3. c[k] = step[k][c[k - 1]]
    BY <1>3 DEF Chain
  <2>4. c[k] = c[k - 1] \o seqs[k]
    <3> HIDE DEF n
    <3> QED
      BY <2>2, <2>3
  <2>5. k = 1 => c[k - 1] = << >>
    BY <1>3 DEF Chain
  <2>6. k = 1 => c[k] = seqs[k]
    BY <1>1, <2>4, <2>5, ConcatEmptySeq
  <2> QED
    BY <2>2, <2>4, <2>6
<1> DEFINE d == [i \in 1 .. n |-> c[i]]
           f == CHOOSE g : eq(g)
<1>5. eq(d)
  <2>1. ASSUME NEW i \in 1 .. n
        PROVE  c[i] = IF i = 1 THEN seqs[i] ELSE d[i - 1] \o seqs[i]
    <3>1. i # 1 => i - 1 \in 1 .. n
      BY <1>1
    <3> QED
      BY <1>4, <3>1
  <2> HIDE DEF n
  <2> QED
    BY <2>1
<1>6. eq(f)
  <2> HIDE DEF eq, d
  <2> QED
    BY <1>5
<1>7. n # 0 => FlattenSeq(seqs) = f[n]
  BY DEF FlattenSeq
<1> HIDE DEF f
<1> DEFINE r == [k \in 0 .. n |-> IF k = 0 THEN << >> ELSE f[k]]
<1>8. ASSUME NEW k \in 1 .. n PROVE r[k] = r[k - 1] \o seqs[k]
  <2>1. k - 1 \in 0 .. n /\ k \in 0 .. n /\ (k # 1 => k - 1 # 0)
    BY <1>1
  <2>2. f[k] = IF k = 1 THEN seqs[k] ELSE f[k - 1] \o seqs[k]
    <3> HIDE DEF n
    <3> QED
      BY <1>6
  <2>3. << >> \o seqs[k] = seqs[k]
    BY <1>1, ConcatEmptySeq
  <2>4. r[k] = f[k] /\ r[k - 1] = IF k = 1 THEN << >> ELSE f[k - 1]
    <3> HIDE DEF n
    <3> QED
      BY <1>1, <2>1
  <2> HIDE DEF r, n
  <2>5. CASE k = 1
    BY <2>2, <2>3, <2>4, <2>5
  <2>6. CASE k # 1
    BY <2>2, <2>4, <2>6
  <2> QED
    BY <2>5, <2>6
<1>9. FlattenChain(r, seqs)
  <2>1. r[0] = << >>
    BY <1>1
  <2> HIDE DEF r
  <2> QED
    BY <1>8, <2>1 DEF FlattenChain
<1>10. r[n] = FlattenSeq(seqs)
  <2>1. CASE n = 0
    <3>1. seqs = << >> /\ FlattenSeq(seqs) = seqs
      BY <2>1, EmptySeq DEF FlattenSeq
    <3> QED
      BY <2>1, <3>1
  <2>2. CASE n # 0
    BY <1>1, <1>7, <2>2
  <2> QED
    BY <2>1, <2>2
<1>11. \A k \in 0 .. n : r[k] \in Seq(S)
  <2> DEFINE T == {k \in Nat : k <= n => r[k] \in Seq(S)}
  <2>1. 0 \in T
    BY <1>1, EmptySeq
  <2>2. ASSUME NEW k \in Nat, k \in T PROVE k + 1 \in T
    <3> SUFFICES ASSUME k + 1 <= n PROVE r[k + 1] \in Seq(S)
      OBVIOUS
    <3> HIDE DEF r, n
    <3>1. k + 1 \in 1 .. n /\ (k + 1) - 1 = k /\ r[k] \in Seq(S)
      BY <1>1, <2>2
    <3>2. r[k + 1] = r[k] \o seqs[k + 1] /\ seqs[k + 1] \in Seq(S)
      BY <1>1, <1>8, <3>1
    <3> QED
      BY <3>1, <3>2, ConcatProperties
  <2> HIDE DEF T
  <2>3. Nat \subseteq T
    BY <2>1, <2>2, NatSetInduction
  <2> HIDE DEF r, n
  <2>4. \A k \in 0 .. n : k \in Nat /\ k <= n
    BY <1>1
  <2> QED
    BY <2>3, <2>4 DEF T
<1> HIDE DEF r
<1> QED
  BY <1>9, <1>10, <1>11

LEMMA FlattenTyped ==
    ASSUME NEW S, NEW seqs \in Seq(Seq(S))
    PROVE  FlattenSeq(seqs) \in Seq(S)
<1>1. Len(seqs) \in 0 .. Len(seqs)
  BY LenProperties
<1> QED
  BY <1>1, FlattenPasses

\* The members of a flattened sequence are those of its parts.
LEMMA FlattenMembers ==
    ASSUME NEW S, NEW seqs \in Seq(Seq(S))
    PROVE  /\ \A i \in 1 .. Len(FlattenSeq(seqs)) : \E k \in 1 .. Len(seqs) :
                  \E j \in 1 .. Len(seqs[k]) : FlattenSeq(seqs)[i] = seqs[k][j]
           /\ \A k \in 1 .. Len(seqs) : \A j \in 1 .. Len(seqs[k]) :
                  \E i \in 1 .. Len(FlattenSeq(seqs)) : FlattenSeq(seqs)[i] = seqs[k][j]
<1>1. PICK r : /\ FlattenChain(r, seqs) /\ r[Len(seqs)] = FlattenSeq(seqs)
               /\ \A k \in 0 .. Len(seqs) : r[k] \in Seq(S)
  BY FlattenPasses
<1> DEFINE In(u, m) == \A i \in 1 .. Len(u) : \E k \in 1 .. m :
                           \E j \in 1 .. Len(seqs[k]) : u[i] = seqs[k][j]
           From(u, m) == \A k \in 1 .. m : \A j \in 1 .. Len(seqs[k]) :
                           \E i \in 1 .. Len(u) : u[i] = seqs[k][j]
           T == {m \in Nat : m <= Len(seqs) => In(r[m], m) /\ From(r[m], m)}
<1>2. 0 \in T
  <2>1. r[0] = << >> /\ Len(<< >>) = 0
    BY <1>1, EmptySeq DEF FlattenChain
  <2>2. 1 .. 0 = {}
    OBVIOUS
  <2>3. In(r[0], 0)
    BY <2>1, <2>2
  <2>4. From(r[0], 0)
    BY <2>2
  <2> HIDE DEF In, From
  <2> QED
    BY <2>3, <2>4
<1>3. ASSUME NEW m \in Nat, m \in T PROVE m + 1 \in T
  <2> SUFFICES ASSUME m + 1 <= Len(seqs) PROVE In(r[m + 1], m + 1) /\ From(r[m + 1], m + 1)
    OBVIOUS
  <2>0. /\ m \in 0 .. Len(seqs) /\ m + 1 \in 1 .. Len(seqs) /\ (m + 1) - 1 = m /\ m <= Len(seqs)
        /\ 1 .. m + 1 = (1 .. m) \cup {m + 1}
    BY <1>3, LenProperties
  <2>1. In(r[m], m) /\ From(r[m], m)
    <3> HIDE DEF In, From
    <3> QED
      BY <1>3, <2>0
  <2> DEFINE u == r[m]
             v == seqs[m + 1]
             w == r[m + 1]
  <2>2. u \in Seq(S) /\ v \in Seq(S) /\ w = u \o v
    BY <1>1, <2>0, ElementOfSeq DEF FlattenChain
  <2>3. /\ Len(u) \in Nat /\ Len(v) \in Nat /\ Len(w) = Len(u) + Len(v)
        /\ \A i \in 1 .. Len(u) + Len(v) : w[i] = IF i <= Len(u) THEN u[i] ELSE v[i - Len(u)]
    <3> HIDE DEF u, v, w
    <3> QED
      BY <2>2, ConcatProperties, LenProperties
  <2>4. ASSUME NEW i \in 1 .. Len(w)
        PROVE  \E k \in 1 .. m + 1 : \E j \in 1 .. Len(seqs[k]) : w[i] = seqs[k][j]
    <3>1. CASE i <= Len(u)
      <4>0. i \in 1 .. Len(u)
        <5> HIDE DEF u, v, w
        <5> QED
          BY <2>3, <3>1
      <4>1. PICK k \in 1 .. m : \E j \in 1 .. Len(seqs[k]) : u[i] = seqs[k][j]
        BY <2>1, <4>0
      <4> HIDE DEF u, w
      <4>2. w[i] = u[i]
        BY <2>3, <3>1
      <4> QED
        BY <2>0, <4>1, <4>2
    <3>2. CASE ~(i <= Len(u))
      <4>1. i - Len(u) \in 1 .. Len(v) /\ w[i] = v[i - Len(u)]
        <5> HIDE DEF u, v, w
        <5>1. i \in 1 .. Len(u) + Len(v) /\ i > Len(u)
          BY <2>3, <3>2
        <5>2. w[i] = v[i - Len(u)]
          BY <2>3, <3>2, <5>1
        <5>3. i - Len(u) \in 1 .. Len(v)
          BY <2>3, <5>1
        <5> QED
          BY <5>2, <5>3
      <4> QED
        BY <2>0, <4>1
    <3> QED
      BY <3>1, <3>2
  <2>5. ASSUME NEW k \in 1 .. m + 1, NEW j \in 1 .. Len(seqs[k])
        PROVE  \E i \in 1 .. Len(w) : w[i] = seqs[k][j]
    <3>1. CASE k \in 1 .. m
      <4>1. PICK i \in 1 .. Len(u) : u[i] = seqs[k][j]
        BY <2>1, <3>1
      <4> HIDE DEF u, w
      <4>2. i \in 1 .. Len(w) /\ w[i] = u[i]
        BY <2>3
      <4> QED
        BY <4>1, <4>2
    <3>2. CASE k = m + 1
      <4>1. j \in 1 .. Len(v)
        BY <3>2
      <4>2. j + Len(u) \in 1 .. Len(w) /\ w[j + Len(u)] = v[j]
        <5> HIDE DEF u, v, w
        <5> DEFINE p == j + Len(u)
        <5>1. p \in 1 .. Len(u) + Len(v) /\ ~(p <= Len(u)) /\ p - Len(u) = j
          BY <2>3, <4>1
        <5> HIDE DEF p
        <5>2. p \in 1 .. Len(w) /\ w[p] = v[j]
          BY <2>3, <5>1
        <5> QED
          BY <5>2 DEF p
      <4> QED
        BY <3>2, <4>2
    <3> QED
      BY <2>0, <3>1, <3>2
  <2> QED
    BY <2>4, <2>5
<1> HIDE DEF T
<1>4. Nat \subseteq T
  BY <1>2, <1>3, NatSetInduction
<1>5. In(r[Len(seqs)], Len(seqs)) /\ From(r[Len(seqs)], Len(seqs))
  <2> HIDE DEF In, From
  <2> QED
    BY <1>4, LenProperties DEF T
<1> QED
  BY <1>1, <1>5

LEMMA FlattenOne ==
    ASSUME NEW S, NEW u \in Seq(S)
    PROVE  FlattenSeq(<<u>>) = u
<1>1. <<u>> \in Seq(Seq(S)) /\ Len(<<u>>) = 1 /\ <<u>>[1] = u
  OBVIOUS
<1> DEFINE us == <<u>>
<1> HIDE DEF us
<1>2. PICK r : FlattenChain(r, us) /\ r[Len(us)] = FlattenSeq(us)
  <2>1. us \in Seq(Seq(S))
    BY <1>1 DEF us
  <2> QED
    BY <2>1, FlattenPasses
<1>3. r[1] = << >> \o u
  <2>1. Len(us) = 1 /\ us[1] = u
    BY <1>1 DEF us
  <2>2. r[0] = << >> /\ r[1] = r[1 - 1] \o us[1]
    BY <1>2, <2>1 DEF FlattenChain
  <2> QED
    BY <2>1, <2>2
<1> QED
  BY <1>1, <1>2, <1>3, ConcatEmptySeq DEF us

LEMMA FlattenTwo ==
    ASSUME NEW S, NEW u \in Seq(S), NEW v \in Seq(S)
    PROVE  FlattenSeq(<<u, v>>) = u \o v
<1>1. <<u, v>> \in Seq(Seq(S)) /\ Len(<<u, v>>) = 2 /\ <<u, v>>[1] = u /\ <<u, v>>[2] = v
  OBVIOUS
<1> DEFINE us == <<u, v>>
<1> HIDE DEF us
<1>2. PICK r : FlattenChain(r, us) /\ r[Len(us)] = FlattenSeq(us)
  <2>1. us \in Seq(Seq(S))
    BY <1>1 DEF us
  <2> QED
    BY <2>1, FlattenPasses
<1>3. r[1] = << >> \o u /\ r[2] = r[1] \o v
  <2>1. Len(us) = 2 /\ us[1] = u /\ us[2] = v
    BY <1>1 DEF us
  <2>2. r[0] = << >> /\ \A k \in 1 .. 2 : r[k] = r[k - 1] \o us[k]
    BY <1>2, <2>1 DEF FlattenChain
  <2>3. 1 \in 1 .. 2 /\ 2 \in 1 .. 2 /\ 1 - 1 = 0 /\ 2 - 1 = 1
    OBVIOUS
  <2>4. r[1] = r[0] \o us[1] /\ r[2] = r[1] \o us[2]
    BY <2>2, <2>3, Zenon
  <2> QED
    BY <2>1, <2>2, <2>4
<1> QED
  BY <1>1, <1>2, <1>3, ConcatEmptySeq DEF us

\* A text is made of its pairs.
LEMMA TextOfOne ==
    ASSUME NEW W, Backslash \in W, NEW k \in W, NEW v \in Seq(W)
    PROVE  Text(<< <<k, v>> >>) = Pair(k, v) /\ Pair(k, v) \in Seq(W)
<1>1. <<Backslash, k, Backslash>> \o v \in Seq(W)
  <2>1. <<Backslash, k, Backslash>> \in Seq(W)
    OBVIOUS
  <2> QED
    BY <2>1, ConcatProperties
<1> DEFINE pairs == << <<k, v>> >>
<1>2. [i \in DOMAIN pairs |-> <<Backslash, pairs[i][1], Backslash>> \o pairs[i][2]]
        = << <<Backslash, k, Backslash>> \o v >>
  OBVIOUS
<1> QED
  BY <1>1, <1>2, FlattenOne DEF Text, Pair
-----------------------------------------------------------------------------
(* Pieces of a stream.                                                     *)

Has(b, w) == \E i \in 1 .. Len(b) : b[i] = w

LEMMA HasConcat ==
    ASSUME NEW W, NEW a \in Seq(W), NEW b \in Seq(W), NEW w
    PROVE  Has(a \o b, w) <=> Has(a, w) \/ Has(b, w)
<1>1. /\ Len(a) \in Nat /\ Len(b) \in Nat /\ Len(a \o b) = Len(a) + Len(b)
      /\ \A i \in 1 .. Len(a) + Len(b) : (a \o b)[i] = IF i <= Len(a) THEN a[i] ELSE b[i - Len(a)]
  BY ConcatProperties, LenProperties
<1> DEFINE c == a \o b
<1> HIDE DEF c
<1>2. ASSUME Has(c, w) PROVE Has(a, w) \/ Has(b, w)
  <2>1. PICK i \in 1 .. Len(c) : c[i] = w
    BY <1>2 DEF Has
  <2>2. CASE i <= Len(a)
    BY <1>1, <2>1, <2>2 DEF Has, c
  <2>3. CASE ~(i <= Len(a))
    <3>1. i - Len(a) \in 1 .. Len(b) /\ b[i - Len(a)] = w
      BY <1>1, <2>1, <2>3 DEF c
    <3> QED
      BY <3>1 DEF Has
  <2> QED
    BY <2>2, <2>3
<1>3. ASSUME Has(a, w) PROVE Has(c, w)
  <2>1. PICK i \in 1 .. Len(a) : a[i] = w
    BY <1>3 DEF Has
  <2>2. i \in 1 .. Len(c) /\ c[i] = w
    BY <1>1, <2>1 DEF c
  <2> QED
    BY <2>2 DEF Has
<1>4. ASSUME Has(b, w) PROVE Has(c, w)
  <2>1. PICK j \in 1 .. Len(b) : b[j] = w
    BY <1>4 DEF Has
  <2> DEFINE i == j + Len(a)
  <2>2. i \in 1 .. Len(a) + Len(b) /\ ~(i <= Len(a)) /\ i - Len(a) = j
    BY <1>1, <2>1
  <2> HIDE DEF i
  <2>3. i \in 1 .. Len(c) /\ c[i] = w
    BY <1>1, <2>1, <2>2, SMTT(30) DEF c
  <2> QED
    BY <2>3 DEF Has
<1> QED
  BY <1>2, <1>3, <1>4 DEF c

\* A read divides what is under way.
LEMMA Cut ==
    ASSUME NEW W, NEW s \in Seq(W), NEW n \in 1 .. Len(s)
    PROVE  /\ SubSeq(s, 1, n) \in Seq(W) /\ SubSeq(s, n + 1, Len(s)) \in Seq(W)
           /\ SubSeq(s, 1, n) \o SubSeq(s, n + 1, Len(s)) = s
           /\ Len(SubSeq(s, 1, n)) = n
           /\ n = Len(s) => SubSeq(s, 1, n) = s /\ SubSeq(s, n + 1, Len(s)) = << >>
<1>0. Len(s) \in Nat /\ \A i \in 1 .. Len(s) : s[i] \in W
  BY LenProperties, ElementOfSeq
<1>1. SubSeq(s, 1, n) \in Seq(W) /\ Len(SubSeq(s, 1, n)) = n
  BY <1>0, SubSeqProperties
<1>2. SubSeq(s, n + 1, Len(s)) \in Seq(W)
  BY <1>0, SubSeqProperties
<1>3. SubSeq(s, 1, n) \o SubSeq(s, n + 1, Len(s)) = SubSeq(s, 1, Len(s))
  BY <1>0, ConcatAdjacentSubSeq
<1>4. SubSeq(s, 1, Len(s)) = s
  BY SubSeqFull
<1>5. n = Len(s) => SubSeq(s, n + 1, Len(s)) = << >>
  BY <1>0, SubSeqEmpty
<1> QED
  BY <1>1, <1>2, <1>3, <1>4, <1>5

SameStream(a, d, r, q) == a \o d = r \o q

Begins(W, a, d, r, q) == \E s \in Seq(W) : a = r \o s /\ s \o d = q

\* Two ways to divide the same stream: the longer first part begins with the shorter.
LEMMA Divide ==
    ASSUME NEW W, NEW a \in Seq(W), NEW d \in Seq(W), NEW r \in Seq(W), NEW q \in Seq(W),
           SameStream(a, d, r, q), Len(r) <= Len(a)
    PROVE  Begins(W, a, d, r, q)
<1>0. a \o d = r \o q
  BY DEF SameStream
<1>1. /\ Len(a) \in Nat /\ Len(d) \in Nat /\ Len(r) \in Nat /\ Len(q) \in Nat
      /\ \A i \in 1 .. Len(a) : a[i] \in W
      /\ Len(a) + Len(d) = Len(r) + Len(q)
      /\ \A i \in 1 .. Len(a) + Len(d) : (a \o d)[i] = IF i <= Len(a) THEN a[i] ELSE d[i - Len(a)]
      /\ \A i \in 1 .. Len(r) + Len(q) : (r \o q)[i] = IF i <= Len(r) THEN r[i] ELSE q[i - Len(r)]
  <2>1. Len(a \o d) = Len(a) + Len(d) /\ Len(r \o q) = Len(r) + Len(q)
    BY ConcatProperties
  <2> QED
    BY <1>0, <2>1, ConcatProperties, LenProperties, ElementOfSeq
<1> DEFINE s == SubSeq(a, Len(r) + 1, Len(a))
<1>2. /\ s \in Seq(W) /\ Len(s) = Len(a) - Len(r)
      /\ \A i \in 1 .. Len(a) - Len(r) : s[i] = a[Len(r) + i]
  <2>1. /\ SubSeq(a, Len(r) + 1, Len(a)) \in Seq(W)
        /\ Len(SubSeq(a, Len(r) + 1, Len(a))) = IF Len(r) + 1 <= Len(a) THEN Len(a) - (Len(r) + 1) + 1 ELSE 0
        /\ \A i \in 1 .. Len(a) - (Len(r) + 1) + 1 :
               SubSeq(a, Len(r) + 1, Len(a))[i] = a[(Len(r) + 1) + i - 1]
    BY <1>1, SubSeqProperties
  <2>2. \A i \in 1 .. Len(a) - Len(r) : i \in 1 .. Len(a) - (Len(r) + 1) + 1 /\ (Len(r) + 1) + i - 1 = Len(r) + i
    BY <1>1
  <2> HIDE DEF s
  <2>3. Len(s) = Len(a) - Len(r)
    BY <1>1, <2>1 DEF s
  <2> QED
    BY <2>1, <2>2, <2>3 DEF s
<1> HIDE DEF s
<1>3. a = r \o s
  <2>1. /\ r \o s \in Seq(W) /\ Len(r \o s) = Len(r) + Len(s)
        /\ \A i \in 1 .. Len(r) + Len(s) : (r \o s)[i] = IF i <= Len(r) THEN r[i] ELSE s[i - Len(r)]
    BY <1>2, ConcatProperties
  <2>2. ASSUME NEW i \in 1 .. Len(a) PROVE a[i] = (r \o s)[i]
    <3>1. CASE i <= Len(r)
      <4>1. a[i] = (a \o d)[i] /\ r[i] = (r \o q)[i]
        BY <1>1, <3>1
      <4> QED
        BY <1>0, <1>1, <1>2, <2>1, <3>1, <4>1
    <3>2. CASE ~(i <= Len(r))
      <4>1. i - Len(r) \in 1 .. Len(a) - Len(r) /\ Len(r) + (i - Len(r)) = i
        BY <1>1, <3>2
      <4>2. s[i - Len(r)] = a[i]
        BY <1>2, <4>1
      <4> QED
        BY <1>1, <1>2, <2>1, <3>2, <4>2
    <3> QED
      BY <3>1, <3>2
  <2> DEFINE c == r \o s
  <2>3. c \in Seq(W) /\ Len(c) = Len(a) /\ \A i \in 1 .. Len(a) : a[i] = c[i]
    BY <1>1, <1>2, <2>1, <2>2
  <2> HIDE DEF c
  <2>4. a = c
    BY <2>3, SeqEqual
  <2> QED
    BY <2>4 DEF c
<1>4. r \o (s \o d) = r \o q
  <2>1. (r \o s) \o d = r \o (s \o d)
    BY <1>2, ConcatAssociative, SMTT(30)
  <2>2. a \o d = (r \o s) \o d
    BY <1>3
  <2> QED
    BY <1>0, <2>1, <2>2
<1>5. s \o d = q
  <2>1. s \o d \in Seq(W)
    BY <1>2, ConcatProperties
  <2>2. \A t, u, v \in Seq(W) : t \o u = t \o v => u = v
    BY ConcatSimplifications, Zenon
  <2>3. r \o (s \o d) = r \o q => s \o d = q
    BY <2>1, <2>2
  <2> QED
    BY <1>4, <2>3
<1> QED
  BY <1>2, <1>3, <1>5 DEF Begins

\* ... and of two ways one has the longer first part.
LEMMA DivideTwice ==
    ASSUME NEW W, NEW a \in Seq(W), NEW d \in Seq(W), NEW r \in Seq(W), NEW q \in Seq(W),
           SameStream(a, d, r, q)
    PROVE  Begins(W, a, d, r, q) \/ Begins(W, r, q, a, d)
<1>1. Len(a) \in Nat /\ Len(r) \in Nat
  BY LenProperties
<1>2. CASE Len(r) <= Len(a)
  BY <1>2, Divide
<1>3. CASE Len(a) <= Len(r)
  <2>1. SameStream(r, q, a, d)
    BY DEF SameStream
  <2> QED
    BY <1>3, <2>1, Divide
<1>4. Len(r) <= Len(a) \/ Len(a) <= Len(r)
  BY <1>1
<1> QED
  BY <1>2, <1>3, <1>4

\* A piece of one word is held when the word is one of the buffer's.
LEMMA HoldsOne ==
    ASSUME NEW W, NEW b \in Seq(W), NEW w
    PROVE  Holds(b, <<w>>) <=> Has(b, w)
<1>1. Len(b) \in Nat /\ Len(<<w>>) = 1 /\ \A i \in 1 .. Len(b) : b[i] \in W
  BY LenProperties, ElementOfSeq
<1>2. ASSUME NEW i \in 0 .. Len(b) - 1
      PROVE  SubSeq(b, i + 1, i + 1) = <<b[i + 1]>>
  <2>1. i \in Int /\ i + 1 \in 1 .. Len(b) /\ i + 1 \in Int
    BY <1>1
  <2>2. /\ SubSeq(b, i + 1, i + 1) \in Seq(W) /\ Len(SubSeq(b, i + 1, i + 1)) = 1
        /\ SubSeq(b, i + 1, i + 1)[1] = b[i + 1]
    BY <1>1, <2>1, SubSeqProperties
  <2> DEFINE t == SubSeq(b, i + 1, i + 1)
  <2>3. t = <<t[1]>>
    <3> HIDE DEF t
    <3>1. t \in Seq(W) /\ Len(t) = 1
      BY <2>2 DEF t
    <3> QED
      BY <3>1
  <2> QED
    BY <2>2, <2>3
<1>3. Holds(b, <<w>>) <=> \E i \in 0 .. Len(b) - 1 : b[i + 1] = w
  <2>1. \A i \in 0 .. Len(b) - 1 : SubSeq(b, i + 1, i + Len(<<w>>)) = <<w>> <=> b[i + 1] = w
    BY <1>1, <1>2
  <2> QED
    BY <1>1, <2>1 DEF Holds
<1>4. \A i \in 0 .. Len(b) - 1 : i + 1 \in 1 .. Len(b)
  BY <1>1
<1>5. \A i \in 1 .. Len(b) : i - 1 \in 0 .. Len(b) - 1 /\ (i - 1) + 1 = i
  BY <1>1
<1>6. (\E i \in 0 .. Len(b) - 1 : b[i + 1] = w) => Has(b, w)
  BY <1>4 DEF Has
<1>7. Has(b, w) => \E i \in 0 .. Len(b) - 1 : b[i + 1] = w
  BY <1>5 DEF Has
<1> QED
  BY <1>3, <1>6, <1>7

\* What holds a terminator has it in the middle.
LEMMA HoldsFinal ==
    ASSUME NEW W, NEW b \in Seq(W), Holds(b, Final)
    PROVE  \E i \in 1 .. Len(b) : i + 1 <= Len(b) /\ b[i] = "final"
<1>1. Len(b) \in Nat /\ Len(Final) = 3 /\ Final[2] = "final"
  BY LenProperties DEF Final
<1>2. PICK i \in 0 .. Len(b) - 3 : SubSeq(b, i + 1, i + 3) = Final
  BY <1>1 DEF Holds
<1>3. /\ i + 2 \in 1 .. Len(b) /\ (i + 2) + 1 <= Len(b) /\ i \in Nat
  BY <1>1, <1>2
<1>4. SubSeq(b, i + 1, i + 3)[2] = b[i + 2]
  <2>1. \A j \in i + 1 .. i + 3 : b[j] \in W
    BY <1>1, <1>2, ElementOfSeq
  <2>2. \A j \in 1 .. (i + 3) - (i + 1) + 1 : SubSeq(b, i + 1, i + 3)[j] = b[(i + 1) + j - 1]
    <3>1. i + 1 \in Int /\ i + 3 \in Int
      BY <1>3
    <3> QED
      BY <2>1, <3>1, SubSeqProperties
  <2>3. 2 \in 1 .. (i + 3) - (i + 1) + 1 /\ (i + 1) + 2 - 1 = i + 2
    BY <1>3
  <2> QED
    BY <2>2, <2>3
<1>5. b[i + 2] = "final"
  BY <1>1, <1>2, <1>4
<1> QED
  BY <1>3, <1>5

\* Of a text with one terminator nothing is missing up to it once it is held.
LEMMA FinalArrived ==
    ASSUME NEW W, NEW a \in Seq(W), NEW f \in Seq(W), NEW d \in Seq(W),
           NEW r \in Seq(W), NEW q \in Seq(W), Final \in Seq(W),
           SameStream(a \o f, d, r \o Final, q), ~Has(r, "final"), ~Has(q, "final"), Holds(f, Final)
    PROVE  Begins(W, a \o f, d, r \o Final, q)
<1> DEFINE u == a \o f
           v == r \o Final
<1>1. u \in Seq(W) /\ v \in Seq(W) /\ u \o d = v \o q
  BY ConcatProperties DEF SameStream
<1>2. PICK i \in 1 .. Len(f) : i + 1 <= Len(f) /\ f[i] = "final"
  BY HoldsFinal
<1>3. /\ Len(a) \in Nat /\ Len(f) \in Nat /\ Len(r) \in Nat /\ Len(u) = Len(a) + Len(f)
      /\ Len(v) = Len(r) + 3
  BY ConcatProperties, LenProperties DEF Final
<1> HIDE DEF u, v
<1>4. Len(v) <= Len(u)
  <2> SUFFICES ASSUME Len(u) < Len(v) PROVE FALSE
    BY <1>1, <1>3
  <2>1. PICK s \in Seq(W) : v = u \o s /\ s \o q = d
    <3>1. SameStream(v, q, u, d) /\ Len(u) <= Len(v)
      BY <1>1, <1>3 DEF SameStream
    <3>2. Begins(W, v, q, u, d)
      BY <1>1, <3>1, Divide
    <3> QED
      BY <3>2 DEF Begins
  <2>2. /\ \A j \in 1 .. Len(u) + Len(s) : v[j] = IF j <= Len(u) THEN u[j] ELSE s[j - Len(u)]
        /\ Len(v) = Len(u) + Len(s) /\ Len(s) \in Nat
    BY <1>1, <2>1, ConcatProperties, LenProperties
  <2> DEFINE j == Len(a) + i
  <2>3. j \in 1 .. Len(u) /\ j \in 1 .. Len(a) + Len(f) /\ ~(j <= Len(a)) /\ j - Len(a) = i
        /\ j <= Len(r) + 1 /\ j \in Nat
    BY <1>2, <1>3
  <2> HIDE DEF j
  <2>4. u[j] = "final"
    <3>1. u[j] = f[j - Len(a)]
      BY <2>3, ConcatProperties DEF u
    <3> QED
      BY <1>2, <2>3, <3>1
  <2>5. v[j] = "final" /\ j \in 1 .. Len(r) + 3
    BY <1>3, <2>2, <2>3, <2>4
  <2>6. v[j] = IF j <= Len(r) THEN r[j] ELSE Final[j - Len(r)]
    BY <1>3, <2>5, ConcatProperties DEF v, Final
  <2>7. CASE j <= Len(r)
    BY <2>3, <2>5, <2>6, <2>7 DEF Has
  <2>8. CASE j = Len(r) + 1
    <3>1. Final[1] # "final" /\ j - Len(r) = 1
      BY <1>3, <2>8 DEF Final, Backslash
    <3> QED
      BY <1>3, <2>5, <2>6, <2>8, <3>1
  <2>9. j <= Len(r) \/ j = Len(r) + 1
    BY <1>3, <2>3
  <2> QED
    BY <2>7, <2>8, <2>9
<1>5. Begins(W, u, d, v, q)
  <2>1. SameStream(u, d, v, q)
    BY <1>1 DEF SameStream
  <2> QED
    BY <1>1, <1>4, <2>1, Divide
<1> QED
  BY <1>5 DEF u, v
-----------------------------------------------------------------------------
(* What follows a key, wherever a text is cut.                             *)

\* After a word of K come a backslash, a word of X and a backslash, as far as the
\* text goes.
Leads(b, K, X) == \A i \in 1 .. Len(b) : b[i] \in K =>
    /\ X # {}
    /\ i + 1 <= Len(b) => b[i + 1] = Backslash
    /\ i + 2 <= Len(b) => b[i + 2] \in X
    /\ i + 3 <= Len(b) => b[i + 3] = Backslash

\* Then the field after one of K is a word of X, or empty at the end.
FieldsLead(F, K, X) == \A j \in 1 .. Len(F) : \A w \in K : F[j] = <<w>> =>
    /\ X # {}
    /\ j + 1 <= Len(F) => F[j + 1] = << >> \/ \E x \in X : F[j + 1] = <<x>>

\* Where the last two fields are in the text.
LastFields(F, b, k, K) ==
    /\ \A w \in K : F[Len(F)] = <<w>> => k >= 1 /\ b[k] = w
    /\ \A w \in K : Len(F) >= 2 /\ F[Len(F) - 1] = <<w>> =>
           \/ F[Len(F)] = << >> /\ k >= 2 /\ b[k - 1] = w
           \/ (\E x : F[Len(F)] = <<x>>) /\ k >= 3 /\ b[k - 2] = w

LEMMA SplitSymbolLeads ==
    ASSUME NEW W, NEW b \in Seq(W), Backslash \in W, NEW K, NEW X, Backslash \notin X, Leads(b, K, X),
           NEW k \in Nat, k + 1 <= Len(b), NEW F \in Fields(W), FieldsLead(F, K, X),
           LastFields(F, b, k, K)
    PROVE  /\ FieldsLead(SplitSymbol(F, b[k + 1]), K, X)
           /\ LastFields(SplitSymbol(F, b[k + 1]), b, k + 1, K)
<1> DEFINE s == b[k + 1]
           m == Len(F)
           G == SplitSymbol(F, s)
<1>1. /\ F \in Seq(Seq(W)) /\ m \in Nat /\ m >= 1 /\ s \in W /\ << >> \in Seq(W) /\ F[m] \in Seq(W)
      /\ Len(b) \in Nat
  <2>1. F \in Seq(Seq(W)) /\ F # << >>
    BY DEF Fields
  <2>2. m \in Nat /\ m # 0
    BY <2>1, EmptySeq, LenProperties
  <2>3. F[m] \in Seq(W)
    BY <2>1, <2>2, ElementOfSeq
  <2>4. Len(b) \in Nat /\ k + 1 \in 1 .. Len(b)
    BY LenProperties
  <2>5. s \in W
    BY <2>4, ElementOfSeq
  <2> QED
    BY <2>1, <2>2, <2>3, <2>4, <2>5, EmptySeq
<1>2. ASSUME NEW i \in 1 .. k + 1, b[i] \in K
      PROVE  /\ X # {}
             /\ i + 1 <= k + 1 => b[i + 1] = Backslash
             /\ i + 2 <= k + 1 => b[i + 2] \in X
             /\ i + 3 <= k + 1 => b[i + 3] = Backslash
  BY <1>1, <1>2 DEF Leads
<1>3. << >> # <<s>> /\ \A w : << >> # <<w>>
  BY EmptySeq
<1> DEFINE After(j) == /\ X # {}
                       /\ j + 1 <= m => F[j + 1] = << >> \/ \E x \in X : F[j + 1] = <<x>>
<1>4. \A j \in 1 .. m : \A w \in K : F[j] = <<w>> => After(j)
  BY Zenon DEF FieldsLead
<1> HIDE DEF After
<1>5. CASE s = Backslash
  <2>1. G = Append(F, << >>)
    BY <1>5 DEF SplitSymbol
  <2>2. /\ Len(G) = m + 1 /\ G[m + 1] = << >> /\ \A j \in 1 .. m : G[j] = F[j]
    BY <1>1, <2>1, AppendProperties
  <2> HIDE DEF G, m, s
  <2>3. ASSUME NEW j \in 1 .. m + 1, NEW w \in K, G[j] = <<w>>
        PROVE  /\ X # {}
               /\ j + 1 <= m + 1 => G[j + 1] = << >> \/ \E x \in X : G[j + 1] = <<x>>
    <3>1. j \in 1 .. m /\ F[j] = <<w>>
      <4>1. j # m + 1
        BY <1>3, <2>2, <2>3, Zenon
      <4>2. j \in 1 .. m
        BY <1>1, <4>1
      <4> QED
        BY <2>2, <2>3, <4>2, Zenon
    <3>2. X # {} /\ (j + 1 <= m => F[j + 1] = << >> \/ \E x \in X : F[j + 1] = <<x>>)
      BY <1>4, <3>1 DEF After
    <3>3. j + 1 <= m => G[j + 1] = F[j + 1]
      BY <1>1, <2>2, <3>1
    <3>4. j + 1 <= m \/ j + 1 = m + 1
      BY <1>1, <3>1
    <3> QED
      BY <2>2, <3>2, <3>3, <3>4
  <2>4. ASSUME NEW w \in K, F[m] = <<w>>
        PROVE  k + 1 >= 2 /\ b[(k + 1) - 1] = w
    BY <2>4 DEF LastFields, m
  <2>5. G[Len(G)] = << >> /\ G[Len(G) - 1] = F[m]
    BY <1>1, <2>2
  <2> QED
    BY <1>3, <2>2, <2>3, <2>4, <2>5 DEF FieldsLead, LastFields, G, s
<1>6. CASE s # Backslash
  <2> DEFINE f == Append(F[m], s)
  <2>1. G = [F EXCEPT ![m] = f]
    BY <1>6 DEF SplitSymbol
  <2>2. f \in Seq(W) /\ Len(f) = Len(F[m]) + 1 /\ f[Len(f)] = s /\ Len(F[m]) \in Nat
    BY <1>1, AppendProperties, LenProperties
  <2>3. /\ Len(G) = m /\ G[m] = f /\ \A j \in 1 .. m : j # m => G[j] = F[j]
    BY <1>1, <2>1, <2>2, ExceptSeq
  <2>4. ASSUME NEW w, f = <<w>> PROVE w = s /\ F[m] = << >>
    <3>1. Len(f) = 1 /\ f[1] = w
      BY <2>4
    <3> QED
      BY <1>1, <2>2, <3>1, EmptySeq
  <2>5. F[m] = << >> => f = <<s>>
    BY DEF f
  <2> HIDE DEF G, m, s, f
  <2>6. ASSUME NEW w \in K, m >= 2, F[m - 1] = <<w>>
        PROVE  /\ F[m] = << >> /\ s \in X /\ k + 1 >= 3 /\ b[(k + 1) - 2] = w
    <3>1. \/ F[m] = << >> /\ k >= 2 /\ b[k - 1] = w
          \/ (\E x : F[m] = <<x>>) /\ k >= 3 /\ b[k - 2] = w
      BY <2>6 DEF LastFields, m
    <3>2. ~(k >= 3 /\ b[k - 2] = w)
      <4> SUFFICES ASSUME k >= 3, b[k - 2] = w PROVE FALSE
        OBVIOUS
      <4>1. k - 2 \in 1 .. k + 1 /\ (k - 2) + 3 = k + 1
        OBVIOUS
      <4>2. b[(k - 2) + 3] = Backslash
        BY <1>2, <4>1
      <4> QED
        BY <1>6, <4>1, <4>2 DEF s
    <3>3. F[m] = << >> /\ k >= 2 /\ b[k - 1] = w
      BY <3>1, <3>2
    <3>4. k - 1 \in 1 .. k + 1 /\ (k - 1) + 2 = k + 1
      BY <3>3
    <3>5. s \in X
      BY <1>2, <3>3, <3>4 DEF s
    <3> QED
      BY <3>3, <3>5
  <2>7. ASSUME NEW j \in 1 .. m, NEW w \in K, G[j] = <<w>>
        PROVE  /\ X # {}
               /\ j + 1 <= m => G[j + 1] = << >> \/ \E x \in X : G[j + 1] = <<x>>
    <3>1. CASE j = m
      <4>1. w = s
        BY <2>3, <2>4, <2>7, <3>1
      <4>2. k + 1 \in 1 .. k + 1 /\ b[k + 1] \in K
        BY <4>1 DEF s
      <4> QED
        BY <1>1, <1>2, <3>1, <4>2
    <3>2. CASE j # m
      <4>1. F[j] = <<w>>
        BY <2>3, <2>7, <3>2
      <4>2. X # {} /\ (j + 1 <= m => F[j + 1] = << >> \/ \E x \in X : F[j + 1] = <<x>>)
        BY <1>4, <4>1 DEF After
      <4>3. CASE j + 1 = m
        <5>0. j = m - 1 /\ m >= 2
          BY <1>1, <4>3
        <5>1. F[m] = << >> /\ s \in X
          BY <2>6, <4>1, <5>0
        <5> QED
          BY <2>3, <2>5, <4>2, <4>3, <5>1
      <4>4. CASE j + 1 # m
        <5>1. j + 1 <= m => j + 1 \in 1 .. m
          BY <1>1
        <5> QED
          BY <2>3, <4>2, <4>4, <5>1
      <4> QED
        BY <4>3, <4>4
    <3> QED
      BY <3>1, <3>2
  <2>8. ASSUME NEW w \in K, G[m] = <<w>> PROVE k + 1 >= 1 /\ b[k + 1] = w
    BY <2>3, <2>4, <2>8 DEF s
  <2>9. ASSUME NEW w \in K, m >= 2, G[m - 1] = <<w>>
        PROVE  (\E x : G[m] = <<x>>) /\ k + 1 >= 3 /\ b[(k + 1) - 2] = w
    <3>1. m - 1 \in 1 .. m /\ m - 1 # m
      BY <1>1, <2>9
    <3>2. F[m - 1] = <<w>>
      BY <2>3, <2>9, <3>1
    <3> QED
      BY <2>3, <2>5, <2>6, <2>9, <3>2
  <2> QED
    BY <2>3, <2>7, <2>8, <2>9 DEF FieldsLead, LastFields, G, s
<1> QED
  BY <1>5, <1>6

LEMMA SplitLeads ==
    ASSUME NEW W, NEW b \in Seq(W), Backslash \in W, NEW K, NEW X, Backslash \notin X, Leads(b, K, X)
    PROVE  FieldsLead(Split(b), K, X)
<1>1. PICK r : SplitChain(r, b) /\ r[Len(b)] = Split(b)
  BY SplitPasses
<1> DEFINE T == {k \in Nat : k <= Len(b) => FieldsLead(r[k], K, X) /\ LastFields(r[k], b, k, K)}
<1>2. 0 \in T
  <2>1. r[0] = << << >> >> /\ Len(<< << >> >>) = 1 /\ << << >> >>[1] = << >>
    BY <1>1 DEF SplitChain
  <2>2. \A w : << >> # <<w>>
    BY EmptySeq
  <2> DEFINE F == r[0]
  <2>3. Len(F) = 1 /\ F[1] = << >> /\ \A j \in 1 .. 1 : j = 1
    BY <2>1
  <2> HIDE DEF F
  <2>4. FieldsLead(F, K, X)
    BY <2>2, <2>3 DEF FieldsLead
  <2>5. LastFields(F, b, 0, K)
    BY <2>2, <2>3 DEF LastFields
  <2> QED
    BY <2>4, <2>5 DEF F
<1>3. ASSUME NEW k \in Nat, k \in T PROVE k + 1 \in T
  <2> SUFFICES ASSUME k + 1 <= Len(b)
               PROVE  FieldsLead(r[k + 1], K, X) /\ LastFields(r[k + 1], b, k + 1, K)
    OBVIOUS
  <2>1. /\ k + 1 \in 1 .. Len(b) /\ (k + 1) - 1 = k /\ k \in 0 .. Len(b)
        /\ FieldsLead(r[k], K, X) /\ LastFields(r[k], b, k, K)
    BY <1>3, LenProperties
  <2>2. r[k] \in Fields(W) /\ r[k + 1] = SplitSymbol(r[k], b[k + 1])
    BY <1>1, <2>1, SplitChainTyped DEF SplitChain
  <2> QED
    BY <2>1, <2>2, SplitSymbolLeads
<1> HIDE DEF T
<1>4. Nat \subseteq T
  BY <1>2, <1>3, NatSetInduction
<1> QED
  BY <1>1, <1>4, LenProperties DEF T

\* A key of one word is read from a field of one word.
LEMMA OverrideKeyOne ==
    ASSUME NEW W, NEW raw \in Seq(W), NEW key, OverrideKey(raw) = <<key>>
    PROVE  \E w \in W : raw = <<w>>
<1> DEFINE low == ToLower(raw)
<1>1. low \in Seq({low[i] : i \in 1 .. Len(raw)}) /\ Len(low) = Len(raw) /\ Len(raw) \in Nat
  <2>1. DOMAIN raw = 1 .. Len(raw) /\ Len(raw) \in Nat
    BY LenProperties
  <2>2. low = [i \in 1 .. Len(raw) |->
                  IF raw[i] \in DOMAIN LowerCase THEN LowerCase[raw[i]] ELSE raw[i]]
    BY <2>1 DEF ToLower
  <2> HIDE DEF low
  <2> DEFINE V == {low[i] : i \in 1 .. Len(raw)}
  <2>3. low \in [1 .. Len(raw) -> V]
    BY <2>2
  <2> HIDE DEF V
  <2> QED
    BY <2>1, <2>3 DEF V
<1> HIDE DEF low
<1>2. Len(OverrideKey(raw)) = 1
  BY <1>1
<1>3. Len(raw) = 1
  <2>1. CASE OverrideKey(raw) = low
    BY <1>1, <1>2, <2>1
  <2>2. CASE OverrideKey(raw) # low
    <3>1. Len(low) = 1 \/ Len(low) = 2
      BY <2>2 DEF OverrideKey, low
    <3>2. OverrideKey(raw) = <<ValidKeys[low[1]]>> \o Tail(low)
      BY <2>2 DEF OverrideKey, low
    <3>3. /\ low # << >>
          /\ \E V : Tail(low) \in Seq(V) /\ Len(Tail(low)) = Len(low) - 1
      BY <1>1, <3>1, EmptySeq, HeadTailProperties
    <3>4. PICK V : Tail(low) \in Seq(V) /\ Len(Tail(low)) = Len(low) - 1
      BY <3>3
    <3>5. Len(OverrideKey(raw)) = 1 + Len(Tail(low))
      <4> DEFINE U == V \cup {ValidKeys[low[1]]}
      <4>1. <<ValidKeys[low[1]]>> \in Seq(U) /\ Len(<<ValidKeys[low[1]]>>) = 1
        OBVIOUS
      <4>2. Tail(low) \in Seq(U)
        BY <3>4, SeqMonotonic
      <4> HIDE DEF U
      <4> QED
        BY <3>2, <4>1, <4>2, ConcatProperties
    <3> QED
      BY <1>1, <1>2, <3>1, <3>4, <3>5
  <2> QED
    BY <2>1, <2>2
<1>4. raw = <<raw[1]>> /\ raw[1] \in W
  BY <1>3
<1> QED
  BY <1>4

\* An entry is two neighbouring fields, the key and its value.
StoredUpTo(state, G, k) ==
    /\ \A i \in 1 .. Len(state.entries) : \E j \in 1 .. k :
           /\ j + 1 <= k /\ state.entries[i].key = OverrideKey(G[j])
           /\ state.entries[i].value = G[j + 1]
    /\ state.key # << >> => k >= 1 /\ state.key = OverrideKey(G[k])

LEMMA StoreFieldFrom ==
    ASSUME NEW W, Closed(W), NEW G \in Seq(Seq(W)), NEW k \in Nat, k + 1 <= Len(G),
           NEW state \in States(W), StoredUpTo(state, G, k)
    PROVE  StoredUpTo(StoreField(state, G[k + 1]), G, k + 1)
<1> DEFINE field == G[k + 1]
           after == StoreField(state, field)
<1>1. /\ state.key \in Seq(W) /\ state.entries \in Seq(Entries(W)) /\ field \in Seq(W)
      /\ Len(state.entries) \in Nat
  <2>1. k + 1 \in 1 .. Len(G)
    BY LenProperties
  <2> QED
    BY <2>1, ElementOfSeq, LenProperties DEF States
<1>2. ASSUME NEW i \in 1 .. Len(state.entries)
      PROVE  \E j \in 1 .. k + 1 :
                /\ j + 1 <= k + 1 /\ state.entries[i].key = OverrideKey(G[j])
                /\ state.entries[i].value = G[j + 1]
  <2>1. PICK j \in 1 .. k :
           /\ j + 1 <= k /\ state.entries[i].key = OverrideKey(G[j])
           /\ state.entries[i].value = G[j + 1]
    BY DEF StoredUpTo
  <2>2. j \in 1 .. k + 1 /\ j + 1 <= k + 1
    BY <2>1
  <2> QED
    BY <2>1, <2>2
<1>3. CASE state.key = << >>
  <2>1. after.key = OverrideKey(field) /\ after.entries = state.entries
    BY <1>3 DEF StoreField, States
  <2> HIDE DEF after
  <2> QED
    BY <1>2, <2>1 DEF StoredUpTo, field, after
<1>4. CASE state.key # << >>
  <2> DEFINE e == [key |-> state.key, value |-> field]
  <2>1. after.key = << >> /\ after.entries = Append(state.entries, e)
    BY <1>4 DEF StoreField
  <2>2. e \in Entries(W)
    BY <1>1 DEF Entries
  <2>3. /\ Len(Append(state.entries, e)) = Len(state.entries) + 1
        /\ Append(state.entries, e)[Len(state.entries) + 1] = e
        /\ \A i \in 1 .. Len(state.entries) : Append(state.entries, e)[i] = state.entries[i]
    BY <1>1, <2>2, AppendProperties
  <2>4. k >= 1 /\ e.key = OverrideKey(G[k]) /\ e.value = G[k + 1]
    BY <1>4 DEF StoredUpTo
  <2> HIDE DEF after, e, field
  <2>5. ASSUME NEW i \in 1 .. Len(after.entries)
        PROVE  \E j \in 1 .. k + 1 :
                  /\ j + 1 <= k + 1 /\ after.entries[i].key = OverrideKey(G[j])
                  /\ after.entries[i].value = G[j + 1]
    <3>1. CASE i = Len(state.entries) + 1
      <4>1. k \in 1 .. k + 1 /\ k + 1 <= k + 1
        BY <2>4
      <4> QED
        BY <2>1, <2>3, <2>4, <3>1, <4>1
    <3>2. CASE i \in 1 .. Len(state.entries)
      BY <1>2, <2>1, <2>3, <3>2
    <3>3. i \in 1 .. Len(state.entries) + 1
      BY <2>1, <2>3
    <3> QED
      BY <1>1, <3>1, <3>2, <3>3
  <2> QED
    BY <2>1, <2>5 DEF StoredUpTo, after, field
<1> QED
  BY <1>3, <1>4

LEMMA StoreFrom ==
    ASSUME NEW W, Closed(W), NEW G \in Seq(Seq(W))
    PROVE  StoredUpTo(StoreAll(G), G, Len(G))
<1>1. PICK r : StoreChain(r, G) /\ r[Len(G)] = StoreAll(G)
  BY StorePasses
<1> DEFINE T == {k \in Nat : k <= Len(G) => StoredUpTo(r[k], G, k)}
<1>2. 0 \in T
  <2>1. r[0] = Start /\ Len(<< >>) = 0
    BY <1>1, EmptySeq DEF StoreChain
  <2> QED
    BY <2>1 DEF Start, StoredUpTo
<1>3. ASSUME NEW k \in Nat, k \in T PROVE k + 1 \in T
  <2> SUFFICES ASSUME k + 1 <= Len(G) PROVE StoredUpTo(r[k + 1], G, k + 1)
    OBVIOUS
  <2>1. /\ k + 1 \in 1 .. Len(G) /\ (k + 1) - 1 = k /\ k \in 0 .. Len(G)
        /\ StoredUpTo(r[k], G, k)
    BY <1>3, LenProperties
  <2>2. r[k] \in States(W) /\ r[k + 1] = StoreField(r[k], G[k + 1])
    BY <1>1, <2>1, StoreChainTyped DEF StoreChain
  <2> QED
    BY <2>1, <2>2, StoreFieldFrom
<1> HIDE DEF T
<1>4. Nat \subseteq T
  BY <1>2, <1>3, NatSetInduction
<1> QED
  BY <1>1, <1>4, LenProperties DEF T

\* Words that are read as a key, and what its values are read as.
WrittenAs(W, key) == {w \in W : OverrideKey(<<w>>) = <<key>>}

ValueRead(key, v) == IF key = "gamename" THEN OverrideGamename(v) ELSE v

ParsedFrom(data, key, X) == \A i \in 1 .. Len(data) : data[i].key = <<key>> =>
    X # {} /\ \E v : (v = << >> \/ \E x \in X : v = <<x>>) /\ data[i].value = ValueRead(key, v)

\* The parser makes an entry of what follows a key in the text, nothing else.
LEMMA ParseLeads ==
    ASSUME NEW W, Closed(W), Backslash \in W, NEW b \in Seq(W), NEW key, NEW X, Backslash \notin X,
           Leads(b, WrittenAs(W, key), X)
    PROVE  /\ \E S : ParseGameSpy0Buffer(b) \in Seq(S)
           /\ ParsedFrom(ParseGameSpy0Buffer(b), key, X)
<1> DEFINE F == Split(b)
           G == Tail(F)
           E == StoreAll(G).entries
           data == ParseGameSpy0Buffer(b)
<1>1. F \in Seq(Seq(W)) /\ F # << >> /\ FieldsLead(F, WrittenAs(W, key), X)
  BY SplitTyped, SplitLeads DEF Fields
<1> HIDE DEF F
<1>2. /\ G \in Seq(Seq(W)) /\ Len(G) = Len(F) - 1 /\ Len(F) \in Nat
      /\ \A j \in 1 .. Len(G) : G[j] = F[j + 1]
  BY <1>1, HeadTailProperties, LenProperties
<1>3. data = [i \in DOMAIN E |-> NormalGamename(E[i])]
  BY DEF ParseGameSpy0Buffer, StoreAll, Start, F
<1> HIDE DEF G
<1>4. StoredUpTo(StoreAll(G), G, Len(G)) /\ StoreAll(G) \in States(W)
  BY <1>2, StoreFrom, StoreTyped
<1>5. E \in Seq(Entries(W)) /\ Len(E) \in Nat /\ DOMAIN E = 1 .. Len(E)
  BY <1>4, LenProperties DEF States
<1>6. \A i \in 1 .. Len(E) : \E j \in 1 .. Len(G) :
         j + 1 <= Len(G) /\ E[i].key = OverrideKey(G[j]) /\ E[i].value = G[j + 1]
  BY <1>4 DEF StoredUpTo
<1> HIDE DEF E, data
<1>7. data \in Seq({data[i] : i \in 1 .. Len(E)}) /\ Len(data) = Len(E)
  <2> DEFINE V == {data[i] : i \in 1 .. Len(E)}
  <2>1. data \in [1 .. Len(E) -> V]
    BY <1>3, <1>5
  <2> HIDE DEF V
  <2> QED
    BY <1>5, <2>1 DEF V
<1>8. ASSUME NEW i \in 1 .. Len(data), data[i].key = <<key>>
      PROVE  /\ X # {}
             /\ \E v : (v = << >> \/ \E x \in X : v = <<x>>) /\ data[i].value = ValueRead(key, v)
  <2>1. i \in 1 .. Len(E) /\ data[i] = NormalGamename(E[i]) /\ E[i] \in Entries(W)
    BY <1>3, <1>5, <1>7, ElementOfSeq
  <2>2. E[i].key = <<key>> /\ data[i].value = ValueRead(key, E[i].value)
    <3>1. data[i].key = E[i].key
      BY <2>1 DEF NormalGamename, Entries
    <3>2. E[i].key = <<key>>
      BY <1>8, <3>1
    <3>3. E[i].key = <<"gamename">> <=> key = "gamename"
      BY <3>2
    <3> QED
      BY <2>1, <3>2, <3>3 DEF NormalGamename, ValueRead, Entries
  <2>3. PICK j \in 1 .. Len(G) : j + 1 <= Len(G) /\ <<key>> = OverrideKey(G[j]) /\ E[i].value = G[j + 1]
    BY <1>6, <2>1, <2>2
  <2>4. /\ G[j] = F[j + 1] /\ G[j + 1] = F[(j + 1) + 1] /\ (j + 1) + 1 <= Len(F)
        /\ j + 1 \in 1 .. Len(F) /\ G[j] \in Seq(W)
    <3>1. j + 1 \in 1 .. Len(G) /\ j \in 1 .. Len(G)
      BY <1>2, <2>3
    <3>2. G[j] = F[j + 1] /\ G[j + 1] = F[(j + 1) + 1]
      BY <1>2, <3>1
    <3>3. (j + 1) + 1 <= Len(F) /\ j + 1 \in 1 .. Len(F)
      BY <1>2, <3>1
    <3>4. G[j] \in Seq(W)
      BY <1>2, <3>1, ElementOfSeq
    <3> QED
      BY <3>2, <3>3, <3>4
  <2>5. PICK w \in W : G[j] = <<w>>
    BY <2>3, <2>4, OverrideKeyOne
  <2>6. w \in WrittenAs(W, key)
    BY <2>3, <2>5 DEF WrittenAs
  <2>7. X # {} /\ (F[(j + 1) + 1] = << >> \/ \E x \in X : F[(j + 1) + 1] = <<x>>)
    BY <1>1, <2>4, <2>5, <2>6 DEF FieldsLead
  <2> QED
    BY <2>2, <2>3, <2>4, <2>7
<1> QED
  BY <1>7, <1>8 DEF ParsedFrom, data
-----------------------------------------------------------------------------
(* Texts that are put together from whole pairs.                           *)

\* What every part of a text does that is not cut.
Completes(b, K, X) ==
    /\ \A i \in 1 .. Len(b) : b[i] \in K =>
           /\ X # {} /\ i + 2 <= Len(b) /\ b[i + 1] = Backslash /\ b[i + 2] \in X
           /\ i + 3 <= Len(b) => b[i + 3] = Backslash
    /\ Len(b) >= 1 => b[1] = Backslash

\* Of a part without its beginning.
CompletesRest(b, K, X) == \A i \in 1 .. Len(b) : b[i] \in K =>
    /\ X # {} /\ i + 2 <= Len(b) /\ b[i + 1] = Backslash /\ b[i + 2] \in X
    /\ i + 3 <= Len(b) => b[i + 3] = Backslash

LEMMA ConcatItems ==
    ASSUME NEW W, NEW a \in Seq(W), NEW b \in Seq(W)
    PROVE  /\ Len(a) \in Nat /\ Len(b) \in Nat /\ Len(a \o b) = Len(a) + Len(b) /\ a \o b \in Seq(W)
           /\ \A i \in 1 .. Len(a) : (a \o b)[i] = a[i]
           /\ \A i \in 1 .. Len(b) : (a \o b)[i + Len(a)] = b[i]
<1>1. /\ Len(a) \in Nat /\ Len(b) \in Nat /\ Len(a \o b) = Len(a) + Len(b) /\ a \o b \in Seq(W)
      /\ \A i \in 1 .. Len(a) + Len(b) : (a \o b)[i] = IF i <= Len(a) THEN a[i] ELSE b[i - Len(a)]
  BY ConcatProperties, LenProperties
<1> DEFINE c == a \o b
<1> HIDE DEF c
<1>2. ASSUME NEW i \in 1 .. Len(b) PROVE c[i + Len(a)] = b[i]
  <2>1. /\ i + Len(a) \in 1 .. Len(a) + Len(b) /\ ~(i + Len(a) <= Len(a))
        /\ (i + Len(a)) - Len(a) = i
    BY <1>1
  <2> QED
    BY <1>1, <2>1 DEF c
<1>3. \A i \in 1 .. Len(a) : c[i] = a[i]
  BY <1>1 DEF c
<1> QED
  BY <1>1, <1>2, <1>3 DEF c

LEMMA CompletesConcat ==
    ASSUME NEW W, NEW a \in Seq(W), NEW b \in Seq(W), NEW K, NEW X,
           CompletesRest(a, K, X), Completes(b, K, X)
    PROVE  /\ a \o b \in Seq(W) /\ CompletesRest(a \o b, K, X)
           /\ Completes(a, K, X) => Completes(a \o b, K, X)
<1> DEFINE c == a \o b
           m == Len(a)
           n == Len(b)
<1>1. /\ m \in Nat /\ n \in Nat /\ Len(c) = m + n /\ c \in Seq(W)
      /\ \A i \in 1 .. m : c[i] = a[i]
      /\ \A i \in 1 .. n : c[i + m] = b[i]
  BY ConcatItems
<1> HIDE DEF c, m, n
<1>2. ASSUME NEW i \in 1 .. Len(c), c[i] \in K
      PROVE  /\ X # {} /\ i + 2 <= Len(c) /\ c[i + 1] = Backslash /\ c[i + 2] \in X
             /\ i + 3 <= Len(c) => c[i + 3] = Backslash
  <2>1. CASE i \in 1 .. m
    <3>1. /\ X # {} /\ i + 2 <= m /\ a[i + 1] = Backslash /\ a[i + 2] \in X
          /\ i + 3 <= m => a[i + 3] = Backslash
      BY <1>1, <1>2, <2>1 DEF CompletesRest, m
    <3>2. i + 1 \in 1 .. m /\ i + 2 \in 1 .. m
      BY <1>1, <2>1, <3>1
    <3>3. CASE i + 3 <= m
      <4>1. i + 3 \in 1 .. m
        BY <1>1, <2>1, <3>3
      <4> QED
        BY <1>1, <3>1, <3>2, <3>3, <4>1
    <3>4. CASE ~(i + 3 <= m)
      <4>1. i + 3 = 1 + m
        BY <1>1, <2>1, <3>1, <3>4
      <4>2. i + 3 <= Len(c) => 1 \in 1 .. n /\ n >= 1
        BY <1>1, <4>1
      <4>3. i + 3 <= Len(c) => c[1 + m] = Backslash
        BY <1>1, <4>2 DEF Completes, n
      <4> QED
        BY <1>1, <3>1, <3>2, <4>1, <4>3
    <3> QED
      BY <3>3, <3>4
  <2>2. CASE ~(i \in 1 .. m)
    <3> DEFINE j == i - m
    <3>1. j \in 1 .. n /\ i = j + m /\ j \in Nat
      BY <1>1, <2>2
    <3> HIDE DEF j
    <3>2. b[j] \in K
      BY <1>1, <1>2, <3>1
    <3>3. /\ X # {} /\ j + 2 <= n /\ b[j + 1] = Backslash /\ b[j + 2] \in X
          /\ j + 3 <= n => b[j + 3] = Backslash
      BY <3>1, <3>2 DEF Completes, n
    <3>4. j + 1 \in 1 .. n /\ j + 2 \in 1 .. n /\ (j + 3 <= n => j + 3 \in 1 .. n)
      <4>1. n \in Nat /\ j \in Nat /\ j + 2 <= n
        BY <1>1, <3>1, <3>3
      <4> HIDE DEF j
      <4> QED
        BY <4>1
    <3>5. c[(j + 1) + m] = b[j + 1] /\ c[(j + 2) + m] = b[j + 2] /\ (j + 3 <= n => c[(j + 3) + m] = b[j + 3])
      BY <1>1, <3>4
    <3>6. /\ (j + 1) + m = i + 1 /\ (j + 2) + m = i + 2 /\ (j + 3) + m = i + 3
          /\ i + 2 <= Len(c) /\ (i + 3 <= Len(c) => j + 3 <= n)
      BY <1>1, <3>1, <3>3
    <3> QED
      BY <3>3, <3>5, <3>6
  <2> QED
    BY <2>1, <2>2
<1>3. CompletesRest(c, K, X)
  BY <1>2 DEF CompletesRest
<1>4. ASSUME Completes(a, K, X), Len(c) >= 1 PROVE c[1] = Backslash
  <2>1. CASE m >= 1
    BY <1>1, <1>4, <2>1 DEF Completes, m
  <2>2. CASE m = 0
    <3>1. 1 \in 1 .. n /\ c[1 + m] = b[1] /\ n >= 1 /\ 1 + m = 1
      BY <1>1, <1>4, <2>2
    <3> QED
      BY <3>1 DEF Completes, n
  <2> QED
    BY <1>1, <2>1, <2>2
<1> QED
  BY <1>1, <1>2, <1>3, <1>4 DEF Completes, c

\* Of a stream that is cut the rest is still complete, and what was read leads.
LEMMA CompletesCut ==
    ASSUME NEW W, NEW a \in Seq(W), NEW b \in Seq(W), NEW K, NEW X, CompletesRest(a \o b, K, X)
    PROVE  Leads(a, K, X) /\ CompletesRest(b, K, X)
<1> DEFINE c == a \o b
           m == Len(a)
           n == Len(b)
<1>1. /\ m \in Nat /\ n \in Nat /\ Len(c) = m + n /\ c \in Seq(W)
      /\ \A i \in 1 .. m : c[i] = a[i]
      /\ \A i \in 1 .. n : c[i + m] = b[i]
  BY ConcatItems
<1> HIDE DEF c, m, n
<1>2. \A i \in 1 .. Len(c) : c[i] \in K =>
         /\ X # {} /\ i + 2 <= Len(c) /\ c[i + 1] = Backslash /\ c[i + 2] \in X
         /\ i + 3 <= Len(c) => c[i + 3] = Backslash
  BY DEF CompletesRest, c
<1>3. ASSUME NEW i \in 1 .. m, a[i] \in K
      PROVE  /\ X # {} /\ (i + 1 <= m => a[i + 1] = Backslash)
             /\ (i + 2 <= m => a[i + 2] \in X) /\ (i + 3 <= m => a[i + 3] = Backslash)
  <2>1. i \in 1 .. Len(c) /\ c[i] \in K
    BY <1>1, <1>3
  <2>2. /\ X # {} /\ c[i + 1] = Backslash /\ c[i + 2] \in X
        /\ i + 3 <= Len(c) => c[i + 3] = Backslash
    BY <1>2, <2>1
  <2>3. \A k \in 1 .. 3 : i + k <= m => c[i + k] = a[i + k]
    BY <1>1
  <2>4. /\ i + 1 <= m => c[i + 1] = a[i + 1]
        /\ i + 2 <= m => c[i + 2] = a[i + 2]
        /\ i + 3 <= m => c[i + 3] = a[i + 3] /\ i + 3 <= Len(c)
    BY <1>1, <2>3
  <2> QED
    BY <2>2, <2>4
<1>4. ASSUME NEW i \in 1 .. n, b[i] \in K
      PROVE  /\ X # {} /\ i + 2 <= n /\ b[i + 1] = Backslash /\ b[i + 2] \in X
             /\ i + 3 <= n => b[i + 3] = Backslash
  <2>1. i + m \in 1 .. Len(c) /\ c[i + m] \in K
    BY <1>1, <1>4
  <2>2. /\ X # {} /\ (i + m) + 2 <= Len(c) /\ c[(i + m) + 1] = Backslash /\ c[(i + m) + 2] \in X
        /\ (i + m) + 3 <= Len(c) => c[(i + m) + 3] = Backslash
    BY <1>2, <2>1
  <2>3. i + 2 <= n /\ i + 1 \in 1 .. n /\ i + 2 \in 1 .. n /\ (i + 3 <= n => i + 3 \in 1 .. n)
    BY <1>1, <2>2
  <2>4. /\ (i + m) + 1 = (i + 1) + m /\ (i + m) + 2 = (i + 2) + m /\ (i + m) + 3 = (i + 3) + m
        /\ i + 3 <= n => (i + m) + 3 <= Len(c)
    BY <1>1
  <2>5. /\ c[(i + 1) + m] = b[i + 1] /\ c[(i + 2) + m] = b[i + 2]
        /\ i + 3 <= n => c[(i + 3) + m] = b[i + 3]
    BY <1>1, <2>3
  <2> QED
    BY <2>2, <2>3, <2>4, <2>5
<1> QED
  BY <1>3, <1>4 DEF Leads, CompletesRest, m, n

\* A text whose parts are in a set that concatenation does not leave is in it.
LEMMA FlattenInside ==
    ASSUME NEW S, NEW seqs \in Seq(Seq(S)), NEW T, << >> \in T,
           \A u, v \in T : u \o v \in T, \A k \in 1 .. Len(seqs) : seqs[k] \in T
    PROVE  FlattenSeq(seqs) \in T
<1>1. PICK r : /\ FlattenChain(r, seqs) /\ r[Len(seqs)] = FlattenSeq(seqs)
               /\ \A k \in 0 .. Len(seqs) : r[k] \in Seq(S)
  BY FlattenPasses
<1> DEFINE I == {k \in Nat : k <= Len(seqs) => r[k] \in T}
<1>2. 0 \in I
  BY <1>1 DEF FlattenChain
<1>3. ASSUME NEW k \in Nat, k \in I PROVE k + 1 \in I
  <2> SUFFICES ASSUME k + 1 <= Len(seqs) PROVE r[k + 1] \in T
    OBVIOUS
  <2>1. k + 1 \in 1 .. Len(seqs) /\ (k + 1) - 1 = k /\ r[k] \in T
    BY <1>3, LenProperties
  <2>2. r[k + 1] = r[k] \o seqs[k + 1]
    BY <1>1, <2>1 DEF FlattenChain
  <2>3. r[k] \o seqs[k + 1] \in T
    BY <2>1, Zenon
  <2> QED
    BY <2>2, <2>3
<1> HIDE DEF I
<1>4. Nat \subseteq I
  BY <1>2, <1>3, NatSetInduction
<1> QED
  BY <1>1, <1>4, LenProperties DEF I

\* The texts that do what Completes says.
WholeText(W, K, X) == {b \in Seq(W) : Completes(b, K, X)}

LEMMA WholeClosed ==
    ASSUME NEW W, NEW K, NEW X
    PROVE  << >> \in WholeText(W, K, X) /\ \A u, v \in WholeText(W, K, X) : u \o v \in WholeText(W, K, X)
<1>1. << >> \in WholeText(W, K, X)
  <2>1. << >> \in Seq(W) /\ Len(<< >>) = 0
    BY EmptySeq
  <2> QED
    BY <2>1 DEF WholeText, Completes
<1>2. ASSUME NEW u \in WholeText(W, K, X), NEW v \in WholeText(W, K, X) PROVE u \o v \in WholeText(W, K, X)
  <2>1. u \in Seq(W) /\ v \in Seq(W) /\ Completes(u, K, X) /\ Completes(v, K, X)
    BY DEF WholeText
  <2>2. CompletesRest(u, K, X)
    BY <2>1 DEF Completes, CompletesRest
  <2> QED
    BY <2>1, <2>2, CompletesConcat DEF WholeText
<1> QED
  BY <1>1, <1>2

\* A pair whose key is one of K has one word for a value.
LEMMA PairWhole ==
    ASSUME NEW W, NEW K, NEW X, Backslash \in W, Backslash \notin K, NEW k \in W, NEW v \in Seq(W),
           \A i \in 1 .. Len(v) : v[i] \notin K,
           k \in K => \E x \in X : v = <<x>>
    PROVE  Pair(k, v) \in WholeText(W, K, X)
<1> DEFINE h == <<Backslash, k, Backslash>>
           c == h \o v
<1>1. h \in Seq(W) /\ Len(h) = 3 /\ h[1] = Backslash /\ h[2] = k /\ h[3] = Backslash
  OBVIOUS
<1> HIDE DEF h
<1>2. /\ Len(v) \in Nat /\ Len(c) = 3 + Len(v) /\ c \in Seq(W)
      /\ \A i \in 1 .. 3 : c[i] = h[i]
      /\ \A i \in 1 .. Len(v) : c[i + 3] = v[i]
  <2>1. /\ Len(v) \in Nat /\ Len(c) = Len(h) + Len(v) /\ c \in Seq(W)
        /\ \A i \in 1 .. Len(h) : c[i] = h[i]
        /\ \A i \in 1 .. Len(v) : c[i + Len(h)] = v[i]
    <3>1. h \in Seq(W)
      BY <1>1
    <3> QED
      BY <3>1, ConcatItems
  <2> HIDE DEF c
  <2> QED
    BY <1>1, <2>1
<1> HIDE DEF c
<1>3. c[1] = Backslash /\ c[2] = k /\ c[3] = Backslash
  <2>1. c[1] = h[1] /\ c[2] = h[2] /\ c[3] = h[3]
    BY <1>2
  <2> QED
    BY <1>1, <2>1, Zenon
<1>4. ASSUME NEW i \in 1 .. Len(c), c[i] \in K
      PROVE  /\ X # {} /\ i + 2 <= Len(c) /\ c[i + 1] = Backslash /\ c[i + 2] \in X
             /\ i + 3 <= Len(c) => c[i + 3] = Backslash
  <2>1. i # 1 /\ i # 3
    BY <1>3, <1>4
  <2>2. ~(i >= 4)
    <3> SUFFICES ASSUME i >= 4 PROVE FALSE
      OBVIOUS
    <3>1. i - 3 \in 1 .. Len(v) /\ (i - 3) + 3 = i
      BY <1>2
    <3> QED
      BY <1>2, <1>4, <3>1
  <2>3. i = 2
    BY <2>1, <2>2
  <2>4. PICK x \in X : v = <<x>>
    BY <1>3, <1>4, <2>3
  <2>5. Len(v) = 1 /\ v[1] = x
    BY <2>4
  <2>6. 1 \in 1 .. Len(v) /\ c[1 + 3] = x /\ Len(c) = 4
    BY <1>2, <2>5
  <2> QED
    BY <1>3, <2>3, <2>6
<1> QED
  BY <1>2, <1>3, <1>4 DEF WholeText, Completes, Pair, c, h

LEMMA FunctionIsSeq ==
    ASSUME NEW V, NEW n \in Nat, NEW f \in [1 .. n -> V]
    PROVE  f \in Seq(V) /\ Len(f) = n
  OBVIOUS

\* So is a text of such pairs.
LEMMA TextWhole ==
    ASSUME NEW W, NEW K, NEW X, Backslash \in W, Backslash \notin K, NEW pairs \in Seq(W \X Seq(W)),
           \A i \in 1 .. Len(pairs) :
               /\ \A j \in 1 .. Len(pairs[i][2]) : pairs[i][2][j] \notin K
               /\ pairs[i][1] \in K => \E x \in X : pairs[i][2] = <<x>>
    PROVE  Text(pairs) \in WholeText(W, K, X)
<1> DEFINE seqs == [i \in DOMAIN pairs |-> <<Backslash, pairs[i][1], Backslash>> \o pairs[i][2]]
<1>1. DOMAIN pairs = 1 .. Len(pairs) /\ Len(pairs) \in Nat
  BY LenProperties
<1>2. \A i \in 1 .. Len(pairs) : seqs[i] \in WholeText(W, K, X)
  <2> SUFFICES ASSUME NEW i \in 1 .. Len(pairs) PROVE Pair(pairs[i][1], pairs[i][2]) \in WholeText(W, K, X)
    BY <1>1 DEF Pair
  <2>1. pairs[i] \in W \X Seq(W)
    BY ElementOfSeq
  <2>2. pairs[i][1] \in W /\ pairs[i][2] \in Seq(W)
    BY <2>1
  <2> QED
    BY <2>2, PairWhole
<1>3. seqs \in [1 .. Len(pairs) -> WholeText(W, K, X)]
  BY <1>1, <1>2
<1> HIDE DEF seqs
<1>4. seqs \in Seq(Seq(W)) /\ Len(seqs) = Len(pairs)
  <2>1. WholeText(W, K, X) \subseteq Seq(W)
    BY DEF WholeText
  <2> DEFINE n == Len(pairs)
             V == Seq(W)
  <2>2. n \in Nat /\ seqs \in [1 .. n -> V]
    BY <1>1, <1>3, <2>1
  <2> HIDE DEF n, V
  <2>3. seqs \in Seq(V) /\ Len(seqs) = n
    BY <2>2, FunctionIsSeq
  <2> QED
    BY <2>3 DEF n, V
<1>5. FlattenSeq(seqs) \in WholeText(W, K, X)
  BY <1>2, <1>4, WholeClosed, FlattenInside
<1> QED
  BY <1>5 DEF Text, seqs
-----------------------------------------------------------------------------
(* A set in some order.                                                    *)

Lists(order, S) == /\ order \in Seq(S)
                   /\ \A x \in S : \E k \in 1 .. Len(order) : order[k] = x

LEMMA InjectionLists ==
    ASSUME NEW S, IsFiniteSet(S), NEW f \in [1 .. Cardinality(S) -> S],
           \A i, j \in 1 .. Cardinality(S) : f[i] = f[j] => i = j
    PROVE  Lists(f, S)
<1> DEFINE n == Cardinality(S)
<1>1. n \in Nat
  BY FS_CardinalityType
<1>2. f \in Injection(1 .. n, S)
  BY DEF Injection, IsInjective
<1>3. IsFiniteSet(1 .. n) /\ Cardinality(1 .. n) = n
  <2>1. IsFiniteSet(1 .. n) /\ Cardinality(1 .. n) = IF 1 > n THEN 0 ELSE n - 1 + 1
    BY <1>1, FS_Interval
  <2> HIDE DEF n
  <2> QED
    BY <1>1, <2>1
<1> HIDE DEF n
<1>4. f \in Surjection(1 .. n, S)
  BY <1>2, <1>3, FS_Injection DEF n
<1>5. \A x \in S : \E k \in 1 .. n : f[k] = x
  BY <1>4 DEF Surjection
<1>6. f \in Seq(S) /\ Len(f) = n
  <2>1. f \in [1 .. n -> S]
    BY DEF n
  <2> QED
    BY <1>1, <2>1
<1> QED
  BY <1>5, <1>6 DEF Lists

LEMMA OrderLists ==
    ASSUME NEW S, IsFiniteSet(S), NEW order \in SetToSeqs(S)
    PROVE  Lists(order, S)
<1>1. /\ order \in [1 .. Cardinality(S) -> S]
      /\ \A i, j \in 1 .. Cardinality(S) : order[i] = order[j] => i = j
  BY DEF SetToSeqs
<1> QED
  BY <1>1, InjectionLists

LEMMA SetToSeqLists ==
    ASSUME NEW S, IsFiniteSet(S)
    PROVE  Lists(SetToSeq(S), S)
<1>1. \E f \in [1 .. Cardinality(S) -> S] : IsInjective(f)
  <2>1. PICK f : f \in Bijection(1 .. Cardinality(S), S)
    BY FS_CardinalityType DEF ExistsBijection
  <2> QED
    BY <2>1 DEF Bijection, Injection
<1>2. SetToSeq(S) \in [1 .. Cardinality(S) -> S] /\ IsInjective(SetToSeq(S))
  BY <1>1 DEF SetToSeq
<1>3. DOMAIN SetToSeq(S) = 1 .. Cardinality(S)
  BY <1>2
<1>4. \A i, j \in 1 .. Cardinality(S) : SetToSeq(S)[i] = SetToSeq(S)[j] => i = j
  BY <1>2, <1>3 DEF IsInjective
<1> QED
  BY <1>2, <1>4, InjectionLists

\* The positions of a sequence that are picked.
LEMMA PositionsFinite ==
    ASSUME NEW T, NEW s \in Seq(T), NEW ids \in SUBSET (1 .. Len(s))
    PROVE  IsFiniteSet(ids)
<1>1. IsFiniteSet(1 .. Len(s))
  <2>1. Len(s) \in Int /\ 1 \in Int
    BY LenProperties
  <2> QED
    BY <2>1, FS_Interval
<1> QED
  BY <1>1, FS_Subset

\* The games of servers that are up to date are games of the table.
LEMMA ActiveGamesFinite ==
    ASSUME NEW t \in Table, NEW ttl, NEW now
    PROVE  ActiveGames(t, ttl, now) \in SUBSET GameName /\ IsFiniteSet(ActiveGames(t, ttl, now))
<1> DEFINE ids == {i \in DOMAIN t : t[i].dt_updated > now - ttl}
           f == [id \in ids |-> t[id].gamename]
           S == ActiveGames(t, ttl, now)
<1>1. DOMAIN t = 1 .. Len(t) /\ \A id \in DOMAIN t : t[id] \in Row
  BY DEF Table
<1>2. IsFiniteSet(ids)
  BY <1>1, PositionsFinite DEF Table
<1>3. f \in Surjection(ids, S)
  <2>1. S = {t[id].gamename : id \in ids}
    BY DEF ActiveGames
  <2> HIDE DEF S, ids
  <2>2. f \in [ids -> S] /\ \A x \in S : \E id \in ids : f[id] = x
    BY <2>1
  <2> QED
    BY <2>2 DEF Surjection
<1>4. IsFiniteSet(S)
  BY <1>2, <1>3, FS_Surjection
<1>5. S \in SUBSET GameName
  BY <1>1 DEF ActiveGames, Row
<1> QED
  BY <1>4, <1>5
=============================================================================
