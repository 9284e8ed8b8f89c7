-------------------------- MODULE ListSessionProofs --------------------------
(* What a connection to the list server hands out, what the client has sent *)
(* by then, and that a client is answered in full, for any requests and any *)
(* way of cutting the stream.                                               *)
EXTENDS ListSession, SharedProofs, FiniteSetTheorems

\* A handler, whatever its texts and requests are made of.
Shape(h) == \E R, O, E :
    h \in [state : SocketState, timer : Timer, rxBuffer : R, hasValidated : Bit,
           requestEnctype2 : Bit, out : O, served : Seq(E)]

ListTypes == {"list"}
SyncTypes == {"sync", "self"}

AtMostOne(served, types) == \A i, j \in DOMAIN served :
    served[i].type \in types /\ served[j].type \in types => i = j

NoneOf(served, types) == \A i \in DOMAIN served : served[i].type \notin types

\* An open connection has been given no list; then one of each kind at most.
Earlier(h) ==
    /\ Shape(h)
    /\ AtMostOne(h.served, ListTypes) /\ AtMostOne(h.served, SyncTypes)
    /\ h.state = "open" => NoneOf(h.served, ListTypes) /\ NoneOf(h.served, SyncTypes)

\* What one more entry does to the two counts.
LEMMA AppendOne ==
    ASSUME NEW E, NEW s \in Seq(E), NEW entry, NEW types
    PROVE  /\ NoneOf(s, types) => AtMostOne(Append(s, entry), types)
           /\ entry.type \notin types /\ NoneOf(s, types) => NoneOf(Append(s, entry), types)
           /\ entry.type \notin types /\ AtMostOne(s, types) => AtMostOne(Append(s, entry), types)
<1> DEFINE u == Append(s, entry)
<1>1. /\ DOMAIN u = 1 .. Len(s) + 1 /\ DOMAIN s = 1 .. Len(s) /\ Len(s) \in Nat
      /\ \A i \in 1 .. Len(s) : u[i] = s[i]
      /\ u[Len(s) + 1] = entry
  <2>1. s \in Seq(E \cup {entry}) /\ entry \in E \cup {entry}
    OBVIOUS
  <2> QED
    BY <2>1
<1>2. \A i \in DOMAIN u : i \in DOMAIN s \/ i = Len(s) + 1
  BY <1>1
<1>3. \A i \in DOMAIN s : u[i] = s[i]
  BY <1>1
<1> HIDE DEF u
<1>4. NoneOf(s, types) => AtMostOne(u, types)
  BY <1>2, <1>3 DEF NoneOf, AtMostOne
<1>5. entry.type \notin types /\ NoneOf(s, types) => NoneOf(u, types)
  BY <1>1, <1>2, <1>3 DEF NoneOf
<1>6. entry.type \notin types /\ AtMostOne(s, types) => AtMostOne(u, types)
  BY <1>1, <1>2, <1>3 DEF AtMostOne
<1> QED
  BY <1>4, <1>5, <1>6 DEF u

LEMMA DisconnectCloses ==
    ASSUME NEW h, Shape(h)
    PROVE  /\ Shape(Disconnect(h)) /\ Disconnect(h).served = h.served
           /\ Disconnect(h).state # "open"
           /\ h.state = "closed" => Disconnect(h).state = "closed"
<1>1. PICK R, O, E : h \in [state : SocketState, timer : Timer, rxBuffer : R, hasValidated : Bit,
                            requestEnctype2 : Bit, out : O, served : Seq(E)]
  BY DEF Shape
<1>2. /\ Disconnect(h) \in [state : SocketState, timer : Timer, rxBuffer : R, hasValidated : Bit,
                            requestEnctype2 : Bit, out : O, served : Seq(E)]
      /\ Disconnect(h).served = h.served /\ Disconnect(h).state # "open"
      /\ h.state = "closed" => Disconnect(h).state = "closed"
  BY <1>1 DEF Disconnect, SocketState, Timer
<1> QED
  BY <1>2 DEF Shape

LEMMA WriteAppends ==
    ASSUME NEW h, Shape(h), NEW text, NEW entry
    PROVE  /\ Shape(Write(h, text, entry)) /\ Write(h, text, entry).state = h.state
           /\ Write(h, text, entry).served \in {h.served, Append(h.served, entry)}
<1>1. PICK R, O, E : h \in [state : SocketState, timer : Timer, rxBuffer : R, hasValidated : Bit,
                            requestEnctype2 : Bit, out : O, served : Seq(E)]
  BY DEF Shape
<1>2. CASE h.state = "closed"
  BY <1>2 DEF Write
<1>3. CASE h.state # "closed"
  <2> DEFINE w == [h EXCEPT !.out = @ \o text, !.served = Append(@, entry)]
  <2>1. Append(h.served, entry) \in Seq(E \cup {entry})
    <3>1. h.served \in Seq(E \cup {entry}) /\ entry \in E \cup {entry}
      BY <1>1
    <3> QED
      BY <3>1
  <2>2. w \in [state : SocketState, timer : Timer, rxBuffer : R, hasValidated : Bit,
               requestEnctype2 : Bit, out : {h.out \o text}, served : Seq(E \cup {entry})]
    BY <1>1, <2>1
  <2>3. w.state = h.state /\ w.served = Append(h.served, entry)
    BY <1>1
  <2>4. Write(h, text, entry) = w
    BY <1>3 DEF Write
  <2> HIDE DEF w
  <2> QED
    BY <2>2, <2>3, <2>4 DEF Shape
<1> QED
  BY <1>2, <1>3

LEMMA ServedIsSeq ==
    ASSUME NEW h, Shape(h)
    PROVE  \E E : h.served \in Seq(E)
  BY DEF Shape

LEMMA ValidateKeeps ==
    ASSUME NEW h, NEW data, Earlier(h)
    PROVE  Earlier(Validate(h, data)) /\ Validate(h, data).served = h.served
<1> DEFINE asked == [h EXCEPT !.requestEnctype2 = WantsEnctype2(data)]
           passed == [asked EXCEPT !.hasValidated = 1]
<1>1. PICK R, O, E : h \in [state : SocketState, timer : Timer, rxBuffer : R, hasValidated : Bit,
                            requestEnctype2 : Bit, out : O, served : Seq(E)]
  BY DEF Shape, Earlier
<1>2. WantsEnctype2(data) \in Bit /\ 1 \in Bit
  BY DEF WantsEnctype2, Bit
<1> HIDE DEF passed
<1>3. asked \in [state : SocketState, timer : Timer, rxBuffer : R, hasValidated : Bit,
                 requestEnctype2 : Bit, out : O, served : Seq(E)]
      /\ asked.state = h.state /\ asked.served = h.served
  BY <1>1, <1>2
<1> HIDE DEF asked
<1>4. passed \in [state : SocketState, timer : Timer, rxBuffer : R, hasValidated : Bit,
                  requestEnctype2 : Bit, out : O, served : Seq(E)]
      /\ passed.state = h.state /\ passed.served = h.served
  BY <1>2, <1>3 DEF passed
<1>5. Earlier(passed)
  BY <1>4 DEF Earlier, Shape
<1>6. Shape(asked)
  BY <1>3 DEF Shape
<1>7. Earlier(Disconnect(asked)) /\ Disconnect(asked).served = h.served
  BY <1>3, <1>6, DisconnectCloses DEF Earlier
<1>8. Validate(h, data) \in {h, passed, Disconnect(asked)}
  BY DEF Validate, asked, passed
<1> QED
  BY <1>4, <1>5, <1>7, <1>8

LEMMA DisconnectKeeps ==
    ASSUME NEW h, Earlier(h)
    PROVE  Earlier(Disconnect(h))
  BY DisconnectCloses DEF Earlier

\* The list is the first one, and the connection is over.
LEMMA ServeListKeeps ==
    ASSUME NEW h, NEW data, Earlier(h), NoneOf(h.served, ListTypes), NoneOf(h.served, SyncTypes)
    PROVE  /\ Earlier(ServeList(h, data)) /\ ServeList(h, data).state # "open"
           /\ NoneOf(ServeList(h, data).served, SyncTypes)
<1>1. PICK text, entry :
         /\ ServeList(h, data) = Disconnect(Write(h, text, entry)) /\ entry.type = "list"
  BY DEF ServeList
<1> DEFINE w == Write(h, text, entry)
<1>2. Shape(w) /\ w.served \in {h.served, Append(h.served, entry)}
  BY WriteAppends DEF Earlier
<1> HIDE DEF w
<1>3. PICK E : h.served \in Seq(E)
  BY ServedIsSeq DEF Earlier
<1>4. entry.type \notin SyncTypes
  BY <1>1 DEF SyncTypes
<1>5. /\ AtMostOne(w.served, ListTypes) /\ AtMostOne(w.served, SyncTypes)
      /\ NoneOf(w.served, SyncTypes)
  <2>1. AtMostOne(Append(h.served, entry), ListTypes)
    BY <1>3, AppendOne
  <2>2. NoneOf(Append(h.served, entry), SyncTypes)
    BY <1>3, <1>4, AppendOne
  <2>3. AtMostOne(Append(h.served, entry), SyncTypes)
    BY <1>3, AppendOne
  <2> QED
    BY <1>2, <2>1, <2>2, <2>3 DEF Earlier
<1>6. Shape(Disconnect(w)) /\ Disconnect(w).served = w.served /\ Disconnect(w).state # "open"
  BY <1>2, DisconnectCloses
<1> QED
  BY <1>1, <1>5, <1>6 DEF Earlier, w

\* So is the sync list, which may follow the list of the same request.
LEMMA ServeSyncKeeps ==
    ASSUME NEW h, NEW data, Earlier(h), NoneOf(h.served, SyncTypes)
    PROVE  Earlier(ServeSync(h, data)) /\ ServeSync(h, data).state # "open"
<1>1. PICK text, entry :
         /\ ServeSync(h, data) = Disconnect(Write(h, text, entry)) /\ entry.type \in SyncTypes
  BY DEF ServeSync, SyncTypes
<1> DEFINE w == Write(h, text, entry)
<1>2. Shape(w) /\ w.served \in {h.served, Append(h.served, entry)}
  BY WriteAppends DEF Earlier
<1> HIDE DEF w
<1>3. PICK E : h.served \in Seq(E)
  BY ServedIsSeq DEF Earlier
<1>4. entry.type \notin ListTypes
  BY <1>1 DEF SyncTypes, ListTypes
<1>5. AtMostOne(w.served, ListTypes) /\ AtMostOne(w.served, SyncTypes)
  <2>1. AtMostOne(Append(h.served, entry), SyncTypes)
    BY <1>3, AppendOne
  <2>2. AtMostOne(Append(h.served, entry), ListTypes)
    BY <1>3, <1>4, AppendOne DEF Earlier
  <2>3. AtMostOne(h.served, ListTypes) /\ AtMostOne(h.served, SyncTypes)
    BY DEF Earlier
  <2> QED
    BY <1>2, <2>1, <2>2, <2>3
<1>6. Shape(Disconnect(w)) /\ Disconnect(w).served = w.served /\ Disconnect(w).state # "open"
  BY <1>2, DisconnectCloses
<1> QED
  BY <1>1, <1>5, <1>6 DEF Earlier, w

LEMMA ServeEchoKeeps ==
    ASSUME NEW h, NEW data, Earlier(h)
    PROVE  Earlier(ServeEcho(h, data))
<1> DEFINE text == <<Backslash, "echo_reply", Backslash>> \o Value(data, "echo", << >>)
           entry == [type |-> "echo", games |-> << >>, enctype2 |-> 0]
           w == Write(h, text, entry)
<1>1. entry.type \notin ListTypes /\ entry.type \notin SyncTypes
  BY DEF ListTypes, SyncTypes
<1>2. ServeEcho(h, data) \in {h, w}
  BY DEF ServeEcho
<1> HIDE DEF text, entry
<1>3. Shape(w) /\ w.state = h.state /\ w.served \in {h.served, Append(h.served, entry)}
  BY WriteAppends DEF Earlier
<1> HIDE DEF w
<1>4. PICK E : h.served \in Seq(E)
  BY ServedIsSeq DEF Earlier
<1>5. /\ AtMostOne(Append(h.served, entry), ListTypes)
      /\ AtMostOne(Append(h.served, entry), SyncTypes)
  BY <1>1, <1>4, AppendOne DEF Earlier
<1>6. h.state = "open" => /\ NoneOf(Append(h.served, entry), ListTypes)
                         /\ NoneOf(Append(h.served, entry), SyncTypes)
  BY <1>1, <1>4, AppendOne DEF Earlier
<1>7. Earlier(w)
  BY <1>3, <1>5, <1>6 DEF Earlier
<1> QED
  BY <1>2, <1>7

LEMMA InteractionKeeps ==
    ASSUME NEW h, NEW data, Earlier(h), h.state = "open"
    PROVE  Earlier(Interaction(h, data))
<1> DEFINE validated == Validate(h, data)
           listed == IF HasKey(data, "list") THEN ServeList(validated, data) ELSE validated
           synced == IF HasKey(data, "sync") THEN ServeSync(listed, data) ELSE listed
           echoed == ServeEcho(synced, data)
<1>1. Interaction(h, data) \in {Disconnect(validated), synced, echoed, Disconnect(echoed)}
  BY DEF Interaction
<1>2. /\ Earlier(validated)
      /\ NoneOf(validated.served, ListTypes) /\ NoneOf(validated.served, SyncTypes)
  BY ValidateKeeps DEF Earlier
<1> HIDE DEF validated
<1>3. Earlier(listed) /\ NoneOf(listed.served, SyncTypes)
  BY <1>2, ServeListKeeps
<1> HIDE DEF listed
<1>4. Earlier(synced)
  BY <1>3, ServeSyncKeeps
<1> HIDE DEF synced
<1>5. Earlier(echoed)
  BY <1>4, ServeEchoKeeps
<1> HIDE DEF echoed
<1> QED
  BY <1>1, <1>2, <1>4, <1>5, DisconnectKeeps

\* The slots that do not process a request leave what was served alone.
LEMMA EarlierShape ==
    ASSUME NEW h, Earlier(h), NEW k, Shape(k), k.served = h.served,
           k.state = "open" => h.state = "open"
    PROVE  Earlier(k)
  BY DEF Earlier

LEMMA EarlierNext ==
    ASSUME Earlier(handler), [Next]_vars
    PROVE  Earlier(handler')
<1>1. PICK R, O, E : handler \in [state : SocketState, timer : Timer, rxBuffer : R,
                        hasValidated : Bit, requestEnctype2 : Bit, out : O, served : Seq(E)]
  BY DEF Shape, Earlier
<1>2. ASSUME NEW n, OnListenClientRead(n) PROVE Earlier(handler')
  <2> DEFINE fragment == SubSeq(toServer, 1, n)
             h == Received(handler, fragment)
  <2>1. /\ handler.state = "open"
        /\ handler' \in {h, Interaction(h, ParseGameSpy0Buffer(h.rxBuffer))}
    BY <1>2 DEF OnListenClientRead
  <2>2. /\ h \in [state : SocketState, timer : Timer, rxBuffer : {BufferOf(handler) \o fragment},
                  hasValidated : Bit, requestEnctype2 : Bit, out : O, served : Seq(E)]
        /\ h.served = handler.served /\ h.state = handler.state
    BY <1>1 DEF Received, Timer
  <2> HIDE DEF h
  <2>3. Earlier(h) /\ h.state = "open"
    BY <2>1, <2>2, EarlierShape DEF Shape
  <2> QED
    BY <2>1, <2>3, InteractionKeeps
<1>3. CASE OnListenClientTimeOut
  BY <1>3, DisconnectKeeps DEF OnListenClientTimeOut
<1>4. CASE OnListenClientDisconnect
  <2>1. /\ handler' \in [state : SocketState, timer : Timer, rxBuffer : R, hasValidated : Bit,
                         requestEnctype2 : Bit, out : O, served : Seq(E)]
        /\ handler'.served = handler.served /\ handler'.state = "closed"
    BY <1>1, <1>4 DEF OnListenClientDisconnect, SocketState, Timer
  <2> QED
    BY <2>1, EarlierShape DEF Shape
<1>5. ASSUME NEW n, Flush(n) PROVE Earlier(handler')
  <2> DEFINE rest == SubSeq(handler.out, n + 1, Len(handler.out))
  <2>1. /\ handler' \in [state : SocketState, timer : Timer, rxBuffer : R, hasValidated : Bit,
                         requestEnctype2 : Bit, out : {rest}, served : Seq(E)]
        /\ handler'.served = handler.served /\ handler'.state \in {handler.state, "closed"}
    BY <1>1, <1>5 DEF Flush, SocketState
  <2> QED
    BY <2>1, EarlierShape DEF Shape
<1>6. CASE UNCHANGED handler
  BY <1>6
<1>7. \/ \E n \in Fragments : OnListenClientRead(n)
      \/ OnListenClientTimeOut \/ OnListenClientDisconnect \/ Flush(Len(handler.out))
      \/ UNCHANGED handler
  BY DEF Next, Send, HangUp, Read, TimeOut, Disconnected, Drain, Over, vars, connection
<1> QED
  BY <1>2, <1>3, <1>4, <1>5, <1>6, <1>7

LEMMA EarlierInit == Init => Earlier(handler)
<1> SUFFICES ASSUME Init PROVE Earlier(handler)
  OBVIOUS
<1>1. /\ handler = NewHandler /\ NewHandler.served = << >>
      /\ NewHandler \in [state : SocketState, timer : Timer, rxBuffer : {<< >>}, hasValidated : Bit,
                         requestEnctype2 : Bit, out : {<< >>}, served : Seq({})]
  BY DEF Init, NewHandler, SocketState, Timer, Bit
<1> QED
  BY <1>1 DEF Earlier, Shape, AtMostOne, NoneOf

Invariant == Earlier(handler)

LEMMA EarlierCounts == Invariant => OneListPerConnection
<1> SUFFICES ASSUME Earlier(handler) PROVE OneListPerConnection
  BY DEF Invariant
<1> DEFINE at(type) == {i \in DOMAIN handler.served : handler.served[i].type = type}
<1>1. /\ Count("list") = Cardinality(at("list")) /\ Count("sync") = Cardinality(at("sync"))
      /\ Count("self") = Cardinality(at("self"))
  BY DEF Count
<1>2. Cardinality({}) = 0 /\ \A i : Cardinality({i}) = 1
  BY FS_EmptySet, FS_Singleton
<1>3. Count("list") \in {0, 1}
  <2>1. at("list") = {} \/ \E i : at("list") = {i}
    BY DEF Earlier, AtMostOne, ListTypes
  <2> QED
    BY <1>1, <1>2, <2>1
<1>4. \A i, j : i \in at("sync") \cup at("self") /\ j \in at("sync") \cup at("self") => i = j
  BY DEF Earlier, AtMostOne, SyncTypes
<1>5. at("sync") \cap at("self") = {}
  OBVIOUS
<1> HIDE DEF at
<1>6. CASE at("sync") = {}
  <2>1. at("self") = {} \/ \E i : at("self") = {i}
    BY <1>4
  <2>2. Count("sync") = 0 /\ Count("self") \in {0, 1}
    BY <1>1, <1>2, <1>6, <2>1
  <2> QED
    BY <1>3, <2>2 DEF OneListPerConnection
<1>7. CASE at("sync") # {}
  <2>1. at("self") = {} /\ \E i : at("sync") = {i}
    BY <1>4, <1>5, <1>7
  <2>2. Count("self") = 0 /\ Count("sync") = 1
    BY <1>1, <1>2, <2>1
  <2> QED
    BY <1>3, <2>2 DEF OneListPerConnection
<1> QED
  BY <1>6, <1>7

\* However requests are pipelined or cut, the first list ends the connection.
THEOREM OneListPerConnectionHolds == Spec => []OneListPerConnection
<1>1. Init => Invariant
  BY EarlierInit DEF Invariant
<1>2. Invariant /\ [Next]_vars => Invariant'
  BY EarlierNext DEF Invariant
<1> QED
  BY <1>1, <1>2, EarlierCounts, PTL DEF Spec
-----------------------------------------------------------------------------
(* What the client has written, read wherever it was cut, and the answers in it. *)

Words == STRING \cup GameName \cup HandlerKeys \cup {Backslash, "final", "all", "other"}
         \cup {LowerCase[w] : w \in DOMAIN LowerCase} \cup {ValidKeys[w] : w \in DOMAIN ValidKeys}

LEMMA WordsClosed == Closed(Words) /\ Backslash \in Words
  BY DEF Closed, Words

\* The handler's keys are written in one way only that is not an option.
LEMMA KeysPlain ==
    /\ \A k \in HandlerKeys : Plain(k) /\ OverrideKey(<<k>>) = <<k>>
    /\ OverrideKey(<<Backslash>>) = <<Backslash>>
<1>1. \A k \in HandlerKeys : Plain(k)
  BY ScriptAssumption DEF Plain, HandlerKeys, Backslash
<1>2. Backslash \notin DOMAIN LowerCase /\ Backslash \notin DOMAIN ValidKeys
  BY ScriptAssumption
<1>3. OverrideKey(<<Backslash>>) = <<Backslash>>
  <2> DEFINE s == Backslash
  <2>1. s \notin DOMAIN LowerCase /\ s \notin DOMAIN ValidKeys
    BY <1>2
  <2> HIDE DEF s
  <2>2. ToLower(<<s>>) = <<s>>
    BY <2>1 DEF ToLower
  <2>3. OverrideKey(<<s>>) = <<s>>
    BY <2>1, <2>2 DEF OverrideKey
  <2> QED
    BY <2>3 DEF s
<1> QED
  BY <1>1, <1>3, PlainKey

Asking == {"validate", "list"}
Looked == {"validate", "gamename"}

\* The answers and the games that requests write.
AnswersOf(R) == {r.answer : r \in {q \in R : q.type = "validate"}}
GamesOf(R)   == {r.game : r \in {q \in R : q.type \in Asking}}
ValuesOf(R, key) == IF key = "validate" THEN AnswersOf(R) ELSE GamesOf(R)

KeyWords(key) == WrittenAs(Words, key)

\* The pairs of a request are made of words, and only one of them has the key.
LEMMA PairsMeant ==
    ASSUME NEW r \in Request, Meant(r), NEW R, r \in R, NEW key \in Looked
    PROVE  /\ Pairs(r) \in Seq(Words \X Seq(Words))
           /\ \A i \in 1 .. Len(Pairs(r)) :
                 /\ \A j \in 1 .. Len(Pairs(r)[i][2]) : Pairs(r)[i][2][j] \notin KeyWords(key)
                 /\ Pairs(r)[i][1] \in KeyWords(key) =>
                        \E x \in ValuesOf(R, key) : Pairs(r)[i][2] = <<x>>
<1>0. key \in HandlerKeys
  BY DEF Looked, HandlerKeys
<1>1. Pairs(r) \in Seq(Words \X Seq(Words))
  <2>1. STRING \subseteq Words /\ GameName \cup {"all"} \subseteq Words
        /\ HandlerKeys \cup {"other"} \subseteq Words
    BY DEF Words
  <2>2. CASE r.type = "validate"
    <3>1. r.game \in Words /\ r.answer \in Words /\ r.options \in Seq(STRING \X Seq(STRING))
      BY <2>1, <2>2 DEF Request
    <3>2. STRING \X Seq(STRING) \subseteq Words \X Seq(Words)
      <4>1. \A v \in Seq(STRING) : v \in Seq(Words)
        BY <2>1, SeqMonotonic
      <4> QED
        BY <2>1, <4>1
    <3>3. r.options \in Seq(Words \X Seq(Words))
      BY <3>1, <3>2, SeqMonotonic
    <3> DEFINE head == << <<"gamename", <<r.game>> >>, <<"validate", <<r.answer>> >> >>
    <3>4. head \in Seq(Words \X Seq(Words))
      <4>1. "gamename" \in Words /\ "validate" \in Words
        BY <2>1 DEF HandlerKeys
      <4>2. <<r.game>> \in Seq(Words) /\ <<r.answer>> \in Seq(Words)
        BY <3>1
      <4>3. <<"gamename", <<r.game>> >> \in Words \X Seq(Words)
            /\ <<"validate", <<r.answer>> >> \in Words \X Seq(Words)
        BY <4>1, <4>2
      <4> QED
        BY <4>3
    <3> HIDE DEF head
    <3>5. head \o r.options \in Seq(Words \X Seq(Words))
      BY <3>3, <3>4, ConcatProperties
    <3> QED
      BY <2>2, <3>5 DEF Pairs, head
  <2>3. CASE r.type = "list"
    <3>1. r.game \in Words /\ r.option \in Seq(Words)
      <4>1. r.game \in STRING /\ r.option \in Seq(STRING)
        BY <2>3 DEF Request
      <4> QED
        BY <2>1, <4>1, SeqMonotonic
    <3>2. "list" \in Words /\ "gamename" \in Words
      BY <2>1 DEF HandlerKeys
    <3>3. <<"list", r.option>> \in Words \X Seq(Words)
          /\ <<"gamename", <<r.game>> >> \in Words \X Seq(Words)
      <4>1. <<r.game>> \in Seq(Words)
        BY <3>1
      <4> QED
        BY <3>1, <3>2, <4>1
    <3>4. << <<"list", r.option>>, <<"gamename", <<r.game>> >> >> \in Seq(Words \X Seq(Words))
      BY <3>3
    <3> QED
      BY <2>3, <3>4 DEF Pairs
  <2>4. CASE r.type = "sync"
    <3>1. r.games \in Seq(Words) /\ r.msid \in Words
      <4>1. r.games \in Seq(GameName \cup {"all"}) /\ r.msid \in STRING
        BY <2>4 DEF Request
      <4> QED
        BY <2>1, <4>1, SeqMonotonic
    <3>2. "sync" \in Words /\ "msid" \in Words
      BY <2>1 DEF HandlerKeys
    <3>3. <<"sync", r.games>> \in Words \X Seq(Words) /\ <<"msid", <<r.msid>> >> \in Words \X Seq(Words)
      <4>1. <<r.msid>> \in Seq(Words)
        BY <3>1
      <4> QED
        BY <3>1, <3>2, <4>1
    <3>4. << <<"sync", r.games>>, <<"msid", <<r.msid>> >> >> \in Seq(Words \X Seq(Words))
      BY <3>3
    <3> QED
      BY <2>4, <3>4 DEF Pairs
  <2>5. CASE r.type \in {"echo", "other"}
    <3>1. r.type \in Words /\ r.word \in Words
      BY <2>1, <2>5 DEF Request, HandlerKeys
    <3>2. <<r.type, <<r.word>> >> \in Words \X Seq(Words)
      <4>1. <<r.word>> \in Seq(Words)
        BY <3>1
      <4> QED
        BY <3>1, <4>1
    <3>3. << <<r.type, <<r.word>> >> >> \in Seq(Words \X Seq(Words))
      BY <3>2
    <3> QED
      BY <2>5, <3>3 DEF Pairs
  <2>6. r.type \in {"validate", "list", "sync", "echo", "other"}
    BY DEF Request
  <2> QED
    BY <2>2, <2>3, <2>4, <2>5, <2>6
<1>2. ASSUME NEW i \in 1 .. Len(Pairs(r)), NEW j \in 1 .. Len(Pairs(r)[i][2])
      PROVE  Pairs(r)[i][2][j] \notin KeyWords(key)
  <2>1. i \in DOMAIN Pairs(r) /\ Pairs(r)[i] \in Words \X Seq(Words)
    BY <1>1, ElementOfSeq, LenProperties
  <2>2. j \in DOMAIN Pairs(r)[i][2]
    BY <2>1, LenProperties
  <2>3. Innocent(Pairs(r)[i][2][j])
    BY <2>1, <2>2 DEF Meant
  <2> QED
    BY <1>0, <2>3 DEF Innocent, KeyWords, WrittenAs
<1>3. ASSUME NEW k \in HandlerKeys, k \in KeyWords(key) PROVE k = key
  <2>1. OverrideKey(<<k>>) = <<k>> /\ OverrideKey(<<k>>) = <<key>>
    BY <1>3, KeysPlain DEF KeyWords, WrittenAs
  <2> QED
    BY <2>1
<1>4. ASSUME NEW i \in 1 .. Len(Pairs(r)), Pairs(r)[i][1] \in KeyWords(key)
      PROVE  \E x \in ValuesOf(R, key) : Pairs(r)[i][2] = <<x>>
  <2>1. /\ "gamename" \in HandlerKeys /\ "validate" \in HandlerKeys /\ "list" \in HandlerKeys
        /\ "sync" \in HandlerKeys /\ "msid" \in HandlerKeys /\ "echo" \in HandlerKeys
    BY DEF HandlerKeys
  <2>2. CASE r.type = "validate"
    <3> DEFINE head == << <<"gamename", <<r.game>> >>, <<"validate", <<r.answer>> >> >>
    <3>1. Pairs(r) = head \o r.options
      BY <2>2 DEF Pairs
    <3>2. /\ head[1] = <<"gamename", <<r.game>> >> /\ head[2] = <<"validate", <<r.answer>> >>
          /\ Len(head) = 2 /\ head \in Seq({<<"gamename", <<r.game>> >>, <<"validate", <<r.answer>> >>})
      OBVIOUS
    <3>3. r.options \in Seq(STRING \X Seq(STRING)) /\ Len(r.options) \in Nat
          /\ DOMAIN r.options = 1 .. Len(r.options)
      BY <2>2, LenProperties DEF Request
    <3> DEFINE U == {<<"gamename", <<r.game>> >>, <<"validate", <<r.answer>> >>} \cup (STRING \X Seq(STRING))
    <3>4. head \in Seq(U) /\ r.options \in Seq(U)
      BY <3>2, <3>3, SeqMonotonic
    <3> HIDE DEF head, U
    <3>5. /\ Len(Pairs(r)) = 2 + Len(r.options) /\ Pairs(r)[1] = head[1] /\ Pairs(r)[2] = head[2]
          /\ \A m \in 1 .. Len(r.options) : Pairs(r)[m + 2] = r.options[m]
      <4> DEFINE c == head \o r.options
      <4>1. /\ Len(c) = Len(head) + Len(r.options)
            /\ \A m \in 1 .. Len(head) : c[m] = head[m]
            /\ \A m \in 1 .. Len(r.options) : c[m + Len(head)] = r.options[m]
        BY <3>4, ConcatItems
      <4> HIDE DEF c
      <4>2. c[1] = head[1] /\ c[2] = head[2]
        BY <3>2, <4>1
      <4> QED
        BY <3>1, <3>2, <4>1, <4>2 DEF c
    <3>6. CASE i = 1
      <4>1. key = "gamename" /\ Pairs(r)[i][2] = <<r.game>>
        BY <1>3, <1>4, <2>1, <3>2, <3>5, <3>6
      <4>2. r.game \in GamesOf(R)
        BY <2>2 DEF GamesOf, Asking
      <4> QED
        BY <4>1, <4>2 DEF ValuesOf
    <3>7. CASE i = 2
      <4>1. key = "validate" /\ Pairs(r)[i][2] = <<r.answer>>
        BY <1>3, <1>4, <2>1, <3>2, <3>5, <3>7
      <4>2. r.answer \in AnswersOf(R)
        BY <2>2 DEF AnswersOf
      <4> QED
        BY <4>1, <4>2 DEF ValuesOf
    <3>8. CASE i > 2
      <4>1. i - 2 \in 1 .. Len(r.options) /\ (i - 2) + 2 = i
        BY <3>3, <3>5, <3>8
      <4>2. Pairs(r)[i] = r.options[i - 2] /\ Optional(r.options[i - 2][1])
        BY <2>2, <3>3, <3>5, <4>1 DEF Meant
      <4>3. OverrideKey(<<Pairs(r)[i][1]>>) # <<key>>
        BY <4>2 DEF Optional, Looked, HandlerKeys
      <4> QED
        BY <1>4, <4>3 DEF KeyWords, WrittenAs
    <3> QED
      BY <3>6, <3>7, <3>8
  <2>3. CASE r.type = "list"
    <3>1. Pairs(r) = << <<"list", r.option>>, <<"gamename", <<r.game>> >> >>
      BY <2>3 DEF Pairs
    <3>2. i \in 1 .. 2 /\ Pairs(r)[1][1] = "list" /\ Pairs(r)[2][1] = "gamename"
          /\ Pairs(r)[2][2] = <<r.game>>
      BY <3>1
    <3>3. i = 2 /\ key = "gamename"
      BY <1>3, <1>4, <2>1, <3>2 DEF Looked
    <3>4. r.game \in GamesOf(R)
      BY <2>3 DEF GamesOf, Asking
    <3> QED
      BY <3>2, <3>3, <3>4 DEF ValuesOf
  <2>4. CASE r.type = "sync"
    <3>1. Pairs(r) = << <<"sync", r.games>>, <<"msid", <<r.msid>> >> >>
      BY <2>4 DEF Pairs
    <3>2. i \in 1 .. 2 /\ Pairs(r)[1][1] = "sync" /\ Pairs(r)[2][1] = "msid"
      BY <3>1
    <3> QED
      BY <1>3, <1>4, <2>1, <3>2 DEF Looked
  <2>5. CASE r.type \in {"echo", "other"}
    <3>1. Pairs(r) = << <<r.type, <<r.word>> >> >>
      BY <2>5 DEF Pairs
    <3>2. i = 1 /\ Pairs(r)[i][1] = r.type
      BY <3>1
    <3>3. CASE r.type = "echo"
      BY <1>3, <1>4, <2>1, <3>2, <3>3 DEF Looked
    <3>4. CASE r.type = "other"
      BY <1>0, <1>4, <3>2, <3>4, ScriptAssumption DEF Innocent, KeyWords, WrittenAs
    <3> QED
      BY <2>5, <3>3, <3>4
  <2>6. r.type \in {"validate", "list", "sync", "echo", "other"}
    BY DEF Request
  <2> QED
    BY <2>2, <2>3, <2>4, <2>5, <2>6
<1> QED
  BY <1>1, <1>2, <1>4

LEMMA KeysNoBackslash == \A key \in Looked : Backslash \notin KeyWords(key)
<1> SUFFICES ASSUME NEW key \in Looked PROVE OverrideKey(<<Backslash>>) # <<key>>
  BY DEF KeyWords, WrittenAs
<1>1. key # Backslash
  BY DEF Looked, Backslash
<1> QED
  BY <1>1, KeysPlain

LEMMA RequestWhole ==
    ASSUME NEW r \in Request, Meant(r), NEW R, r \in R, NEW key \in Looked
    PROVE  RequestText(r) \in WholeText(Words, KeyWords(key), ValuesOf(R, key))
<1> DEFINE K == KeyWords(key)
           X == ValuesOf(R, key)
<1>1. Backslash \notin K /\ Backslash \in Words
  BY KeysNoBackslash, WordsClosed
<1>2. /\ Pairs(r) \in Seq(Words \X Seq(Words))
      /\ \A i \in 1 .. Len(Pairs(r)) :
            /\ \A j \in 1 .. Len(Pairs(r)[i][2]) : Pairs(r)[i][2][j] \notin K
            /\ Pairs(r)[i][1] \in K => \E x \in X : Pairs(r)[i][2] = <<x>>
  BY PairsMeant
<1>3. "final" \in Words /\ "final" \notin K
  <2>1. key \in HandlerKeys
    BY DEF Looked, HandlerKeys
  <2> QED
    BY <2>1, ScriptAssumption DEF Innocent, KeyWords, WrittenAs, Words
<1> HIDE DEF K, X
<1>4. Text(Pairs(r)) \in WholeText(Words, K, X)
  BY <1>1, <1>2, TextWhole
<1>5. Pair("final", << >>) \in WholeText(Words, K, X)
  <2>1. << >> \in Seq(Words) /\ Len(<< >>) = 0
    BY EmptySeq
  <2>2. \A i \in 1 .. Len(<< >>) : << >>[i] \notin K
    BY <2>1
  <2> QED
    BY <1>1, <1>3, <2>1, <2>2, PairWhole
<1>6. Pair("final", << >>) = Final
  <2>1. <<Backslash, "final", Backslash>> \in Seq({Backslash, "final"})
    OBVIOUS
  <2> QED
    BY <2>1, ConcatEmptySeq DEF Pair, Final
<1> QED
  BY <1>4, <1>5, <1>6, WholeClosed DEF RequestText, K, X

LEMMA TurnWhole ==
    ASSUME NEW turn \in Seq(Request), NEW R, NEW key \in Looked,
           \A i \in DOMAIN turn : Meant(turn[i]) /\ turn[i] \in R
    PROVE  TurnText(turn) \in WholeText(Words, KeyWords(key), ValuesOf(R, key))
<1> DEFINE T == WholeText(Words, KeyWords(key), ValuesOf(R, key))
           seqs == [i \in DOMAIN turn |-> RequestText(turn[i])]
           n == Len(turn)
<1>1. DOMAIN turn = 1 .. n /\ n \in Nat /\ \A i \in 1 .. n : turn[i] \in Request
  BY ElementOfSeq, LenProperties
<1>2. \A i \in 1 .. n : seqs[i] \in T
  BY <1>1, RequestWhole
<1>3. T \subseteq Seq(Words)
  BY DEF WholeText
<1>4. seqs \in [1 .. n -> Seq(Words)]
  BY <1>1, <1>2, <1>3
<1> HIDE DEF seqs, n, T
<1>5. seqs \in Seq(Seq(Words)) /\ Len(seqs) = n
  BY <1>1, <1>4, FunctionIsSeq
<1>6. FlattenSeq(seqs) \in T
  <2>1. << >> \in T /\ \A u, v \in T : u \o v \in T
    BY WholeClosed DEF T
  <2> QED
    BY <1>2, <1>5, <2>1, FlattenInside
<1> QED
  BY <1>6 DEF TurnText, seqs, T

\* What was said stays said when more is asked.
LEMMA CompletesMore ==
    ASSUME NEW b, NEW K, NEW X, NEW Y, X \subseteq Y, CompletesRest(b, K, X)
    PROVE  CompletesRest(b, K, Y)
  BY DEF CompletesRest

Said(b, R) == \A key \in Looked : CompletesRest(b, KeyWords(key), ValuesOf(R, key))

Following ==
    /\ script \in Scripts /\ sent \in 0 .. Len(script)
    /\ handler.rxBuffer \in Seq(Words) /\ toServer \in Seq(Words)
    /\ Said(handler.rxBuffer \o toServer, RequestsOf(script, sent))

LEMMA RequestsGrow ==
    ASSUME NEW s, NEW m \in Nat, NEW n \in Nat, m <= n
    PROVE  RequestsOf(s, m) \subseteq RequestsOf(s, n)
<1>1. 1 .. m \subseteq 1 .. n
  OBVIOUS
<1> QED
  BY <1>1 DEF RequestsOf

LEMMA ValuesGrow ==
    ASSUME NEW Q, NEW R, Q \subseteq R, NEW key
    PROVE  ValuesOf(Q, key) \subseteq ValuesOf(R, key)
  BY DEF ValuesOf, AnswersOf, GamesOf

LEMMA ScriptTurn ==
    ASSUME NEW s \in Scripts, NEW n \in DOMAIN s
    PROVE  s[n] \in Seq(Request) /\ s[n] # << >> /\ \A i \in DOMAIN s[n] : Meant(s[n][i])
<1>1. s \in Seq(Seq(Request) \ {<< >>})
  BY ScriptAssumption
<1>2. s[n] \in Seq(Request) \ {<< >>}
  BY <1>1, ElementOfSeq, LenProperties
<1> QED
  BY <1>2, ScriptAssumption

\* A turn is written whole behind what is under way.
LEMMA FollowingSend ==
    ASSUME Following, Send, Shape(handler)
    PROVE  Following'
<1> DEFINE turn == script[sent + 1]
           more == TurnText(turn)
           R == RequestsOf(script, sent + 1)
<1>1. /\ script' = script /\ handler' = handler /\ sent' = sent + 1
      /\ toServer' = toServer \o more /\ sent < Len(script)
  BY DEF Send
<1>2. Len(script) \in Nat /\ DOMAIN script = 1 .. Len(script) /\ script \in Scripts
  <2>1. script \in Seq(Seq(Request) \ {<< >>})
    BY ScriptAssumption DEF Following
  <2> QED
    BY <2>1, LenProperties DEF Following
<1>3. sent \in Nat /\ sent + 1 \in Nat /\ sent + 1 \in 0 .. Len(script) /\ sent + 1 \in DOMAIN script
  BY <1>1, <1>2 DEF Following
<1>4. turn \in Seq(Request) /\ \A i \in DOMAIN turn : Meant(turn[i])
  BY <1>2, <1>3, ScriptTurn
<1>5. \A i \in DOMAIN turn : turn[i] \in R
  <2>1. sent + 1 \in 1 .. sent + 1
    BY <1>3
  <2> QED
    BY <2>1 DEF RequestsOf
<1>6. RequestsOf(script, sent) \subseteq R
  BY <1>3, RequestsGrow
<1> HIDE DEF R, turn
<1>7. ASSUME NEW key \in Looked
      PROVE  more \in WholeText(Words, KeyWords(key), ValuesOf(R, key))
  BY <1>4, <1>5, TurnWhole
<1>8. more \in Seq(Words)
  <2>1. "validate" \in Looked
    BY DEF Looked
  <2> QED
    BY <1>7, <2>1 DEF WholeText
<1> HIDE DEF more
<1> DEFINE rx == handler.rxBuffer
           stream == rx \o toServer
<1>9. rx \in Seq(Words) /\ toServer \in Seq(Words) /\ stream \in Seq(Words)
      /\ toServer \o more \in Seq(Words) /\ rx \o (toServer \o more) = stream \o more
  <2>1. rx \in Seq(Words) /\ toServer \in Seq(Words)
    BY DEF Following
  <2> HIDE DEF rx
  <2>2. stream \in Seq(Words) /\ toServer \o more \in Seq(Words)
    BY <1>8, <2>1, ConcatProperties
  <2>3. (rx \o toServer) \o more = rx \o (toServer \o more)
    BY <1>8, <2>1, ConcatAssociative
  <2> QED
    BY <2>1, <2>2, <2>3
<1>10. ASSUME NEW key \in Looked
       PROVE  CompletesRest(stream \o more, KeyWords(key), ValuesOf(R, key))
  <2>1. CompletesRest(stream, KeyWords(key), ValuesOf(RequestsOf(script, sent), key))
    BY DEF Following, Said
  <2> HIDE DEF stream
  <2>2. CompletesRest(stream, KeyWords(key), ValuesOf(R, key))
    BY <1>6, <2>1, CompletesMore, ValuesGrow
  <2>3. Completes(more, KeyWords(key), ValuesOf(R, key))
    BY <1>7 DEF WholeText
  <2> QED
    BY <1>8, <1>9, <2>2, <2>3, CompletesConcat
<1>11. Said(rx \o (toServer \o more), R)
  BY <1>9, <1>10 DEF Said
<1> QED
  BY <1>1, <1>2, <1>3, <1>9, <1>11 DEF Following, R

\* What a slot leaves of the buffer and of the answer that was accepted.
Same(h, k) == Shape(k) /\ k.rxBuffer = h.rxBuffer /\ k.hasValidated = h.hasValidated

LEMMA DisconnectSame ==
    ASSUME NEW h, Shape(h)
    PROVE  Same(h, Disconnect(h)) /\ Disconnect(h).served = h.served
<1>1. PICK R, O, E : h \in [state : SocketState, timer : Timer, rxBuffer : R, hasValidated : Bit,
                            requestEnctype2 : Bit, out : O, served : Seq(E)]
  BY DEF Shape
<1>2. Disconnect(h).rxBuffer = h.rxBuffer /\ Disconnect(h).hasValidated = h.hasValidated
  BY <1>1 DEF Disconnect
<1> QED
  BY <1>2, DisconnectCloses DEF Same

LEMMA WriteSame ==
    ASSUME NEW h, Shape(h), NEW text, NEW entry
    PROVE  Same(h, Write(h, text, entry))
<1>1. PICK R, O, E : h \in [state : SocketState, timer : Timer, rxBuffer : R, hasValidated : Bit,
                            requestEnctype2 : Bit, out : O, served : Seq(E)]
  BY DEF Shape
<1>2. Write(h, text, entry).rxBuffer = h.rxBuffer /\ Write(h, text, entry).hasValidated = h.hasValidated
  BY <1>1 DEF Write
<1> QED
  BY <1>2, WriteAppends DEF Same

LEMMA ServeSame ==
    ASSUME NEW h, NEW data, Shape(h)
    PROVE  Same(h, ServeList(h, data)) /\ Same(h, ServeSync(h, data)) /\ Same(h, ServeEcho(h, data))
<1>1. ASSUME NEW text, NEW entry PROVE Same(h, Disconnect(Write(h, text, entry)))
  <2>1. Same(h, Write(h, text, entry))
    BY WriteSame
  <2> QED
    BY <2>1, DisconnectSame DEF Same
<1>2. \E text, entry : ServeList(h, data) = Disconnect(Write(h, text, entry))
  BY DEF ServeList
<1>3. \E text, entry : ServeSync(h, data) = Disconnect(Write(h, text, entry))
  BY DEF ServeSync
<1>4. ServeEcho(h, data) = h \/ \E text, entry : ServeEcho(h, data) = Write(h, text, entry)
  BY DEF ServeEcho
<1> QED
  BY <1>1, <1>2, <1>3, <1>4, WriteSame DEF Same

GuardTypes == {"list", "sync", "self"}

\* An answer is accepted once, and only then is a list written.
LEMMA ValidateTrusts ==
    ASSUME NEW h, NEW data, Shape(h)
    PROVE  LET k == Validate(h, data)
           IN  /\ Shape(k) /\ k.rxBuffer = h.rxBuffer /\ k.served = h.served
               /\ h.hasValidated = 1 => k.hasValidated = 1
               /\ k.hasValidated = 1 => h.hasValidated = 1 \/ (HasKey(data, "validate") /\ Passes(data))
<1> DEFINE asked == [h EXCEPT !.requestEnctype2 = WantsEnctype2(data)]
           passed == [asked EXCEPT !.hasValidated = 1]
<1>1. PICK R, O, E : h \in [state : SocketState, timer : Timer, rxBuffer : R, hasValidated : Bit,
                            requestEnctype2 : Bit, out : O, served : Seq(E)]
  BY DEF Shape
<1>2. WantsEnctype2(data) \in Bit /\ 1 \in Bit
  BY DEF WantsEnctype2, Bit
<1> HIDE DEF passed
<1>3. asked \in [state : SocketState, timer : Timer, rxBuffer : R, hasValidated : Bit,
                 requestEnctype2 : Bit, out : O, served : Seq(E)]
      /\ asked.rxBuffer = h.rxBuffer /\ asked.served = h.served /\ asked.hasValidated = h.hasValidated
  BY <1>1, <1>2
<1> HIDE DEF asked
<1>4. passed \in [state : SocketState, timer : Timer, rxBuffer : R, hasValidated : Bit,
                  requestEnctype2 : Bit, out : O, served : Seq(E)]
      /\ passed.rxBuffer = h.rxBuffer /\ passed.served = h.served /\ passed.hasValidated = 1
  BY <1>2, <1>3 DEF passed
<1>5. Shape(asked) /\ Shape(passed)
  BY <1>3, <1>4 DEF Shape
<1>6. CASE ~HasKey(data, "validate")
  <2>1. Validate(h, data) = h
    BY <1>6 DEF Validate
  <2> QED
    BY <2>1
<1>7. CASE HasKey(data, "validate") /\ Passes(data)
  <2>1. Validate(h, data) = passed
    BY <1>7 DEF Validate, asked, passed
  <2> QED
    BY <1>4, <1>5, <1>7, <2>1
<1>8. CASE HasKey(data, "validate") /\ ~Passes(data)
  <2>1. Validate(h, data) = Disconnect(asked)
    BY <1>8 DEF Validate, asked
  <2>2. Same(asked, Disconnect(asked)) /\ Disconnect(asked).served = asked.served
    BY <1>5, DisconnectSame
  <2> QED
    BY <1>3, <2>1, <2>2 DEF Same
<1> QED
  BY <1>6, <1>7, <1>8

LEMMA InteractionTrusts ==
    ASSUME NEW h, NEW data, Shape(h)
    PROVE  LET k == Interaction(h, data)
           IN  /\ Shape(k) /\ k.rxBuffer = h.rxBuffer
               /\ h.hasValidated = 1 => k.hasValidated = 1
               /\ k.hasValidated = 1 => h.hasValidated = 1 \/ (HasKey(data, "validate") /\ Passes(data))
               /\ NoneOf(h.served, GuardTypes) => NoneOf(k.served, GuardTypes) \/ k.hasValidated = 1
<1> DEFINE k == Interaction(h, data)
           validated == Validate(h, data)
           listed == IF HasKey(data, "list") THEN ServeList(validated, data) ELSE validated
           synced == IF HasKey(data, "sync") THEN ServeSync(listed, data) ELSE listed
           echoed == ServeEcho(synced, data)
           refused == validated.hasValidated = 0 /\ (HasKey(data, "list") \/ HasKey(data, "sync"))
<1>1. k \in IF refused THEN {Disconnect(validated)} ELSE {synced, echoed, Disconnect(echoed)}
  BY DEF Interaction
<1>2. /\ Shape(validated) /\ validated.rxBuffer = h.rxBuffer /\ validated.served = h.served
      /\ h.hasValidated = 1 => validated.hasValidated = 1
      /\ validated.hasValidated = 1 =>
             h.hasValidated = 1 \/ (HasKey(data, "validate") /\ Passes(data))
  BY ValidateTrusts
<1> HIDE DEF validated
<1>3. Same(validated, listed)
  BY <1>2, ServeSame DEF Same
<1>4. ~HasKey(data, "list") => listed = validated
  OBVIOUS
<1> HIDE DEF listed
<1>5. Same(validated, synced)
  BY <1>3, ServeSame DEF Same
<1>6. ~HasKey(data, "sync") => synced = listed
  OBVIOUS
<1> HIDE DEF synced
<1>7. Same(validated, echoed) /\ Same(validated, Disconnect(echoed))
      /\ Disconnect(echoed).served = echoed.served
  <2>1. Same(synced, echoed)
    BY <1>5, ServeSame DEF Same
  <2> HIDE DEF echoed
  <2>2. Same(echoed, Disconnect(echoed)) /\ Disconnect(echoed).served = echoed.served
    BY <2>1, DisconnectSame DEF Same
  <2> QED
    BY <1>5, <2>1, <2>2 DEF Same
<1>8. Same(validated, Disconnect(validated)) /\ Disconnect(validated).served = validated.served
  BY <1>2, DisconnectSame
<1>9. Same(validated, k)
  BY <1>1, <1>5, <1>7, <1>8
<1>10. ASSUME NoneOf(h.served, GuardTypes), k.hasValidated # 1 PROVE NoneOf(k.served, GuardTypes)
  <2>1. validated.hasValidated = 0
    BY <1>2, <1>9, <1>10 DEF Same, Shape, Bit
  <2>2. CASE refused
    BY <1>1, <1>2, <1>8, <1>10, <2>2
  <2>3. CASE ~refused
    <3>1. synced = validated
      BY <1>4, <1>6, <2>1, <2>3
    <3>2. NoneOf(echoed.served, GuardTypes)
      <4> DEFINE text == <<Backslash, "echo_reply", Backslash>> \o Value(data, "echo", << >>)
                 entry == [type |-> "echo", games |-> << >>, enctype2 |-> 0]
      <4>1. entry.type \notin GuardTypes
        BY DEF GuardTypes
      <4>2. echoed \in {synced, Write(synced, text, entry)}
        BY DEF ServeEcho
      <4> HIDE DEF text, entry
      <4>3. PICK E : validated.served \in Seq(E)
        BY <1>2, ServedIsSeq
      <4>4. NoneOf(Append(validated.served, entry), GuardTypes)
        BY <1>2, <1>10, <4>1, <4>3, AppendOne
      <4>5. Write(synced, text, entry).served \in {validated.served, Append(validated.served, entry)}
        BY <1>2, <3>1, WriteAppends
      <4> QED
        BY <1>2, <1>10, <3>1, <4>2, <4>4, <4>5
    <3> HIDE DEF echoed, refused
    <3> QED
      BY <1>1, <1>2, <1>7, <1>10, <2>3, <3>1, <3>2
  <2> QED
    BY <2>2, <2>3
<1> QED
  BY <1>2, <1>9, <1>10 DEF Same

\* The client has answered with what is right for a game it named.
Earned(R) == \E r, q \in R :
    r.type = "validate" /\ q.type \in Asking /\ Accepted(r.answer, q.name)

\* What the parser finds of a key is a value of a request, or nothing.
Found(data, R) ==
    /\ \E S : data \in Seq(S)
    /\ \A key \in Looked : ParsedFrom(data, key, ValuesOf(R, key))

\* The members of the requests of a script are requests.
LEMMA RequestMembers ==
    ASSUME NEW s \in Scripts, NEW n \in 0 .. Len(s), NEW r \in RequestsOf(s, n)
    PROVE  r \in Request /\ Meant(r)
<1>1. PICK m \in 1 .. n : \E i \in DOMAIN s[m] : r = s[m][i]
  BY DEF RequestsOf
<1>2. s \in Seq(Seq(Request) \ {<< >>})
  BY ScriptAssumption
<1>3. m \in DOMAIN s
  BY <1>2, LenProperties
<1>4. PICK i \in DOMAIN s[m] : r = s[m][i]
  BY <1>1
<1>5. s[m] \in Seq(Request) /\ Meant(r)
  BY <1>3, <1>4, ScriptTurn
<1> QED
  BY <1>4, <1>5, ElementOfSeq, LenProperties

LEMMA ValueFound ==
    ASSUME NEW data, NEW R, Found(data, R), HasKey(data, "validate")
    PROVE  \E r \in R : r.type = "validate" /\ Word(Value(data, "validate", << >>)) \in {"", r.answer}
<1>1. PICK S : data \in Seq(S)
  BY DEF Found
<1>2. ParsedFrom(data, "validate", AnswersOf(R))
  BY DEF Found, Looked, ValuesOf
<1> DEFINE v == Values(data, "validate")
<1>3. /\ \E T : v \in Seq(T)
      /\ \A j \in 1 .. Len(v) : \E i \in 1 .. Len(data) :
             data[i].key = <<"validate">> /\ v[j] = data[i].value
  <2>1. FromEntries(data, "validate") /\ \E T : v \in Seq(T)
    BY <1>1, ValueOfKey
  <2> QED
    BY <2>1 DEF FromEntries
<1>4. v # << >>
  BY DEF HasKey
<1>5. Value(data, "validate", << >>) = Head(v)
  BY DEF Value
<1> HIDE DEF v
<1>6. Head(v) = v[1] /\ 1 \in 1 .. Len(v)
  <2>1. Len(v) \in Nat /\ Len(v) # 0
    BY <1>3, <1>4, EmptySeq, LenProperties
  <2> QED
    BY <1>3, <1>4, <2>1, HeadTailProperties
<1>7. PICK i \in 1 .. Len(data) : data[i].key = <<"validate">> /\ v[1] = data[i].value
  BY <1>3, <1>6
<1>8. /\ AnswersOf(R) # {}
      /\ \E w : (w = << >> \/ \E x \in AnswersOf(R) : w = <<x>>)
                /\ data[i].value = ValueRead("validate", w)
  BY <1>2, <1>7 DEF ParsedFrom
<1>9. v[1] = << >> \/ \E x \in AnswersOf(R) : v[1] = <<x>>
  BY <1>7, <1>8 DEF ValueRead
<1>10. CASE v[1] = << >>
  <2>1. PICK r \in R : r.type = "validate"
    BY <1>8 DEF AnswersOf
  <2>2. Word(v[1]) = ""
    <3>1. Len(<< >>) = 0
      BY EmptySeq
    <3> QED
      BY <1>10, <3>1 DEF Word
  <2> QED
    BY <1>5, <1>6, <2>1, <2>2
<1>11. CASE \E x \in AnswersOf(R) : v[1] = <<x>>
  <2>1. PICK x \in AnswersOf(R) : v[1] = <<x>>
    BY <1>11
  <2>2. PICK r \in R : r.type = "validate" /\ x = r.answer
    BY <2>1 DEF AnswersOf
  <2>3. Word(v[1]) = x
    BY <2>1 DEF Word
  <2> QED
    BY <1>5, <1>6, <2>2, <2>3
<1> QED
  BY <1>9, <1>10, <1>11

\* A game that is supported is one that was named.
LEMMA GameFound ==
    ASSUME NEW data, NEW R, Found(data, R), \A r \in R : r \in Request /\ Meant(r),
           GameToValidate(data) \in SupportedGames
    PROVE  \E q \in R : q.type \in Asking /\ GameToValidate(data) = q.name
<1>1. PICK S : data \in Seq(S)
  BY DEF Found
<1>2. ParsedFrom(data, "gamename", GamesOf(R))
  BY DEF Found, Looked, ValuesOf
<1> DEFINE v == Values(data, "gamename")
<1>3. /\ \E T : v \in Seq(T)
      /\ \A j \in 1 .. Len(v) : \E i \in 1 .. Len(data) :
             data[i].key = <<"gamename">> /\ v[j] = data[i].value
  <2>1. FromEntries(data, "gamename") /\ \E T : v \in Seq(T)
    BY <1>1, ValueOfKey
  <2> QED
    BY <2>1 DEF FromEntries
<1>4. Len(v) \in Nat /\ (Len(v) = 0 => v = << >>)
  BY <1>3, EmptySeq, LenProperties
<1>5. GameToValidate(data) = IF Len(v) >= 2 THEN Word(Last(v)) ELSE Word(Value(data, "gamename", << >>))
  BY DEF GameToValidate
<1>6. HasKey(data, "gamename") <=> v # << >>
  BY DEF HasKey
<1>7. Value(data, "gamename", << >>) = IF v # << >> THEN Head(v) ELSE << >>
  BY <1>6 DEF Value, v
<1> HIDE DEF v
<1>8. Word(<< >>) = ""
  <2>1. Len(<< >>) = 0
    BY EmptySeq
  <2> QED
    BY <2>1 DEF Word
<1>9. GameToValidate(data) # ""
  BY ScriptAssumption
<1>10. \E j \in 1 .. Len(v) : GameToValidate(data) = Word(v[j])
  <2>1. CASE Len(v) >= 2
    <3>1. Last(v) = v[Len(v)] /\ Len(v) \in 1 .. Len(v)
      BY <1>4, <2>1 DEF Last
    <3> QED
      BY <1>5, <2>1, <3>1
  <2>2. CASE ~(Len(v) >= 2)
    <3>1. v # << >>
      BY <1>5, <1>7, <1>8, <1>9, <2>2
    <3>2. Len(v) # 0
      BY <1>4, <3>1
    <3>3. Head(v) = v[1] /\ 1 \in 1 .. Len(v)
      BY <1>3, <1>4, <3>1, <3>2, HeadTailProperties
    <3> QED
      BY <1>5, <1>7, <2>2, <3>1, <3>3
  <2> QED
    BY <2>1, <2>2
<1>11. PICK j \in 1 .. Len(v) : GameToValidate(data) = Word(v[j])
  BY <1>10
<1>12. PICK i \in 1 .. Len(data) : data[i].key = <<"gamename">> /\ v[j] = data[i].value
  BY <1>3
<1>13. \E w : (w = << >> \/ \E x \in GamesOf(R) : w = <<x>>) /\ v[j] = OverrideGamename(w)
  BY <1>2, <1>12 DEF ParsedFrom, ValueRead
<1>14. OverrideGamename(<< >>) = << >>
  <2>1. ToLower(<< >>) = << >>
    <3>1. DOMAIN << >> = {}
      BY EmptySeq
    <3> QED
      BY <3>1 DEF ToLower
  <2>2. Len(<< >>) = 0
    BY EmptySeq
  <2> QED
    BY <2>1, <2>2 DEF OverrideGamename
<1>15. PICK x \in GamesOf(R) : v[j] = OverrideGamename(<<x>>)
  BY <1>8, <1>9, <1>11, <1>13, <1>14
<1>16. PICK q \in R : q.type \in Asking /\ x = q.game
  BY <1>15 DEF GamesOf
<1>17. OverrideGamename(<<q.game>>) = <<q.name>>
  <2>1. Meant(q)
    OBVIOUS
  <2> QED
    BY <1>16, <2>1 DEF Meant, Asking
<1>18. Word(v[j]) = q.name
  BY <1>15, <1>16, <1>17 DEF Word
<1> QED
  BY <1>11, <1>16, <1>18

\* So an answer is accepted only when it was earned.
LEMMA PassesEarned ==
    ASSUME NEW data, NEW R, Found(data, R), \A r \in R : r \in Request /\ Meant(r),
           HasKey(data, "validate"), Passes(data)
    PROVE  Earned(R)
<1> DEFINE word == Word(Value(data, "validate", << >>))
           name == GameToValidate(data)
<1>1. name \in SupportedGames /\ ValidateGamename(FALSE, name, AnswerOf(word), Challenge)
  BY DEF Passes
<1>2. PICK r \in R : r.type = "validate" /\ word \in {"", r.answer}
  BY ValueFound
<1>3. PICK q \in R : q.type \in Asking /\ name = q.name
  BY <1>1, GameFound
<1> HIDE DEF word, name
<1>4. CASE word = r.answer
  BY <1>1, <1>2, <1>3, <1>4 DEF Earned, Accepted
<1>5. CASE word = ""
  <2>1. AnswerOf(word) = <<Noise, 1>>
    BY <1>5, ScriptAssumption DEF AnswerOf, Invalid, GenerateValidateString, Challenge
  <2>2. ReturnValidate(name, Challenge) # <<Noise, 1>>
    BY CipherAssumption DEF ReturnValidate, GenerateValidateString, Invalid, NoSecure, Noise
  <2>3. name \in OverrideClient
    BY <1>1, <2>1, <2>2 DEF ValidateGamename
  <2>4. Accepted(r.answer, name)
    BY <1>1, <2>3 DEF Accepted, ValidateGamename
  <2> QED
    BY <1>2, <1>3, <2>4 DEF Earned
<1> QED
  BY <1>2, <1>4, <1>5

PairAt(r, i) == Pairs(r)[i]

LEMMA ValidatePairs ==
    ASSUME NEW r \in Request, r.type = "validate"
    PROVE  /\ PairAt(r, 1) = <<"gamename", <<r.game>> >> /\ PairAt(r, 2) = <<"validate", <<r.answer>> >>
           /\ 1 \in DOMAIN Pairs(r) /\ 2 \in DOMAIN Pairs(r)
<1> DEFINE head == << <<"gamename", <<r.game>> >>, <<"validate", <<r.answer>> >> >>
           U == {head[1], head[2]} \cup (STRING \X Seq(STRING))
           c == head \o r.options
<1>1. /\ head[1] = <<"gamename", <<r.game>> >> /\ head[2] = <<"validate", <<r.answer>> >>
      /\ Len(head) = 2 /\ head \in Seq({head[1], head[2]})
  OBVIOUS
<1>2. r.options \in Seq(STRING \X Seq(STRING))
  BY DEF Request
<1>3. head \in Seq(U) /\ r.options \in Seq(U)
  BY <1>1, <1>2, SeqMonotonic
<1>4. Pairs(r) = c
  BY DEF Pairs
<1> HIDE DEF head, U
<1>5. /\ Len(r.options) \in Nat /\ Len(c) = Len(head) + Len(r.options) /\ c \in Seq(U)
      /\ \A m \in 1 .. Len(head) : c[m] = head[m]
  BY <1>3, ConcatItems
<1> HIDE DEF c
<1>6. c[1] = head[1] /\ c[2] = head[2] /\ DOMAIN c = 1 .. Len(c)
  BY <1>1, <1>5, LenProperties
<1> QED
  BY <1>1, <1>4, <1>5, <1>6 DEF PairAt

LEMMA MeantWord ==
    ASSUME NEW r, Meant(r), NEW i \in DOMAIN Pairs(r), NEW key, NEW w, PairAt(r, i) = <<key, <<w>> >>
    PROVE  Innocent(w)
<1>1. Pairs(r)[i][2] = <<w>>
  BY DEF PairAt
<1>2. \A j \in DOMAIN Pairs(r)[i][2] : Innocent(Pairs(r)[i][2][j])
  BY DEF Meant
<1>3. \A j \in DOMAIN <<w>> : Innocent(<<w>>[j])
  BY <1>1, <1>2
<1>4. 1 \in DOMAIN <<w>> /\ <<w>>[1] = w
  OBVIOUS
<1> QED
  BY <1>3, <1>4

\* An accepted answer was earned, and without one there was no list.
Trusting(h, R) ==
    /\ h.hasValidated = 1 => Earned(R)
    /\ NoneOf(h.served, GuardTypes) \/ h.hasValidated = 1

LEMMA EarnedGrows == ASSUME NEW Q, NEW R, Q \subseteq R, Earned(Q) PROVE Earned(R)
  BY DEF Earned

\* What is parsed of a stream that is cut anywhere.
LEMMA StreamFound ==
    ASSUME NEW R, \A r \in R : r \in Request /\ Meant(r), NEW b \in Seq(Words), NEW rest \in Seq(Words),
           Said(b \o rest, R)
    PROVE  Found(ParseGameSpy0Buffer(b), R) /\ Said(rest, R)
<1>1. ASSUME NEW key \in Looked PROVE Backslash \notin ValuesOf(R, key)
  <2>1. ASSUME NEW r \in R, r.type = "validate" PROVE r.answer # Backslash
    <3>1. Innocent(r.answer)
      <4>1. Pairs(r) = << <<"gamename", <<r.game>> >>, <<"validate", <<r.answer>> >> >> \o r.options
        BY <2>1 DEF Pairs
      <4>2. PairAt(r, 2) = <<"validate", <<r.answer>> >> /\ 2 \in DOMAIN Pairs(r)
        BY <2>1, <4>1, ValidatePairs
      <4> QED
        BY <4>2, MeantWord
    <3> QED
      BY <3>1 DEF Innocent
  <2>2. ASSUME NEW r \in R, r.type \in Asking PROVE r.game # Backslash
    <3>1. Innocent(r.game)
      <4>1. CASE r.type = "validate"
        <5>1. PairAt(r, 1) = <<"gamename", <<r.game>> >> /\ 1 \in DOMAIN Pairs(r)
          BY <4>1, ValidatePairs
        <5> QED
          BY <5>1, MeantWord
      <4>2. CASE r.type = "list"
        <5>1. Pairs(r) = << <<"list", r.option>>, <<"gamename", <<r.game>> >> >>
          BY <4>2 DEF Pairs
        <5>2. 2 \in DOMAIN Pairs(r) /\ PairAt(r, 2) = <<"gamename", <<r.game>> >>
          BY <5>1 DEF PairAt
        <5> QED
          BY <5>2, MeantWord
      <4> QED
        BY <2>2, <4>1, <4>2 DEF Asking
    <3> QED
      BY <3>1 DEF Innocent
  <2>3. CASE key = "validate"
    BY <2>1, <2>3 DEF ValuesOf, AnswersOf
  <2>4. CASE key = "gamename"
    BY <2>2, <2>4 DEF ValuesOf, GamesOf
  <2> QED
    BY <2>3, <2>4 DEF Looked
<1>2. ASSUME NEW key \in Looked
      PROVE  /\ Leads(b, KeyWords(key), ValuesOf(R, key))
             /\ CompletesRest(rest, KeyWords(key), ValuesOf(R, key))
  <2>1. CompletesRest(b \o rest, KeyWords(key), ValuesOf(R, key))
    BY DEF Said
  <2> QED
    BY <2>1, CompletesCut
<1>3. ASSUME NEW key \in Looked
      PROVE  /\ \E S : ParseGameSpy0Buffer(b) \in Seq(S)
             /\ ParsedFrom(ParseGameSpy0Buffer(b), key, ValuesOf(R, key))
  BY <1>1, <1>2, WordsClosed, ParseLeads DEF KeyWords
<1>4. "validate" \in Looked
  BY DEF Looked
<1> QED
  BY <1>2, <1>3, <1>4 DEF Found, Said

LEMMA FollowingInit == Init => Following /\ Trusting(handler, RequestsOf(script, sent))
<1> SUFFICES ASSUME Init PROVE Following /\ Trusting(handler, RequestsOf(script, sent))
  OBVIOUS
<1>1. /\ handler.rxBuffer = << >> /\ toServer = << >> /\ script \in Scripts /\ sent = 0
      /\ handler.hasValidated = 0 /\ handler.served = << >>
  BY DEF Init, NewHandler
<1>2. 0 \in 0 .. Len(script)
  <2>1. script \in Seq(Seq(Request) \ {<< >>})
    BY <1>1, ScriptAssumption
  <2> QED
    BY <2>1, LenProperties
<1>3. << >> \in Seq(Words) /\ << >> \o << >> = << >> /\ Len(<< >>) = 0
  BY EmptySeq
<1>4. Said(<< >>, RequestsOf(script, sent))
  BY <1>3 DEF Said, CompletesRest
<1>5. NoneOf(<< >>, GuardTypes)
  BY DEF NoneOf
<1> QED
  BY <1>1, <1>2, <1>3, <1>4, <1>5 DEF Following, Trusting

\* Of the requests that were written none goes away.
RequestsSent == RequestsOf(script, sent)

LEMMA FollowingRead ==
    ASSUME Following, Shape(handler), Trusting(handler, RequestsSent), NEW n, OnListenClientRead(n),
           UNCHANGED <<script, sent>>
    PROVE  Following' /\ Trusting(handler, RequestsSent)'
<1> DEFINE R == RequestsSent
           fragment == SubSeq(toServer, 1, n)
           rest == SubSeq(toServer, n + 1, Len(toServer))
           rx == handler.rxBuffer
           h == Received(handler, fragment)
           data == ParseGameSpy0Buffer(h.rxBuffer)
<1>1. /\ script \in Scripts /\ sent \in 0 .. Len(script) /\ rx \in Seq(Words) /\ toServer \in Seq(Words)
      /\ Said(rx \o toServer, R)
  BY DEF Following, RequestsSent
<1>2. /\ handler.state = "open" /\ n \in 1 .. Len(toServer) /\ toServer' = rest
      /\ handler' \in {h, Interaction(h, data)} /\ R' = R /\ script' = script /\ sent' = sent
  BY DEF OnListenClientRead, RequestsSent
<1>3. fragment \in Seq(Words) /\ rest \in Seq(Words) /\ fragment \o rest = toServer
  BY <1>1, <1>2, Cut
<1>4. \A r \in R : r \in Request /\ Meant(r)
  BY <1>1, RequestMembers DEF RequestsSent
<1>5. Shape(h) /\ h.hasValidated = handler.hasValidated /\ h.served = handler.served
      /\ h.rxBuffer = BufferOf(handler) \o fragment
  <2>1. PICK S, O, E : handler \in [state : SocketState, timer : Timer, rxBuffer : S,
                          hasValidated : Bit, requestEnctype2 : Bit, out : O, served : Seq(E)]
    BY DEF Shape
  <2>2. /\ h \in [state : SocketState, timer : Timer, rxBuffer : {BufferOf(handler) \o fragment},
                  hasValidated : Bit, requestEnctype2 : Bit, out : O, served : Seq(E)]
        /\ h.hasValidated = handler.hasValidated /\ h.served = handler.served
        /\ h.rxBuffer = BufferOf(handler) \o fragment
    BY <2>1 DEF Received, Timer
  <2> HIDE DEF h
  <2> QED
    BY <2>2 DEF Shape
<1>0. Trusting(handler, R)
  OBVIOUS
<1> HIDE DEF fragment, rest, rx, R
<1>6. BufferOf(handler) \in {rx, << >>}
  BY DEF BufferOf, rx
<1>7. Said(toServer, R)
  BY <1>1, <1>4, StreamFound
<1>8. /\ BufferOf(handler) \o fragment \in Seq(Words)
      /\ Said((BufferOf(handler) \o fragment) \o rest, R)
  <2>1. CASE BufferOf(handler) = rx
    <3>1. rx \o fragment \in Seq(Words) /\ (rx \o fragment) \o rest = rx \o toServer
      <4>1. rx \in Seq(Words) /\ fragment \in Seq(Words) /\ rest \in Seq(Words)
        BY <1>1, <1>3
      <4>2. rx \o fragment \in Seq(Words)
        BY <4>1, ConcatProperties
      <4>3. (rx \o fragment) \o rest = rx \o (fragment \o rest)
        BY <4>1, ConcatAssociative
      <4> QED
        BY <1>3, <4>2, <4>3
    <3> QED
      BY <1>1, <2>1, <3>1
  <2>2. CASE BufferOf(handler) = << >>
    <3>1. << >> \o fragment = fragment
      BY <1>3, ConcatEmptySeq
    <3> QED
      BY <1>3, <1>7, <2>2, <3>1
  <2> QED
    BY <1>6, <2>1, <2>2
<1>9. h.rxBuffer \in Seq(Words) /\ Said(h.rxBuffer \o rest, R)
  BY <1>5, <1>8
<1> HIDE DEF h
<1>10. Found(data, R)
  BY <1>3, <1>4, <1>9, StreamFound
<1>11. HasKey(data, "validate") /\ Passes(data) => Earned(R)
  BY <1>4, <1>10, PassesEarned
<1> HIDE DEF data
<1>12. handler'.rxBuffer = h.rxBuffer /\ Trusting(handler', R)
  <2>1. CASE handler' = h
    BY <1>0, <1>5, <2>1 DEF Trusting
  <2>2. CASE handler' = Interaction(h, data)
    BY <1>0, <1>5, <1>11, <2>2, InteractionTrusts DEF Trusting
  <2> QED
    BY <1>2, <2>1, <2>2
<1>13. Trusting(handler, RequestsSent)'
  BY <1>2, <1>12 DEF Trusting, R
<1> QED
  BY <1>1, <1>2, <1>3, <1>9, <1>12, <1>13 DEF Following, R, RequestsSent

\* The other steps leave the buffer and the accepted answer alone.
LEMMA FollowingKept ==
    ASSUME Following, Trusting(handler, RequestsSent), UNCHANGED <<script, sent, toServer>>,
           handler'.rxBuffer = handler.rxBuffer, handler'.hasValidated = handler.hasValidated,
           handler'.served = handler.served
    PROVE  Following' /\ Trusting(handler, RequestsSent)'
<1>1. RequestsSent' = RequestsSent
  BY DEF RequestsSent
<1>2. Trusting(handler', RequestsSent)
  BY DEF Trusting
<1>3. Following'
  BY DEF Following
<1> QED
  BY <1>1, <1>2, <1>3 DEF Trusting

Told == Following /\ Earlier(handler) /\ Trusting(handler, RequestsSent)

LEMMA ToldNext ==
    ASSUME Told, [Next]_vars
    PROVE  Told'
<1>1. Earlier(handler')
  BY EarlierNext DEF Told
<1>2. Shape(handler) /\ Following /\ Trusting(handler, RequestsSent)
  BY DEF Told, Earlier
<1>3. CASE Send
  <2>1. Following'
    BY <1>2, <1>3, FollowingSend
  <2>2. RequestsSent \subseteq RequestsSent'
    <3>1. script' = script /\ sent' = sent + 1
      BY <1>3 DEF Send
    <3>2. Len(script) \in Nat
      <4>1. script \in Seq(Seq(Request) \ {<< >>})
        BY <1>2, ScriptAssumption DEF Following
      <4> QED
        BY <4>1, LenProperties
    <3>3. sent \in Nat /\ sent + 1 \in Nat
      BY <1>2, <3>2 DEF Following
    <3>4. RequestsOf(script, sent) \subseteq RequestsOf(script, sent + 1)
      BY <3>3, RequestsGrow
    <3> QED
      BY <3>1, <3>4 DEF RequestsSent
  <2>3. handler' = handler
    BY <1>3 DEF Send
  <2>4. Trusting(handler, RequestsSent)'
    BY <1>2, <2>2, <2>3, EarnedGrows DEF Trusting
  <2> QED
    BY <1>1, <2>1, <2>4 DEF Told
<1>4. CASE Read
  <2>1. PICK n : OnListenClientRead(n) /\ UNCHANGED <<script, sent>>
    BY <1>4 DEF Read
  <2> QED
    BY <1>1, <1>2, <2>1, FollowingRead DEF Told
<1>5. CASE TimeOut
  <2>1. handler' = Disconnect(handler) /\ UNCHANGED <<script, sent, toServer>>
    BY <1>5 DEF TimeOut, OnListenClientTimeOut
  <2>2. Same(handler, handler') /\ handler'.served = handler.served
    BY <1>2, <2>1, DisconnectSame
  <2> QED
    BY <1>1, <1>2, <2>1, <2>2, FollowingKept DEF Told, Same
<1>6. CASE Disconnected \/ Drain
  <2>1. UNCHANGED <<script, sent, toServer>>
    BY <1>6 DEF Disconnected, Drain, OnListenClientDisconnect, Flush
  <2>2. PICK S, O, E : handler \in [state : SocketState, timer : Timer, rxBuffer : S,
                          hasValidated : Bit, requestEnctype2 : Bit, out : O, served : Seq(E)]
    BY <1>2 DEF Shape
  <2>3. /\ handler'.rxBuffer = handler.rxBuffer /\ handler'.hasValidated = handler.hasValidated
        /\ handler'.served = handler.served
    BY <1>6, <2>2 DEF Disconnected, Drain, OnListenClientDisconnect, Flush
  <2> QED
    BY <1>1, <1>2, <2>1, <2>3, FollowingKept DEF Told
<1>7. CASE HangUp \/ Over \/ UNCHANGED vars
  <2>1. UNCHANGED <<script, sent, toServer, handler>>
    BY <1>7 DEF HangUp, Over, vars, connection
  <2> QED
    BY <1>1, <1>2, <2>1, FollowingKept DEF Told
<1> QED
  BY <1>3, <1>4, <1>5, <1>6, <1>7 DEF Next

\* A list is written only to a client that has earned it.
ListsFollowAnswers == Guarded => Earned(RequestsSent)

LEMMA ToldEarns == Told => ListsFollowAnswers
<1> SUFFICES ASSUME Told, Guarded PROVE Earned(RequestsSent)
  BY DEF ListsFollowAnswers
<1>1. ~NoneOf(handler.served, GuardTypes)
  BY DEF Guarded, NoneOf, GuardTypes
<1> QED
  BY <1>1 DEF Told, Trusting

LEMMA ToldIsEarned == Told => ListsAreEarned
<1> SUFFICES ASSUME Told, Guarded
             PROVE  \E i \in DOMAIN Turns(sent) : RightAnswer(Turns(sent)[i])
  BY DEF ListsAreEarned
<1>1. PICK r, q \in RequestsSent :
         r.type = "validate" /\ q.type \in Asking /\ Accepted(r.answer, q.name)
  BY ToldEarns DEF ListsFollowAnswers, Earned
<1>2. /\ script \in Scripts /\ script \in Seq(Seq(Request)) /\ Len(script) \in Nat
      /\ sent \in 0 .. Len(script) /\ DOMAIN script = 1 .. Len(script)
  <2>1. script \in Scripts /\ sent \in 0 .. Len(script)
    BY DEF Told, Following
  <2>2. script \in Seq(Seq(Request) \ {<< >>})
    BY <2>1, ScriptAssumption
  <2>3. script \in Seq(Seq(Request))
    BY <2>2, SeqMonotonic
  <2> QED
    BY <2>1, <2>3, LenProperties
<1>3. sent \in DOMAIN script
  <2>1. \E m \in 1 .. sent : TRUE
    BY <1>1 DEF RequestsSent, RequestsOf
  <2> QED
    BY <1>2, <2>1
<1>4. PICK right \in RequestsSent : RightAnswer(right)
  BY <1>1, <1>2, <1>3, AnswerAssumption DEF RequestsSent, Asking
<1>5. PICK m \in 1 .. sent : \E j \in DOMAIN script[m] : right = script[m][j]
  BY <1>4 DEF RequestsSent, RequestsOf
<1>6. PICK j \in DOMAIN script[m] : right = script[m][j]
  BY <1>5
<1> DEFINE turns == SubSeq(script, 1, sent)
<1>7. turns \in Seq(Seq(Request)) /\ Len(turns) = sent /\ turns[m] = script[m]
  BY <1>2, <1>3, SubSeqProperties
<1>8. m \in 1 .. Len(turns) /\ j \in 1 .. Len(turns[m])
  <2>1. script[m] \in Seq(Request)
    BY <1>2, ElementOfSeq
  <2> QED
    BY <1>7, <2>1, LenProperties
<1> HIDE DEF turns
<1>9. PICK i \in 1 .. Len(FlattenSeq(turns)) : FlattenSeq(turns)[i] = turns[m][j]
  BY <1>7, <1>8, FlattenMembers
<1>10. FlattenSeq(turns) \in Seq(Request)
  BY <1>7, FlattenTyped
<1>11. i \in DOMAIN FlattenSeq(turns)
  BY <1>10, LenProperties
<1> QED
  BY <1>4, <1>6, <1>7, <1>9, <1>11 DEF Turns, turns

\* However the stream is cut, a list or a sync list is written only to a client that
\* has sent the right answer to this connection's challenge for some game it names.
THEOREM ListsFollowAnswersHolds == Spec => []ListsFollowAnswers
<1>1. Init => Told
  BY EarlierInit, FollowingInit DEF Told, RequestsSent
<1>2. Told /\ [Next]_vars => Told'
  BY ToldNext
<1> QED
  BY <1>1, <1>2, ToldEarns, PTL DEF Spec

\* When no client has an answer for a game that is meant for another one, it was
\* sent as the answer of the game it is right for.
THEOREM ListsAreEarnedHolds == Spec => []ListsAreEarned
<1>1. Init => Told
  BY EarlierInit, FollowingInit DEF Told, RequestsSent
<1>2. Told /\ [Next]_vars => Told'
  BY ToldNext
<1> QED
  BY <1>1, <1>2, ToldIsEarned, PTL DEF Spec

-----------------------------------------------------------------------------
(* Where the parts of a flattened sequence are.                            *)

Grouped(a, b, c) == (a \o b) \o c = a \o (b \o c)

LEMMA ConcatGrouped ==
    ASSUME NEW W, NEW a \in Seq(W), NEW b \in Seq(W), NEW c \in Seq(W) PROVE Grouped(a, b, c)
  BY ConcatAssociative DEF Grouped

LEMMA FlattenChainsAgree ==
    ASSUME NEW b, NEW c, NEW n \in Nat, NEW r, NEW q, FlattenChain(r, b), FlattenChain(q, c),
           Len(b) \in Nat, Len(c) \in Nat, n <= Len(b), n <= Len(c), \A i \in 1 .. n : b[i] = c[i]
    PROVE  r[n] = q[n]
<1> DEFINE T == {k \in Nat : k <= n => r[k] = q[k]}
<1>1. 0 \in T
  BY DEF FlattenChain
<1>2. ASSUME NEW k \in Nat, k \in T PROVE k + 1 \in T
  <2> SUFFICES ASSUME k + 1 <= n PROVE r[k + 1] = q[k + 1]
    OBVIOUS
  <2>1. r[k] = q[k]
    BY <1>2
  <2>2. k + 1 \in 1 .. n /\ k + 1 \in 1 .. Len(b) /\ k + 1 \in 1 .. Len(c) /\ (k + 1) - 1 = k
    OBVIOUS
  <2>3. b[k + 1] = c[k + 1]
    BY <2>2
  <2>4. r[k + 1] = r[(k + 1) - 1] \o b[k + 1]
    BY <2>2, Zenon DEF FlattenChain
  <2>5. q[k + 1] = q[(k + 1) - 1] \o c[k + 1]
    BY <2>2, Zenon DEF FlattenChain
  <2>6. r[k + 1] = r[k] \o b[k + 1] /\ q[k + 1] = q[k] \o c[k + 1]
    BY <2>2, <2>4, <2>5, Zenon
  <2> QED
    BY <2>1, <2>3, <2>6, Zenon
<1> HIDE DEF T
<1>3. Nat \subseteq T
  BY <1>1, <1>2, NatSetInduction
<1> QED
  BY <1>3 DEF T

\* One more part comes last.
LEMMA FlattenOneMore ==
    ASSUME NEW S, NEW b \in Seq(Seq(S)), NEW c \in Seq(Seq(S)), Len(c) = Len(b) + 1,
           \A i \in 1 .. Len(b) : c[i] = b[i]
    PROVE  FlattenSeq(c) = FlattenSeq(b) \o c[Len(b) + 1]
<1> DEFINE n == Len(b)
<1>1. n \in Nat /\ Len(c) = n + 1 /\ Len(c) \in Nat /\ n + 1 \in 1 .. Len(c) /\ (n + 1) - 1 = n
  BY LenProperties
<1>2. PICK r : FlattenChain(r, b) /\ r[Len(b)] = FlattenSeq(b)
  BY FlattenPasses
<1>3. PICK q : FlattenChain(q, c) /\ q[Len(c)] = FlattenSeq(c)
  BY FlattenPasses
<1>4. q[n + 1] = q[(n + 1) - 1] \o c[n + 1]
  BY <1>1, <1>3, Zenon DEF FlattenChain
<1>5. r[n] = q[n]
  <2>1. \A i \in 1 .. n : b[i] = c[i]
    OBVIOUS
  <2>2. Len(b) \in Nat /\ Len(c) \in Nat /\ n \in Nat /\ n <= Len(b) /\ n <= Len(c)
    BY <1>1
  <2>3. FlattenChain(r, b) /\ FlattenChain(q, c)
    BY <1>2, <1>3
  <2> HIDE DEF n
  <2> QED
    BY <2>1, <2>2, <2>3, FlattenChainsAgree
<1> HIDE DEF n
<1> QED
  BY <1>1, <1>2, <1>3, <1>4, <1>5 DEF n

\* off[k] elements are those of the first k parts.
Offsets(off, seqs) ==
    /\ off[0] = 0
    /\ \A k \in 1 .. Len(seqs) : off[k - 1] \in Nat /\ off[k] = off[k - 1] + Len(seqs[k])

\* The elements of flat are those of the parts before k, one after the other.
PlacedUpTo(off, seqs, flat, k) ==
    /\ \A p \in 1 .. Len(flat) : \E m \in 1 .. k : \E j \in 1 .. Len(seqs[m]) : p = off[m - 1] + j
    /\ \A m \in 1 .. k : \A j \in 1 .. Len(seqs[m]) :
           off[m - 1] + j \in 1 .. Len(flat) /\ flat[off[m - 1] + j] = seqs[m][j]

\* Where the elements of two sequences are in the sequence of both.
Joined(a, b) ==
    /\ Len(a) \in Nat /\ Len(b) \in Nat /\ Len(a \o b) = Len(a) + Len(b)
    /\ \A i \in 1 .. Len(a) : (a \o b)[i] = a[i]
    /\ \A i \in 1 .. Len(b) : (a \o b)[i + Len(a)] = b[i]

LEMMA ConcatJoined ==
    ASSUME NEW W, NEW a \in Seq(W), NEW b \in Seq(W) PROVE Joined(a, b)
<1>1. /\ Len(a) \in Nat /\ Len(b) \in Nat /\ Len(a \o b) = Len(a) + Len(b)
      /\ \A i \in 1 .. Len(a) : (a \o b)[i] = a[i]
      /\ \A i \in 1 .. Len(b) : (a \o b)[i + Len(a)] = b[i]
  BY ConcatItems
<1> QED
  BY <1>1, Zenon DEF Joined

LEMMA PlacedMore ==
    ASSUME NEW S, NEW seqs \in Seq(Seq(S)), NEW off, Offsets(off, seqs), NEW flat \in Seq(S),
           NEW k \in Nat, k + 1 <= Len(seqs), Len(flat) = off[k], PlacedUpTo(off, seqs, flat, k)
    PROVE  /\ PlacedUpTo(off, seqs, flat \o seqs[k + 1], k + 1)
           /\ Len(flat \o seqs[k + 1]) = off[k + 1]
<1> DEFINE part == seqs[k + 1]
           c == flat \o part
<1>1. Len(seqs) \in Nat /\ k + 1 \in 1 .. Len(seqs) /\ (k + 1) - 1 = k
  BY LenProperties
<1>2. part \in Seq(S)
  BY <1>1, ElementOfSeq
<1>3. off[(k + 1) - 1] \in Nat /\ off[k + 1] = off[(k + 1) - 1] + Len(seqs[k + 1])
  BY <1>1 DEF Offsets
<1> HIDE DEF part
<1>4. /\ Len(flat) \in Nat /\ Len(part) \in Nat /\ Len(c) = Len(flat) + Len(part)
      /\ \A i \in 1 .. Len(flat) : c[i] = flat[i]
      /\ \A i \in 1 .. Len(part) : c[i + Len(flat)] = part[i]
  <2>1. flat \in Seq(S) /\ part \in Seq(S)
    BY <1>2
  <2>2. Joined(flat, part)
    BY <2>1, ConcatJoined, Zenon
  <2> QED
    BY <2>2, Zenon DEF Joined
<1> HIDE DEF c
<1>5. off[k] \in Nat /\ off[k + 1] = off[k] + Len(part) /\ Len(flat) = off[k]
  BY <1>1, <1>3 DEF part
<1>6. Len(c) = off[k + 1]
  BY <1>4, <1>5
<1>7. ASSUME NEW p \in 1 .. Len(c)
      PROVE  \E m \in 1 .. k + 1 : \E j \in 1 .. Len(seqs[m]) : p = off[m - 1] + j
  <2>1. CASE p \in 1 .. Len(flat)
    <3>1. PICK m \in 1 .. k : \E j \in 1 .. Len(seqs[m]) : p = off[m - 1] + j
      BY <2>1 DEF PlacedUpTo
    <3>2. m \in 1 .. k + 1
      OBVIOUS
    <3> QED
      BY <3>1, <3>2
  <2>2. CASE p \notin 1 .. Len(flat)
    <3>1. p - off[k] \in 1 .. Len(part) /\ p = off[k] + (p - off[k])
      BY <1>4, <1>5, <2>2
    <3>2. k + 1 \in 1 .. k + 1
      OBVIOUS
    <3>3. p - off[k] \in 1 .. Len(seqs[k + 1]) /\ p = off[(k + 1) - 1] + (p - off[k])
      BY <1>1, <3>1 DEF part
    <3> QED
      BY <3>2, <3>3
  <2> QED
    BY <2>1, <2>2
<1>8. ASSUME NEW m \in 1 .. k + 1, NEW j \in 1 .. Len(seqs[m])
      PROVE  off[m - 1] + j \in 1 .. Len(c) /\ c[off[m - 1] + j] = seqs[m][j]
  <2>1. CASE m \in 1 .. k
    <3>1. off[m - 1] + j \in 1 .. Len(flat) /\ flat[off[m - 1] + j] = seqs[m][j]
      BY <2>1 DEF PlacedUpTo
    <3> DEFINE p == off[m - 1] + j
    <3> HIDE DEF p
    <3>2. p \in 1 .. Len(flat) /\ flat[p] = seqs[m][j]
      BY <3>1 DEF p
    <3>3. p \in 1 .. Len(c) /\ c[p] = flat[p]
      BY <1>4, <3>2
    <3> QED
      BY <3>2, <3>3 DEF p
  <2>2. CASE m = k + 1
    <3>1. off[m - 1] + j = j + Len(flat) /\ j \in 1 .. Len(part) /\ seqs[m][j] = part[j]
      BY <1>1, <1>4, <1>5, <2>2 DEF part
    <3>2. j + Len(flat) \in 1 .. Len(c)
      <4> DEFINE a == Len(flat)
                 b == Len(part)
      <4>1. a \in Nat /\ b \in Nat /\ Len(c) = a + b /\ j \in 1 .. b
        BY <1>4, <3>1
      <4> HIDE DEF a, b
      <4>2. j + a \in 1 .. a + b
        BY <4>1
      <4> QED
        BY <4>1, <4>2 DEF a
    <3> QED
      BY <1>4, <3>1, <3>2
  <2> QED
    BY <2>1, <2>2
<1> QED
  BY <1>6, <1>7, <1>8 DEF PlacedUpTo, c, part

LEMMA FlattenPlaces ==
    ASSUME NEW S, NEW seqs \in Seq(Seq(S))
    PROVE  \E off : Offsets(off, seqs) /\ PlacedUpTo(off, seqs, FlattenSeq(seqs), Len(seqs))
<1>1. PICK r : /\ FlattenChain(r, seqs) /\ r[Len(seqs)] = FlattenSeq(seqs)
               /\ \A k \in 0 .. Len(seqs) : r[k] \in Seq(S)
  BY FlattenPasses
<1> DEFINE n == Len(seqs)
           off == [k \in 0 .. n |-> Len(r[k])]
           T == {k \in Nat : k <= n => PlacedUpTo(off, seqs, r[k], k)}
<1>2. n \in Nat /\ \A k \in 1 .. n : seqs[k] \in Seq(S)
  BY LenProperties, ElementOfSeq
<1>3. ASSUME NEW k \in 1 .. n
      PROVE  /\ k - 1 \in 0 .. n /\ k \in 0 .. n /\ r[k - 1] \in Seq(S)
             /\ r[k] = r[k - 1] \o seqs[k] /\ Len(r[k - 1]) \in Nat
             /\ Len(r[k]) = Len(r[k - 1]) + Len(seqs[k])
  <2>1. k - 1 \in 0 .. n /\ k \in 0 .. n
    BY <1>2
  <2>2. r[k - 1] \in Seq(S) /\ r[k] = r[k - 1] \o seqs[k] /\ seqs[k] \in Seq(S)
    BY <1>1, <1>2, <2>1 DEF FlattenChain
  <2> HIDE DEF n
  <2> QED
    BY <2>1, <2>2, ConcatProperties, LenProperties
<1>4. Offsets(off, seqs)
  <2>1. r[0] = << >> /\ Len(<< >>) = 0
    BY <1>1 DEF FlattenChain
  <2>2. 0 \in 0 .. n
    BY <1>2
  <2>3. off[0] = 0
    BY <2>1, <2>2
  <2>4. ASSUME NEW k \in 1 .. n PROVE off[k - 1] \in Nat /\ off[k] = off[k - 1] + Len(seqs[k])
    BY <1>3
  <2> HIDE DEF off
  <2> QED
    BY <2>3, <2>4 DEF Offsets
<1>5. 0 \in T
  <2>1. r[0] = << >> /\ Len(<< >>) = 0
    BY <1>1 DEF FlattenChain
  <2> HIDE DEF off
  <2> QED
    BY <2>1 DEF PlacedUpTo
<1>6. ASSUME NEW k \in Nat, k \in T PROVE k + 1 \in T
  <2> SUFFICES ASSUME k + 1 <= n PROVE PlacedUpTo(off, seqs, r[k + 1], k + 1)
    OBVIOUS
  <2>1. k + 1 \in 1 .. n /\ (k + 1) - 1 = k /\ k \in 0 .. n /\ k <= n
    BY <1>2
  <2>2. r[k] \in Seq(S) /\ r[k + 1] = r[k] \o seqs[k + 1]
    BY <1>3, <2>1
  <2>3. PlacedUpTo(off, seqs, r[k], k) /\ Len(r[k]) = off[k]
    BY <1>6, <2>1
  <2> HIDE DEF off
  <2>4. k + 1 <= Len(seqs)
    BY <2>1
  <2> DEFINE flat == r[k]
  <2> HIDE DEF flat
  <2>5. flat \in Seq(S) /\ PlacedUpTo(off, seqs, flat, k) /\ Len(flat) = off[k]
    BY <2>2, <2>3 DEF flat
  <2>6. PlacedUpTo(off, seqs, flat \o seqs[k + 1], k + 1)
    BY <1>4, <2>4, <2>5, PlacedMore, Zenon
  <2> QED
    BY <2>2, <2>6 DEF flat
<1> HIDE DEF T
<1>7. Nat \subseteq T
  BY <1>5, <1>6, NatSetInduction
<1> HIDE DEF off
<1>8. PlacedUpTo(off, seqs, r[n], n)
  BY <1>2, <1>7 DEF T
<1>9. PlacedUpTo(off, seqs, FlattenSeq(seqs), Len(seqs))
  BY <1>1, <1>8, Zenon
<1> QED
  BY <1>4, <1>9, Zenon

\* The parts do not overlap.
LEMMA OffsetsGrow ==
    ASSUME NEW S, NEW seqs \in Seq(Seq(S)), NEW off, Offsets(off, seqs),
           NEW m \in 1 .. Len(seqs), NEW k \in 1 .. Len(seqs), m < k
    PROVE  off[m] <= off[k - 1] /\ off[m] \in Nat /\ off[k - 1] \in Nat
<1> DEFINE n == Len(seqs)
           T == {i \in Nat : m <= i /\ i <= n => off[i] \in Nat /\ off[m] <= off[i] /\ off[m] \in Nat}
<1>1. n \in Nat /\ \A i \in 1 .. n : Len(seqs[i]) \in Nat
  BY LenProperties, ElementOfSeq
<1>2. \A i \in 1 .. n : off[i - 1] \in Nat /\ off[i] = off[i - 1] + Len(seqs[i]) /\ off[i] \in Nat
  BY <1>1 DEF Offsets
<1> HIDE DEF n
<1>3. 0 \in T
  BY DEF n
<1>4. ASSUME NEW i \in Nat, i \in T PROVE i + 1 \in T
  <2> SUFFICES ASSUME m <= i + 1, i + 1 <= n
               PROVE  off[i + 1] \in Nat /\ off[m] <= off[i + 1] /\ off[m] \in Nat
    OBVIOUS
  <2>1. m \in 1 .. n /\ i + 1 \in 1 .. n /\ (i + 1) - 1 = i
    BY <1>1 DEF n
  <2>2. off[m] \in Nat /\ off[i + 1] \in Nat
    BY <1>2, <2>1
  <2>3. CASE m = i + 1
    BY <2>2, <2>3
  <2>4. CASE m <= i
    <3>1. off[i] \in Nat /\ off[m] <= off[i]
      BY <1>1, <1>4, <2>1, <2>4
    <3>2. off[i + 1] = off[i] + Len(seqs[i + 1]) /\ Len(seqs[i + 1]) \in Nat
      BY <1>1, <1>2, <2>1
    <3> QED
      BY <2>2, <3>1, <3>2
  <2> QED
    BY <2>1, <2>3, <2>4 DEF n
<1> HIDE DEF T
<1>5. Nat \subseteq T
  BY <1>3, <1>4, NatSetInduction
<1>6. k - 1 \in Nat /\ m <= k - 1 /\ k - 1 <= n
  BY <1>1 DEF n
<1> QED
  BY <1>5, <1>6 DEF T
-----------------------------------------------------------------------------
(* A key with two values, and what a whole text is read as.                *)

LEMMA PairIs ==
    ASSUME NEW S, NEW a \in Seq(S), Len(a) = 2, NEW x, NEW y, a[1] = x, a[2] = y
    PROVE  a = <<x, y>>
<1>1. DOMAIN a = 1 .. 2 /\ a = [i \in 1 .. 2 |-> a[i]]
  BY LenProperties
<1> QED
  BY <1>1

LEMMA PickTwo ==
    ASSUME NEW S, NEW seq \in Seq(S), NEW ids, NEW p \in 1 .. Len(seq), NEW q \in 1 .. Len(seq), p < q,
           \A i \in 1 .. Len(seq) : i \in ids <=> i = p \/ i = q
    PROVE  Pick(seq, ids) = <<seq[p], seq[q]>>
<1>1. PICK r : PickChain(r, seq, ids) /\ r[Len(seq)] = Pick(seq, ids)
  BY PickPasses
<1> DEFINE n == Len(seq)
           found(k) == IF k < p THEN << >> ELSE IF k < q THEN <<seq[p]>> ELSE <<seq[p], seq[q]>>
           T == {k \in Nat : k <= n => r[k] = found(k)}
<1>2. n \in Nat /\ p \in Nat /\ q \in Nat /\ 0 < p /\ q <= n
  BY LenProperties
<1>3. 0 \in T
  BY <1>1, <1>2 DEF PickChain
<1>4. ASSUME NEW k \in Nat, k \in T PROVE k + 1 \in T
  <2> SUFFICES ASSUME k + 1 <= n PROVE r[k + 1] = found(k + 1)
    OBVIOUS
  <2>1. k + 1 \in 1 .. n /\ (k + 1) - 1 = k /\ k <= n
    BY <1>2
  <2>2. r[k + 1] = Taken(r[(k + 1) - 1], seq, ids, k + 1)
    BY <1>1, <2>1, Zenon DEF PickChain
  <2>3. r[k] = found(k)
    BY <1>4, <2>1
  <2>4. r[k + 1] = IF k + 1 \in ids THEN Append(found(k), seq[k + 1]) ELSE found(k)
    BY <2>1, <2>2, <2>3 DEF Taken
  <2>5. k + 1 \in ids <=> k + 1 = p \/ k + 1 = q
    BY <2>1
  <2>6. CASE k + 1 = p
    <3>1. found(k) = << >> /\ found(k + 1) = <<seq[p]>>
      BY <1>2, <2>6
    <3>2. Append(<< >>, seq[p]) = <<seq[p]>>
      OBVIOUS
    <3> HIDE DEF found
    <3>3. r[k + 1] = Append(<< >>, seq[p])
      BY <2>4, <2>5, <2>6, <3>1
    <3> QED
      BY <3>1, <3>2, <3>3, Zenon
  <2>7. CASE k + 1 = q
    <3>1. found(k) = <<seq[p]>> /\ found(k + 1) = <<seq[p], seq[q]>>
      BY <1>2, <2>7
    <3>2. Append(<<seq[p]>>, seq[q]) = <<seq[p], seq[q]>>
      <4> DEFINE x == seq[p]
                 y == seq[q]
      <4> HIDE DEF x, y
      <4>1. Append(<<x>>, y) = <<x, y>>
        <5>1. <<x>> \in Seq({x, y}) /\ y \in {x, y} /\ Len(<<x>>) = 1 /\ <<x>>[1] = x
          OBVIOUS
        <5>2. /\ Append(<<x>>, y) \in Seq({x, y}) /\ Len(Append(<<x>>, y)) = 2
              /\ Append(<<x>>, y)[1] = x /\ Append(<<x>>, y)[2] = y
          BY <5>1, AppendProperties
        <5> DEFINE a == Append(<<x>>, y)
        <5>3. a \in Seq({x, y}) /\ Len(a) = 2 /\ a[1] = x /\ a[2] = y
          BY <5>2
        <5> HIDE DEF a
        <5>4. a = <<x, y>>
          BY <5>3, PairIs
        <5> QED
          BY <5>4 DEF a
      <4> QED
        BY <4>1 DEF x, y
    <3> HIDE DEF found
    <3>3. r[k + 1] = Append(<<seq[p]>>, seq[q])
      BY <2>4, <2>5, <2>7, <3>1
    <3> QED
      BY <3>1, <3>2, <3>3, Zenon
  <2>8. CASE k + 1 # p /\ k + 1 # q
    <3>1. found(k) = found(k + 1)
      BY <1>2, <2>8
    <3> QED
      BY <2>4, <2>5, <2>8, <3>1
  <2> QED
    BY <2>6, <2>7, <2>8
<1> HIDE DEF T
<1>5. Nat \subseteq T
  BY <1>3, <1>4, NatSetInduction
<1>6. r[n] = found(n)
  BY <1>2, <1>5 DEF T
<1> QED
  BY <1>1, <1>2, <1>6

LEMMA ValuesTwo ==
    ASSUME NEW S, NEW data \in Seq(S), NEW key, NEW p \in 1 .. Len(data), NEW q \in 1 .. Len(data),
           p < q, \A i \in 1 .. Len(data) : data[i].key = <<key>> <=> i = p \/ i = q
    PROVE  Values(data, key) = <<data[q].value, data[p].value>>
<1> DEFINE ids == {i \in DOMAIN data : data[i].key = <<key>>}
<1>1. DOMAIN data = 1 .. Len(data)
  BY LenProperties
<1>2. \A i \in 1 .. Len(data) : i \in ids <=> i = p \/ i = q
  BY <1>1
<1> HIDE DEF ids
<1>3. Pick(data, ids) = <<data[p], data[q]>>
  BY <1>2, PickTwo
<1>4. Values(data, key) = [i \in DOMAIN Reverse(Pick(data, ids)) |-> Reverse(Pick(data, ids))[i].value]
  BY DEF Values, ids
<1>5. Reverse(<<data[p], data[q]>>) = <<data[q], data[p]>>
  BY DEF Reverse
<1>6. [i \in DOMAIN <<data[q], data[p]>> |-> <<data[q], data[p]>>[i].value]
        = <<data[q].value, data[p].value>>
  OBVIOUS
<1> QED
  BY <1>3, <1>4, <1>5, <1>6

LEMMA AppendConcat ==
    ASSUME NEW S, NEW s \in Seq(S), NEW t \in Seq(S), NEW x \in S
    PROVE  Append(s \o t, x) = s \o Append(t, x)
<1>1. s \o t \in Seq(S) /\ <<x>> \in Seq(S)
  BY ConcatProperties
<1>2. Append(s \o t, x) = (s \o t) \o <<x>> /\ Append(t, x) = t \o <<x>>
  BY <1>1, AppendIsConcat
<1>3. (s \o t) \o <<x>> = s \o (t \o <<x>>)
  BY <1>1, ConcatAssociative
<1> QED
  BY <1>2, <1>3

\* The entry of a pair before gamenames are overridden.
RawEntry(k, v) == [key |-> OverrideKey(<<k>>), value |-> v]

Raw(pairs) == [i \in DOMAIN pairs |-> RawEntry(pairs[i][1], pairs[i][2])]

LEMMA OverrideKeyFilled == ASSUME NEW k PROVE OverrideKey(<<k>>) # << >>
<1> DEFINE x == IF k \in DOMAIN LowerCase THEN LowerCase[k] ELSE k
<1>1. ToLower(<<k>>) = <<x>>
  BY DEF ToLower
<1> HIDE DEF x
<1>2. Tail(<<x>>) = << >>
  <2>1. <<x>> \in Seq({x}) /\ <<x>> # << >> /\ Len(<<x>>) = 1
    OBVIOUS
  <2>2. Tail(<<x>>) \in Seq({x}) /\ Len(Tail(<<x>>)) = 0
    BY <2>1, HeadTailProperties
  <2> QED
    BY <2>2, EmptySeq
<1>3. <<ValidKeys[x]>> \o << >> = <<ValidKeys[x]>>
  BY ConcatEmptySeq
<1>4. OverrideKey(<<k>>) \in {<<x>>, <<ValidKeys[x]>> \o Tail(<<x>>)}
  <2>1. <<x>>[1] = x
    OBVIOUS
  <2> QED
    BY <1>1, <2>1 DEF OverrideKey
<1> QED
  BY <1>2, <1>3, <1>4

LEMMA ScanAnyPair ==
    ASSUME NEW W, Closed(W), Backslash \in W, NEW b \in Seq(W), Scan(b).key = << >>,
           NEW k \in W \ {Backslash}, NEW v \in Seq(W \ {Backslash})
    PROVE  Scan(b \o Pair(k, v))
             = [key |-> << >>, entries |-> Append(Scan(b).entries, RawEntry(k, v))]
<1> DEFINE c == b \o <<Backslash, k>>
<1>1. /\ <<Backslash, k>> \in Seq(W) /\ <<Backslash>> \in Seq(W) /\ v \in Seq(W)
      /\ c \in Seq(W) /\ c \o <<Backslash>> \in Seq(W)
  BY SeqMonotonic, ConcatProperties
<1>2. b \o Pair(k, v) = (c \o <<Backslash>>) \o v
  <2>1. <<Backslash, k, Backslash>> = <<Backslash, k>> \o <<Backslash>>
    OBVIOUS
  <2>2. <<Backslash, k>> \o <<Backslash>> \in Seq(W)
    BY <1>1, ConcatProperties
  <2>3. b \o Pair(k, v) = (b \o (<<Backslash, k>> \o <<Backslash>>)) \o v
    <3> DEFINE x == <<Backslash, k>> \o <<Backslash>>
    <3>1. Pair(k, v) = x \o v
      BY <2>1 DEF Pair
    <3> HIDE DEF x
    <3>2. x \in Seq(W) /\ v \in Seq(W) /\ b \in Seq(W)
      BY <1>1, <2>2 DEF x
    <3>3. (b \o x) \o v = b \o (x \o v)
      BY <3>2, ConcatAssociative
    <3> QED
      BY <3>1, <3>3, Zenon DEF x
  <2>4. b \o (<<Backslash, k>> \o <<Backslash>>) = c \o <<Backslash>>
    BY <1>1, ConcatAssociative
  <2> QED
    BY <2>3, <2>4
<1>3. Scan(c) = [key |-> OverrideKey(<<k>>), entries |-> Scan(b).entries]
  <2>1. <<k>> \in Seq(W \ {Backslash}) /\ <<k>> \in Seq(W)
    OBVIOUS
  <2>2. c = (b \o <<Backslash>>) \o <<k>>
    <3>1. <<Backslash, k>> = <<Backslash>> \o <<k>>
      OBVIOUS
    <3>2. (b \o <<Backslash>>) \o <<k>> = b \o (<<Backslash>> \o <<k>>)
      BY <1>1, <2>1, ConcatAssociative
    <3> QED
      BY <3>1, <3>2
  <2>3. Scan((b \o <<Backslash>>) \o <<k>>) = StoreField(Scan(b), <<k>>)
    BY <2>1, ScanField
  <2>4. Scan(b) \in States(W)
    BY ScanTyped
  <2>5. StoreField(Scan(b), <<k>>) = [key |-> OverrideKey(<<k>>), entries |-> Scan(b).entries]
    BY <2>4 DEF StoreField, States
  <2> QED
    BY <2>2, <2>3, <2>5
<1> HIDE DEF c
<1>4. Scan((c \o <<Backslash>>) \o v) = StoreField(Scan(c), v)
  BY <1>1, ScanField
<1>5. StoreField(Scan(c), v) = [key |-> << >>, entries |-> Append(Scan(b).entries, RawEntry(k, v))]
  BY <1>3, OverrideKeyFilled DEF StoreField, RawEntry
<1> QED
  BY <1>2, <1>4, <1>5

\* Pairs without backslashes.
PairsOf(W) == (W \ {Backslash}) \X Seq(W \ {Backslash})

LEMMA RawTyped ==
    ASSUME NEW W, Closed(W), NEW pairs \in Seq(PairsOf(W))
    PROVE  /\ Raw(pairs) \in Seq(Entries(W)) /\ Len(Raw(pairs)) = Len(pairs) /\ Len(pairs) \in Nat
           /\ \A i \in 1 .. Len(pairs) :
                  /\ pairs[i][1] \in W \ {Backslash} /\ pairs[i][2] \in Seq(W \ {Backslash})
                  /\ Raw(pairs)[i] = RawEntry(pairs[i][1], pairs[i][2])
                  /\ Raw(pairs)[i] \in Entries(W)
<1> DEFINE n == Len(pairs)
           raw == Raw(pairs)
<1>1. n \in Nat /\ DOMAIN pairs = 1 .. n
  BY LenProperties
<1>2. ASSUME NEW i \in 1 .. n
      PROVE  /\ pairs[i][1] \in W \ {Backslash} /\ pairs[i][2] \in Seq(W \ {Backslash})
             /\ RawEntry(pairs[i][1], pairs[i][2]) \in Entries(W)
  <2>1. pairs[i] \in PairsOf(W)
    BY ElementOfSeq
  <2>2. pairs[i][1] \in W \ {Backslash} /\ pairs[i][2] \in Seq(W \ {Backslash})
    BY <2>1 DEF PairsOf
  <2>3. <<pairs[i][1]>> \in Seq(W) /\ pairs[i][2] \in Seq(W)
    BY <2>2, SeqMonotonic
  <2>4. OverrideKey(<<pairs[i][1]>>) \in Seq(W)
    BY <2>3, OverrideKeyTyped
  <2> QED
    BY <2>2, <2>3, <2>4 DEF RawEntry, Entries
<1>3. raw = [i \in 1 .. n |-> RawEntry(pairs[i][1], pairs[i][2])]
  BY <1>1 DEF Raw
<1> HIDE DEF raw, n
<1> DEFINE V == Entries(W)
<1>4. raw \in [1 .. n -> V]
  BY <1>2, <1>3
<1> HIDE DEF V
<1>5. raw \in Seq(V) /\ Len(raw) = n
  BY <1>1, <1>4, FunctionIsSeq
<1>6. \A i \in 1 .. n : raw[i] = RawEntry(pairs[i][1], pairs[i][2])
  BY <1>3
<1> QED
  BY <1>1, <1>2, <1>5, <1>6 DEF V, raw, n

LEMMA ScanText ==
    ASSUME NEW W, Closed(W), Backslash \in W, NEW pairs \in Seq(PairsOf(W)), NEW b \in Seq(W),
           Scan(b).key = << >>
    PROVE  /\ Text(pairs) \in Seq(W)
           /\ Scan(b \o Text(pairs)) = [key |-> << >>, entries |-> Scan(b).entries \o Raw(pairs)]
<1> DEFINE n == Len(pairs)
           texts == [i \in DOMAIN pairs |-> Pair(pairs[i][1], pairs[i][2])]
           e == Scan(b).entries
           g(k) == SubSeq(Raw(pairs), 1, k)
<1>1. /\ n \in Nat /\ DOMAIN pairs = 1 .. n /\ Raw(pairs) \in Seq(Entries(W)) /\ Len(Raw(pairs)) = n
      /\ \A i \in 1 .. n : pairs[i][1] \in W \ {Backslash} /\ pairs[i][2] \in Seq(W \ {Backslash})
                           /\ Raw(pairs)[i] = RawEntry(pairs[i][1], pairs[i][2])
                           /\ Raw(pairs)[i] \in Entries(W)
  BY RawTyped, LenProperties
<1>2. e \in Seq(Entries(W))
  BY ScanTyped DEF States
<1>3. texts \in Seq(Seq(W)) /\ Len(texts) = n /\ \A i \in 1 .. n : texts[i] = Pair(pairs[i][1], pairs[i][2])
  <2>1. ASSUME NEW i \in 1 .. n PROVE Pair(pairs[i][1], pairs[i][2]) \in Seq(W)
    <3>1. pairs[i][1] \in W /\ pairs[i][2] \in Seq(W)
      BY <1>1, SeqMonotonic
    <3>2. <<Backslash, pairs[i][1], Backslash>> \in Seq(W)
      BY <3>1
    <3> QED
      BY <3>1, <3>2, ConcatProperties DEF Pair
  <2>2. texts = [i \in 1 .. n |-> Pair(pairs[i][1], pairs[i][2])]
    BY <1>1
  <2> HIDE DEF texts, n
  <2> DEFINE V == Seq(W)
  <2>3. texts \in [1 .. n -> V]
    BY <2>1, <2>2
  <2> HIDE DEF V
  <2>4. texts \in Seq(V) /\ Len(texts) = n
    BY <1>1, <2>3, FunctionIsSeq
  <2> QED
    BY <2>2, <2>4 DEF V
<1>4. Text(pairs) = FlattenSeq(texts)
  BY DEF Text, Pair
<1> HIDE DEF texts
<1>5. PICK r : /\ FlattenChain(r, texts) /\ r[Len(texts)] = FlattenSeq(texts)
               /\ \A k \in 0 .. Len(texts) : r[k] \in Seq(W)
  BY <1>3, FlattenPasses
<1> DEFINE T == {k \in Nat : k <= n => Scan(b \o r[k]) = [key |-> << >>, entries |-> e \o g(k)]}
<1>6. 0 \in T
  <2>1. r[0] = << >> /\ b \o << >> = b
    BY <1>5, ConcatEmptySeq DEF FlattenChain
  <2>2. g(0) = << >> /\ e \o << >> = e
    BY <1>2, SubSeqEmpty, ConcatEmptySeq
  <2>3. Scan(b) = [key |-> << >>, entries |-> e]
    BY ScanTyped DEF States
  <2> HIDE DEF e, g
  <2> QED
    BY <2>1, <2>2, <2>3
<1>7. ASSUME NEW k \in Nat, k \in T PROVE k + 1 \in T
  <2> SUFFICES ASSUME k + 1 <= n
               PROVE  Scan(b \o r[k + 1]) = [key |-> << >>, entries |-> e \o g(k + 1)]
    OBVIOUS
  <2> HIDE DEF e
  <2>1. k + 1 \in 1 .. n /\ (k + 1) - 1 = k /\ k <= n /\ k \in 0 .. n
    BY <1>1
  <2> DEFINE key == pairs[k + 1][1]
             v == pairs[k + 1][2]
  <2>2. key \in W \ {Backslash} /\ v \in Seq(W \ {Backslash})
        /\ Raw(pairs)[k + 1] = RawEntry(key, v) /\ RawEntry(key, v) \in Entries(W)
    BY <1>1, <2>1
  <2>3. Scan(b \o r[k]) = [key |-> << >>, entries |-> e \o g(k)]
    BY <1>7, <2>1
  <2>4. r[k + 1] = r[(k + 1) - 1] \o texts[k + 1]
    BY <1>3, <1>5, <2>1, Zenon DEF FlattenChain
  <2>5. r[k + 1] = r[k] \o Pair(key, v)
    BY <1>3, <2>1, <2>4
  <2> HIDE DEF key, v, n
  <2>6. r[k] \in Seq(W) /\ Pair(key, v) \in Seq(W) /\ b \o r[k] \in Seq(W)
    <3>1. r[k] \in Seq(W)
      BY <1>3, <1>5, <2>1
    <3>2. texts[k + 1] = Pair(key, v) /\ texts[k + 1] \in Seq(W)
      BY <1>3, <2>1, ElementOfSeq DEF key, v
    <3> QED
      BY <3>1, <3>2, ConcatProperties
  <2>7. b \o r[k + 1] = (b \o r[k]) \o Pair(key, v)
    <3> DEFINE x == r[k]
               y == Pair(key, v)
    <3> HIDE DEF x, y
    <3>1. b \in Seq(W) /\ x \in Seq(W) /\ y \in Seq(W)
      BY <2>6 DEF x, y
    <3>2. Grouped(b, x, y)
      BY <3>1, ConcatGrouped, Zenon
    <3> QED
      BY <2>5, <3>2, Zenon DEF x, y, Grouped
  <2>8. Scan(b \o r[k]).key = << >> /\ Scan(b \o r[k]).entries = e \o g(k)
    BY <2>3
  <2>9. Scan((b \o r[k]) \o Pair(key, v))
          = [key |-> << >>, entries |-> Append(e \o g(k), RawEntry(key, v))]
    BY <2>2, <2>6, <2>8, ScanAnyPair
  <2>10. g(k + 1) = Append(g(k), RawEntry(key, v)) /\ g(k) \in Seq(Entries(W))
    <3> DEFINE R == Raw(pairs)
    <3>1. R \in Seq(Entries(W)) /\ 1 \in 1 .. Len(R) /\ k + 1 \in 1 .. Len(R)
      BY <1>1, <2>1
    <3>2. R[k + 1] = RawEntry(key, v)
      BY <2>2
    <3> HIDE DEF R
    <3>3. SubSeq(R, 1, k + 1) = SubSeq(R, 1, (k + 1) - 1) \o <<R[k + 1]>>
      BY <3>1, SubSeqRecursiveSecond
    <3>4. \A i \in 1 .. k : R[i] \in Entries(W)
      BY <3>1, ElementOfSeq
    <3>5. SubSeq(R, 1, k) \in Seq(Entries(W))
      BY <3>4, SubSeqProperties
    <3>6. Append(SubSeq(R, 1, k), R[k + 1]) = SubSeq(R, 1, k) \o <<R[k + 1]>>
      BY <2>2, <3>2, <3>5, AppendIsConcat
    <3> QED
      BY <2>1, <3>2, <3>3, <3>5, <3>6 DEF R
  <2> HIDE DEF g
  <2>11. Append(e \o g(k), RawEntry(key, v)) = e \o Append(g(k), RawEntry(key, v))
    <3> DEFINE x == g(k)
               y == RawEntry(key, v)
    <3>1. e \in Seq(Entries(W)) /\ x \in Seq(Entries(W)) /\ y \in Entries(W)
      BY <1>2, <2>2, <2>10
    <3> DEFINE V == Entries(W)
    <3>2. e \in Seq(V) /\ x \in Seq(V) /\ y \in V
      BY <3>1
    <3> HIDE DEF x, y, V, e
    <3>3. Append(e \o x, y) = e \o Append(x, y)
      <4>1. e \o x \in Seq(V) /\ <<y>> \in Seq(V)
        BY <3>2, ConcatProperties
      <4>2. Append(e \o x, y) = (e \o x) \o <<y>> /\ Append(x, y) = x \o <<y>>
        BY <3>2, <4>1, AppendIsConcat
      <4>3. (e \o x) \o <<y>> = e \o (x \o <<y>>)
        BY <3>2, <4>1, ConcatAssociative
      <4> QED
        BY <4>2, <4>3, Zenon
    <3> QED
      BY <3>3 DEF x, y, e
  <2> QED
    BY <2>7, <2>9, <2>10, <2>11
<1> HIDE DEF T
<1>8. Nat \subseteq T
  <2> HIDE DEF T
  <2> QED
    BY <1>6, <1>7, NatSetInduction
<1>9. Scan(b \o r[n]) = [key |-> << >>, entries |-> e \o g(n)]
  <2> HIDE DEF n, g, e
  <2>1. n \in T /\ n <= n
    BY <1>1, <1>8 DEF n
  <2> QED
    BY <2>1 DEF T
<1>10. g(n) = Raw(pairs)
  BY <1>1, SubSeqFull
<1>11. FlattenSeq(texts) \in Seq(W)
  BY <1>3, FlattenTyped
<1> QED
  BY <1>3, <1>4, <1>5, <1>9, <1>10, <1>11

\* A request is its pairs and the terminator.
RawFinal == RawEntry("final", << >>)

RawRequest(pairs) == Append(Raw(pairs), RawFinal)

LEMMA RawRequestTyped ==
    ASSUME NEW W, Closed(W), "final" \in W, NEW pairs \in Seq(PairsOf(W))
    PROVE  /\ RawRequest(pairs) \in Seq(Entries(W)) /\ RawFinal \in Entries(W)
           /\ Len(RawRequest(pairs)) = Len(pairs) + 1
           /\ \A i \in 1 .. Len(pairs) : RawRequest(pairs)[i] = RawEntry(pairs[i][1], pairs[i][2])
           /\ RawRequest(pairs)[Len(pairs) + 1] = RawFinal
<1>1. RawFinal \in Entries(W)
  <2>1. <<"final">> \in Seq(W) /\ << >> \in Seq(W)
    BY EmptySeq
  <2>2. OverrideKey(<<"final">>) \in Seq(W)
    BY <2>1, OverrideKeyTyped
  <2> QED
    BY <2>1, <2>2 DEF RawFinal, RawEntry, Entries
<1>2. /\ Raw(pairs) \in Seq(Entries(W)) /\ Len(Raw(pairs)) = Len(pairs) /\ Len(pairs) \in Nat
      /\ \A i \in 1 .. Len(pairs) : Raw(pairs)[i] = RawEntry(pairs[i][1], pairs[i][2])
  <2>1. Len(pairs) \in Nat
    BY LenProperties
  <2>2. Raw(pairs) \in Seq(Entries(W)) /\ Len(Raw(pairs)) = Len(pairs)
    BY RawTyped
  <2>3. ASSUME NEW i \in 1 .. Len(pairs)
        PROVE  Raw(pairs)[i] = RawEntry(pairs[i][1], pairs[i][2])
    BY DEF Raw
  <2> QED
    BY <2>1, <2>2, <2>3
<1>3. /\ RawRequest(pairs) \in Seq(Entries(W))
      /\ Len(RawRequest(pairs)) = Len(Raw(pairs)) + 1
      /\ \A i \in 1 .. Len(Raw(pairs)) : RawRequest(pairs)[i] = Raw(pairs)[i]
      /\ RawRequest(pairs)[Len(Raw(pairs)) + 1] = RawFinal
  BY <1>1, <1>2, AppendProperties DEF RawRequest
<1> QED
  BY <1>1, <1>2, <1>3

LEMMA ScanRequest ==
    ASSUME NEW W, Closed(W), Backslash \in W, "final" \in W, NEW pairs \in Seq(PairsOf(W)),
           NEW b \in Seq(W), Scan(b).key = << >>
    PROVE  /\ Text(pairs) \o Final \in Seq(W)
           /\ Scan(b \o (Text(pairs) \o Final))
                = [key |-> << >>, entries |-> Scan(b).entries \o RawRequest(pairs)]
<1> DEFINE t == Text(pairs)
           e == Scan(b).entries
<1>1. t \in Seq(W) /\ Scan(b \o t) = [key |-> << >>, entries |-> e \o Raw(pairs)]
  BY ScanText
<1>2. Final = Pair("final", << >>) /\ Final \in Seq(W)
  <2>1. <<Backslash, "final", Backslash>> \in Seq(W)
    OBVIOUS
  <2> QED
    BY <2>1, ConcatEmptySeq DEF Pair, Final
<1>3. e \in Seq(Entries(W))
  BY ScanTyped DEF States
<1> HIDE DEF t, e
<1>4. b \o t \in Seq(W) /\ b \o (t \o Final) = (b \o t) \o Final /\ t \o Final \in Seq(W)
  <2> DEFINE x == Final
  <2> HIDE DEF x
  <2>1. b \in Seq(W) /\ t \in Seq(W) /\ x \in Seq(W)
    BY <1>1, <1>2 DEF x
  <2>2. b \o t \in Seq(W)
    BY <2>1, ConcatProperties, Zenon
  <2>3. t \o x \in Seq(W)
    BY <2>1, ConcatProperties, Zenon
  <2>4. Grouped(b, t, x)
    BY <2>1, ConcatGrouped, Zenon
  <2> QED
    BY <2>2, <2>3, <2>4, Zenon DEF x, Grouped
<1>5. Scan(b \o t).key = << >> /\ Scan(b \o t).entries = e \o Raw(pairs)
  BY <1>1
<1>6. "final" \in W \ {Backslash} /\ << >> \in Seq(W \ {Backslash})
  BY EmptySeq DEF Backslash
<1>7. Scan((b \o t) \o Final) = [key |-> << >>, entries |-> Append(e \o Raw(pairs), RawFinal)]
  <2> DEFINE c == b \o t
  <2>1. c \in Seq(W) /\ Scan(c).key = << >> /\ Scan(c).entries = e \o Raw(pairs)
    BY <1>4, <1>5
  <2> HIDE DEF c
  <2>2. Scan(c \o Pair("final", << >>))
          = [key |-> << >>, entries |-> Append(Scan(c).entries, RawEntry("final", << >>))]
    BY <1>6, <2>1, ScanAnyPair
  <2> QED
    BY <1>2, <2>1, <2>2, Zenon DEF RawFinal, c
<1>8. Append(e \o Raw(pairs), RawFinal) = e \o RawRequest(pairs)
  <2>1. Raw(pairs) \in Seq(Entries(W)) /\ RawFinal \in Entries(W)
    BY RawTyped, RawRequestTyped
  <2> QED
    BY <1>3, <2>1, AppendConcat DEF RawRequest
<1> QED
  BY <1>4, <1>7, <1>8 DEF t, e

Texts(asks) == [m \in DOMAIN asks |-> Text(asks[m]) \o Final]
Raws(asks)  == [m \in DOMAIN asks |-> RawRequest(asks[m])]

LEMMA AsksTyped ==
    ASSUME NEW W, Closed(W), Backslash \in W, "final" \in W, NEW asks \in Seq(Seq(PairsOf(W)))
    PROVE  /\ Len(asks) \in Nat
           /\ Texts(asks) \in Seq(Seq(W)) /\ Raws(asks) \in Seq(Seq(Entries(W)))
           /\ Len(Texts(asks)) = Len(asks) /\ Len(Raws(asks)) = Len(asks)
           /\ \A m \in 1 .. Len(asks) : /\ asks[m] \in Seq(PairsOf(W))
                                        /\ Texts(asks)[m] = Text(asks[m]) \o Final
                                        /\ Raws(asks)[m] = RawRequest(asks[m])
<1> DEFINE n == Len(asks)
           texts == Texts(asks)
           raws == Raws(asks)
           V == Seq(W)
           E == Seq(Entries(W))
<1>1. n \in Nat /\ DOMAIN asks = 1 .. n /\ \A m \in 1 .. n : asks[m] \in Seq(PairsOf(W))
  BY LenProperties, ElementOfSeq
<1>2. ASSUME NEW m \in 1 .. n PROVE Text(asks[m]) \o Final \in V /\ RawRequest(asks[m]) \in E
  <2>1. << >> \in Seq(W) /\ Scan(<< >>).key = << >>
    BY EmptySeq, ScanOfNothing DEF Start
  <2>2. asks[m] \in Seq(PairsOf(W))
    BY <1>1
  <2> QED
    BY <2>1, <2>2, ScanRequest, RawRequestTyped
<1>3. texts = [m \in 1 .. n |-> Text(asks[m]) \o Final] /\ raws = [m \in 1 .. n |-> RawRequest(asks[m])]
  BY <1>1 DEF Texts, Raws
<1> HIDE DEF n, texts, raws, V, E
<1>4. texts \in [1 .. n -> V] /\ raws \in [1 .. n -> E]
  BY <1>2, <1>3
<1>5. texts \in Seq(V) /\ Len(texts) = n
  BY <1>1, <1>4, FunctionIsSeq
<1>6. raws \in Seq(E) /\ Len(raws) = n
  BY <1>1, <1>4, FunctionIsSeq
<1>7. \A m \in 1 .. n : texts[m] = Text(asks[m]) \o Final /\ raws[m] = RawRequest(asks[m])
  BY <1>3
<1> QED
  BY <1>1, <1>5, <1>6, <1>7 DEF n, texts, raws, V, E

LEMMA ScanRequests ==
    ASSUME NEW W, Closed(W), Backslash \in W, "final" \in W, NEW asks \in Seq(Seq(PairsOf(W)))
    PROVE  Scan(FlattenSeq(Texts(asks))) = [key |-> << >>, entries |-> FlattenSeq(Raws(asks))]
<1> DEFINE n == Len(asks)
           texts == Texts(asks)
           raws == Raws(asks)
<1>1. /\ n \in Nat /\ texts \in Seq(Seq(W)) /\ raws \in Seq(Seq(Entries(W)))
      /\ Len(texts) = n /\ Len(raws) = n
      /\ \A m \in 1 .. n : /\ asks[m] \in Seq(PairsOf(W)) /\ texts[m] = Text(asks[m]) \o Final
                           /\ raws[m] = RawRequest(asks[m])
  BY AsksTyped
<1> HIDE DEF texts, raws, n
<1>2. PICK r : /\ FlattenChain(r, texts) /\ r[Len(texts)] = FlattenSeq(texts)
               /\ \A k \in 0 .. Len(texts) : r[k] \in Seq(W)
  BY <1>1, FlattenPasses
<1>3. PICK q : /\ FlattenChain(q, raws) /\ q[Len(raws)] = FlattenSeq(raws)
  BY <1>1, FlattenPasses
<1> DEFINE T == {k \in Nat : k <= n => Scan(r[k]) = [key |-> << >>, entries |-> q[k]]}
<1>4. 0 \in T
  <2>1. r[0] = << >> /\ q[0] = << >>
    BY <1>2, <1>3 DEF FlattenChain
  <2> QED
    BY <2>1, ScanOfNothing DEF Start
<1>5. ASSUME NEW k \in Nat, k \in T PROVE k + 1 \in T
  <2> SUFFICES ASSUME k + 1 <= n PROVE Scan(r[k + 1]) = [key |-> << >>, entries |-> q[k + 1]]
    OBVIOUS
  <2>1. k + 1 \in 1 .. n /\ (k + 1) - 1 = k /\ k <= n /\ k \in 0 .. n
    BY <1>1
  <2>2. r[k + 1] = r[(k + 1) - 1] \o texts[k + 1]
    BY <1>1, <1>2, <2>1, Zenon DEF FlattenChain
  <2>3. q[k + 1] = q[(k + 1) - 1] \o raws[k + 1]
    BY <1>1, <1>3, <2>1, Zenon DEF FlattenChain
  <2>4. /\ asks[k + 1] \in Seq(PairsOf(W)) /\ texts[k + 1] = Text(asks[k + 1]) \o Final
        /\ raws[k + 1] = RawRequest(asks[k + 1])
    BY <1>1, <2>1
  <2>5. r[k] \in Seq(W)
    BY <1>1, <1>2, <2>1
  <2>6. Scan(r[k]).key = << >> /\ Scan(r[k]).entries = q[k]
    BY <1>5, <2>1
  <2>7. Scan(r[k] \o (Text(asks[k + 1]) \o Final))
          = [key |-> << >>, entries |-> Scan(r[k]).entries \o RawRequest(asks[k + 1])]
    BY <2>4, <2>5, <2>6, ScanRequest
  <2> QED
    BY <2>1, <2>2, <2>3, <2>4, <2>6, <2>7
<1> HIDE DEF T
<1>6. Nat \subseteq T
  BY <1>4, <1>5, NatSetInduction
<1>7. Scan(r[n]) = [key |-> << >>, entries |-> q[n]]
  BY <1>1, <1>6 DEF T
<1> QED
  BY <1>1, <1>2, <1>3, <1>7 DEF texts, raws

\* Whole requests are parsed as their entries, one request after the other.
LEMMA ParseRequests ==
    ASSUME NEW W, Closed(W), Backslash \in W, "final" \in W, NEW asks \in Seq(Seq(PairsOf(W)))
    PROVE  ParseGameSpy0Buffer(FlattenSeq(Texts(asks)))
             = [i \in DOMAIN FlattenSeq(Raws(asks)) |-> NormalGamename(FlattenSeq(Raws(asks))[i])]
<1> DEFINE b == FlattenSeq(Texts(asks))
<1> HIDE DEF b
<1>1. ParseGameSpy0Buffer(b) = [i \in DOMAIN Scan(b).entries |-> NormalGamename(Scan(b).entries[i])]
  BY DEF ParseGameSpy0Buffer, Scan, StoreAll, Start
<1>2. Scan(b).entries = FlattenSeq(Raws(asks))
  BY ScanRequests DEF b
<1> QED
  BY <1>1, <1>2 DEF b

\* Where the entries of each request are.
Placed(data, off, asks) ==
    /\ Offsets(off, Raws(asks))
    /\ \A p \in 1 .. Len(data) : \E m \in 1 .. Len(asks) : \E j \in 1 .. Len(asks[m]) + 1 :
           p = off[m - 1] + j
    /\ \A m \in 1 .. Len(asks) : \A j \in 1 .. Len(asks[m]) + 1 :
           /\ off[m - 1] + j \in 1 .. Len(data)
           /\ data[off[m - 1] + j] = NormalGamename(RawRequest(asks[m])[j])

LEMMA ParsedPlaces ==
    ASSUME NEW W, Closed(W), Backslash \in W, "final" \in W, NEW asks \in Seq(Seq(PairsOf(W))),
           NEW data, data = ParseGameSpy0Buffer(FlattenSeq(Texts(asks)))
    PROVE  /\ \E off : Placed(data, off, asks)
           /\ \E S : data \in Seq(S)
           /\ \A i \in 1 .. Len(data) : data[i].key # <<"gamename">> => data[i].value \in Seq(W)
<1> DEFINE raws == Raws(asks)
           flat == FlattenSeq(raws)
           n == Len(flat)
<1>1. /\ Len(asks) \in Nat /\ raws \in Seq(Seq(Entries(W))) /\ Len(raws) = Len(asks)
      /\ \A m \in 1 .. Len(asks) : raws[m] = RawRequest(asks[m]) /\ asks[m] \in Seq(PairsOf(W))
  BY AsksTyped
<1> HIDE DEF raws
<1>2. flat \in Seq(Entries(W)) /\ n \in Nat /\ DOMAIN flat = 1 .. n /\ \A i \in 1 .. n : flat[i] \in Entries(W)
  BY <1>1, FlattenTyped, LenProperties, ElementOfSeq
<1>3. PICK off : Offsets(off, raws) /\ PlacedUpTo(off, raws, flat, Len(raws))
  BY <1>1, FlattenPlaces
<1>4. data = [i \in DOMAIN flat |-> NormalGamename(flat[i])]
  BY ParseRequests DEF raws
<1> HIDE DEF flat, n
<1> DEFINE S == {data[i] : i \in 1 .. n}
<1>5. data \in [1 .. n -> S]
  BY <1>2, <1>4
<1> HIDE DEF S
<1>6. data \in Seq(S) /\ Len(data) = n
  BY <1>2, <1>5, FunctionIsSeq
<1>7. \A i \in 1 .. n : data[i] = NormalGamename(flat[i])
  BY <1>2, <1>4
<1>8. \A m \in 1 .. Len(asks) : Len(raws[m]) = Len(asks[m]) + 1
  BY <1>1, RawRequestTyped
<1>9. \A p \in 1 .. Len(data) : \E m \in 1 .. Len(asks) : \E j \in 1 .. Len(asks[m]) + 1 :
           p = off[m - 1] + j
  <2> TAKE p \in 1 .. Len(data)
  <2>1. p \in 1 .. Len(flat)
    BY <1>6 DEF n
  <2>2. PICK m \in 1 .. Len(raws) : \E j \in 1 .. Len(raws[m]) : p = off[m - 1] + j
    BY <1>3, <2>1 DEF PlacedUpTo
  <2> QED
    BY <1>1, <1>8, <2>2
<1>10. ASSUME NEW m \in 1 .. Len(asks), NEW j \in 1 .. Len(asks[m]) + 1
       PROVE  /\ off[m - 1] + j \in 1 .. Len(data)
              /\ data[off[m - 1] + j] = NormalGamename(RawRequest(asks[m])[j])
  <2>1. m \in 1 .. Len(raws) /\ j \in 1 .. Len(raws[m])
    BY <1>1, <1>8
  <2>2. off[m - 1] + j \in 1 .. Len(flat) /\ flat[off[m - 1] + j] = raws[m][j]
    BY <1>3, <2>1 DEF PlacedUpTo
  <2> QED
    BY <1>1, <1>6, <1>7, <2>2 DEF n
<1>11. Placed(data, off, asks)
  BY <1>3, <1>9, <1>10 DEF Placed, raws
<1>12. ASSUME NEW i \in 1 .. Len(data), data[i].key # <<"gamename">> PROVE data[i].value \in Seq(W)
  <2>1. data[i] = NormalGamename(flat[i]) /\ flat[i] \in Entries(W)
    BY <1>2, <1>6, <1>7
  <2>2. data[i] = flat[i]
    BY <1>12, <2>1 DEF NormalGamename, Entries
  <2> QED
    BY <2>1, <2>2 DEF Entries
<1> QED
  BY <1>6, <1>11, <1>12
-----------------------------------------------------------------------------
(* What the requests of a turn say.                                        *)

LEMMA WordsHold ==
    /\ Closed(Words) /\ Backslash \in Words /\ "final" \in Words
    /\ STRING \subseteq Words /\ HandlerKeys \subseteq Words
  BY WordsClosed DEF Words

LEMMA ValidatePairsAll ==
    ASSUME NEW r \in Request, r.type = "validate"
    PROVE  /\ Len(r.options) \in Nat /\ DOMAIN r.options = 1 .. Len(r.options)
           /\ Len(Pairs(r)) = 2 + Len(r.options)
           /\ Pairs(r)[1] = <<"gamename", <<r.game>> >> /\ Pairs(r)[2] = <<"validate", <<r.answer>> >>
           /\ \A m \in 1 .. Len(r.options) : Pairs(r)[m + 2] = r.options[m]
<1> DEFINE head == << <<"gamename", <<r.game>> >>, <<"validate", <<r.answer>> >> >>
           U == {head[1], head[2]} \cup (STRING \X Seq(STRING))
           c == head \o r.options
<1>1. /\ head[1] = <<"gamename", <<r.game>> >> /\ head[2] = <<"validate", <<r.answer>> >>
      /\ Len(head) = 2 /\ head \in Seq({head[1], head[2]})
  OBVIOUS
<1>2. r.options \in Seq(STRING \X Seq(STRING))
  BY DEF Request
<1>3. head \in Seq(U) /\ r.options \in Seq(U) /\ DOMAIN r.options = 1 .. Len(r.options)
  BY <1>1, <1>2, SeqMonotonic, LenProperties
<1>4. Pairs(r) = c
  BY DEF Pairs
<1> HIDE DEF head, U
<1>5. /\ Len(r.options) \in Nat /\ Len(c) = Len(head) + Len(r.options)
      /\ \A m \in 1 .. Len(head) : c[m] = head[m]
      /\ \A m \in 1 .. Len(r.options) : c[m + Len(head)] = r.options[m]
  BY <1>3, ConcatItems
<1> HIDE DEF c
<1>6. c[1] = head[1] /\ c[2] = head[2]
  BY <1>1, <1>5
<1> QED
  BY <1>1, <1>3, <1>4, <1>5, <1>6

LEMMA SeqWithout ==
    ASSUME NEW W, NEW v \in Seq(W), NEW x, \A j \in 1 .. Len(v) : v[j] # x
    PROVE  v \in Seq(W \ {x})
<1>1. Len(v) \in Nat /\ DOMAIN v = 1 .. Len(v) /\ \A j \in 1 .. Len(v) : v[j] \in W
  BY LenProperties, ElementOfSeq
<1> DEFINE V == W \ {x}
<1>2. v \in [1 .. Len(v) -> V]
  <2>1. v = [j \in 1 .. Len(v) |-> v[j]]
    BY <1>1
  <2>2. \A j \in 1 .. Len(v) : v[j] \in V
    BY <1>1
  <2> HIDE DEF V
  <2> QED
    BY <2>1, <2>2
<1> HIDE DEF V
<1>3. v \in Seq(V)
  BY <1>1, <1>2, FunctionIsSeq
<1> QED
  BY <1>3 DEF V

\* The pairs of a request have no backslash in them.
LEMMA PairsPlain ==
    ASSUME NEW r \in Request, Meant(r)
    PROVE  Pairs(r) \in Seq(PairsOf(Words))
<1> DEFINE P == Pairs(r)
           n == Len(P)
<1>1. P \in Seq(Words \X Seq(Words))
  <2>1. r \in {r} /\ "validate" \in Looked
    BY DEF Looked
  <2> QED
    BY <2>1, PairsMeant
<1>2. n \in Nat /\ DOMAIN P = 1 .. n /\ \A i \in 1 .. n : P[i] \in Words \X Seq(Words)
  BY <1>1, LenProperties, ElementOfSeq
<1>3. \A k \in HandlerKeys \cup {"other"} : k # Backslash
  BY DEF HandlerKeys, Backslash
<1>4. ASSUME NEW i \in 1 .. n PROVE P[i][1] # Backslash
  <2>1. r.type \in {"validate", "list", "sync", "echo", "other"}
    BY DEF Request
  <2>2. CASE r.type = "validate"
    <3>1. /\ Len(r.options) \in Nat /\ DOMAIN r.options = 1 .. Len(r.options) /\ n = 2 + Len(r.options)
          /\ P[1] = <<"gamename", <<r.game>> >> /\ P[2] = <<"validate", <<r.answer>> >>
          /\ \A m \in 1 .. Len(r.options) : P[m + 2] = r.options[m]
      BY <2>2, ValidatePairsAll
    <3>2. CASE i > 2
      <4>1. i - 2 \in 1 .. Len(r.options) /\ (i - 2) + 2 = i
        BY <3>1, <3>2
      <4>2. Optional(r.options[i - 2][1]) /\ P[i] = r.options[i - 2]
        <5>1. P[(i - 2) + 2] = r.options[i - 2]
          BY <3>1, <4>1
        <5> QED
          BY <2>2, <3>1, <4>1, <5>1 DEF Meant
      <4> QED
        BY <4>2 DEF Optional
    <3>3. CASE i \in 1 .. 2
      <4>1. P[i][1] \in {"gamename", "validate"}
        BY <3>1, <3>3
      <4> QED
        BY <1>3, <4>1 DEF HandlerKeys
    <3> QED
      BY <1>2, <3>2, <3>3
  <2>3. CASE r.type # "validate"
    <3>1. P[i][1] \in {"list", "gamename", "sync", "msid", "echo", "other"}
      BY <2>1, <2>3 DEF Pairs
    <3> QED
      BY <1>3, <3>1 DEF HandlerKeys
  <2> QED
    BY <2>2, <2>3
<1>5. ASSUME NEW i \in 1 .. n PROVE P[i] \in PairsOf(Words)
  <2>1. P[i][1] \in Words \ {Backslash} /\ P[i][2] \in Seq(Words) /\ P[i] = <<P[i][1], P[i][2]>>
    BY <1>2, <1>4
  <2>2. \A j \in DOMAIN P[i][2] : P[i][2][j] # Backslash
    BY <1>2 DEF Meant, Innocent
  <2>3. P[i][2] \in Seq(Words \ {Backslash})
    <3>1. \A j \in 1 .. Len(P[i][2]) : P[i][2][j] # Backslash
      BY <2>1, <2>2, LenProperties
    <3> HIDE DEF P
    <3> QED
      BY <2>1, <3>1, SeqWithout
  <2> HIDE DEF P
  <2> QED
    BY <2>1, <2>3 DEF PairsOf
<1> HIDE DEF P, n
<1> DEFINE V == PairsOf(Words)
<1>6. P \in [1 .. n -> V]
  <2>1. P = [i \in 1 .. n |-> P[i]]
    BY <1>1, <1>2
  <2> HIDE DEF V
  <2> QED
    BY <1>5, <2>1 DEF V
<1> HIDE DEF V
<1>7. P \in Seq(V)
  BY <1>2, <1>6, FunctionIsSeq
<1> QED
  BY <1>7 DEF P, V

\* The entry that the parser makes of a request's pair j.
AskEntry(r, j) == NormalGamename(RawRequest(Pairs(r))[j])

LEMMA EntryNormal ==
    ASSUME NEW k, NEW v
    PROVE  LET e == NormalGamename(RawEntry(k, v))
           IN  /\ e = [key |-> e.key, value |-> e.value] /\ e.key = OverrideKey(<<k>>)
               /\ e.key # <<"gamename">> => e.value = v
               /\ e.key = <<"gamename">> => e.value = OverrideGamename(v)
<1> DEFINE key == OverrideKey(<<k>>)
           name == OverrideGamename(v)
<1> HIDE DEF key, name
<1>1. RawEntry(k, v) = [key |-> key, value |-> v]
  BY DEF RawEntry, key
<1>2. CASE key = <<"gamename">>
  <2>1. NormalGamename(RawEntry(k, v)) = [key |-> key, value |-> name]
    BY <1>1, <1>2 DEF NormalGamename, name
  <2> QED
    BY <1>2, <2>1 DEF key, name
<1>3. CASE key # <<"gamename">>
  <2>1. NormalGamename(RawEntry(k, v)) = [key |-> key, value |-> v]
    BY <1>1, <1>3 DEF NormalGamename
  <2> QED
    BY <1>3, <2>1 DEF key
<1> QED
  BY <1>2, <1>3

\* Pair j of a request gives the key the value v.
Says(r, j, key, v) ==
    \/ r.type = "validate" /\ j = 1 /\ key = "gamename" /\ v = <<r.name>>
    \/ r.type = "validate" /\ j = 2 /\ key = "validate" /\ v = <<r.answer>>
    \/ /\ r.type = "validate" /\ key = "enctype"
       /\ \E m \in DOMAIN r.options : /\ j = m + 2 /\ v = r.options[m][2]
                                      /\ OverrideKey(<<r.options[m][1]>>) = <<"enctype">>
    \/ r.type = "list" /\ j = 1 /\ key = "list" /\ v = r.option
    \/ r.type = "list" /\ j = 2 /\ key = "gamename" /\ v = <<r.name>>
    \/ r.type = "sync" /\ j = 1 /\ key = "sync" /\ v = r.games
    \/ r.type = "sync" /\ j = 2 /\ key = "msid" /\ v = <<r.msid>>
    \/ r.type = "echo" /\ j = 1 /\ key = "echo" /\ v = <<r.word>>

\* A pair with one of the handler's keys.
LEMMA HandlerEntry ==
    ASSUME NEW k \in HandlerKeys, NEW v
    PROVE  LET e == NormalGamename(RawEntry(k, v))
           IN  /\ e.key = <<k>> /\ e = [key |-> e.key, value |-> e.value]
               /\ k # "gamename" => e.value = v
               /\ k = "gamename" => e.value = OverrideGamename(v)
<1>1. OverrideKey(<<k>>) = <<k>>
  BY KeysPlain
<1>2. <<k>> = <<"gamename">> <=> k = "gamename"
  OBVIOUS
<1> QED
  BY <1>1, <1>2, EntryNormal

LEMMA AskEntries ==
    ASSUME NEW r \in Request, Meant(r)
    PROVE  /\ Len(Pairs(r)) \in Nat
           /\ \A j \in 1 .. Len(Pairs(r)) :
                 AskEntry(r, j) = NormalGamename(RawEntry(Pairs(r)[j][1], Pairs(r)[j][2]))
           /\ AskEntry(r, Len(Pairs(r)) + 1) = NormalGamename(RawEntry("final", << >>))
<1>1. Pairs(r) \in Seq(PairsOf(Words))
  BY PairsPlain
<1>2. /\ \A i \in 1 .. Len(Pairs(r)) : RawRequest(Pairs(r))[i] = RawEntry(Pairs(r)[i][1], Pairs(r)[i][2])
      /\ RawRequest(Pairs(r))[Len(Pairs(r)) + 1] = RawFinal
  BY <1>1, WordsHold, RawRequestTyped
<1> QED
  BY <1>1, <1>2, LenProperties DEF AskEntry, RawFinal

LEMMA KeysAre ==
    /\ "validate" \in HandlerKeys /\ "gamename" \in HandlerKeys /\ "enctype" \in HandlerKeys
    /\ "list" \in HandlerKeys /\ "sync" \in HandlerKeys /\ "msid" \in HandlerKeys /\ "echo" \in HandlerKeys
  BY DEF HandlerKeys

LEMMA SaysMeans ==
    ASSUME NEW r \in Request, Meant(r), NEW j, NEW key, NEW v, Says(r, j, key, v)
    PROVE  /\ key \in HandlerKeys /\ j \in 1 .. Len(Pairs(r)) + 1
           /\ AskEntry(r, j) = [key |-> <<key>>, value |-> v]
<1> DEFINE P == Pairs(r)
           n == Len(P)
<1>1. n \in Nat /\ \A i \in 1 .. n : AskEntry(r, i) = NormalGamename(RawEntry(P[i][1], P[i][2]))
  BY AskEntries
<1>2. ASSUME NEW i \in 1 .. n, NEW k \in HandlerKeys, NEW w, P[i] = <<k, w>>, k # "gamename"
      PROVE  AskEntry(r, i) = [key |-> <<k>>, value |-> w]
  <2>1. AskEntry(r, i) = NormalGamename(RawEntry(k, w))
    BY <1>1, <1>2
  <2> QED
    BY <1>2, <2>1, HandlerEntry
<1>3. ASSUME NEW i \in 1 .. n, r.type \in {"validate", "list"}, P[i] = <<"gamename", <<r.game>> >>
      PROVE  AskEntry(r, i) = [key |-> <<"gamename">>, value |-> <<r.name>>]
  <2>1. AskEntry(r, i) = NormalGamename(RawEntry("gamename", <<r.game>>))
    BY <1>1, <1>3
  <2>2. OverrideGamename(<<r.game>>) = <<r.name>>
    BY <1>3 DEF Meant
  <2> QED
    BY <2>1, <2>2, KeysAre, HandlerEntry
<1>4. CASE r.type = "validate"
  <2>1. /\ Len(r.options) \in Nat /\ DOMAIN r.options = 1 .. Len(r.options) /\ n = 2 + Len(r.options)
        /\ P[1] = <<"gamename", <<r.game>> >> /\ P[2] = <<"validate", <<r.answer>> >>
        /\ \A m \in 1 .. Len(r.options) : P[m + 2] = r.options[m]
    BY <1>4, ValidatePairsAll
  <2> HIDE DEF P, n
  <2>2. 1 \in 1 .. n /\ 2 \in 1 .. n /\ 1 \in 1 .. n + 1 /\ 2 \in 1 .. n + 1
    BY <1>1, <2>1
  <2>3. CASE j = 1 /\ key = "gamename" /\ v = <<r.name>>
    BY <1>3, <1>4, <2>1, <2>2, <2>3, KeysAre DEF n, P
  <2>4. CASE j = 2 /\ key = "validate" /\ v = <<r.answer>>
    BY <1>2, <1>4, <2>1, <2>2, <2>4, KeysAre DEF n, P
  <2>5. CASE key = "enctype" /\ \E m \in DOMAIN r.options : /\ j = m + 2 /\ v = r.options[m][2]
                                      /\ OverrideKey(<<r.options[m][1]>>) = <<"enctype">>
    <3>1. PICK m \in 1 .. Len(r.options) : /\ j = m + 2 /\ v = r.options[m][2]
                                      /\ OverrideKey(<<r.options[m][1]>>) = <<"enctype">>
      BY <2>1, <2>5
    <3>2. j \in 1 .. n /\ j \in 1 .. n + 1 /\ P[j] = r.options[m]
      BY <2>1, <3>1
    <3>3. AskEntry(r, j) = NormalGamename(RawEntry(r.options[m][1], r.options[m][2]))
      BY <1>1, <3>2
    <3>4. <<"enctype">> # <<"gamename">>
      OBVIOUS
    <3>5. AskEntry(r, j) = [key |-> <<"enctype">>, value |-> v]
      BY <3>1, <3>3, <3>4, EntryNormal
    <3> QED
      BY <2>5, <3>2, <3>5, KeysAre DEF n, P
  <2> QED
    BY <1>4, <2>3, <2>4, <2>5 DEF Says
<1>5. CASE r.type \in {"list", "sync"}
  <2>1. /\ r.type = "list" => P = << <<"list", r.option>>, <<"gamename", <<r.game>> >> >>
        /\ r.type = "sync" => P = << <<"sync", r.games>>, <<"msid", <<r.msid>> >> >>
    BY <1>5 DEF Pairs
  <2>2. /\ n = 2
        /\ r.type = "list" => P[1] = <<"list", r.option>> /\ P[2] = <<"gamename", <<r.game>> >>
        /\ r.type = "sync" => P[1] = <<"sync", r.games>> /\ P[2] = <<"msid", <<r.msid>> >>
    <3> HIDE DEF P
    <3> QED
      BY <1>5, <2>1 DEF n
  <2> HIDE DEF P, n
  <2>3. 1 \in 1 .. n /\ 2 \in 1 .. n /\ 1 \in 1 .. n + 1 /\ 2 \in 1 .. n + 1
    BY <2>2
  <2>4. CASE r.type = "list" /\ j = 1 /\ key = "list" /\ v = r.option
    BY <1>2, <2>2, <2>3, <2>4, KeysAre DEF n, P
  <2>5. CASE r.type = "list" /\ j = 2 /\ key = "gamename" /\ v = <<r.name>>
    BY <1>3, <2>2, <2>3, <2>5, KeysAre DEF n, P
  <2>6. CASE r.type = "sync" /\ j = 1 /\ key = "sync" /\ v = r.games
    BY <1>2, <2>2, <2>3, <2>6, KeysAre DEF n, P
  <2>7. CASE r.type = "sync" /\ j = 2 /\ key = "msid" /\ v = <<r.msid>>
    BY <1>2, <2>2, <2>3, <2>7, KeysAre DEF n, P
  <2> QED
    BY <1>5, <2>4, <2>5, <2>6, <2>7 DEF Says
<1>6. CASE r.type = "echo"
  <2>1. P = << <<"echo", <<r.word>> >> >>
    BY <1>6 DEF Pairs
  <2>2. n = 1 /\ P[1] = <<"echo", <<r.word>> >>
    <3> HIDE DEF P
    <3> QED
      BY <2>1 DEF n
  <2> HIDE DEF P, n
  <2>3. 1 \in 1 .. n /\ 1 \in 1 .. n + 1
    BY <2>2
  <2>4. j = 1 /\ key = "echo" /\ v = <<r.word>>
    BY <1>6 DEF Says
  <2> QED
    BY <1>2, <2>2, <2>3, <2>4, KeysAre DEF n, P
<1> QED
  BY <1>4, <1>5, <1>6 DEF Says

LEMMA MeansSays ==
    ASSUME NEW r \in Request, Meant(r), NEW j \in 1 .. Len(Pairs(r)) + 1, NEW key \in HandlerKeys,
           AskEntry(r, j).key = <<key>>
    PROVE  Says(r, j, key, AskEntry(r, j).value)
<1> DEFINE P == Pairs(r)
           n == Len(P)
           e == AskEntry(r, j)
<1>1. /\ n \in Nat /\ \A i \in 1 .. n : AskEntry(r, i) = NormalGamename(RawEntry(P[i][1], P[i][2]))
      /\ AskEntry(r, n + 1) = NormalGamename(RawEntry("final", << >>))
  BY AskEntries
<1>2. j \in 1 .. n
  <2>1. OverrideKey(<<"final">>) # <<key>>
    BY ScriptAssumption DEF Innocent
  <2>2. AskEntry(r, n + 1).key = OverrideKey(<<"final">>)
    BY <1>1, EntryNormal
  <2>3. j # n + 1
    BY <2>1, <2>2
  <2> QED
    BY <1>1, <2>3
<1>3. /\ e = NormalGamename(RawEntry(P[j][1], P[j][2])) /\ OverrideKey(<<P[j][1]>>) = <<key>>
      /\ key # "gamename" => e.value = P[j][2]
      /\ key = "gamename" => e.value = OverrideGamename(P[j][2])
  <2>1. e = NormalGamename(RawEntry(P[j][1], P[j][2]))
    BY <1>1, <1>2
  <2>2. <<key>> = <<"gamename">> <=> key = "gamename"
    OBVIOUS
  <2> HIDE DEF P
  <2> QED
    BY <2>1, <2>2, EntryNormal
<1>4. P[j][1] \in HandlerKeys => P[j][1] = key
  <2>1. P[j][1] \in HandlerKeys => OverrideKey(<<P[j][1]>>) = <<P[j][1]>>
    BY KeysPlain
  <2> HIDE DEF P
  <2> QED
    BY <1>3, <2>1
<1> HIDE DEF e
<1>5. r.type \in {"validate", "list", "sync", "echo", "other"}
  BY DEF Request
<1>6. CASE r.type = "validate"
  <2>1. /\ Len(r.options) \in Nat /\ DOMAIN r.options = 1 .. Len(r.options) /\ n = 2 + Len(r.options)
        /\ P[1] = <<"gamename", <<r.game>> >> /\ P[2] = <<"validate", <<r.answer>> >>
        /\ \A m \in 1 .. Len(r.options) : P[m + 2] = r.options[m]
    BY <1>6, ValidatePairsAll
  <2> HIDE DEF P, n
  <2>2. CASE j = 1
    <3>1. key = "gamename" /\ e.value = OverrideGamename(<<r.game>>)
      BY <1>3, <1>4, <2>1, <2>2, KeysAre
    <3>2. OverrideGamename(<<r.game>>) = <<r.name>>
      BY <1>6 DEF Meant
    <3> QED
      BY <1>6, <2>2, <3>1, <3>2 DEF Says, e
  <2>3. CASE j = 2
    <3>1. key = "validate" /\ e.value = <<r.answer>>
      BY <1>3, <1>4, <2>1, <2>3, KeysAre
    <3> QED
      BY <1>6, <2>3, <3>1 DEF Says, e
  <2>4. CASE j > 2
    <3>1. j - 2 \in 1 .. Len(r.options) /\ (j - 2) + 2 = j
      BY <1>2, <2>1, <2>4
    <3>2. P[j] = r.options[j - 2] /\ Optional(r.options[j - 2][1])
      <4>1. P[(j - 2) + 2] = r.options[j - 2]
        BY <2>1, <3>1
      <4> QED
        BY <1>6, <2>1, <3>1, <4>1 DEF Meant
    <3>3. key = "enctype"
      BY <1>3, <3>2 DEF Optional
    <3>4. e.value = r.options[j - 2][2] /\ OverrideKey(<<r.options[j - 2][1]>>) = <<"enctype">>
      BY <1>3, <3>2, <3>3
    <3>5. j - 2 \in DOMAIN r.options
      BY <2>1, <3>1
    <3> QED
      BY <1>6, <3>1, <3>3, <3>4, <3>5 DEF Says, e
  <2> QED
    BY <1>1, <1>2, <2>2, <2>3, <2>4
<1>7. CASE r.type = "list"
  <2>1. P = << <<"list", r.option>>, <<"gamename", <<r.game>> >> >>
    BY <1>7 DEF Pairs
  <2>2. n = 2 /\ P[1] = <<"list", r.option>> /\ P[2] = <<"gamename", <<r.game>> >>
    <3> HIDE DEF P
    <3> QED
      BY <2>1 DEF n
  <2> HIDE DEF P, n
  <2>3. CASE j = 1
    <3>1. key = "list" /\ e.value = r.option
      BY <1>3, <1>4, <2>2, <2>3, KeysAre
    <3> QED
      BY <1>7, <2>3, <3>1 DEF Says, e
  <2>4. CASE j = 2
    <3>1. key = "gamename" /\ e.value = OverrideGamename(<<r.game>>)
      BY <1>3, <1>4, <2>2, <2>4, KeysAre
    <3>2. OverrideGamename(<<r.game>>) = <<r.name>>
      BY <1>7 DEF Meant
    <3> QED
      BY <1>7, <2>4, <3>1, <3>2 DEF Says, e
  <2> QED
    BY <1>2, <2>2, <2>3, <2>4
<1>8. CASE r.type = "sync"
  <2>1. P = << <<"sync", r.games>>, <<"msid", <<r.msid>> >> >>
    BY <1>8 DEF Pairs
  <2>2. n = 2 /\ P[1] = <<"sync", r.games>> /\ P[2] = <<"msid", <<r.msid>> >>
    <3> HIDE DEF P
    <3> QED
      BY <2>1 DEF n
  <2> HIDE DEF P, n
  <2>3. CASE j = 1
    <3>1. key = "sync" /\ e.value = r.games
      BY <1>3, <1>4, <2>2, <2>3, KeysAre
    <3> QED
      BY <1>8, <2>3, <3>1 DEF Says, e
  <2>4. CASE j = 2
    <3>1. key = "msid" /\ e.value = <<r.msid>>
      BY <1>3, <1>4, <2>2, <2>4, KeysAre
    <3> QED
      BY <1>8, <2>4, <3>1 DEF Says, e
  <2> QED
    BY <1>2, <2>2, <2>3, <2>4
<1>9. CASE r.type \in {"echo", "other"}
  <2>1. P = << <<r.type, <<r.word>> >> >>
    BY <1>9 DEF Pairs
  <2>2. n = 1 /\ P[1] = <<r.type, <<r.word>> >>
    <3> HIDE DEF P
    <3> QED
      BY <2>1 DEF n
  <2> HIDE DEF P, n
  <2>3. j = 1
    BY <1>2, <2>2
  <2>4. CASE r.type = "echo"
    <3>1. key = "echo" /\ e.value = <<r.word>>
      BY <1>3, <1>4, <2>2, <2>3, <2>4, KeysAre
    <3> QED
      BY <2>3, <2>4, <3>1 DEF Says, e
  <2>5. CASE r.type = "other"
    <3>1. OverrideKey(<<"other">>) # <<key>>
      BY ScriptAssumption DEF Innocent
    <3> QED
      BY <1>3, <2>2, <2>3, <2>5, <3>1
  <2> QED
    BY <1>9, <2>4, <2>5
<1> QED
  BY <1>5, <1>6, <1>7, <1>8, <1>9

\* The requests of a turn, as pairs.
Asks(turn) == [i \in DOMAIN turn |-> Pairs(turn[i])]

\* What is parsed of a turn is what its requests say, one request after the other.
TurnSays(data, off, turn) ==
    /\ \A p \in 1 .. Len(data), key \in HandlerKeys : data[p].key = <<key>> =>
           \E i \in DOMAIN turn, j \in Nat : p = off[i - 1] + j /\ Says(turn[i], j, key, data[p].value)
    /\ \A i \in DOMAIN turn : \A j, key, v : Says(turn[i], j, key, v) =>
           off[i - 1] + j \in 1 .. Len(data) /\ data[off[i - 1] + j] = [key |-> <<key>>, value |-> v]
    /\ \A i, k \in DOMAIN turn : \A p, q, key, name, v, w :
           i < k /\ Says(turn[i], p, key, v) /\ Says(turn[k], q, name, w) => off[i - 1] + p < off[k - 1] + q

LEMMA AsksOfTurn ==
    ASSUME NEW turn \in Seq(Request), \A i \in DOMAIN turn : Meant(turn[i])
    PROVE  /\ Asks(turn) \in Seq(Seq(PairsOf(Words))) /\ Len(Asks(turn)) = Len(turn)
           /\ Len(turn) \in Nat /\ DOMAIN turn = 1 .. Len(turn)
           /\ \A i \in 1 .. Len(turn) : Asks(turn)[i] = Pairs(turn[i]) /\ turn[i] \in Request
           /\ TurnText(turn) = FlattenSeq(Texts(Asks(turn)))
<1> DEFINE n == Len(turn)
           asks == Asks(turn)
           V == Seq(PairsOf(Words))
<1>1. n \in Nat /\ DOMAIN turn = 1 .. n /\ \A i \in 1 .. n : turn[i] \in Request
  BY LenProperties, ElementOfSeq
<1>2. ASSUME NEW i \in 1 .. n PROVE Pairs(turn[i]) \in V
  <2>1. turn[i] \in Request /\ Meant(turn[i])
    BY <1>1
  <2> QED
    BY <2>1, PairsPlain
<1>3. asks = [i \in 1 .. n |-> Pairs(turn[i])]
  BY <1>1 DEF Asks
<1> HIDE DEF n, asks, V
<1>4. asks \in [1 .. n -> V]
  BY <1>2, <1>3
<1>5. asks \in Seq(V) /\ Len(asks) = n /\ DOMAIN asks = 1 .. n
  BY <1>1, <1>3, <1>4, FunctionIsSeq
<1>6. \A i \in 1 .. n : asks[i] = Pairs(turn[i])
  BY <1>3
<1>7. TurnText(turn) = FlattenSeq(Texts(asks))
  <2>1. [i \in DOMAIN turn |-> RequestText(turn[i])] = [i \in DOMAIN asks |-> Text(asks[i]) \o Final]
    BY <1>1, <1>5, <1>6 DEF RequestText
  <2> QED
    BY <2>1 DEF TurnText, Texts
<1> QED
  BY <1>1, <1>5, <1>6, <1>7 DEF n, asks, V

LEMMA TurnParsed ==
    ASSUME NEW turn \in Seq(Request), \A i \in DOMAIN turn : Meant(turn[i]),
           NEW data, data = ParseGameSpy0Buffer(TurnText(turn))
    PROVE  /\ \E S : data \in Seq(S)
           /\ \A i \in 1 .. Len(data) : data[i].key # <<"gamename">> => data[i].value \in Seq(Words)
           /\ \E off : TurnSays(data, off, turn)
<1> DEFINE asks == Asks(turn)
           n == Len(turn)
<1>1. /\ asks \in Seq(Seq(PairsOf(Words))) /\ Len(asks) = n
      /\ n \in Nat /\ DOMAIN turn = 1 .. n
      /\ \A i \in 1 .. n : asks[i] = Pairs(turn[i]) /\ turn[i] \in Request
      /\ TurnText(turn) = FlattenSeq(Texts(asks))
  BY AsksOfTurn
<1> HIDE DEF asks, n
<1>2. PICK off : Placed(data, off, asks)
  BY <1>1, WordsHold, ParsedPlaces
<1>3. /\ \E S : data \in Seq(S)
      /\ \A i \in 1 .. Len(data) : data[i].key # <<"gamename">> => data[i].value \in Seq(Words)
  BY <1>1, WordsHold, ParsedPlaces
<1>4. ASSUME NEW i \in 1 .. n
      PROVE  turn[i] \in Request /\ Meant(turn[i]) /\ asks[i] = Pairs(turn[i]) /\ Len(asks[i]) \in Nat
  <2>1. turn[i] \in Request /\ Meant(turn[i]) /\ asks[i] = Pairs(turn[i])
    BY <1>1
  <2> QED
    BY <2>1, AskEntries
<1>5. \A i \in 1 .. n : \A j \in 1 .. Len(asks[i]) + 1 :
          off[i - 1] + j \in 1 .. Len(data) /\ data[off[i - 1] + j] = AskEntry(turn[i], j)
  BY <1>1, <1>2 DEF Placed, AskEntry
<1>6. ASSUME NEW p \in 1 .. Len(data), NEW key \in HandlerKeys, data[p].key = <<key>>
      PROVE  \E i \in DOMAIN turn, j \in Nat : p = off[i - 1] + j /\ Says(turn[i], j, key, data[p].value)
  <2>1. PICK i \in 1 .. n : \E j \in 1 .. Len(asks[i]) + 1 : p = off[i - 1] + j
    BY <1>1, <1>2 DEF Placed
  <2>2. PICK j \in 1 .. Len(asks[i]) + 1 : p = off[i - 1] + j
    BY <2>1
  <2>3. data[p] = AskEntry(turn[i], j)
    BY <1>5, <2>2
  <2>4. Says(turn[i], j, key, data[p].value)
    <3> DEFINE r == turn[i]
    <3>1. r \in Request /\ Meant(r) /\ j \in 1 .. Len(Pairs(r)) + 1
      BY <1>4
    <3>2. AskEntry(r, j).key = <<key>> /\ AskEntry(r, j).value = data[p].value
      BY <1>6, <2>3
    <3> HIDE DEF r
    <3>3. Says(r, j, key, AskEntry(r, j).value)
      BY <3>1, <3>2, MeansSays
    <3> QED
      BY <3>2, <3>3 DEF r
  <2>5. i \in DOMAIN turn /\ j \in Nat
    BY <1>1, <1>4, <2>2
  <2> QED
    BY <2>2, <2>4, <2>5, Zenon
<1>7. ASSUME NEW i \in 1 .. n, NEW j, NEW key, NEW v, Says(turn[i], j, key, v)
      PROVE  /\ j \in 1 .. Len(asks[i]) + 1 /\ off[i - 1] + j \in 1 .. Len(data)
             /\ data[off[i - 1] + j] = [key |-> <<key>>, value |-> v]
  <2>1. j \in 1 .. Len(asks[i]) + 1 /\ AskEntry(turn[i], j) = [key |-> <<key>>, value |-> v]
    BY <1>4, <1>7, SaysMeans
  <2> QED
    BY <1>5, <2>1
<1>8. ASSUME NEW i \in 1 .. n, NEW k \in 1 .. n, NEW p, NEW q, NEW key, NEW name, NEW v, NEW w,
             i < k, Says(turn[i], p, key, v), Says(turn[k], q, name, w)
      PROVE  off[i - 1] + p < off[k - 1] + q
  <2>1. p \in 1 .. Len(asks[i]) + 1 /\ q \in 1 .. Len(asks[k]) + 1
    BY <1>7, <1>8
  <2>2. /\ Raws(asks) \in Seq(Seq(Entries(Words))) /\ Len(Raws(asks)) = n
        /\ Raws(asks)[i] = RawRequest(asks[i]) /\ asks[i] \in Seq(PairsOf(Words))
    BY <1>1, WordsHold, AsksTyped
  <2>3. Len(Raws(asks)[i]) = Len(asks[i]) + 1
    BY <2>2, WordsHold, RawRequestTyped
  <2>4. Offsets(off, Raws(asks))
    BY <1>2 DEF Placed
  <2>5. off[i] <= off[k - 1] /\ off[i] \in Nat /\ off[k - 1] \in Nat
    BY <1>8, <2>2, <2>4, OffsetsGrow
  <2>6. off[i - 1] \in Nat /\ off[i] = off[i - 1] + Len(Raws(asks)[i])
    BY <2>2, <2>4 DEF Offsets
  <2>7. Len(asks[i]) \in Nat /\ Len(asks[k]) \in Nat
    BY <1>4
  <2>8. off[i] = off[i - 1] + (Len(asks[i]) + 1)
    BY <2>3, <2>6
  <2> DEFINE a == Len(asks[i])
             o == off[i - 1]
             x == off[k - 1]
             y == off[i]
  <2>9. /\ a \in Nat /\ o \in Nat /\ x \in Nat /\ y = o + (a + 1) /\ y <= x
        /\ p \in 1 .. a + 1 /\ q \in Nat /\ q >= 1
    BY <2>1, <2>5, <2>6, <2>7, <2>8
  <2> HIDE DEF a, o, x, y
  <2>10. o + p < x + q
    BY <2>9
  <2> QED
    BY <2>10 DEF o, x
<1>9. TurnSays(data, off, turn)
  BY <1>1, <1>6, <1>7, <1>8 DEF TurnSays
<1> QED
  BY <1>3, <1>9

\* A turn asks for each thing once, and for a list after it has answered.
Separate(turn) == \A i, j \in DOMAIN turn :
    /\ turn[i].type = turn[j].type /\ turn[i].type \in {"validate", "list", "sync"} => i = j
    /\ turn[i].type = "validate" /\ turn[j].type = "list" => i < j

Kinds == {"validate", "list", "sync", "echo"}

\* What the handler looks up is what the requests of the turn say.
Finds(data, turn) ==
    /\ \A type \in Kinds : HasKey(data, type) <=> InTurn(turn, type) # {}
    /\ \A i \in InTurn(turn, "validate") :
           /\ Word(Value(data, "validate", << >>)) = turn[i].answer
           /\ GameToValidate(data) = turn[i].name
           /\ WantsEnctype2(data) = turn[i].enctype2
    /\ \A i \in InTurn(turn, "list") : Word(Value(data, "gamename", << >>)) = turn[i].name
    /\ \A i \in InTurn(turn, "sync") : /\ Value(data, "sync", << >>) = turn[i].games
                                       /\ Value(data, "msid", << >>) = <<turn[i].msid>>
    /\ HasKey(data, "echo") => Value(data, "echo", << >>) \in Seq(Words)

\* A value that only one request of the turn gives.
LEMMA OnlySays ==
    ASSUME NEW data, NEW off, NEW turn, TurnSays(data, off, turn), NEW key \in HandlerKeys,
           NEW i \in DOMAIN turn, NEW j, NEW v, Says(turn[i], j, key, v),
           \A k \in DOMAIN turn : \A q, w : Says(turn[k], q, key, w) => w = v
    PROVE  OnlyValue(data, key, v)
<1>1. off[i - 1] + j \in 1 .. Len(data) /\ data[off[i - 1] + j] = [key |-> <<key>>, value |-> v]
  BY DEF TurnSays
<1>2. ASSUME NEW p \in 1 .. Len(data), data[p].key = <<key>> PROVE data[p].value = v
  <2>1. \E k \in DOMAIN turn, q \in Nat : p = off[k - 1] + q /\ Says(turn[k], q, key, data[p].value)
    BY <1>2 DEF TurnSays
  <2> QED
    BY <2>1
<1>3. data[off[i - 1] + j].key = <<key>>
  BY <1>1
<1> QED
  BY <1>1, <1>2, <1>3 DEF OnlyValue

LEMMA WordOne == ASSUME NEW w PROVE Word(<<w>>) = w
  BY DEF Word

\* The game of an only gamename.
LEMMA OneGame ==
    ASSUME NEW S, NEW data \in Seq(S), NEW name, OnlyValue(data, "gamename", <<name>>)
    PROVE  Word(Value(data, "gamename", << >>)) = name /\ GameToValidate(data) = name
<1> DEFINE vs == Values(data, "gamename")
<1>1. /\ Value(data, "gamename", << >>) = <<name>> /\ Len(vs) \in Nat \ {0}
      /\ \A j \in 1 .. Len(vs) : vs[j] = <<name>>
  BY ValueOf
<1>2. GameToValidate(data) = IF Len(vs) >= 2 THEN Word(Last(vs)) ELSE Word(Value(data, "gamename", << >>))
  BY DEF GameToValidate
<1> HIDE DEF vs
<1>3. Last(vs) = <<name>>
  BY <1>1 DEF Last
<1> QED
  BY <1>1, <1>2, <1>3, WordOne

\* The games of a combined query.
LEMMA TwoGames ==
    ASSUME NEW S, NEW data \in Seq(S), NEW p \in 1 .. Len(data), NEW q \in 1 .. Len(data), p < q,
           \A i \in 1 .. Len(data) : data[i].key = <<"gamename">> <=> i = p \/ i = q
    PROVE  /\ Word(Value(data, "gamename", << >>)) = Word(data[q].value)
           /\ GameToValidate(data) = Word(data[p].value)
<1> DEFINE x == data[p].value
           y == data[q].value
           vs == <<y, x>>
<1>1. Values(data, "gamename") = <<y, x>>
  BY ValuesTwo
<1> HIDE DEF x, y
<1>2. vs # << >> /\ Head(vs) = y /\ Len(vs) = 2 /\ Last(vs) = x
  BY DEF Last
<1>3. Value(data, "gamename", << >>) = Head(vs)
  <2>1. 1 \in DOMAIN vs
    BY <1>2
  <2> HIDE DEF vs
  <2>2. Values(data, "gamename") = vs
    BY <1>1 DEF vs
  <2> QED
    BY <1>2, <2>2 DEF Value, HasKey
<1>4. GameToValidate(data) = Word(Last(vs))
  <2>1. Len(vs) >= 2
    BY <1>2
  <2> HIDE DEF vs
  <2>2. Values(data, "gamename") = vs
    BY <1>1 DEF vs
  <2> QED
    BY <2>1, <2>2 DEF GameToValidate
<1> HIDE DEF vs
<1> QED
  BY <1>2, <1>3, <1>4 DEF x, y

LEMMA ValueIn ==
    ASSUME NEW S, NEW data \in Seq(S), NEW key, HasKey(data, key), NEW V,
           \A i \in 1 .. Len(data) : data[i].key = <<key>> => data[i].value \in V
    PROVE  Value(data, key, << >>) \in V
<1> DEFINE vs == Values(data, key)
<1>1. /\ \E T : vs \in Seq(T)
      /\ \A j \in 1 .. Len(vs) : \E i \in 1 .. Len(data) : data[i].key = <<key>> /\ vs[j] = data[i].value
  <2>1. FromEntries(data, key) /\ \E T : Values(data, key) \in Seq(T)
    BY ValueOfKey
  <2> QED
    BY <2>1 DEF FromEntries
<1>2. vs # << >> /\ Value(data, key, << >>) = Head(vs)
  BY DEF HasKey, Value
<1> HIDE DEF vs
<1>3. Head(vs) = vs[1] /\ 1 \in 1 .. Len(vs)
  BY <1>1, <1>2
<1>4. PICK i \in 1 .. Len(data) : data[i].key = <<key>> /\ vs[1] = data[i].value
  BY <1>1, <1>3
<1> QED
  BY <1>2, <1>3, <1>4

LEMMA FindsWhatIsSaid ==
    ASSUME NEW turn \in Seq(Request), Separate(turn), \A i \in DOMAIN turn : turn[i] \in Request /\ Meant(turn[i]),
           NEW S, NEW data \in Seq(S), NEW off, TurnSays(data, off, turn),
           \A i \in 1 .. Len(data) : data[i].key # <<"gamename">> => data[i].value \in Seq(Words)
    PROVE  Finds(data, turn)
<1>1. data \in Seq(S)
  OBVIOUS
<1>2. TurnSays(data, off, turn)
  OBVIOUS
<1>3. \A i \in 1 .. Len(data) : data[i].key # <<"gamename">> => data[i].value \in Seq(Words)
  OBVIOUS
<1>4. \A i \in DOMAIN turn : turn[i] \in Request /\ Meant(turn[i])
  OBVIOUS
<1>5. ASSUME NEW type \in Kinds PROVE HasKey(data, type) <=> InTurn(turn, type) # {}
  <2>1. type \in HandlerKeys
    BY DEF Kinds, HandlerKeys
  <2>2. HasKey(data, type) <=> \E p \in 1 .. Len(data) : data[p].key = <<type>>
    BY <1>1, ValuesOfKey
  <2>3. ASSUME NEW p \in 1 .. Len(data), data[p].key = <<type>> PROVE InTurn(turn, type) # {}
    <3>1. PICK i \in DOMAIN turn, j \in Nat : Says(turn[i], j, type, data[p].value)
      BY <1>2, <2>1, <2>3 DEF TurnSays
    <3>2. turn[i].type = type
      BY <3>1 DEF Says, Kinds
    <3> QED
      BY <3>2 DEF InTurn
  <2>4. ASSUME NEW i \in DOMAIN turn, turn[i].type = type PROVE \E p \in 1 .. Len(data) : data[p].key = <<type>>
    <3>1. \E j, v : Says(turn[i], j, type, v)
      <4>1. CASE type = "validate"
        <5>1. Says(turn[i], 2, type, <<turn[i].answer>>)
          BY <2>4, <4>1 DEF Says
        <5> QED
          BY <5>1
      <4>2. CASE type = "list"
        <5>1. Says(turn[i], 1, type, turn[i].option)
          BY <2>4, <4>2 DEF Says
        <5> QED
          BY <5>1
      <4>3. CASE type = "sync"
        <5>1. Says(turn[i], 1, type, turn[i].games)
          BY <2>4, <4>3 DEF Says
        <5> QED
          BY <5>1
      <4>4. CASE type = "echo"
        <5>1. Says(turn[i], 1, type, <<turn[i].word>>)
          BY <2>4, <4>4 DEF Says
        <5> QED
          BY <5>1
      <4> QED
        BY <4>1, <4>2, <4>3, <4>4 DEF Kinds
    <3>2. PICK j, v : Says(turn[i], j, type, v)
      BY <3>1
    <3>3. off[i - 1] + j \in 1 .. Len(data) /\ data[off[i - 1] + j] = [key |-> <<type>>, value |-> v]
      BY <1>2, <3>2 DEF TurnSays
    <3>4. data[off[i - 1] + j].key = <<type>>
      BY <3>3
    <3> QED
      BY <3>3, <3>4
  <2> QED
    BY <2>2, <2>3, <2>4 DEF InTurn
<1>6. ASSUME NEW i \in DOMAIN turn, turn[i].type = "validate"
      PROVE  /\ Word(Value(data, "validate", << >>)) = turn[i].answer
             /\ WantsEnctype2(data) = turn[i].enctype2
  <2>1. \A k \in DOMAIN turn : turn[k].type = "validate" => k = i
    BY <1>6 DEF Separate
  <2>2. Word(Value(data, "validate", << >>)) = turn[i].answer
    <3>1. Says(turn[i], 2, "validate", <<turn[i].answer>>)
      BY <1>6 DEF Says
    <3>2. \A k \in DOMAIN turn : \A q, w : Says(turn[k], q, "validate", w) => w = <<turn[i].answer>>
      BY <2>1 DEF Says
    <3>3. OnlyValue(data, "validate", <<turn[i].answer>>)
      BY <1>2, <3>1, <3>2, KeysAre, OnlySays
    <3>4. Value(data, "validate", << >>) = <<turn[i].answer>>
      BY <1>1, <3>3, ValueOf
    <3> QED
      BY <3>4, WordOne
  <2>3. /\ turn[i].enctype2 = 1 <=> \E m \in DOMAIN turn[i].options :
               OverrideKey(<<turn[i].options[m][1]>>) = <<"enctype">> /\ turn[i].options[m][2] = <<"2">>
        /\ \A m, l \in DOMAIN turn[i].options :
               OverrideKey(<<turn[i].options[m][1]>>) = <<"enctype">>
               /\ OverrideKey(<<turn[i].options[l][1]>>) = <<"enctype">> => m = l
        /\ turn[i].enctype2 \in Bit
    <3>1. Meant(turn[i]) /\ turn[i] \in Request
      BY <1>4
    <3>2. turn[i].enctype2 \in Bit
      BY <1>6, <3>1 DEF Request
    <3> QED
      BY <1>6, <3>1, <3>2 DEF Meant
  <2>4. Value(data, "enctype", << >>) = <<"2">> <=> turn[i].enctype2 = 1
    <3>1. CASE \E m \in DOMAIN turn[i].options : OverrideKey(<<turn[i].options[m][1]>>) = <<"enctype">>
      <4>1. PICK m \in DOMAIN turn[i].options : OverrideKey(<<turn[i].options[m][1]>>) = <<"enctype">>
        BY <3>1
      <4> DEFINE v == turn[i].options[m][2]
      <4>2. Says(turn[i], m + 2, "enctype", v)
        BY <1>6, <4>1 DEF Says
      <4>3. \A k \in DOMAIN turn : \A q, w : Says(turn[k], q, "enctype", w) => w = v
        <5> SUFFICES ASSUME NEW k \in DOMAIN turn, NEW q, NEW w, Says(turn[k], q, "enctype", w) PROVE w = v
          OBVIOUS
        <5>1. turn[k].type = "validate" /\ \E l \in DOMAIN turn[k].options :
                 w = turn[k].options[l][2] /\ OverrideKey(<<turn[k].options[l][1]>>) = <<"enctype">>
          BY DEF Says
        <5>2. k = i
          BY <2>1, <5>1
        <5>3. PICK l \in DOMAIN turn[i].options :
                 w = turn[i].options[l][2] /\ OverrideKey(<<turn[i].options[l][1]>>) = <<"enctype">>
          BY <5>1, <5>2
        <5>4. l = m
          BY <2>3, <4>1, <5>3
        <5> QED
          BY <5>3, <5>4
      <4>4. OnlyValue(data, "enctype", v)
        <5> HIDE DEF v
        <5> QED
          BY <1>2, <4>2, <4>3, KeysAre, OnlySays
      <4>5. Value(data, "enctype", << >>) = v
        BY <1>1, <4>4, ValueOf
      <4>6. turn[i].enctype2 = 1 <=> v = <<"2">>
        <5>1. ASSUME turn[i].enctype2 = 1 PROVE v = <<"2">>
          <6>1. PICK l \in DOMAIN turn[i].options :
               OverrideKey(<<turn[i].options[l][1]>>) = <<"enctype">> /\ turn[i].options[l][2] = <<"2">>
            BY <2>3, <5>1
          <6>2. l = m
            BY <2>3, <4>1, <6>1
          <6> QED
            BY <6>1, <6>2
        <5> QED
          BY <2>3, <4>1, <5>1
      <4> HIDE DEF v
      <4> QED
        BY <4>5, <4>6
    <3>2. CASE ~ \E m \in DOMAIN turn[i].options : OverrideKey(<<turn[i].options[m][1]>>) = <<"enctype">>
      <4>1. turn[i].enctype2 # 1
        BY <2>3, <3>2
      <4>2. ASSUME NEW p \in 1 .. Len(data) PROVE data[p].key # <<"enctype">>
        <5> SUFFICES ASSUME data[p].key = <<"enctype">> PROVE FALSE
          OBVIOUS
        <5>1. PICK k \in DOMAIN turn, q \in Nat : Says(turn[k], q, "enctype", data[p].value)
          BY <1>2, KeysAre DEF TurnSays
        <5>2. turn[k].type = "validate" /\ \E l \in DOMAIN turn[k].options :
                 OverrideKey(<<turn[k].options[l][1]>>) = <<"enctype">>
          BY <5>1 DEF Says
        <5>3. k = i
          BY <2>1, <5>2
        <5> QED
          BY <3>2, <5>2, <5>3
      <4>3. ~HasKey(data, "enctype")
        BY <1>1, <4>2, NoKey
      <4>4. Value(data, "enctype", << >>) = << >> /\ << >> # <<"2">>
        BY <4>3 DEF Value
      <4> QED
        BY <4>1, <4>4
    <3> QED
      BY <3>1, <3>2
  <2> QED
    BY <2>2, <2>3, <2>4 DEF WantsEnctype2, Bit
<1>7. ASSUME NEW i \in DOMAIN turn, turn[i].type = "sync"
      PROVE  Value(data, "sync", << >>) = turn[i].games /\ Value(data, "msid", << >>) = <<turn[i].msid>>
  <2>1. \A k \in DOMAIN turn : turn[k].type = "sync" => k = i
    BY <1>7 DEF Separate
  <2>2. /\ Says(turn[i], 1, "sync", turn[i].games) /\ Says(turn[i], 2, "msid", <<turn[i].msid>>)
    BY <1>7 DEF Says
  <2>3. \A k \in DOMAIN turn : \A q, w : Says(turn[k], q, "sync", w) => w = turn[i].games
    BY <2>1 DEF Says
  <2>4. \A k \in DOMAIN turn : \A q, w : Says(turn[k], q, "msid", w) => w = <<turn[i].msid>>
    BY <2>1 DEF Says
  <2>5. OnlyValue(data, "sync", turn[i].games)
    BY <1>2, <2>2, <2>3, KeysAre, OnlySays
  <2>6. OnlyValue(data, "msid", <<turn[i].msid>>)
    BY <1>2, <2>2, <2>4, KeysAre, OnlySays
  <2> QED
    BY <1>1, <2>5, <2>6, ValueOf
<1>8. ASSUME NEW i \in DOMAIN turn, turn[i].type = "validate", NEW k \in DOMAIN turn, turn[k].type = "list"
      PROVE  GameToValidate(data) = turn[i].name /\ Word(Value(data, "gamename", << >>)) = turn[k].name
  <2> DEFINE p == off[i - 1] + 1
             q == off[k - 1] + 2
  <2>1. Says(turn[i], 1, "gamename", <<turn[i].name>>) /\ Says(turn[k], 2, "gamename", <<turn[k].name>>)
    BY <1>8 DEF Says
  <2>2. i < k
    BY <1>8 DEF Separate
  <2>3. p < q
    BY <1>2, <2>1, <2>2 DEF TurnSays
  <2>4. /\ p \in 1 .. Len(data) /\ data[p] = [key |-> <<"gamename">>, value |-> <<turn[i].name>>]
        /\ q \in 1 .. Len(data) /\ data[q] = [key |-> <<"gamename">>, value |-> <<turn[k].name>>]
    <3>1. \A l \in DOMAIN turn : \A j, key, v : Says(turn[l], j, key, v) =>
              off[l - 1] + j \in 1 .. Len(data) /\ data[off[l - 1] + j] = [key |-> <<key>>, value |-> v]
      BY <1>2 DEF TurnSays
    <3>2. p \in 1 .. Len(data) /\ data[p] = [key |-> <<"gamename">>, value |-> <<turn[i].name>>]
      BY <2>1, <3>1
    <3>3. q \in 1 .. Len(data) /\ data[q] = [key |-> <<"gamename">>, value |-> <<turn[k].name>>]
      BY <2>1, <3>1
    <3> QED
      BY <3>2, <3>3
  <2>5. ASSUME NEW m \in 1 .. Len(data), data[m].key = <<"gamename">> PROVE m = p \/ m = q
    <3>1. PICK l \in DOMAIN turn, j \in Nat : m = off[l - 1] + j /\ Says(turn[l], j, "gamename", data[m].value)
      BY <1>2, <2>5, KeysAre DEF TurnSays
    <3>2. (turn[l].type = "validate" /\ j = 1) \/ (turn[l].type = "list" /\ j = 2)
      BY <3>1 DEF Says
    <3>3. (l = i /\ j = 1) \/ (l = k /\ j = 2)
      BY <1>8, <3>2 DEF Separate
    <3> QED
      BY <3>1, <3>3
  <2> HIDE DEF p, q
  <2>6. /\ data[p].key = <<"gamename">> /\ data[p].value = <<turn[i].name>>
        /\ data[q].key = <<"gamename">> /\ data[q].value = <<turn[k].name>>
    BY <2>4
  <2>7. \A m \in 1 .. Len(data) : data[m].key = <<"gamename">> <=> m = p \/ m = q
    BY <2>5, <2>6
  <2>8. p \in 1 .. Len(data) /\ q \in 1 .. Len(data)
    BY <2>4
  <2>9. /\ Word(Value(data, "gamename", << >>)) = Word(data[q].value)
        /\ GameToValidate(data) = Word(data[p].value)
    BY <1>1, <2>3, <2>7, <2>8, TwoGames
  <2> QED
    BY <2>6, <2>9, WordOne
<1>9. ASSUME NEW i \in DOMAIN turn, turn[i].type \in {"validate", "list"},
             \A k \in DOMAIN turn : turn[k].type \in {"validate", "list"} => k = i
      PROVE  GameToValidate(data) = turn[i].name /\ Word(Value(data, "gamename", << >>)) = turn[i].name
  <2>1. \E j : Says(turn[i], j, "gamename", <<turn[i].name>>)
    <3>1. CASE turn[i].type = "validate"
      <4>1. Says(turn[i], 1, "gamename", <<turn[i].name>>)
        BY <3>1 DEF Says
      <4> QED
        BY <4>1
    <3>2. CASE turn[i].type = "list"
      <4>1. Says(turn[i], 2, "gamename", <<turn[i].name>>)
        BY <3>2 DEF Says
      <4> QED
        BY <4>1
    <3> QED
      BY <1>9, <3>1, <3>2
  <2>2. PICK j : Says(turn[i], j, "gamename", <<turn[i].name>>)
    BY <2>1
  <2>3. \A k \in DOMAIN turn : \A q, w : Says(turn[k], q, "gamename", w) => w = <<turn[i].name>>
    BY <1>9 DEF Says
  <2>4. OnlyValue(data, "gamename", <<turn[i].name>>)
    BY <1>2, <2>2, <2>3, KeysAre, OnlySays
  <2> QED
    BY <1>1, <2>4, OneGame
<1>10. ASSUME NEW i \in DOMAIN turn, turn[i].type = "validate" PROVE GameToValidate(data) = turn[i].name
  <2>1. CASE \E k \in DOMAIN turn : turn[k].type = "list"
    BY <1>8, <1>10, <2>1
  <2>2. CASE ~ \E k \in DOMAIN turn : turn[k].type = "list"
    <3>1. \A k \in DOMAIN turn : turn[k].type \in {"validate", "list"} => k = i
      BY <1>10, <2>2 DEF Separate
    <3> QED
      BY <1>9, <1>10, <3>1
  <2> QED
    BY <2>1, <2>2
<1>11. ASSUME NEW k \in DOMAIN turn, turn[k].type = "list"
       PROVE  Word(Value(data, "gamename", << >>)) = turn[k].name
  <2>1. CASE \E i \in DOMAIN turn : turn[i].type = "validate"
    BY <1>8, <1>11, <2>1
  <2>2. CASE ~ \E i \in DOMAIN turn : turn[i].type = "validate"
    <3>1. \A i \in DOMAIN turn : turn[i].type \in {"validate", "list"} => i = k
      BY <1>11, <2>2 DEF Separate
    <3> QED
      BY <1>9, <1>11, <3>1
  <2> QED
    BY <2>1, <2>2
<1>12. ASSUME HasKey(data, "echo") PROVE Value(data, "echo", << >>) \in Seq(Words)
  <2>1. <<"echo">> # <<"gamename">>
    OBVIOUS
  <2> DEFINE V == Seq(Words)
  <2>2. \A i \in 1 .. Len(data) : data[i].key = <<"echo">> => data[i].value \in V
    BY <1>3, <2>1
  <2> HIDE DEF V
  <2>3. Value(data, "echo", << >>) \in V
    BY <1>1, <1>12, <2>2, ValueIn
  <2> QED
    BY <2>3 DEF V
<1> QED
  BY <1>5, <1>6, <1>7, <1>10, <1>11, <1>12 DEF Finds, InTurn

LEMMA TurnFinds ==
    ASSUME NEW turn \in Seq(Request), \A i \in DOMAIN turn : Meant(turn[i]), Separate(turn),
           NEW data, data = ParseGameSpy0Buffer(TurnText(turn))
    PROVE  Finds(data, turn)
<1>1. PICK S : data \in Seq(S)
  BY TurnParsed
<1>2. PICK off : TurnSays(data, off, turn)
  BY TurnParsed
<1>3. \A i \in 1 .. Len(data) : data[i].key # <<"gamename">> => data[i].value \in Seq(Words)
  BY TurnParsed
<1>4. \A i \in DOMAIN turn : turn[i] \in Request /\ Meant(turn[i])
  BY AsksOfTurn
<1> QED
  BY <1>1, <1>2, <1>3, <1>4, FindsWhatIsSaid
-----------------------------------------------------------------------------
(* What is written.                                                        *)

IsText(s) == \E S : s \in Seq(S)

LEMMA TextJoined ==
    ASSUME NEW a, NEW b, IsText(a), IsText(b)
    PROVE  /\ IsText(a \o b)
           /\ a \o b = << >> <=> a = << >> /\ b = << >>
<1>1. PICK S : a \in Seq(S)
  BY DEF IsText
<1>2. PICK T : b \in Seq(T)
  BY DEF IsText
<1> DEFINE U == S \cup T
<1>3. a \in Seq(U) /\ b \in Seq(U)
  <2>1. S \subseteq U /\ T \subseteq U
    OBVIOUS
  <2> HIDE DEF U
  <2> QED
    BY <1>1, <1>2, <2>1, SeqMonotonic
<1> HIDE DEF U
<1> DEFINE c == a \o b
<1>4. Len(a) \in Nat /\ Len(b) \in Nat /\ Len(c) = Len(a) + Len(b) /\ c \in Seq(U)
  BY <1>3, ConcatItems
<1> HIDE DEF c
<1>5. (a = << >> <=> Len(a) = 0) /\ (b = << >> <=> Len(b) = 0) /\ (c = << >> <=> Len(c) = 0)
  BY <1>3, <1>4, EmptySeq
<1>6. c = << >> <=> a = << >> /\ b = << >>
  BY <1>4, <1>5
<1> QED
  BY <1>4, <1>6 DEF IsText, c

\* A handler of which the write buffer is a text.
Sound(h) == Shape(h) /\ IsText(h.out)

LEMMA SoundFields ==
    ASSUME NEW h, Sound(h)
    PROVE  /\ h.state \in SocketState /\ h.hasValidated \in Bit /\ h.requestEnctype2 \in Bit
           /\ IsText(h.served)
  BY DEF Sound, Shape, IsText

LEMMA DisconnectView ==
    ASSUME NEW h, Sound(h)
    PROVE  LET k == Disconnect(h)
           IN  /\ Sound(k) /\ k.rxBuffer = h.rxBuffer /\ k.hasValidated = h.hasValidated
               /\ k.requestEnctype2 = h.requestEnctype2 /\ k.out = h.out /\ k.served = h.served
               /\ k.state # "open" /\ (h.state = "closed" => k.state = "closed")
               /\ h.out = << >> => k.state = "closed"
               /\ h.out # << >> /\ h.state # "closed" => k.state = "closing"
<1>1. PICK R, O, E : h \in [state : SocketState, timer : Timer, rxBuffer : R, hasValidated : Bit,
                            requestEnctype2 : Bit, out : O, served : Seq(E)]
  BY DEF Shape, Sound
<1> DEFINE k == Disconnect(h)
<1>2. /\ k.rxBuffer = h.rxBuffer /\ k.hasValidated = h.hasValidated
      /\ k.requestEnctype2 = h.requestEnctype2 /\ k.out = h.out /\ k.served = h.served
      /\ k.state # "open" /\ (h.state = "closed" => k.state = "closed")
      /\ h.out = << >> => k.state = "closed"
      /\ h.out # << >> /\ h.state # "closed" => k.state = "closing"
  BY <1>1 DEF Disconnect, SocketState
<1>3. Shape(k)
  BY DisconnectCloses DEF Sound
<1> HIDE DEF k
<1>4. Sound(k)
  BY <1>2, <1>3 DEF Sound
<1> QED
  BY <1>2, <1>4 DEF k

LEMMA WriteView ==
    ASSUME NEW h, Sound(h), NEW text, IsText(text), text # << >>, NEW entry, h.state # "closed"
    PROVE  LET k == Write(h, text, entry)
           IN  /\ Sound(k) /\ k.rxBuffer = h.rxBuffer /\ k.hasValidated = h.hasValidated
               /\ k.requestEnctype2 = h.requestEnctype2 /\ k.out # << >> /\ k.state = h.state
               /\ k.served = Append(h.served, entry)
<1>1. PICK R, O, E : h \in [state : SocketState, timer : Timer, rxBuffer : R, hasValidated : Bit,
                            requestEnctype2 : Bit, out : O, served : Seq(E)]
  BY DEF Shape, Sound
<1> DEFINE k == Write(h, text, entry)
           more == h.out \o text
           s == Append(h.served, entry)
<1>2. IsText(more) /\ more # << >>
  BY TextJoined DEF Sound
<1> HIDE DEF more, s
<1>3. k = [h EXCEPT !.out = more, !.served = s]
  BY <1>1 DEF Write, more, s
<1> HIDE DEF k
<1>4. /\ k.rxBuffer = h.rxBuffer /\ k.hasValidated = h.hasValidated
      /\ k.requestEnctype2 = h.requestEnctype2 /\ k.out = more /\ k.state = h.state /\ k.served = s
  BY <1>1, <1>3
<1>5. Shape(k)
  BY WriteAppends DEF Sound, k
<1>6. Sound(k)
  BY <1>2, <1>4, <1>5 DEF Sound
<1> QED
  BY <1>2, <1>4, <1>6 DEF k, s

\* What changes neither the requests nor the answers of a closed connection.
Ended(h, k) == Sound(k) /\ k.state = "closed" /\ k.served = h.served /\ k.rxBuffer = h.rxBuffer

LEMMA ClosedView ==
    ASSUME NEW h, NEW data, Sound(h), h.state = "closed"
    PROVE  /\ Ended(h, Disconnect(h)) /\ Ended(h, ServeList(h, data))
           /\ Ended(h, ServeSync(h, data)) /\ Ended(h, ServeEcho(h, data))
<1>1. \A text, entry : Write(h, text, entry) = h
  BY DEF Write
<1>2. Ended(h, Disconnect(h)) /\ Ended(h, h)
  BY DisconnectView DEF Ended
<1>3. ServeList(h, data) = Disconnect(h)
  BY <1>1, Zenon DEF ServeList
<1>4. ServeSync(h, data) = Disconnect(h)
  BY <1>1, Zenon DEF ServeSync
<1>5. ServeEcho(h, data) = h
  BY <1>1, Zenon DEF ServeEcho
<1> QED
  BY <1>2, <1>3, <1>4, <1>5

LEMMA FinalText == IsText(Final) /\ Final # << >>
<1>1. Final \in Seq({Backslash, "final"}) /\ Len(Final) = 3
  BY DEF Final
<1>2. Final # << >>
  BY <1>1, EmptySeq
<1> QED
  BY <1>1, <1>2 DEF IsText

LEMMA AddressesAreText ==
    ASSUME serverlist \in Table, NEW ids
    PROVE  \E A : Addresses(ids) \in Seq(A)
<1> DEFINE rows == Pick(serverlist, ids)
           A == {AddressText[rows[i].addr] : i \in 1 .. Len(rows)}
           list == Addresses(ids)
<1>1. rows \in Seq(Row)
  BY PickMembers DEF Table
<1>2. list = [i \in DOMAIN rows |-> AddressText[rows[i].addr]]
  BY DEF Addresses
<1> HIDE DEF list, rows
<1>3. Len(rows) \in Nat /\ DOMAIN rows = 1 .. Len(rows)
  BY <1>1, LenProperties
<1>4. list \in [1 .. Len(rows) -> A]
  BY <1>2, <1>3
<1> HIDE DEF A
<1>5. list \in Seq(A)
  BY <1>3, <1>4, FunctionIsSeq
<1> QED
  BY <1>5 DEF list

\* A flattened sequence of texts over one alphabet.
LEMMA FlattenedText ==
    ASSUME NEW n \in Nat, NEW S, NEW f, f = [i \in 1 .. n |-> f[i]], \A i \in 1 .. n : f[i] \in Seq(S)
    PROVE  IsText(FlattenSeq(f))
<1> DEFINE V == Seq(S)
<1>1. f \in [1 .. n -> V]
  OBVIOUS
<1> HIDE DEF V
<1>2. f \in Seq(V)
  BY <1>1, FunctionIsSeq
<1>3. FlattenSeq(f) \in Seq(S)
  BY <1>2, FlattenTyped DEF V
<1> QED
  BY <1>3 DEF IsText

LEMMA ListText ==
    ASSUME serverlist \in Table, NEW game, NEW cmp
    PROVE  /\ IsText(CompileServerlist(game, cmp)) /\ CompileServerlist(game, cmp) # << >>
           /\ IsText(Encrypt(CompileServerlist(game, cmp))) /\ Encrypt(CompileServerlist(game, cmp)) # << >>
<1> DEFINE ids == SelectServerList(serverlist, game, Ttl, 1, Now)
           list == Addresses(ids)
           f == [i \in DOMAIN list |-> <<Backslash, "ip", Backslash, list[i]>>]
           text == CompileServerlist(game, cmp)
           body == IF cmp THEN list ELSE FlattenSeq(f)
<1>1. PICK A : list \in Seq(A)
  <2> HIDE DEF ids
  <2> QED
    BY AddressesAreText
<1>2. text = body \o Final
  BY DEF CompileServerlist
<1> HIDE DEF list
<1>3. Len(list) \in Nat /\ DOMAIN list = 1 .. Len(list) /\ \A i \in 1 .. Len(list) : list[i] \in A
  BY <1>1, LenProperties, ElementOfSeq
<1>4. IsText(FlattenSeq(f))
  <2> DEFINE S == A \cup {Backslash, "ip"}
  <2>1. f = [i \in 1 .. Len(list) |-> f[i]]
    BY <1>3
  <2>2. \A i \in 1 .. Len(list) : f[i] \in Seq(S)
    BY <1>3
  <2> HIDE DEF f, S
  <2> QED
    BY <1>3, <2>1, <2>2, FlattenedText
<1>5. IsText(body)
  BY <1>1, <1>4 DEF IsText
<1> HIDE DEF body, text, f
<1>6. IsText(text) /\ text # << >>
  BY <1>2, <1>5, FinalText, TextJoined
<1>7. IsText(<<"#">>) /\ <<"#">> # << >>
  <2>1. <<"#">> \in Seq({"#"}) /\ Len(<<"#">>) = 1
    OBVIOUS
  <2>2. <<"#">> # << >>
    BY <2>1, EmptySeq
  <2> QED
    BY <2>1, <2>2 DEF IsText
<1>8. IsText(Encrypt(text)) /\ Encrypt(text) # << >>
  BY <1>6, <1>7, TextJoined DEF Encrypt
<1> QED
  BY <1>6, <1>8 DEF text

LEMMA SyncText ==
    ASSUME serverlist \in Table, NEW games, IsText(games)
    PROVE  IsText(CompileSyncList(games)) /\ CompileSyncList(games) # << >>
<1> DEFINE addr(i) == Addresses(SelectServerList(serverlist, games[i], Ttl, 0, Now))
           f == [i \in DOMAIN games |-> <<Backslash, games[i], Backslash>> \o addr(i)]
           text == CompileSyncList(games)
<1>1. text = FlattenSeq(f) \o Final
  BY DEF CompileSyncList
<1>2. PICK G : games \in Seq(G)
  BY DEF IsText
<1> DEFINE n == Len(games)
<1>3. n \in Nat /\ DOMAIN games = 1 .. n /\ \A i \in 1 .. n : games[i] \in G
  BY <1>2, LenProperties, ElementOfSeq
<1> DEFINE rows(i) == Pick(serverlist, SelectServerList(serverlist, games[i], Ttl, 0, Now))
           A == {AddressText[a] : a \in Address}
           S == A \cup G \cup {Backslash}
<1>4. ASSUME NEW i \in 1 .. n PROVE addr(i) \in Seq(A)
  <2>1. rows(i) \in Seq(Row)
    BY PickMembers DEF Table
  <2>2. addr(i) = [j \in DOMAIN rows(i) |-> AddressText[rows(i)[j].addr]]
    BY DEF Addresses
  <2> HIDE DEF rows, addr
  <2>3. Len(rows(i)) \in Nat /\ DOMAIN rows(i) = 1 .. Len(rows(i))
        /\ \A j \in 1 .. Len(rows(i)) : rows(i)[j] \in Row
    BY <2>1, LenProperties, ElementOfSeq
  <2>4. \A j \in 1 .. Len(rows(i)) : AddressText[rows(i)[j].addr] \in A
    BY <2>3 DEF Row
  <2> HIDE DEF A
  <2>5. addr(i) \in [1 .. Len(rows(i)) -> A]
    BY <2>2, <2>3, <2>4
  <2> QED
    BY <2>3, <2>5, FunctionIsSeq
<1> HIDE DEF addr, A
<1>5. ASSUME NEW i \in 1 .. n PROVE <<Backslash, games[i], Backslash>> \o addr(i) \in Seq(S)
  <2>1. <<Backslash, games[i], Backslash>> \in Seq(S)
    BY <1>3
  <2>2. A \subseteq S
    OBVIOUS
  <2>3. addr(i) \in Seq(S)
    BY <1>4, <2>2, SeqMonotonic
  <2> HIDE DEF S
  <2> QED
    BY <2>1, <2>3, ConcatProperties
<1>6. IsText(FlattenSeq(f))
  <2>1. f = [i \in 1 .. n |-> f[i]]
    BY <1>3
  <2>2. \A i \in 1 .. n : f[i] \in Seq(S)
    BY <1>3, <1>5
  <2> HIDE DEF f, S, n
  <2> QED
    BY <1>3, <2>1, <2>2, FlattenedText
<1> HIDE DEF f, text
<1> QED
  BY <1>1, <1>6, FinalText, TextJoined DEF text

\* The games of a sync request.
SyncGamesOf(u) ==
    IF u = <<"all">> THEN SetToSeq(ActiveGames(serverlist, Ttl, Now))
    ELSE Pick(u, {i \in DOMAIN u : u[i] \in SupportedGames})

LEMMA GamesAsked ==
    ASSUME NEW W, NEW u \in Seq(W), \A i \in DOMAIN u : u[i] \notin DOMAIN LowerCase \cup DOMAIN ValidGamenames,
           serverlist \in Table, NEW data, Value(data, "sync", << >>) = u
    PROVE  GamesToSync(data) = SyncGamesOf(u) /\ IsText(SyncGamesOf(u))
<1> DEFINE named == [i \in DOMAIN u |-> Word(OverrideGamename(<<u[i]>>))]
           active == ActiveGames(serverlist, Ttl, Now)
           ids == {i \in DOMAIN u : u[i] \in SupportedGames}
<1>1. u = [i \in DOMAIN u |-> u[i]]
  OBVIOUS
<1>2. ToLower(u) = u
  BY <1>1 DEF ToLower
<1>3. ASSUME NEW i \in DOMAIN u PROVE Word(OverrideGamename(<<u[i]>>)) = u[i]
  <2> DEFINE g == u[i]
  <2>1. g \notin DOMAIN LowerCase /\ g \notin DOMAIN ValidGamenames
    OBVIOUS
  <2> HIDE DEF g
  <2>2. ToLower(<<g>>) = <<g>>
    BY <2>1 DEF ToLower
  <2>3. OverrideGamename(<<g>>) = <<g>>
    BY <2>1, <2>2 DEF OverrideGamename
  <2> QED
    BY <2>3, WordOne DEF g
<1>4. named = u
  BY <1>1, <1>3
<1> HIDE DEF named, active
<1>5. GamesToSync(data) = IF u = <<"all">> THEN SetToSeq(active) ELSE Pick(u, ids)
  <2>1. GamesToSync(data) = IF u = <<"all">> THEN SetToSeq(active)
                            ELSE Pick(named, {i \in DOMAIN named : named[i] \in SupportedGames})
    BY <1>2, Zenon DEF GamesToSync, named, active
  <2> QED
    BY <1>4, <2>1
<1>6. IsText(SetToSeq(active))
  <2>1. IsFiniteSet(active)
    BY ActiveGamesFinite DEF active
  <2>2. Lists(SetToSeq(active), active)
    BY <2>1, SetToSeqLists
  <2> QED
    BY <2>2 DEF Lists, IsText
<1>7. IsText(Pick(u, ids))
  <2> HIDE DEF ids
  <2>1. Pick(u, ids) \in Seq(W)
    BY PickMembers
  <2> QED
    BY <2>1 DEF IsText
<1> QED
  BY <1>5, <1>6, <1>7 DEF SyncGamesOf, active

\* An entry is added to what was served, and the connection ends.
Closing(h, k, entry) ==
    /\ Sound(k) /\ k.state = "closing" /\ k.out # << >> /\ k.served = Append(h.served, entry)
    /\ k.rxBuffer = h.rxBuffer /\ k.hasValidated = h.hasValidated
    /\ k.requestEnctype2 = h.requestEnctype2

LEMMA ClosingWrite ==
    ASSUME NEW h, Sound(h), NEW text, IsText(text), text # << >>, NEW entry, h.state # "closed"
    PROVE  Closing(h, Disconnect(Write(h, text, entry)), entry)
<1> DEFINE w == Write(h, text, entry)
<1>1. /\ Sound(w) /\ w.rxBuffer = h.rxBuffer /\ w.hasValidated = h.hasValidated
      /\ w.requestEnctype2 = h.requestEnctype2 /\ w.out # << >> /\ w.state = h.state
      /\ w.served = Append(h.served, entry)
  BY WriteView
<1> HIDE DEF w
<1>2. Closing(h, Disconnect(w), entry)
  BY <1>1, DisconnectView DEF Closing
<1> QED
  BY <1>2 DEF w

ListOf(h, data) == [type |-> "list", games |-> <<Word(Value(data, "gamename", << >>))>>,
                    enctype2 |-> h.requestEnctype2]

LEMMA ServeListView ==
    ASSUME NEW h, NEW data, Sound(h), h.state # "closed", serverlist \in Table
    PROVE  Closing(h, ServeList(h, data), ListOf(h, data))
<1> DEFINE game == Word(Value(data, "gamename", << >>))
           list == CompileServerlist(game, ToLower(Value(data, "list", << >>)) = <<"cmp">>)
           text == IF h.requestEnctype2 = 1 THEN Encrypt(list) ELSE list
<1>1. ServeList(h, data) = Disconnect(Write(h, text, ListOf(h, data)))
  BY DEF ServeList, ListOf
<1>2. IsText(text) /\ text # << >>
  <2>1. IsText(list) /\ list # << >> /\ IsText(Encrypt(list)) /\ Encrypt(list) # << >>
    BY ListText
  <2> HIDE DEF list
  <2> QED
    BY <2>1
<1> HIDE DEF text
<1> QED
  BY <1>1, <1>2, ClosingWrite

SelfEntry == [type |-> "self", games |-> << >>, enctype2 |-> 0]
SyncEntry(games) == [type |-> "sync", games |-> games, enctype2 |-> 0]

LEMMA ServeSyncView ==
    ASSUME NEW h, NEW data, Sound(h), h.state # "closed", serverlist \in Table,
           NEW games, games = GamesToSync(data), IsText(games)
    PROVE  Closing(h, ServeSync(h, data), IF Value(data, "msid", << >>) = <<Identity>>
                                          THEN SelfEntry ELSE SyncEntry(games))
<1>1. CASE Value(data, "msid", << >>) = <<Identity>>
  <2>1. ServeSync(h, data) = Disconnect(Write(h, Final, SelfEntry))
    BY <1>1 DEF ServeSync, SelfEntry
  <2> QED
    BY <1>1, <2>1, FinalText, ClosingWrite
<1>2. CASE Value(data, "msid", << >>) # <<Identity>>
  <2>1. ServeSync(h, data) = Disconnect(Write(h, CompileSyncList(games), SyncEntry(games)))
    BY <1>2 DEF ServeSync, SyncEntry
  <2>2. IsText(CompileSyncList(games)) /\ CompileSyncList(games) # << >>
    BY SyncText
  <2> QED
    BY <1>2, <2>1, <2>2, ClosingWrite
<1> QED
  BY <1>1, <1>2

EchoEntry == [type |-> "echo", games |-> << >>, enctype2 |-> 0]

LEMMA ServeEchoView ==
    ASSUME NEW h, NEW data, Sound(h), h.state # "closed", HasKey(data, "echo"),
           IsText(Value(data, "echo", << >>))
    PROVE  LET k == ServeEcho(h, data)
           IN  /\ Sound(k) /\ k.rxBuffer = h.rxBuffer /\ k.hasValidated = h.hasValidated
               /\ k.requestEnctype2 = h.requestEnctype2 /\ k.out # << >> /\ k.state = h.state
               /\ k.served = Append(h.served, EchoEntry)
<1> DEFINE head == <<Backslash, "echo_reply", Backslash>>
           text == head \o Value(data, "echo", << >>)
<1>1. ServeEcho(h, data) = Write(h, text, EchoEntry)
  BY DEF ServeEcho, EchoEntry
<1>2. IsText(head) /\ head # << >>
  <2>1. head \in Seq({Backslash, "echo_reply"}) /\ Len(head) = 3
    OBVIOUS
  <2> HIDE DEF head
  <2>2. head # << >>
    BY <2>1, EmptySeq
  <2> QED
    BY <2>1, <2>2 DEF IsText
<1> HIDE DEF head
<1>3. IsText(text) /\ text # << >>
  BY <1>2, TextJoined
<1> HIDE DEF text
<1> QED
  BY <1>1, <1>3, WriteView
-----------------------------------------------------------------------------
(* One turn is answered with what it asks for.                             *)

AnswerIn(turn) == turn[CHOOSE i \in InTurn(turn, "validate") : TRUE]
PassedIn(turn) == InTurn(turn, "validate") # {} /\ RightAnswer(AnswerIn(turn))

ValidatedBy(turn, o) == o.validated \/ PassedIn(turn)
EncryptedBy(turn, o) ==
    IF InTurn(turn, "validate") # {} THEN AnswerIn(turn).enctype2 ELSE o.enctype2

ListFor(turn, o) == [type |-> "list", enctype2 |-> EncryptedBy(turn, o),
                     games |-> <<turn[CHOOSE i \in InTurn(turn, "list") : TRUE].name>>]
SyncFor(turn) == AskedSync(turn[CHOOSE i \in InTurn(turn, "sync") : TRUE])
Ourself(turn) == \E i \in InTurn(turn, "sync") : turn[i].msid = Identity

ListsFor(turn, o) == IF ValidatedBy(turn, o) /\ InTurn(turn, "list") # {} THEN <<ListFor(turn, o)>> ELSE << >>
SyncsFor(turn, o) == IF ValidatedBy(turn, o) /\ InTurn(turn, "sync") # {} THEN <<SyncFor(turn)>> ELSE << >>
EchosFor(turn) == IF InTurn(turn, "echo") = {} \/ Ourself(turn) THEN << >> ELSE <<EchoEntry>>

RefusedBy(turn, o) ==
    \/ InTurn(turn, "validate") # {} /\ ~PassedIn(turn)
    \/ ~ValidatedBy(turn, o) /\ InTurn(turn, "list") \cup InTurn(turn, "sync") # {}

LEMMA ExpectedFields ==
    ASSUME NEW turn, NEW o, o.open
    PROVE  Expected(turn, o) =
             [validated |-> ValidatedBy(turn, o), enctype2 |-> EncryptedBy(turn, o),
              open |-> /\ ~RefusedBy(turn, o) /\ InTurn(turn, "list") \cup InTurn(turn, "sync") = {}
                       /\ InTurn(turn, "validate") \cup InTurn(turn, "echo") # {},
              served |-> IF RefusedBy(turn, o) THEN o.served
                         ELSE ((o.served \o ListsFor(turn, o)) \o SyncsFor(turn, o)) \o EchosFor(turn)]
  BY DEF Expected, ValidatedBy, EncryptedBy, RefusedBy, ListsFor, SyncsFor, EchosFor, PassedIn,
         AnswerIn, ListFor, SyncFor, Ourself, EchoEntry

\* What the handler has of the conversation before a turn.
Ready(h, o) ==
    /\ Sound(h) /\ h.state = "open" /\ o.open = TRUE /\ o.validated \in BOOLEAN
    /\ h.hasValidated = 1 <=> o.validated
    /\ h.requestEnctype2 = o.enctype2 /\ h.served = o.served

\* A wrong answer comes alone when the write buffer may not be empty.
Refusable(h, turn) ==
    h.out # << >> /\ InTurn(turn, "validate") # {} /\ ~PassedIn(turn)
        => InTurn(turn, "list") = {} /\ InTurn(turn, "sync") = {} /\ InTurn(turn, "echo") = {}

LEMMA AppendNone == ASSUME NEW s, IsText(s) PROVE s \o << >> = s
  BY ConcatEmptySeq DEF IsText

LEMMA AppendEntry == ASSUME NEW s, IsText(s), NEW e PROVE s \o <<e>> = Append(s, e) /\ IsText(Append(s, e))
<1>1. PICK S : s \in Seq(S)
  BY DEF IsText
<1> DEFINE U == S \cup {e}
<1>2. s \in Seq(U) /\ e \in U
  BY <1>1, SeqMonotonic
<1> HIDE DEF U
<1>3. Append(s, e) = s \o <<e>> /\ Append(s, e) \in Seq(U)
  BY <1>2, AppendIsConcat, AppendProperties
<1> QED
  BY <1>3 DEF IsText

LEMMA OnlyIn ==
    ASSUME NEW turn, Separate(turn), NEW type \in {"validate", "list", "sync"}, NEW i \in InTurn(turn, type)
    PROVE  (CHOOSE j \in InTurn(turn, type) : TRUE) = i
<1>1. ASSUME NEW j \in InTurn(turn, type) PROVE j = i
  BY DEF InTurn, Separate
<1> QED
  BY <1>1

\* The answer is held against the cipher of the game that it is sent for.
LEMMA PassesRight ==
    ASSUME NEW turn, Separate(turn), NEW data, Finds(data, turn), InTurn(turn, "validate") # {},
           \A i \in InTurn(turn, "validate") :
               ~RightAnswer(turn[i]) => ~Accepted(turn[i].answer, turn[i].name)
    PROVE  /\ Passes(data) <=> PassedIn(turn)
           /\ WantsEnctype2(data) = AnswerIn(turn).enctype2
<1>1. PICK i \in InTurn(turn, "validate") : TRUE
  OBVIOUS
<1> DEFINE r == turn[i]
<1>2. AnswerIn(turn) = r
  BY OnlyIn DEF AnswerIn
<1>3. /\ Word(Value(data, "validate", << >>)) = r.answer /\ GameToValidate(data) = r.name
      /\ WantsEnctype2(data) = r.enctype2
  BY DEF Finds
<1>4. Passes(data) <=> Accepted(r.answer, r.name)
  BY <1>3 DEF Passes, Accepted
<1>5. ~RightAnswer(r) => ~Accepted(r.answer, r.name)
  OBVIOUS
<1> HIDE DEF r
<1>6. ASSUME RightAnswer(r) PROVE Accepted(r.answer, r.name)
  <2>1. CASE r.name \in OverrideClient
    BY <1>6, <2>1 DEF RightAnswer, Accepted, ValidateGamename
  <2>2. CASE r.name \in DOMAIN Cipher /\ r.answer = Cipher[r.name]
    <3>1. AnswerOf(r.answer) = GenerateValidateString(r.answer, Challenge)
      BY <2>2 DEF AnswerOf
    <3>2. ReturnValidate(r.name, Challenge) = GenerateValidateString(Cipher[r.name], Challenge)
      BY <2>2 DEF ReturnValidate, Challenge, NoSecure
    <3>3. AnswerOf(r.answer) = ReturnValidate(r.name, Challenge)
      BY <2>2, <3>1, <3>2
    <3> QED
      BY <1>6, <3>3 DEF RightAnswer, Accepted, ValidateGamename
  <2> QED
    BY <1>6, <2>1, <2>2 DEF RightAnswer
<1>7. PassedIn(turn) <=> RightAnswer(r)
  BY <1>2 DEF PassedIn
<1> QED
  BY <1>2, <1>3, <1>4, <1>5, <1>6, <1>7

\* What is left of the handler after the answer to the challenge.
LEMMA ValidateAnswers ==
    ASSUME NEW h, NEW o, Ready(h, o), NEW turn, Separate(turn), NEW data, Finds(data, turn),
           \A i \in InTurn(turn, "validate") :
               ~RightAnswer(turn[i]) => ~Accepted(turn[i].answer, turn[i].name)
    PROVE  LET k == Validate(h, data)
           IN  /\ Sound(k) /\ k.served = h.served /\ k.rxBuffer = h.rxBuffer /\ k.out = h.out
               /\ InTurn(turn, "validate") # {} /\ ~PassedIn(turn) =>
                      /\ k.state # "open"
                      /\ h.out = << >> => k.state = "closed"
               /\ InTurn(turn, "validate") = {} \/ PassedIn(turn) =>
                      /\ k.state = "open" /\ (k.hasValidated = 1 <=> ValidatedBy(turn, o))
                      /\ k.requestEnctype2 = EncryptedBy(turn, o)
<1> DEFINE asked == [h EXCEPT !.requestEnctype2 = WantsEnctype2(data)]
           passed == [asked EXCEPT !.hasValidated = 1]
<1>1. PICK R, O, E : h \in [state : SocketState, timer : Timer, rxBuffer : R, hasValidated : Bit,
                            requestEnctype2 : Bit, out : O, served : Seq(E)]
  BY DEF Shape, Sound, Ready
<1>2. WantsEnctype2(data) \in Bit /\ 1 \in Bit
  BY DEF WantsEnctype2, Bit
<1> HIDE DEF passed
<1>3. asked \in [state : SocketState, timer : Timer, rxBuffer : R, hasValidated : Bit,
                 requestEnctype2 : Bit, out : O, served : Seq(E)]
      /\ asked.rxBuffer = h.rxBuffer /\ asked.served = h.served /\ asked.hasValidated = h.hasValidated
      /\ asked.out = h.out /\ asked.state = h.state /\ asked.requestEnctype2 = WantsEnctype2(data)
  BY <1>1, <1>2
<1> HIDE DEF asked
<1>4. passed \in [state : SocketState, timer : Timer, rxBuffer : R, hasValidated : Bit,
                  requestEnctype2 : Bit, out : O, served : Seq(E)]
      /\ passed.rxBuffer = h.rxBuffer /\ passed.served = h.served /\ passed.hasValidated = 1
      /\ passed.out = h.out /\ passed.state = h.state /\ passed.requestEnctype2 = WantsEnctype2(data)
  BY <1>2, <1>3 DEF passed
<1>5. Sound(asked) /\ Sound(passed) /\ Sound(h)
  BY <1>3, <1>4 DEF Shape, Sound, Ready
<1>6. HasKey(data, "validate") <=> InTurn(turn, "validate") # {}
  BY DEF Finds, Kinds
<1>7. CASE InTurn(turn, "validate") = {}
  <2>1. Validate(h, data) = h
    BY <1>6, <1>7 DEF Validate
  <2>2. EncryptedBy(turn, o) = o.enctype2 /\ (ValidatedBy(turn, o) <=> o.validated)
    BY <1>7 DEF EncryptedBy, ValidatedBy, PassedIn
  <2> QED
    BY <1>5, <1>7, <2>1, <2>2 DEF Ready
<1>8. CASE InTurn(turn, "validate") # {} /\ PassedIn(turn)
  <2>1. Passes(data) /\ WantsEnctype2(data) = AnswerIn(turn).enctype2
    BY <1>8, PassesRight
  <2>2. Validate(h, data) = passed
    BY <1>6, <1>8, <2>1 DEF Validate, passed, asked
  <2>3. EncryptedBy(turn, o) = AnswerIn(turn).enctype2 /\ ValidatedBy(turn, o)
    BY <1>8 DEF EncryptedBy, ValidatedBy
  <2> QED
    BY <1>4, <1>5, <1>8, <2>1, <2>2, <2>3 DEF Ready
<1>9. CASE InTurn(turn, "validate") # {} /\ ~PassedIn(turn)
  <2>1. ~Passes(data)
    BY <1>9, PassesRight
  <2>2. Validate(h, data) = Disconnect(asked)
    BY <1>6, <1>9, <2>1 DEF Validate, asked
  <2>3. /\ Sound(Disconnect(asked)) /\ Disconnect(asked).rxBuffer = asked.rxBuffer
        /\ Disconnect(asked).out = asked.out /\ Disconnect(asked).served = asked.served
        /\ Disconnect(asked).state # "open"
        /\ asked.out = << >> => Disconnect(asked).state = "closed"
    BY <1>5, DisconnectView
  <2> QED
    BY <1>3, <1>9, <2>2, <2>3
<1> QED
  BY <1>7, <1>8, <1>9

\* A request is processed as a whole: what was served is what the turn asks for.
Answered(h, k, turn, o) ==
    /\ Sound(k) /\ k.rxBuffer = h.rxBuffer /\ k.served = Expected(turn, o).served
    /\ k.state = "open" =>
           /\ Ready(k, Expected(turn, o))
           /\ k.out = << >> \/ h.out # << >> \/ InTurn(turn, "echo") # {}

\* A step of the slot that serves something and leaves the rest of the handler.
Stage(h, k, served) ==
    /\ Sound(k) /\ k.state # "closed" /\ k.served = served /\ k.rxBuffer = h.rxBuffer
    /\ k.hasValidated = h.hasValidated /\ k.requestEnctype2 = h.requestEnctype2

LEMMA StageSync ==
    ASSUME NEW turn \in Seq(Request), \A i \in DOMAIN turn : Meant(turn[i]), Separate(turn),
           NEW data, Finds(data, turn), InTurn(turn, "sync") # {},
           serverlist = InitialList, serverlist \in Table,
           NEW h, Sound(h), h.state # "closed"
    PROVE  /\ Closing(h, ServeSync(h, data), SyncFor(turn))
           /\ Value(data, "msid", << >>) = <<Identity>> <=> Ourself(turn)
<1>1. PICK i \in InTurn(turn, "sync") : TRUE
  OBVIOUS
<1> DEFINE r == turn[i]
           u == r.games
           games == GamesToSync(data)
<1>2. SyncFor(turn) = AskedSync(r)
  <2>1. (CHOOSE j \in InTurn(turn, "sync") : TRUE) = i
    BY OnlyIn
  <2> QED
    BY <2>1 DEF SyncFor
<1>3. /\ Value(data, "sync", << >>) = u /\ Value(data, "msid", << >>) = <<r.msid>>
  BY DEF Finds
<1>4. r \in Request /\ Meant(r) /\ r.type = "sync"
  BY ElementOfSeq DEF InTurn
<1>5. u \in Seq(GameName \cup {"all"})
  BY <1>4 DEF Request
<1>6. \A j \in DOMAIN u : u[j] \notin DOMAIN LowerCase \cup DOMAIN ValidGamenames
  BY <1>4 DEF Meant
<1>7. \A j \in InTurn(turn, "sync") : j = i
  BY DEF InTurn, Separate
<1>8. Ourself(turn) <=> r.msid = Identity
  BY <1>7 DEF Ourself
<1> HIDE DEF r
<1>9. Value(data, "msid", << >>) = <<Identity>> <=> r.msid = Identity
  BY <1>3
<1>10. games = SyncGamesOf(u) /\ IsText(SyncGamesOf(u))
  <2> HIDE DEF u
  <2> QED
    BY <1>3, <1>5, <1>6, GamesAsked
<1>11. AskedSync(r) = IF r.msid = Identity THEN SelfEntry ELSE SyncEntry(SyncGamesOf(u))
  BY DEF AskedSync, SelfEntry, SyncEntry, SyncGamesOf
<1> HIDE DEF games, u
<1>12. Closing(h, ServeSync(h, data), IF Value(data, "msid", << >>) = <<Identity>>
                                      THEN SelfEntry ELSE SyncEntry(games))
  BY <1>10, ServeSyncView DEF games
<1>13. Closing(h, ServeSync(h, data), SyncFor(turn))
  BY <1>2, <1>9, <1>10, <1>11, <1>12
<1> QED
  BY <1>8, <1>9, <1>13

LEMMA EndedOn ==
    ASSUME NEW h, NEW k, NEW l, Ended(h, k), Ended(k, l) PROVE Ended(h, l)
  BY DEF Ended

LEMMA ClosingStage ==
    ASSUME NEW h, NEW k, NEW e, NEW s, h.served = s, IsText(s), Closing(h, k, e)
    PROVE  Stage(h, k, s \o <<e>>) /\ k.state = "closing"
<1>1. Append(s, e) = s \o <<e>>
  BY AppendEntry
<1> QED
  BY <1>1 DEF Closing, Stage

\* After a wrong answer nothing is served.
LEMMA WrongAnswer ==
    ASSUME NEW h, NEW o, Ready(h, o), NEW turn, Separate(turn), NEW data, Finds(data, turn),
           Refusable(h, turn),
           \A i \in InTurn(turn, "validate") :
               ~RightAnswer(turn[i]) => ~Accepted(turn[i].answer, turn[i].name),
           InTurn(turn, "validate") # {}, ~PassedIn(turn)
    PROVE  LET k == Interaction(h, data)
           IN  Sound(k) /\ k.state # "open" /\ k.served = h.served /\ k.rxBuffer = h.rxBuffer
<1> DEFINE validated == Validate(h, data)
           listed == IF HasKey(data, "list") THEN ServeList(validated, data) ELSE validated
           synced == IF HasKey(data, "sync") THEN ServeSync(listed, data) ELSE listed
           echoed == ServeEcho(synced, data)
           refused == validated.hasValidated = 0 /\ (HasKey(data, "list") \/ HasKey(data, "sync"))
           self == HasKey(data, "sync") /\ Value(data, "msid", << >>) = <<Identity>>
           k == Interaction(h, data)
<1>1. k = IF refused THEN Disconnect(validated) ELSE IF self THEN synced
          ELSE IF Known(data) THEN echoed ELSE Disconnect(echoed)
  BY DEF Interaction
<1>2. /\ Sound(validated) /\ validated.served = h.served /\ validated.rxBuffer = h.rxBuffer
      /\ validated.state # "open" /\ (h.out = << >> => validated.state = "closed")
  BY ValidateAnswers
<1> HIDE DEF validated, k
<1>3. CASE h.out = << >>
  <2>1. Ended(validated, validated)
    BY <1>2, <1>3 DEF Ended
  <2>2. Ended(validated, Disconnect(validated))
    BY <1>2, <1>3, ClosedView
  <2>3. Ended(validated, listed)
    <3>1. Ended(validated, ServeList(validated, data))
      BY <1>2, <1>3, ClosedView
    <3> QED
      BY <2>1, <3>1
  <2> HIDE DEF listed
  <2>4. Ended(validated, synced)
    <3>1. Ended(listed, ServeSync(listed, data))
      BY <2>3, ClosedView DEF Ended
    <3> QED
      BY <2>3, <3>1, EndedOn
  <2> HIDE DEF synced
  <2>5. Ended(validated, echoed)
    <3>1. Ended(synced, ServeEcho(synced, data))
      BY <2>4, ClosedView DEF Ended
    <3> QED
      BY <2>4, <3>1, EndedOn
  <2> HIDE DEF echoed
  <2>6. Ended(validated, Disconnect(echoed))
    <3>1. Ended(echoed, Disconnect(echoed))
      BY <2>5, ClosedView DEF Ended
    <3> QED
      BY <2>5, <3>1, EndedOn
  <2>7. Ended(validated, k)
    BY <1>1, <2>2, <2>4, <2>5, <2>6
  <2> QED
    BY <1>2, <2>7 DEF Ended, k
<1>4. CASE h.out # << >>
  <2>1. InTurn(turn, "list") = {} /\ InTurn(turn, "sync") = {} /\ InTurn(turn, "echo") = {}
    BY <1>4 DEF Refusable
  <2>2. /\ ~HasKey(data, "list") /\ ~HasKey(data, "sync") /\ ~HasKey(data, "echo")
        /\ HasKey(data, "validate")
    BY <2>1 DEF Finds, Kinds
  <2>3. Known(data)
    BY <2>2 DEF Known
  <2>4. echoed = validated
    BY <2>2 DEF ServeEcho
  <2>5. k = validated
    BY <1>1, <2>2, <2>3, <2>4
  <2> QED
    BY <1>2, <2>5 DEF k
<1> QED
  BY <1>3, <1>4

LEMMA InteractionAnswers ==
    ASSUME NEW turn \in Seq(Request), \A i \in DOMAIN turn : Meant(turn[i]), Separate(turn),
           NEW data, Finds(data, turn), serverlist = InitialList, serverlist \in Table,
           NEW h, NEW o, Ready(h, o), Refusable(h, turn),
           \A i \in InTurn(turn, "validate") :
               ~RightAnswer(turn[i]) => ~Accepted(turn[i].answer, turn[i].name)
    PROVE  Answered(h, Interaction(h, data), turn, o)
<1> DEFINE v == Validate(h, data)
           listed == IF HasKey(data, "list") THEN ServeList(v, data) ELSE v
           synced == IF HasKey(data, "sync") THEN ServeSync(listed, data) ELSE listed
           echoed == ServeEcho(synced, data)
           refused == v.hasValidated = 0 /\ (HasKey(data, "list") \/ HasKey(data, "sync"))
           self == HasKey(data, "sync") /\ Value(data, "msid", << >>) = <<Identity>>
           k == Interaction(h, data)
           x == Expected(turn, o)
           L == InTurn(turn, "list")
           S == InTurn(turn, "sync")
           E == InTurn(turn, "echo")
           V == InTurn(turn, "validate")
<1>1. k = IF refused THEN Disconnect(v) ELSE IF self THEN synced
          ELSE IF Known(data) THEN echoed ELSE Disconnect(echoed)
  BY DEF Interaction
<1>2. /\ x.validated = ValidatedBy(turn, o) /\ x.enctype2 = EncryptedBy(turn, o)
      /\ x.open = (~RefusedBy(turn, o) /\ L \cup S = {} /\ V \cup E # {})
      /\ x.served = IF RefusedBy(turn, o) THEN o.served
                    ELSE ((o.served \o ListsFor(turn, o)) \o SyncsFor(turn, o)) \o EchosFor(turn)
  <2>1. o.open
    BY DEF Ready
  <2> DEFINE opens == /\ ~RefusedBy(turn, o) /\ L \cup S = {} /\ V \cup E # {}
             lists == ((o.served \o ListsFor(turn, o)) \o SyncsFor(turn, o)) \o EchosFor(turn)
             serves == IF RefusedBy(turn, o) THEN o.served ELSE lists
  <2>2. x = [validated |-> ValidatedBy(turn, o), enctype2 |-> EncryptedBy(turn, o),
             open |-> opens, served |-> serves]
    BY <2>1, ExpectedFields, Zenon
  <2> HIDE DEF x, opens, serves
  <2>3. /\ x.validated = ValidatedBy(turn, o) /\ x.enctype2 = EncryptedBy(turn, o)
        /\ x.open = opens /\ x.served = serves
    BY <2>2
  <2> QED
    BY <2>3 DEF opens, serves
<1>3. /\ HasKey(data, "list") <=> L # {}
      /\ HasKey(data, "sync") <=> S # {}
      /\ HasKey(data, "echo") <=> E # {}
      /\ HasKey(data, "validate") <=> V # {}
  BY DEF Finds, Kinds
<1>4. Sound(h) /\ h.state = "open" /\ h.served = o.served /\ IsText(o.served)
  BY SoundFields DEF Ready
<1>5. Sound(v) /\ v.served = h.served /\ v.rxBuffer = h.rxBuffer /\ v.out = h.out
  BY ValidateAnswers
<1>6. V = {} \/ PassedIn(turn) =>
          /\ v.state = "open" /\ (v.hasValidated = 1 <=> ValidatedBy(turn, o))
          /\ v.requestEnctype2 = EncryptedBy(turn, o)
  BY ValidateAnswers
<1> HIDE DEF x
<1>7. CASE V # {} /\ ~PassedIn(turn)
  <2>1. Sound(k) /\ k.state # "open" /\ k.served = h.served /\ k.rxBuffer = h.rxBuffer
    BY <1>7, WrongAnswer
  <2>2. RefusedBy(turn, o)
    BY <1>7 DEF RefusedBy
  <2> HIDE DEF k
  <2> QED
    BY <1>2, <1>4, <2>1, <2>2 DEF Answered, x, k
<1>8. CASE V = {} \/ PassedIn(turn)
  <2>1. /\ v.state = "open" /\ (v.hasValidated = 1 <=> ValidatedBy(turn, o))
        /\ v.requestEnctype2 = EncryptedBy(turn, o) /\ v.hasValidated \in Bit
    BY <1>5, <1>6, <1>8, SoundFields
  <2>2. RefusedBy(turn, o) <=> ~ValidatedBy(turn, o) /\ L \cup S # {}
    BY <1>8 DEF RefusedBy
  <2>3. refused <=> RefusedBy(turn, o)
    <3>1. v.hasValidated = 0 <=> ~ValidatedBy(turn, o)
      BY <2>1 DEF Bit
    <3> QED
      BY <1>3, <2>2, <3>1
  <2> HIDE DEF k, v, refused
  <2>4. CASE refused
    <3>1. k = Disconnect(v)
      BY <1>1, <2>4
    <3>2. Sound(k) /\ k.state # "open" /\ k.served = v.served /\ k.rxBuffer = v.rxBuffer
      BY <1>5, <3>1, DisconnectView
    <3> QED
      BY <1>2, <1>4, <1>5, <2>3, <2>4, <3>2 DEF Answered, x, k
  <2>5. CASE ~refused
    <3> DEFINE s1 == o.served \o ListsFor(turn, o)
               s2 == s1 \o SyncsFor(turn, o)
               s3 == s2 \o EchosFor(turn)
    <3>1. Stage(v, listed, s1) /\ (L = {} => listed = v) /\ (L # {} => listed.state = "closing")
      <4>1. CASE L = {}
        <5>1. listed = v /\ ListsFor(turn, o) = << >>
          BY <1>3, <4>1 DEF ListsFor
        <5>2. s1 = o.served
          BY <1>4, <5>1, AppendNone
        <5> HIDE DEF s1, listed
        <5> QED
          BY <1>4, <1>5, <2>1, <4>1, <5>1, <5>2 DEF Stage
      <4>2. CASE L # {}
        <5>1. listed = ServeList(v, data) /\ ListsFor(turn, o) = <<ListFor(turn, o)>>
          BY <1>3, <2>2, <2>3, <2>5, <4>2 DEF ListsFor
        <5>2. Closing(v, ServeList(v, data), ListOf(v, data))
          BY <1>5, <2>1, ServeListView
        <5>3. ListOf(v, data) = ListFor(turn, o)
          <6>1. PICK i \in L : TRUE
            BY <4>2
          <6>2. (CHOOSE j \in L : TRUE) = i
            BY OnlyIn
          <6>3. Word(Value(data, "gamename", << >>)) = turn[i].name
            BY DEF Finds
          <6> QED
            BY <2>1, <6>2, <6>3 DEF ListOf, ListFor
        <5> HIDE DEF listed
        <5> QED
          BY <1>4, <1>5, <4>2, <5>1, <5>2, <5>3, ClosingStage
      <4> QED
        BY <4>1, <4>2
    <3> HIDE DEF listed
    <3>2. IsText(s1)
      BY <3>1, SoundFields DEF Stage
    <3> HIDE DEF s1
    <3>3. Stage(v, synced, s2) /\ (S = {} => synced = listed) /\ (S # {} => synced.state = "closing")
      <4>1. CASE S = {}
        <5>1. synced = listed /\ SyncsFor(turn, o) = << >>
          BY <1>3, <4>1 DEF SyncsFor
        <5>2. s2 = s1
          BY <3>2, <5>1, AppendNone
        <5> HIDE DEF s2, synced
        <5> QED
          BY <3>1, <4>1, <5>1, <5>2
      <4>2. CASE S # {}
        <5>1. synced = ServeSync(listed, data) /\ SyncsFor(turn, o) = <<SyncFor(turn)>>
          BY <1>3, <2>2, <2>3, <2>5, <4>2 DEF SyncsFor
        <5>2. Closing(listed, ServeSync(listed, data), SyncFor(turn))
          BY <3>1, <4>2, StageSync DEF Stage
        <5>3. Stage(listed, synced, s1 \o <<SyncFor(turn)>>) /\ synced.state = "closing"
          BY <3>1, <3>2, <5>1, <5>2, ClosingStage DEF Stage
        <5> HIDE DEF synced
        <5> QED
          BY <3>1, <4>2, <5>1, <5>3 DEF Stage
      <4> QED
        BY <4>1, <4>2
    <3>4. self <=> Ourself(turn)
      <4>1. CASE S = {}
        BY <1>3, <4>1 DEF Ourself
      <4>2. CASE S # {}
        BY <1>3, <1>5, <2>1, <4>2, StageSync
      <4> QED
        BY <4>1, <4>2
    <3> HIDE DEF synced, self
    <3>5. IsText(s2)
      BY <3>3, SoundFields DEF Stage
    <3> HIDE DEF s2
    <3>6. x.served = s3 /\ v.rxBuffer = h.rxBuffer
      BY <1>2, <1>5, <2>3, <2>5 DEF s1, s2
    <3>7. CASE self
      <4>1. k = synced /\ EchosFor(turn) = << >>
        BY <1>1, <2>5, <3>4, <3>7 DEF EchosFor
      <4>2. s3 = s2
        BY <3>5, <4>1, AppendNone
      <4>3. S # {}
        BY <3>4, <3>7 DEF Ourself
      <4>4. synced.state = "closing"
        BY <3>3, <4>3
      <4> QED
        BY <3>3, <3>6, <4>1, <4>2, <4>4 DEF Answered, Stage, x, k
    <3>8. CASE ~self
      <4>1. Stage(v, echoed, s3) /\ echoed.state = synced.state /\ (E = {} => echoed = synced)
        <5>1. CASE E = {}
          <6>1. echoed = synced /\ EchosFor(turn) = << >>
            BY <1>3, <5>1 DEF EchosFor, ServeEcho
          <6>2. s3 = s2
            BY <3>5, <6>1, AppendNone
          <6> QED
            BY <3>3, <6>1, <6>2
        <5>2. CASE E # {}
          <6>1. EchosFor(turn) = <<EchoEntry>>
            BY <3>4, <3>8, <5>2 DEF EchosFor
          <6>2. s3 = Append(s2, EchoEntry)
            BY <3>5, <6>1, AppendEntry
          <6>3. IsText(Value(data, "echo", << >>)) /\ HasKey(data, "echo")
            BY <1>3, <5>2 DEF Finds, IsText
          <6>4. /\ Sound(echoed) /\ echoed.rxBuffer = synced.rxBuffer
                /\ echoed.hasValidated = synced.hasValidated
                /\ echoed.requestEnctype2 = synced.requestEnctype2 /\ echoed.state = synced.state
                /\ echoed.served = Append(synced.served, EchoEntry)
            BY <3>3, <6>3, ServeEchoView DEF Stage
          <6> HIDE DEF echoed, s3
          <6> QED
            BY <3>3, <5>2, <6>2, <6>4 DEF Stage
        <5> QED
          BY <5>1, <5>2
      <4> HIDE DEF echoed, s3
      <4>2. CASE ~Known(data)
        <5>1. k = Disconnect(echoed)
          BY <1>1, <2>5, <3>8, <4>2
        <5>2. Sound(k) /\ k.state # "open" /\ k.served = echoed.served /\ k.rxBuffer = echoed.rxBuffer
          BY <4>1, <5>1, DisconnectView DEF Stage
        <5> QED
          BY <3>6, <4>1, <5>2 DEF Answered, Stage, x, k
      <4>3. CASE Known(data)
        <5>1. k = echoed
          BY <1>1, <2>5, <3>8, <4>3
        <5>2. ASSUME k.state = "open"
              PROVE  Ready(k, x) /\ (k.out = << >> \/ h.out # << >> \/ E # {})
          <6>1. synced.state = "open"
            BY <4>1, <5>1, <5>2
          <6>2. S = {}
            BY <3>3, <6>1
          <6>3. L = {}
            BY <3>1, <3>3, <6>1, <6>2
          <6>4. synced = v
            BY <3>1, <3>3, <6>2, <6>3
          <6>5. V # {} \/ E # {}
            BY <1>3, <4>3, <6>2, <6>3 DEF Known
          <6>6. x.open = TRUE
            BY <1>2, <2>3, <2>5, <6>2, <6>3, <6>5
          <6>7. E = {} => k.out = h.out
            BY <1>5, <4>1, <5>1, <6>4
          <6>8. x.validated \in BOOLEAN /\ (v.hasValidated = 1 <=> x.validated)
            <7>1. ValidatedBy(turn, o) \in BOOLEAN
              BY DEF ValidatedBy
            <7> QED
              BY <1>2, <2>1, <7>1
          <6>9. v.requestEnctype2 = x.enctype2
            BY <1>2, <2>1
          <6>10. Ready(k, x)
            BY <3>6, <4>1, <5>1, <5>2, <6>6, <6>8, <6>9 DEF Ready, Stage
          <6> QED
            BY <6>7, <6>10
        <5> QED
          BY <3>6, <4>1, <5>1, <5>2 DEF Answered, Stage, x, k
      <4> QED
        BY <4>2, <4>3
    <3> QED
      BY <3>7, <3>8
  <2> QED
    BY <2>4, <2>5
<1> QED
  BY <1>7, <1>8
-----------------------------------------------------------------------------
(* The turns of a script in the stream, and what they ask for.             *)

TextOf(s, n) == FlattenSeq([i \in 1 .. n |-> TurnText(s[i])])

\* Some piece at the end of a text is in it.
LEMMA HoldsLast ==
    ASSUME NEW W, NEW a \in Seq(W), NEW b \in Seq(W) PROVE Holds(a \o b, b)
<1> DEFINE c == a \o b
           L == Len(a)
           M == Len(b)
<1>1. /\ L \in Nat /\ M \in Nat /\ Len(c) = L + M /\ c \in Seq(W)
      /\ \A i \in 1 .. M : c[i + L] = b[i]
  BY ConcatItems
<1> HIDE DEF c, L, M
<1>2. \A i \in L + 1 .. L + M : c[i] \in W
  <2>1. \A i \in L + 1 .. L + M : i \in 1 .. Len(c)
    BY <1>1
  <2> QED
    BY <1>1, <2>1, ElementOfSeq
<1> DEFINE d == SubSeq(c, L + 1, L + M)
<1>3. d \in Seq(W) /\ Len(d) = M /\ \A i \in 1 .. M : d[i] = c[i + L]
  <2>1. /\ d \in Seq(W) /\ Len(d) = IF L + 1 <= L + M THEN (L + M) - (L + 1) + 1 ELSE 0
        /\ \A i \in 1 .. (L + M) - (L + 1) + 1 : d[i] = c[(L + 1) + i - 1]
    <3>1. L + 1 \in Int /\ L + M \in Int
      BY <1>1
    <3> QED
      BY <1>2, <3>1, SubSeqProperties
  <2> HIDE DEF d
  <2>2. Len(d) = M
    BY <1>1, <2>1
  <2>3. ASSUME NEW i \in 1 .. M PROVE d[i] = c[i + L]
    <3>1. i \in 1 .. (L + M) - (L + 1) + 1 /\ (L + 1) + i - 1 = i + L
      BY <1>1
    <3> QED
      BY <2>1, <3>1
  <2> QED
    BY <2>1, <2>2, <2>3
<1> HIDE DEF d
<1>4. d = b
  <2>1. \A i \in 1 .. Len(d) : d[i] = b[i]
    BY <1>1, <1>3
  <2> QED
    BY <1>3, <2>1, SeqEqual DEF M
<1>5. L \in 0 .. Len(c) - M
  BY <1>1
<1> QED
  BY <1>4, <1>5 DEF Holds, c, d, L, M

\* A turn is a text that ends with a terminator.
LEMMA TurnEnds ==
    ASSUME NEW turn \in Seq(Request), turn # << >>, \A i \in DOMAIN turn : Meant(turn[i])
    PROVE  /\ TurnText(turn) \in Seq(Words) /\ Holds(TurnText(turn), Final)
           /\ Len(TurnText(turn)) \in Nat \ {0}
<1> DEFINE n == Len(turn)
           V == Seq(Words)
           c == [i \in 1 .. n |-> RequestText(turn[i])]
           b == [i \in 1 .. n - 1 |-> RequestText(turn[i])]
<1>1. n \in Nat \ {0} /\ DOMAIN turn = 1 .. n /\ n - 1 \in Nat /\ (n - 1) + 1 = n
  BY EmptySeq, LenProperties
<1>2. ASSUME NEW i \in 1 .. n
      PROVE  RequestText(turn[i]) \in V /\ Text(Pairs(turn[i])) \in V
  <2>1. turn[i] \in Request /\ Meant(turn[i])
    BY <1>1, ElementOfSeq
  <2>2. Pairs(turn[i]) \in Seq(Words \X Seq(Words))
    <3>1. "validate" \in Looked
      BY DEF Looked
    <3> QED
      BY <2>1, <3>1, PairsMeant
  <2>3. Text(Pairs(turn[i])) \in V
    <3> DEFINE P == Pairs(turn[i])
               m == Len(P)
               parts == [k \in DOMAIN P |-> <<Backslash, P[k][1], Backslash>> \o P[k][2]]
    <3>1. m \in Nat /\ DOMAIN P = 1 .. m /\ \A k \in 1 .. m : P[k] \in Words \X Seq(Words)
      BY <2>2, LenProperties, ElementOfSeq
    <3>2. ASSUME NEW k \in 1 .. m PROVE parts[k] \in V
      <4>1. P[k][1] \in Words /\ P[k][2] \in Seq(Words) /\ Backslash \in Words
        BY <3>1, WordsClosed
      <4>2. <<Backslash, P[k][1], Backslash>> \in Seq(Words)
        BY <4>1
      <4>3. parts[k] = <<Backslash, P[k][1], Backslash>> \o P[k][2]
        BY <3>1
      <4> HIDE DEF P, parts
      <4> QED
        BY <4>1, <4>2, <4>3, ConcatProperties
    <3>3. Text(P) = FlattenSeq(parts)
      BY DEF Text
    <3>4. parts \in [1 .. m -> V]
      BY <3>1, <3>2
    <3> HIDE DEF parts, P, m, V
    <3>5. parts \in Seq(V)
      BY <3>1, <3>4, FunctionIsSeq
    <3>6. FlattenSeq(parts) \in Seq(Words)
      BY <3>5, FlattenTyped DEF V
    <3> QED
      BY <3>3, <3>6 DEF V, P
  <2>4. Final \in V
    <3>1. "final" \in Words /\ Backslash \in Words
      BY WordsHold
    <3> QED
      BY <3>1 DEF Final
  <2>5. Text(Pairs(turn[i])) \o Final \in V
    BY <2>3, <2>4, ConcatProperties
  <2> QED
    BY <2>3, <2>5 DEF RequestText
<1>3. TurnText(turn) = FlattenSeq(c)
  BY <1>1 DEF TurnText
<1> HIDE DEF n
<1>4. c \in [1 .. n -> V] /\ b \in [1 .. n - 1 -> V]
  BY <1>1, <1>2
<1>5. \A i \in 1 .. n - 1 : c[i] = b[i]
  BY <1>1
<1>6. c[n] = Text(Pairs(turn[n])) \o Final /\ Text(Pairs(turn[n])) \in Seq(Words)
  BY <1>1, <1>2 DEF RequestText
<1> HIDE DEF b, c, V
<1>7. c \in Seq(V) /\ b \in Seq(V) /\ Len(c) = n /\ Len(b) = n - 1
  BY <1>1, <1>4, FunctionIsSeq
<1>8. FlattenSeq(c) = FlattenSeq(b) \o c[n]
  <2>1. FlattenSeq(c) = FlattenSeq(b) \o c[Len(b) + 1]
    <3>1. Len(c) = Len(b) + 1 /\ \A i \in 1 .. Len(b) : c[i] = b[i]
      BY <1>1, <1>5, <1>7
    <3> QED
      BY <1>7, <3>1, FlattenOneMore DEF V
  <2> QED
    BY <1>1, <1>7, <2>1
<1> DEFINE u == FlattenSeq(b)
           w == Text(Pairs(turn[n]))
<1>9. u \in Seq(Words) /\ w \in Seq(Words) /\ Final \in Seq(Words)
  <2>1. u \in Seq(Words)
    BY <1>7, FlattenTyped DEF V
  <2>2. Final \in Seq(Words)
    <3>1. "final" \in Words /\ Backslash \in Words
      BY WordsHold
    <3> QED
      BY <3>1 DEF Final
  <2> QED
    BY <1>6, <2>1, <2>2
<1> HIDE DEF u, w
<1>10. u \o w \in Seq(Words) /\ (u \o w) \o Final = u \o (w \o Final)
  BY <1>9, ConcatAssociative, ConcatProperties
<1> DEFINE x == u \o w
<1> HIDE DEF x
<1>11. x \in Seq(Words) /\ TurnText(turn) = x \o Final
  BY <1>3, <1>6, <1>8, <1>10 DEF u, w, x
<1>12. Holds(x \o Final, Final) /\ x \o Final \in Seq(Words)
  BY <1>9, <1>11, HoldsLast, ConcatProperties
<1>13. Len(x \o Final) = Len(x) + 3 /\ Len(x) \in Nat
  <2> DEFINE f == Final
  <2>1. Len(f) = 3 /\ f \in Seq(Words) /\ x \in Seq(Words)
    BY <1>9, <1>11 DEF Final
  <2> HIDE DEF f
  <2>2. Len(x) \in Nat /\ Len(x \o f) = Len(x) + Len(f)
    BY <2>1, ConcatItems
  <2> QED
    BY <2>1, <2>2 DEF f
<1> QED
  BY <1>11, <1>12, <1>13

LEMMA TextGrows ==
    ASSUME NEW s \in Scripts
    PROVE  /\ Len(s) \in Nat /\ DOMAIN s = 1 .. Len(s) /\ TextOf(s, 0) = << >>
           /\ \A n \in 0 .. Len(s) : TextOf(s, n) \in Seq(Words)
           /\ \A n \in 0 .. Len(s) - 1 :
                  /\ TextOf(s, n + 1) = TextOf(s, n) \o TurnText(s[n + 1])
                  /\ TurnText(s[n + 1]) \in Seq(Words) /\ Holds(TurnText(s[n + 1]), Final)
                  /\ Len(TurnText(s[n + 1])) \in Nat \ {0}
<1> DEFINE V == Seq(Words)
           part(n) == [i \in 1 .. n |-> TurnText(s[i])]
<1>1. Len(s) \in Nat /\ DOMAIN s = 1 .. Len(s)
  <2>1. s \in Seq(Seq(Request) \ {<< >>})
    BY ScriptAssumption
  <2> QED
    BY <2>1, LenProperties
<1>2. ASSUME NEW i \in 1 .. Len(s)
      PROVE  /\ TurnText(s[i]) \in V /\ Holds(TurnText(s[i]), Final)
             /\ Len(TurnText(s[i])) \in Nat \ {0}
  <2>1. s[i] \in Seq(Request) /\ s[i] # << >> /\ \A j \in DOMAIN s[i] : Meant(s[i][j])
    BY <1>1, ScriptTurn
  <2> QED
    BY <2>1, TurnEnds
<1>3. ASSUME NEW n \in 0 .. Len(s)
      PROVE  part(n) \in Seq(V) /\ Len(part(n)) = n /\ FlattenSeq(part(n)) \in Seq(Words)
  <2>1. part(n) \in [1 .. n -> V] /\ n \in Nat
    BY <1>1, <1>2
  <2> HIDE DEF part, V
  <2>2. part(n) \in Seq(V) /\ Len(part(n)) = n
    BY <2>1, FunctionIsSeq
  <2>3. FlattenSeq(part(n)) \in Seq(Words)
    BY <2>2, FlattenTyped DEF V
  <2> QED
    BY <2>2, <2>3
<1>4. TextOf(s, 0) = << >>
  <2>1. 0 \in 0 .. Len(s)
    BY <1>1
  <2>2. part(0) \in Seq(Seq(Words)) /\ Len(part(0)) = 0
    BY <1>3, <2>1
  <2> HIDE DEF part
  <2>3. PICK r : FlattenChain(r, part(0)) /\ r[Len(part(0))] = FlattenSeq(part(0))
    BY <2>2, FlattenPasses
  <2>4. FlattenSeq(part(0)) = << >>
    BY <2>2, <2>3 DEF FlattenChain
  <2> QED
    BY <2>4 DEF TextOf, part
<1>5. ASSUME NEW n \in 0 .. Len(s) PROVE TextOf(s, n) \in Seq(Words)
  BY <1>3 DEF TextOf
<1>6. ASSUME NEW n \in 0 .. Len(s) - 1 PROVE TextOf(s, n + 1) = TextOf(s, n) \o TurnText(s[n + 1])
  <2>1. n \in 0 .. Len(s) /\ n + 1 \in 0 .. Len(s) /\ n + 1 \in 1 .. n + 1
    BY <1>1
  <2>2. part(n + 1)[n + 1] = TurnText(s[n + 1]) /\ \A i \in 1 .. n : part(n + 1)[i] = part(n)[i]
    BY <2>1
  <2>3. part(n) \in Seq(V) /\ part(n + 1) \in Seq(V) /\ Len(part(n)) = n /\ Len(part(n + 1)) = n + 1
    BY <1>3, <2>1
  <2> HIDE DEF part
  <2>4. FlattenSeq(part(n + 1)) = FlattenSeq(part(n)) \o part(n + 1)[Len(part(n)) + 1]
    <3>1. Len(part(n + 1)) = Len(part(n)) + 1 /\ \A i \in 1 .. Len(part(n)) : part(n + 1)[i] = part(n)[i]
      BY <2>2, <2>3
    <3> QED
      BY <2>3, <3>1, FlattenOneMore
  <2>5. FlattenSeq(part(n + 1)) = FlattenSeq(part(n)) \o TurnText(s[n + 1])
    BY <2>2, <2>3, <2>4
  <2> QED
    BY <2>5 DEF TextOf, part
<1>7. ASSUME NEW n \in 0 .. Len(s) - 1
      PROVE  /\ TurnText(s[n + 1]) \in Seq(Words) /\ Holds(TurnText(s[n + 1]), Final)
             /\ Len(TurnText(s[n + 1])) \in Nat \ {0}
  <2>1. n + 1 \in 1 .. Len(s)
    BY <1>1
  <2> QED
    BY <1>2, <2>1
<1> QED
  BY <1>1, <1>4, <1>5, <1>6, <1>7

\* The stream after k turns begins the one after more, which is longer.
LEMMA TextBegins ==
    ASSUME NEW s \in Scripts, NEW k \in 0 .. Len(s), NEW m \in k .. Len(s)
    PROVE  /\ Len(TextOf(s, k)) \in Nat /\ Len(TextOf(s, m)) \in Nat
           /\ Len(TextOf(s, k)) + (m - k) <= Len(TextOf(s, m))
           /\ \A i \in 1 .. Len(TextOf(s, k)) : TextOf(s, m)[i] = TextOf(s, k)[i]
<1> DEFINE a == TextOf(s, k)
           T == {j \in Nat : k + j <= Len(s) =>
                    /\ Len(a) + j <= Len(TextOf(s, k + j))
                    /\ \A i \in 1 .. Len(a) : TextOf(s, k + j)[i] = a[i]}
<1>1. Len(s) \in Nat /\ k \in Nat /\ m \in Nat
  BY TextGrows
<1>2. \A n \in 0 .. Len(s) : TextOf(s, n) \in Seq(Words) /\ Len(TextOf(s, n)) \in Nat
  BY TextGrows, LenProperties
<1>3. Len(a) \in Nat
  BY <1>2
<1>4. 0 \in T
  <2>1. k + 0 = k /\ Len(a) + 0 = Len(a)
    BY <1>1, <1>3
  <2>2. Len(a) + 0 <= Len(TextOf(s, k + 0)) /\ \A i \in 1 .. Len(a) : TextOf(s, k + 0)[i] = a[i]
    BY <1>3, <2>1
  <2> HIDE DEF a
  <2> QED
    BY <2>2
<1>5. ASSUME NEW j \in Nat, j \in T PROVE j + 1 \in T
  <2> DEFINE b == TextOf(s, k + j)
             c == TextOf(s, (k + j) + 1)
             t == TurnText(s[(k + j) + 1])
  <2> SUFFICES ASSUME k + (j + 1) <= Len(s)
               PROVE  /\ Len(a) + (j + 1) <= Len(TextOf(s, k + (j + 1)))
                      /\ \A i \in 1 .. Len(a) : TextOf(s, k + (j + 1))[i] = a[i]
    OBVIOUS
  <2>1. k + (j + 1) = (k + j) + 1 /\ k + j \in 0 .. Len(s) - 1 /\ k + j \in 0 .. Len(s)
    BY <1>1
  <2>2. c = b \o t /\ t \in Seq(Words) /\ Len(t) \in Nat \ {0}
    BY <2>1, TextGrows
  <2>3. b \in Seq(Words)
    BY <1>2, <2>1
  <2>4. Len(a) + j <= Len(b) /\ \A i \in 1 .. Len(a) : b[i] = a[i]
    BY <1>5, <2>1
  <2> HIDE DEF a, b, c, t
  <2>5. Len(c) = Len(b) + Len(t) /\ Len(b) \in Nat /\ \A i \in 1 .. Len(b) : c[i] = b[i]
    BY <2>2, <2>3, ConcatItems
  <2>6. Len(a) + (j + 1) <= Len(c)
    BY <1>3, <2>2, <2>4, <2>5
  <2>7. ASSUME NEW i \in 1 .. Len(a) PROVE c[i] = a[i]
    <3>1. i \in 1 .. Len(b)
      BY <1>3, <2>4, <2>5
    <3> QED
      BY <2>4, <2>5, <3>1
  <2> QED
    BY <2>1, <2>6, <2>7 DEF c
<1>6. Nat \subseteq T
  <2> HIDE DEF T
  <2> QED
    BY <1>4, <1>5, NatSetInduction
<1>7. m - k \in T /\ k + (m - k) = m
  <2>1. m - k \in Nat /\ k + (m - k) = m
    BY <1>1
  <2> HIDE DEF T
  <2> QED
    BY <1>6, <2>1
<1> QED
  BY <1>1, <1>2, <1>3, <1>7

\* As many turns have been taken as the words read are of.
LEMMA TakenTurns ==
    ASSUME NEW s \in Scripts, NEW n \in 0 .. Len(s), NEW t \in 0 .. n
    PROVE  Cardinality({m \in 1 .. n : Len(TextOf(s, m)) <= Len(TextOf(s, t))}) = t
<1>1. Len(s) \in Nat /\ t \in Nat /\ n \in Nat /\ t \in 0 .. Len(s)
  BY TextGrows
<1>2. ASSUME NEW m \in 1 .. n PROVE Len(TextOf(s, m)) <= Len(TextOf(s, t)) <=> m <= t
  <2>1. m \in 0 .. Len(s)
    BY <1>1
  <2>2. CASE m <= t
    <3>1. t \in m .. Len(s)
      BY <1>1, <2>2
    <3>2. /\ Len(TextOf(s, m)) \in Nat /\ Len(TextOf(s, t)) \in Nat
          /\ Len(TextOf(s, m)) + (t - m) <= Len(TextOf(s, t))
      BY <2>1, <3>1, TextBegins
    <3> QED
      BY <1>1, <2>2, <3>2
  <2>3. CASE ~ (m <= t)
    <3>1. m \in t .. Len(s) /\ m > t
      BY <1>1, <2>3
    <3>2. /\ Len(TextOf(s, m)) \in Nat /\ Len(TextOf(s, t)) \in Nat
          /\ Len(TextOf(s, t)) + (m - t) <= Len(TextOf(s, m))
      BY <1>1, <3>1, TextBegins
    <3> QED
      BY <1>1, <2>3, <3>1, <3>2
  <2> QED
    BY <2>2, <2>3
<1>3. {m \in 1 .. n : Len(TextOf(s, m)) <= Len(TextOf(s, t))} = 1 .. t
  BY <1>1, <1>2
<1>4. Cardinality(1 .. t) = t
  <2>1. Cardinality(1 .. t) = IF 1 > t THEN 0 ELSE t - 1 + 1
    BY <1>1, FS_Interval
  <2> QED
    BY <1>1, <2>1
<1> QED
  BY <1>3, <1>4
-----------------------------------------------------------------------------
Outset == [validated |-> FALSE, enctype2 |-> 0, open |-> TRUE, served |-> << >>]

\* What turns may ask for.
Asked == [type : {"list"}, enctype2 : Bit, games : {<<r.name>> : r \in Request}]
         \cup {AskedSync(r) : r \in Request} \cup {EchoEntry}

Outcomes == [validated : BOOLEAN, enctype2 : Bit, open : BOOLEAN, served : Seq(Asked)]

LEMMA ExpectedTyped ==
    ASSUME NEW turn \in Seq(Request), NEW o \in Outcomes
    PROVE  Expected(turn, o) \in Outcomes
<1>1. CASE ~o.open
  BY <1>1 DEF Expected
<1>2. CASE o.open
  <2>1. \A i \in DOMAIN turn : turn[i] \in Request
    BY ElementOfSeq, LenProperties
  <2>2. o.validated \in BOOLEAN /\ o.enctype2 \in Bit /\ o.served \in Seq(Asked)
    BY DEF Outcomes
  <2>3. EncryptedBy(turn, o) \in Bit
    <3>1. CASE InTurn(turn, "validate") = {}
      BY <2>2, <3>1 DEF EncryptedBy
    <3>2. CASE InTurn(turn, "validate") # {}
      <4> DEFINE i == CHOOSE i \in InTurn(turn, "validate") : TRUE
      <4>1. i \in InTurn(turn, "validate")
        BY <3>2
      <4>2. AnswerIn(turn) = turn[i]
        BY DEF AnswerIn
      <4> HIDE DEF i
      <4>3. turn[i] \in Request /\ turn[i].type = "validate"
        BY <2>1, <4>1 DEF InTurn
      <4>4. turn[i].enctype2 \in Bit
        BY <4>3 DEF Request
      <4> QED
        BY <3>2, <4>2, <4>4 DEF EncryptedBy
    <3> QED
      BY <3>1, <3>2
  <2>4. ListsFor(turn, o) \in Seq(Asked)
    <3>1. CASE ~(ValidatedBy(turn, o) /\ InTurn(turn, "list") # {})
      BY <3>1, EmptySeq DEF ListsFor
    <3>2. CASE ValidatedBy(turn, o) /\ InTurn(turn, "list") # {}
      <4> DEFINE i == CHOOSE i \in InTurn(turn, "list") : TRUE
      <4>1. i \in InTurn(turn, "list")
        BY <3>2
      <4>2. ListFor(turn, o) = [type |-> "list", enctype2 |-> EncryptedBy(turn, o), games |-> <<turn[i].name>>]
        BY DEF ListFor
      <4> HIDE DEF i
      <4>3. turn[i] \in Request
        BY <2>1, <4>1 DEF InTurn
      <4>4. ListFor(turn, o) \in Asked
        BY <2>3, <4>2, <4>3 DEF Asked
      <4> HIDE DEF i
      <4>5. <<ListFor(turn, o)>> \in Seq(Asked)
        BY <4>4
      <4> QED
        BY <3>2, <4>5 DEF ListsFor
    <3> QED
      BY <3>1, <3>2
  <2>5. SyncsFor(turn, o) \in Seq(Asked)
    <3>1. CASE ~(ValidatedBy(turn, o) /\ InTurn(turn, "sync") # {})
      BY <3>1, EmptySeq DEF SyncsFor
    <3>2. CASE ValidatedBy(turn, o) /\ InTurn(turn, "sync") # {}
      <4> DEFINE i == CHOOSE i \in InTurn(turn, "sync") : TRUE
      <4>1. i \in InTurn(turn, "sync")
        BY <3>2
      <4>2. SyncFor(turn) = AskedSync(turn[i])
        BY DEF SyncFor
      <4> HIDE DEF i
      <4>3. turn[i] \in Request
        BY <2>1, <4>1 DEF InTurn
      <4>4. SyncFor(turn) \in Asked
        BY <4>2, <4>3 DEF Asked
      <4>5. <<SyncFor(turn)>> \in Seq(Asked)
        BY <4>4
      <4> QED
        BY <3>2, <4>5 DEF SyncsFor
    <3> QED
      BY <3>1, <3>2
  <2>6. EchosFor(turn) \in Seq(Asked)
    <3>1. EchoEntry \in Asked
      BY DEF Asked
    <3>2. <<EchoEntry>> \in Seq(Asked) /\ << >> \in Seq(Asked)
      BY <3>1, EmptySeq
    <3> QED
      BY <3>2 DEF EchosFor
  <2> DEFINE served == IF RefusedBy(turn, o) THEN o.served
                       ELSE ((o.served \o ListsFor(turn, o)) \o SyncsFor(turn, o)) \o EchosFor(turn)
             open == /\ ~RefusedBy(turn, o) /\ InTurn(turn, "list") \cup InTurn(turn, "sync") = {}
                     /\ InTurn(turn, "validate") \cup InTurn(turn, "echo") # {}
  <2>7. served \in Seq(Asked)
    <3>1. o.served \o ListsFor(turn, o) \in Seq(Asked)
      BY <2>2, <2>4, ConcatProperties
    <3>2. (o.served \o ListsFor(turn, o)) \o SyncsFor(turn, o) \in Seq(Asked)
      BY <2>5, <3>1, ConcatProperties
    <3>3. ((o.served \o ListsFor(turn, o)) \o SyncsFor(turn, o)) \o EchosFor(turn) \in Seq(Asked)
      BY <2>6, <3>2, ConcatProperties
    <3> QED
      BY <2>2, <3>3
  <2>8. ValidatedBy(turn, o) \in BOOLEAN /\ open \in BOOLEAN
    BY DEF ValidatedBy
  <2>9. Expected(turn, o) = [validated |-> ValidatedBy(turn, o), enctype2 |-> EncryptedBy(turn, o),
                             open |-> open, served |-> served]
    BY <1>2, ExpectedFields
  <2> HIDE DEF served, open
  <2> QED
    BY <2>3, <2>7, <2>8, <2>9 DEF Outcomes
<1> QED
  BY <1>1, <1>2

\* The fold of ExpectedAfter, one turn at a time.
OutcomeChain(r, b) ==
    /\ r[0] = Outset
    /\ \A k \in 1 .. Len(b) : r[k] = Expected(b[k], r[k - 1])

Outcome(b) == FoldLeft(LAMBDA o, turn : Expected(turn, o), Outset, b)

LEMMA OutcomePasses ==
    ASSUME NEW b \in Seq(Seq(Request))
    PROVE  \E r : OutcomeChain(r, b) /\ r[Len(b)] = Outcome(b)
<1> DEFINE n == Len(b)
           X == Outcomes
           step == [k \in 1 .. n |-> [o \in X |-> Expected(b[k], o)]]
           eq(iter) == iter = [s \in SUBSET (1 .. n) |-> IF s = {} THEN Outset
                                  ELSE Expected(b[Max(s)], iter[s \ {Max(s)}])]
<1>1. n \in Nat /\ DOMAIN b = 1 .. n /\ \A k \in 1 .. n : b[k] \in Seq(Request)
  BY LenProperties, ElementOfSeq
<1>2. Outcome(b) = (CHOOSE iter : eq(iter))[1 .. n]
  <2>1. Outcome(b) = (CHOOSE iter : iter = [s \in SUBSET DOMAIN b |-> IF s = {} THEN Outset
                     ELSE Expected(b[Max(s)], iter[s \ {Max(s)}])])[DOMAIN b]
    BY DEF Outcome, FoldLeft, MapThenFoldSet
  <2> QED
    BY <1>1, <2>1
<1>3. Outset \in X
  BY EmptySeq DEF Outcomes, Outset, Bit
<1>4. step \in [1 .. n -> [X -> X]]
  <2>1. \A k \in 1 .. n, o \in X : Expected(b[k], o) \in X
    BY <1>1, ExpectedTyped
  <2> HIDE DEF n, X
  <2> QED
    BY <2>1
<1> DEFINE f == CHOOSE iter : eq(iter)
<1>5. eq(f)
  <2>1. PICK iter : FoldsUpTo(iter, X, Outset, step, n)
    <3> HIDE DEF step, n, X
    <3> QED
      BY <1>1, <1>3, <1>4, FoldExists
  <2>2. ASSUME NEW s \in SUBSET (1 .. n), s # {}
        PROVE  step[Max(s)][iter[s \ {Max(s)}]] = Expected(b[Max(s)], iter[s \ {Max(s)}])
    <3>1. Max(s) \in s
      BY <1>1, <2>2, MaxIsHighest
    <3>2. Max(s) \in 1 .. n /\ s \ {Max(s)} \in SUBSET (1 .. n)
      BY <3>1
    <3>3. iter[s \ {Max(s)}] \in X
      BY <2>1, <3>2 DEF FoldsUpTo
    <3> HIDE DEF X
    <3> QED
      BY <3>2, <3>3
  <2>3. eq(iter)
    <3> HIDE DEF step, n, X
    <3> QED
      BY <2>1, <2>2 DEF FoldsUpTo
  <2> HIDE DEF eq
  <2> QED
    BY <2>3
<1> DEFINE r == [k \in 0 .. n |-> f[1 .. k]]
<1> HIDE DEF f, step
<1>6. r[0] = Outset
  <2>1. 1 .. 0 = {} /\ 0 \in 0 .. n
    BY <1>1
  <2> QED
    BY <1>5, <2>1
<1>7. ASSUME NEW k \in 1 .. n PROVE r[k] = Expected(b[k], r[k - 1])
  <2>1. k \in 0 .. n /\ k - 1 \in 0 .. n /\ k # 0
    BY <1>1
  <2>2. /\ 1 .. k \in SUBSET (1 .. n) /\ 1 .. k # {} /\ Max(1 .. k) = k
        /\ (1 .. k) \ {k} = 1 .. k - 1
    BY <1>1, <2>1, FoldSteps
  <2>3. f[1 .. k] = Expected(b[k], f[(1 .. k) \ {k}])
    BY <1>5, <2>2
  <2> QED
    BY <2>1, <2>2, <2>3
<1>8. r[n] = Outcome(b)
  BY <1>1, <1>2 DEF f
<1> HIDE DEF r
<1>9. OutcomeChain(r, b)
  BY <1>6, <1>7 DEF OutcomeChain
<1> HIDE DEF n
<1> QED
  BY <1>8, <1>9 DEF n

LEMMA OutcomesAgree ==
    ASSUME NEW b, NEW c, NEW n \in Nat, NEW r, NEW q, OutcomeChain(r, b), OutcomeChain(q, c),
           Len(b) \in Nat, Len(c) \in Nat, n <= Len(b), n <= Len(c), \A i \in 1 .. n : b[i] = c[i]
    PROVE  r[n] = q[n]
<1> DEFINE T == {k \in Nat : k <= n => r[k] = q[k]}
<1>1. 0 \in T
  BY DEF OutcomeChain
<1>2. ASSUME NEW k \in Nat, k \in T PROVE k + 1 \in T
  <2> SUFFICES ASSUME k + 1 <= n PROVE r[k + 1] = q[k + 1]
    OBVIOUS
  <2>1. r[k] = q[k]
    BY <1>2
  <2>2. k + 1 \in 1 .. n /\ k + 1 \in 1 .. Len(b) /\ k + 1 \in 1 .. Len(c) /\ (k + 1) - 1 = k
    OBVIOUS
  <2>3. b[k + 1] = c[k + 1]
    BY <2>2
  <2>4. r[k + 1] = Expected(b[k + 1], r[(k + 1) - 1])
    BY <2>2, Zenon DEF OutcomeChain
  <2>5. q[k + 1] = Expected(c[k + 1], q[(k + 1) - 1])
    BY <2>2, Zenon DEF OutcomeChain
  <2>6. r[k + 1] = Expected(b[k + 1], r[k]) /\ q[k + 1] = Expected(c[k + 1], q[k])
    BY <2>2, <2>4, <2>5, Zenon
  <2> QED
    BY <2>1, <2>3, <2>6, Zenon
<1> HIDE DEF T
<1>3. Nat \subseteq T
  BY <1>1, <1>2, NatSetInduction
<1> QED
  BY <1>3 DEF T

OutcomeOf(s, n) == Outcome(SubSeq(s, 1, n))

LEMMA ExpectedIsOutcome == ASSUME NEW n PROVE ExpectedAfter(n) = OutcomeOf(script, n)
  BY DEF ExpectedAfter, OutcomeOf, Outcome, Outset

LEMMA OutcomeOneMore ==
    ASSUME NEW s \in Scripts
    PROVE  /\ OutcomeOf(s, 0) = Outset
           /\ \A n \in 0 .. Len(s) - 1 : OutcomeOf(s, n + 1) = Expected(s[n + 1], OutcomeOf(s, n))
<1> DEFINE V == Seq(Request)
<1>1. Len(s) \in Nat /\ \A i \in 1 .. Len(s) : s[i] \in V
  <2>1. Len(s) \in Nat /\ DOMAIN s = 1 .. Len(s)
    BY TextGrows
  <2> QED
    BY <2>1, ScriptTurn
<1> HIDE DEF V
<1>2. ASSUME NEW n \in 0 .. Len(s)
      PROVE  /\ SubSeq(s, 1, n) \in Seq(V) /\ Len(SubSeq(s, 1, n)) = n
             /\ \A i \in 1 .. n : SubSeq(s, 1, n)[i] = s[i]
  <2> DEFINE d == SubSeq(s, 1, n)
  <2>0. 1 \in Int /\ n \in Int /\ \A i \in 1 .. n : s[i] \in V
    BY <1>1
  <2>1. /\ d \in Seq(V) /\ Len(d) = IF 1 <= n THEN n - 1 + 1 ELSE 0
        /\ \A i \in 1 .. n - 1 + 1 : d[i] = s[1 + i - 1]
    BY <2>0, SubSeqProperties
  <2> HIDE DEF d
  <2>2. Len(d) = n /\ n - 1 + 1 = n
    BY <1>1, <2>1
  <2>3. \A i \in 1 .. n : d[i] = s[i]
    BY <2>1, <2>2
  <2> QED
    BY <2>1, <2>2, <2>3 DEF d
<1>3. OutcomeOf(s, 0) = Outset
  <2> DEFINE b == SubSeq(s, 1, 0)
  <2>1. b \in Seq(V) /\ Len(b) = 0
    BY <1>1, <1>2
  <2> HIDE DEF b
  <2>2. PICK r : OutcomeChain(r, b) /\ r[Len(b)] = Outcome(b)
    BY <2>1, OutcomePasses DEF V
  <2>3. Outcome(b) = Outset
    BY <2>1, <2>2 DEF OutcomeChain
  <2> QED
    BY <2>3 DEF OutcomeOf, b
<1>4. ASSUME NEW n \in 0 .. Len(s) - 1 PROVE OutcomeOf(s, n + 1) = Expected(s[n + 1], OutcomeOf(s, n))
  <2> DEFINE b == SubSeq(s, 1, n)
             c == SubSeq(s, 1, n + 1)
  <2>1. n \in 0 .. Len(s) /\ n + 1 \in 0 .. Len(s) /\ n \in Nat /\ (n + 1) - 1 = n
    BY <1>1
  <2>2. b \in Seq(V) /\ Len(b) = n /\ \A i \in 1 .. n : b[i] = s[i]
    BY <1>2, <2>1
  <2>3. c \in Seq(V) /\ Len(c) = n + 1 /\ \A i \in 1 .. n + 1 : c[i] = s[i]
    BY <1>2, <2>1
  <2> HIDE DEF b, c
  <2>4. PICK r : OutcomeChain(r, b) /\ r[Len(b)] = Outcome(b)
    BY <2>2, OutcomePasses DEF V
  <2>5. PICK q : OutcomeChain(q, c) /\ q[Len(c)] = Outcome(c)
    BY <2>3, OutcomePasses DEF V
  <2>6. \A i \in 1 .. n : b[i] = c[i]
    BY <2>1, <2>2, <2>3
  <2>7. Len(b) \in Nat /\ Len(c) \in Nat /\ n <= Len(b) /\ n <= Len(c)
    BY <2>1, <2>2, <2>3
  <2>8. r[n] = q[n]
    BY <2>1, <2>4, <2>5, <2>6, <2>7, OutcomesAgree
  <2>9. n + 1 \in 1 .. Len(c) /\ c[n + 1] = s[n + 1]
    BY <2>1, <2>3
  <2>10. q[n + 1] = Expected(c[n + 1], q[(n + 1) - 1])
    BY <2>5, <2>9, Zenon DEF OutcomeChain
  <2>11. q[n + 1] = Expected(s[n + 1], q[n])
    BY <2>1, <2>9, <2>10, Zenon
  <2>12. Outcome(c) = q[n + 1] /\ Outcome(b) = r[n]
    BY <2>2, <2>3, <2>4, <2>5, Zenon
  <2>13. Outcome(c) = Expected(s[n + 1], Outcome(b))
    BY <2>8, <2>11, <2>12, Zenon
  <2> QED
    BY <2>13 DEF OutcomeOf, b, c
<1> QED
  BY <1>3, <1>4
-----------------------------------------------------------------------------
(* Whole turns, read one after the other.                                  *)

EchoedBy(s, n) == \E m \in 1 .. n : InTurn(s[m], "echo") # {}

LEMMA TurnFacts ==
    ASSUME NEW s \in Scripts, NEW n \in DOMAIN s
    PROVE  /\ Separate(s[n])
           /\ \A i \in InTurn(s[n], "validate") :
                  ~RightAnswer(s[n][i]) => ~Accepted(s[n][i].answer, s[n][i].name)
           /\ \A h : (h.out # << >> => EchoedBy(s, n - 1)) => Refusable(h, s[n])
<1> DEFINE turn == s[n]
<1>1. \A i, j \in DOMAIN turn :
         /\ turn[i].type = turn[j].type /\ turn[i].type \in {"validate", "list", "sync"} => i = j
         /\ turn[i].type = "validate" /\ turn[j].type = "list" => i < j
  BY TurnAssumption
<1>2. \A i \in DOMAIN turn : turn[i].type = "validate" /\ ~RightAnswer(turn[i]) =>
           /\ ~Accepted(turn[i].answer, turn[i].name)
           /\ (\E m \in 1 .. n - 1 : \E k \in DOMAIN s[m] : s[m][k].type = "echo")
                  => \A j \in DOMAIN turn : turn[j].type \in {"validate", "other"}
  BY TurnAssumption
<1> HIDE DEF turn
<1>3. Separate(turn)
  BY <1>1 DEF Separate
<1>4. \A i \in InTurn(turn, "validate") : ~RightAnswer(turn[i]) => ~Accepted(turn[i].answer, turn[i].name)
  BY <1>2 DEF InTurn
<1>5. ASSUME NEW h, h.out # << >> => EchoedBy(s, n - 1) PROVE Refusable(h, turn)
  <2> SUFFICES ASSUME h.out # << >>, InTurn(turn, "validate") # {}, ~PassedIn(turn)
               PROVE  InTurn(turn, "list") = {} /\ InTurn(turn, "sync") = {} /\ InTurn(turn, "echo") = {}
    BY DEF Refusable
  <2>1. PICK i \in InTurn(turn, "validate") : TRUE
    OBVIOUS
  <2>2. AnswerIn(turn) = turn[i]
    BY <1>3, OnlyIn DEF AnswerIn
  <2>3. ~RightAnswer(turn[i]) /\ i \in DOMAIN turn /\ turn[i].type = "validate"
    BY <2>2 DEF PassedIn, InTurn
  <2>4. \E m \in 1 .. n - 1 : \E k \in DOMAIN s[m] : s[m][k].type = "echo"
    BY <1>5 DEF EchoedBy, InTurn
  <2>5. \A j \in DOMAIN turn : turn[j].type \in {"validate", "other"}
    BY <1>2, <2>3, <2>4
  <2> QED
    BY <2>5 DEF InTurn
<1> QED
  BY <1>3, <1>4, <1>5 DEF turn

LEMMA InitialTable == InitialList \in Table
<1> DEFINE n == Len(Rows)
<1>1. /\ n \in Nat /\ DOMAIN Rows = 1 .. n
      /\ \A id \in 1 .. n : Rows[id] \in Address \X GameName \X Nat \X Nat
  BY RowsAssumption, LenProperties, ElementOfSeq
<1>2. ASSUME NEW id \in 1 .. n PROVE InitialList[id] \in Row
  <2>1. /\ Rows[id][1] \in Address /\ Rows[id][2] \in GameName
        /\ Rows[id][3] \in Nat /\ Rows[id][4] \in Nat
    BY <1>1
  <2> QED
    BY <1>1, <2>1 DEF InitialList, Row, Bit
<1>3. InitialList \in [1 .. n -> Row]
  BY <1>1, <1>2 DEF InitialList
<1> HIDE DEF n
<1>4. InitialList \in Seq(Row)
  BY <1>1, <1>3, FunctionIsSeq
<1> QED
  BY <1>4 DEF Table

\* The first t of the n turns written have been read and answered.
AnsweredUpTo(h, text, took, s, n, t) ==
    /\ took = Len(TextOf(s, t)) /\ TextOf(s, t) \o text = TextOf(s, n)
    /\ h.rxBuffer = << >> \/ Holds(h.rxBuffer, Final)
    /\ h.served = OutcomeOf(s, t).served
    /\ h.state = "open" => Ready(h, OutcomeOf(s, t)) /\ (h.out # << >> => EchoedBy(s, t))

Whole ==
    /\ serverlist = InitialList /\ script \in Scripts /\ sent \in 0 .. Len(script)
    /\ network = "whole" =>
           /\ toServer \in Seq(Words) /\ Sound(handler)
           /\ \E t \in 0 .. sent : AnsweredUpTo(handler, toServer, taken, script, sent, t)

LEMMA WholeInit == Init => Whole
<1> SUFFICES ASSUME Init PROVE Whole
  OBVIOUS
<1>1. /\ handler = NewHandler /\ toServer = << >> /\ serverlist = InitialList
      /\ script \in Scripts /\ sent = 0 /\ taken = 0
  BY DEF Init
<1>2. Len(script) \in Nat /\ TextOf(script, 0) = << >> /\ OutcomeOf(script, 0) = Outset
  BY <1>1, TextGrows, OutcomeOneMore
<1>3. << >> \in Seq(Words) /\ Len(<< >>) = 0 /\ << >> \o << >> = << >>
  BY EmptySeq
<1>4. /\ handler.rxBuffer = << >> /\ handler.served = << >> /\ handler.out = << >>
      /\ handler.hasValidated = 0 /\ handler.requestEnctype2 = 0 /\ handler.state = "open"
  BY <1>1 DEF NewHandler
<1>5. Sound(handler)
  <2>1. Shape(handler)
    BY EarlierInit DEF Earlier
  <2> QED
    BY <1>3, <1>4, <2>1 DEF Sound, IsText
<1>6. Ready(handler, Outset)
  BY <1>4, <1>5 DEF Ready, Outset
<1>7. AnsweredUpTo(handler, toServer, taken, script, sent, 0)
  <2>1. Len(TextOf(script, 0)) = 0 /\ TextOf(script, 0) \o << >> = << >>
    BY <1>2, <1>3
  <2>2. taken = Len(TextOf(script, 0)) /\ TextOf(script, 0) \o toServer = TextOf(script, sent)
    BY <1>1, <1>2, <2>1
  <2>3. OutcomeOf(script, 0).served = << >> /\ Ready(handler, OutcomeOf(script, 0))
    <3>1. Outset.served = << >>
      BY DEF Outset
    <3> QED
      BY <1>2, <1>6, <3>1, Zenon
  <2> QED
    BY <1>4, <2>2, <2>3 DEF AnsweredUpTo
<1>8. sent \in 0 .. Len(script) /\ 0 \in 0 .. sent
  BY <1>1, <1>2
<1> QED
  BY <1>1, <1>3, <1>5, <1>7, <1>8 DEF Whole

LEMMA WholeSend ==
    ASSUME Whole, Send
    PROVE  Whole'
<1> DEFINE more == TurnText(script[sent + 1])
<1>1. /\ script' = script /\ handler' = handler /\ sent' = sent + 1 /\ serverlist' = serverlist
      /\ toServer' = toServer \o more /\ sent < Len(script) /\ network' = network /\ taken' = taken
  BY DEF Send
<1>2. script \in Scripts /\ sent \in 0 .. Len(script) /\ serverlist = InitialList
  BY DEF Whole
<1>3. Len(script) \in Nat /\ sent \in 0 .. Len(script) - 1 /\ sent + 1 \in 0 .. Len(script)
  <2>1. Len(script) \in Nat
    BY <1>2, TextGrows
  <2> QED
    BY <1>1, <1>2, <2>1
<1>4. TextOf(script, sent + 1) = TextOf(script, sent) \o more /\ more \in Seq(Words)
  BY <1>2, <1>3, TextGrows
<1> HIDE DEF more
<1>5. ASSUME network = "whole"
      PROVE  /\ toServer' \in Seq(Words) /\ Sound(handler)
             /\ \E t \in 0 .. sent + 1 : AnsweredUpTo(handler, toServer', taken, script, sent + 1, t)
  <2>1. toServer \in Seq(Words) /\ Sound(handler)
    BY <1>5 DEF Whole
  <2>2. PICK t \in 0 .. sent : AnsweredUpTo(handler, toServer, taken, script, sent, t)
    BY <1>5 DEF Whole
  <2>3. t \in 0 .. sent + 1 /\ t \in 0 .. Len(script)
    BY <1>2, <1>3
  <2>4. TextOf(script, t) \in Seq(Words)
    BY <1>2, <2>3, TextGrows
  <2> DEFINE x == TextOf(script, t)
  <2> HIDE DEF x
  <2>5. x \o (toServer \o more) = (x \o toServer) \o more /\ toServer \o more \in Seq(Words)
    <3>1. x \in Seq(Words) /\ toServer \in Seq(Words) /\ more \in Seq(Words)
      BY <1>4, <2>1, <2>4 DEF x
    <3> DEFINE y == toServer
    <3>2. y \in Seq(Words)
      BY <3>1
    <3> HIDE DEF y
    <3>3. (x \o y) \o more = x \o (y \o more)
      BY <3>1, <3>2, ConcatAssociative
    <3>4. y \o more \in Seq(Words)
      BY <3>1, <3>2, ConcatProperties
    <3> QED
      BY <3>3, <3>4 DEF y
  <2>6. x \o toServer = TextOf(script, sent)
    BY <2>2 DEF AnsweredUpTo, x
  <2>7. x \o toServer' = TextOf(script, sent + 1) /\ toServer' \in Seq(Words)
    BY <1>1, <1>4, <2>5, <2>6
  <2>8. AnsweredUpTo(handler, toServer', taken, script, sent + 1, t)
    BY <2>2, <2>7 DEF AnsweredUpTo, x
  <2> QED
    BY <2>1, <2>3, <2>7, <2>8
<1> QED
  BY <1>1, <1>2, <1>3, <1>5 DEF Whole

\* The part of a text behind another that a longer beginning tells.
Follows(W, x, T, more, n) ==
    /\ SubSeq(more, 1, n) = T /\ SubSeq(more, n + 1, Len(more)) \in Seq(W)
    /\ (x \o T) \o SubSeq(more, n + 1, Len(more)) = x \o more /\ Len(x \o T) = Len(x) + n

LEMMA NextPart ==
    ASSUME NEW W, NEW x \in Seq(W), NEW T \in Seq(W), NEW more \in Seq(W), NEW n \in 1 .. Len(more),
           n = Len(T), \A i \in 1 .. Len(x \o T) : (x \o more)[i] = (x \o T)[i]
    PROVE  Follows(W, x, T, more, n)
<1> DEFINE L == Len(x)
           fragment == SubSeq(more, 1, n)
           rest == SubSeq(more, n + 1, Len(more))
           y == x \o T
           z == x \o more
<1>1. fragment \in Seq(W) /\ rest \in Seq(W) /\ fragment \o rest = more /\ Len(fragment) = n
  BY Cut
<1> HIDE DEF fragment, rest
<1>7. (x \o T) \o rest = x \o (T \o rest)
  <2>1. rest \in Seq(W)
    BY <1>1
  <2>2. Grouped(x, T, rest)
    BY <2>1, ConcatGrouped
  <2> QED
    BY <2>2 DEF Grouped
<1>2. /\ L \in Nat /\ Len(T) \in Nat /\ Len(y) = L + Len(T)
      /\ \A i \in 1 .. Len(T) : y[i + L] = T[i]
  <2>1. /\ L \in Nat /\ Len(T) \in Nat /\ Len(x \o T) = L + Len(T)
        /\ \A i \in 1 .. Len(T) : (x \o T)[i + L] = T[i]
    BY ConcatItems
  <2> QED
    BY <2>1
<1>3. Len(more) \in Nat /\ \A i \in 1 .. Len(more) : z[i + L] = more[i]
  <2>1. Len(more) \in Nat /\ \A i \in 1 .. Len(more) : (x \o more)[i + L] = more[i]
    BY ConcatItems
  <2> QED
    BY <2>1
<1>4. \A i \in 1 .. Len(fragment) : more[i] = fragment[i]
  <2>1. \A i \in 1 .. Len(fragment) : (fragment \o rest)[i] = fragment[i]
    BY <1>1, ConcatItems
  <2> QED
    BY <1>1, <2>1
<1>5. ASSUME NEW i \in 1 .. n PROVE fragment[i] = T[i]
  <2>1. i \in 1 .. Len(more) /\ i \in 1 .. Len(T) /\ i \in 1 .. Len(fragment)
    BY <1>1, <1>3
  <2>2. i + L \in 1 .. Len(y)
    BY <1>2, <2>1
  <2>3. z[i + L] = y[i + L]
    BY <2>2
  <2>4. z[i + L] = more[i] /\ more[i] = fragment[i] /\ y[i + L] = T[i]
    BY <1>2, <1>3, <1>4, <2>1
  <2> QED
    BY <2>3, <2>4
<1>6. fragment = T
  BY <1>1, <1>5, SeqEqual
<1>8. y \o rest = z
  BY <1>1, <1>6, <1>7
<1> QED
  BY <1>1, <1>2, <1>6, <1>8 DEF Follows, fragment, rest

\* The next n words are turn t + 1 of the m that were written.
TurnIsNext(s, m, t, text, n) ==
    /\ t + 1 \in 0 .. m /\ t + 1 \in DOMAIN s /\ t \in 0 .. Len(s) - 1
    /\ SubSeq(text, 1, n) = TurnText(s[t + 1])
    /\ SubSeq(text, n + 1, Len(text)) \in Seq(Words)
    /\ TextOf(s, t + 1) \o SubSeq(text, n + 1, Len(text)) = TextOf(s, m)
    /\ Len(TextOf(s, t + 1)) = Len(TextOf(s, t)) + n

LEMMA NextFragment ==
    ASSUME NEW s \in Scripts, NEW m \in 0 .. Len(s), NEW t \in 0 .. m,
           NEW text \in Seq(Words), TextOf(s, t) \o text = TextOf(s, m),
           NEW n \in 1 .. Len(text), n = Len(TurnText(s[t + 1]))
    PROVE  TurnIsNext(s, m, t, text, n)
<1> DEFINE x == TextOf(s, t)
           y == TextOf(s, t + 1)
           z == TextOf(s, m)
           T == TurnText(s[t + 1])
<1>1. Len(s) \in Nat /\ DOMAIN s = 1 .. Len(s) /\ t \in 0 .. Len(s) /\ m \in Nat /\ t \in Nat
  BY TextGrows
<1>2. x \in Seq(Words) /\ z \in Seq(Words)
  BY <1>1, TextGrows
<1>3. z = x \o text /\ n = Len(T) /\ text \in Seq(Words) /\ n \in 1 .. Len(text)
  OBVIOUS
<1>4. t # m
  <2> SUFFICES ASSUME t = m PROVE FALSE
    OBVIOUS
  <2>1. x \o text = x
    BY <1>3
  <2> HIDE DEF x
  <2>2. text = << >>
    BY <1>2, <2>1, ConcatEqualIffEmpty
  <2>3. Len(text) = 0
    BY <2>2, EmptySeq
  <2> QED
    BY <2>3
<1>5. t + 1 \in 0 .. m /\ t + 1 \in DOMAIN s /\ t \in 0 .. Len(s) - 1 /\ t + 1 \in 0 .. Len(s)
      /\ m \in t + 1 .. Len(s)
  BY <1>1, <1>4
<1>6. y = x \o T /\ T \in Seq(Words)
  BY <1>5, TextGrows
<1>7. \A i \in 1 .. Len(y) : z[i] = y[i]
  BY <1>5, TextBegins
<1> HIDE DEF x, y, z, T
<1>8. /\ SubSeq(text, 1, n) = T /\ SubSeq(text, n + 1, Len(text)) \in Seq(Words)
      /\ y \o SubSeq(text, n + 1, Len(text)) = z /\ Len(y) = Len(x) + n
  <2>1. \A i \in 1 .. Len(x \o T) : (x \o text)[i] = (x \o T)[i]
    BY <1>3, <1>6, <1>7
  <2>2. x \in Seq(Words) /\ T \in Seq(Words) /\ text \in Seq(Words) /\ n \in 1 .. Len(text) /\ n = Len(T)
    BY <1>2, <1>3, <1>6
  <2>3. /\ SubSeq(text, 1, n) = T /\ SubSeq(text, n + 1, Len(text)) \in Seq(Words)
        /\ (x \o T) \o SubSeq(text, n + 1, Len(text)) = x \o text /\ Len(x \o T) = Len(x) + n
    <3>1. Follows(Words, x, T, text, n)
      BY <2>1, <2>2, NextPart
    <3> QED
      BY <3>1 DEF Follows
  <2> QED
    BY <1>3, <1>6, <2>3
<1> QED
  BY <1>5, <1>8 DEF TurnIsNext, x, y, z, T

LEMMA ReceivedReady ==
    ASSUME NEW h, NEW o, Ready(h, o), h.rxBuffer = << >> \/ Holds(h.rxBuffer, Final),
           NEW W, NEW fragment \in Seq(W)
    PROVE  LET k == Received(h, fragment)
           IN  Ready(k, o) /\ k.rxBuffer = fragment /\ k.out = h.out
<1>1. PICK R, O, E : h \in [state : SocketState, timer : Timer, rxBuffer : R, hasValidated : Bit,
                            requestEnctype2 : Bit, out : O, served : Seq(E)]
  BY DEF Shape, Sound, Ready
<1>2. BufferOf(h) = << >>
  BY DEF BufferOf
<1>3. << >> \o fragment = fragment
  BY ConcatEmptySeq
<1> DEFINE k == Received(h, fragment)
<1>4. k = [h EXCEPT !.rxBuffer = fragment, !.timer = "running"]
  BY <1>2, <1>3 DEF Received
<1> HIDE DEF k
<1>5. /\ k \in [state : SocketState, timer : Timer, rxBuffer : {fragment}, hasValidated : Bit,
                requestEnctype2 : Bit, out : O, served : Seq(E)]
      /\ k.state = h.state /\ k.hasValidated = h.hasValidated /\ k.rxBuffer = fragment
      /\ k.requestEnctype2 = h.requestEnctype2 /\ k.out = h.out /\ k.served = h.served
  BY <1>1, <1>4 DEF Timer
<1>6. Sound(k)
  <2>1. Shape(k)
    BY <1>5 DEF Shape
  <2> QED
    BY <1>5, <2>1 DEF Sound, Ready
<1> QED
  BY <1>5, <1>6 DEF Ready, k

LEMMA WholeRead ==
    ASSUME Whole, Read
    PROVE  Whole'
<1>1. PICK n \in Fragments : OnListenClientRead(n) /\ taken' = taken + n
  BY DEF Read
<1>2. /\ script' = script /\ sent' = sent /\ network' = network /\ serverlist' = serverlist
      /\ handler.state = "open" /\ n \in 1 .. Len(toServer)
      /\ toServer' = SubSeq(toServer, n + 1, Len(toServer))
  BY <1>1 DEF Read, OnListenClientRead
<1>3. script \in Scripts /\ sent \in 0 .. Len(script) /\ serverlist = InitialList
  BY DEF Whole
<1>4. ASSUME network = "whole"
      PROVE  /\ toServer' \in Seq(Words) /\ Sound(handler')
             /\ \E t \in 0 .. sent : AnsweredUpTo(handler', toServer', taken', script, sent, t)
  <2>1. toServer \in Seq(Words)
    BY <1>4 DEF Whole
  <2>2. PICK t \in 0 .. sent : AnsweredUpTo(handler, toServer, taken, script, sent, t)
    BY <1>4 DEF Whole
  <2> DEFINE turn == script[t + 1]
             T == TurnText(turn)
             o == OutcomeOf(script, t)
             h == Received(handler, T)
             data == ParseGameSpy0Buffer(T)
  <2>3. n = Len(T)
    <3>1. taken = Len(TextOf(script, t))
      BY <2>2 DEF AnsweredUpTo
    <3>2. TurnsTaken = Cardinality({m \in 1 .. sent : Len(TextOf(script, m)) <= Len(TextOf(script, t))})
      BY <3>1 DEF TurnsTaken, SentText, TextOf
    <3>3. TurnsTaken = t
      BY <1>3, <3>2, TakenTurns
    <3>4. n \in {Len(TurnText(script[TurnsTaken + 1]))} \/ n \in {}
      BY <1>1, <1>4 DEF Fragments
    <3> QED
      BY <3>3, <3>4
  <2>4. /\ t + 1 \in 0 .. sent /\ t + 1 \in DOMAIN script /\ t \in 0 .. Len(script) - 1
        /\ SubSeq(toServer, 1, n) = T /\ toServer' \in Seq(Words)
        /\ TextOf(script, t + 1) \o toServer' = TextOf(script, sent)
        /\ Len(TextOf(script, t + 1)) = Len(TextOf(script, t)) + n
    <3>1. TextOf(script, t) \o toServer = TextOf(script, sent)
      BY <2>2 DEF AnsweredUpTo
    <3>2. /\ script \in Scripts /\ sent \in 0 .. Len(script) /\ t \in 0 .. sent
          /\ toServer \in Seq(Words) /\ n = Len(TurnText(script[t + 1])) /\ n \in 1 .. Len(toServer)
      BY <1>2, <1>3, <2>1, <2>3
    <3>3. TurnIsNext(script, sent, t, toServer, n)
      BY <3>1, <3>2, NextFragment
    <3> QED
      BY <1>2, <3>3 DEF TurnIsNext
  <2>5. T \in Seq(Words) /\ Holds(T, Final)
    BY <1>3, <2>4, TextGrows
  <2>6. turn \in Seq(Request) /\ \A i \in DOMAIN turn : Meant(turn[i])
    BY <1>3, <2>4, ScriptTurn
  <2>7. /\ Separate(turn)
        /\ \A i \in InTurn(turn, "validate") :
               ~RightAnswer(turn[i]) => ~Accepted(turn[i].answer, turn[i].name)
        /\ (handler.out # << >> => EchoedBy(script, (t + 1) - 1)) => Refusable(handler, turn)
    BY <1>3, <2>4, TurnFacts
  <2>8. /\ Ready(handler, o) /\ (handler.out # << >> => EchoedBy(script, t))
        /\ handler.rxBuffer = << >> \/ Holds(handler.rxBuffer, Final)
    BY <1>2, <2>2 DEF AnsweredUpTo
  <2>9. (t + 1) - 1 = t
    BY <1>3
  <2>10. Finds(data, turn)
    BY <2>6, <2>7, TurnFinds
  <2>11. Ready(h, o) /\ h.rxBuffer = T /\ h.out = handler.out
    BY <2>5, <2>8, ReceivedReady
  <2>12. handler' = Interaction(h, data)
    <3>1. handler' = IF Holds(SubSeq(toServer, 1, n), Final)
                     THEN Interaction(Received(handler, SubSeq(toServer, 1, n)),
                              ParseGameSpy0Buffer(Received(handler, SubSeq(toServer, 1, n)).rxBuffer))
                     ELSE Received(handler, SubSeq(toServer, 1, n))
      BY <1>1 DEF OnListenClientRead
    <3>2. handler' = Interaction(h, ParseGameSpy0Buffer(h.rxBuffer))
      BY <2>4, <2>5, <3>1
    <3> QED
      BY <2>11, <3>2
  <2>13. OutcomeOf(script, t + 1) = Expected(turn, o)
    BY <1>3, <2>4, OutcomeOneMore
  <2> HIDE DEF o, h, data, T, turn
  <2>14. Refusable(h, turn)
    BY <2>7, <2>8, <2>9, <2>11 DEF Refusable
  <2>15. Answered(h, handler', turn, o)
    <3>1. serverlist \in Table
      BY <1>3, InitialTable
    <3>2. Answered(h, Interaction(h, data), turn, o)
      BY <1>3, <2>6, <2>7, <2>10, <2>11, <2>14, <3>1, InteractionAnswers
    <3> QED
      BY <2>12, <3>2
  <2>16. /\ Sound(handler') /\ handler'.rxBuffer = T /\ handler'.served = OutcomeOf(script, t + 1).served
         /\ handler'.state = "open" =>
                /\ Ready(handler', OutcomeOf(script, t + 1))
                /\ handler'.out = << >> \/ handler.out # << >> \/ InTurn(turn, "echo") # {}
    BY <2>11, <2>13, <2>15 DEF Answered
  <2>17. handler.out # << >> \/ InTurn(turn, "echo") # {} => EchoedBy(script, t + 1)
    <3>1. 1 .. t \subseteq 1 .. t + 1 /\ t + 1 \in 1 .. t + 1
      BY <1>3
    <3> QED
      BY <2>8, <3>1 DEF EchoedBy, turn
  <2>18. taken' = Len(TextOf(script, t + 1))
    BY <1>1, <2>2, <2>4 DEF AnsweredUpTo
  <2>19. AnsweredUpTo(handler', toServer', taken', script, sent, t + 1)
    BY <2>4, <2>5, <2>16, <2>17, <2>18 DEF AnsweredUpTo
  <2> QED
    BY <2>4, <2>16, <2>19
<1> QED
  BY <1>2, <1>3, <1>4 DEF Whole

\* Steps that read nothing leave what was served.
LEMMA WholeKept ==
    ASSUME Whole, UNCHANGED <<serverlist, script, sent, network, toServer, taken>>,
           Sound(handler) =>
               /\ Sound(handler') /\ handler'.rxBuffer = handler.rxBuffer
               /\ handler'.served = handler.served
               /\ handler'.state = "open" =>
                      /\ handler.state = "open" /\ handler'.out \in {handler.out, << >>}
                      /\ handler'.hasValidated = handler.hasValidated
                      /\ handler'.requestEnctype2 = handler.requestEnctype2
    PROVE  Whole'
<1>1. ASSUME network = "whole"
      PROVE  /\ toServer \in Seq(Words) /\ Sound(handler')
             /\ \E t \in 0 .. sent : AnsweredUpTo(handler', toServer, taken, script, sent, t)
  <2>1. toServer \in Seq(Words) /\ Sound(handler)
    BY <1>1 DEF Whole
  <2>2. PICK t \in 0 .. sent : AnsweredUpTo(handler, toServer, taken, script, sent, t)
    BY <1>1 DEF Whole
  <2> DEFINE o == OutcomeOf(script, t)
  <2>3. ASSUME handler'.state = "open" PROVE Ready(handler', o) /\ (handler'.out # << >> => EchoedBy(script, t))
    <3>1. Ready(handler, o) /\ (handler.out # << >> => EchoedBy(script, t))
      BY <2>1, <2>2, <2>3 DEF AnsweredUpTo
    <3> HIDE DEF o
    <3> QED
      BY <2>1, <2>3, <3>1 DEF Ready
  <2>4. AnsweredUpTo(handler', toServer, taken, script, sent, t)
    BY <2>1, <2>2, <2>3 DEF AnsweredUpTo
  <2> QED
    BY <2>1, <2>4
<1> QED
  BY <1>1 DEF Whole

LEMMA WholeNext ==
    ASSUME Whole, [Next]_vars
    PROVE  Whole'
<1>1. CASE Send
  BY <1>1, WholeSend
<1>2. CASE Read
  BY <1>2, WholeRead
<1>3. CASE TimeOut
  <2>1. handler' = Disconnect(handler) /\ UNCHANGED <<serverlist, script, sent, network, toServer, taken>>
    BY <1>3 DEF TimeOut, OnListenClientTimeOut
  <2>2. ASSUME Sound(handler)
        PROVE  /\ Sound(handler') /\ handler'.rxBuffer = handler.rxBuffer
               /\ handler'.served = handler.served /\ handler'.state # "open"
    BY <2>1, <2>2, DisconnectView
  <2> QED
    BY <2>1, <2>2, WholeKept
<1>4. CASE Disconnected
  <2>1. /\ handler' = [handler EXCEPT !.state = "closed", !.timer = "stopped"]
        /\ UNCHANGED <<serverlist, script, sent, network, toServer, taken>>
    BY <1>4 DEF Disconnected, OnListenClientDisconnect
  <2>2. ASSUME Sound(handler)
        PROVE  /\ Sound(handler') /\ handler'.rxBuffer = handler.rxBuffer
               /\ handler'.served = handler.served /\ handler'.state # "open"
    <3>1. PICK R, O, E : handler \in [state : SocketState, timer : Timer, rxBuffer : R,
                            hasValidated : Bit, requestEnctype2 : Bit, out : O, served : Seq(E)]
      BY <2>2 DEF Shape, Sound
    <3>2. /\ handler' \in [state : SocketState, timer : Timer, rxBuffer : R,
                           hasValidated : Bit, requestEnctype2 : Bit, out : O, served : Seq(E)]
          /\ handler'.rxBuffer = handler.rxBuffer /\ handler'.out = handler.out
          /\ handler'.served = handler.served /\ handler'.state # "open"
      BY <2>1, <3>1 DEF SocketState, Timer
    <3>3. Shape(handler')
      BY <3>2 DEF Shape
    <3> QED
      BY <2>2, <3>2, <3>3 DEF Sound
  <2> QED
    BY <2>1, <2>2, WholeKept
<1>5. CASE Drain
  <2> DEFINE n == Len(handler.out)
  <2>1. /\ handler' = [handler EXCEPT !.out = SubSeq(@, n + 1, Len(@)),
                          !.state = IF @ = "closing" /\ n = Len(handler.out) THEN "closed" ELSE @]
        /\ n \in 1 .. n /\ UNCHANGED <<serverlist, script, sent, network, toServer, taken>>
    BY <1>5 DEF Drain, Flush
  <2>2. SubSeq(handler.out, n + 1, n) = << >>
    <3>1. n \in Int
      BY <2>1
    <3> HIDE DEF n
    <3> QED
      BY <3>1, SubSeqEmpty
  <2>3. ASSUME Sound(handler)
        PROVE  /\ Sound(handler') /\ handler'.rxBuffer = handler.rxBuffer
               /\ handler'.served = handler.served
               /\ handler'.state = "open" =>
                      /\ handler.state = "open" /\ handler'.out \in {handler.out, << >>}
                      /\ handler'.hasValidated = handler.hasValidated
                      /\ handler'.requestEnctype2 = handler.requestEnctype2
    <3>1. PICK R, O, E : handler \in [state : SocketState, timer : Timer, rxBuffer : R,
                            hasValidated : Bit, requestEnctype2 : Bit, out : O, served : Seq(E)]
      BY <2>3 DEF Shape, Sound
    <3> DEFINE st == IF handler.state = "closing" THEN "closed" ELSE handler.state
    <3>2. handler' = [handler EXCEPT !.out = << >>, !.state = st]
      BY <2>1, <2>2, <3>1
    <3>3. /\ handler' \in [state : SocketState, timer : Timer, rxBuffer : R,
                           hasValidated : Bit, requestEnctype2 : Bit, out : {<< >>}, served : Seq(E)]
          /\ handler'.rxBuffer = handler.rxBuffer /\ handler'.out = << >>
          /\ handler'.served = handler.served /\ handler'.state = st
          /\ handler'.hasValidated = handler.hasValidated
          /\ handler'.requestEnctype2 = handler.requestEnctype2
      BY <3>1, <3>2 DEF SocketState
    <3>4. Shape(handler')
      BY <3>3 DEF Shape
    <3>5. IsText(<< >>)
      BY EmptySeq DEF IsText
    <3> QED
      BY <3>3, <3>4, <3>5 DEF Sound
  <2> QED
    BY <2>1, <2>3, WholeKept
<1>6. CASE HangUp \/ Over \/ UNCHANGED vars
  <2>1. UNCHANGED <<serverlist, script, sent, network, toServer, taken, handler>>
    BY <1>6 DEF HangUp, Over, vars, connection
  <2> QED
    BY <2>1, WholeKept
<1> QED
  BY <1>1, <1>2, <1>3, <1>4, <1>5, <1>6 DEF Next

LEMMA WholeIsAnswered == Whole => AnsweredWhenWhole
<1> SUFFICES ASSUME Whole, network = "whole" PROVE handler.served = ExpectedAfter(TurnsTaken).served
  BY DEF AnsweredWhenWhole
<1>1. script \in Scripts /\ sent \in 0 .. Len(script)
  BY DEF Whole
<1>2. PICK t \in 0 .. sent : AnsweredUpTo(handler, toServer, taken, script, sent, t)
  BY DEF Whole
<1>3. taken = Len(TextOf(script, t)) /\ handler.served = OutcomeOf(script, t).served
  BY <1>2 DEF AnsweredUpTo
<1>4. TurnsTaken = Cardinality({m \in 1 .. sent : Len(TextOf(script, m)) <= Len(TextOf(script, t))})
  BY <1>3 DEF TurnsTaken, SentText, TextOf
<1>5. TurnsTaken = t
  BY <1>1, <1>4, TakenTurns
<1> QED
  BY <1>3, <1>5, ExpectedIsOutcome

\* When the network keeps writes whole, each turn that was read has been answered with
\* what it asks for, whatever was asked before over the same connection: the parser, the
\* buffer and the slot together do what the requests say, for any scripts of requests.
THEOREM AnsweredWhenWholeHolds == Spec => []AnsweredWhenWhole
<1>1. Init => Whole
  BY WholeInit
<1>2. Whole /\ [Next]_vars => Whole'
  BY WholeNext
<1> QED
  BY <1>1, <1>2, WholeIsAnswered, PTL DEF Spec
=============================================================================
